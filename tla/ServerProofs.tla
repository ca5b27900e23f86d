---------------------------- MODULE ServerProofs ----------------------------
(***************************************************************************)
(* Whatever the number of calls: run returns without an error only when    *)
(* every handler has ended, and a selfcheck that passes has proved what it *)
(* was meant to prove and left nothing behind.                             *)
(***************************************************************************)
EXTENDS Server, TLAPS

Places == {"unsent", "sent", "handling", "written", "answered", "refused"}

\* From the end of Drain on the server is closed and empty.
Quiet ==
  /\ requests \in [Requests -> Places]
  /\ pc = "draining" => closing
  /\ result = "ok" \/ pc = "joining" => closing /\ Active = {}

\* A step that starts no handler leaves an empty server empty.
LEMMA StaysEmpty ==
  ASSUME Active = {},
         \A r \in Requests :
           requests'[r] \in {"handling", "written"} => requests[r] \in {"handling", "written"}
  PROVE  Active' = {}
BY DEF Active

\* Nothing is at work at the start.
LEMMA QuietInit == Init => Quiet
BY DEF Init, Quiet, Places

\* The main goroutine keeps Quiet: a clean exit goes through a drained shutdown.
LEMMA QuietMain == Quiet /\ Main => Quiet'
<1> SUFFICES ASSUME Quiet, Main PROVE Quiet'
  OBVIOUS
<1> USE DEF Quiet, Places, Return
<1>1. CASE Start
  BY <1>1 DEF Start, Active
<1>2. CASE Notify \/ Select \/ Tick
  BY <1>2 DEF Notify, Select, Tick, Active
<1>3. CASE Shutdown
  BY <1>3 DEF Shutdown, Active
<1>4. CASE Drain
  BY <1>4 DEF Drain, Drained, Active
<1>5. CASE Cleanup
  BY <1>5 DEF Cleanup, Active
<1>6. CASE Ask
  <2>1. requests' = [requests EXCEPT ![call] = "sent"] /\ UNCHANGED <<result, closing>>
    BY <1>6 DEF Ask
  <2>2. result = "ok" => Active' = {}
    BY <2>1, StaysEmpty
  <2>3. requests' \in [Requests -> Places]
    BY <2>1
  <2>4. pc' = "waiting"
    BY <1>6 DEF Ask
  <2> QED
    BY <2>1, <2>2, <2>3, <2>4
<1>7. CASE Receive
  <2>1. pc' \in {"shutdown", "asking"} /\ UNCHANGED <<result, closing, requests>>
    BY <1>7 DEF Receive
  <2> QED
    BY <2>1 DEF Active
<1>8. CASE CallFails
  BY <1>8 DEF CallFails, Active
<1>9. CASE GiveUp \/ Join
  BY <1>9 DEF GiveUp, Join, Active
<1> QED
  BY <1>1, <1>2, <1>3, <1>4, <1>5, <1>6, <1>7, <1>8, <1>9 DEF Main

\* A closed server accepts nothing, and its handlers only end.
LEMMA QuietHandler == ASSUME NEW r \in Requests, Quiet, Handler(r) PROVE Quiet'
<1> USE DEF Quiet, Places
<1>1. CASE Accept(r)
  BY <1>1 DEF Accept
<1>2. CASE Write(r) \/ Answer(r)
  <2>1. requests[r] \in {"handling", "written"} /\ UNCHANGED <<pc, result, closing>>
    BY <1>2 DEF Write, Answer, Active
  <2>2. Active # {}
    BY <2>1 DEF Active
  <2>3. requests' \in [Requests -> Places]
    BY <1>2 DEF Write, Answer
  <2> QED
    BY <2>1, <2>2, <2>3
<1> QED
  BY <1>1, <1>2 DEF Handler

\* Quiet is inductive.
LEMMA QuietNext == Quiet /\ [Next]_vars => Quiet'
<1> SUFFICES ASSUME Quiet, [Next]_vars PROVE Quiet'
  OBVIOUS
<1>1. CASE Main
  BY <1>1, QuietMain
<1>2. ASSUME NEW r \in Requests, Handler(r) PROVE Quiet'
  BY <1>2, QuietHandler
<1>3. ASSUME NEW r \in Requests, Send(r) PROVE Quiet'
  BY <1>3 DEF Send, Quiet, Places
<1>4. CASE Signal
  BY <1>4 DEF Signal, Quiet, Active
<1>5. CASE Serve \/ ServeReturns \/ Expire \/ UNCHANGED vars
  BY <1>5 DEF Serve, ServeReturns, Expire, vars, Quiet, Active
<1> QED
  BY <1>1, <1>2, <1>3, <1>4, <1>5 DEF Next

\* Nobody is cut off by an exit without an error: CleanExit, for any number of
\* calls under way.
THEOREM ExitClean == Spec => []CleanExit
<1>1. Quiet => CleanExit
  BY DEF Quiet, CleanExit
<1> QED
  BY <1>1, QuietInit, QuietNext, PTL DEF Spec

-----------------------------------------------------------------------------
(* The selfcheck. *)

Asked == \A r \in Requests : r < call => requests[r] = "answered"

AllAnswered == \A r \in Requests : requests[r] = "answered"

\* The script has been answered up to the call it is at, to its end when the server
\* is told to shut down; after that the result depends on Serve alone, and the
\* deferred calls remove a directory in which nobody writes any more.
Script ==
  mode = "selfcheck" =>
    /\ call \in Requests
    /\ pc \notin {"notify", "selecting"}
    /\ Asked
    /\ pc \in {"shutdown", "draining", "joining"} \/ result = "ok" => AllAnswered
    /\ result = "ok" =>
         /\ pc \in {"returning", "emptied", "exited"}
         /\ serve = "closed"
         /\ pc = "emptied" => files = "empty"
         /\ pc = "exited" => files = "absent"

\* The selfcheck has asked nothing at the start.
LEMMA ScriptInit == Init => Script
BY CallsAssumption DEF Init, Script, Asked, Requests

\* Steps that keep what the invariant says of the main goroutine and its calls.
LEMMA ScriptFrame ==
  ASSUME Script, UNCHANGED <<mode, pc, result, call, serve, files>>,
         \A r \in Requests : requests[r] = "answered" => requests'[r] = "answered"
  PROVE  Script'
BY DEF Script, Asked, AllAnswered

\* The selfcheck goes on only after an answer, and to the end only after the last.
LEMMA ScriptMain == Quiet /\ Script /\ Main => Script'
<1> SUFFICES ASSUME Quiet, Script, Main, mode' = "selfcheck" PROVE Script'
  BY DEF Script
<1>0. mode' = mode
  BY DEF Main, Start, Notify, Select, Shutdown, Drain, Cleanup, Ask, Receive, CallFails,
     Tick, GiveUp, Join
<1> USE DEF Script, Asked, AllAnswered, Return
<1>1. CASE Start
  BY <1>0, <1>1 DEF Start
<1>2. CASE Notify \/ Select \/ Tick
  BY <1>0, <1>2 DEF Notify, Select, Tick
<1>3. CASE Shutdown
  BY <1>0, <1>3 DEF Shutdown
<1>4. CASE Drain
  BY <1>0, <1>4 DEF Drain
<1>5. CASE Cleanup
  BY <1>0, <1>5 DEF Cleanup
<1>6. CASE Ask
  BY <1>0, <1>6, CallsAssumption DEF Ask, Quiet, Requests
<1>7. CASE Receive
  <2>1. CASE call = Calls
    BY <1>0, <1>7, <2>1, CallsAssumption DEF Receive, Requests
  <2>2. CASE call # Calls
    BY <1>0, <1>7, <2>2, CallsAssumption DEF Receive, Requests
  <2>3. QED
    BY <2>1, <2>2
<1>8. CASE CallFails
  BY <1>0, <1>8 DEF CallFails
<1>9. CASE GiveUp
  BY <1>0, <1>9 DEF GiveUp
<1>10. CASE Join
  BY <1>0, <1>10 DEF Join
<1> QED
  BY <1>1, <1>2, <1>3, <1>4, <1>5, <1>6, <1>7, <1>8, <1>9, <1>10 DEF Main

\* A handler is active while it writes, and a passing selfcheck has none.
LEMMA ScriptHandler ==
  ASSUME NEW r \in Requests, Quiet, Script, Handler(r)
  PROVE  Script'
<1>1. CASE Accept(r)
  BY <1>1, ScriptFrame DEF Accept, Quiet
<1>2. CASE Write(r)
  <2>1. /\ UNCHANGED <<mode, pc, result, call, serve>>
        /\ requests' = [requests EXCEPT ![r] = "written"] /\ requests[r] = "handling"
    BY <1>2 DEF Write
  <2>2. result # "ok"
    BY <2>1 DEF Quiet, Active
  <2>3. QED
    BY <2>1, <2>2 DEF Script, Asked, AllAnswered, Quiet
<1>3. CASE Answer(r)
  BY <1>3, ScriptFrame DEF Answer, Active, Quiet
<1> QED
  BY <1>1, <1>2, <1>3 DEF Handler

\* Script is inductive together with Quiet.
LEMMA ScriptNext == Quiet /\ Script /\ [Next]_vars => Script'
<1> SUFFICES ASSUME Quiet, Script, [Next]_vars PROVE Script'
  OBVIOUS
<1>1. CASE Main
  BY <1>1, ScriptMain
<1>2. ASSUME NEW r \in Requests, Handler(r) PROVE Script'
  BY <1>2, ScriptHandler
<1>3. ASSUME NEW r \in Requests, Send(r) PROVE Script'
  BY <1>3 DEF Send, Script
<1>4. CASE Signal
  <2>1. CASE mode = "selfcheck"
    BY <1>4, <2>1 DEF Signal, Listening, Script, Asked
  <2>2. CASE mode # "selfcheck"
    BY <1>4, <2>2 DEF Signal, Script
  <2>3. QED
    BY <2>1, <2>2
<1>5. CASE Serve \/ ServeReturns
  BY <1>5 DEF Serve, ServeReturns, Script, Asked, AllAnswered
<1>6. CASE Expire \/ UNCHANGED vars
  BY <1>6, ScriptFrame DEF Expire, vars
<1> QED
  BY <1>1, <1>2, <1>3, <1>4, <1>5, <1>6 DEF Next

\* A selfcheck that passes has had every call answered, has shut its server down and
\* leaves no temporary directory behind: SelfcheckProves, for a script of any length.
THEOREM PassingSelfcheckProves == Spec => []SelfcheckProves
<1>1. Script => SelfcheckProves
  BY DEF Script, AllAnswered, SelfcheckProves
<1> QED
  BY <1>1, QuietInit, QuietNext, ScriptInit, ScriptNext, PTL DEF Spec

=============================================================================
