------------------------------- MODULE Server -------------------------------
(***************************************************************************)
(* The process: cmd/server run, the HTTP server it starts in a goroutine   *)
(* of its own, the handlers, and the selfcheck, which is a client of the   *)
(* server in the same process.  A handler takes as long as it likes, or    *)
(* for ever: it waits for slow clients, for the store and for the disk.    *)
(*                                                                         *)
(* A request is 0, a probe of /healthz, or one of the calls 1..Calls; what *)
(* a call asks for is the subject of Calibration and EventStore.           *)
(***************************************************************************)
EXTENDS Integers

CONSTANT Calls  \* the number of calls; in the selfcheck, those of its script

ASSUME CallsAssumption == Calls \in Nat

Requests == 0 .. Calls

VARIABLES
  mode,      \* "service" or "selfcheck"; the selfcheck uses a temporary directory
  pc,        \* where the main goroutine is
  result,    \* what run returns, or "killed"; "none" before
  serve,     \* Serve: "idle", "running", or what it returned, which is in errCh
  closing,   \* the server has been told to shut down
  signals,   \* a signal is in the channel
  requests,  \* request -> where it is
  call,      \* selfcheck: the request it is at
  expired,   \* selfcheck: its context has ended
  files      \* the data directory: "absent", "empty" or "used"

vars == <<mode, pc, result, serve, closing, signals, requests, call, expired, files>>

Active == {r \in Requests : requests[r] \in {"handling", "written"}}

\* The exit of the process ends all its goroutines.
Alive == pc # "exited"

Outcomes == {"closed", "failed"}

Return(value) == pc' = "returning" /\ result' = value

-----------------------------------------------------------------------------
(* Starting. *)

\* The store is opened and the address bound, or one of them fails.
Start ==
  /\ pc = "starting"
  /\ files' = "used"
  /\ \/ /\ serve' = "ready"
        /\ pc' = IF mode = "selfcheck" THEN "asking" ELSE "notify"
        /\ UNCHANGED result
     \/ Return("error") /\ UNCHANGED serve
  /\ UNCHANGED <<mode, closing, signals, requests, call, expired>>

\* Requests are served from here on, but a signal still kills the process.
Notify ==
  /\ pc = "notify"
  /\ pc' = "selecting"
  /\ UNCHANGED <<mode, result, serve, closing, signals, requests, call, expired, files>>

-----------------------------------------------------------------------------
(* The goroutine of Serve, its handlers and their clients. *)

Serve ==
  /\ Alive
  /\ serve = "ready"
  /\ serve' = IF closing THEN "closed" ELSE "running"
  /\ UNCHANGED <<mode, pc, result, closing, signals, requests, call, expired, files>>

\* Accept reports an error, that of the closed listener or another.
ServeReturns ==
  /\ Alive
  /\ serve = "running"
  /\ serve' = IF closing THEN "closed" ELSE "failed"
  /\ UNCHANGED <<mode, pc, result, closing, signals, requests, call, expired, files>>

\* A client of the service; the listener queues what is not accepted yet.
Send(r) ==
  /\ Alive
  /\ mode = "service"
  /\ serve \in {"ready", "running"}
  /\ ~closing
  /\ requests[r] = "unsent"
  /\ requests' = [requests EXCEPT ![r] = "sent"]
  /\ UNCHANGED <<mode, pc, result, serve, closing, signals, call, expired, files>>

Accept(r) ==
  /\ Alive
  /\ serve = "running"
  /\ ~closing
  /\ requests[r] = "sent"
  /\ requests' = [requests EXCEPT ![r] = "handling"]
  /\ UNCHANGED <<mode, pc, result, serve, closing, signals, call, expired, files>>

\* The store writes the event and the snapshot; it does not make a directory.
Write(r) ==
  /\ Alive
  /\ r > 0
  /\ requests[r] = "handling"
  /\ files # "absent"
  /\ requests' = [requests EXCEPT ![r] = "written"]
  /\ files' = "used"
  /\ UNCHANGED <<mode, pc, result, serve, closing, signals, call, expired>>

\* What is answered without a write is a query or a repeated command; after a
\* write the snapshot may have failed.
Answer(r) ==
  /\ Alive
  /\ r \in Active
  /\ \E outcome \in {"answered", "refused"} :
       requests' = [requests EXCEPT ![r] = outcome]
  /\ UNCHANGED <<mode, pc, result, serve, closing, signals, call, expired, files>>

-----------------------------------------------------------------------------
(* Signals. *)

Listening == mode = "service" /\ pc \in {"selecting", "shutdown", "draining"}

\* The channel holds one signal, a further one is dropped; outside Listening the
\* signal kills the process.
Signal ==
  /\ Alive
  /\ IF Listening THEN signals' = TRUE /\ UNCHANGED <<pc, result>>
                  ELSE pc' = "exited" /\ result' = "killed" /\ UNCHANGED signals
  /\ UNCHANGED <<mode, serve, closing, requests, call, expired, files>>

\* Select takes either when both are there.
Select ==
  /\ pc = "selecting"
  /\ \/ signals /\ pc' = "shutdown" /\ signals' = FALSE /\ UNCHANGED result
     \/ serve = "failed" /\ Return("error") /\ UNCHANGED signals
  /\ UNCHANGED <<mode, serve, closing, requests, call, expired, files>>

-----------------------------------------------------------------------------
(* Shutdown. *)

Shutdown ==
  /\ pc = "shutdown"
  /\ closing' = TRUE
  /\ pc' = "draining"
  /\ UNCHANGED <<mode, result, serve, signals, requests, call, expired, files>>

\* Fault: the server does not wait for its handlers.
DrainedAtOnce == TRUE

Drained == Active = {}

\* Fault: Shutdown has no deadline of its own.
NoDeadline == FALSE

\* The deadline of 5 seconds can pass only while a handler is active.
Deadline == Active # {}

Drain ==
  /\ pc = "draining"
  /\ \/ /\ Drained
        /\ IF mode = "service" THEN Return("ok") ELSE pc' = "joining" /\ UNCHANGED result
     \/ Deadline /\ Return("error")
  /\ UNCHANGED <<mode, serve, closing, signals, requests, call, expired, files>>

\* The deferred calls, and the exit.  The temporary directory is removed file by
\* file; what is created meanwhile makes the removal of the directory fail, and
\* nobody looks at that error.
Cleanup ==
  \/ /\ pc = "returning"
     /\ IF mode = "selfcheck"
        THEN pc' = "emptied" /\ files' = "empty"
        ELSE pc' = "exited" /\ UNCHANGED files
     /\ UNCHANGED <<mode, result, serve, closing, signals, requests, call, expired>>
  \/ /\ pc = "emptied"
     /\ files' = IF files = "empty" THEN "absent" ELSE files
     /\ pc' = "exited"
     /\ UNCHANGED <<mode, result, serve, closing, signals, requests, call, expired>>

-----------------------------------------------------------------------------
(* RunSelfcheck. *)

Expire ==
  /\ mode = "selfcheck"
  /\ pc \in {"asking", "waiting", "ticking", "shutdown", "draining", "joining"}
  /\ ~expired
  /\ expired' = TRUE
  /\ UNCHANGED <<mode, pc, result, serve, closing, signals, requests, call, files>>

\* A probe that is sent again takes the place of the one before, which reads and
\* changes nothing.  The connection is refused once Serve has returned.
Ask ==
  /\ pc = "asking"
  /\ ~expired /\ serve \notin Outcomes
  /\ requests' = [requests EXCEPT ![call] = "sent"]
  /\ pc' = "waiting"
  /\ UNCHANGED <<mode, result, serve, closing, signals, call, expired, files>>

\* The script goes on with the next request, and after the last the server is
\* shut down.
Receive ==
  /\ pc = "waiting"
  /\ requests[call] = "answered"
  /\ IF call = Calls THEN pc' = "shutdown" /\ UNCHANGED call
                     ELSE pc' = "asking" /\ call' = call + 1
  /\ UNCHANGED <<mode, result, serve, closing, signals, requests, expired, files>>

\* The call fails: refused by the server or by the network, too slow (3 seconds),
\* or out of context.  Only a probe is repeated.
CallFails ==
  /\ \/ pc = "waiting" /\ requests[call] # "answered"
     \/ pc = "asking" /\ (expired \/ serve \in Outcomes)
  /\ IF call = 0 THEN pc' = "ticking" /\ UNCHANGED result ELSE Return("error")
  /\ UNCHANGED <<mode, serve, closing, signals, requests, call, expired, files>>

Tick ==
  /\ pc = "ticking"
  /\ pc' = "asking"
  /\ UNCHANGED <<mode, result, serve, closing, signals, requests, call, expired, files>>

\* Fault: the context is not looked at between two probes.
KeepAsking == FALSE /\ UNCHANGED vars

GiveUp ==
  /\ pc = "ticking"
  /\ expired
  /\ Return("error")
  /\ UNCHANGED <<mode, serve, closing, signals, requests, call, expired, files>>

\* Fault: a selfcheck whose time is up at the end has passed.
JoinAnyway ==
  /\ pc = "joining"
  /\ serve \in Outcomes \/ expired
  /\ Return("ok")
  /\ UNCHANGED <<mode, serve, closing, signals, requests, call, expired, files>>

\* Select takes either when Serve has returned and the context has ended.
Join ==
  /\ pc = "joining"
  /\ \/ serve \in Outcomes /\ Return(IF serve = "closed" THEN "ok" ELSE "error")
     \/ expired /\ Return("error")
  /\ UNCHANGED <<mode, serve, closing, signals, requests, call, expired, files>>

-----------------------------------------------------------------------------

Init ==
  /\ mode \in {"service", "selfcheck"}
  /\ pc = "starting"
  /\ result = "none"
  /\ serve = "idle"
  /\ closing = FALSE
  /\ signals = FALSE
  /\ requests = [r \in Requests |-> "unsent"]
  /\ call = 0
  /\ expired = FALSE
  /\ files = "absent"

\* The steps of the main goroutine.
Main ==
  \/ Start
  \/ Notify
  \/ Select
  \/ Shutdown
  \/ Drain
  \/ Cleanup
  \/ Ask
  \/ Receive
  \/ CallFails
  \/ Tick
  \/ GiveUp
  \/ Join

Handler(r) == Accept(r) \/ Write(r) \/ Answer(r)

Next ==
  \/ Main
  \/ Serve
  \/ ServeReturns
  \/ \E r \in Requests : Send(r) \/ Handler(r)
  \/ Signal
  \/ Expire

Spec == Init /\ [][Next]_vars

\* Goroutines that can run do, and timers fire; the select between the ticker
\* and the context is a fair coin, so it does not take the ticker for ever.
\* Nothing is assumed of handlers, clients and signals.
FairSpec ==
  /\ Spec
  /\ WF_vars(Main)
  /\ WF_vars(Serve \/ (closing /\ ServeReturns))
  /\ WF_vars(Expire)
  /\ SF_vars(GiveUp)

-----------------------------------------------------------------------------

\* Run returns without an error only when every handler has ended: no client is
\* cut off, and none writes to a directory that is being removed.
CleanExit == pc \in {"returning", "emptied", "exited"} /\ result = "ok" => Active = {}

\* A selfcheck that passes has had every call answered, has shut its server down,
\* and leaves no temporary directory behind, whatever the order in which the
\* goroutine of Serve, the timers and the handlers ran.
SelfcheckProves ==
  mode = "selfcheck" /\ pc = "exited" /\ result = "ok" =>
    /\ \A r \in Requests : requests[r] = "answered"
    /\ serve = "closed"
    /\ files = "absent"

\* README "bounded selfcheck": it ends, also when the server never becomes
\* healthy, or a handler hangs.
SelfcheckEnds == mode = "selfcheck" ~> pc = "exited"

\* Once a signal is in the channel the process ends, whatever its handlers and
\* their clients do, and though no further signal is listened to.
SignalEnds == signals ~> pc = "exited"

=============================================================================
