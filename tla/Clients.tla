------------------------------- MODULE Clients -------------------------------
(***************************************************************************)
(* The store together with the clients of its HTTP interface.  Each client *)
(* wants one command done on a batch they share: it reads the version,     *)
(* sends the command under a key of its own, sends it again unchanged when *)
(* it gets no answer or an error, and after a conflict reads the version   *)
(* again and takes a new key.  One client creates the batch, under the key *)
(* its identifier is derived from.                                         *)
(*                                                                         *)
(* A request may be processed any number of times and arbitrarily late,    *)
(* also after its sender has moved on to another key.                      *)
(***************************************************************************)
EXTENDS EventStore

CONSTANTS
  People,   \* the clients
  Creator,  \* the one who creates the batch
  Shared,   \* the batch
  Change    \* the command of the others

ASSUME ClientsAssumption ==
  /\ Creator \in People
  /\ Shared \in Batches
  /\ Change \in Commands \ {CreateBatch}
  /\ CreationKey[Shared] = <<Creator, 1>>
ASSUME PeopleAssumption ==
  /\ IsFiniteSet(People) /\ People \subseteq Bodies
  /\ People \X (1 .. Cardinality(People)) \subseteq Keys

VARIABLES
  pc,        \* client -> "reading", "waiting" for an answer, or "done"
  attempt,   \* client -> the number of its current key
  expected,  \* client -> the version it read for it
  sent       \* the requests in the network, each possibly several times

clientVars == <<pc, attempt, expected, sent>>
allVars == <<vars, clientVars>>

-----------------------------------------------------------------------------

RequestOf(c, version) ==
  [batch |-> Shared, key |-> <<c, attempt[c]>>,
   command |-> IF c = Creator THEN CreateBatch ELSE Change,
   body |-> c, expected |-> version]

\* GET of the batch, and the first sending of the command.
Read(c) ==
  /\ up
  /\ pc[c] = "reading"
  /\ Version(Shared) > 0
  /\ pc' = [pc EXCEPT ![c] = "waiting"]
  /\ expected' = [expected EXCEPT ![c] = Version(Shared)]
  /\ sent' = sent \cup {RequestOf(c, Version(Shared))}
  /\ UNCHANGED <<attempt, vars>>

\* The answer to the current request arrives: its result, or a conflict.
Receive(c) ==
  LET req == RequestOf(c, expected[c]) IN
  /\ pc[c] = "waiting"
  /\ \/ /\ Replay(req) \/ (Commit(req) /\ answers' # answers)
        /\ pc' = [pc EXCEPT ![c] = "done"]
        /\ UNCHANGED attempt
     \/ /\ Refuses(req)
        /\ pc' = [pc EXCEPT ![c] = "reading"]
        /\ attempt' = [attempt EXCEPT ![c] = @ + 1]
        /\ UNCHANGED vars
  /\ UNCHANGED <<expected, sent>>

\* A request is processed and its answer, or the error, reaches nobody.
Process(req) ==
  /\ \/ Replay(req)
     \/ Commit(req)
     \/ \E left \in AppendFailures : FailToAppend(req, left)
  /\ UNCHANGED clientVars

-----------------------------------------------------------------------------

ClientsInit ==
  /\ Init
  /\ pc = [c \in People |-> IF c = Creator THEN "waiting" ELSE "reading"]
  /\ attempt = [c \in People |-> 1]
  /\ expected = [c \in People |-> 0]
  /\ sent = {RequestOf(Creator, 0)}

ClientsNext ==
  \/ \E c \in People : Read(c) \/ Receive(c)
  \/ \E req \in sent : Process(req)
  \/ (Crash \/ Open \/ FailToOpen \/ LoseSnapshot) /\ UNCHANGED clientVars

ClientsSafety == ClientsInit /\ [][ClientsNext]_allVars

\* A stopped service is started again and its disk works then, and a client that
\* asks over and over is in the end answered, though any single answer may be
\* lost and the service may stop in between any number of times.
Fairness ==
  /\ WF_allVars(Open /\ UNCHANGED clientVars)
  /\ \A c \in People : SF_allVars(Read(c)) /\ SF_allVars(Receive(c))

ClientsSpec == ClientsSafety /\ Fairness

-----------------------------------------------------------------------------

\* The commands of c that have taken effect.
Effects(c) == {i \in DOMAIN projection[Shared] : projection[Shared][i].body = c}

\* Every client's command takes effect at most once, over all the keys it used
\* and all the copies of its requests, and has done so when it is told.
EffectiveOnce ==
  up => \A c \in People :
          /\ Cardinality(Effects(c)) <= 1
          /\ pc[c] = "done" => Effects(c) # {}

\* A conflict is a promise: a client that was refused may send its command again
\* under a new key, for none of its earlier requests has taken effect or ever will.
RefusedHasNoEffect ==
  up => \A c \in People :
          /\ pc[c] = "reading" => Effects(c) = {}
          /\ \A i \in Effects(c) : projection[Shared][i].key = <<c, attempt[c]>>

\* A client is refused only because another one got ahead of it, and the one who
\* creates the batch never is: the number of keys a client uses is bounded by the
\* number of the others.
RefusalsBounded ==
  /\ attempt[Creator] = 1
  /\ up => \A c \in People :
       attempt[c] <= 1 + Cardinality({d \in People \ {c, Creator} : Effects(d) # {}})

\* Every client is eventually told that its command was done, whatever answers
\* were lost and however often the service stopped, unless an append failed half
\* way: then the service may refuse its ledger for good.
EveryoneServed == \A c \in People : <>(pc[c] = "done" \/ damaged)

=============================================================================
