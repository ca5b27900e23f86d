--------------------------- MODULE ClientsProofs ---------------------------
(***************************************************************************)
(* Theorems about the store together with its clients, for any number of   *)
(* clients, copies of their requests, failures and restarts.               *)
(***************************************************************************)
EXTENDS Clients, EventStoreProofs, FiniteSetTheorems

-----------------------------------------------------------------------------
(* The inductive invariant. *)

\* The commands applied to the batch that is shared.
Done == projection[Shared]

Used(key) == \E i \in DOMAIN Done : Done[i].key = key

ClientsTypeOK ==
  /\ pc \in [People -> {"reading", "waiting", "done"}]
  /\ attempt \in [People -> Nat \ {0}]
  /\ expected \in [People -> Nat]
  /\ sent \subseteq Request

\* A request of c under its n-th key.
Attempt(c, n, version) ==
  [batch |-> Shared, key |-> <<c, n>>, command |-> IF c = Creator THEN CreateBatch ELSE Change,
   body |-> c, expected |-> version]

\* Requests under the current key of their sender are copies of the one it waits
\* for.  Those under an earlier key can never be accepted again: the version they
\* expect has passed, and their key has not been used.
SentOnce(req) ==
  \E c \in People : \E n \in 1 .. attempt[c] :
    /\ req = Attempt(c, n, req.expected)
    /\ req.expected <= Len(Done)
    /\ n = attempt[c] => pc[c] # "reading" /\ req.expected = expected[c]
    /\ n < attempt[c] => req.expected < Len(Done) /\ ~ Used(req.key)

\* Who waits has sent what it waits for; who is told has been served.
SenderInv(c) ==
  /\ pc[c] # "reading" => RequestOf(c, expected[c]) \in sent
  /\ pc[c] = "done" => Used(<<c, attempt[c]>>)
  /\ c # Creator =>
       attempt[c] <= IF pc[c] # "reading" THEN expected[c]
                     ELSE IF Done = <<>> THEN 1 ELSE Len(Done)

CreatorInv ==
  /\ pc[Creator] # "reading" /\ attempt[Creator] = 1 /\ expected[Creator] = 0
  /\ Done # <<>> => Used(<<Creator, 1>>)

\* The request an event was made from.
RequestIn(e) ==
  [batch |-> e.batch, key |-> e.key, command |-> e.command, body |-> e.digest[1],
   expected |-> e.digest[2]]

\* Whatever was done, or is on disk, was asked for.
Asked ==
  /\ \A i \in DOMAIN Done : \E req \in sent : Done[i] = Applied(req)
  /\ \A i \in DOMAIN ledger : ledger[i] \in {Torn, Garbled} \/ RequestIn(ledger[i]) \in sent

\* Every event takes a line, and a line that was cut short is not an event yet.
Bounded ==
  /\ Len(Done) <= Len(events)
  /\ Len(events) <= Len(ledger)
  /\ EndsTorn => Len(events) < Len(ledger)
  /\ Len(ledger) <= MaxEvents

ClientsInv ==
  /\ ClientsTypeOK
  /\ \A req \in sent : SentOnce(req)
  /\ \A c \in People : SenderInv(c)
  /\ CreatorInv
  /\ Asked
  /\ Bounded

-----------------------------------------------------------------------------
(* Lemmas about the history of the batch. *)

\* What the results kept for retries say of the history, and what every command in
\* it says of its place.
LEMMA BatchHistory ==
  ASSUME StoreInv
  PROVE  /\ Done \in Seq(AppliedCommand) /\ Len(Done) \in Nat /\ DOMAIN Done = 1 .. Len(Done)
         /\ \A i \in DOMAIN Done : Done[i].expected = i - 1
         /\ \A i, j \in DOMAIN Done : Done[i].key = Done[j].key => i = j
         /\ \A key : Used(key) <=> <<Shared, key>> \in DOMAIN idempotency
         /\ \A i \in DOMAIN Done :
              /\ idempotency[<<Shared, Done[i].key>>].command = Done[i].command
              /\ idempotency[<<Shared, Done[i].key>>].digest = <<Done[i].body, Done[i].expected>>
<1>1. Shared \in Batches
  BY ClientsAssumption
<1>2. Done \in Seq(AppliedCommand) /\ Len(Done) \in Nat /\ DOMAIN Done = 1 .. Len(Done)
  BY <1>1, LenProperties DEF Done, StoreInv, StoreTypeOK, Projection
<1>3. ASSUME NEW i \in DOMAIN Done
      PROVE  /\ Done[i].expected = i - 1
             /\ \E p \in DOMAIN events : /\ events[p].batch = Shared /\ EventVersion(events[p]) = i
                                         /\ Done[i] = CommandOf(events[p])
  BY <1>1, CommandsComeFromEvents DEF Done
<1>4. \A p, q \in DOMAIN events :
        events[p].batch = events[q].batch /\ events[p].key = events[q].key => p = q
  BY DEF StoreInv, History, KeysOnce
<1>5. ASSUME NEW i \in DOMAIN Done, NEW j \in DOMAIN Done, Done[i].key = Done[j].key
      PROVE  i = j
  <2>1. PICK p \in DOMAIN events : /\ events[p].batch = Shared /\ EventVersion(events[p]) = i
                                   /\ Done[i] = CommandOf(events[p])
    BY <1>3
  <2>2. PICK q \in DOMAIN events : /\ events[q].batch = Shared /\ EventVersion(events[q]) = j
                                   /\ Done[j] = CommandOf(events[q])
    BY <1>3
  <2>3. events[p].key = events[q].key
    BY <1>5, <2>1, <2>2 DEF CommandOf
  <2>4. QED
    BY <1>4, <2>1, <2>2, <2>3
<1>6. /\ DOMAIN idempotency = {<<events[p].batch, events[p].key>> : p \in DOMAIN events}
      /\ \A p \in DOMAIN events :
           idempotency[<<events[p].batch, events[p].key>>] = ResultOf(events[p])
  BY DEF StoreInv, Results
<1>7. ASSUME NEW i \in DOMAIN Done
      PROVE  /\ <<Shared, Done[i].key>> \in DOMAIN idempotency
             /\ idempotency[<<Shared, Done[i].key>>].command = Done[i].command
             /\ idempotency[<<Shared, Done[i].key>>].digest = <<Done[i].body, Done[i].expected>>
  <2>1. PICK p \in DOMAIN events : events[p].batch = Shared /\ Done[i] = CommandOf(events[p])
    BY <1>3
  <2>2. Done[i].key = events[p].key
    BY <2>1 DEF CommandOf
  <2>3. events[p].digest = <<events[p].digest[1], events[p].digest[2]>>
    BY EventsInMemory DEF StoreInv, Event
  <2>4. /\ <<Shared, Done[i].key>> \in DOMAIN idempotency
        /\ idempotency[<<Shared, Done[i].key>>] = ResultOf(events[p])
    BY <1>6, <2>1, <2>2
  <2>5. QED
    BY <2>1, <2>3, <2>4 DEF CommandOf, ResultOf
<1>8. ASSUME NEW key, <<Shared, key>> \in DOMAIN idempotency
      PROVE  Used(key)
  <2>1. PICK p \in DOMAIN events : events[p].batch = Shared /\ events[p].key = key
    BY <1>6, <1>8
  <2>2. /\ EventVersion(events[p]) \in DOMAIN Done
        /\ Done[EventVersion(events[p])] = CommandOf(events[p])
    BY <2>1 DEF Done, StoreInv, History, Recorded
  <2>3. QED
    BY <2>1, <2>2 DEF Used, CommandOf
<1>9. QED
  BY <1>2, <1>3, <1>5, <1>7, <1>8 DEF Used

\* What was done was asked for by somebody who has not asked under another key
\* since.
LEMMA DoneIsCurrent ==
  ASSUME StoreInv, ClientsInv, NEW i \in DOMAIN Done
  PROVE  /\ Done[i].body \in People
         /\ Done[i].key = <<Done[i].body, attempt[Done[i].body]>>
         /\ pc[Done[i].body] # "reading"
         /\ expected[Done[i].body] = i - 1
<1>1. PICK req \in sent : Done[i] = Applied(req)
  BY DEF ClientsInv, Asked
<1>2. Done[i].key = req.key /\ Done[i].body = req.body /\ Done[i].expected = req.expected
  BY <1>1 DEF Applied
<1>3. PICK c \in People : \E n \in 1 .. attempt[c] :
        /\ req = Attempt(c, n, req.expected)
        /\ n = attempt[c] => pc[c] # "reading" /\ req.expected = expected[c]
        /\ n < attempt[c] => ~ Used(req.key)
  BY DEF ClientsInv, SentOnce
<1>4. PICK n \in 1 .. attempt[c] :
        /\ req = Attempt(c, n, req.expected)
        /\ n = attempt[c] => pc[c] # "reading" /\ req.expected = expected[c]
        /\ n < attempt[c] => ~ Used(req.key)
  BY <1>3
<1>5. req.body = c /\ req.key = <<c, n>>
  BY <1>4 DEF Attempt
<1>6. Used(req.key)
  BY <1>2 DEF Used
<1>7. n = attempt[c]
  BY <1>4, <1>6 DEF ClientsInv, ClientsTypeOK
<1>8. QED
  BY <1>2, <1>4, <1>5, <1>7, BatchHistory

\* A request in the network is about the shared batch and, while its version is the
\* current one, the one its sender waits for.
LEMMA LiveRequest ==
  ASSUME StoreInv, ClientsInv, NEW req \in sent
  PROVE  /\ req \in Request /\ req.batch = Shared /\ req.body \in People
         /\ req.command = IF req.body = Creator THEN CreateBatch ELSE Change
         /\ req.expected = Len(Done) =>
              /\ req.key = <<req.body, attempt[req.body]>>
              /\ pc[req.body] # "reading"
<1>1. PICK c \in People : \E n \in 1 .. attempt[c] :
        /\ req = Attempt(c, n, req.expected)
        /\ n = attempt[c] => pc[c] # "reading" /\ req.expected = expected[c]
        /\ n < attempt[c] => req.expected < Len(Done) /\ ~ Used(req.key)
  BY DEF ClientsInv, SentOnce
<1>2. PICK n \in 1 .. attempt[c] :
        /\ req = Attempt(c, n, req.expected)
        /\ n = attempt[c] => pc[c] # "reading" /\ req.expected = expected[c]
        /\ n < attempt[c] => req.expected < Len(Done) /\ ~ Used(req.key)
  BY <1>1
<1>3. /\ req.batch = Shared /\ req.body = c /\ req.key = <<c, n>>
      /\ req.command = IF c = Creator THEN CreateBatch ELSE Change
  BY <1>2 DEF Attempt
<1>4. attempt[c] \in Nat /\ Len(Done) \in Nat
  BY BatchHistory DEF ClientsInv, ClientsTypeOK
<1>5. req.expected = Len(Done) => n = attempt[c]
  BY <1>2, <1>4
<1>6. QED
  BY <1>2, <1>3, <1>5 DEF ClientsInv, ClientsTypeOK

-----------------------------------------------------------------------------
(* Steps of the store, as its clients see them. *)

Grown(req) == Extends(req) /\ Done' = Append(Done, Applied(req))

DoneStep == Done' = Done \/ \E req \in sent : Grown(req)

\* What the events and the ledger hold after a step.
LogStep ==
  /\ Len(Done') - Len(Done) <= Len(events') - Len(events)
  /\ Len(events') <= Len(ledger')
  /\ EndsTorn' => Len(events') < Len(ledger')
  /\ Len(ledger') <= MaxEvents
  /\ \A i \in DOMAIN ledger' : ledger'[i] \in {Torn, Garbled} \/ RequestIn(ledger'[i]) \in sent

\* The lines of a ledger to which a line has been appended.
LEMMA AppendedLines ==
  ASSUME ledger \in Seq(Line), NEW line \in Event \cup {Torn}
  PROVE  LET new == LinesWith(line) IN
         /\ \A i \in DOMAIN new :
              new[i] \in {Torn, Garbled, line} \/ \E j \in DOMAIN ledger : new[i] = ledger[j]
         /\ Len(new) = IF EndsTorn THEN Len(ledger) ELSE Len(ledger) + 1
         /\ new[Len(new)] = Torn => line = Torn
<1> DEFINE new == LinesWith(line)
           n == Len(ledger)
<1>1. line \in Line /\ n \in Nat /\ DOMAIN ledger = 1 .. n
  BY LenProperties DEF Line
<1>2. Garbled # Torn
  BY DEF Garbled, Torn
<1>3. CASE ~ EndsTorn
  <2>1. new = Append(ledger, line)
    BY <1>3 DEF LinesWith
  <2>2. /\ Len(new) = n + 1 /\ DOMAIN new = 1 .. n + 1
        /\ \A i \in 1 .. n : new[i] = ledger[i]
        /\ new[n + 1] = line
    BY <1>1, <2>1, AppendedLog
  <2> HIDE DEF new, n
  <2>3. \A i \in DOMAIN new : new[i] = line \/ \E j \in DOMAIN ledger : new[i] = ledger[j]
    BY <1>1, <2>2
  <2>4. QED
    BY <1>3, <2>2, <2>3 DEF new, n
<1>4. CASE EndsTorn
  <2> DEFINE mended == IF line = Torn THEN Torn ELSE Garbled
  <2>1. new = [ledger EXCEPT ![n] = mended]
    BY <1>4 DEF LinesWith
  <2>2. n \in 1 .. n
    BY <1>1, <1>4, EmptySeq DEF EndsTorn
  <2>3. mended \in Line
    BY DEF Line
  <2>4. Len(new) = n /\ DOMAIN new = DOMAIN ledger
    BY <2>1, <2>2, <2>3, ExceptSeq
  <2>5. \A i \in DOMAIN new : new[i] = mended \/ new[i] = ledger[i]
    BY <2>1
  <2>6. new[n] = mended
    BY <1>1, <2>1, <2>2
  <2> HIDE DEF new, n
  <2>7. mended \in {Torn, Garbled} /\ (mended = Torn => line = Torn)
    BY <1>2
  <2> HIDE DEF mended
  <2>8. QED
    BY <1>4, <2>4, <2>5, <2>6, <2>7 DEF new, n
<1>5. QED
  BY <1>3, <1>4

\* A commit.
LEMMA CommitGrows ==
  ASSUME StoreInv, ClientsInv, NEW req \in sent, Commit(req)
  PROVE  Grown(req) /\ LogStep
<1> DEFINE e == NewEvent(req)
<1>1. req \in Request /\ req.batch = Shared /\ Shared \in Batches
  BY LiveRequest, ClientsAssumption
<1>2. Extends(req) /\ Remember(e) /\ ledger' = LinesWith(e) /\ Len(ledger) < MaxEvents
  BY DEF Commit, Accepts, Extends
<1>3. e \in Event /\ events' = Append(events, e) /\ projection' = e.projection
  BY <1>1, <1>2, CommitExtendsMemory
<1>4. Done' = Append(Done, Applied(req))
  BY <1>1, <1>3 DEF Done, NewEvent, StoreInv, StoreTypeOK, Projection
<1>5. RequestIn(e) = req /\ e \notin {Torn, Garbled}
  BY <1>1, <1>3, EventIsWhole DEF NewEvent, RequestDigest, RequestIn, Request
<1>6. ledger \in Seq(Line) /\ Len(ledger) \in Nat /\ Len(events) \in Nat /\ Len(events') = Len(events) + 1
  BY <1>3, AppendedLog, LenProperties DEF StoreInv, StoreTypeOK
<1>7. Applied(req) \in AppliedCommand
  BY <1>1, EventsAssumption DEF Applied, AppliedCommand, Request
<1>8. Len(Done) \in Nat /\ Len(Done') = Len(Done) + 1
  BY <1>4, <1>7, BatchHistory, AppendedLog
<1> HIDE DEF e
<1>9. /\ \A i \in DOMAIN ledger' :
           ledger'[i] \in {Torn, Garbled, e} \/ \E j \in DOMAIN ledger : ledger'[i] = ledger[j]
      /\ Len(ledger') = IF EndsTorn THEN Len(ledger) ELSE Len(ledger) + 1
      /\ ~ EndsTorn'
  BY <1>2, <1>3, <1>5, <1>6, AppendedLines DEF EndsTorn
<1>10. \A i \in DOMAIN ledger' : ledger'[i] \in {Torn, Garbled} \/ RequestIn(ledger'[i]) \in sent
  BY <1>5, <1>9 DEF ClientsInv, Asked
<1>11. Len(events') <= Len(ledger') /\ Len(ledger') <= MaxEvents
  BY <1>2, <1>6, <1>9, EventsAssumption DEF ClientsInv, Bounded
<1>12. LogStep
  BY <1>6, <1>8, <1>9, <1>10, <1>11 DEF LogStep
<1>13. QED
  BY <1>2, <1>4, <1>12 DEF Grown

\* An append that fails: the clients see nothing of it yet.
LEMMA FailedAppend ==
  ASSUME StoreInv, ClientsInv, NEW req \in sent, NEW left \in AppendFailures,
         FailToAppend(req, left)
  PROVE  Done' = Done /\ LogStep
<1> DEFINE e == NewEvent(req)
           line == IF left = "line" THEN e ELSE Torn
<1>1. req \in Request
  BY LiveRequest
<1>2. /\ Extends(req) /\ ledger' = LinesWith(line) /\ Len(ledger) < MaxEvents
      /\ UNCHANGED <<events, projection>>
  BY DEF FailToAppend, Accepts, Extends, memory
<1>3. e \in Event /\ line \in Event \cup {Torn}
  BY <1>1, <1>2, NewEventContinues DEF StoreInv
<1>4. RequestIn(e) = req
  BY <1>1 DEF NewEvent, RequestDigest, RequestIn, Request
<1>5. ledger \in Seq(Line) /\ Len(ledger) \in Nat /\ Len(events) \in Nat /\ Len(Done) \in Nat
  BY BatchHistory, LenProperties DEF StoreInv, StoreTypeOK
<1>6. line \in {e, Torn}
  OBVIOUS
<1> HIDE DEF e, line
<1>7. /\ \A i \in DOMAIN ledger' :
           ledger'[i] \in {Torn, Garbled, line} \/ \E j \in DOMAIN ledger : ledger'[i] = ledger[j]
      /\ Len(ledger') = IF EndsTorn THEN Len(ledger) ELSE Len(ledger) + 1
  BY <1>2, <1>3, <1>5, AppendedLines
<1>8. \A i \in DOMAIN ledger' : ledger'[i] \in {Torn, Garbled} \/ RequestIn(ledger'[i]) \in sent
  BY <1>4, <1>6, <1>7 DEF ClientsInv, Asked
<1>9. Len(events') < Len(ledger') /\ Len(ledger') <= MaxEvents
  BY <1>2, <1>5, <1>7, EventsAssumption DEF ClientsInv, Bounded
<1>10. Done' = Done
  BY <1>2 DEF Done
<1>11. QED
  BY <1>2, <1>5, <1>8, <1>9, <1>10 DEF LogStep

\* A restart can bring back one command more than was remembered: the one whose
\* append failed after its line was complete.
LEMMA OpenGrows ==
  ASSUME StoreInv, ClientsInv, Open
  PROVE  DoneStep /\ LogStep
<1>1. /\ ledger' = ledger /\ events' = ledger /\ projection' = Final(ledger)
      /\ \A i \in DOMAIN ledger : Readable(ledger[i])
  BY OpenRebuilds DEF Open, Recoverable
<1>2. ledger \in Seq(Event) /\ Len(ledger) \in Nat /\ Len(events) \in Nat /\ Len(Done) \in Nat
  BY BatchHistory, RecoveredLedger, LenProperties DEF Open, StoreInv, StoreTypeOK
<1>3. ~ EndsTorn'
  <2>1. \A i \in DOMAIN ledger : ledger[i] # Torn
    BY <1>1 DEF Readable
  <2>2. ledger # <<>> => Len(ledger) \in DOMAIN ledger
    BY <1>2, EmptySeq, LenProperties
  <2>3. QED
    BY <1>1, <2>1, <2>2 DEF EndsTorn
<1>4. CASE ledger = events
  <2>1. Done' = Done
    BY <1>1, <1>4 DEF Done, StoreInv, History
  <2>2. QED
    BY <1>1, <1>2, <1>3, <1>4, <2>1 DEF DoneStep, LogStep, ClientsInv, Bounded, Asked
<1>5. CASE Ahead
  <2>1. PICK req \in Request : Extends(req) /\ ledger = Append(events, NewEvent(req))
    BY <1>5 DEF Ahead
  <2> DEFINE e == NewEvent(req)
  <2>2. e \in Event
    BY <2>1, NewEventContinues DEF StoreInv
  <2>3. RequestIn(e) = req
    BY DEF NewEvent, RequestDigest, RequestIn, Request
  <2>4. e.projection = [projection EXCEPT ![req.batch] = Append(@, Applied(req))]
    BY DEF NewEvent
  <2> HIDE DEF e
  <2>5. /\ Len(ledger) = Len(events) + 1
        /\ Len(ledger) \in DOMAIN ledger /\ ledger[Len(ledger)] = e
    BY <2>1, <2>2, AppendedLog DEF StoreInv, StoreTypeOK, e
  <2>6. req \in sent
    BY <2>2, <2>3, <2>5, EventIsWhole DEF ClientsInv, Asked
  <2>7. req.batch = Shared /\ Shared \in Batches
    BY <2>6, LiveRequest, ClientsAssumption
  <2>8. ledger # <<>>
    BY <2>5, <1>2, EmptySeq
  <2>9. Done' = Append(Done, Applied(req))
    BY <1>1, <2>4, <2>5, <2>7, <2>8 DEF Done, Final, StoreInv, StoreTypeOK, Projection
  <2>10. Applied(req) \in AppliedCommand
    BY EventsAssumption DEF Applied, AppliedCommand, Request
  <2>11. Len(Done') = Len(Done) + 1
    BY <2>9, <2>10, BatchHistory, AppendedLog
  <2>12. LogStep
    BY <1>1, <1>2, <1>3, <2>5, <2>11 DEF LogStep, ClientsInv, Bounded, Asked
  <2>13. QED
    BY <2>1, <2>6, <2>9, <2>12 DEF DoneStep, Grown
<1>6. QED
  BY <1>4, <1>5, RecoveredLedger DEF Open

\* What a growing history keeps, and what it gains.
LEMMA HistoryGrows ==
  ASSUME StoreInv, ClientsInv, DoneStep
  PROVE  /\ Len(Done') \in Nat /\ Len(Done) <= Len(Done') /\ (Done' = <<>> <=> Len(Done') = 0)
         /\ \A key : Used(key) => \E i \in DOMAIN Done' : Done'[i].key = key
         /\ \A key : (\E i \in DOMAIN Done' : Done'[i].key = key) =>
              Used(key) \/ \E c \in People : key = <<c, attempt[c]>> /\ pc[c] # "reading"
         /\ \A i \in DOMAIN Done' : \E req \in sent : Done'[i] = Applied(req)
         /\ Done' # <<>> => \E i \in DOMAIN Done' : Done'[i].key = <<Creator, 1>>
<1>0. /\ Done \in Seq(AppliedCommand) /\ Len(Done) \in Nat /\ DOMAIN Done = 1 .. Len(Done)
      /\ Done = <<>> <=> Len(Done) = 0
  BY BatchHistory, EmptySeq
<1>1. \A i \in DOMAIN Done : \E req \in sent : Done[i] = Applied(req)
  BY DEF ClientsInv, Asked
<1>2. Done # <<>> => Used(<<Creator, 1>>)
  BY DEF ClientsInv, CreatorInv
<1>3. CASE Done' = Done
  BY <1>0, <1>1, <1>2, <1>3 DEF Used
<1>4. ASSUME NEW req \in sent, Grown(req)
      PROVE  /\ Len(Done') = Len(Done) + 1 /\ Done' # <<>>
             /\ DOMAIN Done' = 1 .. Len(Done) + 1
             /\ \A i \in 1 .. Len(Done) : Done'[i] = Done[i]
             /\ Done'[Len(Done) + 1] = Applied(req)
             /\ Applied(req).key = <<req.body, attempt[req.body]>>
             /\ req.body \in People /\ pc[req.body] # "reading"
             /\ Done = <<>> => Applied(req).key = <<Creator, 1>>
  <2>1. /\ Extends(req) /\ Done' = Append(Done, Applied(req))
    BY <1>4 DEF Grown
  <2>2. /\ req \in Request /\ req.batch = Shared /\ req.body \in People
        /\ req.command = IF req.body = Creator THEN CreateBatch ELSE Change
    BY LiveRequest
  <2>3. req.expected = Len(Done)
    BY <2>1, <2>2 DEF Extends, VersionMatches, Version, Done
  <2>4. Applied(req) \in AppliedCommand
    BY <2>2, EventsAssumption DEF Applied, AppliedCommand, Request
  <2>5. req.key = <<req.body, attempt[req.body]>> /\ pc[req.body] # "reading"
    BY <2>3, LiveRequest
  <2>6. Done = <<>> => req.body = Creator
    BY <1>0, <2>1, <2>2, ClientsAssumption DEF Extends, Version, Done
  <2>7. attempt[Creator] = 1
    BY DEF ClientsInv, CreatorInv
  <2>8. Applied(req).key = req.key
    BY DEF Applied
  <2>9. QED
    BY <1>0, <2>1, <2>2, <2>4, <2>5, <2>6, <2>7, <2>8, AppendedLog
<1>5. ASSUME NEW req \in sent, Grown(req)
      PROVE  /\ Len(Done') \in Nat /\ Len(Done) <= Len(Done') /\ (Done' = <<>> <=> Len(Done') = 0)
             /\ \A key : Used(key) => \E i \in DOMAIN Done' : Done'[i].key = key
             /\ \A key : (\E i \in DOMAIN Done' : Done'[i].key = key) =>
                  Used(key) \/ \E c \in People : key = <<c, attempt[c]>> /\ pc[c] # "reading"
             /\ \A i \in DOMAIN Done' : \E q \in sent : Done'[i] = Applied(q)
             /\ Done' # <<>> => \E i \in DOMAIN Done' : Done'[i].key = <<Creator, 1>>
  <2> DEFINE n == Len(Done)
             after == Done'
  <2>1. /\ n \in Nat /\ Len(after) = n + 1 /\ after # <<>>
        /\ DOMAIN Done = 1 .. n /\ DOMAIN after = 1 .. n + 1
        /\ \A i \in 1 .. n : after[i] = Done[i]
        /\ after[n + 1] = Applied(req)
        /\ Applied(req).key = <<req.body, attempt[req.body]>>
        /\ req.body \in People /\ pc[req.body] # "reading"
        /\ Done = <<>> => Applied(req).key = <<Creator, 1>>
    BY <1>0, <1>4, <1>5
  <2> HIDE DEF n, after
  <2>2. \A key : Used(key) => \E i \in DOMAIN after : after[i].key = key
    BY <2>1 DEF Used
  <2>3. n + 1 \in DOMAIN after /\ \A i \in DOMAIN after : i = n + 1 \/ i \in 1 .. n
    BY <2>1
  <2>4. \A key : (\E i \in DOMAIN after : after[i].key = key) =>
          Used(key) \/ \E c \in People : key = <<c, attempt[c]>> /\ pc[c] # "reading"
    BY <2>1, <2>3 DEF Used
  <2>5. \A i \in DOMAIN after : \E q \in sent : after[i] = Applied(q)
    BY <1>1, <2>1, <2>3
  <2>6. \E i \in DOMAIN after : after[i].key = <<Creator, 1>>
    BY <1>2, <2>1, <2>2, <2>3
  <2>7. Len(after) \in Nat /\ n <= Len(after) /\ (after = <<>> <=> Len(after) = 0)
    BY <2>1
  <2>8. QED
    BY <2>2, <2>4, <2>5, <2>6, <2>7 DEF n, after
<1>6. CASE \E req \in sent : Grown(req)
  BY <1>5, <1>6
<1>7. QED
  BY <1>3, <1>6 DEF DoneStep

\* A step of the store, at most telling the client that waits for it that its
\* command was done, keeps what is known of the clients.
LEMMA ServedStep ==
  ASSUME StoreInv, ClientsInv, DoneStep, LogStep, UNCHANGED <<attempt, expected, sent>>,
         \/ pc' = pc
         \/ \E c \in People :
              /\ pc[c] = "waiting" /\ pc' = [pc EXCEPT ![c] = "done"]
              /\ \E i \in DOMAIN Done' : Done'[i].key = <<c, attempt[c]>>
  PROVE  ClientsInv'
<1> DEFINE UsedThen(key) == \E i \in DOMAIN Done' : Done'[i].key = key
<1>1. /\ Len(Done') \in Nat /\ Len(Done) \in Nat /\ Len(Done) <= Len(Done')
      /\ Done = <<>> <=> Len(Done) = 0
      /\ Done' = <<>> <=> Len(Done') = 0
      /\ \A key : Used(key) => UsedThen(key)
      /\ \A key : UsedThen(key) =>
           Used(key) \/ \E c \in People : key = <<c, attempt[c]>> /\ pc[c] # "reading"
      /\ \A i \in DOMAIN Done' : \E req \in sent : Done'[i] = Applied(req)
      /\ Done' # <<>> => UsedThen(<<Creator, 1>>)
  BY HistoryGrows, BatchHistory, EmptySeq
<1>2. /\ attempt' = attempt /\ expected' = expected /\ sent' = sent
  OBVIOUS
<1>3. /\ pc' \in [People -> {"reading", "waiting", "done"}]
      /\ \A c \in People : pc'[c] # "reading" <=> pc[c] # "reading"
      /\ \A c \in People : pc'[c] = "done" => pc[c] = "done" \/ UsedThen(<<c, attempt[c]>>)
  BY DEF ClientsInv, ClientsTypeOK
<1>4. \A key : UsedThen(key) <=> Used(key)'
  BY DEF Used
<1> HIDE DEF UsedThen
<1>5. ClientsTypeOK'
  BY <1>2, <1>3 DEF ClientsInv, ClientsTypeOK
<1>6. ASSUME NEW req \in sent
      PROVE  SentOnce(req)'
  <2>1. PICK c \in People : \E n \in 1 .. attempt[c] :
          /\ req = Attempt(c, n, req.expected)
          /\ req.expected <= Len(Done)
          /\ n = attempt[c] => pc[c] # "reading" /\ req.expected = expected[c]
          /\ n < attempt[c] => req.expected < Len(Done) /\ ~ Used(req.key)
    BY DEF ClientsInv, SentOnce
  <2>2. PICK n \in 1 .. attempt[c] :
          /\ req = Attempt(c, n, req.expected)
          /\ req.expected <= Len(Done)
          /\ n = attempt[c] => pc[c] # "reading" /\ req.expected = expected[c]
          /\ n < attempt[c] => req.expected < Len(Done) /\ ~ Used(req.key)
    BY <2>1
  <2>3. req.key = <<c, n>>
    BY <2>2 DEF Attempt
  <2>4. n < attempt[c] => ~ UsedThen(req.key)
    <3> SUFFICES ASSUME n < attempt[c], UsedThen(req.key)
                 PROVE  FALSE
      OBVIOUS
    <3>1. PICK d \in People : req.key = <<d, attempt[d]>>
      BY <1>1, <2>2
    <3>2. n = attempt[c]
      BY <2>3, <3>1
    <3>3. QED
      BY <3>2
  <2>5. req.expected \in Nat
    BY LiveRequest DEF Request
  <2>6. /\ req.expected <= Len(Done')
        /\ n < attempt[c] => req.expected < Len(Done')
    BY <1>1, <2>2, <2>5
  <2>7. Attempt(c, n, req.expected)' = Attempt(c, n, req.expected)
    BY DEF Attempt
  <2>8. QED
    BY <1>2, <1>3, <1>4, <2>2, <2>4, <2>6, <2>7 DEF SentOnce
<1>7. ASSUME NEW c \in People
      PROVE  SenderInv(c)'
  <2>1. /\ pc[c] # "reading" => RequestOf(c, expected[c]) \in sent
        /\ pc[c] = "done" => Used(<<c, attempt[c]>>)
        /\ c # Creator =>
             attempt[c] <= IF pc[c] # "reading" THEN expected[c]
                           ELSE IF Done = <<>> THEN 1 ELSE Len(Done)
    BY DEF ClientsInv, SenderInv
  <2>2. RequestOf(c, expected[c])' = RequestOf(c, expected[c])
    BY <1>2 DEF RequestOf
  <2>3. attempt[c] \in Nat /\ expected[c] \in Nat
    BY DEF ClientsInv, ClientsTypeOK
  <2>4. c # Creator =>
          attempt[c] <= IF pc'[c] # "reading" THEN expected[c]
                        ELSE IF Done' = <<>> THEN 1 ELSE Len(Done')
    BY <1>1, <1>3, <2>1, <2>3
  <2>5. pc'[c] = "done" => UsedThen(<<c, attempt[c]>>)
    BY <1>1, <1>3, <2>1
  <2>6. QED
    BY <1>2, <1>3, <1>4, <2>1, <2>2, <2>4, <2>5 DEF SenderInv
<1>8. CreatorInv'
  BY <1>1, <1>2, <1>3, <1>4, ClientsAssumption DEF ClientsInv, CreatorInv
<1>9. Asked'
  BY <1>1, <1>2 DEF LogStep, Asked, Applied, RequestIn
<1>10. Bounded'
  <2>1. Len(events) \in Nat /\ Len(Done) <= Len(events)
    BY LenProperties DEF StoreInv, StoreTypeOK, ClientsInv, Bounded
  <2>2. Len(events') \in Nat
    BY DEF LogStep
  <2>3. QED
    BY <1>1, <2>1, <2>2 DEF LogStep, Bounded
<1>11. QED
  BY <1>2, <1>5, <1>6, <1>7, <1>8, <1>9, <1>10 DEF ClientsInv

-----------------------------------------------------------------------------
(* How often a client can be refused. *)

\* The clients other than c and the creator whose commands have taken effect.
Served(c) == {d \in People \ {c, Creator} : Effects(d) # {}}

\* Each of the first k commands is another client's.
LEMMA ServedBefore ==
  ASSUME StoreInv, ClientsInv, NEW c \in People, NEW k \in 0 .. Len(Done),
         \A i \in 1 .. k : Done[i].body # c
  PROVE  /\ Cardinality(Served(c)) \in Nat
         /\ k <= 1 + Cardinality(Served(c))
         /\ 1 + Cardinality(Served(c)) <= Cardinality(People)
<1> DEFINE S == Served(c)
           f == [i \in 1 .. k |-> Done[i].body]
<1>1. /\ IsFiniteSet(People) /\ S \in SUBSET (People \ {c})
  BY PeopleAssumption DEF Served
<1>2. IsFiniteSet(People \ {c}) /\ Cardinality(People \ {c}) = Cardinality(People) - 1
  BY <1>1, FS_RemoveElement
<1>3. IsFiniteSet(S) /\ Cardinality(S) <= Cardinality(People \ {c})
  BY <1>1, <1>2, FS_Subset
<1> HIDE DEF S, f
<1>4. /\ IsFiniteSet(S \cup {Creator})
      /\ Cardinality(S \cup {Creator}) <= Cardinality(S) + 1
      /\ Cardinality(S) \in Nat /\ Cardinality(People) \in Nat
  <2>1. Cardinality(S) \in Nat /\ Cardinality(People) \in Nat
    BY <1>1, <1>3, FS_CardinalityType
  <2>2. /\ IsFiniteSet(S \cup {Creator})
        /\ Cardinality(S \cup {Creator}) =
             IF Creator \in S THEN Cardinality(S) ELSE Cardinality(S) + 1
    BY <1>3, FS_AddElement
  <2>3. QED
    BY <2>1, <2>2
<1>5. /\ Len(Done) \in Nat /\ DOMAIN Done = 1 .. Len(Done)
      /\ \A i, j \in DOMAIN Done : Done[i].key = Done[j].key => i = j
      /\ \A i \in DOMAIN Done : /\ Done[i].body \in People
                                /\ Done[i].key = <<Done[i].body, attempt[Done[i].body]>>
  BY BatchHistory, DoneIsCurrent
<1>6. k \in Nat /\ 1 .. k \subseteq DOMAIN Done
  BY <1>5
<1>7. \A i \in 1 .. k : Done[i].body \in S \cup {Creator}
  BY <1>5, <1>6 DEF S, Served, Effects, Done
<1>8. \A i, j \in 1 .. k : Done[i].body = Done[j].body => i = j
  BY <1>5, <1>6
<1>9. f \in Injection(1 .. k, S \cup {Creator})
  BY <1>7, <1>8 DEF f, Injection, IsInjective
<1>10. Cardinality(1 .. k) = k
  BY <1>6, FS_Interval
<1>11. k <= Cardinality(S \cup {Creator})
  BY <1>4, <1>9, <1>10, FS_Injection
<1>12. Cardinality(S \cup {Creator}) \in Nat
  BY <1>4, FS_CardinalityType
<1>13. QED
  BY <1>2, <1>3, <1>4, <1>6, <1>11, <1>12 DEF S

\* The bound of RefusalsBounded, and the keys it leaves each client.
LEMMA AttemptsBounded ==
  ASSUME StoreInv, ClientsInv, NEW c \in People
  PROVE  /\ attempt[c] <= 1 + Cardinality(Served(c))
         /\ <<c, attempt[c]>> \in Keys
<1>1. /\ Len(Done) \in Nat /\ DOMAIN Done = 1 .. Len(Done)
      /\ Done = <<>> <=> Len(Done) = 0
  BY BatchHistory, EmptySeq
<1>2. attempt[c] \in Nat \ {0} /\ expected[c] \in Nat
  BY DEF ClientsInv, ClientsTypeOK
<1>3. \A i \in DOMAIN Done : pc[Done[i].body] # "reading" /\ expected[Done[i].body] = i - 1
  BY DoneIsCurrent
<1>4. /\ Cardinality(Served(c)) \in Nat
      /\ 1 + Cardinality(Served(c)) <= Cardinality(People)
  BY <1>1, ServedBefore
<1>5. attempt[c] <= 1 + Cardinality(Served(c))
  <2>1. CASE c = Creator
    BY <1>4, <2>1 DEF ClientsInv, CreatorInv
  <2>2. CASE c # Creator /\ pc[c] = "reading"
    <3>1. \A i \in 1 .. Len(Done) : Done[i].body # c
      BY <1>1, <1>3, <2>2
    <3>2. Len(Done) <= 1 + Cardinality(Served(c))
      BY <1>1, <3>1, ServedBefore
    <3>3. attempt[c] <= IF Done = <<>> THEN 1 ELSE Len(Done)
      BY <2>2 DEF ClientsInv, SenderInv
    <3>4. QED
      BY <1>1, <1>2, <1>4, <3>2, <3>3
  <2>3. CASE c # Creator /\ pc[c] # "reading"
    <3>1. attempt[c] <= expected[c] /\ RequestOf(c, expected[c]) \in sent
      BY <2>3 DEF ClientsInv, SenderInv
    <3>2. expected[c] <= Len(Done)
      <4>1. SentOnce(RequestOf(c, expected[c]))
        BY <3>1 DEF ClientsInv
      <4>2. RequestOf(c, expected[c]).expected = expected[c]
        BY DEF RequestOf
      <4>3. QED
        BY <4>1, <4>2 DEF SentOnce
    <3>3. \A i \in 1 .. expected[c] : Done[i].body # c
      <4> SUFFICES ASSUME NEW i \in 1 .. expected[c], Done[i].body = c
                   PROVE  FALSE
        OBVIOUS
      <4>1. i \in DOMAIN Done /\ i - 1 = expected[c]
        BY <1>1, <1>2, <1>3, <3>2
      <4>2. QED
        BY <1>2, <4>1
    <3>4. expected[c] \in 0 .. Len(Done)
      BY <1>1, <1>2, <3>2
    <3>5. expected[c] <= 1 + Cardinality(Served(c))
      BY <3>3, <3>4, ServedBefore
    <3>6. QED
      BY <1>2, <1>4, <3>1, <3>5
  <2>4. QED
    BY <2>1, <2>2, <2>3
<1>6. IsFiniteSet(People) /\ Cardinality(People) \in Nat
  BY PeopleAssumption, FS_CardinalityType
<1>7. attempt[c] \in 1 .. Cardinality(People)
  BY <1>2, <1>4, <1>5, <1>6
<1>8. QED
  BY <1>5, <1>7, PeopleAssumption

-----------------------------------------------------------------------------
(* Steps of a client. *)

\* Reading the version and sending the command: the request is one the store can
\* be sent, under a key that is the client's own.
LEMMA ReadStep ==
  ASSUME StoreInv, ClientsInv, NEW c \in People, Read(c)
  PROVE  /\ sent \cup {RequestOf(c, Len(Done))} \subseteq Request
         /\ ClientsInv'
<1> DEFINE req == RequestOf(c, Len(Done))
<1>1. /\ pc[c] = "reading" /\ Len(Done) > 0 /\ pc' = [pc EXCEPT ![c] = "waiting"]
      /\ expected' = [expected EXCEPT ![c] = Len(Done)]
      /\ sent' = sent \cup {req}
      /\ attempt' = attempt /\ UNCHANGED vars
  BY DEF Read, Version, Done
<1>2. Done' = Done /\ ledger' = ledger /\ events' = events
  BY <1>1 DEF vars, memory, Done
<1>3. ClientsTypeOK /\ CreatorInv /\ Asked /\ Bounded
  BY DEF ClientsInv
<1>4. c # Creator
  BY <1>1, <1>3 DEF CreatorInv
<1>5. Len(Done) \in Nat /\ Len(Done) <= MaxEvents
  BY <1>3, BatchHistory, EventsAssumption, LenProperties
     DEF Bounded, StoreInv, StoreTypeOK
<1>6. req \in Request
  BY <1>4, <1>5, AttemptsBounded, ClientsAssumption, PeopleAssumption, EventsAssumption
     DEF RequestOf, Request
<1>7. ClientsTypeOK'
  BY <1>1, <1>3, <1>5, <1>6 DEF ClientsTypeOK
<1>8. ASSUME NEW q \in sent'
      PROVE  SentOnce(q)'
  <2>1. CASE q \in sent
    <3>1. PICK d \in People : \E n \in 1 .. attempt[d] :
            /\ q = Attempt(d, n, q.expected)
            /\ q.expected <= Len(Done)
            /\ n = attempt[d] => pc[d] # "reading" /\ q.expected = expected[d]
            /\ n < attempt[d] => q.expected < Len(Done) /\ ~ Used(q.key)
      BY <2>1 DEF ClientsInv, SentOnce
    <3>2. PICK n \in 1 .. attempt[d] :
            /\ q = Attempt(d, n, q.expected)
            /\ q.expected <= Len(Done)
            /\ n = attempt[d] => pc[d] # "reading" /\ q.expected = expected[d]
            /\ n < attempt[d] => q.expected < Len(Done) /\ ~ Used(q.key)
      BY <3>1
    <3>3. n = attempt[d] => d # c
      BY <1>1, <3>2
    <3>4. n = attempt[d] => pc'[d] # "reading" /\ q.expected = expected'[d]
      BY <1>1, <1>3, <3>2, <3>3 DEF ClientsTypeOK
    <3>5. Used(q.key)' <=> Used(q.key)
      BY <1>2 DEF Used
    <3>6. QED
      BY <1>1, <1>2, <3>2, <3>4, <3>5 DEF SentOnce, Attempt
  <2>2. CASE q = req
    <3>1. q = Attempt(c, attempt[c], q.expected) /\ q.expected = Len(Done)
      BY <2>2 DEF RequestOf, Attempt
    <3>2. attempt[c] \in Nat \ {0} /\ pc'[c] # "reading" /\ expected'[c] = Len(Done)
      BY <1>1, <1>3 DEF ClientsTypeOK
    <3>3. attempt[c] \in 1 .. attempt[c] /\ Len(Done) <= Len(Done) /\ ~ (attempt[c] < attempt[c])
      BY <1>5, <3>2
    <3>4. QED
      BY <1>1, <1>2, <3>1, <3>2, <3>3 DEF SentOnce, Attempt
  <2>3. QED
    BY <1>1, <2>1, <2>2
<1>9. ASSUME NEW d \in People
      PROVE  SenderInv(d)'
  <2>1. SenderInv(d)
    BY DEF ClientsInv
  <2>2. CASE d # c
    <3>1. pc'[d] = pc[d] /\ expected'[d] = expected[d] /\ attempt'[d] = attempt[d]
      BY <1>1, <1>3, <2>2 DEF ClientsTypeOK
    <3>2. RequestOf(d, expected[d])' = RequestOf(d, expected[d])
      BY <1>1, <3>1 DEF RequestOf
    <3>3. Used(<<d, attempt[d]>>)' <=> Used(<<d, attempt[d]>>)
      BY <1>1, <1>2 DEF Used
    <3>4. QED
      BY <1>1, <1>2, <2>1, <3>1, <3>2, <3>3 DEF SenderInv
  <2>3. CASE d = c
    <3>1. pc'[c] = "waiting" /\ expected'[c] = Len(Done) /\ attempt'[c] = attempt[c]
      BY <1>1, <1>3 DEF ClientsTypeOK
    <3>2. RequestOf(c, expected[c])' = req
      BY <1>1, <3>1 DEF RequestOf
    <3>3. Done # <<>>
      BY <1>1, EmptySeq
    <3>4. attempt[c] <= Len(Done)
      BY <1>1, <1>4, <2>1, <2>3, <3>3 DEF SenderInv
    <3>5. QED
      BY <1>1, <2>3, <3>1, <3>2, <3>4 DEF SenderInv
  <2>4. QED
    BY <2>2, <2>3
<1>10. CreatorInv'
  BY <1>1, <1>2, <1>3, <1>4, ClientsAssumption DEF CreatorInv, ClientsTypeOK, Used
<1>11. Asked'
  BY <1>1, <1>2, <1>3 DEF Asked, Applied, RequestIn
<1>12. Bounded'
  BY <1>2, <1>3 DEF Bounded, EndsTorn
<1>13. sent \cup {req} \subseteq Request
  BY <1>3, <1>6 DEF ClientsTypeOK
<1>14. QED
  BY <1>7, <1>8, <1>9, <1>10, <1>11, <1>12, <1>13 DEF ClientsInv

\* A conflict says that the version has moved on and that the key was not used:
\* had it been used, it was for this very request.
LEMMA ConflictSaysUnused ==
  ASSUME StoreInv, ClientsInv, NEW c \in People, pc[c] = "waiting",
         Refuses(RequestOf(c, expected[c]))
  PROVE  /\ c # Creator
         /\ expected[c] < Len(Done)
         /\ ~ Used(<<c, attempt[c]>>)
<1> DEFINE req == RequestOf(c, expected[c])
<1>1. req \in sent
  BY DEF ClientsInv, SenderInv
<1>2. /\ req.batch = Shared /\ req.key = <<c, attempt[c]>> /\ req.expected = expected[c]
      /\ req.command = IF c = Creator THEN CreateBatch ELSE Change
      /\ RequestDigest(req) = <<c, expected[c]>>
  BY DEF RequestOf, RequestDigest
<1>3. IF <<Shared, <<c, attempt[c]>>>> \in DOMAIN idempotency THEN ~ Replays(req)
      ELSE ~ VersionMatches(req)
  BY <1>2 DEF Refuses
<1> HIDE DEF req
<1>4. ~ Used(<<c, attempt[c]>>)
  <2> SUFFICES ASSUME Used(<<c, attempt[c]>>)
               PROVE  FALSE
    OBVIOUS
  <2>1. PICK i \in DOMAIN Done : Done[i].key = <<c, attempt[c]>>
    BY DEF Used
  <2>2. /\ Done[i].key = <<Done[i].body, attempt[Done[i].body]>>
        /\ expected[Done[i].body] = i - 1
    BY DoneIsCurrent
  <2>3. Done[i].body = c /\ expected[c] = i - 1
    BY <2>1, <2>2
  <2>4. Done[i].expected = i - 1
    BY BatchHistory
  <2>5. PICK q \in sent : Done[i] = Applied(q)
    BY DEF ClientsInv, Asked
  <2>6. Done[i].command = IF c = Creator THEN CreateBatch ELSE Change
    BY <2>3, <2>5, LiveRequest DEF Applied
  <2>7. /\ <<Shared, <<c, attempt[c]>>>> \in DOMAIN idempotency
        /\ idempotency[<<Shared, <<c, attempt[c]>>>>].command = Done[i].command
        /\ idempotency[<<Shared, <<c, attempt[c]>>>>].digest = <<Done[i].body, Done[i].expected>>
    BY <2>1, BatchHistory
  <2>8. Replays(req)
    BY <1>2, <2>3, <2>4, <2>6, <2>7 DEF Replays
  <2>9. QED
    BY <1>3, <2>7, <2>8
<1>5. expected[c] # Len(Done)
  BY <1>2, <1>3, <1>4, BatchHistory DEF VersionMatches, Version, Done
<1>6. expected[c] <= Len(Done)
  BY <1>1, <1>2 DEF ClientsInv, SentOnce
<1>7. expected[c] < Len(Done)
  BY <1>5, <1>6, BatchHistory DEF ClientsInv, ClientsTypeOK
<1>8. c # Creator
  <2>1. Done # <<>>
    BY <1>7, EmptySeq DEF ClientsInv, ClientsTypeOK
  <2>2. QED
    BY <1>4, <2>1 DEF ClientsInv, CreatorInv
<1>9. QED
  BY <1>4, <1>7, <1>8

\* Taking a new key after a conflict.
LEMMA RefusedStep ==
  ASSUME StoreInv, ClientsInv, NEW c \in People, pc[c] = "waiting",
         Refuses(RequestOf(c, expected[c])),
         pc' = [pc EXCEPT ![c] = "reading"], attempt' = [attempt EXCEPT ![c] = @ + 1],
         UNCHANGED <<vars, expected, sent>>
  PROVE  ClientsInv'
<1>1. c # Creator /\ expected[c] < Len(Done) /\ ~ Used(<<c, attempt[c]>>)
  BY ConflictSaysUnused
<1>2. Done' = Done /\ ledger' = ledger /\ events' = events /\ expected' = expected /\ sent' = sent
  BY DEF vars, memory, Done
<1>3. ClientsTypeOK /\ CreatorInv /\ Asked /\ Bounded
  BY DEF ClientsInv
<1>4. Len(Done) \in Nat /\ expected[c] \in Nat /\ attempt[c] \in Nat \ {0}
  BY <1>3, BatchHistory DEF ClientsTypeOK
<1>5. /\ pc'[c] = "reading" /\ attempt'[c] = attempt[c] + 1
      /\ \A d \in People \ {c} : pc'[d] = pc[d] /\ attempt'[d] = attempt[d]
  BY <1>3 DEF ClientsTypeOK
<1>6. ClientsTypeOK'
  BY <1>2, <1>3, <1>4 DEF ClientsTypeOK
<1>7. \A key : Used(key)' <=> Used(key)
  BY <1>2 DEF Used
<1>8. ASSUME NEW q \in sent
      PROVE  SentOnce(q)'
  <2>1. PICK d \in People : \E n \in 1 .. attempt[d] :
          /\ q = Attempt(d, n, q.expected)
          /\ q.expected <= Len(Done)
          /\ n = attempt[d] => pc[d] # "reading" /\ q.expected = expected[d]
          /\ n < attempt[d] => q.expected < Len(Done) /\ ~ Used(q.key)
    BY DEF ClientsInv, SentOnce
  <2>2. PICK n \in 1 .. attempt[d] :
          /\ q = Attempt(d, n, q.expected)
          /\ q.expected <= Len(Done)
          /\ n = attempt[d] => pc[d] # "reading" /\ q.expected = expected[d]
          /\ n < attempt[d] => q.expected < Len(Done) /\ ~ Used(q.key)
    BY <2>1
  <2>3. q.key = <<d, n>>
    BY <2>2 DEF Attempt
  <2>4. attempt[d] \in Nat /\ n \in Nat /\ n <= attempt[d]
    BY <1>3 DEF ClientsTypeOK
  <2>5. /\ n \in 1 .. attempt'[d]
        /\ n = attempt'[d] => pc'[d] # "reading" /\ q.expected = expected[d]
        /\ n < attempt'[d] => q.expected < Len(Done) /\ ~ Used(q.key)
    <3>1. CASE d # c
      BY <1>5, <2>2, <3>1
    <3>2. CASE d = c
      <4>1. n = attempt[c] => q.expected < Len(Done) /\ ~ Used(q.key)
        BY <1>1, <2>2, <2>3, <3>2
      <4>2. q.expected < Len(Done) /\ ~ Used(q.key)
        BY <2>2, <2>4, <3>2, <4>1
      <4>3. n \in 1 .. attempt[c] + 1 /\ n # attempt[c] + 1
        BY <2>4, <3>2
      <4>4. QED
        BY <1>5, <3>2, <4>2, <4>3
    <3>3. QED
      BY <3>1, <3>2
  <2>6. QED
    BY <1>2, <1>7, <2>2, <2>5 DEF SentOnce, Attempt
<1>9. ASSUME NEW d \in People
      PROVE  SenderInv(d)'
  <2>1. SenderInv(d)
    BY DEF ClientsInv
  <2>2. CASE d # c
    <3>1. pc'[d] = pc[d] /\ attempt'[d] = attempt[d]
      BY <1>5, <2>2
    <3>2. RequestOf(d, expected[d])' = RequestOf(d, expected[d])
      BY <1>2, <3>1 DEF RequestOf
    <3>3. QED
      BY <1>2, <1>7, <2>1, <3>1, <3>2 DEF SenderInv
  <2>3. CASE d = c
    <3>1. attempt[c] <= expected[c]
      BY <1>1, <2>1, <2>3 DEF SenderInv
    <3>2. Done # <<>> /\ attempt[c] + 1 <= Len(Done)
      BY <1>1, <1>4, <3>1, EmptySeq
    <3>3. QED
      BY <1>2, <1>5, <2>3, <3>2 DEF SenderInv
  <2>4. QED
    BY <2>2, <2>3
<1>10. CreatorInv'
  BY <1>1, <1>2, <1>3, <1>5, <1>7, ClientsAssumption DEF CreatorInv
<1>11. Asked'
  BY <1>2, <1>3 DEF Asked, Applied, RequestIn
<1>12. Bounded'
  BY <1>2, <1>3 DEF Bounded, EndsTorn
<1>13. QED
  BY <1>2, <1>6, <1>8, <1>9, <1>10, <1>11, <1>12 DEF ClientsInv

-----------------------------------------------------------------------------
(* The store and its clients. *)

\* A step that leaves the events, the histories and the ledger alone.
LEMMA QuietStep ==
  ASSUME ClientsInv, UNCHANGED <<events, projection, ledger>>, StoreInv
  PROVE  DoneStep /\ LogStep
<1>1. Done' = Done /\ events' = events /\ ledger' = ledger
  BY DEF Done
<1>2. Len(Done) \in Nat /\ Len(events) \in Nat
  BY BatchHistory, LenProperties DEF StoreInv, StoreTypeOK
<1>3. QED
  BY <1>1, <1>2 DEF ClientsInv, Asked, Bounded, EndsTorn, DoneStep, LogStep, RequestIn

\* The result of a request reaches the client that waits for it.
LEMMA AnsweredStep ==
  ASSUME StoreInv, ClientsInv, NEW c \in People, pc[c] = "waiting",
         Replay(RequestOf(c, expected[c])) \/ Commit(RequestOf(c, expected[c])),
         pc' = [pc EXCEPT ![c] = "done"], UNCHANGED <<attempt, expected, sent>>
  PROVE  [Next]_vars /\ ClientsInv'
<1> DEFINE req == RequestOf(c, expected[c])
<1>1. req \in sent /\ req \in Request
  BY DEF ClientsInv, ClientsTypeOK, SenderInv
<1>2. req.batch = Shared /\ req.key = <<c, attempt[c]>>
  BY DEF RequestOf
<1> HIDE DEF req
<1>3. CASE Replay(req)
  <2>1. DoneStep /\ LogStep
    BY <1>3, QuietStep DEF Replay, memory
  <2>2. Used(<<c, attempt[c]>>) /\ Done' = Done
    BY <1>2, <1>3, BatchHistory DEF Replay, Replays, memory, Done
  <2>3. ClientsInv'
    BY <2>1, <2>2, ServedStep DEF Used
  <2>4. QED
    BY <1>1, <1>3, <2>3 DEF Next
<1>4. CASE Commit(req)
  <2>1. Grown(req) /\ LogStep
    BY <1>1, <1>4, CommitGrows
  <2>2. \E i \in DOMAIN Done' : Done'[i].key = <<c, attempt[c]>>
    <3>1. Done' = Append(Done, Applied(req))
      BY <2>1 DEF Grown
    <3>2. Applied(req) \in AppliedCommand /\ Applied(req).key = <<c, attempt[c]>>
      BY <1>1, <1>2, EventsAssumption DEF Applied, AppliedCommand, Request
    <3>3. /\ Len(Done) + 1 \in DOMAIN Append(Done, Applied(req))
          /\ Append(Done, Applied(req))[Len(Done) + 1] = Applied(req)
      BY <3>2, BatchHistory, AppendedLog
    <3>4. QED
      BY <3>1, <3>2, <3>3
  <2>3. ClientsInv'
    BY <1>1, <2>1, <2>2, ServedStep DEF DoneStep
  <2>4. QED
    BY <1>1, <1>4, <2>3 DEF Next
<1>5. QED
  BY <1>3, <1>4 DEF req

\* Every step of the store with its clients is one of the store alone, and keeps
\* the invariant.
LEMMA ClientsStep ==
  ASSUME StoreInv, ClientsInv, [ClientsNext]_allVars
  PROVE  [Next]_vars /\ ClientsInv'
<1>1. ASSUME NEW c \in People, Read(c)
      PROVE  [Next]_vars /\ ClientsInv'
  BY <1>1, ReadStep DEF Read
<1>2. ASSUME NEW c \in People, Receive(c)
      PROVE  [Next]_vars /\ ClientsInv'
  <2>1. CASE /\ Replay(RequestOf(c, expected[c])) \/ Commit(RequestOf(c, expected[c]))
             /\ pc' = [pc EXCEPT ![c] = "done"] /\ attempt' = attempt
    BY <1>2, <2>1, AnsweredStep DEF Receive
  <2>2. CASE /\ Refuses(RequestOf(c, expected[c]))
             /\ pc' = [pc EXCEPT ![c] = "reading"]
             /\ attempt' = [attempt EXCEPT ![c] = @ + 1]
             /\ UNCHANGED vars
    BY <1>2, <2>2, RefusedStep DEF Receive
  <2>3. QED
    BY <1>2, <2>1, <2>2 DEF Receive
<1>3. ASSUME NEW req \in sent, Process(req)
      PROVE  [Next]_vars /\ ClientsInv'
  <2>1. req \in Request
    BY LiveRequest
  <2>2. UNCHANGED <<pc, attempt, expected, sent>>
    BY <1>3 DEF Process, clientVars
  <2>3. CASE Replay(req)
    <3>1. DoneStep /\ LogStep
      BY <2>3, QuietStep DEF Replay, memory
    <3>2. QED
      BY <2>1, <2>2, <2>3, <3>1, ServedStep DEF Next
  <2>4. CASE Commit(req)
    <3>1. DoneStep /\ LogStep
      BY <2>4, CommitGrows DEF DoneStep
    <3>2. QED
      BY <2>1, <2>2, <2>4, <3>1, ServedStep DEF Next
  <2>5. ASSUME NEW left \in AppendFailures, FailToAppend(req, left)
        PROVE  [Next]_vars /\ ClientsInv'
    <3>1. DoneStep /\ LogStep
      BY <2>5, FailedAppend DEF DoneStep
    <3>2. QED
      BY <2>1, <2>2, <2>5, <3>1, ServedStep DEF Next
  <2>6. QED
    BY <1>3, <2>3, <2>4, <2>5 DEF Process
<1>4. CASE Crash /\ UNCHANGED clientVars
  <2>1. DoneStep /\ LogStep
    BY <1>4, QuietStep DEF Crash, memory
  <2>2. QED
    BY <1>4, <2>1, ServedStep DEF clientVars, Next
<1>5. CASE Open /\ UNCHANGED clientVars
  BY <1>5, OpenGrows, ServedStep DEF clientVars, Next
<1>6. CASE FailToOpen /\ UNCHANGED clientVars
  <2>1. DoneStep /\ LogStep
    BY <1>6, QuietStep DEF FailToOpen, memory
  <2>2. QED
    BY <1>6, <2>1, ServedStep DEF clientVars, Next
<1>7. CASE LoseSnapshot /\ UNCHANGED clientVars
  <2>1. DoneStep /\ LogStep
    BY <1>7, QuietStep DEF LoseSnapshot, memory
  <2>2. QED
    BY <1>7, <2>1, ServedStep DEF clientVars, Next
<1>8. CASE UNCHANGED allVars
  <2>1. DoneStep /\ LogStep
    BY <1>8, QuietStep DEF allVars, vars, memory
  <2>2. QED
    BY <1>8, <2>1, ServedStep DEF allVars, clientVars
<1>9. QED
  BY <1>1, <1>2, <1>3, <1>4, <1>5, <1>6, <1>7, <1>8 DEF ClientsNext

\* Before anything is done the creator has sent its request, and nobody another.
LEMMA ClientsStart == ClientsInit => ClientsInv
<1> SUFFICES ASSUME ClientsInit
             PROVE  ClientsInv
  OBVIOUS
<1>1. /\ ledger = <<>> /\ events = <<>> /\ Done = <<>>
      /\ pc = [c \in People |-> IF c = Creator THEN "waiting" ELSE "reading"]
      /\ attempt = [c \in People |-> 1]
      /\ expected = [c \in People |-> 0]
      /\ sent = {RequestOf(Creator, 0)}
  BY ClientsAssumption DEF ClientsInit, Init, Done
<1>2. Len(Done) = 0 /\ Len(events) = 0 /\ Len(ledger) = 0 /\ DOMAIN Done = {} /\ DOMAIN ledger = {}
  BY <1>1
<1>3. Creator \in People /\ Creator \in Bodies /\ Shared \in Batches
  BY ClientsAssumption, PeopleAssumption
<1>4. RequestOf(Creator, 0) = Attempt(Creator, 1, 0)
  BY <1>1, <1>3 DEF RequestOf, Attempt
<1>5. <<Creator, 1>> \in Keys
  BY <1>3, ClientsAssumption, KeyAssumption
<1>6. Attempt(Creator, 1, 0) \in Request
  BY <1>3, <1>5, CommandAssumption, EventsAssumption DEF Attempt, Request
<1>7. ClientsTypeOK
  BY <1>1, <1>4, <1>6 DEF ClientsTypeOK
<1>8. ASSUME NEW req \in sent
      PROVE  SentOnce(req)
  <2>1. req = Attempt(Creator, 1, req.expected) /\ req.expected = 0
    BY <1>1, <1>4 DEF Attempt
  <2>2. /\ 1 \in 1 .. attempt[Creator] /\ ~ (1 < attempt[Creator])
        /\ pc[Creator] # "reading" /\ expected[Creator] = 0
    BY <1>1, <1>3
  <2>3. QED
    BY <1>2, <1>3, <2>1, <2>2 DEF SentOnce
<1>9. ASSUME NEW c \in People
      PROVE  SenderInv(c)
  BY <1>1 DEF SenderInv
<1>10. CreatorInv
  BY <1>1, <1>3 DEF CreatorInv
<1>11. Asked /\ Bounded
  BY <1>1, <1>2, EventsAssumption DEF Asked, Bounded, EndsTorn
<1>12. QED
  BY <1>7, <1>8, <1>9, <1>10, <1>11 DEF ClientsInv

\* Between them the clients ask nothing of the store that it is not modelled to be
\* asked: seen through its own variables it behaves as the store alone does, so
\* whatever is proved of the store holds for them.
THEOREM ClientsUseTheStore == ClientsSafety => Spec
<1>1. ClientsInit => Init
  BY DEF ClientsInit
<1>2. ClientsInit => StoreInv /\ ClientsInv
  BY <1>1, StoreInit, ClientsStart
<1>3. StoreInv /\ ClientsInv /\ [ClientsNext]_allVars => [Next]_vars /\ StoreInv' /\ ClientsInv'
  BY ClientsStep, StoreNext
<1>4. QED
  BY <1>1, <1>2, <1>3, PTL DEF ClientsSafety, Spec

\* The inductive invariant of the store and its clients.
THEOREM ClientsInvariant == ClientsSafety => [](StoreInv /\ ClientsInv)
<1>1. ClientsInit => StoreInv /\ ClientsInv
  BY StoreInit, ClientsStart DEF ClientsInit
<1>2. (StoreInv /\ ClientsInv) /\ [ClientsNext]_allVars => (StoreInv /\ ClientsInv)'
  BY ClientsStep, StoreNext
<1>3. QED
  BY <1>1, <1>2, PTL DEF ClientsSafety

\* Copies of requests, requests under abandoned keys, lost answers and restarts
\* never make a command take effect twice, and who is told it was done was served
\* (jsonstore.Commit looks up kept results before it compares versions).
THEOREM CommandsTakeEffectOnce == ClientsSpec => []EffectiveOnce
<1>1. ASSUME StoreInv, ClientsInv, NEW c \in People
      PROVE  /\ Cardinality(Effects(c)) <= 1
             /\ pc[c] = "done" => Effects(c) # {}
  <2>1. \A i \in Effects(c) : i \in DOMAIN Done /\ Done[i].key = <<c, attempt[c]>>
    BY <1>1, DoneIsCurrent DEF Effects, Done
  <2>2. \A i, j \in Effects(c) : i = j
    BY <1>1, <2>1, BatchHistory
  <2>3. Cardinality(Effects(c)) <= 1
    <3>1. CASE Effects(c) = {}
      BY <3>1, FS_EmptySet
    <3>2. ASSUME NEW i \in Effects(c)
          PROVE  Cardinality(Effects(c)) <= 1
      <4>1. Effects(c) = {i}
        BY <2>2
      <4>2. QED
        BY <4>1, FS_Singleton
    <3>3. QED
      BY <3>1, <3>2
  <2>4. ASSUME pc[c] = "done"
        PROVE  Effects(c) # {}
    <3>1. PICK i \in DOMAIN Done : Done[i].key = <<c, attempt[c]>>
      BY <1>1, <2>4 DEF ClientsInv, SenderInv, Used
    <3>2. Done[i].body = c
      BY <1>1, <3>1, DoneIsCurrent
    <3>3. QED
      BY <3>2 DEF Effects, Done
  <2>5. QED
    BY <2>3, <2>4
<1>2. StoreInv /\ ClientsInv => EffectiveOnce
  BY <1>1 DEF EffectiveOnce
<1>3. QED
  BY <1>2, ClientsInvariant, PTL DEF ClientsSpec

\* After a conflict a client may take a new key: nothing it sent before has taken
\* effect, and no copy of it that is still under way ever will.
THEOREM ConflictsHaveNoEffect == ClientsSpec => []RefusedHasNoEffect
<1>1. StoreInv /\ ClientsInv => RefusedHasNoEffect
  BY DoneIsCurrent DEF RefusedHasNoEffect, Effects, Done
<1>2. QED
  BY <1>1, ClientsInvariant, PTL DEF ClientsSpec

\* However often requests are repeated, each conflict a client meets is another
\* client's command: it needs at most one key more than the others have commands
\* done, and the creator needs one.
THEOREM ConflictsAreBounded == ClientsSpec => []RefusalsBounded
<1>1. ASSUME StoreInv, ClientsInv
      PROVE  RefusalsBounded
  <2>1. attempt[Creator] = 1
    BY <1>1 DEF ClientsInv, CreatorInv
  <2>2. \A c \in People : attempt[c] <= 1 + Cardinality(Served(c))
    BY <1>1, AttemptsBounded
  <2>3. QED
    BY <2>1, <2>2 DEF RefusalsBounded, Served
<1>2. QED
  BY <1>1, ClientsInvariant, PTL DEF ClientsSpec

=============================================================================
