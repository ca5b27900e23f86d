-------------------------- MODULE EventStoreProofs --------------------------
(***************************************************************************)
(* Theorems about EventStore, for every choice of batches, keys, commands, *)
(* bodies, failures of an append and bounds.                               *)
(***************************************************************************)
EXTENDS EventStoreProperties, SequenceTheorems, TLAPS

-----------------------------------------------------------------------------
(* The shape of what the store keeps. *)

AppliedCommand ==
  [key : Keys, command : Commands, body : Bodies, expected : Nat]

Projection == [Batches -> Seq(AppliedCommand)]

EventDigest == Nat \X Batches \X Projection

Event ==
  [sequence : Nat, batch : Batches, key : Keys, command : Commands,
   digest : Bodies \X Nat, previous : EventDigest \cup {NoDigest},
   projection : Projection]

Line == Event \cup {Torn, Garbled}

StoreTypeOK ==
  /\ ledger \in Seq(Line)
  /\ events \in Seq(Event)
  /\ projection \in Projection
  /\ damaged \in BOOLEAN

-----------------------------------------------------------------------------
(* The inductive invariant. *)

Empty == [b \in Batches |-> <<>>]

\* The projection a log leads to.
Final(log) == IF log = <<>> THEN Empty ELSE log[Len(log)].projection

\* Histories only get longer along a log, that of an event's batch at each event.
Grows(log) ==
  \A i, j \in DOMAIN log : i < j =>
    \A b \in Batches :
      /\ Len(log[i].projection[b]) <= Len(log[j].projection[b])
      /\ b = log[j].batch => Len(log[i].projection[b]) < Len(log[j].projection[b])

KeysOnce(log) ==
  \A i, j \in DOMAIN log :
    log[i].batch = log[j].batch /\ log[i].key = log[j].key => i = j

CommandOf(e) ==
  [key |-> e.key, command |-> e.command, body |-> e.digest[1], expected |-> e.digest[2]]

\* Every event of the log is in the history of its batch, at its version, which
\* is the one after the version its sender had read.
Recorded(log, proj) ==
  \A i \in DOMAIN log :
    LET e == log[i] IN
    /\ EventVersion(e) = e.digest[2] + 1
    /\ EventVersion(e) \in DOMAIN proj[e.batch]
    /\ proj[e.batch][EventVersion(e)] = CommandOf(e)

\* Nothing else is in a history.
Explained(log, proj) ==
  \A b \in Batches : \A n \in DOMAIN proj[b] :
    \E i \in DOMAIN log : log[i].batch = b /\ EventVersion(log[i]) = n

History(log, proj) ==
  /\ VerifyChain(log)
  /\ proj = Final(log)
  /\ Grows(log)
  /\ KeysOnce(log)
  /\ Recorded(log, proj)
  /\ Explained(log, proj)

ResultOf(e) ==
  [command |-> e.command, digest |-> e.digest, version |-> EventVersion(e)]

Results(log, kept) ==
  /\ DOMAIN kept = {<<log[i].batch, log[i].key>> : i \in DOMAIN log}
  /\ \A i \in DOMAIN log : kept[<<log[i].batch, log[i].key>>] = ResultOf(log[i])

AnswerOf(e) ==
  [batch |-> e.batch, key |-> e.key, command |-> e.command, digest |-> e.digest,
   version |-> EventVersion(e)]

AnswersRecorded == \A a \in answers : \E i \in DOMAIN events : a = AnswerOf(events[i])

\* req is a command the memory can be extended by.
Extends(req) ==
  /\ <<req.batch, req.key>> \notin DOMAIN idempotency
  /\ VersionMatches(req)
  /\ req.command = CreateBatch <=> Version(req.batch) = 0

\* An append failed after its line was complete: the event is on disk only.
Ahead == \E req \in Request : Extends(req) /\ ledger = Append(events, NewEvent(req))

\* A line of the ledger cannot be read.
Spoilt(lines) == \E i \in DOMAIN lines : lines[i] \in {Torn, Garbled}

\* There are lines that the service has never read, with two events in one place.
OutOfStep(lines, log) ==
  /\ Len(lines) > Len(log)
  /\ \E i \in DOMAIN lines : lines[i].sequence # i

\* recover will never accept the ledger again, nor ReadState.
Broken == Spoilt(ledger) \/ OutOfStep(ledger, events)

LedgerFollowsMemory ==
  /\ ledger = events \/ Ahead \/ Broken
  /\ ~damaged => ledger = events

\* The digest of a snapshot covers its projection.
SnapshotOfAnEvent ==
  /\ snapshot # NoSnapshot => snapshot.projection = snapshot.digest[3]
  /\ ledger = <<>> => snapshot = NoSnapshot

StoreInv ==
  /\ StoreTypeOK
  /\ History(events, projection)
  /\ Results(events, idempotency)
  /\ AnswersRecorded
  /\ LedgerFollowsMemory
  /\ SnapshotOfAnEvent

-----------------------------------------------------------------------------
(* Lemmas about events and logs. *)

\* No event is a line that was cut short.
LEMMA EventIsWhole == \A e \in Event : e # Torn /\ e # Garbled
BY DEF Event, Torn, Garbled

\* What the memory holds are events.
LEMMA EventsInMemory == StoreTypeOK => \A i \in DOMAIN events : events[i] \in Event
BY ElementOfSeq, LenProperties DEF StoreTypeOK

\* What appending an event does to a log, position by position.
LEMMA AppendedLog ==
  ASSUME NEW S, NEW log \in Seq(S), NEW e \in S
  PROVE  /\ Append(log, e) \in Seq(S)
         /\ Append(log, e) # <<>>
         /\ Len(log) \in Nat
         /\ Len(Append(log, e)) = Len(log) + 1
         /\ DOMAIN log = 1 .. Len(log)
         /\ DOMAIN Append(log, e) = 1 .. Len(log) + 1
         /\ \A i \in 1 .. Len(log) : Append(log, e)[i] = log[i]
         /\ Append(log, e)[Len(log) + 1] = e
BY AppendProperties, LenProperties

\* e continues log, which has led to proj: the next sequence and the digest of
\* the event before, one more command of a batch at the version it expects, and a
\* key that was not used for that batch.
Continues(e, log, proj) ==
  /\ e.sequence = Len(log) + 1
  /\ e.previous = IF log = <<>> THEN NoDigest ELSE Digest(log[Len(log)])
  /\ e.projection = [proj EXCEPT ![e.batch] = Append(@, CommandOf(e))]
  /\ e.digest[2] = Len(proj[e.batch])
  /\ \A i \in DOMAIN log : ~ (log[i].batch = e.batch /\ log[i].key = e.key)

\* The histories after an event that continues a log.
LEMMA ContinuedProjection ==
  ASSUME NEW log \in Seq(Event), NEW proj \in Projection, NEW e \in Event, Continues(e, log, proj)
  PROVE  /\ CommandOf(e) \in AppliedCommand
         /\ e.batch \in Batches
         /\ proj[e.batch] \in Seq(AppliedCommand)
         /\ e.projection \in Projection
         /\ e.projection[e.batch] = Append(proj[e.batch], CommandOf(e))
         /\ \A b \in Batches \ {e.batch} : e.projection[b] = proj[b]
         /\ EventVersion(e) = Len(proj[e.batch]) + 1
         /\ EventVersion(e) = e.digest[2] + 1
         /\ EventVersion(e) \in DOMAIN e.projection[e.batch]
         /\ e.projection[e.batch][EventVersion(e)] = CommandOf(e)
         /\ \A b \in Batches : Len(proj[b]) \in Nat
         /\ \A b \in Batches : Len(e.projection[b]) \in Nat
<1>1. CommandOf(e) \in AppliedCommand /\ e.batch \in Batches /\ e.projection \in Projection
  BY DEF CommandOf, AppliedCommand, Event
<1>2. proj[e.batch] \in Seq(AppliedCommand)
  BY <1>1 DEF Projection
<1>3. /\ e.projection[e.batch] = Append(proj[e.batch], CommandOf(e))
      /\ \A b \in Batches \ {e.batch} : e.projection[b] = proj[b]
  BY <1>1 DEF Continues, Projection
<1>4. /\ EventVersion(e) = Len(proj[e.batch]) + 1
      /\ EventVersion(e) = e.digest[2] + 1
      /\ EventVersion(e) \in DOMAIN e.projection[e.batch]
      /\ e.projection[e.batch][EventVersion(e)] = CommandOf(e)
  <2>1. /\ Len(proj[e.batch]) \in Nat
        /\ Len(e.projection[e.batch]) = Len(proj[e.batch]) + 1
        /\ DOMAIN e.projection[e.batch] = 1 .. Len(proj[e.batch]) + 1
        /\ e.projection[e.batch][Len(proj[e.batch]) + 1] = CommandOf(e)
    BY <1>1, <1>2, <1>3, AppendedLog
  <2>2. QED
    BY <2>1 DEF EventVersion, Continues
<1>5. \A b \in Batches : Len(proj[b]) \in Nat /\ Len(e.projection[b]) \in Nat
  BY <1>1, LenProperties DEF Projection
<1>6. QED
  BY <1>1, <1>2, <1>3, <1>4, <1>5

\* An event that continues a history makes a longer one.
LEMMA ContinuedHistory ==
  ASSUME NEW log \in Seq(Event), NEW proj \in Projection, History(log, proj),
         NEW e \in Event, Continues(e, log, proj)
  PROVE  History(Append(log, e), e.projection)
<1> DEFINE n == Len(log)
           new == Append(log, e)
<1>1. /\ new \in Seq(Event) /\ new # <<>> /\ n \in Nat /\ Len(new) = n + 1
      /\ DOMAIN log = 1 .. n /\ DOMAIN new = 1 .. n + 1
      /\ \A i \in 1 .. n : new[i] = log[i]
      /\ new[n + 1] = e
  BY AppendedLog
<1>2. log = <<>> <=> n = 0
  BY EmptySeq
<1>0. /\ e.batch \in Batches
      /\ e.projection[e.batch] = Append(proj[e.batch], CommandOf(e))
      /\ \A b \in Batches \ {e.batch} : e.projection[b] = proj[b]
      /\ EventVersion(e) = Len(proj[e.batch]) + 1
      /\ EventVersion(e) = e.digest[2] + 1
      /\ EventVersion(e) \in DOMAIN e.projection[e.batch]
      /\ e.projection[e.batch][EventVersion(e)] = CommandOf(e)
      /\ \A b \in Batches : Len(proj[b]) \in Nat
      /\ \A b \in Batches : Len(e.projection[b]) \in Nat
  BY ContinuedProjection
<1> HIDE DEF n, new
<1>3. \A i \in 1 .. n : log[i] \in Event
  BY ElementOfSeq DEF n
<1>4. VerifyChain(new)
  <2> SUFFICES ASSUME NEW i \in 1 .. n + 1
               PROVE  /\ new[i].sequence = i
                      /\ new[i].previous = IF i = 1 THEN NoDigest ELSE Digest(new[i - 1])
    BY <1>1 DEF VerifyChain
  <2>1. CASE i \in 1 .. n
    <3>1. /\ log[i].sequence = i
          /\ log[i].previous = IF i = 1 THEN NoDigest ELSE Digest(log[i - 1])
      BY <1>1, <2>1 DEF History, VerifyChain
    <3>2. new[i] = log[i] /\ (i # 1 => new[i - 1] = log[i - 1])
      BY <1>1, <2>1
    <3>3. QED
      BY <3>1, <3>2
  <2>2. CASE i = n + 1
    <3>1. new[i] = e /\ (i # 1 => new[i - 1] = log[n])
      BY <1>1, <2>2
    <3>2. QED
      BY <1>1, <1>2, <2>2, <3>1 DEF Continues, n
  <2>3. QED
    BY <1>1, <2>1, <2>2
<1>5. e.projection = Final(new)
  BY <1>1 DEF Final
<1>6. Grows(new)
  <2> SUFFICES ASSUME NEW i \in 1 .. n + 1, NEW j \in 1 .. n + 1, i < j, NEW b \in Batches
               PROVE  /\ Len(new[i].projection[b]) <= Len(new[j].projection[b])
                      /\ b = new[j].batch =>
                           Len(new[i].projection[b]) < Len(new[j].projection[b])
    BY <1>1 DEF Grows
  <2>1. CASE j \in 1 .. n
    BY <1>1, <2>1 DEF History, Grows
  <2>2. CASE j = n + 1
    <3>1. i \in 1 .. n /\ new[i] = log[i] /\ new[j] = e /\ n # 0
      BY <1>1, <2>2
    <3>2. proj = log[n].projection
      BY <1>2, <3>1 DEF History, Final, n
    <3>3. Len(log[i].projection[b]) <= Len(proj[b])
      <4>1. CASE i = n
        BY <3>2, <4>1, ContinuedProjection
      <4>2. CASE i # n
        BY <1>1, <3>1, <3>2, <4>2 DEF History, Grows
      <4>3. QED
        BY <4>1, <4>2
    <3>4. Len(log[i].projection[b]) \in Nat
      BY <1>3, <3>1, LenProperties DEF Event, Projection
    <3>5. /\ Len(proj[b]) <= Len(e.projection[b])
          /\ b = e.batch => Len(proj[b]) < Len(e.projection[b])
      BY <1>0 DEF EventVersion
    <3>6. Len(proj[b]) \in Nat /\ Len(e.projection[b]) \in Nat
      BY <1>0
    <3>7. new[i].projection = log[i].projection /\ new[j].projection = e.projection
      BY <3>1
    <3>8. new[j].batch = e.batch
      BY <3>1
    <3>9. /\ Len(log[i].projection[b]) <= Len(e.projection[b])
          /\ b = e.batch => Len(log[i].projection[b]) < Len(e.projection[b])
      <4> DEFINE old == Len(log[i].projection[b])
                 now == Len(proj[b])
                 next == Len(e.projection[b])
      <4>1. old \in Nat /\ now \in Nat /\ next \in Nat
        BY <3>4, <3>6
      <4>2. old <= now /\ now <= next /\ (b = e.batch => now < next)
        BY <3>3, <3>5
      <4> HIDE DEF old, now, next
      <4>3. old <= next /\ (b = e.batch => old < next)
        BY <4>1, <4>2
      <4>4. QED
        BY <4>3 DEF old, next
    <3>10. QED
      BY <3>7, <3>8, <3>9
  <2>3. QED
    BY <1>1, <2>1, <2>2
<1>7. KeysOnce(new)
  BY <1>1 DEF History, KeysOnce, Continues
<1>8. Recorded(new, e.projection)
  <2> SUFFICES ASSUME NEW i \in 1 .. n + 1
               PROVE  LET x == new[i] IN
                      /\ EventVersion(x) = x.digest[2] + 1
                      /\ EventVersion(x) \in DOMAIN e.projection[x.batch]
                      /\ e.projection[x.batch][EventVersion(x)] = CommandOf(x)
    BY <1>1 DEF Recorded
  <2>1. CASE i \in 1 .. n
    <3> DEFINE x == log[i]
    <3>1. /\ EventVersion(x) = x.digest[2] + 1
          /\ EventVersion(x) \in DOMAIN proj[x.batch]
          /\ proj[x.batch][EventVersion(x)] = CommandOf(x)
      BY <1>1, <2>1 DEF History, Recorded
    <3>2. x.batch \in Batches
      BY <1>3, <2>1 DEF Event
    <3>3. CASE x.batch = e.batch
      <4>1. /\ e.projection[x.batch] = Append(proj[x.batch], CommandOf(e))
            /\ proj[x.batch] \in Seq(AppliedCommand) /\ CommandOf(e) \in AppliedCommand
        BY <3>3, ContinuedProjection
      <4>2. /\ DOMAIN proj[x.batch] \subseteq DOMAIN e.projection[x.batch]
            /\ \A v \in DOMAIN proj[x.batch] :
                 e.projection[x.batch][v] = proj[x.batch][v]
        BY <4>1, AppendedLog
      <4>3. QED
        BY <1>1, <2>1, <3>1, <4>2
    <3>4. CASE x.batch # e.batch
      BY <1>0, <1>1, <2>1, <3>1, <3>2, <3>4
    <3>5. QED
      BY <3>3, <3>4
  <2>2. CASE i = n + 1
    <3>1. new[i] = e
      BY <1>1, <2>2
    <3>2. QED
      BY <1>0, <3>1
  <2>3. QED
    BY <1>1, <2>1, <2>2
<1>9. Explained(new, e.projection)
  <2> SUFFICES ASSUME NEW b \in Batches, NEW v \in DOMAIN e.projection[b]
               PROVE  \E i \in 1 .. n + 1 :
                        new[i].batch = b /\ EventVersion(new[i]) = v
    BY <1>1 DEF Explained
  <2>1. CASE v \in DOMAIN proj[b] /\ e.projection[b][v] = proj[b][v]
    <3>1. PICK i \in 1 .. n : log[i].batch = b /\ EventVersion(log[i]) = v
      BY <1>1, <2>1 DEF History, Explained
    <3>2. QED
      BY <1>1, <2>1, <3>1
  <2>2. CASE ~ (v \in DOMAIN proj[b] /\ e.projection[b][v] = proj[b][v])
    <3>1. b = e.batch
      BY <2>2, ContinuedProjection
    <3>2. /\ e.projection[b] = Append(proj[b], CommandOf(e))
          /\ proj[b] \in Seq(AppliedCommand) /\ CommandOf(e) \in AppliedCommand
      BY <3>1, ContinuedProjection
    <3>3. v = Len(proj[b]) + 1 /\ e.projection[b][v] = CommandOf(e)
      BY <2>2, <3>2, AppendedLog
    <3>4. QED
      BY <1>0, <1>1, <3>1, <3>3
  <2>3. QED
    BY <2>1, <2>2
<1>10. QED
  BY <1>4, <1>5, <1>6, <1>7, <1>8, <1>9 DEF History, new

-----------------------------------------------------------------------------
(* Lemmas about the memory. *)

\* The event a command would be committed with continues the events in memory.
LEMMA NewEventContinues ==
  ASSUME StoreTypeOK, Results(events, idempotency), NEW req \in Request, Extends(req)
  PROVE  /\ NewEvent(req) \in Event
         /\ Continues(NewEvent(req), events, projection)
<1> DEFINE e == NewEvent(req)
<1>1. /\ req.batch \in Batches /\ req.key \in Keys /\ req.command \in Commands
      /\ req.body \in Bodies /\ req.expected \in Nat
  BY EventsAssumption DEF Request
<1>2. /\ e.sequence = Len(events) + 1
      /\ e.batch = req.batch /\ e.key = req.key /\ e.command = req.command
      /\ e.digest = <<req.body, req.expected>>
      /\ e.previous = IF events = <<>> THEN NoDigest ELSE Digest(events[Len(events)])
      /\ e.projection = [projection EXCEPT ![req.batch] = Append(@, Applied(req))]
  BY DEF NewEvent, NextSequence, RequestDigest
<1>3. Len(events) \in Nat
  BY LenProperties DEF StoreTypeOK
<1>4. e.previous \in EventDigest \cup {NoDigest}
  <2>1. CASE events = <<>>
    BY <1>2, <2>1
  <2>2. CASE events # <<>>
    <3>1. events[Len(events)] \in Event
      BY <1>3, <2>2, EmptySeq, ElementOfSeq DEF StoreTypeOK
    <3>2. QED
      BY <1>2, <2>2, <3>1 DEF Digest, EventDigest, Event
  <2>3. QED
    BY <2>1, <2>2
<1>5. Applied(req) \in AppliedCommand /\ Applied(req) = CommandOf(e)
  BY <1>1, <1>2 DEF Applied, AppliedCommand, CommandOf
<1>6. e.projection \in Projection
  <2>1. Append(projection[req.batch], Applied(req)) \in Seq(AppliedCommand)
    BY <1>1, <1>5, AppendedLog DEF StoreTypeOK, Projection
  <2>2. QED
    BY <1>1, <1>2, <2>1 DEF StoreTypeOK, Projection
<1>7. e \in Event
  BY <1>1, <1>2, <1>3, <1>4, <1>6 DEF NewEvent, NextSequence, RequestDigest, Event
<1>8. Continues(e, events, projection)
  <2>1. e.digest[2] = Len(projection[e.batch])
    BY <1>2 DEF Extends, VersionMatches, Version
  <2>2. \A i \in DOMAIN events : ~ (events[i].batch = e.batch /\ events[i].key = e.key)
    BY <1>2 DEF Results, Extends
  <2>3. QED
    BY <1>2, <1>5, <2>1, <2>2 DEF Continues
<1>9. QED
  BY <1>7, <1>8

\* The results that are kept after an event that continues the log.
LEMMA ResultsExtended ==
  ASSUME NEW log \in Seq(Event), NEW kept, Results(log, kept), NEW e \in Event,
         \A i \in DOMAIN log : ~ (log[i].batch = e.batch /\ log[i].key = e.key)
  PROVE  Results(Append(log, e),
                 [k \in DOMAIN kept \cup {<<e.batch, e.key>>} |->
                    IF k = <<e.batch, e.key>> THEN ResultOf(e) ELSE kept[k]])
<1> DEFINE n == Len(log)
           new == Append(log, e)
           more == [k \in DOMAIN kept \cup {<<e.batch, e.key>>} |->
                      IF k = <<e.batch, e.key>> THEN ResultOf(e) ELSE kept[k]]
<1>1. /\ n \in Nat /\ DOMAIN log = 1 .. n /\ DOMAIN new = 1 .. n + 1
      /\ \A i \in 1 .. n : new[i] = log[i]
      /\ new[n + 1] = e
  BY AppendedLog
<1>2. DOMAIN kept = {<<log[i].batch, log[i].key>> : i \in 1 .. n}
  BY <1>1 DEF Results
<1>3. DOMAIN more = DOMAIN kept \cup {<<e.batch, e.key>>}
  OBVIOUS
<1> HIDE DEF n, new
<1>4. DOMAIN more = {<<new[i].batch, new[i].key>> : i \in 1 .. n + 1}
  <2>1. \A i \in 1 .. n : <<new[i].batch, new[i].key>> = <<log[i].batch, log[i].key>>
    BY <1>1
  <2>2. <<new[n + 1].batch, new[n + 1].key>> = <<e.batch, e.key>>
    BY <1>1
  <2>3. 1 .. n + 1 = 1 .. n \cup {n + 1}
    BY <1>1
  <2> HIDE DEF more
  <2>4. QED
    BY <1>2, <1>3, <2>1, <2>2, <2>3
<1>5. ASSUME NEW i \in 1 .. n + 1
      PROVE  more[<<new[i].batch, new[i].key>>] = ResultOf(new[i])
  <2>1. CASE i = n + 1
    BY <1>1, <2>1
  <2>2. CASE i \in 1 .. n
    <3>1. new[i] = log[i] /\ <<log[i].batch, log[i].key>> \in DOMAIN kept
      BY <1>1, <1>2, <2>2
    <3>2. <<log[i].batch, log[i].key>> # <<e.batch, e.key>>
      BY <1>1, <2>2
    <3>3. kept[<<log[i].batch, log[i].key>>] = ResultOf(log[i])
      BY <1>1, <2>2 DEF Results
    <3>4. QED
      BY <3>1, <3>2, <3>3
  <2>3. QED
    BY <1>1, <2>1, <2>2
<1>6. QED
  BY <1>1, <1>4, <1>5 DEF Results, new

\* Where no key is used twice the results that recover rebuilds are those of all
\* the events.
LEMMA ResultsRecovered ==
  ASSUME ledger \in Seq(Event), KeysOnce(ledger)
  PROVE  Results(ledger, RecoveredResults)
<1> DEFINE kept == {<<ledger[i].batch, ledger[i].key>> : i \in DOMAIN ledger}
           IsLast(i, k) == /\ <<ledger[i].batch, ledger[i].key>> = k
                           /\ \A j \in i + 1 .. Len(ledger) :
                                <<ledger[j].batch, ledger[j].key>> # k
           last(k) == CHOOSE i \in DOMAIN ledger : IsLast(i, k)
<1>1. RecoveredResults = [k \in kept |-> [command |-> ledger[last(k)].command,
                                          digest  |-> ledger[last(k)].digest,
                                          version |-> EventVersion(ledger[last(k)])]]
  BY DEF RecoveredResults
<1>2. DOMAIN RecoveredResults = kept
  BY <1>1
<1>3. ASSUME NEW i \in DOMAIN ledger
      PROVE  last(<<ledger[i].batch, ledger[i].key>>) = i
  <2> DEFINE k == <<ledger[i].batch, ledger[i].key>>
  <2>1. Len(ledger) \in Nat /\ DOMAIN ledger = 1 .. Len(ledger)
    BY LenProperties
  <2>2. \A j \in DOMAIN ledger : <<ledger[j].batch, ledger[j].key>> = k => j = i
    BY DEF KeysOnce
  <2>3. IsLast(i, k)
    BY <2>1, <2>2
  <2>4. \A j \in DOMAIN ledger : IsLast(j, k) => j = i
    BY <2>2
  <2> HIDE DEF IsLast
  <2>5. QED
    BY <2>3, <2>4
<1>4. ASSUME NEW i \in DOMAIN ledger
      PROVE  RecoveredResults[<<ledger[i].batch, ledger[i].key>>] = ResultOf(ledger[i])
  <2>1. <<ledger[i].batch, ledger[i].key>> \in kept
    OBVIOUS
  <2> HIDE DEF kept, last
  <2>2. QED
    BY <1>1, <1>3, <2>1 DEF ResultOf
<1>5. QED
  BY <1>2, <1>4 DEF Results

-----------------------------------------------------------------------------
(* Lemmas about the ledger on disk. *)

\* What appendEvent leaves of a line: a line after one that was cut short, and a
\* line that is cut short itself, spoil the ledger.
LEMMA LinesAppended ==
  ASSUME ledger \in Seq(Line), NEW line \in Event \cup {Torn}
  PROVE  /\ LinesWith(line) \in Seq(Line)
         /\ LinesWith(line) # <<>>
         /\ ~ EndsTorn => LinesWith(line) = Append(ledger, line)
         /\ EndsTorn \/ line = Torn \/ Spoilt(ledger) => Spoilt(LinesWith(line))
<1>1. line \in Line /\ Torn \in Line /\ Garbled \in Line
  BY DEF Line
<1>2. Len(ledger) \in Nat /\ DOMAIN ledger = 1 .. Len(ledger)
  BY LenProperties
<1>3. CASE ~ EndsTorn
  <2>1. LinesWith(line) = Append(ledger, line)
    BY <1>3 DEF LinesWith
  <2>2. /\ Append(ledger, line) \in Seq(Line) /\ Append(ledger, line) # <<>>
        /\ DOMAIN Append(ledger, line) = 1 .. Len(ledger) + 1
        /\ \A i \in 1 .. Len(ledger) : Append(ledger, line)[i] = ledger[i]
        /\ Append(ledger, line)[Len(ledger) + 1] = line
    BY <1>1, AppendedLog
  <2>3. ASSUME line = Torn
        PROVE  Spoilt(Append(ledger, line))
    BY <1>2, <2>2, <2>3 DEF Spoilt
  <2>4. ASSUME Spoilt(ledger)
        PROVE  Spoilt(Append(ledger, line))
    BY <1>2, <2>2, <2>4 DEF Spoilt
  <2>5. QED
    BY <1>3, <2>1, <2>2, <2>3, <2>4
<1>4. CASE EndsTorn
  <2> DEFINE n == Len(ledger)
             mended == IF line = Torn THEN Torn ELSE Garbled
  <2>1. LinesWith(line) = [ledger EXCEPT ![n] = mended] /\ mended \in {Torn, Garbled}
    BY <1>4 DEF LinesWith
  <2>2. n \in 1 .. n
    BY <1>2, <1>4, EmptySeq DEF EndsTorn
  <2> HIDE DEF mended
  <2>3. LinesWith(line) \in Seq(Line)
    BY <1>1, <1>2, <2>1, <2>2, ExceptSeq
  <2>4. n \in DOMAIN LinesWith(line) /\ LinesWith(line)[n] = mended
    BY <1>2, <2>1, <2>2
  <2>5. LinesWith(line) # <<>>
    BY <2>4
  <2>6. Spoilt(LinesWith(line))
    BY <2>1, <2>4 DEF Spoilt
  <2>7. QED
    BY <1>4, <2>3, <2>5, <2>6
<1>5. QED
  BY <1>3, <1>4

\* An event that is appended to a ledger the memory lags behind takes a place that
\* is not its own, whether it is remembered or not.
LEMMA OutOfStepForGood ==
  ASSUME StoreTypeOK, NEW req \in Request, NewEvent(req) \in Event,
         Ahead \/ OutOfStep(ledger, events)
  PROVE  /\ OutOfStep(Append(ledger, NewEvent(req)), events)
         /\ OutOfStep(Append(ledger, NewEvent(req)), Append(events, NewEvent(req)))
<1> DEFINE e == NewEvent(req)
           n == Len(events)
           m == Len(ledger)
           lines == Append(ledger, e)
           log == Append(events, e)
<1>1. e.sequence = n + 1
  BY DEF NewEvent, NextSequence
<1>2. n \in Nat /\ Len(log) = n + 1
  BY AppendedLog DEF StoreTypeOK
<1>3. /\ m \in Nat /\ Len(lines) = m + 1
      /\ DOMAIN ledger = 1 .. m /\ DOMAIN lines = 1 .. m + 1
      /\ \A i \in 1 .. m : lines[i] = ledger[i]
      /\ lines[m + 1] = e
  BY AppendedLog DEF StoreTypeOK, Line
<1>4. /\ m > n
      /\ \E i \in 1 .. m + 1 : lines[i].sequence # i
  <2>1. CASE Ahead
    <3>1. PICK r \in Request : ledger = Append(events, NewEvent(r))
      BY <2>1 DEF Ahead
    <3>2. m = n + 1
      BY <3>1, AppendProperties DEF StoreTypeOK, NewEvent
    <3>3. lines[m + 1].sequence # m + 1
      BY <1>1, <1>2, <1>3, <3>2
    <3>4. QED
      BY <1>2, <1>3, <3>2, <3>3
  <2>2. CASE OutOfStep(ledger, events)
    BY <1>3, <2>2 DEF OutOfStep
  <2>3. QED
    BY <2>1, <2>2
<1> HIDE DEF n, m, lines, log
<1>5. Len(lines) > n /\ Len(lines) > Len(log)
  BY <1>2, <1>3, <1>4
<1>6. QED
  BY <1>3, <1>4, <1>5 DEF OutOfStep, lines, log, n

\* The ledger after an event has been appended to it: still the events in memory
\* with that one, or broken, whether the event is remembered or not.
LEMMA LedgerWithEvent ==
  ASSUME StoreTypeOK, Results(events, idempotency), LedgerFollowsMemory,
         NEW req \in Request, Extends(req)
  PROVE  /\ ledger = events => LinesWith(NewEvent(req)) = Append(events, NewEvent(req))
         /\ ledger # events =>
              \/ Spoilt(LinesWith(NewEvent(req)))
              \/ /\ OutOfStep(LinesWith(NewEvent(req)), events)
                 /\ OutOfStep(LinesWith(NewEvent(req)), Append(events, NewEvent(req)))
<1> DEFINE e == NewEvent(req)
<1>1. e \in Event
  BY NewEventContinues
<1>2. /\ ~ EndsTorn => LinesWith(e) = Append(ledger, e)
      /\ EndsTorn \/ Spoilt(ledger) => Spoilt(LinesWith(e))
  BY <1>1, LinesAppended DEF StoreTypeOK
<1>3. ASSUME ledger = events
      PROVE  ~ EndsTorn
  <2>1. SUFFICES ASSUME events # <<>>
                 PROVE  events[Len(events)] \in Event
    BY <1>3, EventIsWhole DEF EndsTorn
  <2>2. QED
    BY <2>1, EmptySeq, LenProperties, ElementOfSeq DEF StoreTypeOK
<1>4. ASSUME ledger # events, ~ EndsTorn, ~ Spoilt(ledger)
      PROVE  OutOfStep(LinesWith(e), events) /\ OutOfStep(LinesWith(e), Append(events, e))
  <2>1. Ahead \/ OutOfStep(ledger, events)
    BY <1>4 DEF LedgerFollowsMemory, Broken
  <2>2. QED
    BY <1>1, <1>2, <1>4, <2>1, OutOfStepForGood
<1>5. QED
  BY <1>2, <1>3, <1>4

\* The ledger that recover accepts is the events in memory, or those and the one
\* whose append failed after its line was complete.
LEMMA RecoveredLedger ==
  ASSUME StoreInv, Recoverable
  PROVE  /\ ledger = events \/ Ahead
         /\ ledger \in Seq(Event)
         /\ History(ledger, Final(ledger))
         /\ Results(ledger, RecoveredResults)
         /\ Final(ledger) \in Projection
<1>1. ledger = events \/ Ahead
  <2>1. ~ Spoilt(ledger)
    BY DEF Recoverable, Readable, Spoilt
  <2>2. ~ OutOfStep(ledger, events)
    BY DEF Recoverable, VerifyChain, OutOfStep
  <2>3. QED
    BY <2>1, <2>2 DEF StoreInv, LedgerFollowsMemory, Broken
<1>2. /\ ledger \in Seq(Event)
      /\ History(ledger, Final(ledger))
      /\ Final(ledger) \in Projection
  <2>1. CASE ledger = events
    BY <2>1 DEF StoreInv, StoreTypeOK, History
  <2>2. CASE Ahead
    <3>1. PICK req \in Request : Extends(req) /\ ledger = Append(events, NewEvent(req))
      BY <2>2 DEF Ahead
    <3> DEFINE e == NewEvent(req)
    <3>2. e \in Event /\ Continues(e, events, projection)
      BY <3>1, NewEventContinues DEF StoreInv
    <3> HIDE DEF e
    <3>3. ledger \in Seq(Event)
      BY <3>1, <3>2, AppendedLog DEF StoreInv, StoreTypeOK, e
    <3>4. History(ledger, e.projection)
      BY <3>1, <3>2, ContinuedHistory DEF StoreInv, StoreTypeOK, e
    <3>5. e.projection = Final(ledger)
      BY <3>4 DEF History
    <3>6. e.projection \in Projection
      BY <3>2 DEF Event
    <3>7. QED
      BY <3>3, <3>4, <3>5, <3>6
  <2>3. QED
    BY <1>1, <2>1, <2>2
<1>3. Results(ledger, RecoveredResults)
  BY <1>2, ResultsRecovered DEF History
<1>4. QED
  BY <1>1, <1>2, <1>3

-----------------------------------------------------------------------------
(* StoreInv is inductive. *)

\* A store that has never been written to.
LEMMA StoreInit == Init => StoreInv
<1> SUFFICES ASSUME Init
             PROVE  StoreInv
  OBVIOUS
<1>1. /\ ledger = <<>> /\ events = <<>> /\ idempotency = <<>> /\ answers = {}
      /\ projection = Empty /\ damaged = FALSE /\ snapshot = NoSnapshot
  BY DEF Init, Empty
<1>2. StoreTypeOK
  BY <1>1, EmptySeq DEF StoreTypeOK, Empty, Projection
<1>3. DOMAIN events = {}
  BY <1>1
<1>4. History(events, projection)
  <2>1. \A b \in Batches : DOMAIN projection[b] = {}
    BY <1>1 DEF Empty
  <2>2. QED
    BY <1>1, <1>3, <2>1
    DEF History, VerifyChain, Final, Grows, KeysOnce, Recorded, Explained
<1>5. Results(events, idempotency)
  BY <1>1 DEF Results
<1>6. QED
  BY <1>1, <1>2, <1>4, <1>5
  DEF StoreInv, AnswersRecorded, LedgerFollowsMemory, SnapshotOfAnEvent

\* A retry is answered with what one of the events says.
LEMMA ReplayedAnswer ==
  ASSUME StoreInv, NEW req \in Request, Replay(req)
  PROVE  \E i \in DOMAIN events : answers' = answers \cup {AnswerOf(events[i])}
<1>1. PICK i \in DOMAIN events :
        /\ <<events[i].batch, events[i].key>> = <<req.batch, req.key>>
        /\ idempotency[<<req.batch, req.key>>] = ResultOf(events[i])
  BY DEF Replay, Replays, StoreInv, Results
<1>2. answers' = answers \cup {AnswerOf(events[i])}
  BY <1>1 DEF Replay, Replays, ResultOf, AnswerOf
<1>3. QED
  BY <1>2

\* A replay changes nothing but the answers.
LEMMA ReplayPreserves ==
  ASSUME StoreInv, NEW req \in Request, Replay(req)
  PROVE  StoreInv'
<1>1. PICK i \in DOMAIN events : answers' = answers \cup {AnswerOf(events[i])}
  BY ReplayedAnswer
<1>2. UNCHANGED <<ledger, snapshot, events, projection, idempotency, damaged>>
  BY DEF Replay, memory
<1>3. AnswersRecorded'
  BY <1>1, <1>2 DEF AnswersRecorded, StoreInv
<1>4. QED
  BY <1>2, <1>3
  DEF StoreInv, StoreTypeOK, LedgerFollowsMemory, Ahead, Extends, Broken, VersionMatches,
      Version, NewEvent, NextSequence, SnapshotOfAnEvent

\* The memory after a command has been committed.
LEMMA CommitExtendsMemory ==
  ASSUME StoreInv, NEW req \in Request, Extends(req), Remember(NewEvent(req))
  PROVE  /\ NewEvent(req) \in Event
         /\ Continues(NewEvent(req), events, projection)
         /\ events' = Append(events, NewEvent(req))
         /\ events' \in Seq(Event)
         /\ projection' = NewEvent(req).projection
         /\ projection' \in Projection
         /\ History(events', projection')
         /\ Results(events', idempotency')
<1> DEFINE e == NewEvent(req)
<1>1. e \in Event /\ Continues(e, events, projection)
  BY NewEventContinues DEF StoreInv
<1>2. events' = Append(events, e) /\ projection' = e.projection
  BY DEF Remember
<1>3. idempotency' = [k \in DOMAIN idempotency \cup {<<e.batch, e.key>>} |->
                        IF k = <<e.batch, e.key>> THEN ResultOf(e) ELSE idempotency[k]]
  BY DEF Remember, ResultOf
<1> HIDE DEF e
<1>4. events \in Seq(Event) /\ projection \in Projection
  BY DEF StoreInv, StoreTypeOK
<1>5. events' \in Seq(Event)
  BY <1>1, <1>2, <1>4, AppendedLog
<1>6. projection' \in Projection
  BY <1>1, <1>2 DEF Event
<1>7. History(events', projection')
  BY <1>1, <1>2, <1>4, ContinuedHistory DEF StoreInv
<1>8. Results(events', idempotency')
  <2>1. \A i \in DOMAIN events : ~ (events[i].batch = e.batch /\ events[i].key = e.key)
    BY <1>1 DEF Continues
  <2>2. Results(events, idempotency)
    BY DEF StoreInv
  <2>3. Results(Append(events, e), idempotency')
    BY <1>1, <1>3, <1>4, <2>1, <2>2, ResultsExtended
  <2>4. QED
    BY <1>2, <2>3
<1>9. QED
  BY <1>1, <1>2, <1>5, <1>6, <1>7, <1>8 DEF e

\* Answers stay recorded when the log of events gets longer.
LEMMA AnswersStayRecorded ==
  ASSUME StoreTypeOK, AnswersRecorded, NEW e \in Event, events' = Append(events, e),
         answers' \subseteq answers \cup {AnswerOf(e)}
  PROVE  AnswersRecorded'
<1>1. /\ Len(events) \in Nat
      /\ DOMAIN events = 1 .. Len(events) /\ DOMAIN events' = 1 .. Len(events) + 1
      /\ \A i \in 1 .. Len(events) : events'[i] = events[i]
      /\ events'[Len(events) + 1] = e
  BY AppendedLog DEF StoreTypeOK
<1>2. QED
  BY <1>1 DEF AnswersRecorded

\* A commit extends the ledger and the memory alike; after failed appends the
\* ledger is broken and stays so.
LEMMA CommitPreserves ==
  ASSUME StoreInv, NEW req \in Request, Commit(req)
  PROVE  StoreInv'
<1> DEFINE e == NewEvent(req)
<1>1. /\ Extends(req) /\ Remember(e) /\ ledger' = LinesWith(e) /\ damaged' = damaged
      /\ snapshot' \in {snapshot, SnapshotOf(e)}
      /\ answers' \subseteq answers \cup {AnswerOf(e)}
  BY DEF Commit, Accepts, Extends, AnswerOf
<1> HIDE DEF e
<1>2. /\ e \in Event /\ events' = Append(events, e) /\ events' \in Seq(Event)
      /\ projection' \in Projection
      /\ History(events', projection') /\ Results(events', idempotency')
  BY <1>1, CommitExtendsMemory DEF e
<1>3. ledger' \in Seq(Line) /\ ledger' # <<>>
  BY <1>1, <1>2, LinesAppended DEF StoreInv, StoreTypeOK
<1>4. StoreTypeOK'
  BY <1>1, <1>2, <1>3 DEF StoreInv, StoreTypeOK
<1>5. AnswersRecorded'
  BY <1>1, <1>2, AnswersStayRecorded DEF StoreInv
<1>6. LedgerFollowsMemory'
  <2>1. /\ ledger = events => ledger' = events'
        /\ ledger # events => Spoilt(ledger') \/ OutOfStep(ledger', events')
    BY <1>1, <1>2, LedgerWithEvent DEF StoreInv, e
  <2>2. QED
    BY <1>1, <2>1 DEF StoreInv, LedgerFollowsMemory, Broken
<1>7. SnapshotOfAnEvent'
  BY <1>1, <1>3 DEF StoreInv, SnapshotOfAnEvent, SnapshotOf, Digest
<1>8. QED
  BY <1>2, <1>4, <1>5, <1>6, <1>7 DEF StoreInv

\* A failed append puts the ledger ahead of the memory or breaks it.
LEMMA FailToAppendPreserves ==
  ASSUME StoreInv, NEW req \in Request, NEW left \in AppendFailures, FailToAppend(req, left)
  PROVE  StoreInv'
<1> DEFINE e == NewEvent(req)
           line == IF left = "line" THEN e ELSE Torn
<1>1. /\ Extends(req) /\ ledger' = LinesWith(line) /\ damaged' = TRUE
      /\ UNCHANGED <<snapshot, events, projection, idempotency, answers>>
  BY DEF FailToAppend, Accepts, Extends, memory
<1>2. e \in Event /\ line \in Event \cup {Torn}
  BY <1>1, NewEventContinues DEF StoreInv
<1>3. /\ ledger' \in Seq(Line) /\ ledger' # <<>>
      /\ line = Torn => Spoilt(ledger')
  BY <1>1, <1>2, LinesAppended DEF StoreInv, StoreTypeOK
<1>4. StoreTypeOK'
  BY <1>1, <1>3 DEF StoreInv, StoreTypeOK
<1>5. LedgerFollowsMemory'
  <2>1. CASE line = Torn
    BY <1>1, <1>3, <2>1 DEF LedgerFollowsMemory, Broken
  <2>2. CASE line = e
    <3>1. CASE ledger = events
      <4>1. ledger' = Append(events, e)
        BY <1>1, <2>2, <3>1, LedgerWithEvent DEF StoreInv
      <4>2. Extends(req)' /\ ledger' = Append(events', NewEvent(req)')
        BY <1>1, <4>1 DEF Extends, VersionMatches, Version, NewEvent, NextSequence
      <4>3. QED
        BY <1>1, <4>2 DEF LedgerFollowsMemory, Ahead
    <3>2. CASE ledger # events
      <4>1. Spoilt(ledger') \/ OutOfStep(ledger', events)
        BY <1>1, <2>2, <3>2, LedgerWithEvent DEF StoreInv
      <4>2. QED
        BY <1>1, <4>1 DEF LedgerFollowsMemory, Broken
    <3>3. QED
      BY <3>1, <3>2
  <2>3. QED
    BY <2>1, <2>2
<1>6. QED
  BY <1>1, <1>3, <1>4, <1>5 DEF StoreInv, AnswersRecorded, SnapshotOfAnEvent

\* The projection that Open takes, from the snapshot or from the last event, is the
\* one the ledger leads to.
LEMMA OpenRebuilds ==
  ASSUME StoreInv, Open
  PROVE  projection' = Final(ledger)
<1>1. CASE ledger = <<>>
  BY <1>1 DEF Open, Final, Empty
<1>2. CASE ledger # <<>>
  <2> DEFINE last == ledger[Len(ledger)]
  <2>1. ASSUME SnapshotCurrent(last)
        PROVE  snapshot.projection = last.projection
    BY <2>1 DEF SnapshotCurrent, StoreInv, SnapshotOfAnEvent, Digest
  <2>2. QED
    BY <1>2, <2>1 DEF Open, Final
<1>3. QED
  BY <1>1, <1>2

\* What Open rebuilds is what the events on disk lead to, whichever file it is
\* taken from; an event that was on disk only is in memory now.
LEMMA OpenPreserves ==
  ASSUME StoreInv, Open
  PROVE  StoreInv'
<1>1. /\ events' = ledger /\ ledger' = ledger /\ idempotency' = RecoveredResults
      /\ answers' = answers /\ damaged' = damaged
  BY DEF Open
<1>2. /\ ledger = events \/ Ahead
      /\ ledger \in Seq(Event) /\ History(ledger, Final(ledger))
      /\ Results(ledger, RecoveredResults) /\ Final(ledger) \in Projection
  BY RecoveredLedger DEF Open
<1>3. projection' = Final(ledger)
  BY OpenRebuilds
<1>4. StoreTypeOK'
  BY <1>1, <1>2, <1>3 DEF StoreInv, StoreTypeOK
<1>5. AnswersRecorded'
  <2>1. CASE ledger = events
    BY <1>1, <2>1 DEF StoreInv, AnswersRecorded
  <2>2. CASE Ahead
    <3>1. PICK req \in Request : Extends(req) /\ ledger = Append(events, NewEvent(req))
      BY <2>2 DEF Ahead
    <3>2. NewEvent(req) \in Event
      BY <3>1, NewEventContinues DEF StoreInv
    <3>3. QED
      BY <1>1, <3>1, <3>2, AnswersStayRecorded DEF StoreInv
  <2>3. QED
    BY <1>2, <2>1, <2>2
<1>6. LedgerFollowsMemory'
  BY <1>1 DEF LedgerFollowsMemory
<1>7. SnapshotOfAnEvent'
  BY <1>1 DEF Open, StoreInv, SnapshotOfAnEvent, SnapshotOf, Digest
<1>8. QED
  BY <1>1, <1>2, <1>3, <1>4, <1>5, <1>6, <1>7 DEF StoreInv

\* Every step preserves the invariant.
LEMMA StoreNext == StoreInv /\ [Next]_vars => StoreInv'
<1> SUFFICES ASSUME StoreInv, [Next]_vars
             PROVE  StoreInv'
  OBVIOUS
<1>1. ASSUME NEW req \in Request, Replay(req)
      PROVE  StoreInv'
  BY <1>1, ReplayPreserves
<1>2. ASSUME NEW req \in Request, Commit(req)
      PROVE  StoreInv'
  BY <1>2, CommitPreserves
<1>3. ASSUME NEW req \in Request, NEW left \in AppendFailures, FailToAppend(req, left)
      PROVE  StoreInv'
  BY <1>3, FailToAppendPreserves
<1>4. CASE Open
  BY <1>4, OpenPreserves
<1>5. ASSUME UNCHANGED <<ledger, events, projection, idempotency, answers, damaged>>,
             SnapshotOfAnEvent'
      PROVE  StoreInv'
  BY <1>5
  DEF StoreInv, StoreTypeOK, AnswersRecorded, LedgerFollowsMemory, Ahead, Extends, Broken,
      VersionMatches, Version, NewEvent, NextSequence
<1>6. CASE Crash
  BY <1>5, <1>6 DEF Crash, memory, StoreInv, SnapshotOfAnEvent
<1>7. CASE FailToOpen
  BY <1>5, <1>7 DEF FailToOpen, memory, SnapshotOfAnEvent, SnapshotOf, Digest
<1>8. CASE LoseSnapshot
  BY <1>5, <1>8 DEF LoseSnapshot, memory, SnapshotOfAnEvent
<1>9. CASE UNCHANGED vars
  BY <1>5, <1>9 DEF vars, memory, StoreInv, SnapshotOfAnEvent
<1>10. QED
  BY <1>1, <1>2, <1>3, <1>4, <1>6, <1>7, <1>8, <1>9 DEF Next

\* The invariant holds in every state.
THEOREM StoreInvariant == Spec => []StoreInv
BY StoreInit, StoreNext, PTL DEF Spec

-----------------------------------------------------------------------------
(* What clients and the operator can rely on. *)

\* All answers for one key of a batch are the same, and no version of a batch is
\* given twice.
THEOREM AnswersAreUnique == Spec => []AnsweredOnce
<1>1. ASSUME StoreInv
      PROVE  AnsweredOnce
  <2> SUFFICES ASSUME NEW a \in answers, NEW c \in answers, a.batch = c.batch,
                      a.key = c.key \/ a.version = c.version
               PROVE  a = c
    BY DEF AnsweredOnce
  <2>1. PICK i \in DOMAIN events : a = AnswerOf(events[i])
    BY <1>1 DEF StoreInv, AnswersRecorded
  <2>2. PICK j \in DOMAIN events : c = AnswerOf(events[j])
    BY <1>1 DEF StoreInv, AnswersRecorded
  <2>3. events[i].batch = events[j].batch
    BY <2>1, <2>2 DEF AnswerOf
  <2>4. events[i].key = events[j].key
    <3>1. CASE a.key = c.key
      BY <2>1, <2>2, <3>1 DEF AnswerOf
    <3>2. CASE a.version = c.version
      <4>1. EventVersion(events[i]) = EventVersion(events[j])
        BY <2>1, <2>2, <3>2 DEF AnswerOf
      <4>2. CommandOf(events[i]) = CommandOf(events[j])
        BY <1>1, <2>3, <4>1 DEF StoreInv, History, Recorded
      <4>3. QED
        BY <4>2 DEF CommandOf
    <3>3. QED
      BY <3>1, <3>2
  <2>5. i = j
    BY <1>1, <2>3, <2>4 DEF StoreInv, History, KeysOnce
  <2>6. QED
    BY <2>1, <2>2, <2>5
<1>2. QED
  BY <1>1, StoreInvariant, PTL

\* The version an answer reports is the one after the version its sender had read.
THEOREM UpdatesAreKept == Spec => []NoLostUpdate
<1>1. ASSUME StoreInv
      PROVE  NoLostUpdate
  <2> SUFFICES ASSUME NEW a \in answers
               PROVE  a.version = a.digest[2] + 1
    BY DEF NoLostUpdate
  <2>1. PICK i \in DOMAIN events : a = AnswerOf(events[i])
    BY <1>1 DEF StoreInv, AnswersRecorded
  <2>2. EventVersion(events[i]) = events[i].digest[2] + 1
    BY <1>1 DEF StoreInv, History, Recorded
  <2>3. QED
    BY <2>1, <2>2 DEF AnswerOf
<1>2. QED
  BY <1>1, StoreInvariant, PTL

\* The versions of a batch increase along a log.
LEMMA VersionsIncrease ==
  ASSUME NEW log, Grows(log), \A i \in DOMAIN log : log[i].batch \in Batches
  PROVE  ValidateProjections(log)
BY DEF Grows, ValidateProjections, EventVersion

\* Memory, kept results and health check agree with the events while the service
\* runs, whatever the disk has been through.
THEOREM MemoryIsSound == Spec => []MemoryFollowsEvents
<1>1. ASSUME StoreInv, up
      PROVE  /\ Verify
             /\ projection = IF events = <<>> THEN [b \in Batches |-> <<>>]
                             ELSE events[Len(events)].projection
             /\ \A i \in DOMAIN events :
                  <<events[i].batch, events[i].key>> \in DOMAIN idempotency
             /\ \A k \in DOMAIN idempotency :
                  \E i \in DOMAIN events :
                    /\ <<events[i].batch, events[i].key>> = k
                    /\ idempotency[k] = [command |-> events[i].command,
                                         digest  |-> events[i].digest,
                                         version |-> EventVersion(events[i])]
  <2>1. \A i \in DOMAIN events : events[i].batch \in Batches
    BY <1>1, EventsInMemory DEF StoreInv, Event
  <2>2. Verify
    BY <1>1, <2>1, VersionsIncrease DEF StoreInv, History, Verify
  <2>3. projection = IF events = <<>> THEN [b \in Batches |-> <<>>]
                     ELSE events[Len(events)].projection
    BY <1>1 DEF StoreInv, History, Final, Empty
  <2>4. Results(events, idempotency)
    BY <1>1 DEF StoreInv
  <2>5. QED
    BY <2>2, <2>3, <2>4 DEF Results, ResultOf
<1>2. StoreInv => MemoryFollowsEvents
  BY <1>1 DEF MemoryFollowsEvents
<1>3. QED
  BY <1>2, StoreInvariant, PTL

\* Without a failed append every command that was answered is on disk.
THEOREM AnswersSurvive == Spec => []AnsweredIsOnDisk
<1>1. StoreInv => AnsweredIsOnDisk
  BY DEF StoreInv, AnswersRecorded, LedgerFollowsMemory, AnsweredIsOnDisk, AnswerOf, Records
<1>2. QED
  BY <1>1, StoreInvariant, PTL

\* Without a failed append, and while every line is short enough to be read, the
\* service can be started again after any crash.
THEOREM RestartIsPossible == Spec => []RestartPossible
<1>1. ASSUME StoreInv, ~ damaged, \A i \in DOMAIN ledger : Size(ledger[i]) <= ScanLimit
      PROVE  Recoverable
  <2>1. ledger = events
    BY <1>1 DEF StoreInv, LedgerFollowsMemory
  <2>2. \A i \in DOMAIN ledger : ledger[i] \in Event
    BY <1>1, <2>1, ElementOfSeq, LenProperties DEF StoreInv, StoreTypeOK
  <2>3. \A i \in DOMAIN ledger : Readable(ledger[i])
    BY <1>1, <2>2, EventIsWhole DEF Readable
  <2>4. VerifyChain(ledger)
    BY <1>1, <2>1 DEF StoreInv, History
  <2>5. ValidateProjections(ledger)
    <3>1. \A i \in DOMAIN ledger : ledger[i].batch \in Batches
      BY <2>2 DEF Event
    <3>2. QED
      BY <1>1, <2>1, <3>1, VersionsIncrease DEF StoreInv, History
  <2>6. ledger = <<>> => snapshot = NoSnapshot
    BY <1>1 DEF StoreInv, SnapshotOfAnEvent
  <2>7. QED
    BY <2>3, <2>4, <2>5, <2>6 DEF Recoverable
<1>2. StoreInv => RestartPossible
  BY <1>1 DEF RestartPossible
<1>3. QED
  BY <1>2, StoreInvariant, PTL

\* Without a failed append the ledger on disk is the one in memory.
THEOREM DiskFollowsMemory == Spec => []DiskAgreesWithMemory
<1>1. StoreInv => DiskAgreesWithMemory
  BY DEF StoreInv, LedgerFollowsMemory, DiskAgreesWithMemory
<1>2. QED
  BY <1>1, StoreInvariant, PTL

\* Whatever failed appends have left, ReadState answers only with the events that
\* the service applied and the projection they lead to.
THEOREM ReadsAreSound == Spec => []ReadsAgree
<1>1. ASSUME StoreInv, ReadState
      PROVE  ledger = events /\ (ledger # <<>> => projection = ledger[Len(ledger)].projection)
  <2>1. Len(ledger) = Len(events) /\ ~ Spoilt(ledger)
    BY <1>1 DEF ReadState, Readable, Spoilt
  <2>2. Len(events) \in Nat
    BY <1>1, LenProperties DEF StoreInv, StoreTypeOK
  <2>3. ~ Broken
    BY <2>1, <2>2 DEF Broken, OutOfStep
  <2>4. ~ Ahead
    BY <1>1, <2>1, <2>2, AppendProperties DEF Ahead, StoreInv, StoreTypeOK
  <2>5. ledger = events
    BY <1>1, <2>3, <2>4 DEF StoreInv, LedgerFollowsMemory
  <2>6. QED
    BY <1>1, <2>5 DEF StoreInv, History, Final
<1>2. StoreInv => ReadsAgree
  BY <1>1 DEF ReadsAgree
<1>3. QED
  BY <1>2, StoreInvariant, PTL

-----------------------------------------------------------------------------
(* The store implements CommandLog. *)

\* Each command of a history is that of the one event at its version, and was sent
\* by somebody who had read the version before it.
LEMMA CommandsComeFromEvents ==
  ASSUME StoreInv, NEW b \in Batches, NEW n \in DOMAIN projection[b]
  PROVE  /\ projection[b][n].expected = n - 1
         /\ \E i \in DOMAIN events :
              /\ events[i].batch = b /\ EventVersion(events[i]) = n
              /\ projection[b][n] = CommandOf(events[i])
<1>1. PICK i \in DOMAIN events : events[i].batch = b /\ EventVersion(events[i]) = n
  BY DEF StoreInv, History, Explained
<1>2. projection[b][n] = CommandOf(events[i]) /\ n = events[i].digest[2] + 1
  BY <1>1 DEF StoreInv, History, Recorded
<1>3. events[i].digest[2] \in Nat
  BY EventsInMemory DEF StoreInv, Event
<1>4. QED
  BY <1>1, <1>2, <1>3 DEF CommandOf

\* One more event, remembered now or found on disk by Open, applies one command.
LEMMA ExtensionApplies ==
  ASSUME StoreInv, NEW req \in Request, Extends(req),
         projection' = NewEvent(req).projection,
         answers' \in {answers, answers \cup {AnswerOf(NewEvent(req))}}
  PROVE  Log!Next
<1> DEFINE e == NewEvent(req)
           b == req.batch
           cmd == Applied(req)
<1>1. /\ e \in Event /\ Continues(e, events, projection)
      /\ projection \in Projection
  BY NewEventContinues DEF StoreInv, StoreTypeOK
<1>2. /\ b \in Batches /\ e.batch = b /\ e.key = req.key /\ e.command = req.command
      /\ e.digest = <<req.body, req.expected>>
      /\ CommandOf(e) = cmd
      /\ e.projection = [projection EXCEPT ![b] = Append(@, cmd)]
  BY DEF NewEvent, RequestDigest, Applied, CommandOf, Request
<1>3. EventVersion(e) = Len(projection[b]) + 1
  BY <1>1, <1>2, ContinuedProjection DEF StoreInv, StoreTypeOK
<1>4. cmd \in Log!Command(b)
  BY DEF Extends, VersionMatches, Version, Request, Applied, Log!Command
<1>5. Log!Fresh(b, cmd)
  <2>1. \A i \in DOMAIN events : ~ (events[i].batch = b /\ events[i].key = req.key)
    BY <1>1, <1>2 DEF Continues
  <2>2. ASSUME NEW n \in DOMAIN projection[b]
        PROVE  projection[b][n].key # req.key
    <3>1. PICK i \in DOMAIN events : events[i].batch = b /\ projection[b][n] = CommandOf(events[i])
      BY <1>2, CommandsComeFromEvents
    <3>2. QED
      BY <2>1, <3>1 DEF CommandOf
  <2>3. QED
    BY <2>2 DEF Log!Fresh, Applied
<1>6. cmd.command = CreateBatch <=> projection[b] = <<>>
  BY <1>1, <1>2, EmptySeq DEF Extends, Version, Applied, Projection
<1>7. answers' \in {answers, answers \cup {Log!AnswerTo(b, cmd, Len(projection[b]) + 1)}}
  BY <1>2, <1>3 DEF AnswerOf, Log!AnswerTo, Log!RequestDigest, Applied
<1>8. Log!Apply(b, cmd)
  BY <1>2, <1>5, <1>6, <1>7 DEF Log!Apply
<1>9. QED
  BY <1>2, <1>4, <1>8 DEF Log!Next

\* A replay answers with a command that has been applied.
LEMMA ReplayAnswers ==
  ASSUME StoreInv, NEW req \in Request, Replay(req)
  PROVE  Log!Next
<1>1. PICK i \in DOMAIN events : answers' = answers \cup {AnswerOf(events[i])}
  BY ReplayedAnswer
<1> DEFINE e == events[i]
           v == EventVersion(e)
<1>2. e \in Event
  BY EventsInMemory DEF StoreInv
<1>3. /\ e.batch \in Batches
      /\ v \in DOMAIN projection[e.batch] /\ projection[e.batch][v] = CommandOf(e)
  BY <1>2 DEF StoreInv, History, Recorded, Event
<1>4. e.digest = <<e.digest[1], e.digest[2]>>
  BY <1>2 DEF Event
<1> HIDE DEF e, v
<1>5. Log!AnswerTo(e.batch, projection[e.batch][v], v) = AnswerOf(e)
  BY <1>3, <1>4 DEF Log!AnswerTo, Log!RequestDigest, CommandOf, AnswerOf, v
<1>6. Log!Answer(e.batch, v)
  BY <1>1, <1>5 DEF Log!Answer, Replay, memory, e
<1>7. QED
  BY <1>3, <1>6 DEF Log!Next

\* Every step of the store applies one command, repeats one answer, or changes
\* nothing that clients can see.
LEMMA StoreStepRefines == StoreInv /\ [Next]_vars => [Log!Next]_(Log!vars)
<1> SUFFICES ASSUME StoreInv, [Next]_vars
             PROVE  [Log!Next]_(Log!vars)
  OBVIOUS
<1>1. ASSUME NEW req \in Request, Replay(req)
      PROVE  Log!Next
  BY <1>1, ReplayAnswers
<1>2. ASSUME NEW req \in Request, Commit(req)
      PROVE  Log!Next
  <2>1. Extends(req) /\ projection' = NewEvent(req).projection
    BY <1>2 DEF Commit, Accepts, Extends, Remember
  <2>2. answers' \in {answers, answers \cup {AnswerOf(NewEvent(req))}}
    BY <1>2 DEF Commit, AnswerOf
  <2>3. QED
    BY <2>1, <2>2, ExtensionApplies
<1>3. CASE Open
  <2>1. projection' = Final(ledger) /\ answers' = answers
    BY <1>3, OpenRebuilds DEF Open
  <2>2. CASE ledger = events
    BY <2>1, <2>2 DEF StoreInv, History, Log!vars
  <2>3. CASE Ahead
    <3>1. PICK req \in Request : Extends(req) /\ ledger = Append(events, NewEvent(req))
      BY <2>3 DEF Ahead
    <3>2. NewEvent(req) \in Event
      BY <3>1, NewEventContinues DEF StoreInv
    <3>3. Final(ledger) = NewEvent(req).projection
      BY <3>1, <3>2, AppendedLog DEF Final, StoreInv, StoreTypeOK
    <3>4. QED
      BY <2>1, <3>1, <3>3, ExtensionApplies
  <2>4. QED
    BY <1>3, <2>2, <2>3, RecoveredLedger DEF Open
<1>4. ASSUME UNCHANGED <<projection, answers>>
      PROVE  UNCHANGED Log!vars
  BY <1>4 DEF Log!vars
<1>5. QED
  BY <1>1, <1>2, <1>3, <1>4
  DEF Next, FailToAppend, Crash, FailToOpen, LoseSnapshot, vars, memory

\* The store is a CommandLog: whatever fails and however often the service is
\* restarted, a command takes effect at most once per key, at the version its
\* sender had read, and every answer reports a command that took effect.
THEOREM StoreImplementsLog == Spec => ImplementsCommandLog
<1>1. Init => Log!Init
  BY DEF Init, Log!Init
<1>2. QED
  BY <1>1, StoreInvariant, StoreStepRefines, PTL DEF Spec, ImplementsCommandLog, Log!Spec

=============================================================================
