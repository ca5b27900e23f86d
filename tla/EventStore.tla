----------------------------- MODULE EventStore -----------------------------
(***************************************************************************)
(* jsonstore.Store: the ledger events.jsonl, the snapshot file, and the    *)
(* memory of the running service.  Commit holds the lock of the store from *)
(* its first check to its last write, so a commit is one step, with one    *)
(* disjunct per way it can end; what survives a crash in the middle of a   *)
(* commit is what one of its failures leaves, followed by Crash.           *)
(*                                                                         *)
(* A projection is the sequence of commands applied to each batch: every   *)
(* command moves the version of its batch on by one (BatchIsolation), so   *)
(* the version is its length.  A command that its own guards reject        *)
(* changes nothing and is not a step.                                      *)
(***************************************************************************)
EXTENDS Naturals, Sequences, FiniteSetsExt

CONSTANTS
  Batches, Keys, Commands, CreateBatch, Bodies,  \* as in CommandLog
  CreationKey,     \* batch -> the key that stableBatchID derived it from
  AppendFailures,  \* what a failed append can leave on disk: "line", "torn"
  ScanLimit,       \* commands in the largest projection whose line can be read
  MaxEvents        \* bound: the ledger never has more lines

ASSUME KeyAssumption == CreationKey \in [Batches -> Keys]
ASSUME CommandAssumption == CreateBatch \in Commands
ASSUME FailureAssumption == AppendFailures \subseteq {"line", "torn"}
ASSUME EventsAssumption == MaxEvents \in Nat /\ ScanLimit \in Nat

VARIABLES
  ledger,       \* the lines of events.jsonl
  snapshot,     \* snapshot.json
  up,           \* the service is running
  events,       \* memory: the events of the ledger
  projection,   \* memory: batch -> the commands applied to it
  idempotency,  \* memory: <<batch, key>> -> the result kept for it
  answers,      \* what clients have been told
  damaged       \* history: an append has failed and left something on disk

memory == <<events, projection, idempotency>>
vars == <<ledger, snapshot, up, memory, answers, damaged>>

-----------------------------------------------------------------------------
(* Requests and events. *)

Request ==
  [batch : Batches, key : Keys, command : Commands, body : Bodies,
   expected : 0 .. MaxEvents]

Applied(req) ==
  [key |-> req.key, command |-> req.command, body |-> req.body,
   expected |-> req.expected]

RequestDigest(req) == <<req.body, req.expected>>

Version(b) == Len(projection[b])

\* The version an event gives its batch; also what its response reports.
EventVersion(e) == Len(e.projection[e.batch])

\* Its sequence and its projection, which holds the history of every batch,
\* tell an event from any other that could stand in its place.
Digest(e) == <<e.sequence, e.batch, e.projection>>

NoDigest == <<>>

\* Fault: the sequence number is the new version of the batch.
NextSequenceOfBatch(req) == Version(req.batch) + 1

NextSequence(req) == Len(events) + 1

NewEvent(req) ==
  [sequence   |-> NextSequence(req),
   batch      |-> req.batch,
   key        |-> req.key,
   command    |-> req.command,
   digest     |-> RequestDigest(req),
   previous   |-> IF events = <<>> THEN NoDigest ELSE Digest(events[Len(events)]),
   projection |-> [projection EXCEPT ![req.batch] = Append(@, Applied(req))]]

-----------------------------------------------------------------------------
(* The files. *)

\* A line cut short, and a cut line completed by the event appended after it.
Torn == [complete |-> FALSE]
Garbled == [complete |-> TRUE]

EndsTorn == ledger # <<>> /\ ledger[Len(ledger)] = Torn

\* Fault: the ledger is opened without O_APPEND.
LinesOverwritten(line) == <<line>>

LinesWith(line) ==
  IF ~EndsTorn THEN Append(ledger, line)
  ELSE [ledger EXCEPT ![Len(ledger)] = IF line = Torn THEN Torn ELSE Garbled]

Size(e) == MapThenSumSet(LAMBDA b : Len(e.projection[b]), Batches)

\* decodeJSONLines reads the lines it can parse, up to a length; appendEvent
\* writes lines of any length.
Readable(line) == line \notin {Torn, Garbled} /\ Size(line) <= ScanLimit

NoSnapshot == [sequence |-> 0]

SnapshotOf(e) ==
  [sequence |-> e.sequence, digest |-> Digest(e), projection |-> e.projection]

-----------------------------------------------------------------------------
(* Commit. *)

\* Fault: the version is compared before the kept results are looked up.
ReplaysAtItsVersion(req) ==
  /\ req.expected = Version(req.batch)
  /\ <<req.batch, req.key>> \in DOMAIN idempotency
  /\ idempotency[<<req.batch, req.key>>].command = req.command
  /\ idempotency[<<req.batch, req.key>>].digest = RequestDigest(req)

\* Fault: a kept result is returned whatever the request says.
ReplaysAnyRequest(req) == <<req.batch, req.key>> \in DOMAIN idempotency

Replays(req) ==
  /\ <<req.batch, req.key>> \in DOMAIN idempotency
  /\ idempotency[<<req.batch, req.key>>].command = req.command
  /\ idempotency[<<req.batch, req.key>>].digest = RequestDigest(req)

\* The same key with the same request again: the kept result is returned.
Replay(req) ==
  /\ up
  /\ Replays(req)
  /\ answers' = answers \cup
       {[batch |-> req.batch, key |-> req.key, command |-> req.command,
         digest |-> RequestDigest(req),
         version |-> idempotency[<<req.batch, req.key>>].version]}
  /\ UNCHANGED <<ledger, snapshot, up, memory, damaged>>

\* Fault: the expected version is not compared with the current one.
AnyVersion(req) == TRUE

VersionMatches(req) == req.expected = Version(req.batch)

\* A conflict: the key was used for another request, or the sender's version is
\* not the current one.  The kept results are looked up first.
Refuses(req) ==
  /\ up
  /\ IF <<req.batch, req.key>> \in DOMAIN idempotency THEN ~Replays(req)
                                                     ELSE ~VersionMatches(req)

Accepts(req) ==
  /\ up
  /\ <<req.batch, req.key>> \notin DOMAIN idempotency
  /\ VersionMatches(req)
  /\ req.command = CreateBatch <=> Version(req.batch) = 0
  /\ req.command = CreateBatch => req.key = CreationKey[req.batch]
  /\ Len(ledger) < MaxEvents

Remember(e) ==
  /\ events' = Append(events, e)
  /\ projection' = e.projection
  /\ idempotency' =
       [k \in DOMAIN idempotency \cup {<<e.batch, e.key>>} |->
          IF k = <<e.batch, e.key>>
            THEN [command |-> e.command, digest |-> e.digest, version |-> EventVersion(e)]
            ELSE idempotency[k]]

\* The event is appended and remembered.  writeSnapshot can still fail, before
\* or after it renames the new file; the client then gets an error.
Commit(req) ==
  LET e == NewEvent(req) IN
  /\ Accepts(req)
  /\ ledger' = LinesWith(e)
  /\ Remember(e)
  /\ \/ /\ snapshot' = SnapshotOf(e)
        /\ answers' = answers \cup
             {[batch |-> e.batch, key |-> e.key, command |-> e.command,
               digest |-> e.digest, version |-> EventVersion(e)]}
     \/ snapshot' \in {snapshot, SnapshotOf(e)} /\ UNCHANGED answers
  /\ UNCHANGED <<up, damaged>>

\* appendEvent returns an error, but what it wrote stays in the file: the whole
\* line when Sync or Close fail, a part of it when the write does.  When nothing
\* was written nothing changes.
FailToAppend(req, left) ==
  /\ Accepts(req)
  /\ ledger' = LinesWith(IF left = "line" THEN NewEvent(req) ELSE Torn)
  /\ damaged' = TRUE
  /\ UNCHANGED <<snapshot, up, memory, answers>>

-----------------------------------------------------------------------------
(* Restarts. *)

\* The memory is lost: nothing reads it again before Open has rebuilt it.
Crash == up /\ up' = FALSE /\ UNCHANGED <<ledger, snapshot, memory, answers, damaged>>

VerifyChain(lines) ==
  \A i \in DOMAIN lines :
    /\ lines[i].sequence = i
    /\ lines[i].previous = IF i = 1 THEN NoDigest ELSE Digest(lines[i - 1])

ValidateProjections(lines) ==
  \A i, j \in DOMAIN lines :
    i < j /\ lines[i].batch = lines[j].batch
      => EventVersion(lines[i]) < EventVersion(lines[j])

\* Fault: a snapshot that is missing or behind is refused.
RecoverableWithSnapshot ==
  /\ \A i \in DOMAIN ledger : Readable(ledger[i])
  /\ VerifyChain(ledger)
  /\ ledger # <<>> => snapshot.sequence = Len(ledger)

\* What recover insists on before it accepts the files.
Recoverable ==
  /\ \A i \in DOMAIN ledger : Readable(ledger[i])
  /\ VerifyChain(ledger)
  /\ ValidateProjections(ledger)
  /\ ledger = <<>> => snapshot = NoSnapshot

\* Fault: any snapshot that can be read is taken.
SnapshotExists(last) == snapshot # NoSnapshot

SnapshotCurrent(last) ==
  /\ snapshot # NoSnapshot
  /\ snapshot.sequence = last.sequence /\ snapshot.digest = Digest(last)

\* Fault: the results of earlier requests are not recovered.
RecoverNoResults == <<>>

RecoveredResults ==
  LET kept == {<<ledger[i].batch, ledger[i].key>> : i \in DOMAIN ledger}
      last(k) == CHOOSE i \in DOMAIN ledger :
                   /\ <<ledger[i].batch, ledger[i].key>> = k
                   /\ \A j \in i + 1 .. Len(ledger) : <<ledger[j].batch, ledger[j].key>> # k IN
  [k \in kept |-> [command |-> ledger[last(k)].command,
                   digest  |-> ledger[last(k)].digest,
                   version |-> EventVersion(ledger[last(k)])]]

Open ==
  /\ ~up
  /\ Recoverable
  /\ up' = TRUE
  /\ events' = ledger
  /\ idempotency' = RecoveredResults
  /\ IF ledger = <<>>
       THEN projection' = [b \in Batches |-> <<>>] /\ UNCHANGED snapshot
       ELSE LET last == ledger[Len(ledger)] IN
            IF SnapshotCurrent(last)
              THEN projection' = snapshot.projection /\ UNCHANGED snapshot
              ELSE projection' = last.projection /\ snapshot' = SnapshotOf(last)
  /\ UNCHANGED <<ledger, answers, damaged>>

\* Open fails because the rebuilt snapshot, though renamed into place, could not
\* be synced.  When it fails earlier nothing has changed.
FailToOpen ==
  /\ ~up
  /\ Recoverable
  /\ ledger # <<>> /\ ~SnapshotCurrent(ledger[Len(ledger)])
  /\ snapshot' = SnapshotOf(ledger[Len(ledger)])
  /\ UNCHANGED <<ledger, up, memory, answers, damaged>>

\* The environment: the snapshot file is removed or becomes unreadable.
LoseSnapshot ==
  /\ ledger # <<>>
  /\ snapshot' = NoSnapshot
  /\ UNCHANGED <<ledger, up, memory, answers, damaged>>

\* The environment: while the ledger is closed its last lines are lost, though
\* not all of them, and the snapshot of the last one is still there.
TruncateLedger ==
  /\ ~up
  /\ ledger # <<>>
  /\ SnapshotCurrent(ledger[Len(ledger)])
  /\ \E n \in 1 .. Len(ledger) - 1 : ledger' = SubSeq(ledger, 1, n)
  /\ UNCHANGED <<snapshot, up, memory, answers, damaged>>

-----------------------------------------------------------------------------
(* Reads: they hold the read lock and change nothing. *)

\* Fault: only the last digests are compared.
ReadStateOfSameEnd ==
  /\ up
  /\ \A i \in DOMAIN ledger : Readable(ledger[i])
  /\ ledger # <<>> /\ events # <<>> =>
       Digest(ledger[Len(ledger)]) = Digest(events[Len(events)])

\* ReadState answers with the projection in memory and the events on disk only
\* where their number and their last digest agree.
ReadState ==
  /\ up
  /\ \A i \in DOMAIN ledger : Readable(ledger[i])
  /\ Len(ledger) = Len(events)
  /\ ledger # <<>> => Digest(ledger[Len(ledger)]) = Digest(events[Len(events)])

\* Verify, behind GET /healthz, looks at the events in memory.
Verify == up /\ VerifyChain(events) /\ ValidateProjections(events)

-----------------------------------------------------------------------------

Init ==
  /\ ledger = <<>>
  /\ snapshot = NoSnapshot
  /\ up = FALSE
  /\ events = <<>>
  /\ projection = [b \in Batches |-> <<>>]
  /\ idempotency = <<>>
  /\ answers = {}
  /\ damaged = FALSE

Next ==
  \/ \E req \in Request :
       \/ Replay(req)
       \/ Commit(req)
       \/ \E left \in AppendFailures : FailToAppend(req, left)
  \/ Crash
  \/ Open
  \/ FailToOpen
  \/ LoseSnapshot

Spec == Init /\ [][Next]_vars

\* With a file system that can also lose the end of the ledger.
TruncatingSpec == Init /\ [][Next \/ TruncateLedger]_vars

=============================================================================
