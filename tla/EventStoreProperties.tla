------------------------ MODULE EventStoreProperties ------------------------
(***************************************************************************)
(* What clients, and the operator who restarts the service, can rely on.   *)
(***************************************************************************)
EXTENDS EventStore

Log == INSTANCE CommandLog WITH applied <- projection

\* The store is a CommandLog: whatever fails and however often the service
\* restarts, a command takes effect at most once per key, at the version its
\* sender had read, and every answer reports a command that took effect.
ImplementsCommandLog == Log!Spec

\* All answers given for one idempotency key of a batch are the same answer,
\* and two different requests never get the same version of a batch.
AnsweredOnce ==
  \A a, c \in answers :
    a.batch = c.batch /\ (a.key = c.key \/ a.version = c.version) => a = c

\* An update is never lost: the version an answer reports is the one right
\* after the version its sender had read.
NoLostUpdate == \A a \in answers : a.version = a.digest[2] + 1

\* While the service runs, its projection and the results it keeps for retries
\* are those of the events it has read or written, whichever file they were
\* recovered from, and those events pass its own health check, on a damaged disk
\* too.
MemoryFollowsEvents ==
  up =>
    /\ Verify
    /\ projection = IF events = <<>> THEN [b \in Batches |-> <<>>]
                    ELSE events[Len(events)].projection
    /\ \A i \in DOMAIN events :
         <<events[i].batch, events[i].key>> \in DOMAIN idempotency
    /\ \A k \in DOMAIN idempotency :
         \E i \in DOMAIN events :
           /\ <<events[i].batch, events[i].key>> = k
           /\ idempotency[k] = [command |-> events[i].command,
                                digest  |-> events[i].digest,
                                version |-> EventVersion(events[i])]

Records(e, a) ==
  /\ e.batch = a.batch /\ e.key = a.key /\ e.command = a.command
  /\ e.digest = a.digest /\ EventVersion(e) = a.version

\* As long as no append has failed half way, a command that was answered is in
\* the ledger on disk, whatever became of the snapshot file and of the memory.
AnsweredIsOnDisk ==
  ~damaged => \A a \in answers : \E i \in DOMAIN ledger : Records(ledger[i], a)

\* As long as that, and while no projection has outgrown the longest line that can
\* be read, the service can be started again: no crash between the two writes of a
\* commit and no failed or lost snapshot leaves files that recover refuses.
RestartPossible ==
  ~damaged /\ (\A i \in DOMAIN ledger : Size(ledger[i]) <= ScanLimit) => Recoverable

\* As long as that, the ledger on disk is the one in memory: ReadState, and with it
\* the verification of a credential, finds no disagreement.
DiskAgreesWithMemory == ~damaged /\ up => ledger = events

\* Whatever failed appends have left on disk, when ReadState answers, every event
\* it returns is one the running service applied, and the projection it returns
\* with them is the one they lead to: a credential is never verified against a
\* ledger that does not support it.
ReadsAgree ==
  ReadState =>
    /\ ledger = events
    /\ ledger # <<>> => projection = ledger[Len(ledger)].projection

-----------------------------------------------------------------------------
(* What the README says and the code does otherwise. *)

\* README: events.jsonl carries an increasing sequence.
SequenceIncreases ==
  \A i, j \in DOMAIN ledger : i < j => ledger[i].sequence < ledger[j].sequence

\* README: when the ledger has been truncated the service refuses to start.  So
\* a service that runs has every event that was answered.
TruncationRefused ==
  up => \A a \in answers : \E i \in DOMAIN events : Records(events[i], a)

=============================================================================
