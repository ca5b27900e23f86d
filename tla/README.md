# Verification of the sensor calibration release service

TLA+ models, TLC runs and TLAPS proofs for the service in `src/`: a Go program
that takes a batch of sensors from registration through sampling, findings,
recalibration, independent review and freezing to a deployment credential, and
keeps everything in a ledger of events.

All paths below are relative to `src/internal/` unless they start with `src/`.

## 1. Inventory

| Part | State it keeps | Operations |
|---|---|---|
| Domain (`domain/calibration`) | `Snapshot`: batches, sensor revisions, profiles, measurement sets, findings, recalibration tasks, reviews, credentials | guarded mutations of a cloned snapshot, `ValidateSnapshot` |
| Evaluation policy (`policy/evaluation`) | none | statistics, comparison with tolerances, coverage and inheritance, tasks |
| Workflow (`application/workflow`) | none | one method per command, each one `Store.Commit`; read-only views: queue, readiness, queries |
| Event store (`storage/jsonstore`) | memory: projection, events, idempotency results; disk: `events.jsonl`, `snapshot.json` | `Open`/`recover`, `Commit`, `ReadState`, `Verify` |
| Ledger (`audit/ledger`) | none | seal and verify the digest chain, validate event projections, frozen digest and credential verification |
| Transport (`transport/httpapi`: router, codec, handlers) | none | JSON over HTTP, one service call per handler |
| Process (`src/cmd/server`, `server.go`, `selfcheck.go`) | where the main goroutine is, whether the server is closing, the handlers at work | start, serve, signal, shutdown with a deadline, cleanup; selfcheck |

**How they interact.** A handler decodes a request and calls one workflow
method. A command method computes identifiers and a fingerprint outside any
lock and hands `Commit` a closure. `Commit` takes the store's mutex, looks for
an earlier result under the same key, compares the expected version, clones the
projection, runs the closure on the clone (domain guards, then policy, then the
new status), validates the clone, appends an event that carries the whole
projection, replaces the memory and rewrites the snapshot file. Readers clone
the projection under the read lock. So commands are atomic with respect to each
other; what can interleave is the *reading of a version* and the command that
relies on it, commands of different batches, and failures between the writes.

**What is hard here.**

* Evidence over revisions: a point may be measured in revision 1, fail, be left
  out in revision 2, inherited in 3, returned by a reviewer and measured in 4.
  Three places (coverage, findings, tasks) each keep their own view of it.
* The status of a batch is derived (evaluation) and commanded (return,
  resubmit) at once.
* Batches share sensor codes and people.
* Two writes per commit, neither undone when it or the other fails.
* Retries after errors and restarts, late and repeated requests.
* Views (queue, readiness, retest tasks, verification) that restate the guards of
  the commands in their own words.
* Pages of a queue that changes between them; nothing is remembered but a cursor.
* A process whose main goroutine, server, timers and handlers end in any order.

The hazards, each at its line, are in `PROJECT.json`.

**What makes each part correct.** Domain: guards alone keep all
cross-references; evidence of reviewed batches is sound; duties are separated;
histories only grow; a batch can always go on. Policy: only passing evidence is
inherited, tasks and coverage agree. Store: exactly-once per key, no lost
update, answers survive, restart possible, memory follows the ledger. Views:
what they advise and report is what the commands accept. Queue: a traversal
skips and repeats nothing, and ends. Process: it ends, and cuts nobody off
without saying so.

## 2. Modules

| Module | Models | Extends / uses |
|---|---|---|
| `Lifecycle` | the status machine and what each status advertises | |
| `Snapshot` | the projection's maps and look-ups | `Lifecycle` |
| `Evaluation` | coverage, completeness, recalibration tasks | `Snapshot` |
| `Calibration` | the nine commands, `Init`, `Next`, `Spec` | `Evaluation` |
| `Release` | what the workflow promises about a batch (abstract) | |
| `CalibrationProperties` | `ValidateSnapshot`, the properties and the refinement of `Release` | `Calibration`, instance of `Release` |
| `Views` | readiness, next action, retest tasks, credential verification, and their agreement with the commands | `CalibrationProperties` |
| `MCCalibration` | ranges and symmetry for TLC | `Views` |
| `CalibrationProofs` | type correctness, findings and evidence | `CalibrationProperties` |
| `ReleaseProofs` | duties, isolation of batches, kept history, credentials, the review protocol, the refinement of `Release`; inherited evidence, tasks, and that `Commit` accepts what the guards do | `CalibrationProofs` |
| `ViewsProofs` | retest counts, verification, coverage, that batches can go on, and that advice and reports are what the commands accept | `Views`, `ReleaseProofs` |
| `Statistics` | the arithmetic behind a judgement | |
| `StatisticsProofs` | that a passing set bounds each reading, and that a stored judgement is right up to rounding | `Statistics` |
| `MCStatistics` | numbers of four bits for TLC | `Statistics` |
| `WorkQueue` | paging through the queue while batches change | `Lifecycle` |
| `WorkQueueProofs` | that a traversal skips and repeats nothing | `WorkQueue` |
| `MCWorkQueue` | numbers and filters for TLC | `WorkQueue` |
| `CommandLog` | what the store promises its clients (abstract) | |
| `EventStore` | ledger, snapshot file, memory, commit, reads, crash, recovery | |
| `EventStoreProperties` | properties and the refinement of `CommandLog` | `EventStore`, instance of `CommandLog` |
| `EventStoreProofs` | every promise of the store, and the refinement of `CommandLog` | `EventStoreProperties` |
| `MCEventStore` | constants and symmetry for TLC | `EventStoreProperties` |
| `Clients` | the store composed with clients that retry | `EventStore` |
| `ClientsProofs` | what clients may rely on, whatever the network does | `Clients`, `EventStoreProofs` |
| `MCClients` | keys and symmetry for TLC | `Clients` |
| `Server` | the process and the selfcheck | |
| `ServerProofs` | that an exit without an error is clean and a passing selfcheck complete | `Server` |

### The calibration workflow

State: one variable per map of `calibration.Snapshot`. Identifiers are random in
the code; the model uses the natural keys that the guards keep unique (sensor
revision = batch, code, number; measurement = that and a standard point;
finding = that, its kind and whether a reviewer or the policy raised it). A
sensor's range is the set of standard points it covers. A measurement set is
kept as the set of *kinds of finding* `Compare` raises for its statistics, empty
when it passes; a submission chooses any such set for each point, so every
outcome of the arithmetic is covered, including combinations real numbers may
exclude. Of the readings themselves the set keeps `extent`, where they may lie:
`PutMeasurements` admits readings anywhere in the range its revision has at that
moment, and `validateMeasurement` asks of every later projection that they lie in
the range the revision has then. Where the standard point lies neither asks.

| Action | Code |
|---|---|
| `CreateBatch`, `RegisterSensor`, `LockProfile` | `application/workflow/batch_commands.go` with `batch.go`, `sensor.go`, `profile.go` |
| `SubmitMeasurements` | `submitMeasurementBatch`: `PutMeasurements`, `Compare`, `Materialize`, `UpdateRecalibrationTask`, `ReplaceAutomaticFindings`, `EvaluateBatch`, `SetEvaluationStatus`; one point or several |
| `Recalibrate` | `RecalibrateSensor` and `BuildRecalibrationTasks` |
| `ApproveReview`, `ReturnReview` | `Service.Review` with `ApproveReview`/`Freeze` and `ReturnReview` |
| `ResubmitReview` | `Service.ResubmitReview` |
| `Issue` | `Service.Issue`, `IssueCredential`; the digest is the material it is computed from |

A command whose guards fail returns an error and changes nothing; it is not an
action. `ValidateSnapshot` is deliberately *not* a guard of the actions: that it
never rejects what the commands' guards let through is a property.

A second finding of the same kind: a reviewer's corrections of one return are
distinct per revision, point and problem type, and a repeated correction in a
later return reopens the same key. In the code it would be a second finding
beside a resolved one. Since a resolved finding
belongs to an earlier revision and corrections name a current one, the two
cannot meet.

`Release` is the abstract promise about a batch: it can be worked on until
somebody who took none of its readings approves it; from then on its content is
frozen; what is released, once, is what was approved. The refinement maps the
content to the material the credential's digest is computed from, without the
version, which the release moves on.

### The views

Every view is computed from one clone of the projection and changes nothing, so
`Views` only defines operators over the state of `Calibration`. `Accepts` says
which commands the workflow would accept, as the guards of the commands written
out; `GuardsSuffice`, checked by `one_sensor`, says that they hold exactly when the
command's own action is `ENABLED` for some request. The properties compare
`Accepts` with what `Capabilities`, `BuildReadiness`, `nextBatchAction`, the retest
task view and the credential verification say. The
queue's advice has two exceptions in the code, which `AdviceCanBeFollowed`
names: a draft whose sensors share fewer than two points is told to lock a
profile although none fits, and a returned batch whose findings are all of
earlier revisions is told to recalibrate, which is refused; the points of all those
findings can be measured in their sensors' current revisions, and measuring is
accepted (`MeasuringHelps`).

### The statistics

`Calculate` is a loop over the readings (`Look`) and a few operations on its
outcome (`Finish`), `Compare` a comparison with three limits. A floating-point
number is an integer, counted in units of the smallest one. `Floats` are the finite
ones; nothing is assumed of them but that zero is one, and the negative of each.
`Nearest` is the rounding IEEE 754 asks of every operation: the number nearest to the
exact result, of two equally near ones a fixed one, and infinity where the next number
beyond the largest would be nearer. So each addition rounds, then the mean, the
errors and the spread. A result that is not finite cannot be encoded, so the commit
is refused before anything is written (`Stored`).

The code's judgement depends on the order of the readings: with limit 0.2 at the
point 0, the mean of 0.1, 0.2 and 0.3 is above the limit, that of 0.3, 0.2 and 0.1 is
not. What does not depend on it is `JudgementWithinRounding`: how far the exact
readings can be from what a finding, or its absence, says. It is stated for every
*scale*, a number whose first multiples are numbers and that bounds the readings (the
next power of two does), and in the `gap` between neighbouring numbers there: at most
one and a half gaps for the absolute error, nothing for a repeatability finding.

### The work queue

State: the batches (creation time, station, status), and the client's cursor.
`ListBatches` is one clone of the projection, sorted and filtered; the page
starts behind the cursor. The sort is the sequence of the batches that is in the
order `Before` (there is one, `OrderExists`); the model selects first and sorts then,
which comes to the same as no two batches share a place. The code finds that place by binary search in the
sorted list, the model by selecting what lies behind the cursor, which is the
same because the condition is monotone in the order. Identifiers are numbers
because the code compares them, and are created in any order, since they are
digests; the clock may be set back. Commands of others are `CreateBatch` and any
legal transition (`MoveTo`). Two variables only remember: `listed`, what has been
shown, and `steady`, what has matched ever since the first page.

### The event store

State: the lines of the ledger, the snapshot file, the memory of the process
(`events`, `projection`, `idempotency`), whether it runs, and what clients have
been answered. The projection of a batch is the sequence of commands applied to
it, so its length is the batch's version; `BatchIsolation`, checked on the
workflow, is what justifies that. A digest is an identity of the event.

`Commit` holds the mutex from its first check to its last write, so it is one
step with one disjunct per way it can end: answered; event appended and
remembered but `writeSnapshot` failed (before or after the rename);
`FailToAppend` leaves the whole line (failed `Sync` or `Close`) or a part of it
(failed write) and the memory untouched. `Crash` may follow any of them, which
also covers a crash in the middle of a commit. `Replay` is a retry under a kept
key. `Open` is `recover`, and `FailToOpen` its failure after the snapshot was
replaced. `ReadState` is the check made before a credential is verified, `Verify`
that of `GET /healthz`. A line
longer than `ScanLimit`, measured in applied commands, can be written but not
read. `damaged` only remembers that a failed append has left something behind.
`LoseSnapshot` and `TruncateLedger` are the environment. The memory variables
keep their values after `Crash` but nothing reads them until `Open` has set them
again; that is what lets the refinement mapping be just `applied <- projection`.

`CommandLog` is the abstract promise: a batch is the sequence of commands
applied to it; a command is applied at most once per key, at the version its
sender had read; an answer reports an applied command. It leaves open whether a
command whose sender got an error has taken effect.

`Clients` composes the store with its users. Each client wants one command done
on a shared batch: it reads the version, sends the command under a key of its
own, sends the same request again when it gets no answer or an error, and after
a conflict reads the version again and takes a new key. The network may process
any request any number of times and arbitrarily late.

### The process

`Server` has the main goroutine of `run` in both modes, the goroutine of `Serve`,
handlers, signals and timers. A handler takes as long as it likes: it waits for
the client's body, the store's lock and the disk. A signal kills the process
until `signal.Notify` has been called, in selfcheck mode, and while the deferred
calls run; in between it is put into a channel of one, and a second one is
dropped. `Shutdown` closes the listener and waits for the handlers or its own
deadline. The selfcheck is a client with a timeout of its own for each call; its
context ends at any moment. The temporary directory is removed in two steps,
files and directory, between which a handler can write. The short time in which
net/http has accepted a connection and not yet recorded it is left out.

## 3. Runs

| Run | Instance | Properties | What it shows |
|---|---|---|---|
| `one_sensor` | 1 batch, 1 code, 2 points, 2 actors, 3 revisions, narrow and wide ranges, manual and automatic findings | `TypeOK`, `AcceptedProjectionsValidate`, `InheritedEvidencePasses`, `FindingsFollowEvidence`, `TasksFollowEvidence`, `ReviewProtocol`, `AdviceCanBeFollowed`, `ReadinessAgreesWithCommands`, `NoBlockersMeansReviewable`, `RetestCountsAgree`, `HistoryKept` | findings, tasks and inherited evidence agree over three revisions; no accepted command builds a projection `ValidateSnapshot` rejects; the views agree with the commands |
| `two_sensors` | 1 batch, 2 codes, 2 revisions | `EvidenceSound`, `NeverWedged`, `ReviewableIsCovered`, `CredentialVerifies` | sensors recalibrated independently |
| `two_batches` | 2 batches with the same code, 2 revisions, no manual findings | `SeparationOfDuties`, `VerificationSound`, `BatchIsolation`, `ImplementsRelease` | batches that share codes and people; the workflow implements `Release` (`EvidenceSound` is proved, for any number of batches) |
| `cross_batch_inheritance` | as `two_batches` | `QualifiedPointsInherit` violated | finding 1 |
| `task_source` | 1 batch, 2 revisions | `TasksNameTheSource` violated | finding 2 |
| `failing_disk` | 2 batches, 3 keys, 2 bodies, 4 ledger lines, of up to 3 commands readable, appends that leave a line or a part of it | `AnsweredOnce`, `NoLostUpdate`, `MemoryFollowsEvents`, `ReadsAgree`, `ImplementsCommandLog`; until an append fails half way `AnsweredIsOnDisk`, `RestartPossible`, `DiskAgreesWithMemory` | durability and restart, and that the promises to clients hold even on a disk that fails half way |
| `failed_sync` | 1 batch | `SequenceIncreases` violated | finding 3 |
| `truncated_ledger` | 1 batch, `TruncatingSpec` | `TruncationRefused` violated | finding 4 |
| `clients` | 3 clients, 3 keys each, 5 ledger lines, appends that leave a line or a part of it | `EffectiveOnce`, `RefusedHasNoEffect`, `RefusalsBounded`, `EveryoneServed` | repeated and late requests, and liveness of the retries |
| `paging` | 3 batches, 2 instants, 3 filters, pages of 1 and 2 | `NothingSkipped`, `PagesInOrder`, `TraversalEnds` | the queue under change; a traversal ends |
| `statistics` | numbers of 4 significant bits up to 30, 3 readings from -3 to 11, every reference point | `JudgementWithinRounding`, `PassingReadingsNear` | judgements at 0, at the limits, with rounded sums and beyond the range |
| `process` | both modes, a probe and 2 calls | `CleanExit`, `SelfcheckProves`, `SelfcheckEnds`, `SignalEnds` | the end of the process |

**Bounds.** `MaxRevision` stops recalibration; `MaxEvents` stops appends.
Three revisions are the fewest in which evidence can skip a revision, a finding
can stay open over one, and a task can be made while the previous revision's
task is unfinished; the hazards across sensors and across batches need two. Two
points let one be inherited while the other is retested. Two actors let one
sample and another review; a third only adds reviewers. One finding kind and one
problem type are enough because the code never compares kinds: it tells apart
whether there is a finding. Four ledger lines let each of two batches be created
and changed, with a failed append and a restart at any position.
The actors, points, codes and batches are symmetric: no definition orders them.

`ScanLimit` is the length of a line that can be read: in `failing_disk` one less
than the longest, elsewhere out of reach. `clients` needs five lines because three
commands and two failed appends meet there. Three batches with two instants are
the fewest where two share an instant and a third is new or moves between pages;
the filters ask for everything, for one status or for the earlier instant. A
batch's station never changes, so there is one. Three readings of at most 11 and
numbers that lie one apart up to 16 and two apart up to 30 let a sum round more than
once, or leave the range; there are scales of both gaps, and without the slack of
`JudgementWithinRounding` the run fails. In `process` a probe and two calls let a client
have given one up while its handler is still at work on it and another follows.

**Deadlock.** Every cfg says `CHECK_DEADLOCK FALSE`: released batches accept no
command, the bounds stop the rest, and a service that refuses its ledger stays
down. Whether a batch can always go on is stated by `NeverWedged`.

**Two batches and `NeverWedged`.** It is checked with one batch. With two it
does not hold, through the same fault as finding 1: a sampling batch can become
complete because *another* batch resolves a finding, a step on which the code
does not evaluate it. For the same reason the views are checked with one batch: in
the other direction, a batch in review can lose its coverage to a finding of another
batch; its report then says that it cannot be reviewed, while the approval, which
looks at status and open findings only, is accepted. That shared codes are the only
cause is proved, for any number of batches: `NoBatchIsWedged`, `ReviewedIsCovered`,
`AdviceIsSound`, `BlockersAreExact` and `ReportsAreSound` assume `CodesUnshared`.
`RepairsAreAlwaysPossible`, `AdviceWithSharedCodes`, `CommandsWereAdvertised` and
`SubmissionsAreNeverRefused` say what is left without it.

**Fairness.** None is assumed of the workflow: commands are requests of people,
which nothing obliges to arrive; `NeverWedged` is the safety form of "can always
go on". Where something must eventually happen, this is assumed:

* `clients`: a stopped service is in the end started again with a working disk
  (weak fairness of `Open`), and a client that asks over and over is in the end
  heard (strong fairness of `Read` and `Receive`, because a crash or a failed
  append may disable them again and again). This is an assumption about
  operators and network, not about the code; the code's part is that a restart
  is possible and that conflicts cannot go on for ever.
* `paging`: a client that has begun asks for the next page. Batches created
  meanwhile cannot keep it going, for they are finitely many here; nor could they
  otherwise, as they come before the cursor unless the clock goes back.
* `process`: goroutines that can run do, timers fire (weak fairness), and a select
  with two ready branches, which Go decides by chance, does not take the same one
  for ever (strong fairness of `GiveUp`). Handlers, clients and signals are
  assumed nothing of.

## 4. Findings

1. **Inheritance looks across batches** (`policy/evaluation/coverage.go:90`).
   `unresolvedProblemPoints` compares code and revision number but not the
   batch, while `BuildRecalibrationTasks` does compare it.
2. **Tasks and coverage name different sources**
   (`policy/evaluation/recalibration.go:52`).
3. **A failed append is not taken back** (`storage/jsonstore/store.go:143`). The
   next commit writes the same sequence again; `ReadState` then fails and the
   service cannot be restarted. With a partly written line the next event is
   appended to it and can no longer be read, although it was answered.
4. **A truncated ledger is accepted** (`storage/jsonstore/recovery.go:81`) even
   when the snapshot shows that events are missing.

**Further observations.** Met while modelling, and not the subject of a run:

* The health check looks at memory only (`storage/jsonstore/verify.go:20`), where
  `README.md:46` of the repository promises the integrity of the ledger. By
  `MemoryFollowsEvents` it passes on a damaged disk too, so after finding 3 it goes
  on passing until the restart that is refused.
* Lines of up to 32 MiB are read (`storage/jsonstore/store.go:240`), lines of any
  length are written, and each event holds the projection of all batches, which
  only grows. Hence the condition in `RestartPossible`.
* When a call of the selfcheck fails it returns with the server running
  (`transport/httpapi/selfcheck.go:37`), and the deferred cleanup removes the
  temporary directory (`src/cmd/server/main.go:50`) while a handler may write to
  it; an error of the removal is dropped. `SelfcheckProves` therefore speaks of a
  selfcheck that passes.
* The queue advises what is refused in two cases
  (`application/workflow/work_queue.go:162` and `:169`): a draft whose sensors share
  fewer than two points is told to lock a profile, and nothing removes a sensor; a
  returned batch whose findings are of earlier revisions is told to recalibrate.
  `AdviceCanBeFollowed` names both.
* A write that fails half way leaves a line that can never be read again
  (`storage/jsonstore/store.go:194`); the next event is appended to it. `AnsweredIsOnDisk`
  and `RestartPossible` are stated until then.

## 5. Proofs

tlapm checks eight modules, for every value of the constants. Each theorem of
the form `Spec => []P` names the property `P` of a run; the run checks it on a
small instance, the theorem covers every other. A proof has one lemma per
command, goroutine or step, a lemma for `Next`, and temporal steps at the end.

**Assumptions on the constants.**

| Assumption | Says |
|---|---|
| `RangesAssumption`, `PointsAssumption` | ranges are sets of points, and there are finitely many points (a profile is a list) |
| `RequestsAssumption` | there is a code, a range and an actor to register a sensor with |
| `NobodyAssumption`, `RevisionAssumption` | `Nobody` is not an actor; the bound on revisions is positive |
| `KeyAssumption`, `CommandAssumption`, `FailureAssumption`, `EventsAssumption` | each batch has its creation key, creation is a command, a failed append leaves a line or a torn one, the bounds are numbers |
| `ClientsAssumption`, `PeopleAssumption` | how keys and bodies belong to clients; one of finitely many clients creates the shared batch |
| `FloatAssumption`, `ReadingAssumption`, `ToleranceAssumption` | zero and negatives are numbers and infinity is beyond them; at least two readings, all of them numbers; limits that are numbers and not negative |
| `NumbersAssumption` | identifiers and instants are numbers, and there are finitely many identifiers (digests of fixed length) |
| `UnsetAssumption`, `FiltersAssumption`, `LimitsAssumption` | a filter's fields are values or unset, there is a filter, and a page has at least one place |
| `CallsAssumption` | the selfcheck makes a natural number of calls |

The bounds (`MaxRevision`, `MaxEvents`, `ScanLimit`) are arbitrary numbers in the
theorems, so none of them depends on how small an instance TLC was given.

### Findings and evidence: `CalibrationProofs`

* `TypeCorrect`: `TypeOK` is inductive by itself.
* `FindingsCorrect` (`FindingsFollowEvidence`) is not inductive alone: closing a
  finding by the *first* passing revision needs that no measurement exists beyond
  the current revision. `EvidenceInv` adds `Registered` (measurements and findings
  are about registered revisions), `FailureLeavesFinding` (a failing measurement
  left a finding) and `ReviewedIsReady` (a batch in review has no open finding and
  every point measured in some revision).
* `ReleasedEvidenceSound` (`EvidenceSound`), from `EvidenceInv`. Take the last
  measurement of a point; if it failed it left a finding, which is not open, so a
  later revision passed there, against the choice of the last.

### The batch as a whole: `ReleaseProofs`

* `DutiesSeparated`: `DutiesInv` says that whoever submitted a kept measurement is
  still recorded as a sampler and that no approver is a sampler.
* `CommandsAreIsolated` (`BatchIsolation`): a frame argument, `Untouched` and
  `Kept`: each command keeps every record of the other batches. Creation relies on
  `AbsentIsNew`, that nothing refers to a batch before it exists.
* `HistoryIsKept`: each command takes a `HistoryStep`. A submission may close a
  finding but overwrites no measurement, and a return names no closed finding.
* `CredentialsVerify`: "every credential verifies" is not inductive, since it would
  let a batch with a credential move on. `CredentialInv` adds that it is released,
  and no command is accepted of a released batch.
* `ReviewsInOrder` (`ReviewProtocol`): `Protocol` ties the status to the last word
  of the review records.
* `WorkflowKeepsPromise` (`ImplementsRelease`): every command maps to a step of
  `Release` on its own batch or to a stutter, using isolation for the others,
  `DutiesInv` for the approver and `CredentialInv` for the release.

What `Commit` validates:

* `InheritanceIsSound`: from `EvidenceInv`, by the choice of the last measurement
  as above.
* `TasksAreSound`, `AcceptedCommandsValidate`: `ReferencesInv` says what each kind
  of record refers to (`SensorSound`: revisions without a gap; `MeasurementSound`:
  readings within the range of their revision, which nothing changes any more
  (`RangesStay`); `BatchSound`; `TaskSound`: a task is about
  earlier findings of its own point, and says of its revision what that has
  measured). With `CredentialInv` it implies everything `ValidateSnapshot` asks for, in
  the state *after* any accepted command.

### What people are told, and going on: `ViewsProofs`

* `RetestCountsAreSound`: `RetestInv` says that a task is about exactly what was left
  open to its revision (`LeftTo`), which no later command changes: only a current
  revision raises or closes findings. The counts then add up, by the cardinality lemmas
  `KeysOfPoints` and `PartsAddUp`.
* `ChecksAreSound` (`VerificationSound`), from `CredentialsVerify`.
* `ProgressInv` says what a batch has to go on with in each working state: a locked
  batch has sensors, a failed one a sensor that can be recalibrated, and a sampling one
  is not complete as far as its own findings tell (`OwnComplete`).
  `RepairsAreAlwaysPossible`: a failed or returned batch can be repaired and a locked one
  measured, always (`RepairsCanGoOn`, all of `NeverWedged` but the sampling batch).
  `NoBatchIsWedged` and `ReviewedIsCovered` state `NeverWedged` and
  `ReviewableIsCovered` under `CodesUnshared`: no two batches register the same code.
  The condition is not there for the proof's sake. Without it both are false, by finding
  1. It is also no restriction on one batch, where it always holds, and says that finding
  1 is the only thing that can wedge a batch.

What the views advise and report rests on two more facts. `WorkInv` (`BatchWork`)
says where the work of a batch stands: while it samples some point of a current
sensor is not measured in its current revision, and once it failed or was returned
every point has been measured in some revision. `ViewsInv` collects the invariants,
and `ViewsAlways` shows them.

* `AdviceIsSound` (`AdviceCanBeFollowed`): one lemma per status. `OpenFindingLeads`
  makes a sensor to recalibrate, or a point to measure again, out of an open finding.
* `BlockersAreExact` (`NoBlockersMeansReviewable`): a batch without blockers is complete,
  has no open finding and was sampled by somebody, or is frozen; by `WorkInv` and
  `ProgressInv` only a reviewed or a returned batch can be all of that.
* `ReportsAreSound` (`ReportsAgree`, the half of `ReadinessAgreesWithCommands` that
  compares reports and guards; the other is `GuardsSuffice`).
* `AdviceWithSharedCodes` (`AdviceOrMeasurement`): shared codes add one exception only to
  those that `AdviceCanBeFollowed` names, a returned batch that lost evidence to another
  batch's finding, and the point that lost it can be measured.
* `CommandsWereAdvertised`: whatever command is carried out had passed the guards
  `Accepts` states and was advertised by the status (`[][Advertised]_vars`). That the
  guards also suffice is the other direction, which only TLC checks.
* `SubmissionsAreNeverRefused` (`EvaluationIsLegal`): `SetEvaluationStatus` never refuses
  the transition it is asked for, so that no readings are judged and then lost. The
  theorem is about every step that stores readings, also one that would be refused and
  so is no step of `Spec`; hence it is stated over the invariants.

### The store: `EventStoreProofs`

`StoreInvariant` proves `StoreInv`, from which the properties of `failing_disk`
follow. Its parts:

* `History`: memory is the chain of its events, `projection` is what the last one
  carries, histories grow along it, no key occurs twice, and events and histories
  explain each other.
* `Results` and `AnswersRecorded`: the results kept for retries are those of the events,
  and every answer is one of them.
* `LedgerFollowsMemory`: the ledger equals the events, or is `Ahead` by the one event
  whose append failed after the line was complete, or is `Broken` (a line that
  cannot be read, or two events in one place); until an append fails half way it is equal.
  This case distinction is what makes the invariant inductive on a disk that fails:
  a commit on an `Ahead` ledger leads to `Broken`, a restart to equality, and
  `Broken` is for ever, as `recover` then always fails.
* `SnapshotOfAnEvent`: a snapshot is of what its digest says.

`AnswersAreUnique`, `UpdatesAreKept`, `MemoryIsSound` and `ReadsAreSound` hold on any
disk; `AnswersSurvive`, `RestartIsPossible` and `DiskFollowsMemory` until an append fails
half way, which is their statement (finding 3 is why).
`StoreImplementsLog` (`ImplementsCommandLog`) maps a commit, also one that
reports an error after the event was remembered, to a step of `CommandLog`, a restart on
an `Ahead` ledger to the step of the command that nobody was answered, and the rest to
stutters.

### The clients: `ClientsProofs`

`ClientsUseTheStore` shows that the composition is a behaviour of `EventStore`, so that
`StoreInv` holds in it. `ClientsInvariant` adds `ClientsInv`: every request is
`SentOnce` (one under an earlier key of its sender expects a version that has passed, so it
can never be accepted), what a client waits for has been sent (`SenderInv`,
`CreatorInv`), what was done or lies on disk was asked for (`Asked`), and the ledger is at
least as long as the history (`Bounded`).

* `CommandsTakeEffectOnce` (`EffectiveOnce`): two effects would be under two keys of
  one client, and the earlier was refused.
* `ConflictsHaveNoEffect` (`RefusedHasNoEffect`).
* `ConflictsAreBounded` (`RefusalsBounded`): by counting. Each refusal means that the
  history has grown since the version was read, and each entry of it belongs to
  another client.

### The work queue: `WorkQueueProofs`

`OrderExists`: a set of batches can be put in order, by giving each the number of those
not behind it as its place; this is an injection into as many places as there are
batches, hence onto them. `PageIsCut` then says what a page leaves out: only what
lies behind its own last batch, to which the next cursor points.

* `NothingIsSkipped` (`NothingSkipped`): `Position` says that the cursor is that of a
  batch, that all that was shown comes up to it, and that all that is still owed lies
  behind it. Commands of others keep it, because they change neither the creation time
  of a batch nor, therefore, its place; what is created before the cursor is owed to
  nobody. A cursor is refused under another filter (`DigestIsFilter`).
* `PagesFollowTheOrder` (`PagesInOrder`), from the same invariant.

### Statistics: `StatisticsProofs`

* Rounding: there is a nearest number (`NearestIs`), rounding does not pass a number
  (`NearestBounds`), and it moves a result by half a gap at most where a scale reaches
  (`NearestWithin`). Nothing is used of the numbers but their order, so the lemmas hold
  of any precision.
* `LoopInv`: the readings looked at lie between the least and the greatest, both of which
  are readings, and so does their *exact* sum, counted as often. `DriftInv`: where a scale
  covers the readings, the sum after k of them is finite, at most k times the size (that
  these multiples are numbers keeps rounding from carrying it farther), and off the exact
  sum by k halves of a gap.
* `JudgementsAreNear` (`JudgementWithinRounding`): `ErrorDrift` adds the rounding of the
  mean and of the error to that of the sum. The exact total is the fold of the library,
  whose recursion takes the elements of a set in an order of its own, so the judgement is
  bounded whatever the order of the readings. That the fold is defined for every set, and
  that any element may be taken first, would need induction over finite sets; it is
  proved instead by contradiction, from a set of least size on which it fails
  (`AllSubsets`).
* `EveryReadingIsNear` (`PassingReadingsNear`), from the same invariants: the exact mean
  of a passing set is near the standard point and between the extremes, which are near
  each other.

### The process: `ServerProofs`

* `ExitClean`: an exit without an error finds no handler at work, for any number
  of calls. `Quiet` adds that the server is closed from `Drain` on, so that nothing
  is accepted, and carries the fact through the rest of the selfcheck.
* `PassingSelfcheckProves` (`SelfcheckProves`): `Script` says that all calls before the
  current one were answered, and all of them when the server is told to stop.

### Only model-checked

| Property | Why |
|---|---|
| `EveryoneServed`, `TraversalEnds`, `SelfcheckEnds`, `SignalEnds` | liveness under fairness is out of the provers' reach |
| `GuardsSuffice`, a half of `ReadinessAgreesWithCommands` | relates `Accepts` to `ENABLED`, out of reach too; that the guards are necessary is proved (`CommandsWereAdvertised`) |
| `NeverWedged`, `ReviewableIsCovered` and the views' properties with no condition | proved under `CodesUnshared`; with several batches that share a code they are false (finding 1) |

## 6. Not modelled

* The HTTP layer: decoding, encoding, routing and the mapping of errors to status
  codes. It keeps no state and calls the service once per request; the life of a
  handler is in `Server`, lost, late and repeated requests in `Clients`.
* The readings of the workflow: a submission takes any outcome of the statistics.
  Which of two equally near numbers a result is rounded to.
* What the calls of the selfcheck ask for: they are numbered; each may succeed or
  fail.
* The summary counts of the queue, `Inspect`, and views that only select and sort.
* `RequireCapability`: nothing calls it. (It does not know `resubmit_review`.)
* Texts, timestamps and required-field checks.
* A changed (rather than lost) ledger line, and a partial write that ends exactly
  before the newline.
* Power loss that drops data which `Sync` reported as written.

## 7. Plan

Done: every part that keeps state, the views, the composition with clients, two
abstract specifications, and theorems about all of them: each safety and action
property the runs check is proved, except what the last table of section 5 lists.

What could still be added:

1. The HTTP layer, if it came to keep state (sessions, rate limits) or to call the
   service more than once per request.
2. Liveness as step lemmas: what each fair step makes smaller (`RefusalsBounded` is
   one such bound), so that only the appeal to fairness is left to TLC.
