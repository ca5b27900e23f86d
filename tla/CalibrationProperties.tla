------------------------ MODULE CalibrationProperties ------------------------
(***************************************************************************)
(* What makes the life of a batch correct: the check Store.Commit runs on  *)
(* every projection, and the promises no single command can keep alone.    *)
(***************************************************************************)
EXTENDS Calibration

\* Every part of the projection has its shape.
TypeOK ==
  /\ status \in [Batches -> Statuses \cup {"absent"}]
  /\ version \in [Batches -> Nat]
  /\ profile \in [Batches -> SUBSET Points]
  /\ sampledBy \in [Batches -> SUBSET Actors]
  /\ reviewedBy \in [Batches -> Actors \cup {Nobody}]
  /\ DOMAIN sensors \subseteq SensorRevision
  /\ sensors \in [DOMAIN sensors -> Ranges]
  /\ DOMAIN measurements \subseteq MeasurementKey
  /\ measurements \in [DOMAIN measurements -> MeasurementSet]
  /\ DOMAIN findings \subseteq FindingKey
  /\ findings \in [DOMAIN findings -> 0 .. MaxRevision]
  /\ DOMAIN tasks \subseteq MeasurementKey
  /\ tasks \in [DOMAIN tasks -> RecalibrationTask]
  /\ reviews \in [Batches -> Seq(ReviewRecord)]
  /\ \A c \in credentials : /\ c.batch \in Batches
                            /\ c.batchVersion \in Nat
                            /\ c.revisions \subseteq SensorRevision

-----------------------------------------------------------------------------
(* validation.go *)

Sensor(k) == [batch |-> k.batch, code |-> k.code, revision |-> k.revision]

ValidBatch(b) ==
  /\ status[b] # "absent" => version[b] >= 1
  /\ status[b] \notin {"absent", "draft"} => Cardinality(profile[b]) >= 2
  /\ status[b] \in {"frozen", "released"} =>
       reviewedBy[b] # Nobody /\ ~HasSampler(b, reviewedBy[b])
  /\ status[b] = "released" => CredentialsOf(b) # {}

ValidSensor(s) ==
  /\ status[s.batch] # "absent"
  /\ \A r \in 1 .. s.revision : [s EXCEPT !.revision = r] \in DOMAIN sensors

ValidMeasurement(k) ==
  /\ Sensor(k) \in DOMAIN sensors
  /\ k.point \in profile[k.batch]
  /\ measurements[k].extent \subseteq sensors[Sensor(k)]

ValidFinding(f) ==
  /\ Sensor(f) \in DOMAIN sensors
  /\ findings[f] # 0 =>
       /\ [Sensor(f) EXCEPT !.revision = findings[f]] \in DOMAIN sensors
       /\ findings[f] > f.revision

ValidTask(k) ==
  /\ Sensor(k) \in DOMAIN sensors
  /\ k.revision >= 2
  /\ k.point \in profile[k.batch]
  /\ tasks[k].required <=> tasks[k].status # "inherited"
  /\ \A f \in tasks[k].findings : f \in DOMAIN findings /\ f.batch = k.batch
  /\ tasks[k].evidence # 0 =>
       [k EXCEPT !.revision = tasks[k].evidence] \in DOMAIN measurements

ValidCredential(c) ==
  /\ status[c.batch] = "released"
  /\ c.batchVersion >= 1
  /\ \A s \in c.revisions : s \in DOMAIN sensors /\ s.batch = c.batch

\* Commit runs this on the projection a command has built and refuses the
\* command when it fails.
ValidateSnapshot ==
  /\ \A b \in Batches : ValidBatch(b)
  /\ \A s \in DOMAIN sensors : ValidSensor(s)
  /\ \A k \in DOMAIN measurements : ValidMeasurement(k)
  /\ \A f \in DOMAIN findings : ValidFinding(f)
  /\ \A k \in DOMAIN tasks : ValidTask(k)
  /\ \A c \in credentials : ValidCredential(c)

\* No command whose guards accept it builds a projection that Commit, or a
\* later replay of the ledger, would refuse: the guards of the commands alone
\* keep every cross-reference, so no accepted request ends in an internal error.
AcceptedProjectionsValidate == ValidateSnapshot

-----------------------------------------------------------------------------
(* Evidence, findings and tasks. *)

Measured(s, r, p) == Key([s EXCEPT !.revision = r], p) \in DOMAIN measurements

Passes(s, r, p) ==
  Measured(s, r, p) /\ measurements[Key([s EXCEPT !.revision = r], p)].drafts = {}

\* A batch in review or past it rests on good evidence: at every standard point
\* of every sensor the last measurement taken, over all revisions, passed, and
\* no finding is open.  Whatever was returned, recalibrated, inherited and
\* measured on the way, nothing failing hides behind an older passing set.
EvidenceSound ==
  \A b \in Batches : status[b] \in {"ready_review", "frozen", "released"} =>
    /\ OpenFindings(b) = {}
    /\ \A s \in CurrentSensors(b), p \in profile[b] :
         \E r \in 1 .. s.revision :
           Passes(s, r, p) /\ \A q \in r + 1 .. s.revision : ~Measured(s, q, p)

\* Evidence a revision inherits passed, and no earlier revision of the sensor
\* has an open finding at that point: README "only qualified points may reuse
\* the evidence of an old revision".
InheritedEvidencePasses ==
  \A b \in Batches : \A s \in CurrentSensors(b), p \in profile[b] :
    LET r == EffectiveEvidence(s, p) IN
    r \notin {0, s.revision} =>
      /\ Passes(s, r, p)
      /\ \A f \in OpenFindings(b) :
           f.code = s.code /\ f.point = p => f.revision = s.revision

FollowsEvidence(f) ==
  \/ /\ findings[f] = 0
     /\ \A r \in f.revision + 1 .. MaxRevision : ~Passes(Sensor(f), r, f.point)
  \/ /\ findings[f] \in f.revision + 1 .. MaxRevision
     /\ Passes(Sensor(f), findings[f], f.point)
     /\ \A r \in f.revision + 1 .. findings[f] - 1 : ~Passes(Sensor(f), r, f.point)

\* A finding is open exactly as long as no later revision of its sensor has
\* passed at its point, and the revision recorded as its resolution is the
\* first one that did.
FindingsFollowEvidence == \A f \in DOMAIN findings : FollowsEvidence(f)

\* A required task is pending until its revision measures the point, then
\* passed or failed as the readings were, and it passed only if every finding
\* it was made for is closed; a task that is not required is never measured
\* into another state.
TasksFollowEvidence ==
  \A k \in DOMAIN tasks :
    LET s == Sensor(k) IN
    IF ~tasks[k].required THEN tasks[k].status = "inherited" /\ tasks[k].findings = {}
    ELSE /\ tasks[k].findings # {}
         /\ tasks[k].status = IF k \notin DOMAIN measurements THEN "pending"
                              ELSE IF Passes(s, k.revision, k.point) THEN "passed"
                              ELSE "failed"
         /\ tasks[k].status = "passed" =>
              \A f \in tasks[k].findings : findings[f] \in 1 .. k.revision

\* A batch waiting for readings or corrections can always go on: while it
\* samples some point lacks evidence; when it failed some current revision has
\* a finding to recalibrate for; when it was returned one of these holds or
\* it can be resubmitted.  A submission can therefore never ask for the
\* transition failed -> ready_review that lifecycle.go forbids.
NeverWedged ==
  \A b \in Batches :
    LET recalibratable == \E s \in CurrentSensors(b) : HasOpenFinding(s) IN
    /\ status[b] \in {"plan_locked", "sampling"} => ~Complete(b)
    /\ status[b] = "failed" => recalibratable
    /\ status[b] = "returned" => recalibratable \/ ~Complete(b) \/ Unblocked(b)

\* A batch in review or past it is still covered: the coverage report a reader
\* is shown with it is complete.
ReviewableIsCovered ==
  \A b \in Batches :
    status[b] \in {"ready_review", "frozen", "released"} => Complete(b)

-----------------------------------------------------------------------------
(* Review and release. *)

\* Nobody approves a batch that any of its readings, of any revision, came from.
SeparationOfDuties ==
  \A b \in Batches : status[b] \in {"frozen", "released"} =>
    \A k \in DOMAIN measurements :
      k.batch = b => measurements[k].capturedBy # reviewedBy[b]

\* A batch is returned exactly while the last word on it is a return: only an
\* explicit resubmission puts it back into review.  Approval is the last word
\* on a frozen or released batch and names its reviewer, and returns and
\* resubmissions alternate before it.
ReviewProtocol ==
  \A b \in Batches :
    LET r == reviews[b]
        last == IF r = <<>> THEN "none" ELSE r[Len(r)].decision IN
    /\ status[b] = "returned" <=> last = "returned"
    /\ status[b] \in {"frozen", "released"} <=> last = "approved"
    /\ last = "approved" => r[Len(r)].reviewer = reviewedBy[b]
    /\ \A i \in 1 .. Len(r) :
         r[i].decision = "resubmitted" <=> i > 1 /\ r[i - 1].decision = "returned"

\* Every credential ever issued verifies: the content it was sealed over, its
\* sensor revisions and its version still match the released batch.
CredentialVerifies == \A c \in credentials : VerifyCredential(c)

\* A command changes the batch it names and no other, and moves that batch's
\* version on by exactly one, so the version a client read identifies the
\* content it read.
BatchIsolation ==
  [][\E b \in Batches :
       /\ version'[b] = version[b] + 1
       /\ \A o \in Batches \ {b} :
            /\ version'[o] = version[o] /\ status'[o] = status[o]
            /\ FrozenMaterial(o, 0)' = FrozenMaterial(o, 0)]_vars

\* History is only added to: a measurement set, once stored, keeps its readings
\* and its submitter, a closed finding stays closed by the same revision, and
\* sensor revisions and review records are never taken back.
HistoryKept ==
  [][/\ \A k \in DOMAIN measurements :
          k \in DOMAIN measurements' /\ measurements'[k] = measurements[k]
     /\ \A f \in DOMAIN findings :
          f \in DOMAIN findings' /\ (findings[f] # 0 => findings'[f] = findings[f])
     /\ \A s \in DOMAIN sensors : s \in DOMAIN sensors' /\ sensors'[s] = sensors[s]
     /\ \A b \in Batches : SubSeq(reviews'[b], 1, Len(reviews[b])) = reviews[b]]_vars

\* The content of a batch without its version, which a release moves on.
Content(b) == FrozenMaterial(b, 0)

Promise == INSTANCE Release WITH
  phase      <- [b \in Batches |-> IF status[b] \in {"frozen", "released"} THEN status[b] ELSE "open"],
  content    <- [b \in Batches |-> Content(b)],
  submitters <- [b \in Batches |->
                   {measurements[k].capturedBy : k \in {m \in DOMAIN measurements : m.batch = b}}],
  approver   <- reviewedBy,
  issued     <- {[batch |-> c.batch, content |-> [c.content EXCEPT !.version = 0]] : c \in credentials}

\* The workflow keeps the promise of Release.  README: approval freezes the
\* calibration content, after which one immutable credential can be issued.  No
\* command on another batch touches frozen content either, and what a credential
\* seals is what the reviewer, who submitted none of it, approved.
ImplementsRelease == Promise!Spec

-----------------------------------------------------------------------------
(* What the README says and the code does otherwise. *)

\* README: standard points that already qualified may reuse the evidence of an
\* old revision.  So a point with no finding of this batch to clear, whose last
\* evidence passed, is covered in a new revision.
QualifiedPointsInherit ==
  \A b \in Batches : \A s \in CurrentSensors(b), p \in profile[b] :
    FindingsToClear(s, p) = {} /\ Passes(s, PreviousEvidence(s, p), p)
      => EffectiveEvidence(s, p) # 0

\* README: the coverage of the batch and its retest tasks both name the source of
\* reused evidence.  So where a task of the current revision says "inherited",
\* coverage names the same source.
TasksNameTheSource ==
  \A b \in Batches : \A s \in CurrentSensors(b), p \in profile[b] :
    LET k == Key(s, p) IN
    k \in DOMAIN tasks /\ tasks[k].status = "inherited"
      => tasks[k].source = EffectiveEvidence(s, p)

=============================================================================
