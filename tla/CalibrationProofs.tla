------------------------- MODULE CalibrationProofs -------------------------
(***************************************************************************)
(* Theorems about Calibration, for every choice of batches, codes, points, *)
(* ranges, actors, kinds of finding and bound on revisions.                *)
(***************************************************************************)
EXTENDS CalibrationProperties, WellFoundedInduction, SequenceTheorems, TLAPS

-----------------------------------------------------------------------------
(* Lemmas about the operators. *)

\* A non-empty set of revisions has a greatest element, which Max returns.
LEMMA MaxInSet ==
  ASSUME NEW S \in SUBSET Revisions, S # {}
  PROVE  Max(S) \in S /\ \A x \in S : x <= Max(S)
<1> DEFINE T == {MaxRevision - x : x \in S}
<1>1. MaxRevision \in Nat
  BY RevisionAssumption
<1>2. T \subseteq Nat /\ T # {}
  <2>1. \A x \in S : x \in Nat /\ MaxRevision - x \in Nat
    BY <1>1 DEF Revisions
  <2>2. PICK x \in S : TRUE
    OBVIOUS
  <2>3. MaxRevision - x \in T
    BY <2>2
  <2>4. QED
    BY <2>1, <2>3
<1>3. PICK m \in T : \A y \in T : ~ (<<y, m>> \in OpToRel(<, Nat))
  BY <1>2, NatLessThanWellFounded, WFMin
<1>4. \A y \in T : ~ (y < m)
  BY <1>2, <1>3 DEF OpToRel
<1>5. PICK x \in S : m = MaxRevision - x
  OBVIOUS
<1>6. \A y \in S : x >= y
  BY <1>1, <1>4, <1>5 DEF Revisions
<1>7. QED
  BY <1>1, <1>5, <1>6 DEF Max, Revisions

\* The evidence a revision can inherit comes from an earlier revision.
LEMMA PreviousEvidenceType ==
  ASSUME NEW s \in SensorRevision, NEW p \in Points
  PROVE  /\ PreviousEvidence(s, p) \in 0 .. MaxRevision
         /\ PreviousEvidence(s, p) # 0 =>
              PreviousEvidence(s, p) \in EarlierEvidence(s, p)
<1>1. EarlierEvidence(s, p) \in SUBSET Revisions
  BY DEF EarlierEvidence
<1>2. CASE EarlierEvidence(s, p) = {}
  BY <1>2, RevisionAssumption DEF PreviousEvidence
<1>3. CASE EarlierEvidence(s, p) # {}
  BY <1>1, <1>3, MaxInSet, RevisionAssumption DEF PreviousEvidence, Revisions
<1>4. QED
  BY <1>2, <1>3

\* Keys of registered revisions and points are measurement keys.
LEMMA KeyType ==
  ASSUME NEW s \in SensorRevision, NEW p \in Points
  PROVE  Key(s, p) \in MeasurementKey
BY DEF Key, SensorRevision, MeasurementKey

-----------------------------------------------------------------------------
(* Type correctness. *)

\* What a submission carries is a judgement of some points of the profile.
LEMMA JudgementType ==
  ASSUME NEW b \in Batches, NEW drafts \in Judgements(b)
  PROVE  DOMAIN drafts \subseteq profile[b] /\ drafts \in [DOMAIN drafts -> SUBSET Kinds]
BY DEF Judgements

\* A current sensor of a batch is a registered revision of that batch.
LEMMA CurrentSensorType ==
  ASSUME TypeOK, NEW b \in Batches, NEW s \in CurrentSensors(b)
  PROVE  s \in SensorRevision /\ s \in DOMAIN sensors /\ s.batch = b
BY DEF TypeOK, CurrentSensors

\* The step lemmas name each command once; the theorems below cite them.
LEMMA TypeInit == Init => TypeOK
BY RevisionAssumption DEF Init, TypeOK

\* Moving a batch keeps statuses and versions well formed.
LEMMA MoveToType ==
  ASSUME TypeOK, NEW b \in Batches, NEW next \in Statuses, MoveTo(b, next)
  PROVE  /\ status' \in [Batches -> Statuses \cup {"absent"}]
         /\ version' \in [Batches -> Nat]
BY DEF TypeOK, MoveTo, Touch

\* Creating a batch keeps the types.
LEMMA CreateBatchType ==
  ASSUME TypeOK, NEW b \in Batches, CreateBatch(b)
  PROVE  TypeOK'
BY DEF TypeOK, CreateBatch, Statuses

\* Registering a sensor keeps the types.
LEMMA RegisterSensorType ==
  ASSUME TypeOK, NEW b \in Batches, NEW c \in Codes, NEW range \in Ranges,
         RegisterSensor(b, c, range)
  PROVE  TypeOK'
<1> DEFINE new == [batch |-> b, code |-> c, revision |-> 1]
<1>1. new \in SensorRevision
  BY RevisionAssumption DEF SensorRevision, Revisions
<1>2. DOMAIN sensors' = DOMAIN sensors \cup {new}
  BY DEF RegisterSensor
<1>3. sensors' \in [DOMAIN sensors' -> Ranges]
  BY <1>2 DEF RegisterSensor, TypeOK
<1>4. version' \in [Batches -> Nat]
  BY DEF RegisterSensor, TypeOK, Touch
<1>5. QED
  BY <1>1, <1>2, <1>3, <1>4 DEF RegisterSensor, TypeOK

\* Locking a profile keeps the types.
LEMMA LockProfileType ==
  ASSUME TypeOK, NEW b \in Batches, NEW points \in SUBSET Points,
         LockProfile(b, points)
  PROVE  TypeOK'
<1>1. /\ status' \in [Batches -> Statuses \cup {"absent"}]
      /\ version' \in [Batches -> Nat]
  BY MoveToType DEF LockProfile, Statuses
<1>2. QED
  BY <1>1 DEF LockProfile, TypeOK

\* A review record is added to a sequence of them.
LEMMA RecordType ==
  ASSUME TypeOK, NEW b \in Batches, NEW actor \in Actors,
         NEW decision \in {"returned", "resubmitted", "approved"},
         Record(b, actor, decision)
  PROVE  reviews' \in [Batches -> Seq(ReviewRecord)]
<1>1. [reviewer |-> actor, decision |-> decision] \in ReviewRecord
  BY DEF ReviewRecord
<1>2. Append(reviews[b], [reviewer |-> actor, decision |-> decision]) \in Seq(ReviewRecord)
  BY <1>1, AppendProperties DEF TypeOK
<1>3. QED
  BY <1>2 DEF Record, TypeOK

\* Approving keeps the types.
LEMMA ApproveReviewType ==
  ASSUME TypeOK, NEW b \in Batches, NEW actor \in Actors, ApproveReview(b, actor)
  PROVE  TypeOK'
<1>1. /\ status' \in [Batches -> Statuses \cup {"absent"}]
      /\ version' \in [Batches -> Nat]
  BY MoveToType DEF ApproveReview, Freeze, Statuses
<1>2. reviews' \in [Batches -> Seq(ReviewRecord)]
  BY RecordType DEF ApproveReview
<1>3. reviewedBy' \in [Batches -> Actors \cup {Nobody}]
  BY DEF ApproveReview, Freeze, TypeOK
<1>4. QED
  BY <1>1, <1>2, <1>3 DEF ApproveReview, TypeOK

\* A correction is a finding of the batch about a current revision.
LEMMA CorrectionsAreFindings ==
  ASSUME TypeOK, NEW b \in Batches, NEW f \in Corrections(b)
  PROVE  /\ f \in FindingKey /\ f.batch = b
         /\ \E s \in CurrentSensors(b) : f.code = s.code /\ f.revision = s.revision
<1>1. PICK s \in CurrentSensors(b) :
        f \in [batch : {b}, code : {s.code}, revision : {s.revision},
              point : profile[b], kind : Problems, origin : {"manual"}]
  BY DEF Corrections
<1>2. s.code \in Codes /\ s.revision \in Revisions
  BY DEF CurrentSensors, TypeOK, SensorRevision
<1>3. profile[b] \subseteq Points
  BY DEF TypeOK
<1>4. f \in [batch : Batches, code : Codes, revision : Revisions, point : Points,
            kind : Problems, origin : {"manual"}]
  BY <1>1, <1>2, <1>3
<1>5. QED
  BY <1>1, <1>4 DEF FindingKey

\* Returning keeps the types.
LEMMA ReturnReviewType ==
  ASSUME TypeOK, NEW b \in Batches, NEW actor \in Actors,
         NEW corrections \in SUBSET Corrections(b),
         ReturnReview(b, actor, corrections)
  PROVE  TypeOK'
<1>1. /\ status' \in [Batches -> Statuses \cup {"absent"}]
      /\ version' \in [Batches -> Nat]
  BY MoveToType DEF ReturnReview, Statuses
<1>2. reviews' \in [Batches -> Seq(ReviewRecord)]
  BY RecordType DEF ReturnReview
<1>3. DOMAIN findings' = DOMAIN findings \cup corrections
  BY DEF ReturnReview
<1>4. DOMAIN findings' \subseteq FindingKey
  BY <1>3, CorrectionsAreFindings DEF TypeOK
<1>5. findings' \in [DOMAIN findings' -> 0 .. MaxRevision]
  BY <1>3, RevisionAssumption DEF ReturnReview, TypeOK
<1>6. QED
  BY <1>1, <1>2, <1>4, <1>5 DEF ReturnReview, TypeOK

\* Resubmitting keeps the types.
LEMMA ResubmitReviewType ==
  ASSUME TypeOK, NEW b \in Batches, NEW actor \in Actors, ResubmitReview(b, actor)
  PROVE  TypeOK'
<1>1. /\ status' \in [Batches -> Statuses \cup {"absent"}]
      /\ version' \in [Batches -> Nat]
  BY MoveToType DEF ResubmitReview, Statuses
<1>2. reviews' \in [Batches -> Seq(ReviewRecord)]
  BY RecordType DEF ResubmitReview
<1>3. QED
  BY <1>1, <1>2 DEF ResubmitReview, TypeOK

\* Issuing a credential keeps the types.
LEMMA IssueType ==
  ASSUME TypeOK, NEW b \in Batches, Issue(b)
  PROVE  TypeOK'
<1>1. /\ status' \in [Batches -> Statuses \cup {"absent"}]
      /\ version' \in [Batches -> Nat]
  BY MoveToType DEF Issue, Statuses
<1>2. /\ Credential(b).batch \in Batches
      /\ Credential(b).batchVersion \in Nat
      /\ Credential(b).revisions \subseteq SensorRevision
  BY CurrentSensorType DEF Credential, TypeOK
<1>3. QED
  BY <1>1, <1>2 DEF Issue, TypeOK

\* The task made for a point of a new revision is one.
LEMMA NewTaskType ==
  ASSUME TypeOK, NEW s \in SensorRevision, NEW p \in Points
  PROVE  NewTask(s, p) \in RecalibrationTask
<1>1. PreviousEvidence(s, p) \in 0 .. MaxRevision
  BY PreviousEvidenceType
<1>2. FindingsToClear(s, p) \in SUBSET FindingKey
  BY DEF FindingsToClear, OpenFindings, BatchFindings, TypeOK
<1>3. 0 \in 0 .. MaxRevision
  BY RevisionAssumption
<1>4. QED
  BY <1>1, <1>2, <1>3 DEF NewTask, RecalibrationTask

\* Recalibrating keeps the types: the bound leaves room for the new revision.
LEMMA RecalibrateType ==
  ASSUME TypeOK, NEW b \in Batches, NEW s \in CurrentSensors(b), Recalibrate(s)
  PROVE  TypeOK'
<1> DEFINE new == [s EXCEPT !.revision = @ + 1]
           keys == {Key(new, p) : p \in profile[b]}
<1>1. s \in SensorRevision /\ s \in DOMAIN sensors /\ s.batch = b
  BY CurrentSensorType
<1>2. new \in SensorRevision /\ new.batch = b
  BY <1>1, RevisionAssumption DEF Recalibrate, SensorRevision, Revisions
<1>3. /\ DOMAIN sensors' \subseteq SensorRevision
      /\ sensors' \in [DOMAIN sensors' -> Ranges]
  <2>1. sensors' = [t \in DOMAIN sensors \cup {new} |->
                      IF t = new THEN sensors[s] ELSE sensors[t]]
    BY DEF Recalibrate
  <2>2. QED
    BY <1>1, <1>2, <2>1 DEF TypeOK
<1>4. /\ DOMAIN tasks' \subseteq MeasurementKey
      /\ tasks' \in [DOMAIN tasks' -> RecalibrationTask]
  <2>1. tasks' = [k \in DOMAIN tasks \cup keys |->
                    IF k \in keys THEN NewTask(new, k.point) ELSE tasks[k]]
    BY <1>2 DEF Recalibrate, BuildRecalibrationTasks
  <2>2. profile[b] \subseteq Points
    BY DEF TypeOK
  <2>3. \A k \in keys : k \in MeasurementKey /\ k.point \in Points
    BY <1>2, <2>2, KeyType DEF MeasurementKey
  <2>4. \A k \in keys : NewTask(new, k.point) \in RecalibrationTask
    BY <1>2, <2>3, NewTaskType
  <2>5. QED
    BY <2>1, <2>3, <2>4 DEF TypeOK
<1>5. /\ status' \in [Batches -> Statuses \cup {"absent"}]
      /\ version' \in [Batches -> Nat]
  <2>1. CASE status[b] = "returned"
    <3>1. Touch(b) /\ UNCHANGED status
      BY <1>1, <2>1 DEF Recalibrate
    <3>2. QED
      BY <3>1 DEF Touch, TypeOK
  <2>2. CASE status[b] # "returned"
    <3>1. MoveTo(b, "sampling")
      BY <1>1, <2>2 DEF Recalibrate
    <3>2. QED
      BY <3>1, MoveToType DEF Statuses
  <2>3. QED
    BY <2>1, <2>2
<1>6. QED
  BY <1>3, <1>4, <1>5 DEF Recalibrate, TypeOK

\* What a submission raises are automatic findings of its revision and points.
LEMMA AutomaticFindingsType ==
  ASSUME NEW s \in SensorRevision, NEW P \in SUBSET Points,
         NEW drafts \in [P -> SUBSET Kinds], NEW f \in AutomaticFindings(s, drafts)
  PROVE  /\ f \in FindingKey
         /\ f.batch = s.batch /\ f.code = s.code /\ f.revision = s.revision
         /\ f.point \in P /\ f.kind \in drafts[f.point] /\ f.origin = "automatic"
<1>1. PICK p \in P : \E k \in drafts[p] :
        f = [batch |-> s.batch, code |-> s.code, revision |-> s.revision,
             point |-> p, kind |-> k, origin |-> "automatic"]
  BY DEF AutomaticFindings
<1>2. QED
  BY <1>1 DEF SensorRevision, FindingKey

\* A submission keeps the types.
LEMMA SubmitMeasurementsType ==
  ASSUME TypeOK, NEW b \in Batches, NEW s \in CurrentSensors(b),
         NEW drafts \in Judgements(b), NEW actor \in Actors,
         SubmitMeasurements(s, drafts, actor)
  PROVE  TypeOK'
<1> DEFINE keys == {Key(s, p) : p \in DOMAIN drafts}
<1>1. s \in SensorRevision /\ s \in DOMAIN sensors /\ s.batch = b
  BY CurrentSensorType
<1>2. /\ DOMAIN drafts \in SUBSET Points
      /\ drafts \in [DOMAIN drafts -> SUBSET Kinds]
  BY JudgementType DEF TypeOK
<1>3. /\ DOMAIN measurements' \subseteq MeasurementKey
      /\ measurements' \in [DOMAIN measurements' -> MeasurementSet]
  <2>1. measurements' = [k \in DOMAIN measurements \cup keys |->
          IF k \in keys THEN [drafts |-> drafts[k.point],
                              extent |-> sensors[s], capturedBy |-> actor]
                        ELSE measurements[k]]
    BY DEF SubmitMeasurements, PutMeasurements
  <2>2. \A k \in keys : k \in MeasurementKey /\ k.point \in DOMAIN drafts
    BY <1>1, <1>2, KeyType DEF Key
  <2>3. \A k \in keys : [drafts |-> drafts[k.point], extent |-> sensors[s],
                         capturedBy |-> actor] \in MeasurementSet
    <3>1. sensors[s] \in Ranges
      BY <1>1 DEF TypeOK
    <3>2. QED
      BY <1>2, <2>2, <3>1 DEF MeasurementSet
  <2>4. QED
    BY <2>1, <2>2, <2>3 DEF TypeOK
<1>4. /\ DOMAIN tasks' \subseteq MeasurementKey
      /\ tasks' \in [DOMAIN tasks' -> RecalibrationTask]
  <2>1. s.revision \in 0 .. MaxRevision
    BY <1>1, RevisionAssumption DEF SensorRevision, Revisions
  <2>2. \A k \in DOMAIN tasks, st \in {"passed", "failed"} :
          [tasks[k] EXCEPT !.evidence = s.revision, !.status = st] \in RecalibrationTask
    BY <2>1 DEF TypeOK, RecalibrationTask
  <2>3. QED
    BY <2>2 DEF SubmitMeasurements, UpdateRecalibrationTask, TypeOK
<1>5. /\ DOMAIN findings' \subseteq FindingKey
      /\ findings' \in [DOMAIN findings' -> 0 .. MaxRevision]
  <2>1. AutomaticFindings(s, drafts) \subseteq FindingKey
    BY <1>1, <1>2, AutomaticFindingsType
  <2>2. s.revision \in 0 .. MaxRevision /\ 0 \in 0 .. MaxRevision
    BY <1>1, RevisionAssumption DEF SensorRevision, Revisions
  <2>3. QED
    BY <2>1, <2>2 DEF SubmitMeasurements, ReplaceAutomaticFindings, TypeOK
<1>6. /\ status' \in [Batches -> Statuses \cup {"absent"}]
      /\ version' \in [Batches -> Nat]
  BY <1>1 DEF SubmitMeasurements, SetEvaluationStatus, EvaluatedStatus, Touch, TypeOK, Statuses
<1>7. sampledBy' \in [Batches -> SUBSET Actors]
  BY <1>1 DEF SubmitMeasurements, PutMeasurements, AddSampler, TypeOK
<1>8. QED
  BY <1>3, <1>4, <1>5, <1>6, <1>7 DEF SubmitMeasurements, TypeOK

\* TypeOK is inductive by itself.
LEMMA TypeNext == TypeOK /\ [Next]_vars => TypeOK'
<1> SUFFICES ASSUME TypeOK, [Next]_vars PROVE TypeOK'
  OBVIOUS
<1>1. CASE UNCHANGED vars
  BY <1>1 DEF vars, batchVars, TypeOK
<1>2. ASSUME NEW b \in Batches, BatchNext(b) PROVE TypeOK'
  BY <1>2, CreateBatchType, RegisterSensorType, LockProfileType,
     SubmitMeasurementsType, RecalibrateType, ApproveReviewType,
     ReturnReviewType, ResubmitReviewType, IssueType DEF BatchNext
<1>3. QED
  BY <1>1, <1>2 DEF Next

\* Every reachable projection is well formed.
THEOREM TypeCorrect == Spec => []TypeOK
BY TypeInit, TypeNext, PTL DEF Spec

-----------------------------------------------------------------------------
(* Findings and evidence.  The invariant behind the two theorems below.    *)

\* Measurements and findings are about registered sensor revisions.
Registered ==
  /\ \A k \in DOMAIN measurements : Sensor(k) \in DOMAIN sensors
  /\ \A f \in DOMAIN findings : Sensor(f) \in DOMAIN sensors

\* A measurement that failed left a finding at its revision and point.
FailureLeavesFinding ==
  \A k \in DOMAIN measurements : measurements[k].drafts # {} =>
    \E f \in DOMAIN findings : Sensor(f) = Sensor(k) /\ f.point = k.point

\* Nothing is open and every point has been measured in some revision.
ReviewReady(b) ==
  /\ OpenFindings(b) = {}
  /\ \A s \in CurrentSensors(b), p \in profile[b] :
       \E r \in 1 .. s.revision : Measured(s, r, p)

InReview(b) == status[b] \in {"ready_review", "frozen", "released"}

ReviewedIsReady == \A b \in Batches : InReview(b) => ReviewReady(b)

\* Inductive together with TypeOK.
EvidenceInv ==
  /\ Registered
  /\ FindingsFollowEvidence
  /\ FailureLeavesFinding
  /\ ReviewedIsReady

\* The measurement key of another revision of a sensor, written out.
LEMMA KeyOfRevision ==
  ASSUME NEW s \in SensorRevision, NEW r, NEW p
  PROVE  Key([s EXCEPT !.revision = r], p)
           = [batch |-> s.batch, code |-> s.code, revision |-> r, point |-> p]
BY DEF SensorRevision, Key

\* What a measurement or a finding is about.
LEMMA SensorType ==
  ASSUME NEW k \in MeasurementKey \cup FindingKey
  PROVE  /\ Sensor(k) \in SensorRevision
         /\ Sensor(k).batch = k.batch /\ Sensor(k).code = k.code
         /\ Sensor(k).revision = k.revision /\ k.revision \in Revisions
         /\ k.point \in Points
BY DEF Sensor, SensorRevision, MeasurementKey, FindingKey

\* A sensor is never measured or found at fault beyond its current revision.
LEMMA CurrentIsLast ==
  ASSUME TypeOK, Registered, NEW b \in Batches, NEW s \in CurrentSensors(b)
  PROVE  /\ \A k \in DOMAIN measurements :
              k.batch = s.batch /\ k.code = s.code => k.revision <= s.revision
         /\ \A f \in DOMAIN findings :
              f.batch = s.batch /\ f.code = s.code => f.revision <= s.revision
<1>1. \A t \in DOMAIN sensors :
        t.batch = s.batch /\ t.code = s.code => t.revision <= s.revision
  BY DEF CurrentSensors, IsCurrentRevision
<1>2. DOMAIN measurements \subseteq MeasurementKey /\ DOMAIN findings \subseteq FindingKey
  BY DEF TypeOK
<1>3. QED
  BY <1>1, <1>2, SensorType DEF Registered

\* Complete coverage means every point was measured in some revision.
CoveredIsReady ==
  \A b \in Batches :
    TypeOK /\ Complete(b) /\ OpenFindings(b) = {} => ReviewReady(b)

\* Evidence is measured by the revision itself or by an earlier one.
LEMMA CompleteIsMeasured == CoveredIsReady
<1> SUFFICES ASSUME NEW b \in Batches, TypeOK, Complete(b), OpenFindings(b) = {},
                    NEW s \in CurrentSensors(b), NEW p \in profile[b]
             PROVE  \E r \in 1 .. s.revision : Measured(s, r, p)
  BY DEF CoveredIsReady, ReviewReady
<1>1. s \in SensorRevision /\ p \in Points /\ s.revision \in Nat /\ s.revision >= 1
  BY CurrentSensorType DEF TypeOK, SensorRevision, Revisions
<1>2. EffectiveEvidence(s, p) # 0
  BY DEF Complete
<1>3. CASE Key(s, p) \in DOMAIN measurements
  <2>1. Measured(s, s.revision, p)
    BY <1>1, <1>3, KeyOfRevision DEF Measured, Key
  <2>2. QED
    BY <1>1, <2>1
<1>4. CASE Key(s, p) \notin DOMAIN measurements
  <2>1. PreviousEvidence(s, p) # 0
    BY <1>2, <1>4 DEF EffectiveEvidence
  <2>2. PreviousEvidence(s, p) \in EarlierEvidence(s, p)
    BY <1>1, <2>1, PreviousEvidenceType
  <2>3. QED
    BY <1>1, <2>2 DEF EarlierEvidence, Measured, Revisions
<1>5. QED
  BY <1>3, <1>4

\* A batch whose sensors, profile and findings a step leaves alone stays ready.
LEMMA ReadyFrame ==
  ASSUME NEW b \in Batches, ReviewReady(b),
         profile'[b] = profile[b], CurrentSensors(b)' = CurrentSensors(b),
         DOMAIN measurements \subseteq DOMAIN measurements',
         OpenFindings(b)' \subseteq OpenFindings(b)
  PROVE  ReviewReady(b)'
BY DEF ReviewReady, Measured

\* Registering further revisions disturbs neither findings nor evidence.
LEMMA EvidenceFrame ==
  ASSUME Registered, FindingsFollowEvidence, FailureLeavesFinding,
         DOMAIN sensors \subseteq DOMAIN sensors',
         UNCHANGED <<measurements, findings>>
  PROVE  Registered' /\ FindingsFollowEvidence' /\ FailureLeavesFinding'
<1>1. Registered' /\ FailureLeavesFinding'
  BY DEF Registered, FailureLeavesFinding
<1>2. FindingsFollowEvidence'
  BY DEF FindingsFollowEvidence, FollowsEvidence, Passes, Measured
<1>3. QED
  BY <1>1, <1>2

\* No evidence, no finding and no review at the start.
LEMMA EvidenceInit == Init => EvidenceInv
<1> SUFFICES ASSUME Init PROVE EvidenceInv
  OBVIOUS
<1>1. DOMAIN measurements = {} /\ DOMAIN findings = {}
  BY DEF Init
<1>2. \A b \in Batches : ~ InReview(b)
  BY DEF Init, InReview
<1>3. QED
  BY <1>1, <1>2 DEF EvidenceInv, Registered, FindingsFollowEvidence,
     FailureLeavesFinding, ReviewedIsReady

\* Commands that touch no sensor, measurement, finding or profile: only the
\* status of their batch can matter.
LEMMA EvidenceStatusOnly ==
  ASSUME TypeOK, EvidenceInv, NEW b \in Batches,
         UNCHANGED <<profile, sensors, measurements, findings>>,
         \A o \in Batches : InReview(o)' => InReview(o) \/ ReviewReady(o)
  PROVE  EvidenceInv'
<1>1. Registered' /\ FindingsFollowEvidence' /\ FailureLeavesFinding'
  BY EvidenceFrame DEF EvidenceInv
<1>2. ASSUME NEW o \in Batches, InReview(o)' PROVE ReviewReady(o)'
  <2>1. ReviewReady(o)
    BY <1>2 DEF EvidenceInv, ReviewedIsReady
  <2>2. /\ CurrentSensors(o)' = CurrentSensors(o)
        /\ OpenFindings(o)' = OpenFindings(o)
    BY DEF CurrentSensors, IsCurrentRevision, OpenFindings, BatchFindings
  <2>3. QED
    BY <2>1, <2>2, ReadyFrame
<1>3. QED
  BY <1>1, <1>2 DEF EvidenceInv, ReviewedIsReady

\* Creating a batch leaves the evidence alone.
LEMMA CreateBatchEvidence ==
  ASSUME TypeOK, EvidenceInv, NEW b \in Batches, CreateBatch(b)
  PROVE  EvidenceInv'
<1>1. \A o \in Batches : InReview(o)' => InReview(o)
  BY DEF CreateBatch, InReview, TypeOK
<1>2. QED
  BY <1>1, EvidenceStatusOnly DEF CreateBatch

\* What is approved was in review.
LEMMA ApproveReviewEvidence ==
  ASSUME TypeOK, EvidenceInv, NEW b \in Batches, NEW actor \in Actors,
         ApproveReview(b, actor)
  PROVE  EvidenceInv'
<1>1. \A o \in Batches : InReview(o)' => InReview(o)
  BY DEF ApproveReview, Freeze, MoveTo, InReview, TypeOK
<1>2. QED
  BY <1>1, EvidenceStatusOnly DEF ApproveReview

\* What is resubmitted is complete and has no open finding.
LEMMA ResubmitReviewEvidence ==
  ASSUME TypeOK, EvidenceInv, NEW b \in Batches, NEW actor \in Actors,
         ResubmitReview(b, actor)
  PROVE  EvidenceInv'
<1>1. ReviewReady(b)
  BY CompleteIsMeasured DEF CoveredIsReady, ResubmitReview, Unblocked
<1>2. \A o \in Batches : InReview(o)' => InReview(o) \/ o = b
  BY DEF ResubmitReview, MoveTo, InReview, TypeOK
<1>3. QED
  BY <1>1, <1>2, EvidenceStatusOnly DEF ResubmitReview

\* What is released was in review.
LEMMA IssueEvidence ==
  ASSUME TypeOK, EvidenceInv, NEW b \in Batches, Issue(b)
  PROVE  EvidenceInv'
<1>1. \A o \in Batches : InReview(o)' => InReview(o)
  BY DEF Issue, MoveTo, InReview, TypeOK
<1>2. QED
  BY <1>1, EvidenceStatusOnly DEF Issue

\* A step that leaves b out of review, and every other batch as it was, keeps
\* the batches in review ready.
LEMMA ReviewedElsewhere ==
  ASSUME ReviewedIsReady, NEW b \in Batches, ~ InReview(b)',
         \A o \in Batches \ {b} :
           /\ InReview(o)' => InReview(o)
           /\ profile'[o] = profile[o]
           /\ CurrentSensors(o)' = CurrentSensors(o)
           /\ OpenFindings(o)' \subseteq OpenFindings(o),
         DOMAIN measurements \subseteq DOMAIN measurements'
  PROVE  ReviewedIsReady'
<1> SUFFICES ASSUME NEW o \in Batches, InReview(o)' PROVE ReviewReady(o)'
  BY DEF ReviewedIsReady
<1>1. o \in Batches \ {b}
  OBVIOUS
<1>2. ReviewReady(o)
  BY <1>1 DEF ReviewedIsReady
<1>3. QED
  BY <1>1, <1>2, ReadyFrame

\* Sensors are registered in drafts, which are not in review.
LEMMA RegisterSensorEvidence ==
  ASSUME TypeOK, EvidenceInv, NEW b \in Batches, NEW c \in Codes,
         NEW range \in Ranges, RegisterSensor(b, c, range)
  PROVE  EvidenceInv'
<1> DEFINE new == [batch |-> b, code |-> c, revision |-> 1]
<1>1. DOMAIN sensors' = DOMAIN sensors \cup {new}
  BY DEF RegisterSensor
<1>2. Registered' /\ FindingsFollowEvidence' /\ FailureLeavesFinding'
  BY <1>1, EvidenceFrame DEF EvidenceInv, RegisterSensor
<1>3. ASSUME NEW o \in Batches \ {b}
      PROVE  /\ CurrentSensors(o)' = CurrentSensors(o)
             /\ OpenFindings(o)' = OpenFindings(o)
  BY <1>1 DEF CurrentSensors, IsCurrentRevision, OpenFindings, BatchFindings,
     RegisterSensor
<1>4. ReviewedIsReady'
  BY <1>3, ReviewedElsewhere DEF EvidenceInv, RegisterSensor, InReview
<1>5. QED
  BY <1>2, <1>4 DEF EvidenceInv

\* The profile is locked in a draft, which is not in review.
LEMMA LockProfileEvidence ==
  ASSUME TypeOK, EvidenceInv, NEW b \in Batches, NEW points \in SUBSET Points,
         LockProfile(b, points)
  PROVE  EvidenceInv'
<1>1. Registered' /\ FindingsFollowEvidence' /\ FailureLeavesFinding'
  BY EvidenceFrame DEF EvidenceInv, LockProfile
<1>2. /\ ~ InReview(b)'
      /\ \A o \in Batches \ {b} : status'[o] = status[o] /\ profile'[o] = profile[o]
  BY DEF LockProfile, MoveTo, InReview, TypeOK
<1>3. ASSUME NEW o \in Batches
      PROVE  /\ CurrentSensors(o)' = CurrentSensors(o)
             /\ OpenFindings(o)' = OpenFindings(o)
  BY DEF CurrentSensors, IsCurrentRevision, OpenFindings, BatchFindings, LockProfile
<1>4. ReviewedIsReady'
  BY <1>2, <1>3, ReviewedElsewhere DEF EvidenceInv, LockProfile, InReview
<1>5. QED
  BY <1>1, <1>4 DEF EvidenceInv

\* A new revision has neither measurements nor findings.
LEMMA RecalibrateEvidence ==
  ASSUME TypeOK, EvidenceInv, NEW b \in Batches, NEW s \in CurrentSensors(b),
         Recalibrate(s)
  PROVE  EvidenceInv'
<1> DEFINE new == [s EXCEPT !.revision = @ + 1]
<1>1. s \in SensorRevision /\ s.batch = b
  BY CurrentSensorType
<1>2. new.batch = b
  BY <1>1 DEF SensorRevision
<1>3. DOMAIN sensors' = DOMAIN sensors \cup {new}
  BY DEF Recalibrate
<1>4. Registered' /\ FindingsFollowEvidence' /\ FailureLeavesFinding'
  BY <1>3, EvidenceFrame DEF EvidenceInv, Recalibrate
<1>5. ASSUME NEW o \in Batches \ {b}
      PROVE  /\ CurrentSensors(o)' = CurrentSensors(o)
             /\ OpenFindings(o)' = OpenFindings(o)
  BY <1>2, <1>3 DEF CurrentSensors, IsCurrentRevision, OpenFindings, BatchFindings,
     Recalibrate
<1>6. /\ ~ InReview(b)'
      /\ \A o \in Batches \ {b} : status'[o] = status[o]
  <2>1. CASE status[b] = "returned"
    BY <1>1, <2>1 DEF Recalibrate, InReview
  <2>2. CASE status[b] # "returned"
    <3>1. MoveTo(b, "sampling")
      BY <1>1, <2>2 DEF Recalibrate
    <3>2. QED
      BY <3>1 DEF MoveTo, InReview, TypeOK
  <2>3. QED
    BY <2>1, <2>2
<1>7. ReviewedIsReady'
  BY <1>5, <1>6, ReviewedElsewhere DEF EvidenceInv, Recalibrate, InReview
<1>8. QED
  BY <1>4, <1>7 DEF EvidenceInv

\* A correction is about a current revision, which no later one has passed.
LEMMA ReturnReviewEvidence ==
  ASSUME TypeOK, EvidenceInv, NEW b \in Batches, NEW actor \in Actors,
         NEW corrections \in SUBSET Corrections(b),
         ReturnReview(b, actor, corrections)
  PROVE  EvidenceInv'
<1>1. findings' = [f \in DOMAIN findings \cup corrections |->
                     IF f \in corrections THEN 0 ELSE findings[f]]
  BY DEF ReturnReview
<1>2. ASSUME NEW f \in corrections
      PROVE  /\ f \in FindingKey /\ f.batch = b
             /\ Sensor(f) \in CurrentSensors(b)
  <2>1. /\ f \in FindingKey /\ f.batch = b
        /\ \E s \in CurrentSensors(b) : f.code = s.code /\ f.revision = s.revision
    BY CorrectionsAreFindings
  <2>2. PICK s \in CurrentSensors(b) : f.code = s.code /\ f.revision = s.revision
    BY <2>1
  <2>3. s \in SensorRevision /\ s.batch = b
    BY CurrentSensorType
  <2>4. Sensor(f) = s
    BY <2>1, <2>2, <2>3 DEF Sensor, SensorRevision
  <2>5. QED
    BY <2>1, <2>4
<1>3. Registered'
  <2>1. \A f \in corrections : Sensor(f) \in DOMAIN sensors
    BY <1>2, CurrentSensorType
  <2>2. QED
    BY <1>1, <2>1 DEF EvidenceInv, Registered, ReturnReview
<1>4. FindingsFollowEvidence'
  <2> SUFFICES ASSUME NEW f \in DOMAIN findings'
               PROVE  FollowsEvidence(f)'
    BY DEF FindingsFollowEvidence
  <2>1. CASE f \in corrections
    <3>1. findings'[f] = 0
      BY <1>1, <2>1
    <3>2. ASSUME NEW r \in f.revision + 1 .. MaxRevision, Measured(Sensor(f), r, f.point)
          PROVE  FALSE
      <4>1. Sensor(f) \in CurrentSensors(b) /\ f \in FindingKey
        BY <1>2, <2>1
      <4>2. /\ Sensor(f) \in SensorRevision /\ Sensor(f).revision = f.revision
            /\ f.revision \in Nat
        BY <4>1, SensorType DEF Revisions
      <4> DEFINE k == [batch |-> Sensor(f).batch, code |-> Sensor(f).code,
                       revision |-> r, point |-> f.point]
      <4>3. k \in DOMAIN measurements
        BY <3>2, <4>2, KeyOfRevision DEF Measured
      <4>4. r <= f.revision
        BY <4>1, <4>2, <4>3, CurrentIsLast DEF EvidenceInv
      <4>5. QED
        BY <4>2, <4>4
    <3>3. QED
      BY <3>1, <3>2 DEF FollowsEvidence, Passes, ReturnReview, Measured
  <2>2. CASE f \notin corrections
    <3>1. f \in DOMAIN findings /\ findings'[f] = findings[f]
      BY <1>1, <2>2
    <3>2. QED
      BY <3>1 DEF EvidenceInv, FindingsFollowEvidence, FollowsEvidence, Passes, Measured,
         ReturnReview
  <2>3. QED
    BY <2>1, <2>2
<1>5. FailureLeavesFinding'
  BY <1>1 DEF EvidenceInv, FailureLeavesFinding, ReturnReview
<1>6. ASSUME NEW o \in Batches \ {b}
      PROVE  /\ CurrentSensors(o)' = CurrentSensors(o)
             /\ OpenFindings(o)' = OpenFindings(o)
  BY <1>1, <1>2 DEF CurrentSensors, IsCurrentRevision, OpenFindings, BatchFindings,
     ReturnReview
<1>7. /\ ~ InReview(b)'
      /\ \A o \in Batches \ {b} : status'[o] = status[o]
  BY DEF ReturnReview, MoveTo, InReview, TypeOK
<1>8. ReviewedIsReady'
  BY <1>6, <1>7, ReviewedElsewhere DEF EvidenceInv, ReturnReview, InReview
<1>9. QED
  BY <1>3, <1>4, <1>5, <1>8 DEF EvidenceInv

\* A submission closes what it passed, leaves a finding where it failed, and puts a
\* batch into review only complete and without open findings.
LEMMA SubmitMeasurementsEvidence ==
  ASSUME TypeOK, TypeOK', EvidenceInv, NEW b \in Batches, NEW s \in CurrentSensors(b),
         NEW drafts \in Judgements(b), NEW actor \in Actors,
         SubmitMeasurements(s, drafts, actor)
  PROVE  EvidenceInv'
<1> DEFINE keys == {Key(s, p) : p \in DOMAIN drafts}
           raised == AutomaticFindings(s, drafts)
           cleared == ClearedFindings(s, drafts)
           at(f, r) == [batch |-> f.batch, code |-> f.code, revision |-> r,
                        point |-> f.point]
<1>1. /\ s \in SensorRevision /\ s \in DOMAIN sensors /\ s.batch = b
      /\ s.revision \in Revisions
  BY CurrentSensorType DEF SensorRevision
<1>2. DOMAIN drafts \in SUBSET Points /\ drafts \in [DOMAIN drafts -> SUBSET Kinds]
  BY JudgementType DEF TypeOK
<1>3. /\ keys \cap DOMAIN measurements = {}
      /\ measurements' = [k \in DOMAIN measurements \cup keys |->
            IF k \in keys THEN [drafts |-> drafts[k.point],
                                extent |-> sensors[s], capturedBy |-> actor]
                          ELSE measurements[k]]
  BY DEF SubmitMeasurements, PutMeasurements, NotYetMeasured
<1>4. \A k \in keys : /\ k \in MeasurementKey /\ Sensor(k) = s
                      /\ k.batch = s.batch /\ k.code = s.code
                      /\ k.revision = s.revision /\ k.point \in DOMAIN drafts
  BY <1>1, <1>2 DEF Key, Sensor, SensorRevision, MeasurementKey
<1>5. findings' = [f \in DOMAIN findings \cup raised |->
                     IF f \in raised THEN 0
                     ELSE IF f \in cleared THEN s.revision ELSE findings[f]]
  BY DEF SubmitMeasurements, ReplaceAutomaticFindings
<1>6. \A f \in raised : /\ f \in FindingKey /\ Sensor(f) = s
                        /\ f.batch = s.batch /\ f.code = s.code
                        /\ f.revision = s.revision /\ f.point \in DOMAIN drafts
  BY <1>1, <1>2, AutomaticFindingsType DEF Sensor, SensorRevision
<1>7. \A f \in FindingKey : \A r :
        Measured(Sensor(f), r, f.point) <=> at(f, r) \in DOMAIN measurements
  BY SensorType, KeyOfRevision DEF Measured
<1>8. \A f \in FindingKey : \A r :
        /\ Passes(Sensor(f), r, f.point) <=>
             at(f, r) \in DOMAIN measurements /\ measurements[at(f, r)].drafts = {}
        /\ Passes(Sensor(f), r, f.point)' <=>
             at(f, r) \in DOMAIN measurements' /\ measurements'[at(f, r)].drafts = {}
  BY SensorType, KeyOfRevision DEF Measured, Passes
<1>9. Registered'
  BY <1>1, <1>3, <1>4, <1>5, <1>6 DEF EvidenceInv, Registered, SubmitMeasurements
<1>10. FindingsFollowEvidence'
  <2> SUFFICES ASSUME NEW f \in DOMAIN findings' PROVE FollowsEvidence(f)'
    BY DEF FindingsFollowEvidence
  <2>1. f \in FindingKey /\ f.revision \in Revisions
    BY SensorType DEF TypeOK
  \* What the step changes about the evidence at the point of f.
  <2>2. ASSUME NEW r, at(f, r) \notin keys
        PROVE  Passes(Sensor(f), r, f.point)' <=> Passes(Sensor(f), r, f.point)
    BY <1>3, <1>8, <2>1, <2>2
  <2>3. ASSUME NEW r, at(f, r) \in keys
        PROVE  /\ r = s.revision /\ f.batch = s.batch /\ f.code = s.code
               /\ f.point \in DOMAIN drafts
               /\ Passes(Sensor(f), r, f.point)' <=> drafts[f.point] = {}
               /\ ~ Passes(Sensor(f), r, f.point)
    BY <1>3, <1>4, <1>8, <2>1, <2>3
  <2>4. CASE f \in raised
    <3>1. findings'[f] = 0
      BY <1>5, <2>4
    <3>2. ASSUME NEW r \in f.revision + 1 .. MaxRevision
          PROVE  ~ Passes(Sensor(f), r, f.point)'
      <4>1. r > s.revision /\ f.revision = s.revision
        BY <1>1, <1>6, <2>4 DEF Revisions
      <4>2. at(f, r) \notin keys
        BY <1>1, <4>1, <2>3 DEF Revisions
      <4>3. at(f, r) \notin DOMAIN measurements
        BY <1>1, <1>6, <2>4, <4>1, CurrentIsLast DEF EvidenceInv, Revisions
      <4>4. QED
        BY <1>8, <2>1, <2>2, <4>2, <4>3
    <3>3. QED
      BY <3>1, <3>2 DEF FollowsEvidence
  <2>5. CASE f \notin raised /\ f \in cleared
    <3>1. /\ findings'[f] = s.revision /\ findings[f] = 0
          /\ f.revision < s.revision
          /\ f.batch = s.batch /\ f.code = s.code
          /\ f.point \in DOMAIN drafts /\ drafts[f.point] = {}
      BY <1>5, <2>5 DEF ClearedFindings, OpenFindings, BatchFindings
    <3>2. at(f, s.revision) \in keys
      BY <3>1 DEF Key
    <3>3. Passes(Sensor(f), s.revision, f.point)'
      BY <2>3, <3>1, <3>2
    <3>4. f \in DOMAIN findings
      BY <2>5 DEF ClearedFindings, OpenFindings, BatchFindings
    <3>5. FollowsEvidence(f)
      BY <3>4 DEF EvidenceInv, FindingsFollowEvidence
    <3>6. ASSUME NEW r \in f.revision + 1 .. s.revision - 1
          PROVE  ~ Passes(Sensor(f), r, f.point)'
      <4>1. r # s.revision /\ r \in f.revision + 1 .. MaxRevision
        BY <1>1, <2>1, RevisionAssumption DEF Revisions
      <4>2. at(f, r) \notin keys
        BY <2>3, <4>1
      <4>3. ~ Passes(Sensor(f), r, f.point)
        BY <2>1, <3>1, <3>5, <4>1 DEF FollowsEvidence, Revisions
      <4>4. QED
        BY <2>2, <4>2, <4>3
    <3>7. s.revision \in f.revision + 1 .. MaxRevision
      BY <1>1, <2>1, <3>1, RevisionAssumption DEF Revisions
    <3>8. QED
      BY <3>1, <3>3, <3>6, <3>7 DEF FollowsEvidence
  <2>6. CASE f \notin raised /\ f \notin cleared
    <3>1. f \in DOMAIN findings /\ findings'[f] = findings[f]
      BY <1>5, <2>6
    <3>2. FollowsEvidence(f)
      BY <3>1 DEF EvidenceInv, FindingsFollowEvidence
    <3>3. CASE findings[f] = 0
      <4>1. ASSUME NEW r \in f.revision + 1 .. MaxRevision
            PROVE  ~ Passes(Sensor(f), r, f.point)'
        <5>1. ~ Passes(Sensor(f), r, f.point)
          BY <2>1, <3>2, <3>3 DEF FollowsEvidence, Revisions
        <5>2. CASE at(f, r) \in keys
          <6>1. f \in OpenFindings(s.batch) /\ f.revision < s.revision
            BY <1>1, <2>1, <2>3, <3>1, <3>3, <5>2
               DEF OpenFindings, BatchFindings, Revisions
          <6>2. drafts[f.point] # {}
            BY <2>3, <2>6, <5>2, <6>1 DEF ClearedFindings
          <6>3. QED
            BY <2>3, <5>2, <6>2
        <5>3. QED
          BY <2>2, <5>1, <5>2
      <4>2. QED
        BY <3>1, <3>3, <4>1 DEF FollowsEvidence
    <3>4. CASE findings[f] # 0
      <4>1. /\ findings[f] \in f.revision + 1 .. MaxRevision
            /\ Passes(Sensor(f), findings[f], f.point)
            /\ \A r \in f.revision + 1 .. findings[f] - 1 :
                 ~ Passes(Sensor(f), r, f.point)
        BY <3>2, <3>4 DEF FollowsEvidence
      <4>2. at(f, findings[f]) \in DOMAIN measurements
        BY <1>8, <2>1, <4>1
      <4>3. Passes(Sensor(f), findings[f], f.point)'
        <5>1. at(f, findings[f]) \notin keys
          BY <1>3, <4>2
        <5>2. PICK r : r = findings[f]
          OBVIOUS
        <5>3. Passes(Sensor(f), r, f.point)'
          BY <2>2, <4>1, <5>1, <5>2
        <5>4. QED
          BY <3>1, <5>2, <5>3
      <4>4. ASSUME NEW r \in f.revision + 1 .. findings[f] - 1
            PROVE  ~ Passes(Sensor(f), r, f.point)'
        <5>1. at(f, r) \notin keys
          <6>1. SUFFICES ASSUME at(f, r) \in keys PROVE FALSE
            OBVIOUS
          <6>2. r = s.revision /\ f.batch = s.batch /\ f.code = s.code
            BY <2>3, <6>1
          <6>3. findings[f] <= s.revision
            BY <4>2, <6>2, CurrentIsLast DEF EvidenceInv
          <6>4. r < findings[f] /\ r \in Nat /\ findings[f] \in Nat
            BY <2>1, <4>1 DEF Revisions
          <6>5. QED
            BY <1>1, <6>2, <6>3, <6>4 DEF Revisions
        <5>2. QED
          BY <2>2, <4>1, <5>1
      <4>5. QED
        BY <3>1, <4>1, <4>3, <4>4 DEF FollowsEvidence
    <3>5. QED
      BY <3>3, <3>4
  <2>7. QED
    BY <2>4, <2>5, <2>6
<1>11. FailureLeavesFinding'
  <2> SUFFICES ASSUME NEW k \in DOMAIN measurements', measurements'[k].drafts # {}
               PROVE  \E f \in DOMAIN findings' : Sensor(f) = Sensor(k) /\ f.point = k.point
    BY DEF FailureLeavesFinding
  <2>1. CASE k \in keys
    <3>1. PICK d \in drafts[k.point] : TRUE
      BY <1>3, <2>1
    <3> DEFINE f == [batch |-> s.batch, code |-> s.code, revision |-> s.revision,
                     point |-> k.point, kind |-> d, origin |-> "automatic"]
    <3>2. f \in raised
      BY <1>4, <2>1, <3>1 DEF AutomaticFindings
    <3>3. Sensor(f) = Sensor(k) /\ f.point = k.point
      BY <1>4, <1>6, <2>1, <3>2
    <3>4. QED
      BY <1>5, <3>2, <3>3
  <2>2. CASE k \notin keys
    BY <1>3, <1>5, <2>2 DEF EvidenceInv, FailureLeavesFinding
  <2>3. QED
    BY <2>1, <2>2
<1>12. ReviewedIsReady'
  <2>1. ASSUME NEW o \in Batches \ {b}, InReview(o)' PROVE ReviewReady(o)'
    <3>1. status'[o] = status[o]
      BY <1>1, <2>1 DEF SubmitMeasurements, SetEvaluationStatus, TypeOK
    <3>2. ReviewReady(o)
      BY <2>1, <3>1 DEF EvidenceInv, ReviewedIsReady, InReview
    <3>3. CurrentSensors(o)' = CurrentSensors(o)
      BY DEF CurrentSensors, IsCurrentRevision, SubmitMeasurements
    <3>4. OpenFindings(o)' = OpenFindings(o)
      BY <1>1, <1>5, <1>6 DEF OpenFindings, BatchFindings, ClearedFindings
    <3>5. DOMAIN measurements \subseteq DOMAIN measurements'
      BY <1>3
    <3>6. QED
      BY <3>2, <3>3, <3>4, <3>5, ReadyFrame DEF SubmitMeasurements
  <2>2. ASSUME InReview(b)' PROVE ReviewReady(b)'
    <3>1. status'[b] = "ready_review" /\ status'[b] = EvaluatedStatus(Complete(b)', OpenFindings(b)')
      BY <1>1, <2>2 DEF SubmitMeasurements, SetEvaluationStatus, EvaluatedStatus,
         InReview, TypeOK
    <3>2. Complete(b)' /\ OpenFindings(b)' = {}
      BY <3>1 DEF EvaluatedStatus
    <3>3. CoveredIsReady'
      BY CompleteIsMeasured, PTL
    <3>4. QED
      BY <3>2, <3>3 DEF CoveredIsReady
  <2>3. QED
    BY <2>1, <2>2 DEF ReviewedIsReady
<1>13. QED
  BY <1>9, <1>10, <1>11, <1>12 DEF EvidenceInv

\* EvidenceInv is inductive together with TypeOK.
LEMMA EvidenceNext == TypeOK /\ TypeOK' /\ EvidenceInv /\ [Next]_vars => EvidenceInv'
<1> SUFFICES ASSUME TypeOK, TypeOK', EvidenceInv, [Next]_vars PROVE EvidenceInv'
  OBVIOUS
<1>1. CASE UNCHANGED vars
  <2>1. /\ UNCHANGED <<profile, sensors, measurements, findings>>
        /\ \A o \in Batches : InReview(o)' => InReview(o)
    BY <1>1 DEF vars, batchVars, InReview
  <2>2. CASE Batches = {}
    BY <2>1, <2>2, EvidenceFrame DEF EvidenceInv, ReviewedIsReady
  <2>3. CASE Batches # {}
    BY <2>1, <2>3, EvidenceStatusOnly
  <2>4. QED
    BY <2>2, <2>3
<1>2. ASSUME NEW b \in Batches, BatchNext(b) PROVE EvidenceInv'
  BY <1>2, CreateBatchEvidence, RegisterSensorEvidence, LockProfileEvidence,
     SubmitMeasurementsEvidence, RecalibrateEvidence, ApproveReviewEvidence,
     ReturnReviewEvidence, ResubmitReviewEvidence, IssueEvidence DEF BatchNext
<1>3. QED
  BY <1>1, <1>2 DEF Next

\* A finding is open exactly as long as no later revision of its sensor has
\* passed at its point, and names the first that did.
THEOREM FindingsCorrect == Spec => []FindingsFollowEvidence
<1>1. EvidenceInv => FindingsFollowEvidence
  BY DEF EvidenceInv
<1>2. QED
  BY <1>1, TypeInit, TypeNext, EvidenceInit, EvidenceNext, PTL DEF Spec

\* A failing last measurement would leave a finding that nothing has closed.
LEMMA EvidenceImpliesSound == TypeOK /\ EvidenceInv => EvidenceSound
<1> SUFFICES ASSUME TypeOK, EvidenceInv, NEW b \in Batches, InReview(b)
             PROVE  /\ OpenFindings(b) = {}
                    /\ \A s \in CurrentSensors(b), p \in profile[b] :
                         \E r \in 1 .. s.revision :
                           /\ Passes(s, r, p)
                           /\ \A q \in r + 1 .. s.revision : ~Measured(s, q, p)
  BY DEF EvidenceSound, InReview
<1>1. ReviewReady(b)
  BY DEF EvidenceInv, ReviewedIsReady
<1>2. ASSUME NEW s \in CurrentSensors(b), NEW p \in profile[b]
      PROVE  \E r \in 1 .. s.revision :
               Passes(s, r, p) /\ \A q \in r + 1 .. s.revision : ~Measured(s, q, p)
  <2> DEFINE R == {r \in 1 .. s.revision : Measured(s, r, p)}
             m == Max(R)
             k == [batch |-> s.batch, code |-> s.code, revision |-> m, point |-> p]
  <2>1. /\ s \in SensorRevision /\ s.batch = b /\ s.revision \in Revisions
        /\ s.revision <= MaxRevision
    BY CurrentSensorType DEF SensorRevision, Revisions
  <2>2. R \in SUBSET Revisions /\ R # {}
    <3>1. PICK r \in 1 .. s.revision : Measured(s, r, p)
      BY <1>1 DEF ReviewReady
    <3>2. r \in R
      BY <3>1
    <3>3. R \subseteq 1 .. s.revision
      OBVIOUS
    <3>4. 1 .. s.revision \subseteq Revisions
      BY <2>1, RevisionAssumption DEF Revisions
    <3>5. QED
      BY <3>2, <3>3, <3>4
  <2>3. m \in R /\ \A r \in R : r <= m
    BY <2>2, MaxInSet
  <2>4. k \in DOMAIN measurements
    BY <2>1, <2>3, KeyOfRevision DEF Measured
  <2>5. measurements[k].drafts = {}
    <3>1. SUFFICES ASSUME measurements[k].drafts # {} PROVE FALSE
      OBVIOUS
    <3>2. PICK f \in DOMAIN findings : Sensor(f) = Sensor(k) /\ f.point = k.point
      BY <2>4, <3>1 DEF EvidenceInv, FailureLeavesFinding
    <3>3. /\ f \in FindingKey /\ f.batch = s.batch /\ f.code = s.code
          /\ f.revision = m /\ f.point = p
      BY <2>4, <3>2, SensorType DEF TypeOK
    <3>4. findings[f] # 0
      BY <1>1, <2>1, <3>2, <3>3 DEF ReviewReady, OpenFindings, BatchFindings
    <3>5. /\ findings[f] \in m + 1 .. MaxRevision
          /\ Measured(Sensor(f), findings[f], p)
      BY <3>2, <3>3, <3>4 DEF EvidenceInv, FindingsFollowEvidence, FollowsEvidence, Passes
    <3> DEFINE later == [batch |-> s.batch, code |-> s.code,
                         revision |-> findings[f], point |-> p]
    <3>6. later \in DOMAIN measurements
      BY <3>3, <3>5, SensorType, KeyOfRevision DEF Measured
    <3>7. findings[f] <= s.revision
      BY <3>6, CurrentIsLast DEF EvidenceInv
    <3>8. findings[f] \in R
      BY <2>1, <2>3, <3>5, <3>6, <3>7, KeyOfRevision DEF Measured, Revisions
    <3>9. QED
      BY <2>2, <2>3, <3>5, <3>8 DEF Revisions
  <2>6. Passes(s, m, p)
    BY <2>1, <2>3, <2>5, KeyOfRevision DEF Passes
  <2>7. \A q \in m + 1 .. s.revision : ~Measured(s, q, p)
    BY <2>1, <2>2, <2>3 DEF Revisions
  <2>8. QED
    BY <2>3, <2>6, <2>7
<1>3. QED
  BY <1>1, <1>2 DEF ReviewReady

\* A batch in review, frozen or released has no open finding, and the last
\* measurement of every point of every sensor passed.
THEOREM ReleasedEvidenceSound == Spec => []EvidenceSound
BY TypeInit, TypeNext, EvidenceInit, EvidenceNext, EvidenceImpliesSound, PTL DEF Spec

=============================================================================
