---------------------------- MODULE ReleaseProofs ----------------------------
(***************************************************************************)
(* Proofs about a batch as a whole: who took part in it, commands keep to  *)
(* the batch they name, history is only added to, what is approved is what *)
(* is released; and the cross-references of a projection: the evidence a   *)
(* revision inherits, the recalibration tasks, and the check Store.Commit  *)
(* runs on what a command has built.                                       *)
(***************************************************************************)
EXTENDS CalibrationProofs

-----------------------------------------------------------------------------
(* Who took the readings of a batch, and who approved it. *)

\* Everyone whose readings are kept is remembered as a sampler of the batch.
SubmittersAreSamplers ==
  \A k \in DOMAIN measurements : measurements[k].capturedBy \in sampledBy[k.batch]

Approved(b) == status[b] \in {"frozen", "released"}

ApproverDidNotSample ==
  \A b \in Batches : Approved(b) => reviewedBy[b] \notin sampledBy[b]

\* Inductive together with TypeOK.  SeparationOfDuties is not: without
\* sampledBy nothing ties the check Freeze makes to the readings stored before.
DutiesInv == SubmittersAreSamplers /\ ApproverDidNotSample

\* Nobody has taken part in anything at the start.
LEMMA DutiesInit == Init => DutiesInv
BY DEF Init, DutiesInv, SubmittersAreSamplers, ApproverDidNotSample, Approved

\* Steps that store no readings and approve nothing.
LEMMA DutiesFrame ==
  ASSUME DutiesInv, UNCHANGED <<measurements, sampledBy, reviewedBy>>,
         \A b \in Batches : Approved(b)' => Approved(b)
  PROVE  DutiesInv'
BY DEF DutiesInv, SubmittersAreSamplers, ApproverDidNotSample

\* A move of b to a status that is neither frozen nor released approves nothing.
LEMMA StatusFrame ==
  ASSUME TypeOK, NEW b \in Batches, NEW next,
         status' = [status EXCEPT ![b] = next],
         next \in {"frozen", "released"} => Approved(b)
  PROVE  \A o \in Batches : Approved(o)' => Approved(o)
BY DEF TypeOK, Approved

\* Freeze turns away everybody who is recorded as a sampler.
LEMMA ApproveReviewDuties ==
  ASSUME TypeOK, DutiesInv, NEW b \in Batches, NEW reviewer \in Actors,
         ApproveReview(b, reviewer)
  PROVE  DutiesInv'
<1>1. /\ UNCHANGED <<measurements, sampledBy>>
      /\ reviewer \notin sampledBy[b]
      /\ reviewedBy' = [reviewedBy EXCEPT ![b] = reviewer]
      /\ status' = [status EXCEPT ![b] = "frozen"]
  BY DEF ApproveReview, Freeze, HasSampler, MoveTo
<1>2. SubmittersAreSamplers'
  BY <1>1 DEF DutiesInv, SubmittersAreSamplers
<1>3. ApproverDidNotSample'
  BY <1>1 DEF DutiesInv, ApproverDidNotSample, Approved, TypeOK
<1>4. QED
  BY <1>2, <1>3 DEF DutiesInv

\* Whoever submits is recorded, and submits to a batch that is not approved.
LEMMA SubmitMeasurementsDuties ==
  ASSUME TypeOK, TypeOK', DutiesInv, NEW b \in Batches, NEW s \in CurrentSensors(b),
         NEW drafts \in Judgements(b), NEW actor \in Actors,
         SubmitMeasurements(s, drafts, actor)
  PROVE  DutiesInv'
<1> DEFINE keys == {Key(s, p) : p \in DOMAIN drafts}
<1>1. s.batch = b
  BY CurrentSensorType
<1>2. /\ measurements' = [k \in DOMAIN measurements \cup keys |->
            IF k \in keys THEN [drafts |-> drafts[k.point],
                                extent |-> sensors[s], capturedBy |-> actor]
                          ELSE measurements[k]]
      /\ sampledBy' = [sampledBy EXCEPT ![b] = @ \cup {actor}]
      /\ UNCHANGED reviewedBy
      /\ ~ Approved(b)
  BY <1>1 DEF SubmitMeasurements, PutMeasurements, AddSampler, Approved
<1>3. SubmittersAreSamplers'
  <2> SUFFICES ASSUME NEW k \in DOMAIN measurements'
               PROVE  measurements'[k].capturedBy \in sampledBy'[k.batch]
    BY DEF SubmittersAreSamplers
  <2>1. k.batch \in Batches
    BY DEF TypeOK, MeasurementKey
  <2>2. CASE k \in keys
    <3>1. k.batch = b
      BY <1>1, <2>2 DEF Key
    <3>2. measurements'[k].capturedBy = actor
      BY <1>2, <2>2
    <3>3. actor \in sampledBy'[b]
      BY <1>2 DEF TypeOK
    <3>4. QED
      BY <3>1, <3>2, <3>3
  <2>3. CASE k \notin keys
    BY <1>2, <2>1, <2>3 DEF DutiesInv, SubmittersAreSamplers, TypeOK
  <2>4. QED
    BY <2>2, <2>3
<1>4. ApproverDidNotSample'
  <2> DEFINE next == IF status[b] = "returned" THEN "returned"
                     ELSE EvaluatedStatus(Complete(b)', OpenFindings(b)')
  <2>1. status' = [status EXCEPT ![b] = next]
    BY <1>1 DEF SubmitMeasurements, SetEvaluationStatus
  <2>2. next \notin {"frozen", "released"}
    BY DEF EvaluatedStatus
  <2> HIDE DEF next
  <2>3. \A o \in Batches : Approved(o)' => o # b /\ Approved(o)
    BY <2>1, <2>2 DEF TypeOK, Approved
  <2>4. QED
    BY <1>2, <2>3 DEF DutiesInv, ApproverDidNotSample, TypeOK
<1>5. QED
  BY <1>3, <1>4 DEF DutiesInv

\* DutiesInv is inductive together with TypeOK.
LEMMA DutiesNext == TypeOK /\ TypeOK' /\ DutiesInv /\ [Next]_vars => DutiesInv'
<1> SUFFICES ASSUME TypeOK, TypeOK', DutiesInv, [Next]_vars PROVE DutiesInv'
  OBVIOUS
<1>1. CASE UNCHANGED vars
  BY <1>1, DutiesFrame DEF vars, batchVars, Approved
<1>2. ASSUME NEW b \in Batches, BatchNext(b) PROVE DutiesInv'
  <2>1. CASE CreateBatch(b)
    BY <2>1, DutiesFrame, StatusFrame DEF CreateBatch
  <2>2. CASE \E c \in Codes, range \in Ranges : RegisterSensor(b, c, range)
    BY <2>2, DutiesFrame DEF RegisterSensor, Approved
  <2>3. CASE \E points \in SUBSET Points : LockProfile(b, points)
    BY <2>3, DutiesFrame, StatusFrame DEF LockProfile, MoveTo
  <2>4. CASE \E s \in CurrentSensors(b), drafts \in Judgements(b), actor \in Actors :
               SubmitMeasurements(s, drafts, actor)
    BY <2>4, SubmitMeasurementsDuties
  <2>5. CASE \E s \in CurrentSensors(b) : Recalibrate(s)
    <3>1. PICK s \in CurrentSensors(b) : Recalibrate(s)
      BY <2>5
    <3>2. s.batch = b
      BY CurrentSensorType
    <3>3. /\ UNCHANGED <<measurements, sampledBy, reviewedBy>>
          /\ status' = [status EXCEPT ![b] = "sampling"] \/ UNCHANGED status
      <4>1. CASE status[b] = "returned"
        BY <3>1, <3>2, <4>1 DEF Recalibrate
      <4>2. CASE status[b] # "returned"
        <5>1. MoveTo(b, "sampling")
          BY <3>1, <3>2, <4>2 DEF Recalibrate
        <5>2. QED
          BY <3>1, <5>1 DEF Recalibrate, MoveTo
      <4>3. QED
        BY <4>1, <4>2
    <3>4. \A o \in Batches : Approved(o)' => Approved(o)
      BY <3>3, StatusFrame DEF Approved
    <3>5. QED
      BY <3>3, <3>4, DutiesFrame
  <2>6. CASE \E actor \in Actors : ApproveReview(b, actor)
    BY <2>6, ApproveReviewDuties
  <2>7. CASE \E actor \in Actors, corrections \in SUBSET Corrections(b) :
               ReturnReview(b, actor, corrections)
    BY <2>7, DutiesFrame, StatusFrame DEF ReturnReview, MoveTo
  <2>8. CASE \E actor \in Actors : ResubmitReview(b, actor)
    BY <2>8, DutiesFrame, StatusFrame DEF ResubmitReview, MoveTo
  <2>9. CASE Issue(b)
    BY <2>9, DutiesFrame, StatusFrame DEF Issue, MoveTo, Approved
  <2>10. QED
    BY <1>2, <2>1, <2>2, <2>3, <2>4, <2>5, <2>6, <2>7, <2>8, <2>9 DEF BatchNext
<1>3. QED
  BY <1>1, <1>2 DEF Next

\* Nobody approves a batch that any of its readings came from.
THEOREM DutiesSeparated == Spec => []SeparationOfDuties
<1>1. TypeOK /\ DutiesInv => SeparationOfDuties
  BY DEF DutiesInv, SubmittersAreSamplers, ApproverDidNotSample, Approved,
     SeparationOfDuties, TypeOK, MeasurementKey
<1>2. QED
  BY <1>1, TypeInit, TypeNext, DutiesInit, DutiesNext, PTL DEF Spec

-----------------------------------------------------------------------------
(* Commands keep to their batch. *)

\* The part of a map that is about batch o.
Of(o, f) == {k \in DOMAIN f : k.batch = o}

Kept(o, f, g) ==
  /\ Of(o, g) = Of(o, f)
  /\ \A k \in Of(o, f) : g[k] = f[k]

\* A step that leaves everything about batch o alone.
Untouched(o) ==
  /\ version'[o] = version[o] /\ status'[o] = status[o] /\ profile'[o] = profile[o]
  /\ sampledBy'[o] = sampledBy[o] /\ reviewedBy'[o] = reviewedBy[o]
  /\ reviews'[o] = reviews[o]
  /\ Kept(o, sensors, sensors')
  /\ Kept(o, measurements, measurements')
  /\ Kept(o, findings, findings')
  /\ Kept(o, tasks, tasks')

\* A map that is changed at keys of other batches only.
LEMMA KeptByUpdate ==
  ASSUME NEW o, NEW f, NEW g, NEW K, DOMAIN g = DOMAIN f \cup K,
         \A k \in K : k.batch # o,
         \A k \in DOMAIN f \ K : g[k] = f[k]
  PROVE  Kept(o, f, g)
BY DEF Kept, Of

\* What a command leaves alone looks the same to every reader of that batch.
LEMMA UntouchedMaterial ==
  ASSUME NEW o, Untouched(o), NEW v
  PROVE  /\ CurrentSensors(o)' = CurrentSensors(o)
         /\ OpenFindings(o)' = OpenFindings(o)
         /\ FrozenMaterial(o, v)' = FrozenMaterial(o, v)
<1>1. \A s : s \in DOMAIN sensors' /\ s.batch = o <=> s \in DOMAIN sensors /\ s.batch = o
  BY DEF Untouched, Kept, Of
<1>2. CurrentSensors(o)' = CurrentSensors(o)
  BY <1>1 DEF CurrentSensors, IsCurrentRevision
<1>3. /\ BatchFindings(o)' = BatchFindings(o)
      /\ \A f \in BatchFindings(o) : findings'[f] = findings[f]
  BY DEF Untouched, Kept, Of, BatchFindings
<1>4. OpenFindings(o)' = OpenFindings(o)
  BY <1>3 DEF OpenFindings
<1>5. /\ {m \in DOMAIN measurements' : m.batch = o} = {m \in DOMAIN measurements : m.batch = o}
      /\ \A k \in {m \in DOMAIN measurements : m.batch = o} : measurements'[k] = measurements[k]
  BY DEF Untouched, Kept, Of
<1>6. /\ {t \in DOMAIN tasks' : t.batch = o} = {t \in DOMAIN tasks : t.batch = o}
      /\ \A k \in {t \in DOMAIN tasks : t.batch = o} : tasks'[k] = tasks[k]
  BY DEF Untouched, Kept, Of
<1>7. \A s \in CurrentSensors(o) : sensors'[s] = sensors[s]
  BY DEF Untouched, Kept, Of, CurrentSensors
<1>8. /\ [s \in CurrentSensors(o)' |-> sensors'[s]] = [s \in CurrentSensors(o) |-> sensors[s]]
      /\ [f \in BatchFindings(o)' |-> findings'[f]] = [f \in BatchFindings(o) |-> findings[f]]
      /\ [k \in {m \in DOMAIN measurements' : m.batch = o} |-> measurements'[k]]
           = [k \in {m \in DOMAIN measurements : m.batch = o} |-> measurements[k]]
      /\ [k \in {t \in DOMAIN tasks' : t.batch = o} |-> tasks'[k]]
           = [k \in {t \in DOMAIN tasks : t.batch = o} |-> tasks[k]]
  BY <1>2, <1>3, <1>5, <1>6, <1>7
<1>9. FrozenMaterial(o, v)' = FrozenMaterial(o, v)
  BY <1>8 DEF FrozenMaterial, Untouched
<1>10. QED
  BY <1>2, <1>4, <1>9

\* A submission stores measurements, findings and tasks of its own batch.
LEMMA SubmitMeasurementsIsolated ==
  ASSUME TypeOK, NEW b \in Batches, NEW s \in CurrentSensors(b),
         NEW drafts \in Judgements(b), NEW actor \in Actors,
         SubmitMeasurements(s, drafts, actor), NEW o \in Batches \ {b}
  PROVE  Untouched(o)
<1> DEFINE keys == {Key(s, p) : p \in DOMAIN drafts}
           raised == AutomaticFindings(s, drafts)
           cleared == ClearedFindings(s, drafts)
<1>1. s \in SensorRevision /\ s.batch = b
  BY CurrentSensorType
<1>2. Kept(o, measurements, measurements')
  <2>1. measurements' = [k \in DOMAIN measurements \cup keys |->
          IF k \in keys THEN [drafts |-> drafts[k.point],
                              extent |-> sensors[s], capturedBy |-> actor]
                        ELSE measurements[k]]
    BY DEF SubmitMeasurements, PutMeasurements
  <2>2. \A k \in keys : k.batch # o
    BY <1>1 DEF Key
  <2> HIDE DEF keys
  <2>3. QED
    BY <2>1, <2>2, KeptByUpdate
<1>3. Kept(o, findings, findings')
  <2>1. findings' = [f \in DOMAIN findings \cup raised |->
                       IF f \in raised THEN 0
                       ELSE IF f \in cleared THEN s.revision ELSE findings[f]]
    BY DEF SubmitMeasurements, ReplaceAutomaticFindings
  <2>2. \A f \in raised : f.batch # o
    BY <1>1 DEF AutomaticFindings
  <2>3. cleared \subseteq DOMAIN findings /\ \A f \in cleared : f.batch # o
    BY <1>1 DEF ClearedFindings, OpenFindings, BatchFindings
  <2> HIDE DEF raised, cleared
  <2>4. /\ DOMAIN findings' = DOMAIN findings \cup (raised \cup cleared)
        /\ \A f \in raised \cup cleared : f.batch # o
        /\ \A f \in DOMAIN findings \ (raised \cup cleared) : findings'[f] = findings[f]
    BY <2>1, <2>2, <2>3
  <2>5. QED
    BY <2>4, KeptByUpdate
<1>4. Kept(o, tasks, tasks')
  <2>1. /\ DOMAIN tasks' = DOMAIN tasks
        /\ \A k \in DOMAIN tasks \ keys : tasks'[k] = tasks[k]
    BY DEF SubmitMeasurements, UpdateRecalibrationTask
  <2>2. \A k \in keys \cap DOMAIN tasks : k.batch # o
    BY <1>1 DEF Key
  <2> HIDE DEF keys
  <2>3. /\ DOMAIN tasks' = DOMAIN tasks \cup (keys \cap DOMAIN tasks)
        /\ \A k \in DOMAIN tasks \ (keys \cap DOMAIN tasks) : tasks'[k] = tasks[k]
    BY <2>1
  <2>4. QED
    BY <2>2, <2>3, KeptByUpdate
<1>5. version'[o] = version[o] /\ status'[o] = status[o] /\ sampledBy'[o] = sampledBy[o]
  BY <1>1 DEF SubmitMeasurements, PutMeasurements, AddSampler, SetEvaluationStatus, Touch, TypeOK
<1>6. QED
  BY <1>2, <1>3, <1>4, <1>5 DEF SubmitMeasurements, Untouched, Kept, Of

\* A recalibration adds a revision and tasks of its own batch.
LEMMA RecalibrateIsolated ==
  ASSUME TypeOK, NEW b \in Batches, NEW s \in CurrentSensors(b), Recalibrate(s),
         NEW o \in Batches \ {b}
  PROVE  Untouched(o)
<1> DEFINE new == [s EXCEPT !.revision = @ + 1]
           keys == {Key(new, p) : p \in profile[new.batch]}
<1>1. s \in SensorRevision /\ s.batch = b /\ new.batch = b
  BY CurrentSensorType DEF SensorRevision
<1>2. Kept(o, sensors, sensors')
  <2>1. sensors' = [t \in DOMAIN sensors \cup {new} |->
                      IF t = new THEN sensors[s] ELSE sensors[t]]
    BY DEF Recalibrate
  <2>2. \A k \in {new} : k.batch # o
    BY <1>1
  <2> HIDE DEF new
  <2>3. QED
    BY <2>1, <2>2, KeptByUpdate
<1>3. Kept(o, tasks, tasks')
  <2>1. tasks' = [k \in DOMAIN tasks \cup keys |->
                    IF k \in keys THEN NewTask(new, k.point) ELSE tasks[k]]
    BY DEF Recalibrate, BuildRecalibrationTasks
  <2>2. \A k \in keys : k.batch # o
    BY <1>1 DEF Key
  <2> HIDE DEF keys
  <2>3. QED
    BY <2>1, <2>2, KeptByUpdate
<1>4. version'[o] = version[o] /\ status'[o] = status[o]
  <2>1. CASE status[b] = "returned"
    BY <1>1, <2>1 DEF Recalibrate, Touch, TypeOK
  <2>2. CASE status[b] # "returned"
    <3>1. MoveTo(b, "sampling")
      BY <1>1, <2>2 DEF Recalibrate
    <3>2. QED
      BY <3>1 DEF MoveTo, Touch, TypeOK
  <2>3. QED
    BY <2>1, <2>2
<1>5. QED
  BY <1>2, <1>3, <1>4 DEF Recalibrate, Untouched, Kept, Of

\* A command leaves every batch but its own alone.
LEMMA OthersUntouched ==
  ASSUME TypeOK, NEW b \in Batches, BatchNext(b), NEW o \in Batches \ {b}
  PROVE  Untouched(o)
<1>1. CASE CreateBatch(b)
  BY <1>1 DEF CreateBatch, Untouched, Kept, Of, TypeOK
<1>2. ASSUME NEW c \in Codes, NEW range \in Ranges, RegisterSensor(b, c, range)
      PROVE  Untouched(o)
  <2> DEFINE new == [batch |-> b, code |-> c, revision |-> 1]
  <2>1. DOMAIN sensors' = DOMAIN sensors \cup {new}
    BY <1>2 DEF RegisterSensor
  <2>2. \A k \in DOMAIN sensors \ {new} : sensors'[k] = sensors[k]
    BY <1>2 DEF RegisterSensor
  <2>3. \A k \in {new} : k.batch # o
    OBVIOUS
  <2> HIDE DEF new
  <2>4. Kept(o, sensors, sensors')
    BY <2>1, <2>2, <2>3, KeptByUpdate
  <2>5. QED
    BY <1>2, <2>4 DEF RegisterSensor, Untouched, Touch, Kept, Of, TypeOK
<1>3. ASSUME NEW points \in SUBSET Points, LockProfile(b, points)
      PROVE  Untouched(o)
  BY <1>3 DEF LockProfile, Untouched, MoveTo, Touch, Kept, Of, TypeOK
<1>4. ASSUME NEW s \in CurrentSensors(b), NEW drafts \in Judgements(b), NEW actor \in Actors,
             SubmitMeasurements(s, drafts, actor)
      PROVE  Untouched(o)
  BY <1>4, SubmitMeasurementsIsolated
<1>5. ASSUME NEW s \in CurrentSensors(b), Recalibrate(s)
      PROVE  Untouched(o)
  BY <1>5, RecalibrateIsolated
<1>6. ASSUME NEW actor \in Actors, ApproveReview(b, actor)
      PROVE  Untouched(o)
  BY <1>6 DEF ApproveReview, Freeze, Record, Untouched, MoveTo, Touch, Kept, Of, TypeOK
<1>7. ASSUME NEW actor \in Actors, NEW corrections \in SUBSET Corrections(b),
             ReturnReview(b, actor, corrections)
      PROVE  Untouched(o)
  <2>1. DOMAIN findings' = DOMAIN findings \cup corrections
    BY <1>7 DEF ReturnReview
  <2>2. \A f \in DOMAIN findings \ corrections : findings'[f] = findings[f]
    BY <1>7 DEF ReturnReview
  <2>3. \A f \in corrections : f.batch # o
    BY CorrectionsAreFindings
  <2>4. Kept(o, findings, findings')
    BY <2>1, <2>2, <2>3, KeptByUpdate
  <2>5. QED
    BY <1>7, <2>4 DEF ReturnReview, Record, Untouched, MoveTo, Touch, Kept, Of, TypeOK
<1>8. ASSUME NEW actor \in Actors, ResubmitReview(b, actor)
      PROVE  Untouched(o)
  BY <1>8 DEF ResubmitReview, Record, Untouched, MoveTo, Touch, Kept, Of, TypeOK
<1>9. CASE Issue(b)
  BY <1>9 DEF Issue, Untouched, MoveTo, Touch, Kept, Of, TypeOK
<1>10. QED
  BY <1>1, <1>2, <1>3, <1>4, <1>5, <1>6, <1>7, <1>8, <1>9 DEF BatchNext

-----------------------------------------------------------------------------
(* Versions. *)

\* A batch has version 0 exactly as long as it does not exist.
AbsentIsNew == \A b \in Batches : status[b] = "absent" <=> version[b] = 0

\* A command moves the version of its batch on by one, and does not end a batch
\* that was released: there is none for it.
LEMMA OwnVersion ==
  ASSUME TypeOK, AbsentIsNew, NEW b \in Batches, BatchNext(b)
  PROVE  /\ version'[b] = version[b] + 1
         /\ status'[b] # "absent"
         /\ status[b] # "released"
<1>1. CASE CreateBatch(b)
  BY <1>1 DEF CreateBatch, AbsentIsNew, TypeOK
<1>2. ASSUME NEW c \in Codes, NEW range \in Ranges, RegisterSensor(b, c, range)
      PROVE  version'[b] = version[b] + 1 /\ status'[b] # "absent" /\ status[b] # "released"
  BY <1>2 DEF RegisterSensor, Touch, TypeOK
<1>3. ASSUME NEW points \in SUBSET Points, LockProfile(b, points)
      PROVE  version'[b] = version[b] + 1 /\ status'[b] # "absent" /\ status[b] # "released"
  BY <1>3 DEF LockProfile, MoveTo, Touch, TypeOK
<1>4. ASSUME NEW s \in CurrentSensors(b), NEW drafts \in Judgements(b), NEW actor \in Actors,
             SubmitMeasurements(s, drafts, actor)
      PROVE  version'[b] = version[b] + 1 /\ status'[b] # "absent" /\ status[b] # "released"
  <2>1. s.batch = b
    BY CurrentSensorType
  <2>2. QED
    BY <1>4, <2>1 DEF SubmitMeasurements, SetEvaluationStatus, EvaluatedStatus, Touch, TypeOK
<1>5. ASSUME NEW s \in CurrentSensors(b), Recalibrate(s)
      PROVE  version'[b] = version[b] + 1 /\ status'[b] # "absent" /\ status[b] # "released"
  <2>1. s.batch = b /\ status[b] \in {"failed", "returned"}
    BY <1>5, CurrentSensorType DEF Recalibrate
  <2>2. \/ Touch(b) /\ UNCHANGED status
        \/ MoveTo(b, "sampling")
    BY <1>5, <2>1 DEF Recalibrate
  <2>3. QED
    BY <2>1, <2>2 DEF MoveTo, Touch, TypeOK
<1>6. ASSUME NEW actor \in Actors, ApproveReview(b, actor)
      PROVE  version'[b] = version[b] + 1 /\ status'[b] # "absent" /\ status[b] # "released"
  BY <1>6 DEF ApproveReview, Freeze, MoveTo, Touch, TypeOK
<1>7. ASSUME NEW actor \in Actors, NEW corrections \in SUBSET Corrections(b),
             ReturnReview(b, actor, corrections)
      PROVE  version'[b] = version[b] + 1 /\ status'[b] # "absent" /\ status[b] # "released"
  BY <1>7 DEF ReturnReview, MoveTo, Touch, TypeOK
<1>8. ASSUME NEW actor \in Actors, ResubmitReview(b, actor)
      PROVE  version'[b] = version[b] + 1 /\ status'[b] # "absent" /\ status[b] # "released"
  BY <1>8 DEF ResubmitReview, MoveTo, Touch, TypeOK
<1>9. CASE Issue(b)
  BY <1>9 DEF Issue, MoveTo, Touch, TypeOK
<1>10. QED
  BY <1>1, <1>2, <1>3, <1>4, <1>5, <1>6, <1>7, <1>8, <1>9 DEF BatchNext

\* No batch has a version before it is created.
LEMMA AbsentInit == Init => AbsentIsNew
BY DEF Init, AbsentIsNew

\* Only the creation of a batch takes it away from version 0.
LEMMA AbsentNext == TypeOK /\ AbsentIsNew /\ [Next]_vars => AbsentIsNew'
<1> SUFFICES ASSUME TypeOK, AbsentIsNew, [Next]_vars PROVE AbsentIsNew'
  OBVIOUS
<1>1. CASE UNCHANGED vars
  BY <1>1 DEF vars, batchVars, AbsentIsNew
<1>2. ASSUME NEW b \in Batches, BatchNext(b) PROVE AbsentIsNew'
  <2>1. status'[b] # "absent" /\ version'[b] = version[b] + 1 /\ version[b] \in Nat
    BY <1>2, OwnVersion DEF TypeOK
  <2>2. \A o \in Batches \ {b} : Untouched(o)
    BY <1>2, OthersUntouched
  <2>3. QED
    BY <2>1, <2>2 DEF AbsentIsNew, Untouched
<1>3. QED
  BY <1>1, <1>2 DEF Next

\* A command is isolated: it moves its own version on by one and leaves the others alone.
LEMMA IsolatedStep ==
  ASSUME TypeOK, AbsentIsNew, Next
  PROVE  \E b \in Batches :
           /\ version'[b] = version[b] + 1
           /\ \A o \in Batches \ {b} :
                /\ version'[o] = version[o] /\ status'[o] = status[o]
                /\ FrozenMaterial(o, 0)' = FrozenMaterial(o, 0)
<1>1. PICK b \in Batches : BatchNext(b)
  BY DEF Next
<1>2. version'[b] = version[b] + 1
  BY <1>1, OwnVersion
<1>3. ASSUME NEW o \in Batches \ {b}
      PROVE  /\ version'[o] = version[o] /\ status'[o] = status[o]
             /\ FrozenMaterial(o, 0)' = FrozenMaterial(o, 0)
  <2>1. Untouched(o)
    BY <1>1, OthersUntouched
  <2>2. FrozenMaterial(o, 0)' = FrozenMaterial(o, 0)
    BY <2>1, UntouchedMaterial
  <2>3. QED
    BY <2>1, <2>2 DEF Untouched
<1>4. QED
  BY <1>2, <1>3

\* A command changes the batch it names and no other, and moves the version of
\* that batch on by one.
THEOREM CommandsAreIsolated == Spec => BatchIsolation
<1>1. TypeOK /\ AbsentIsNew /\ [Next]_vars =>
        [\E b \in Batches :
           /\ version'[b] = version[b] + 1
           /\ \A o \in Batches \ {b} :
                /\ version'[o] = version[o] /\ status'[o] = status[o]
                /\ FrozenMaterial(o, 0)' = FrozenMaterial(o, 0)]_vars
  BY IsolatedStep
<1>2. QED
  BY <1>1, TypeInit, TypeNext, AbsentInit, AbsentNext, PTL DEF Spec, BatchIsolation

-----------------------------------------------------------------------------
(* History is only added to. *)

\* A finding of a current revision is open: a revision that has measured its
\* point after it would be the current one.
LEMMA CurrentFindingIsOpen ==
  ASSUME TypeOK, EvidenceInv, NEW b \in Batches, NEW s \in CurrentSensors(b),
         NEW f \in DOMAIN findings, f.batch = b, f.code = s.code, f.revision = s.revision
  PROVE  findings[f] = 0
<1>1. SUFFICES ASSUME findings[f] # 0 PROVE FALSE
  OBVIOUS
<1>2. f \in FindingKey /\ s \in SensorRevision /\ s.batch = b
  BY CurrentSensorType DEF TypeOK
<1>3. /\ findings[f] \in f.revision + 1 .. MaxRevision
      /\ Measured(Sensor(f), findings[f], f.point)
  BY <1>1 DEF EvidenceInv, FindingsFollowEvidence, FollowsEvidence, Passes
<1> DEFINE k == [batch |-> b, code |-> s.code, revision |-> findings[f], point |-> f.point]
<1>4. k \in DOMAIN measurements
  BY <1>2, <1>3, SensorType, KeyOfRevision DEF Measured
<1>5. findings[f] <= s.revision
  BY <1>2, <1>4, CurrentIsLast DEF EvidenceInv
<1>6. s.revision \in Nat /\ findings[f] \in Nat /\ findings[f] > s.revision
  BY <1>2, <1>3 DEF SensorRevision, Revisions
<1>7. QED
  BY <1>5, <1>6

\* The records before a new one.
LEMMA AppendKeepsPrefix ==
  ASSUME NEW S, NEW r \in Seq(S), NEW x \in S
  PROVE  SubSeq(Append(r, x), 1, Len(r)) = r
<1> DEFINE n == Len(r)
           t == Append(r, x)
           u == SubSeq(t, 1, n)
<1>1. n \in Nat /\ \A i \in 1 .. n : t[i] = r[i] /\ r[i] \in S
  BY AppendProperties, LenProperties, ElementOfSeq
<1> HIDE DEF n, t
<1>2. /\ u \in Seq(S)
      /\ Len(u) = IF 1 <= n THEN n - 1 + 1 ELSE 0
      /\ \A i \in 1 .. n - 1 + 1 : u[i] = t[1 + i - 1]
  BY <1>1, SubSeqProperties
<1>3. Len(u) = n /\ \A i \in 1 .. n : u[i] = r[i]
  BY <1>1, <1>2
<1> HIDE DEF u
<1>4. u = r
  BY <1>2, <1>3, SeqEqual DEF n
<1>5. QED
  BY <1>4 DEF u, t, n

\* Adding a revision takes none away.
LEMMA NextRevisionIsNew ==
  ASSUME TypeOK, NEW b \in Batches, NEW s \in CurrentSensors(b), Recalibrate(s)
  PROVE  /\ [s EXCEPT !.revision = @ + 1] \notin DOMAIN sensors
         /\ \A t \in DOMAIN sensors : t \in DOMAIN sensors' /\ sensors'[t] = sensors[t]
<1> DEFINE new == [s EXCEPT !.revision = @ + 1]
<1>1. /\ s \in SensorRevision /\ s.revision \in Nat
      /\ \A t \in DOMAIN sensors :
           t.batch = s.batch /\ t.code = s.code => t.revision <= s.revision
  BY CurrentSensorType DEF CurrentSensors, IsCurrentRevision, SensorRevision, Revisions
<1>2. new.batch = s.batch /\ new.code = s.code /\ new.revision = s.revision + 1
  BY <1>1 DEF SensorRevision
<1>3. sensors' = [t \in DOMAIN sensors \cup {new} |->
                    IF t = new THEN sensors[s] ELSE sensors[t]]
  BY DEF Recalibrate
<1> HIDE DEF new
<1>4. new \in DOMAIN sensors => new.revision <= s.revision
  BY <1>1, <1>2
<1>5. new \notin DOMAIN sensors
  BY <1>1, <1>2, <1>4
<1>6. \A t \in DOMAIN sensors : t \in DOMAIN sensors' /\ sensors'[t] = sensors[t]
  BY <1>3, <1>5
<1>7. QED
  BY <1>5, <1>6 DEF new

\* A map to which things are added, and in which nothing closed or stored changes.
HistoryStep ==
  /\ \A k \in DOMAIN measurements :
       k \in DOMAIN measurements' /\ measurements'[k] = measurements[k]
  /\ \A f \in DOMAIN findings :
       f \in DOMAIN findings' /\ (findings[f] # 0 => findings'[f] = findings[f])
  /\ \A s \in DOMAIN sensors : s \in DOMAIN sensors' /\ sensors'[s] = sensors[s]
  /\ \A b \in Batches : SubSeq(reviews'[b], 1, Len(reviews[b])) = reviews[b]

\* Unchanged review records are a prefix of themselves.
LEMMA ReviewsUnchanged ==
  ASSUME TypeOK, UNCHANGED reviews
  PROVE  \A b \in Batches : SubSeq(reviews'[b], 1, Len(reviews[b])) = reviews[b]
BY SubSeqFull DEF TypeOK

\* A new review record leaves those before it in place.
LEMMA ReviewsRecorded ==
  ASSUME TypeOK, NEW b \in Batches, NEW actor \in Actors,
         NEW decision \in {"returned", "resubmitted", "approved"}, Record(b, actor, decision)
  PROVE  \A o \in Batches : SubSeq(reviews'[o], 1, Len(reviews[o])) = reviews[o]
<1> DEFINE x == [reviewer |-> actor, decision |-> decision]
<1>1. x \in ReviewRecord
  BY DEF ReviewRecord
<1>2. reviews' = [reviews EXCEPT ![b] = Append(@, x)] /\ reviews \in [Batches -> Seq(ReviewRecord)]
  BY DEF Record, TypeOK
<1> HIDE DEF x
<1>3. ASSUME NEW o \in Batches
      PROVE  SubSeq(reviews'[o], 1, Len(reviews[o])) = reviews[o]
  <2>1. CASE o = b
    <3>1. reviews'[o] = Append(reviews[o], x) /\ reviews[o] \in Seq(ReviewRecord)
      BY <1>2, <2>1
    <3>2. QED
      BY <1>1, <3>1, AppendKeepsPrefix
  <2>2. CASE o # b
    <3>1. reviews'[o] = reviews[o] /\ reviews[o] \in Seq(ReviewRecord)
      BY <1>2, <2>2
    <3>2. QED
      BY <3>1, SubSeqFull
  <2>3. QED
    BY <2>1, <2>2
<1>4. QED
  BY <1>3

\* The findings a submission raises, and those a reviewer returns a batch with, are
\* about current revisions, where nothing has been closed yet.
LEMMA HistoryNext ==
  ASSUME TypeOK, EvidenceInv, NEW b \in Batches, BatchNext(b)
  PROVE  HistoryStep
<1>1. CASE CreateBatch(b)
  BY <1>1, ReviewsUnchanged DEF CreateBatch, HistoryStep
<1>2. ASSUME NEW c \in Codes, NEW range \in Ranges, RegisterSensor(b, c, range)
      PROVE  HistoryStep
  <2> DEFINE new == [batch |-> b, code |-> c, revision |-> 1]
  <2>1. new \notin DOMAIN sensors
    BY <1>2 DEF RegisterSensor
  <2>2. sensors' = [s \in DOMAIN sensors \cup {new} |-> IF s = new THEN range ELSE sensors[s]]
    BY <1>2 DEF RegisterSensor
  <2> HIDE DEF new
  <2>3. \A s \in DOMAIN sensors : s \in DOMAIN sensors' /\ sensors'[s] = sensors[s]
    BY <2>1, <2>2
  <2>4. QED
    BY <1>2, <2>3, ReviewsUnchanged DEF RegisterSensor, HistoryStep
<1>3. ASSUME NEW points \in SUBSET Points, LockProfile(b, points)
      PROVE  HistoryStep
  BY <1>3, ReviewsUnchanged DEF LockProfile, HistoryStep
<1>4. ASSUME NEW s \in CurrentSensors(b), NEW drafts \in Judgements(b), NEW actor \in Actors,
             SubmitMeasurements(s, drafts, actor)
      PROVE  HistoryStep
  <2> DEFINE keys == {Key(s, p) : p \in DOMAIN drafts}
             raised == AutomaticFindings(s, drafts)
             cleared == ClearedFindings(s, drafts)
  <2>1. s \in SensorRevision /\ s.batch = b
    BY CurrentSensorType
  <2>2. \A k \in DOMAIN measurements :
          k \in DOMAIN measurements' /\ measurements'[k] = measurements[k]
    <3>1. /\ keys \cap DOMAIN measurements = {}
          /\ measurements' = [k \in DOMAIN measurements \cup keys |->
               IF k \in keys THEN [drafts |-> drafts[k.point],
                                   extent |-> sensors[s], capturedBy |-> actor]
                             ELSE measurements[k]]
      BY <1>4 DEF SubmitMeasurements, PutMeasurements, NotYetMeasured
    <3> HIDE DEF keys
    <3>2. QED
      BY <3>1
  <2>3. \A f \in DOMAIN findings :
          f \in DOMAIN findings' /\ (findings[f] # 0 => findings'[f] = findings[f])
    <3>1. findings' = [f \in DOMAIN findings \cup raised |->
                         IF f \in raised THEN 0
                         ELSE IF f \in cleared THEN s.revision ELSE findings[f]]
      BY <1>4 DEF SubmitMeasurements, ReplaceAutomaticFindings
    <3>2. \A f \in raised : f.batch = b /\ f.code = s.code /\ f.revision = s.revision
      BY <2>1 DEF AutomaticFindings
    <3>3. \A f \in raised \cap DOMAIN findings : findings[f] = 0
      BY <3>2, CurrentFindingIsOpen
    <3>4. \A f \in cleared : findings[f] = 0
      BY DEF ClearedFindings, OpenFindings
    <3> HIDE DEF raised, cleared
    <3>5. QED
      BY <3>1, <3>3, <3>4
  <2>4. QED
    BY <1>4, <2>2, <2>3, ReviewsUnchanged DEF SubmitMeasurements, HistoryStep
<1>5. ASSUME NEW s \in CurrentSensors(b), Recalibrate(s)
      PROVE  HistoryStep
  BY <1>5, NextRevisionIsNew, ReviewsUnchanged DEF Recalibrate, HistoryStep
<1>6. ASSUME NEW actor \in Actors, ApproveReview(b, actor)
      PROVE  HistoryStep
  BY <1>6, ReviewsRecorded DEF ApproveReview, HistoryStep
<1>7. ASSUME NEW actor \in Actors, NEW corrections \in SUBSET Corrections(b),
             ReturnReview(b, actor, corrections)
      PROVE  HistoryStep
  <2>1. findings' = [f \in DOMAIN findings \cup corrections |->
                       IF f \in corrections THEN 0 ELSE findings[f]]
    BY <1>7 DEF ReturnReview
  <2>2. ASSUME NEW f \in corrections, f \in DOMAIN findings
        PROVE  findings[f] = 0
    <3>1. f.batch = b /\ \E s \in CurrentSensors(b) : f.code = s.code /\ f.revision = s.revision
      BY CorrectionsAreFindings
    <3>2. QED
      BY <2>2, <3>1, CurrentFindingIsOpen
  <2>3. \A f \in DOMAIN findings :
          f \in DOMAIN findings' /\ (findings[f] # 0 => findings'[f] = findings[f])
    BY <2>1, <2>2
  <2>4. QED
    BY <1>7, <2>3, ReviewsRecorded DEF ReturnReview, HistoryStep
<1>8. ASSUME NEW actor \in Actors, ResubmitReview(b, actor)
      PROVE  HistoryStep
  BY <1>8, ReviewsRecorded DEF ResubmitReview, HistoryStep
<1>9. CASE Issue(b)
  BY <1>9, ReviewsUnchanged DEF Issue, HistoryStep
<1>10. QED
  BY <1>1, <1>2, <1>3, <1>4, <1>5, <1>6, <1>7, <1>8, <1>9 DEF BatchNext

\* What has been measured, closed, registered or decided stays so.
THEOREM HistoryIsKept == Spec => HistoryKept
<1>1. TypeOK /\ EvidenceInv /\ [Next]_vars => [HistoryStep]_vars
  BY HistoryNext DEF Next
<1>2. QED
  BY <1>1, TypeInit, TypeNext, EvidenceInit, EvidenceNext, PTL
  DEF Spec, HistoryKept, HistoryStep

-----------------------------------------------------------------------------
(* Approval and release. *)

\* Only an approval freezes a batch and names its reviewer, only an issue releases
\* it and adds a credential; every other command is for a batch still worked on.
LEMMA WorkOnOpenBatches ==
  ASSUME TypeOK, NEW b \in Batches, BatchNext(b)
  PROVE  \/ \E actor \in Actors : ApproveReview(b, actor)
         \/ Issue(b)
         \/ ~ Approved(b) /\ ~ Approved(b)' /\ UNCHANGED <<reviewedBy, credentials>>
<1>1. CASE CreateBatch(b)
  BY <1>1 DEF CreateBatch, Approved, TypeOK
<1>2. ASSUME NEW c \in Codes, NEW range \in Ranges, RegisterSensor(b, c, range)
      PROVE  ~ Approved(b) /\ ~ Approved(b)' /\ UNCHANGED <<reviewedBy, credentials>>
  BY <1>2 DEF RegisterSensor, Approved
<1>3. ASSUME NEW points \in SUBSET Points, LockProfile(b, points)
      PROVE  ~ Approved(b) /\ ~ Approved(b)' /\ UNCHANGED <<reviewedBy, credentials>>
  BY <1>3 DEF LockProfile, MoveTo, Approved, TypeOK
<1>4. ASSUME NEW s \in CurrentSensors(b), NEW drafts \in Judgements(b), NEW actor \in Actors,
             SubmitMeasurements(s, drafts, actor)
      PROVE  ~ Approved(b) /\ ~ Approved(b)' /\ UNCHANGED <<reviewedBy, credentials>>
  <2>1. s.batch = b
    BY CurrentSensorType
  <2>2. QED
    BY <1>4, <2>1 DEF SubmitMeasurements, SetEvaluationStatus, EvaluatedStatus, Approved, TypeOK
<1>5. ASSUME NEW s \in CurrentSensors(b), Recalibrate(s)
      PROVE  ~ Approved(b) /\ ~ Approved(b)' /\ UNCHANGED <<reviewedBy, credentials>>
  <2>1. s.batch = b /\ status[b] \in {"failed", "returned"}
    BY <1>5, CurrentSensorType DEF Recalibrate
  <2>2. UNCHANGED status \/ MoveTo(b, "sampling")
    BY <1>5, <2>1 DEF Recalibrate
  <2>3. QED
    BY <1>5, <2>1, <2>2 DEF Recalibrate, MoveTo, Approved, TypeOK
<1>6. ASSUME NEW actor \in Actors, NEW corrections \in SUBSET Corrections(b),
             ReturnReview(b, actor, corrections)
      PROVE  ~ Approved(b) /\ ~ Approved(b)' /\ UNCHANGED <<reviewedBy, credentials>>
  BY <1>6 DEF ReturnReview, MoveTo, Approved, TypeOK
<1>7. ASSUME NEW actor \in Actors, ResubmitReview(b, actor)
      PROVE  ~ Approved(b) /\ ~ Approved(b)' /\ UNCHANGED <<reviewedBy, credentials>>
  BY <1>7 DEF ResubmitReview, MoveTo, Approved, TypeOK
<1>8. QED
  BY <1>1, <1>2, <1>3, <1>4, <1>5, <1>6, <1>7 DEF BatchNext

\* A credential is of a released batch and verifies.  CredentialVerifies is not
\* inductive: it would let a batch with a credential be frozen, and move on.
CredentialInv ==
  \A c \in credentials : status[c.batch] = "released" /\ VerifyCredential(c)

\* No credential at the start.
LEMMA CredentialInit == Init => CredentialInv
BY DEF Init, CredentialInv

\* A credential is issued over the content of a frozen batch, which no command
\* changes any more.
LEMMA CredentialNext ==
  TypeOK /\ AbsentIsNew /\ CredentialInv /\ [Next]_vars => CredentialInv'
<1> SUFFICES ASSUME TypeOK, AbsentIsNew, CredentialInv, [Next]_vars PROVE CredentialInv'
  OBVIOUS
<1>1. CASE UNCHANGED vars
  BY <1>1 DEF vars, batchVars, CredentialInv, VerifyCredential, FrozenMaterial,
     CurrentSensors, IsCurrentRevision, BatchFindings
<1>2. ASSUME NEW b \in Batches, BatchNext(b), NEW c \in credentials'
      PROVE  status'[c.batch] = "released" /\ VerifyCredential(c)'
  <2>1. CASE c \in credentials
    <3>1. c.batch \in Batches /\ status[c.batch] = "released" /\ VerifyCredential(c)
      BY <2>1 DEF TypeOK, CredentialInv
    <3>2. Untouched(c.batch)
      BY <1>2, <3>1, OwnVersion, OthersUntouched
    <3>3. /\ CurrentSensors(c.batch)' = CurrentSensors(c.batch)
          /\ FrozenMaterial(c.batch, c.batchVersion)' = FrozenMaterial(c.batch, c.batchVersion)
      BY <3>2, UntouchedMaterial
    <3>4. QED
      BY <3>1, <3>2, <3>3 DEF VerifyCredential, Untouched
  <2>2. CASE c \notin credentials
    <3>1. Issue(b)
      BY <1>2, <2>2, WorkOnOpenBatches DEF ApproveReview
    <3>2. c = Credential(b)
      BY <1>2, <2>2, <3>1 DEF Issue
    <3>3. c.batch = b /\ c.batchVersion = version[b] /\ c.revisions = CurrentSensors(b)
          /\ c.content = FrozenMaterial(b, version[b])
      BY <3>2 DEF Credential
    <3>4. UNCHANGED <<profile, sampledBy, reviewedBy, sensors, measurements, findings,
                      tasks, reviews>>
      BY <3>1 DEF Issue
    <3>5. /\ CurrentSensors(b)' = CurrentSensors(b)
          /\ FrozenMaterial(b, c.batchVersion)' = FrozenMaterial(b, c.batchVersion)
      BY <3>4 DEF FrozenMaterial, CurrentSensors, IsCurrentRevision, BatchFindings
    <3>6. status'[b] = "released" /\ version'[b] = version[b] + 1
      BY <3>1 DEF Issue, MoveTo, Touch, TypeOK
    <3>7. QED
      BY <3>3, <3>5, <3>6 DEF VerifyCredential
  <2>3. QED
    BY <2>1, <2>2
<1>3. QED
  BY <1>1, <1>2 DEF Next, CredentialInv

\* Every credential that was ever issued verifies.
THEOREM CredentialsVerify == Spec => []CredentialVerifies
<1>1. CredentialInv => CredentialVerifies
  BY DEF CredentialInv, CredentialVerifies
<1>2. QED
  BY <1>1, TypeInit, TypeNext, AbsentInit, AbsentNext, CredentialInit, CredentialNext, PTL
  DEF Spec

-----------------------------------------------------------------------------
(* The order of reviews. *)

LastWord(r) == IF r = <<>> THEN "none" ELSE r[Len(r)].decision

\* ReviewProtocol for one batch.
Protocol(b) ==
  /\ status[b] = "returned" <=> LastWord(reviews[b]) = "returned"
  /\ Approved(b) <=> LastWord(reviews[b]) = "approved"
  /\ LastWord(reviews[b]) = "approved" =>
       reviews[b][Len(reviews[b])].reviewer = reviewedBy[b]
  /\ \A i \in 1 .. Len(reviews[b]) :
       reviews[b][i].decision = "resubmitted"
         <=> i > 1 /\ reviews[b][i - 1].decision = "returned"

\* The protocol, one batch at a time.
LEMMA ProtocolIsReviewProtocol == ReviewProtocol <=> \A b \in Batches : Protocol(b)
BY DEF ReviewProtocol, Protocol, LastWord, Approved

\* A new record that resubmits exactly what was returned last keeps the order.
LEMMA ProtocolRecord ==
  ASSUME TypeOK, NEW b \in Batches, Protocol(b), NEW actor \in Actors,
         NEW decision \in {"returned", "resubmitted", "approved"}, Record(b, actor, decision),
         decision = "resubmitted" <=> status[b] = "returned",
         status'[b] = "returned" <=> decision = "returned",
         Approved(b)' <=> decision = "approved",
         decision = "approved" => reviewedBy'[b] = actor
  PROVE  Protocol(b)'
<1> DEFINE r == reviews[b]
           x == [reviewer |-> actor, decision |-> decision]
           t == Append(r, x)
           n == Len(r)
<1>1. r \in Seq(ReviewRecord) /\ x \in ReviewRecord
  BY DEF TypeOK, ReviewRecord
<1>2. reviews'[b] = t
  BY DEF Record, TypeOK
<1>3. /\ n \in Nat /\ Len(t) = n + 1 /\ t # <<>> /\ t[n + 1] = x
      /\ \A i \in 1 .. n : t[i] = r[i]
      /\ r = <<>> <=> n = 0
  BY <1>1, AppendProperties, LenProperties, EmptySeq
<1>4. x.reviewer = actor /\ x.decision = decision
  OBVIOUS
<1> HIDE DEF t, x, n
<1>5. LastWord(t) = decision
  BY <1>3, <1>4 DEF LastWord
<1>6. ASSUME NEW i \in 1 .. n + 1
      PROVE  t[i].decision = "resubmitted" <=> i > 1 /\ t[i - 1].decision = "returned"
  <2>1. CASE i \in 1 .. n
    <3>1. r[i].decision = "resubmitted" <=> i > 1 /\ r[i - 1].decision = "returned"
      BY <2>1 DEF Protocol, n
    <3>2. t[i] = r[i] /\ (i > 1 => t[i - 1] = r[i - 1])
      BY <1>3, <2>1
    <3>3. QED
      BY <3>1, <3>2
  <2>2. CASE i = n + 1
    <3>1. t[i].decision = decision
      BY <1>3, <1>4, <2>2
    <3>2. CASE n = 0
      BY <1>3, <2>2, <3>1, <3>2 DEF Protocol, LastWord
    <3>3. CASE n # 0
      <4>1. i > 1 /\ t[i - 1] = r[n]
        BY <1>3, <2>2, <3>3
      <4>2. status[b] = "returned" <=> r[n].decision = "returned"
        BY <1>3, <3>3 DEF Protocol, LastWord, n
      <4>3. QED
        BY <3>1, <4>1, <4>2
    <3>4. QED
      BY <3>2, <3>3
  <2>3. QED
    BY <1>3, <2>1, <2>2
<1>7. LastWord(t) = "approved" => t[Len(t)].reviewer = reviewedBy'[b]
  BY <1>3, <1>4, <1>5
<1>8. QED
  BY <1>2, <1>3, <1>5, <1>6, <1>7 DEF Protocol

\* Without a new record a batch is neither returned, resubmitted nor approved.
LEMMA ProtocolFrame ==
  ASSUME NEW b \in Batches, Protocol(b), reviews'[b] = reviews[b],
         reviewedBy'[b] = reviewedBy[b],
         status'[b] = "returned" <=> status[b] = "returned",
         Approved(b)' <=> Approved(b)
  PROVE  Protocol(b)'
BY DEF Protocol

\* Every command keeps to the protocol.
LEMMA ProtocolStep ==
  ASSUME TypeOK, NEW b \in Batches, Protocol(b), BatchNext(b)
  PROVE  Protocol(b)'
<1>1. CASE CreateBatch(b)
  BY <1>1, ProtocolFrame DEF CreateBatch, Approved, TypeOK
<1>2. ASSUME NEW c \in Codes, NEW range \in Ranges, RegisterSensor(b, c, range)
      PROVE  Protocol(b)'
  BY <1>2, ProtocolFrame DEF RegisterSensor, Approved
<1>3. ASSUME NEW points \in SUBSET Points, LockProfile(b, points)
      PROVE  Protocol(b)'
  BY <1>3, ProtocolFrame DEF LockProfile, MoveTo, Approved, TypeOK
<1>4. ASSUME NEW s \in CurrentSensors(b), NEW drafts \in Judgements(b), NEW actor \in Actors,
             SubmitMeasurements(s, drafts, actor)
      PROVE  Protocol(b)'
  <2>1. s.batch = b
    BY CurrentSensorType
  <2>2. /\ reviews' = reviews /\ reviewedBy' = reviewedBy
        /\ ~ Approved(b) /\ ~ Approved(b)'
        /\ status'[b] = "returned" <=> status[b] = "returned"
    BY <1>4, <2>1
    DEF SubmitMeasurements, SetEvaluationStatus, EvaluatedStatus, Approved, TypeOK
  <2>3. QED
    BY <2>2, ProtocolFrame
<1>5. ASSUME NEW s \in CurrentSensors(b), Recalibrate(s)
      PROVE  Protocol(b)'
  <2>1. s.batch = b /\ status[b] \in {"failed", "returned"}
    BY <1>5, CurrentSensorType DEF Recalibrate
  <2>2. IF status[b] = "returned" THEN UNCHANGED status ELSE MoveTo(b, "sampling")
    BY <1>5, <2>1 DEF Recalibrate
  <2>3. QED
    BY <1>5, <2>1, <2>2, ProtocolFrame DEF Recalibrate, MoveTo, Approved, TypeOK
<1>6. ASSUME NEW actor \in Actors, ApproveReview(b, actor)
      PROVE  Protocol(b)'
  <2>1. /\ Record(b, actor, "approved") /\ status[b] # "returned"
        /\ status'[b] = "frozen" /\ reviewedBy'[b] = actor
    BY <1>6 DEF ApproveReview, Freeze, MoveTo, TypeOK
  <2>2. QED
    BY <2>1, ProtocolRecord DEF Approved
<1>7. ASSUME NEW actor \in Actors, NEW corrections \in SUBSET Corrections(b),
             ReturnReview(b, actor, corrections)
      PROVE  Protocol(b)'
  <2>1. /\ Record(b, actor, "returned") /\ status[b] # "returned" /\ status'[b] = "returned"
    BY <1>7 DEF ReturnReview, MoveTo, TypeOK
  <2>2. QED
    BY <2>1, ProtocolRecord DEF Approved
<1>8. ASSUME NEW actor \in Actors, ResubmitReview(b, actor)
      PROVE  Protocol(b)'
  <2>1. /\ Record(b, actor, "resubmitted") /\ status[b] = "returned"
        /\ status'[b] = "ready_review"
    BY <1>8 DEF ResubmitReview, MoveTo, TypeOK
  <2>2. QED
    BY <2>1, ProtocolRecord DEF Approved
<1>9. CASE Issue(b)
  BY <1>9, ProtocolFrame DEF Issue, MoveTo, Approved, TypeOK
<1>10. QED
  BY <1>1, <1>2, <1>3, <1>4, <1>5, <1>6, <1>7, <1>8, <1>9 DEF BatchNext

\* Nothing is reviewed at the start.
LEMMA ProtocolInit == Init => ReviewProtocol
<1>1. Init => \A b \in Batches : Protocol(b)
  BY DEF Init, Protocol, LastWord, Approved
<1>2. QED
  BY <1>1, ProtocolIsReviewProtocol

\* ReviewProtocol is inductive together with TypeOK.
LEMMA ProtocolNext == TypeOK /\ ReviewProtocol /\ [Next]_vars => ReviewProtocol'
<1> SUFFICES ASSUME TypeOK, ReviewProtocol, [Next]_vars PROVE ReviewProtocol'
  OBVIOUS
<1>1. \A b \in Batches : Protocol(b)
  BY ProtocolIsReviewProtocol
<1>2. CASE UNCHANGED vars
  BY <1>2 DEF vars, batchVars, ReviewProtocol
<1>3. ASSUME NEW b \in Batches, BatchNext(b) PROVE ReviewProtocol'
  <2>1. Protocol(b)'
    BY <1>1, <1>3, ProtocolStep
  <2>2. ASSUME NEW o \in Batches \ {b} PROVE Protocol(o)'
    <3>1. Untouched(o)
      BY <1>3, OthersUntouched
    <3>2. QED
      BY <1>1, <3>1, ProtocolFrame DEF Untouched, Approved
  <2>3. \A o \in Batches : Protocol(o)'
    BY <2>1, <2>2
  <2>4. QED
    BY <2>3 DEF ReviewProtocol, Protocol, LastWord, Approved
<1>4. QED
  BY <1>2, <1>3 DEF Next

\* Returns and resubmissions alternate, approval comes last and names its reviewer.
THEOREM ReviewsInOrder == Spec => []ReviewProtocol
BY TypeInit, TypeNext, ProtocolInit, ProtocolNext, PTL DEF Spec

-----------------------------------------------------------------------------
(* The workflow implements Release. *)

\* The people the readings of a batch came from.
Submitters(b) == {measurements[k].capturedBy : k \in {m \in DOMAIN measurements : m.batch = b}}

Phase(b) == IF status[b] \in {"frozen", "released"} THEN status[b] ELSE "open"

\* What Release calls issued.
Issued == {[batch |-> c.batch, content |-> [c.content EXCEPT !.version = 0]] : c \in credentials}

\* The mapping in terms of these.
LEMMA PromiseInTerms ==
  /\ Promise!Init <=>
       /\ [b \in Batches |-> Phase(b)] = [b \in Batches |-> "open"]
       /\ [b \in Batches |-> Submitters(b)] = [b \in Batches |-> {}]
       /\ reviewedBy = [b \in Batches |-> Nobody]
       /\ Issued = {}
  /\ \A b \in Batches :
       Promise!OthersKeepTheirs(b) <=>
         \A o \in Batches \ {b} :
           Content(o)' = Content(o) /\ Submitters(o)' = Submitters(o)
  /\ \A b \in Batches :
       Promise!Work(b) <=>
         /\ Phase(b) = "open"
         /\ Submitters(b) \subseteq Submitters(b)'
         /\ Promise!OthersKeepTheirs(b)
         /\ [o \in Batches |-> Phase(o)]' = [o \in Batches |-> Phase(o)]
         /\ reviewedBy' = reviewedBy
         /\ Issued' = Issued
BY DEF Promise!Init, Promise!OthersKeepTheirs, Promise!Work, Phase, Submitters, Issued

\* The workflow starts where the promise does.
LEMMA PromiseInit == Init => Promise!Init
<1> SUFFICES ASSUME Init PROVE Promise!Init
  OBVIOUS
<1>1. \A b \in Batches : Phase(b) = "open" /\ Submitters(b) = {}
  BY DEF Init, Phase, Submitters
<1>2. Issued = {} /\ reviewedBy = [b \in Batches |-> Nobody]
  BY DEF Init, Issued
<1>3. QED
  BY <1>1, <1>2, PromiseInTerms

\* The version is a field of the material on its own.
LEMMA MaterialWithoutVersion ==
  ASSUME NEW b, NEW v
  PROVE  [FrozenMaterial(b, v) EXCEPT !.version = 0] = FrozenMaterial(b, 0)
<1> DEFINE rangesOf == [s \in CurrentSensors(b) |-> sensors[s]]
           measured == [k \in {m \in DOMAIN measurements : m.batch = b} |-> measurements[k]]
           found == [f \in BatchFindings(b) |-> findings[f]]
           asked == [k \in {t \in DOMAIN tasks : t.batch = b} |-> tasks[k]]
           Material(w) ==
             [version |-> w, profile |-> profile[b], sampledBy |-> sampledBy[b],
              reviewedBy |-> reviewedBy[b], sensors |-> rangesOf, measurements |-> measured,
              findings |-> found, tasks |-> asked, reviews |-> reviews[b]]
<1>1. \A w : FrozenMaterial(b, w) = Material(w)
  BY DEF FrozenMaterial
<1> HIDE DEF rangesOf, measured, found, asked
<1>2. [Material(v) EXCEPT !.version = 0] = Material(0)
  OBVIOUS
<1> HIDE DEF Material
<1>3. QED
  BY <1>1, <1>2

\* What a command on b leaves alone of the other batches.
LEMMA OthersKeepContent ==
  ASSUME TypeOK, NEW b \in Batches, BatchNext(b)
  PROVE  /\ Promise!OthersKeepTheirs(b)
         /\ \A o \in Batches \ {b} : /\ Content(o)' = Content(o)
                                     /\ Submitters(o)' = Submitters(o)
                                     /\ Phase(o)' = Phase(o)
<1>1. ASSUME NEW o \in Batches \ {b}
      PROVE  /\ Content(o)' = Content(o)
             /\ Submitters(o)' = Submitters(o)
             /\ Phase(o)' = Phase(o)
  <2>1. Untouched(o)
    BY OthersUntouched
  <2>2. Content(o)' = Content(o)
    BY <2>1, UntouchedMaterial DEF Content
  <2>3. /\ {m \in DOMAIN measurements' : m.batch = o} = {m \in DOMAIN measurements : m.batch = o}
        /\ \A k \in {m \in DOMAIN measurements : m.batch = o} : measurements'[k] = measurements[k]
    BY <2>1 DEF Untouched, Kept, Of
  <2>4. Submitters(o)' = Submitters(o)
    BY <2>3 DEF Submitters
  <2>5. Phase(o)' = Phase(o)
    BY <2>1 DEF Untouched, Phase
  <2>6. QED
    BY <2>2, <2>4, <2>5
<1>2. QED
  BY <1>1, PromiseInTerms

\* Every command is a step of the promise: an approval approves, an issue releases,
\* and every other works on an open batch.
LEMMA PromiseStep ==
  ASSUME TypeOK, EvidenceInv, DutiesInv, NEW b \in Batches, BatchNext(b)
  PROVE  Promise!Next
<1>1. /\ Promise!OthersKeepTheirs(b)
      /\ \A o \in Batches \ {b} : /\ Content(o)' = Content(o)
                                  /\ Submitters(o)' = Submitters(o)
                                  /\ Phase(o)' = Phase(o)
  BY OthersKeepContent
<1>2. ASSUME NEW actor \in Actors, ApproveReview(b, actor)
      PROVE  Promise!Approve(b, actor)
  <2>1. /\ UNCHANGED <<measurements, credentials>>
        /\ status[b] = "ready_review" /\ status' = [status EXCEPT ![b] = "frozen"]
        /\ actor \notin sampledBy[b]
        /\ reviewedBy' = [reviewedBy EXCEPT ![b] = actor]
    BY <1>2 DEF ApproveReview, Freeze, MoveTo, HasSampler
  <2>2. actor \notin Submitters(b)
    BY <2>1 DEF Submitters, DutiesInv, SubmittersAreSamplers
  <2>3. Phase(b) = "open" /\ Phase(b)' = "frozen"
    BY <2>1 DEF Phase, TypeOK
  <2>4. [o \in Batches |-> Phase(o)]' = [[o \in Batches |-> Phase(o)] EXCEPT ![b] = "frozen"]
    BY <1>1, <2>3
  <2>5. [o \in Batches |-> Submitters(o)]' = [o \in Batches |-> Submitters(o)]
    BY <2>1 DEF Submitters
  <2>6. Issued' = Issued
    BY <2>1 DEF Issued
  <2>7. QED
    BY <1>1, <2>1, <2>2, <2>3, <2>4, <2>5, <2>6 DEF Promise!Approve, Phase, Submitters, Issued
<1>3. ASSUME Issue(b)
      PROVE  Promise!Issue(b)
  <2>1. /\ UNCHANGED <<profile, sampledBy, reviewedBy, sensors, measurements, findings,
                       tasks, reviews>>
        /\ status[b] = "frozen" /\ status' = [status EXCEPT ![b] = "released"]
        /\ credentials' = credentials \cup {Credential(b)}
    BY <1>3 DEF Issue, MoveTo
  <2>2. Phase(b) = "frozen" /\ Phase(b)' = "released"
    BY <2>1 DEF Phase, TypeOK
  <2>3. [o \in Batches |-> Phase(o)]' = [[o \in Batches |-> Phase(o)] EXCEPT ![b] = "released"]
    BY <1>1, <2>2
  <2>4. [o \in Batches |-> Submitters(o)]' = [o \in Batches |-> Submitters(o)]
    BY <2>1 DEF Submitters
  <2>5. \A o \in Batches : Content(o)' = Content(o)
    BY <2>1 DEF Content, FrozenMaterial, CurrentSensors, IsCurrentRevision, BatchFindings
  <2>6. [Credential(b).content EXCEPT !.version = 0] = Content(b) /\ Credential(b).batch = b
    BY MaterialWithoutVersion DEF Credential, Content
  <2>7. Issued' = Issued \cup {[batch |-> b, content |-> Content(b)]}
    BY <2>1, <2>6 DEF Issued
  <2>8. QED
    BY <2>1, <2>2, <2>3, <2>4, <2>5, <2>7 DEF Promise!Issue, Phase, Submitters, Issued
<1>4. ASSUME ~ Approved(b), ~ Approved(b)', UNCHANGED <<reviewedBy, credentials>>
      PROVE  Promise!Work(b)
  <2>1. Phase(b) = "open" /\ Phase(b)' = "open"
    BY <1>4 DEF Phase, Approved
  <2>2. [o \in Batches |-> Phase(o)]' = [o \in Batches |-> Phase(o)]
    BY <1>1, <2>1
  <2>3. Submitters(b) \subseteq Submitters(b)'
    <3>1. \A k \in DOMAIN measurements :
            k \in DOMAIN measurements' /\ measurements'[k] = measurements[k]
      BY HistoryNext DEF HistoryStep
    <3>2. QED
      BY <3>1 DEF Submitters
  <2>4. Issued' = Issued
    BY <1>4 DEF Issued
  <2>5. QED
    BY <1>1, <1>4, <2>1, <2>2, <2>3, <2>4, PromiseInTerms
<1>5. QED
  BY <1>2, <1>3, <1>4, WorkOnOpenBatches DEF Promise!Next

\* What leaves the projection alone leaves the promise alone.
LEMMA PromiseStutter == UNCHANGED vars => UNCHANGED Promise!vars
BY DEF vars, batchVars, Promise!vars, Content, FrozenMaterial, CurrentSensors,
   IsCurrentRevision, BatchFindings

\* The workflow keeps the promise of Release: approval freezes the content of a
\* batch, its approver submitted none of it, no command on another batch touches it,
\* and what is released is what was approved.
THEOREM WorkflowKeepsPromise == Spec => ImplementsRelease
<1>1. TypeOK /\ EvidenceInv /\ DutiesInv /\ [Next]_vars => [Promise!Next]_(Promise!vars)
  BY PromiseStep, PromiseStutter DEF Next
<1>2. QED
  BY <1>1, PromiseInit, TypeInit, TypeNext, EvidenceInit, EvidenceNext, DutiesInit, DutiesNext,
     PTL DEF Spec, ImplementsRelease, Promise!Spec

-----------------------------------------------------------------------------
(* Inherited evidence. *)

\* A measurement whose findings are all closed was followed by a passing one.  So
\* the last one before a revision that no open problem keeps from inheriting it
\* passed itself.
LEMMA EvidenceImpliesInherited == TypeOK /\ EvidenceInv => InheritedEvidencePasses
<1> SUFFICES ASSUME TypeOK, EvidenceInv, NEW b \in Batches, NEW s \in CurrentSensors(b),
                    NEW p \in profile[b],
                    EffectiveEvidence(s, p) \notin {0, s.revision}
             PROVE  /\ Passes(s, EffectiveEvidence(s, p), p)
                    /\ \A f \in OpenFindings(b) :
                         f.code = s.code /\ f.point = p => f.revision = s.revision
  BY DEF InheritedEvidencePasses
<1> DEFINE m == PreviousEvidence(s, p)
           E == EarlierEvidence(s, p)
           k == [batch |-> s.batch, code |-> s.code, revision |-> m, point |-> p]
<1>1. /\ s \in SensorRevision /\ s.batch = b /\ p \in Points
      /\ s.revision \in Nat /\ s.revision <= MaxRevision
  BY CurrentSensorType DEF TypeOK, SensorRevision, Revisions
<1>2. /\ EffectiveEvidence(s, p) = m /\ m # 0
      /\ Key(s, p) \notin DOMAIN measurements
      /\ p \notin UnresolvedProblemPoints(s)
  BY DEF EffectiveEvidence
<1>3. E \in SUBSET Revisions /\ m \in E /\ \A r \in E : r <= m
  <2>1. E # {} /\ m = Max(E)
    BY <1>2 DEF PreviousEvidence
  <2>2. E \in SUBSET Revisions
    BY DEF EarlierEvidence
  <2>3. QED
    BY <2>1, <2>2, MaxInSet
<1>4. m \in Revisions /\ m < s.revision /\ k \in DOMAIN measurements
  BY <1>1, <1>3, KeyOfRevision DEF EarlierEvidence
<1>5. ASSUME NEW f \in DOMAIN findings, findings[f] = 0, f.code = s.code, f.point = p
      PROVE  ~ (f.revision < s.revision)
  BY <1>2, <1>5 DEF UnresolvedProblemPoints
<1>6. measurements[k].drafts = {}
  <2>1. SUFFICES ASSUME measurements[k].drafts # {} PROVE FALSE
    OBVIOUS
  <2>2. PICK f \in DOMAIN findings : Sensor(f) = Sensor(k) /\ f.point = k.point
    BY <1>4, <2>1 DEF EvidenceInv, FailureLeavesFinding
  <2>3. /\ f \in FindingKey /\ f.batch = s.batch /\ f.code = s.code
        /\ f.revision = m /\ f.point = p
    BY <1>4, <2>2, SensorType DEF TypeOK
  <2>4. findings[f] # 0
    BY <1>4, <1>5, <2>3
  <2>5. /\ findings[f] \in m + 1 .. MaxRevision
        /\ Measured(Sensor(f), findings[f], p)
    BY <2>2, <2>3, <2>4 DEF EvidenceInv, FindingsFollowEvidence, FollowsEvidence, Passes
  <2> DEFINE later == [batch |-> s.batch, code |-> s.code,
                       revision |-> findings[f], point |-> p]
  <2>6. later \in DOMAIN measurements
    BY <2>3, <2>5, SensorType, KeyOfRevision DEF Measured
  <2>7. findings[f] <= s.revision
    BY <2>6, CurrentIsLast DEF EvidenceInv
  <2>8. findings[f] # s.revision
    BY <1>2, <2>6 DEF Key
  <2>9. findings[f] \in E
    BY <1>1, <1>4, <2>5, <2>6, <2>7, <2>8, KeyOfRevision DEF EarlierEvidence, Revisions
  <2>10. QED
    BY <1>3, <1>4, <2>5, <2>9 DEF Revisions
<1>7. Passes(s, m, p)
  BY <1>1, <1>4, <1>6, KeyOfRevision DEF Passes, Measured
<1>8. ASSUME NEW f \in OpenFindings(b), f.code = s.code, f.point = p
      PROVE  f.revision = s.revision
  <2>1. f \in DOMAIN findings /\ findings[f] = 0 /\ f.batch = s.batch
    BY <1>1 DEF OpenFindings, BatchFindings
  <2>2. f.revision <= s.revision /\ f.revision \in Nat
    BY <1>8, <2>1, CurrentIsLast, SensorType DEF EvidenceInv, TypeOK, Revisions
  <2>3. QED
    BY <1>1, <1>5, <1>8, <2>1, <2>2
<1>9. QED
  BY <1>2, <1>7, <1>8

\* Only evidence that passed is inherited, and only past problems that are closed.
THEOREM InheritanceIsSound == Spec => []InheritedEvidencePasses
BY TypeInit, TypeNext, EvidenceInit, EvidenceNext, EvidenceImpliesInherited, PTL DEF Spec

-----------------------------------------------------------------------------
(* Sensors, measurements and profiles. *)

Locked(b) == status[b] \notin {"absent", "draft"}

\* The revisions of a sensor have no gap, and before the profile is locked there is
\* only the first.
SensorSound(s) ==
  /\ status[s.batch] # "absent"
  /\ \A r \in 1 .. s.revision : [s EXCEPT !.revision = r] \in DOMAIN sensors
  /\ status[s.batch] = "draft" => s.revision = 1

\* Readings are of a point of the locked profile and lie in the range of the revision
\* they were taken with, which recalibration copies and nothing changes.
MeasurementSound(k) ==
  /\ Locked(k.batch) /\ k.point \in profile[k.batch]
  /\ Sensor(k) \in DOMAIN sensors
  /\ measurements[k].extent \subseteq sensors[Sensor(k)]

BatchSound(b) ==
  /\ Locked(b) => Cardinality(profile[b]) >= 2
  /\ status[b] = "released" => CredentialsOf(b) # {}

\* A task is about open findings of its point in earlier revisions; what it says
\* of its own revision is what that has measured.
TaskSound(k) ==
  LET t == tasks[k] IN
  /\ Sensor(k) \in DOMAIN sensors /\ k.revision >= 2
  /\ Locked(k.batch) /\ k.point \in profile[k.batch]
  /\ t.required <=> t.status # "inherited"
  /\ t.required <=> t.findings # {}
  /\ \A f \in t.findings :
       /\ f \in DOMAIN findings /\ f.batch = k.batch /\ f.code = k.code
       /\ f.point = k.point /\ f.revision < k.revision
  /\ t.evidence # 0 => [k EXCEPT !.revision = t.evidence] \in DOMAIN measurements
  /\ t.required => t.status = IF k \notin DOMAIN measurements THEN "pending"
                              ELSE IF measurements[k].drafts = {} THEN "passed" ELSE "failed"
  /\ t.status = "passed" => \A f \in t.findings : findings[f] \in 1 .. k.revision

\* Inductive together with the invariants above.
ReferencesInv ==
  /\ \A s \in DOMAIN sensors : SensorSound(s)
  /\ \A k \in DOMAIN measurements : MeasurementSound(k)
  /\ \A b \in Batches : BatchSound(b)
  /\ \A k \in DOMAIN tasks : TaskSound(k)

\* Nothing refers to anything at the start.
LEMMA ReferencesInit == Init => ReferencesInv
<1> SUFFICES ASSUME Init PROVE ReferencesInv
  OBVIOUS
<1>1. DOMAIN sensors = {} /\ DOMAIN measurements = {} /\ DOMAIN tasks = {}
  BY DEF Init
<1>2. \A b \in Batches : status[b] = "absent"
  BY DEF Init
<1>3. QED
  BY <1>1, <1>2 DEF ReferencesInv, BatchSound, Locked

\* A command on a batch whose profile is locked: it stays locked.
Working(b) ==
  /\ Locked(b) /\ Locked(b)'
  /\ profile' = profile
  /\ status' = [status EXCEPT ![b] = status'[b]]

\* Every command prepares a batch or works on one whose profile stays as it is.
LEMMA CommandKinds ==
  ASSUME TypeOK, NEW b \in Batches, BatchNext(b)
  PROVE  \/ CreateBatch(b)
         \/ \E c \in Codes, range \in Ranges : RegisterSensor(b, c, range)
         \/ \E points \in SUBSET Points : LockProfile(b, points)
         \/ Working(b)
<1>1. ASSUME NEW s \in CurrentSensors(b), NEW drafts \in Judgements(b), NEW actor \in Actors,
             SubmitMeasurements(s, drafts, actor)
      PROVE  Working(b)
  <2>1. s.batch = b
    BY CurrentSensorType
  <2>2. QED
    BY <1>1, <2>1
    DEF SubmitMeasurements, SetEvaluationStatus, EvaluatedStatus, Working, Locked, TypeOK
<1>2. ASSUME NEW s \in CurrentSensors(b), Recalibrate(s)
      PROVE  Working(b)
  <2>1. s.batch = b /\ status[b] \in {"failed", "returned"} /\ profile' = profile
    BY <1>2, CurrentSensorType DEF Recalibrate
  <2>2. UNCHANGED status \/ MoveTo(b, "sampling")
    BY <1>2, <2>1 DEF Recalibrate
  <2>3. QED
    BY <2>1, <2>2 DEF MoveTo, Working, Locked, TypeOK
<1>3. ASSUME NEW actor \in Actors, ApproveReview(b, actor)
      PROVE  Working(b)
  BY <1>3 DEF ApproveReview, Freeze, MoveTo, Working, Locked, TypeOK
<1>4. ASSUME NEW actor \in Actors, NEW corrections \in SUBSET Corrections(b),
             ReturnReview(b, actor, corrections)
      PROVE  Working(b)
  BY <1>4 DEF ReturnReview, MoveTo, Working, Locked, TypeOK
<1>5. ASSUME NEW actor \in Actors, ResubmitReview(b, actor)
      PROVE  Working(b)
  BY <1>5 DEF ResubmitReview, MoveTo, Working, Locked, TypeOK
<1>6. ASSUME Issue(b)
      PROVE  Working(b)
  BY <1>6 DEF Issue, MoveTo, Working, Locked, TypeOK
<1>7. QED
  BY <1>1, <1>2, <1>3, <1>4, <1>5, <1>6 DEF BatchNext

\* Which commands add to a map.
LEMMA WhoWrites ==
  ASSUME NEW b \in Batches, BatchNext(b)
  PROVE  /\ \/ UNCHANGED sensors
            \/ \E c \in Codes, range \in Ranges : RegisterSensor(b, c, range)
            \/ \E s \in CurrentSensors(b) : Recalibrate(s)
         /\ \/ UNCHANGED measurements
            \/ \E s \in CurrentSensors(b), drafts \in Judgements(b), actor \in Actors :
                 SubmitMeasurements(s, drafts, actor)
         /\ \/ UNCHANGED tasks
            \/ \E s \in CurrentSensors(b) : Recalibrate(s)
            \/ \E s \in CurrentSensors(b), drafts \in Judgements(b), actor \in Actors :
                 SubmitMeasurements(s, drafts, actor)
         /\ \/ UNCHANGED findings
            \/ \E s \in CurrentSensors(b), drafts \in Judgements(b), actor \in Actors :
                 SubmitMeasurements(s, drafts, actor)
            \/ \E actor \in Actors, corrections \in SUBSET Corrections(b) :
                 ReturnReview(b, actor, corrections)
BY DEF BatchNext, CreateBatch, RegisterSensor, LockProfile, SubmitMeasurements, Recalibrate,
   ApproveReview, ReturnReview, ResubmitReview, Issue

\* What a submission does to the findings and to the tasks.
LEMMA SubmissionWrites ==
  ASSUME NEW b \in Batches, NEW s \in CurrentSensors(b), NEW drafts \in Judgements(b),
         NEW actor \in Actors, SubmitMeasurements(s, drafts, actor)
  PROVE  /\ findings' = [f \in DOMAIN findings \cup AutomaticFindings(s, drafts) |->
                           IF f \in AutomaticFindings(s, drafts) THEN 0
                           ELSE IF f \in ClearedFindings(s, drafts) THEN s.revision
                           ELSE findings[f]]
         /\ DOMAIN findings' = DOMAIN findings \cup AutomaticFindings(s, drafts)
         /\ DOMAIN tasks' = DOMAIN tasks
         /\ \A k \in DOMAIN tasks :
              \/ tasks'[k] = tasks[k]
              \/ \E st : tasks'[k] = [tasks[k] EXCEPT !.evidence = s.revision, !.status = st]
         /\ UNCHANGED <<profile, sensors>>
BY DEF SubmitMeasurements, ReplaceAutomaticFindings, UpdateRecalibrationTask

\* Where a submission leaves its batch, judged on what it has stored.
LEMMA SubmissionMoves ==
  ASSUME TypeOK, NEW b \in Batches, NEW s \in CurrentSensors(b),
         NEW drafts \in Judgements(b), NEW actor \in Actors,
         SubmitMeasurements(s, drafts, actor)
  PROVE  /\ Locked(b)
         /\ status'[b] \in {"sampling", "failed", "ready_review", "returned"}
         /\ status'[b] = "sampling" => ~ Complete(b)'
         /\ status'[b] = "failed" => Complete(b)' /\ OpenFindings(b)' # {}
<1>1. s.batch = b
  BY CurrentSensorType
<1>2. /\ status[b] \in {"plan_locked", "sampling", "failed", "returned"}
      /\ SetEvaluationStatus(b, Complete(b)', OpenFindings(b)')
  BY <1>1 DEF SubmitMeasurements
<1>3. QED
  BY <1>2 DEF SetEvaluationStatus, EvaluatedStatus, Locked, TypeOK

\* Every command keeps the revisions of a sensor without gaps and their ranges over
\* the profile.
LEMMA SensorsStep ==
  ASSUME TypeOK, ReferencesInv, NEW b \in Batches, BatchNext(b)
  PROVE  \A t \in DOMAIN sensors' : SensorSound(t)'
<1>1. \A t \in DOMAIN sensors : SensorSound(t) /\ t \in SensorRevision
  BY DEF ReferencesInv, TypeOK
<1>2. CASE CreateBatch(b)
  <2>1. /\ UNCHANGED <<sensors, profile>>
        /\ status' = [status EXCEPT ![b] = "draft"] /\ status[b] = "absent"
    BY <1>2 DEF CreateBatch
  <2>2. \A t \in DOMAIN sensors : t.batch \in Batches /\ t.batch # b
    BY <1>1, <2>1 DEF SensorSound, SensorRevision
  <2>3. QED
    BY <1>1, <2>1, <2>2 DEF SensorSound, Locked, TypeOK
<1>3. ASSUME NEW c \in Codes, NEW range \in Ranges, RegisterSensor(b, c, range)
      PROVE  \A t \in DOMAIN sensors' : SensorSound(t)'
  <2> DEFINE new == [batch |-> b, code |-> c, revision |-> 1]
  <2>1. /\ UNCHANGED <<status, profile>> /\ status[b] = "draft"
        /\ DOMAIN sensors' = DOMAIN sensors \cup {new}
        /\ \A t \in DOMAIN sensors : t # new => sensors'[t] = sensors[t]
    BY <1>3 DEF RegisterSensor
  <2>2. new \notin DOMAIN sensors
    BY <1>3 DEF RegisterSensor
  <2>3. SensorSound(new)'
    <3>1. new.batch = b /\ new.revision = 1
      OBVIOUS
    <3>2. \A r \in 1 .. 1 : [new EXCEPT !.revision = r] = new
      OBVIOUS
    <3> HIDE DEF new
    <3>3. QED
      BY <2>1, <3>1, <3>2 DEF SensorSound, Locked
  <2> HIDE DEF new
  <2>4. \A t \in DOMAIN sensors : SensorSound(t)'
    BY <1>1, <2>1, <2>2 DEF SensorSound, Locked
  <2>5. QED
    BY <2>1, <2>3, <2>4
<1>4. ASSUME NEW points \in SUBSET Points, LockProfile(b, points)
      PROVE  \A t \in DOMAIN sensors' : SensorSound(t)'
  <2>1. sensors' = sensors /\ status' = [status EXCEPT ![b] = "plan_locked"]
    BY <1>4 DEF LockProfile, MoveTo
  <2>2. \A t \in DOMAIN sensors : t.batch \in Batches
    BY <1>1 DEF SensorRevision
  <2>3. QED
    BY <1>1, <2>1, <2>2 DEF SensorSound, TypeOK
<1>5. CASE Working(b)
  <2>1. /\ profile' = profile
        /\ \A o \in Batches : status'[o] # status[o] => Locked(o) /\ Locked(o)'
    BY <1>5 DEF Working, TypeOK
  <2>2. ASSUME UNCHANGED sensors
        PROVE  \A t \in DOMAIN sensors' : SensorSound(t)'
    <3>1. \A t \in DOMAIN sensors : t.batch \in Batches
      BY <1>1 DEF SensorRevision
    <3>2. QED
      BY <1>1, <2>1, <2>2, <3>1 DEF SensorSound, Locked
  <2>3. ASSUME NEW s \in CurrentSensors(b), Recalibrate(s)
        PROVE  \A t \in DOMAIN sensors' : SensorSound(t)'
    <3> DEFINE new == [s EXCEPT !.revision = @ + 1]
    <3>1. /\ s \in SensorRevision /\ s \in DOMAIN sensors /\ s.batch = b
          /\ s.revision \in Nat
      BY CurrentSensorType DEF SensorRevision, Revisions
    <3>2. /\ DOMAIN sensors' = DOMAIN sensors \cup {new}
          /\ \A t \in DOMAIN sensors : t \in DOMAIN sensors' /\ sensors'[t] = sensors[t]
      BY <2>3, NextRevisionIsNew DEF Recalibrate
    <3>3. ASSUME NEW t \in DOMAIN sensors
          PROVE  SensorSound(t)'
      <4>1. t.batch \in Batches
        BY <1>1 DEF SensorRevision
      <4>2. QED
        BY <1>1, <2>1, <3>2, <4>1 DEF SensorSound, Locked
    <3>4. SensorSound(new)'
      <4>1. new.batch = b /\ new.revision = s.revision + 1
        BY <3>1 DEF SensorRevision
      <4>2. \A r \in 1 .. s.revision + 1 :
              [new EXCEPT !.revision = r] = [s EXCEPT !.revision = r]
        BY <3>1 DEF SensorRevision
      <4>3. [s EXCEPT !.revision = s.revision + 1] = new
        BY <3>1 DEF SensorRevision
      <4>4. \A r \in 1 .. s.revision : [s EXCEPT !.revision = r] \in DOMAIN sensors
        BY <1>1, <3>1 DEF SensorSound
      <4> HIDE DEF new
      <4>5. \A r \in 1 .. s.revision + 1 : [new EXCEPT !.revision = r] \in DOMAIN sensors'
        BY <3>1, <3>2, <4>2, <4>3, <4>4
      <4>6. Locked(b)'
        BY <1>5 DEF Working
      <4>7. QED
        BY <4>1, <4>5, <4>6 DEF SensorSound, Locked
    <3>5. QED
      BY <3>2, <3>3, <3>4
  <2>4. ASSUME NEW c \in Codes, NEW range \in Ranges, RegisterSensor(b, c, range)
        PROVE  FALSE
    BY <1>5, <2>4 DEF Working, Locked, RegisterSensor
  <2>5. QED
    BY <2>2, <2>3, <2>4, WhoWrites
<1>6. QED
  BY <1>2, <1>3, <1>4, <1>5, CommandKinds

\* A locked profile stays locked, and stays as it is.
LEMMA LockedStays ==
  ASSUME TypeOK, NEW b \in Batches, BatchNext(b), NEW o \in Batches, Locked(o)
  PROVE  Locked(o)' /\ profile'[o] = profile[o]
<1>1. CASE CreateBatch(b)
  BY <1>1 DEF CreateBatch, Locked, TypeOK
<1>2. ASSUME NEW c \in Codes, NEW range \in Ranges, RegisterSensor(b, c, range)
      PROVE  Locked(o)' /\ profile'[o] = profile[o]
  BY <1>2 DEF RegisterSensor, Locked
<1>3. ASSUME NEW points \in SUBSET Points, LockProfile(b, points)
      PROVE  Locked(o)' /\ profile'[o] = profile[o]
  BY <1>3 DEF LockProfile, MoveTo, Locked, TypeOK
<1>4. CASE Working(b)
  BY <1>4 DEF Working, Locked, TypeOK
<1>5. QED
  BY <1>1, <1>2, <1>3, <1>4, CommandKinds

\* No command takes a sensor revision away or changes its range.
LEMMA RangesStay ==
  ASSUME TypeOK, NEW b \in Batches, BatchNext(b), NEW t \in DOMAIN sensors
  PROVE  t \in DOMAIN sensors' /\ sensors'[t] = sensors[t]
<1>1. ASSUME NEW c \in Codes, NEW range \in Ranges, RegisterSensor(b, c, range)
      PROVE  t \in DOMAIN sensors' /\ sensors'[t] = sensors[t]
  <2> DEFINE new == [batch |-> b, code |-> c, revision |-> 1]
  <2>1. sensors' = [u \in DOMAIN sensors \cup {new} |-> IF u = new THEN range ELSE sensors[u]]
    BY <1>1 DEF RegisterSensor
  <2>2. new \notin DOMAIN sensors
    BY <1>1 DEF RegisterSensor
  <2>3. QED
    BY <2>1, <2>2
<1>2. ASSUME NEW s \in CurrentSensors(b), Recalibrate(s)
      PROVE  t \in DOMAIN sensors' /\ sensors'[t] = sensors[t]
  BY <1>2, NextRevisionIsNew DEF Recalibrate
<1>3. QED
  BY <1>1, <1>2, WhoWrites

\* Every command keeps measurements at points of a locked profile and in range.
LEMMA MeasurementsStep ==
  ASSUME TypeOK, ReferencesInv, NEW b \in Batches, BatchNext(b)
  PROVE  \A k \in DOMAIN measurements' : MeasurementSound(k)'
<1>1. \A k \in DOMAIN measurements : MeasurementSound(k) /\ k.batch \in Batches
  BY DEF ReferencesInv, TypeOK, MeasurementKey
<1>2. ASSUME NEW k \in DOMAIN measurements, k \in DOMAIN measurements',
             measurements'[k] = measurements[k]
      PROVE  MeasurementSound(k)'
  <2>1. Locked(k.batch)' /\ k.point \in profile'[k.batch]
    BY <1>1, LockedStays DEF MeasurementSound
  <2>2. Sensor(k) \in DOMAIN sensors' /\ sensors'[Sensor(k)] = sensors[Sensor(k)]
    BY <1>1, RangesStay DEF MeasurementSound
  <2>3. Sensor(k)' = Sensor(k)
    BY DEF Sensor
  <2>4. QED
    BY <1>1, <1>2, <2>1, <2>2, <2>3 DEF MeasurementSound
<1>3. ASSUME NEW s \in CurrentSensors(b), NEW drafts \in Judgements(b), NEW actor \in Actors,
             SubmitMeasurements(s, drafts, actor)
      PROVE  \A k \in DOMAIN measurements' : MeasurementSound(k)'
  <2> DEFINE keys == {Key(s, p) : p \in DOMAIN drafts}
  <2>1. /\ DOMAIN measurements' = DOMAIN measurements \cup keys
        /\ \A k \in keys : measurements'[k].extent = sensors[s]
        /\ \A k \in DOMAIN measurements \ keys : measurements'[k] = measurements[k]
    BY <1>3 DEF SubmitMeasurements, PutMeasurements
  <2>2. /\ s \in SensorRevision /\ s \in DOMAIN sensors /\ s.batch = b
        /\ DOMAIN drafts \subseteq profile[b]
    BY CurrentSensorType, JudgementType
  <2>3. Locked(b)
    BY <1>3, <2>2 DEF SubmitMeasurements, Locked
  <2>4. Locked(b)' /\ profile'[b] = profile[b]
    BY <2>3, LockedStays
  <2>5. s \in DOMAIN sensors' /\ sensors'[s] = sensors[s]
    BY <2>2, RangesStay
  <2>6. \A k \in keys : k.batch = b /\ k.point \in profile[b] /\ Sensor(k) = s
    BY <2>2 DEF Key, Sensor, SensorRevision
  <2> HIDE DEF keys
  <2>7. ASSUME NEW k \in keys PROVE MeasurementSound(k)'
    <3>1. Sensor(k)' = Sensor(k)
      BY DEF Sensor
    <3>2. QED
      BY <2>1, <2>4, <2>5, <2>6, <3>1 DEF MeasurementSound
  <2>8. QED
    BY <1>2, <2>1, <2>7
<1>4. ASSUME UNCHANGED measurements
      PROVE  \A k \in DOMAIN measurements' : MeasurementSound(k)'
  BY <1>2, <1>4
<1>5. QED
  BY <1>3, <1>4, WhoWrites

\* Every command keeps profiles of two points and credentials of released batches.
LEMMA BatchesStep ==
  ASSUME TypeOK, ReferencesInv, NEW b \in Batches, BatchNext(b)
  PROVE  \A o \in Batches : BatchSound(o)'
<1>1. \A o \in Batches : BatchSound(o)
  BY DEF ReferencesInv
<1>2. credentials \subseteq credentials'
  BY WorkOnOpenBatches DEF ApproveReview, Issue
<1>3. ASSUME NEW o \in Batches \ {b}
      PROVE  BatchSound(o)'
  <2>1. Untouched(o)
    BY OthersUntouched
  <2>2. CredentialsOf(o) \subseteq CredentialsOf(o)'
    BY <1>2 DEF CredentialsOf
  <2>3. QED
    BY <1>1, <2>1, <2>2 DEF BatchSound, Untouched, Locked
<1>4. Locked(b)' => Cardinality(profile'[b]) >= 2
  <2>1. ASSUME NEW points \in SUBSET Points, LockProfile(b, points)
        PROVE  Cardinality(profile'[b]) >= 2
    BY <2>1 DEF LockProfile, TypeOK
  <2>2. CASE CreateBatch(b)
    BY <2>2 DEF CreateBatch, Locked, TypeOK
  <2>3. ASSUME NEW c \in Codes, NEW range \in Ranges, RegisterSensor(b, c, range)
        PROVE  ~ Locked(b)'
    BY <2>3 DEF RegisterSensor, Locked
  <2>4. CASE Working(b)
    BY <1>1, <2>4 DEF Working, BatchSound
  <2>5. QED
    BY <2>1, <2>2, <2>3, <2>4, CommandKinds
<1>5. status'[b] = "released" => CredentialsOf(b)' # {}
  <2>1. ASSUME NEW actor \in Actors, ApproveReview(b, actor)
        PROVE  status'[b] # "released"
    BY <2>1 DEF ApproveReview, Freeze, MoveTo, TypeOK
  <2>2. CASE Issue(b)
    <3>1. Credential(b) \in credentials' /\ Credential(b).batch = b
      BY <2>2 DEF Issue, Credential
    <3>2. QED
      BY <3>1 DEF CredentialsOf
  <2>3. QED
    BY <2>1, <2>2, WorkOnOpenBatches DEF Approved
<1>6. QED
  BY <1>3, <1>4, <1>5 DEF BatchSound, Locked

-----------------------------------------------------------------------------
(* Tasks. *)

\* A task that a step leaves as it is stays sound: its findings are kept, a closed
\* one stays closed, and a required task is left alone only while its point is not
\* measured.
LEMMA TaskFrame ==
  ASSUME TypeOK, HistoryStep, NEW b \in Batches, BatchNext(b),
         NEW k \in DOMAIN tasks, k \in MeasurementKey, TaskSound(k), tasks'[k] = tasks[k],
         tasks[k].required /\ k \in DOMAIN measurements' => k \in DOMAIN measurements
  PROVE  TaskSound(k)'
<1> DEFINE t == tasks[k]
<1>1. /\ DOMAIN sensors \subseteq DOMAIN sensors'
      /\ DOMAIN measurements \subseteq DOMAIN measurements'
      /\ \A m \in DOMAIN measurements : measurements'[m] = measurements[m]
      /\ DOMAIN findings \subseteq DOMAIN findings'
      /\ \A f \in DOMAIN findings : findings[f] # 0 => findings'[f] = findings[f]
  BY DEF HistoryStep
<1>2. k.batch \in Batches /\ k.revision \in Nat
  BY DEF MeasurementKey, Revisions
<1>3. Locked(k.batch)' /\ profile'[k.batch] = profile[k.batch]
  BY <1>2, LockedStays DEF TaskSound
<1>4. t.required => t.status = IF k \notin DOMAIN measurements' THEN "pending"
                               ELSE IF measurements'[k].drafts = {} THEN "passed" ELSE "failed"
  BY <1>1 DEF TaskSound
<1>5. t.status = "passed" => \A f \in t.findings : findings'[f] \in 1 .. k.revision
  BY <1>1, <1>2 DEF TaskSound
<1>6. \A f \in t.findings : f \in DOMAIN findings'
  BY <1>1 DEF TaskSound
<1>7. t.evidence # 0 => [k EXCEPT !.revision = t.evidence] \in DOMAIN measurements'
  BY <1>1 DEF TaskSound
<1>8. QED
  BY <1>1, <1>3, <1>4, <1>5, <1>6, <1>7 DEF TaskSound

\* The tasks of a new revision are about what is open then, or inherit what has
\* been measured.
LEMMA RecalibrateTasks ==
  ASSUME TypeOK, EvidenceInv, ReferencesInv, HistoryStep, NEW b \in Batches, BatchNext(b),
         NEW s \in CurrentSensors(b), Recalibrate(s)
  PROVE  \A k \in DOMAIN tasks' : TaskSound(k)'
<1> DEFINE new == [s EXCEPT !.revision = @ + 1]
           keys == {Key(new, p) : p \in profile[b]}
<1>1. /\ s \in SensorRevision /\ s.batch = b /\ s.revision \in Nat /\ s.revision >= 1
      /\ s.revision < MaxRevision
  BY CurrentSensorType DEF SensorRevision, Revisions, Recalibrate
<1>2. /\ new \in SensorRevision /\ new.batch = b /\ new.code = s.code
      /\ new.revision = s.revision + 1
  BY <1>1, RevisionAssumption DEF SensorRevision, Revisions
<1>3. new \notin DOMAIN sensors /\ new \in DOMAIN sensors'
  BY NextRevisionIsNew DEF Recalibrate
<1>4. /\ tasks' = [k \in DOMAIN tasks \cup keys |->
                     IF k \in keys THEN NewTask(new, k.point) ELSE tasks[k]]
      /\ UNCHANGED <<measurements, findings>>
  BY <1>2 DEF Recalibrate, BuildRecalibrationTasks
<1>5. Locked(b) /\ Locked(b)' /\ profile'[b] = profile[b]
  <2>1. Locked(b)
    BY <1>1 DEF Recalibrate, Locked
  <2>2. QED
    BY <2>1, LockedStays
<1> HIDE DEF new
<1>6. ASSUME NEW p \in profile[b]
      PROVE  TaskSound(Key(new, p))'
  <2> DEFINE k == Key(new, p)
             t == NewTask(new, p)
  <2>1. p \in Points
    BY DEF TypeOK
  <2>2. /\ k.batch = b /\ k.code = s.code /\ k.revision = s.revision + 1 /\ k.point = p
        /\ Sensor(k) = new
    BY <1>2 DEF Key, Sensor, SensorRevision
  <2>3. tasks'[k] = t
    BY <1>4, <2>2
  <2>4. k \notin DOMAIN measurements
    BY <1>3, <2>2 DEF EvidenceInv, Registered
  <2>5. /\ t.required <=> t.status # "inherited"
        /\ t.required <=> t.findings # {}
        /\ t.required => t.status = "pending"
        /\ t.status # "passed"
    BY DEF NewTask
  <2>6. \A f \in t.findings : /\ f \in DOMAIN findings /\ f.batch = k.batch /\ f.code = k.code
                              /\ f.point = k.point /\ f.revision < k.revision
    BY <1>2, <2>2 DEF NewTask, FindingsToClear, OpenFindings, BatchFindings
  <2>7. ASSUME t.evidence # 0
        PROVE  [k EXCEPT !.revision = t.evidence] \in DOMAIN measurements
    <3>1. t.evidence = PreviousEvidence(new, p)
      BY <2>7 DEF NewTask
    <3>2. PreviousEvidence(new, p) \in EarlierEvidence(new, p)
      BY <1>2, <2>1, <2>7, <3>1, PreviousEvidenceType
    <3>3. Key([new EXCEPT !.revision = t.evidence], p) \in DOMAIN measurements
      BY <3>1, <3>2 DEF EarlierEvidence
    <3>4. [k EXCEPT !.revision = t.evidence] = Key([new EXCEPT !.revision = t.evidence], p)
      BY <1>2, KeyOfRevision DEF Key
    <3>5. QED
      BY <3>3, <3>4
  <2> HIDE DEF k, t
  <2>8. QED
    BY <1>1, <1>3, <1>4, <1>5, <2>2, <2>3, <2>4, <2>5, <2>6, <2>7 DEF TaskSound, k
<1>7. ASSUME NEW k \in DOMAIN tasks, k \notin keys
      PROVE  TaskSound(k)'
  <2>1. tasks'[k] = tasks[k] /\ k \in MeasurementKey /\ TaskSound(k)
    BY <1>4, <1>7 DEF TypeOK, ReferencesInv
  <2>2. QED
    BY <1>4, <2>1, TaskFrame
<1>8. QED
  BY <1>4, <1>6, <1>7

\* A submission settles the required tasks of the points it measures.  When one of
\* them passed, every finding the task was made for is closed: the open ones by this
\* very submission.
LEMMA SubmitTasks ==
  ASSUME TypeOK, EvidenceInv, ReferencesInv, HistoryStep, NEW b \in Batches, BatchNext(b),
         NEW s \in CurrentSensors(b), NEW drafts \in Judgements(b), NEW actor \in Actors,
         SubmitMeasurements(s, drafts, actor)
  PROVE  \A k \in DOMAIN tasks' : TaskSound(k)'
<1> DEFINE keys == {Key(s, p) : p \in DOMAIN drafts}
           raised == AutomaticFindings(s, drafts)
           cleared == ClearedFindings(s, drafts)
<1>1. /\ s \in SensorRevision /\ s \in DOMAIN sensors /\ s.batch = b
      /\ s.revision \in Nat /\ s.revision >= 1
  BY CurrentSensorType DEF SensorRevision, Revisions
<1>2. /\ keys \cap DOMAIN measurements = {}
      /\ measurements' = [k \in DOMAIN measurements \cup keys |->
            IF k \in keys THEN [drafts |-> drafts[k.point],
                                extent |-> sensors[s], capturedBy |-> actor]
                          ELSE measurements[k]]
  BY DEF SubmitMeasurements, PutMeasurements, NotYetMeasured
<1>3. tasks' = [k \in DOMAIN tasks |->
        IF tasks[k].required /\ k \in keys
          THEN [tasks[k] EXCEPT !.evidence = s.revision,
                  !.status = IF drafts[k.point] = {} THEN "passed" ELSE "failed"]
          ELSE tasks[k]]
  BY DEF SubmitMeasurements, UpdateRecalibrationTask
<1>4. findings' = [f \in DOMAIN findings \cup raised |->
                     IF f \in raised THEN 0
                     ELSE IF f \in cleared THEN s.revision ELSE findings[f]]
  BY DEF SubmitMeasurements, ReplaceAutomaticFindings
<1>5. UNCHANGED <<sensors, profile>>
  BY DEF SubmitMeasurements
<1>6. \A k \in keys : /\ k.batch = s.batch /\ k.code = s.code
                      /\ k.revision = s.revision /\ k.point \in DOMAIN drafts
  BY DEF Key
<1>7. \A f \in raised : f.revision = s.revision
  BY DEF AutomaticFindings
<1> HIDE DEF keys, raised
<1>8. ASSUME NEW k \in DOMAIN tasks PROVE TaskSound(k) /\ k \in MeasurementKey
  BY DEF ReferencesInv, TypeOK
<1>9. ASSUME NEW k \in DOMAIN tasks, k \in keys, tasks[k].required
      PROVE  TaskSound(k)'
  <2> DEFINE t == tasks[k]
  <2>1. TaskSound(k) /\ k \in MeasurementKey
    BY <1>8
  <2>2. /\ tasks'[k].evidence = s.revision /\ tasks'[k].required
        /\ tasks'[k].status = IF drafts[k.point] = {} THEN "passed" ELSE "failed"
        /\ tasks'[k].findings = t.findings
    <3>1. t \in RecalibrationTask
      BY DEF TypeOK
    <3>2. tasks'[k] = [t EXCEPT !.evidence = s.revision,
                         !.status = IF drafts[k.point] = {} THEN "passed" ELSE "failed"]
      BY <1>3, <1>9
    <3>3. QED
      BY <1>9, <3>1, <3>2 DEF RecalibrationTask
  <2>3. /\ k \in DOMAIN measurements' /\ measurements'[k].drafts = drafts[k.point]
        /\ k \notin DOMAIN measurements
    BY <1>2, <1>9
  <2>4. [k EXCEPT !.revision = s.revision] = k
    BY <1>6, <1>9, <2>1 DEF MeasurementKey
  <2>5. ASSUME NEW f \in t.findings
        PROVE  /\ f \in DOMAIN findings /\ f \in FindingKey /\ f.batch = s.batch
               /\ f.code = s.code /\ f.point = k.point /\ f.revision < s.revision
    BY <1>6, <1>9, <2>1 DEF TaskSound, TypeOK
  <2>6. ASSUME NEW f \in t.findings, drafts[k.point] = {}
        PROVE  findings'[f] \in 1 .. s.revision
    <3>1. f \in DOMAIN findings /\ f \notin raised /\ f.revision \in Nat
      BY <1>1, <1>7, <2>5, SensorType DEF Revisions
    <3>2. CASE findings[f] = 0
      <4>1. f \in cleared
        BY <1>6, <1>9, <2>5, <2>6, <3>2 DEF ClearedFindings, OpenFindings, BatchFindings
      <4>2. QED
        BY <1>1, <1>4, <3>1, <4>1
    <3>3. CASE findings[f] # 0
      <4>1. /\ findings[f] \in f.revision + 1 .. MaxRevision
            /\ Measured(Sensor(f), findings[f], f.point)
        BY <3>1, <3>3 DEF EvidenceInv, FindingsFollowEvidence, FollowsEvidence, Passes
      <4> DEFINE at == [batch |-> f.batch, code |-> f.code, revision |-> findings[f],
                        point |-> f.point]
      <4>2. at \in DOMAIN measurements
        BY <2>5, <4>1, SensorType, KeyOfRevision DEF Measured
      <4>3. findings[f] <= s.revision
        BY <2>5, <4>2, CurrentIsLast DEF EvidenceInv
      <4>4. f \notin cleared
        BY <3>3 DEF ClearedFindings, OpenFindings
      <4>5. findings'[f] = findings[f]
        BY <1>4, <3>1, <4>4
      <4>6. QED
        BY <1>1, <3>1, <4>1, <4>3, <4>5
    <3>4. QED
      BY <3>2, <3>3
  <2>7. Locked(k.batch)' /\ profile'[k.batch] = profile[k.batch]
    BY <2>1, LockedStays DEF TaskSound, MeasurementKey
  <2>8. \A f \in t.findings : f \in DOMAIN findings'
    BY <1>4, <2>5
  <2>9. k.revision = s.revision
    BY <1>6, <1>9
  <2>10. QED
    BY <1>5, <1>9, <2>1, <2>2, <2>3, <2>4, <2>6, <2>7, <2>8, <2>9 DEF TaskSound
<1>10. ASSUME NEW k \in DOMAIN tasks, ~ (k \in keys /\ tasks[k].required)
       PROVE  TaskSound(k)'
  <2>1. tasks'[k] = tasks[k]
    BY <1>3, <1>10
  <2>2. tasks[k].required /\ k \in DOMAIN measurements' => k \in DOMAIN measurements
    BY <1>2, <1>10
  <2>3. QED
    BY <1>8, <2>1, <2>2, TaskFrame
<1>11. QED
  BY <1>3, <1>9, <1>10

\* Every command keeps the tasks sound.
LEMMA TasksStep ==
  ASSUME TypeOK, EvidenceInv, ReferencesInv, NEW b \in Batches, BatchNext(b)
  PROVE  \A k \in DOMAIN tasks' : TaskSound(k)'
<1>1. HistoryStep
  BY HistoryNext
<1>2. ASSUME UNCHANGED <<tasks, measurements>>
      PROVE  \A k \in DOMAIN tasks' : TaskSound(k)'
  <2>1. \A k \in DOMAIN tasks : TaskSound(k) /\ k \in MeasurementKey
    BY DEF ReferencesInv, TypeOK
  <2>2. QED
    BY <1>1, <1>2, <2>1, TaskFrame
<1>3. QED
  BY <1>1, <1>2, WhoWrites, RecalibrateTasks, SubmitTasks

\* Every command keeps the cross-references.
LEMMA ReferencesNext ==
  TypeOK /\ EvidenceInv /\ ReferencesInv /\ [Next]_vars => ReferencesInv'
<1> SUFFICES ASSUME TypeOK, EvidenceInv, ReferencesInv, [Next]_vars PROVE ReferencesInv'
  OBVIOUS
<1>1. CASE UNCHANGED vars
  BY <1>1 DEF vars, batchVars, ReferencesInv, SensorSound, MeasurementSound, BatchSound,
     TaskSound, Locked, CredentialsOf
<1>2. ASSUME NEW b \in Batches, BatchNext(b) PROVE ReferencesInv'
  BY <1>2, SensorsStep, MeasurementsStep, BatchesStep, TasksStep DEF ReferencesInv
<1>3. QED
  BY <1>1, <1>2 DEF Next

\* A recalibration task says of its revision what the measurements say, and has
\* passed only when everything it was made for is closed.
THEOREM TasksAreSound == Spec => []TasksFollowEvidence
<1>1. TypeOK /\ ReferencesInv => TasksFollowEvidence
  <2> SUFFICES ASSUME TypeOK, ReferencesInv, NEW k \in DOMAIN tasks
               PROVE  LET s == Sensor(k) IN
                      IF ~tasks[k].required
                      THEN tasks[k].status = "inherited" /\ tasks[k].findings = {}
                      ELSE /\ tasks[k].findings # {}
                           /\ tasks[k].status =
                                IF k \notin DOMAIN measurements THEN "pending"
                                ELSE IF Passes(s, k.revision, k.point) THEN "passed"
                                ELSE "failed"
                           /\ tasks[k].status = "passed" =>
                                \A f \in tasks[k].findings : findings[f] \in 1 .. k.revision
    BY DEF TasksFollowEvidence
  <2>1. TaskSound(k) /\ k \in MeasurementKey /\ tasks[k].required \in BOOLEAN
    BY DEF ReferencesInv, TypeOK, RecalibrationTask
  <2>2. Key([Sensor(k) EXCEPT !.revision = k.revision], k.point) = k
    BY <2>1 DEF Sensor, Key, MeasurementKey
  <2>3. Passes(Sensor(k), k.revision, k.point)
          <=> k \in DOMAIN measurements /\ measurements[k].drafts = {}
    BY <2>2 DEF Passes, Measured
  <2>4. QED
    BY <2>1, <2>3 DEF TaskSound
<1>2. QED
  BY <1>1, TypeInit, TypeNext, EvidenceInit, EvidenceNext, ReferencesInit, ReferencesNext,
     PTL DEF Spec

-----------------------------------------------------------------------------
(* What Commit checks. *)

\* A credential names a version the batch has had.
CredentialsNumbered == \A c \in credentials : c.batchVersion >= 1

\* A credential is issued for a batch that was created, whose version is not 0.
LEMMA NumberedNext ==
  TypeOK /\ AbsentIsNew /\ CredentialsNumbered /\ [Next]_vars => CredentialsNumbered'
<1> SUFFICES ASSUME TypeOK, AbsentIsNew, CredentialsNumbered, [Next]_vars
             PROVE  CredentialsNumbered'
  OBVIOUS
<1>1. CASE UNCHANGED vars
  BY <1>1 DEF vars, CredentialsNumbered
<1>2. ASSUME NEW b \in Batches, BatchNext(b) PROVE CredentialsNumbered'
  <2>1. CASE Issue(b)
    <3>1. credentials' = credentials \cup {Credential(b)} /\ status[b] = "frozen"
      BY <2>1 DEF Issue
    <3>2. version[b] >= 1
      BY <3>1 DEF AbsentIsNew, TypeOK
    <3>3. Credential(b).batchVersion >= 1
      BY <3>2 DEF Credential
    <3>4. QED
      BY <3>1, <3>3 DEF CredentialsNumbered
  <2>2. CASE UNCHANGED credentials
    BY <2>2 DEF CredentialsNumbered
  <2>3. QED
    BY <1>2, <2>1, <2>2, WorkOnOpenBatches DEF ApproveReview
<1>3. QED
  BY <1>1, <1>2 DEF Next

\* The projection of a batch as Commit checks it.
LEMMA BatchIsValid ==
  ASSUME TypeOK, AbsentIsNew, DutiesInv, ReviewProtocol, ReferencesInv, NEW b \in Batches
  PROVE  ValidBatch(b)
<1>1. status[b] # "absent" => version[b] >= 1
  BY DEF AbsentIsNew, TypeOK
<1>2. ASSUME Approved(b) PROVE reviewedBy[b] # Nobody
  <2> DEFINE r == reviews[b]
  <2>1. LastWord(r) = "approved" /\ r[Len(r)].reviewer = reviewedBy[b]
    BY <1>2, ProtocolIsReviewProtocol DEF Protocol
  <2>2. r \in Seq(ReviewRecord) /\ r # <<>>
    BY <2>1 DEF TypeOK, LastWord
  <2>3. r[Len(r)] \in ReviewRecord
    BY <2>2, EmptySeq, LenProperties, ElementOfSeq
  <2>4. QED
    BY <2>1, <2>3, NobodyAssumption DEF ReviewRecord
<1>3. Approved(b) => ~ HasSampler(b, reviewedBy[b])
  BY DEF DutiesInv, ApproverDidNotSample, HasSampler
<1>4. BatchSound(b)
  BY DEF ReferencesInv
<1>5. QED
  BY <1>1, <1>2, <1>3, <1>4 DEF ValidBatch, BatchSound, Locked, Approved

\* A finding is about a registered revision, and so is what closed it.
LEMMA FindingIsValid ==
  ASSUME TypeOK, EvidenceInv, NEW f \in DOMAIN findings
  PROVE  ValidFinding(f)
<1>1. f \in FindingKey /\ Sensor(f) \in DOMAIN sensors /\ FollowsEvidence(f)
  BY DEF TypeOK, EvidenceInv, Registered, FindingsFollowEvidence
<1>2. ASSUME findings[f] # 0
      PROVE  /\ [Sensor(f) EXCEPT !.revision = findings[f]] \in DOMAIN sensors
             /\ findings[f] > f.revision
  <2> DEFINE at == [batch |-> f.batch, code |-> f.code, revision |-> findings[f],
                    point |-> f.point]
  <2>1. findings[f] \in f.revision + 1 .. MaxRevision /\ Measured(Sensor(f), findings[f], f.point)
    BY <1>1, <1>2 DEF FollowsEvidence, Passes
  <2>2. at \in DOMAIN measurements
    BY <1>1, <2>1, SensorType, KeyOfRevision DEF Measured
  <2>3. Sensor(at) \in DOMAIN sensors
    BY <2>2 DEF EvidenceInv, Registered
  <2>4. Sensor(at) = [Sensor(f) EXCEPT !.revision = findings[f]]
    BY DEF Sensor
  <2>5. findings[f] > f.revision
    BY <1>1, <2>1, SensorType DEF Revisions
  <2>6. QED
    BY <2>3, <2>4, <2>5
<1>3. QED
  BY <1>1, <1>2 DEF ValidFinding

\* What is measured is a point of the profile, and the readings are in range.
LEMMA MeasurementIsValid ==
  ASSUME ReferencesInv, NEW k \in DOMAIN measurements
  PROVE  ValidMeasurement(k)
BY DEF ReferencesInv, MeasurementSound, ValidMeasurement

\* A credential belongs to a released batch, whose sensors no longer change.
LEMMA CredentialIsValid ==
  ASSUME CredentialInv, CredentialsNumbered, NEW c \in credentials
  PROVE  ValidCredential(c)
<1>1. status[c.batch] = "released" /\ c.revisions = CurrentSensors(c.batch)
  BY DEF CredentialInv, VerifyCredential
<1>2. QED
  BY <1>1 DEF CredentialsNumbered, ValidCredential, CurrentSensors

\* What the guards of the commands accept, the validation of Commit accepts too.
THEOREM AcceptedCommandsValidate == Spec => []AcceptedProjectionsValidate
<1>1. /\ TypeOK /\ EvidenceInv /\ ReferencesInv /\ AbsentIsNew /\ DutiesInv
      /\ ReviewProtocol /\ CredentialInv /\ CredentialsNumbered
      => AcceptedProjectionsValidate
  <2> SUFFICES ASSUME TypeOK, EvidenceInv, ReferencesInv, AbsentIsNew, DutiesInv,
                      ReviewProtocol, CredentialInv, CredentialsNumbered
               PROVE  ValidateSnapshot
    BY DEF AcceptedProjectionsValidate
  <2>1. \A s \in DOMAIN sensors : ValidSensor(s)
    BY DEF ReferencesInv, SensorSound, ValidSensor
  <2>2. \A k \in DOMAIN tasks : ValidTask(k)
    BY DEF ReferencesInv, TaskSound, ValidTask
  <2>3. QED
    BY <2>1, <2>2, BatchIsValid, FindingIsValid, MeasurementIsValid, CredentialIsValid
    DEF ValidateSnapshot
<1>2. Init => CredentialsNumbered
  BY DEF Init, CredentialsNumbered
<1>3. QED
  BY <1>1, <1>2, TypeInit, TypeNext, EvidenceInit, EvidenceNext, ReferencesInit,
     ReferencesNext, AbsentInit, AbsentNext, DutiesInit, DutiesNext, ProtocolInit,
     ProtocolNext, CredentialInit, CredentialNext, NumberedNext, PTL DEF Spec

=============================================================================
