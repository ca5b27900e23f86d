---------------------------- MODULE ViewsProofs ----------------------------
(***************************************************************************)
(* Theorems about what people are told of a batch: the retest tasks of a   *)
(* revision, the verification of a credential, and whether the batch can   *)
(* still go on.                                                            *)
(***************************************************************************)
EXTENDS Views, ReleaseProofs, FiniteSetTheorems

-----------------------------------------------------------------------------
(* Retest tasks. *)

\* The findings of a point that the revisions before r could not close, whatever
\* became of them since.
LeftTo(k) ==
  {f \in DOMAIN findings :
     /\ f.batch = k.batch /\ f.code = k.code /\ f.point = k.point
     /\ f.revision < k.revision
     /\ findings[f] = 0 \/ findings[f] >= k.revision}

\* A recalibrated revision has a task for every point of the profile, and a task is
\* about exactly what was left to its revision.
RetestInv ==
  /\ \A s \in DOMAIN sensors : s.revision >= 2 =>
       \A p \in profile[s.batch] : Key(s, p) \in DOMAIN tasks
  /\ \A k \in DOMAIN tasks : tasks[k].findings = LeftTo(k)

\* The points a step leaves behind: only findings about a current revision are
\* raised, and only by a current revision are they closed, so what was left to a
\* revision that has tasks already never changes.
LEMMA LeftToFrame ==
  ASSUME TypeOK, EvidenceInv, NEW b \in Batches, BatchNext(b),
         NEW k \in MeasurementKey, Sensor(k) \in DOMAIN sensors
  PROVE  LeftTo(k)' = LeftTo(k)
<1> DEFINE Left(f) ==
             /\ f \in DOMAIN findings
             /\ f.batch = k.batch /\ f.code = k.code /\ f.point = k.point
             /\ f.revision < k.revision
             /\ findings[f] = 0 \/ findings[f] >= k.revision
           LeftThen(f) ==
             /\ f \in DOMAIN findings'
             /\ f.batch = k.batch /\ f.code = k.code /\ f.point = k.point
             /\ f.revision < k.revision
             /\ findings'[f] = 0 \/ findings'[f] >= k.revision
<1>1. /\ Sensor(k).batch = k.batch /\ Sensor(k).code = k.code
      /\ Sensor(k).revision = k.revision /\ k.revision \in Nat /\ k.revision >= 1
  BY SensorType DEF Revisions
<1>2. ASSUME NEW s \in CurrentSensors(b), k.batch = s.batch, k.code = s.code
      PROVE  k.revision <= s.revision /\ s.revision \in Nat
  <2>1. s \in SensorRevision
    BY CurrentSensorType
  <2>2. QED
    BY <1>1, <1>2, <2>1 DEF CurrentSensors, IsCurrentRevision, SensorRevision, Revisions
<1>3. CASE UNCHANGED findings
  BY <1>3 DEF LeftTo
<1>4. ASSUME NEW s \in CurrentSensors(b), NEW drafts \in Judgements(b), NEW actor \in Actors,
             SubmitMeasurements(s, drafts, actor)
      PROVE  LeftTo(k)' = LeftTo(k)
  <2> DEFINE raised == AutomaticFindings(s, drafts)
             cleared == ClearedFindings(s, drafts)
  <2>1. findings' = [f \in DOMAIN findings \cup raised |->
                       IF f \in raised THEN 0
                       ELSE IF f \in cleared THEN s.revision ELSE findings[f]]
    BY <1>4, SubmissionWrites
  <2>2. \A f \in raised : f.batch = s.batch /\ f.code = s.code /\ f.revision = s.revision
    BY DEF AutomaticFindings
  <2>3. \A f \in cleared : /\ f.batch = b /\ f.code = s.code /\ f \in DOMAIN findings
                           /\ findings[f] = 0
    BY CurrentSensorType DEF ClearedFindings, OpenFindings, BatchFindings
  <2>4. s.batch = b
    BY CurrentSensorType
  <2> HIDE DEF raised, cleared
  <2>5. ASSUME NEW f PROVE LeftThen(f) <=> Left(f)
    <3>1. CASE f \in raised
      BY <1>1, <1>2, <2>2, <3>1
    <3>2. CASE f \notin raised /\ f \in cleared
      BY <1>1, <1>2, <2>1, <2>3, <2>4, <3>2
    <3>3. CASE f \notin raised /\ f \notin cleared
      BY <2>1, <3>3
    <3>4. QED
      BY <3>1, <3>2, <3>3
  <2>6. QED
    BY <2>5 DEF LeftTo
<1>5. ASSUME NEW actor \in Actors, NEW corrections \in SUBSET Corrections(b),
             ReturnReview(b, actor, corrections)
      PROVE  LeftTo(k)' = LeftTo(k)
  <2>1. findings' = [f \in DOMAIN findings \cup corrections |->
                       IF f \in corrections THEN 0 ELSE findings[f]]
    BY <1>5 DEF ReturnReview
  <2>2. ASSUME NEW f \in corrections, f.batch = k.batch, f.code = k.code
        PROVE  ~ (f.revision < k.revision)
    <3>1. PICK s \in CurrentSensors(b) : f.code = s.code /\ f.revision = s.revision
      BY CorrectionsAreFindings
    <3>2. f.batch = b /\ s.batch = b
      BY CorrectionsAreFindings, CurrentSensorType
    <3>3. QED
      BY <1>1, <1>2, <2>2, <3>1, <3>2
  <2>3. ASSUME NEW f PROVE LeftThen(f) <=> Left(f)
    <3>1. CASE f \in corrections
      BY <2>2, <3>1
    <3>2. CASE f \notin corrections
      BY <2>1, <3>2
    <3>3. QED
      BY <3>1, <3>2
  <2>4. QED
    BY <2>3 DEF LeftTo
<1>6. \/ UNCHANGED findings
      \/ \E s \in CurrentSensors(b), drafts \in Judgements(b), actor \in Actors :
           SubmitMeasurements(s, drafts, actor)
      \/ \E actor \in Actors, corrections \in SUBSET Corrections(b) :
           ReturnReview(b, actor, corrections)
  BY WhoWrites
<1>7. QED
  BY <1>3, <1>4, <1>5, <1>6

\* The tasks of a new revision are about what is open: nothing was closed by a
\* revision that did not exist.
LEMMA NewTasksAreExact ==
  ASSUME TypeOK, EvidenceInv, NEW b \in Batches, NEW s \in CurrentSensors(b),
         NEW new \in SensorRevision, new = [s EXCEPT !.revision = @ + 1],
         NEW p \in profile[b]
  PROVE  NewTask(new, p).findings = LeftTo(Key(new, p))
<1>1. /\ s \in SensorRevision /\ s.batch = b /\ s.revision \in Nat
      /\ new.batch = b /\ new.code = s.code /\ new.revision = s.revision + 1
  BY CurrentSensorType DEF SensorRevision, Revisions
<1>2. ASSUME NEW f \in DOMAIN findings, f.batch = b, f.code = s.code, findings[f] # 0
      PROVE  ~ (findings[f] >= new.revision)
  <2>1. f \in FindingKey /\ findings[f] \in Nat /\ f.revision \in Nat
    BY SensorType DEF TypeOK, Revisions
  <2>2. /\ findings[f] \in f.revision + 1 .. MaxRevision
        /\ Measured(Sensor(f), findings[f], f.point)
    BY <1>2 DEF EvidenceInv, FindingsFollowEvidence, FollowsEvidence, Passes
  <2> DEFINE at == [batch |-> f.batch, code |-> f.code, revision |-> findings[f],
                    point |-> f.point]
  <2>3. at \in DOMAIN measurements
    BY <2>1, <2>2, SensorType, KeyOfRevision DEF Measured
  <2>4. findings[f] <= s.revision
    BY <1>1, <1>2, <2>3, CurrentIsLast DEF EvidenceInv
  <2>5. QED
    BY <1>1, <2>1, <2>4
<1>3. NewTask(new, p).findings = FindingsToClear(new, p)
  BY DEF NewTask
<1>4. ASSUME NEW f
      PROVE  f \in FindingsToClear(new, p) <=> f \in LeftTo(Key(new, p))
  BY <1>1, <1>2 DEF FindingsToClear, OpenFindings, BatchFindings, LeftTo, Key
<1>5. QED
  BY <1>3, <1>4

\* Every command keeps the tasks complete and exact.
LEMMA RetestStep ==
  ASSUME TypeOK, EvidenceInv, ReferencesInv, RetestInv, NEW b \in Batches, BatchNext(b)
  PROVE  RetestInv'
<1>1. ASSUME NEW k \in DOMAIN tasks
      PROVE  /\ k \in MeasurementKey /\ Sensor(k) \in DOMAIN sensors
             /\ LeftTo(k)' = LeftTo(k) /\ tasks[k].findings = LeftTo(k)
  <2>1. k \in MeasurementKey /\ Sensor(k) \in DOMAIN sensors
    BY DEF TypeOK, ReferencesInv, TaskSound
  <2>2. QED
    BY <2>1, LeftToFrame DEF RetestInv
<1>2. ASSUME NEW s \in DOMAIN sensors, s.revision >= 2
      PROVE  /\ profile'[s.batch] = profile[s.batch]
             /\ \A p \in profile[s.batch] : Key(s, p) \in DOMAIN tasks
  <2>1. SensorSound(s) /\ s.batch \in Batches
    BY DEF ReferencesInv, TypeOK, SensorRevision
  <2>2. Locked(s.batch)
    BY <1>2, <2>1 DEF SensorSound, Locked
  <2>3. QED
    BY <1>2, <2>1, <2>2, LockedStays DEF RetestInv
<1>3. ASSUME NEW s \in CurrentSensors(b), Recalibrate(s)
      PROVE  RetestInv'
  <2> DEFINE new == [s EXCEPT !.revision = @ + 1]
             keys == {Key(new, p) : p \in profile[b]}
  <2>1. /\ s \in SensorRevision /\ s.batch = b /\ s.revision \in Nat /\ s.revision >= 1
        /\ s.revision < MaxRevision
    BY <1>3, CurrentSensorType DEF SensorRevision, Revisions, Recalibrate
  <2>2. new \in SensorRevision /\ new.batch = b
    BY <2>1, RevisionAssumption DEF SensorRevision, Revisions
  <2>3. /\ tasks' = [k \in DOMAIN tasks \cup keys |->
                       IF k \in keys THEN NewTask(new, k.point) ELSE tasks[k]]
        /\ DOMAIN sensors' = DOMAIN sensors \cup {new}
        /\ findings' = findings /\ profile' = profile
    BY <1>3, <2>2 DEF Recalibrate, BuildRecalibrationTasks
  <2>4. \A p : Key(new, p).point = p
    BY DEF Key
  <2>5. \A p \in profile[b] : NewTask(new, p).findings = LeftTo(Key(new, p))
    BY <2>2, NewTasksAreExact
  <2>6. \A k : LeftTo(k)' = LeftTo(k)
    BY <2>3 DEF LeftTo
  <2> HIDE DEF new
  <2>7. \A k \in DOMAIN tasks' : tasks'[k].findings = LeftTo(k)'
    BY <1>1, <2>3, <2>4, <2>5, <2>6
  <2>8. ASSUME NEW t \in DOMAIN sensors', t.revision >= 2, NEW p \in profile'[t.batch]
        PROVE  Key(t, p) \in DOMAIN tasks'
    BY <1>2, <2>2, <2>3, <2>8
  <2>9. QED
    BY <2>7, <2>8 DEF RetestInv, Key
<1>4. ASSUME NEW s \in CurrentSensors(b), NEW drafts \in Judgements(b), NEW actor \in Actors,
             SubmitMeasurements(s, drafts, actor)
      PROVE  RetestInv'
  <2>1. /\ DOMAIN tasks' = DOMAIN tasks /\ sensors' = sensors
        /\ \A k \in DOMAIN tasks : tasks'[k].findings = tasks[k].findings
    <3>1. \A k \in DOMAIN tasks : tasks[k] \in RecalibrationTask
      BY DEF TypeOK
    <3>2. \A st : \A t \in RecalibrationTask :
            [t EXCEPT !.evidence = s.revision, !.status = st].findings = t.findings
      BY DEF RecalibrationTask
    <3>3. /\ sensors' = sensors
          /\ DOMAIN tasks' = DOMAIN tasks
          /\ \A k \in DOMAIN tasks :
               tasks'[k] = tasks[k] \/
               \E st : tasks'[k] = [tasks[k] EXCEPT !.evidence = s.revision, !.status = st]
      BY <1>4, SubmissionWrites
    <3>4. ASSUME NEW k \in DOMAIN tasks
          PROVE  tasks'[k].findings = tasks[k].findings
      <4>1. CASE tasks'[k] = tasks[k]
        BY <4>1
      <4>2. ASSUME NEW st,
                   tasks'[k] = [tasks[k] EXCEPT !.evidence = s.revision, !.status = st]
            PROVE  tasks'[k].findings = tasks[k].findings
        BY <3>1, <3>2, <4>2
      <4>3. QED
        BY <3>3, <4>1, <4>2
    <3>5. QED
      BY <3>3, <3>4
  <2>2. \A k \in DOMAIN tasks' : tasks'[k].findings = LeftTo(k)'
    BY <1>1, <2>1
  <2>3. ASSUME NEW t \in DOMAIN sensors', t.revision >= 2, NEW p \in profile'[t.batch]
        PROVE  Key(t, p) \in DOMAIN tasks'
    BY <1>2, <2>1, <2>3
  <2>4. QED
    BY <2>2, <2>3 DEF RetestInv, Key
<1>5. ASSUME UNCHANGED tasks,
             \A t \in DOMAIN sensors' : t \in DOMAIN sensors \/ t.revision = 1
      PROVE  RetestInv'
  BY <1>1, <1>2, <1>5 DEF RetestInv, Key
<1>6. ASSUME NEW c \in Codes, NEW range \in Ranges, RegisterSensor(b, c, range)
      PROVE  \A t \in DOMAIN sensors' : t \in DOMAIN sensors \/ t.revision = 1
  BY <1>6 DEF RegisterSensor
<1>7. QED
  BY <1>3, <1>4, <1>5, <1>6, WhoWrites

\* RetestInv is inductive together with the invariants before it.
LEMMA RetestNext ==
  TypeOK /\ EvidenceInv /\ ReferencesInv /\ RetestInv /\ [Next]_vars => RetestInv'
<1>1. TypeOK /\ EvidenceInv /\ ReferencesInv /\ RetestInv /\ Next => RetestInv'
  BY RetestStep DEF Next
<1>2. RetestInv /\ UNCHANGED vars => RetestInv'
  BY DEF vars, batchVars, RetestInv, LeftTo, Key
<1>3. QED
  BY <1>1, <1>2

\* No revision and no task at the start.
LEMMA RetestInit == Init => RetestInv
BY DEF Init, RetestInv

\* A set of points has as many keys in a revision.
LEMMA KeysOfPoints ==
  ASSUME NEW s, NEW P \in SUBSET Points
  PROVE  LET K == {Key(s, p) : p \in P} IN IsFiniteSet(K) /\ Cardinality(K) = Cardinality(P)
<1> DEFINE K == {Key(s, p) : p \in P}
           f == [p \in P |-> Key(s, p)]
<1>1. IsFiniteSet(P)
  BY PointsAssumption, FS_Subset
<1>2. \A p, q \in P : Key(s, p) = Key(s, q) => p = q
  BY DEF Key
<1>3. f \in Injection(P, K) /\ f \in Surjection(P, K)
  BY <1>2 DEF Injection, IsInjective, Surjection
<1>4. ExistsBijection(P, K)
  BY <1>3 DEF ExistsBijection, Bijection
<1>5. QED
  BY <1>1, <1>4, FS_Bijection

\* Disjoint parts of a finite set add up.
LEMMA PartsAddUp ==
  ASSUME NEW S, NEW A \in SUBSET S, NEW B \in SUBSET S, IsFiniteSet(S),
         A \cap B = {}, A \cup B = S
  PROVE  /\ Cardinality(S) = Cardinality(A) + Cardinality(B)
         /\ Cardinality(A) \in Nat /\ Cardinality(B) \in Nat
         /\ IsFiniteSet(A) /\ IsFiniteSet(B)
<1>1. IsFiniteSet(A) /\ IsFiniteSet(B)
  BY FS_Subset
<1>2. Cardinality(A \cap B) = 0
  BY FS_EmptySet
<1>3. Cardinality(A) \in Nat /\ Cardinality(B) \in Nat
  BY <1>1, FS_CardinalityType
<1>4. Cardinality(S) = Cardinality(A) + Cardinality(B) - 0
  BY <1>1, <1>2, FS_Union
<1>5. QED
  BY <1>1, <1>3, <1>4

\* The tasks of a current revision, and which of them still wait to be passed.
LEMMA TasksOfRevision ==
  ASSUME TypeOK, EvidenceInv, ReferencesInv, RetestInv,
         NEW b \in Batches, NEW s \in CurrentSensors(b), s.revision >= 2
  PROVE  LET own == RecalibrationTasksForRevision(s) IN
         /\ own = {Key(s, p) : p \in profile[b]}
         /\ \A k \in own :
              /\ tasks[k].required \in BOOLEAN
              /\ tasks[k].status \in {"pending", "passed", "failed", "inherited"}
              /\ tasks[k].required <=> tasks[k].status # "inherited"
         /\ \A p \in profile[b] :
              tasks[Key(s, p)].required /\ tasks[Key(s, p)].status # "passed"
                <=> FindingsToClear(s, p) # {}
<1> DEFINE own == RecalibrationTasksForRevision(s)
<1>1. /\ s \in SensorRevision /\ s \in DOMAIN sensors /\ s.batch = b /\ s.revision \in Nat
  BY CurrentSensorType DEF SensorRevision, Revisions
<1>2. ASSUME NEW k \in own
      PROVE  /\ k \in DOMAIN tasks /\ k \in MeasurementKey /\ TaskSound(k)
             /\ k = Key(s, k.point) /\ k.point \in profile[b]
  <2>1. k \in DOMAIN tasks /\ k \in MeasurementKey /\ TaskSound(k) /\ Sensor(k) = s
    BY DEF RecalibrationTasksForRevision, TypeOK, ReferencesInv
  <2>2. s.batch = k.batch /\ s.code = k.code /\ s.revision = k.revision
    BY <2>1, SensorType
  <2>3. k = Key(s, k.point)
    BY <2>1, <2>2 DEF Key, MeasurementKey
  <2>4. QED
    BY <1>1, <2>1, <2>2, <2>3 DEF TaskSound
<1>3. ASSUME NEW p \in profile[b]
      PROVE  Key(s, p) \in own
  <2>1. Key(s, p) \in DOMAIN tasks
    BY <1>1 DEF RetestInv
  <2>2. Sensor(Key(s, p)) = s
    BY <1>1 DEF Sensor, Key, SensorRevision
  <2>3. QED
    BY <2>1, <2>2 DEF RecalibrationTasksForRevision
<1>4. \A k \in own :
        /\ tasks[k].required \in BOOLEAN
        /\ tasks[k].status \in {"pending", "passed", "failed", "inherited"}
        /\ tasks[k].required <=> tasks[k].status # "inherited"
  BY <1>2 DEF TypeOK, RecalibrationTask, TaskSound
<1> HIDE DEF own
<1>5. ASSUME NEW p \in profile[b]
      PROVE  tasks[Key(s, p)].required /\ tasks[Key(s, p)].status # "passed"
               <=> FindingsToClear(s, p) # {}
  <2> DEFINE k == Key(s, p)
             t == tasks[k]
  <2>1. k \in DOMAIN tasks /\ k \in MeasurementKey /\ TaskSound(k)
    BY <1>2, <1>3
  <2>2. k.batch = b /\ k.code = s.code /\ k.revision = s.revision /\ k.point = p
    BY <1>1 DEF Key
  <2>3. t.findings = LeftTo(k)
    BY <2>1 DEF RetestInv
  <2>4. t.required <=> t.findings # {}
    BY <2>1 DEF TaskSound
  <2>5. t.required => t.status = IF k \notin DOMAIN measurements THEN "pending"
                                 ELSE IF measurements[k].drafts = {} THEN "passed" ELSE "failed"
    BY <2>1 DEF TaskSound
  <2>6. t.status = "passed" => \A f \in t.findings : findings[f] \in 1 .. k.revision
    BY <2>1 DEF TaskSound
  <2> HIDE DEF t
  <2>7. ASSUME t.required, t.status # "passed"
        PROVE  FindingsToClear(s, p) # {}
    <3>1. PICK f \in LeftTo(k) : TRUE
      BY <2>3, <2>4, <2>7
    <3>2. /\ f \in DOMAIN findings /\ f.batch = b /\ f.code = s.code /\ f.point = p
          /\ f.revision < s.revision
          /\ findings[f] = 0 \/ findings[f] >= s.revision
      BY <2>2, <3>1 DEF LeftTo
    <3>3. findings[f] = 0
      <4>1. SUFFICES ASSUME findings[f] # 0 PROVE FALSE
        OBVIOUS
      <4>2. f \in FindingKey /\ findings[f] \in Nat /\ f.revision \in Nat
        BY <3>2, SensorType DEF TypeOK, Revisions
      <4>3. Passes(Sensor(f), findings[f], f.point)
        BY <3>2, <4>1 DEF EvidenceInv, FindingsFollowEvidence, FollowsEvidence
      <4> DEFINE at == [batch |-> f.batch, code |-> f.code, revision |-> findings[f],
                        point |-> f.point]
      <4>4. at \in DOMAIN measurements /\ measurements[at].drafts = {}
        BY <4>2, <4>3, SensorType, KeyOfRevision DEF Passes, Measured
      <4>5. findings[f] <= s.revision
        BY <1>1, <3>2, <4>4, CurrentIsLast DEF EvidenceInv
      <4>6. findings[f] = s.revision
        BY <1>1, <3>2, <4>1, <4>2, <4>5
      <4>7. at = k
        BY <1>1, <3>2, <4>6 DEF Key
      <4>8. QED
        BY <2>5, <2>7, <4>4, <4>7
    <3>4. f \in FindingsToClear(s, p)
      BY <1>1, <3>2, <3>3 DEF FindingsToClear, OpenFindings, BatchFindings
    <3>5. QED
      BY <3>4
  <2>8. ASSUME FindingsToClear(s, p) # {}
        PROVE  t.required /\ t.status # "passed"
    <3>1. PICK f \in FindingsToClear(s, p) : TRUE
      BY <2>8
    <3>2. f \in LeftTo(k) /\ findings[f] = 0
      BY <1>1, <2>2, <3>1 DEF FindingsToClear, OpenFindings, BatchFindings, LeftTo
    <3>3. f \in t.findings
      BY <2>3, <3>2
    <3>4. t.status # "passed"
      <4>1. ASSUME t.status = "passed" PROVE FALSE
        <5>1. findings[f] \in 1 .. k.revision
          BY <2>6, <3>3, <4>1
        <5>2. QED
          BY <2>2, <3>2, <5>1
      <4>2. QED
        BY <4>1
    <3>5. QED
      BY <2>4, <3>3, <3>4
  <2>9. QED
    BY <2>7, <2>8 DEF t
<1>6. own = {Key(s, p) : p \in profile[b]}
  BY <1>2, <1>3
<1>7. QED
  BY <1>4, <1>5, <1>6 DEF own

\* The counts shown for a recalibrated revision add up to its points, and the
\* points it is said to wait for are those with an open finding of an earlier
\* revision.
THEOREM RetestCountsAreSound == Spec => []RetestCountsAgree
<1>1. ASSUME TypeOK, EvidenceInv, ReferencesInv, RetestInv
      PROVE  RetestCountsAgree
  <2> SUFFICES ASSUME NEW b \in Batches, NEW s \in CurrentSensors(b), s.revision >= 2
               PROVE  LET view == RecalibrationTasks(s) IN
                      /\ view.required + view.inherited = Cardinality(profile[b])
                      /\ view.required = view.completed + view.pending + view.failed
                      /\ pendingRetestPoints(s) =
                           Cardinality({p \in profile[b] : FindingsToClear(s, p) # {}})
    BY DEF RetestCountsAgree
  <2> DEFINE own == RecalibrationTasksForRevision(s)
             passed == {k \in own : tasks[k].status = "passed"}
             pending == {k \in own : tasks[k].status = "pending"}
             failed == {k \in own : tasks[k].status = "failed"}
             inherited == {k \in own : tasks[k].status = "inherited"}
             required == {k \in own : tasks[k].required}
             settled == passed \cup pending
             waiting == {k \in own : tasks[k].required /\ tasks[k].status # "passed"}
             due == {p \in profile[b] : FindingsToClear(s, p) # {}}
  <2>1. /\ own = {Key(s, p) : p \in profile[b]}
        /\ \A k \in own :
             /\ tasks[k].required \in BOOLEAN
             /\ tasks[k].status \in {"pending", "passed", "failed", "inherited"}
             /\ tasks[k].required <=> tasks[k].status # "inherited"
        /\ \A p \in profile[b] :
             tasks[Key(s, p)].required /\ tasks[Key(s, p)].status # "passed"
               <=> FindingsToClear(s, p) # {}
    BY <1>1, TasksOfRevision
  <2>2. profile[b] \in SUBSET Points /\ due \in SUBSET Points
    BY <1>1 DEF TypeOK
  <2>3. IsFiniteSet(own) /\ Cardinality(own) = Cardinality(profile[b])
    BY <2>1, <2>2, KeysOfPoints
  <2>4. waiting = {Key(s, p) : p \in due}
    BY <2>1
  <2>5. Cardinality(waiting) = Cardinality(due)
    BY <2>2, <2>4, KeysOfPoints
  <2>6. /\ RecalibrationTasks(s) =
             [required  |-> Cardinality(required),
              completed |-> Cardinality(passed),
              pending   |-> Cardinality(pending),
              failed    |-> Cardinality(failed),
              inherited |-> Cardinality(inherited)]
        /\ pendingRetestPoints(s) = Cardinality(waiting)
    BY DEF RecalibrationTasks, pendingRetestPoints
  <2> HIDE DEF own
  <2>7. /\ required \in SUBSET own /\ inherited \in SUBSET own
        /\ required \cap inherited = {} /\ required \cup inherited = own
    BY <2>1
  <2>8. /\ settled \in SUBSET required /\ failed \in SUBSET required
        /\ settled \cap failed = {} /\ settled \cup failed = required
    BY <2>1
  <2>9. /\ passed \in SUBSET settled /\ pending \in SUBSET settled
        /\ passed \cap pending = {}
        /\ passed \cup pending = settled
    OBVIOUS
  <2> HIDE DEF passed, pending, failed, inherited, required, settled
  <2>10. /\ Cardinality(own) = Cardinality(required) + Cardinality(inherited)
         /\ IsFiniteSet(required)
    BY <2>3, <2>7, PartsAddUp
  <2>11. /\ Cardinality(required) = Cardinality(settled) + Cardinality(failed)
         /\ IsFiniteSet(settled)
    BY <2>8, <2>10, PartsAddUp
  <2>12. Cardinality(settled) = Cardinality(passed) + Cardinality(pending)
    BY <2>9, <2>11, PartsAddUp
  <2>13. QED
    BY <2>3, <2>5, <2>6, <2>10, <2>11, <2>12
<1>2. QED
  BY <1>1, TypeInit, TypeNext, EvidenceInit, EvidenceNext, ReferencesInit, ReferencesNext,
     RetestInit, RetestNext, PTL DEF Spec

-----------------------------------------------------------------------------
(* Verification. *)

\* A check of a credential that was issued succeeds exactly under its own batch and
\* with its own content, whatever has been done to other batches since.
THEOREM ChecksAreSound == Spec => []VerificationSound
<1>1. CredentialVerifies => VerificationSound
  BY DEF CredentialVerifies, VerificationSound, Verification
<1>2. QED
  BY <1>1, CredentialsVerify, PTL

-----------------------------------------------------------------------------
(* Coverage and progress. *)

\* No other batch has registered a sensor under a code of b.
Unshared(b) ==
  \A s, t \in DOMAIN sensors : s.batch = b /\ t.code = s.code => t.batch = b

CodesUnshared == \A b \in Batches : Unshared(b)

\* Coverage as the findings of the batch alone decide it.
OwnProblem(s, p) ==
  \E f \in OpenFindings(s.batch) : f.code = s.code /\ f.revision < s.revision /\ f.point = p

Covered(s, p) ==
  \/ Key(s, p) \in DOMAIN measurements
  \/ ~ OwnProblem(s, p) /\ EarlierEvidence(s, p) # {}

OwnComplete(b) ==
  /\ CurrentSensors(b) # {}
  /\ \A s \in CurrentSensors(b), p \in profile[b] : Covered(s, p)

Recalibratable(b) == \E s \in CurrentSensors(b) : HasOpenFinding(s)

FindingSound(f) == Locked(f.batch) /\ f.point \in profile[f.batch]

\* What a batch in each of its working states has to go on with.
BatchProgress(b) ==
  /\ Locked(b) => \E t \in DOMAIN sensors : t.batch = b
  /\ status[b] = "plan_locked" => \A k \in DOMAIN measurements : k.batch # b
  /\ status[b] = "sampling" /\ Unshared(b) => ~ OwnComplete(b)
  /\ status[b] = "failed" => Recalibratable(b)

ProgressInv ==
  /\ \A f \in DOMAIN findings : FindingSound(f)
  /\ \A b \in Batches : BatchProgress(b)

\* A sensor that was registered has a current revision.
LEMMA CurrentExists ==
  ASSUME TypeOK, NEW b \in Batches, NEW t \in DOMAIN sensors, t.batch = b
  PROVE  \E s \in CurrentSensors(b) : s.code = t.code
<1> DEFINE R == {r \in Revisions : [t EXCEPT !.revision = r] \in DOMAIN sensors}
           m == Max(R)
           s == [t EXCEPT !.revision = m]
<1>1. t \in SensorRevision /\ DOMAIN sensors \subseteq SensorRevision
  BY DEF TypeOK
<1>2. t.revision \in R
  <2>1. [t EXCEPT !.revision = t.revision] = t
    BY <1>1 DEF SensorRevision
  <2>2. QED
    BY <1>1, <2>1 DEF SensorRevision
<1>3. m \in R /\ \A r \in R : r <= m
  BY <1>2, MaxInSet
<1>4. /\ s \in DOMAIN sensors /\ s.batch = b /\ s.code = t.code /\ s.revision = m
  BY <1>1, <1>3 DEF SensorRevision
<1>5. ASSUME NEW u \in DOMAIN sensors, u.batch = t.batch, u.code = t.code
      PROVE  u.revision <= m
  <2>1. u \in SensorRevision /\ u = [t EXCEPT !.revision = u.revision]
    BY <1>1, <1>5 DEF SensorRevision
  <2>2. u.revision \in R
    BY <2>1 DEF SensorRevision
  <2>3. QED
    BY <1>3, <2>2
<1>6. IsCurrentRevision(s)
  BY <1>4, <1>5 DEF IsCurrentRevision
<1>7. QED
  BY <1>4, <1>6 DEF CurrentSensors

SomeCurrent ==
  TypeOK => \A b \in Batches : (\E t \in DOMAIN sensors : t.batch = b) => CurrentSensors(b) # {}

\* A batch with a sensor has a current one.
LEMMA CurrentOfRegistered == SomeCurrent
BY CurrentExists DEF SomeCurrent

\* A complete batch is complete on its own terms.  The converse holds of a batch
\* whose codes are not shared: UnresolvedProblemPoints takes the findings of every
\* batch that uses the code.
CompleteIsOwn ==
  \A b \in Batches : TypeOK /\ Registered =>
    /\ Complete(b) => OwnComplete(b)
    /\ Unshared(b) /\ OwnComplete(b) => Complete(b)

\* The two notions of coverage differ only in the findings they look at.
LEMMA CompletenessIsOwn == CompleteIsOwn
<1> SUFFICES ASSUME NEW b \in Batches, TypeOK, Registered
             PROVE  /\ Complete(b) => OwnComplete(b)
                    /\ Unshared(b) /\ OwnComplete(b) => Complete(b)
  BY DEF CompleteIsOwn
<1>1. ASSUME NEW s \in CurrentSensors(b), NEW p \in profile[b]
      PROVE  /\ s \in SensorRevision /\ s \in DOMAIN sensors /\ s.batch = b
             /\ s.revision # 0 /\ p \in Points
             /\ PreviousEvidence(s, p) # 0 <=> EarlierEvidence(s, p) # {}
  <2>1. s \in SensorRevision /\ s \in DOMAIN sensors /\ s.batch = b /\ p \in Points
    BY CurrentSensorType DEF TypeOK
  <2>2. EarlierEvidence(s, p) \in SUBSET Revisions
    BY DEF EarlierEvidence
  <2>3. EarlierEvidence(s, p) # {} => PreviousEvidence(s, p) \in Revisions
    BY <2>2, MaxInSet DEF PreviousEvidence
  <2>4. QED
    BY <2>1, <2>3 DEF PreviousEvidence, SensorRevision, Revisions
<1>2. ASSUME Complete(b), NEW s \in CurrentSensors(b), NEW p \in profile[b]
      PROVE  Covered(s, p)
  <2>1. EffectiveEvidence(s, p) # 0
    BY <1>2 DEF Complete
  <2>2. CASE Key(s, p) \in DOMAIN measurements
    BY <2>2 DEF Covered
  <2>3. CASE Key(s, p) \notin DOMAIN measurements
    <3>1. p \notin UnresolvedProblemPoints(s) /\ PreviousEvidence(s, p) # 0
      BY <2>1, <2>3 DEF EffectiveEvidence
    <3>2. ~ OwnProblem(s, p)
      BY <3>1 DEF OwnProblem, UnresolvedProblemPoints, OpenFindings, BatchFindings
    <3>3. QED
      BY <1>1, <3>1, <3>2 DEF Covered
  <2>4. QED
    BY <2>2, <2>3
<1>3. ASSUME Unshared(b), OwnComplete(b), NEW s \in CurrentSensors(b), NEW p \in profile[b]
      PROVE  EffectiveEvidence(s, p) # 0
  <2>1. Covered(s, p)
    BY <1>3 DEF OwnComplete
  <2>2. CASE Key(s, p) \in DOMAIN measurements
    BY <1>1, <2>2 DEF EffectiveEvidence
  <2>3. CASE Key(s, p) \notin DOMAIN measurements
    <3>1. ~ OwnProblem(s, p) /\ PreviousEvidence(s, p) # 0
      BY <1>1, <2>1, <2>3 DEF Covered
    <3>2. ASSUME NEW g \in DOMAIN findings, g.code = s.code
          PROVE  g.batch = b
      <4>1. Sensor(g) \in DOMAIN sensors /\ Sensor(g).code = g.code /\ Sensor(g).batch = g.batch
        BY SensorType DEF Registered, TypeOK
      <4>2. QED
        BY <1>1, <1>3, <3>2, <4>1 DEF Unshared
    <3>3. p \notin UnresolvedProblemPoints(s)
      BY <1>1, <3>1, <3>2 DEF OwnProblem, UnresolvedProblemPoints, OpenFindings, BatchFindings
    <3>4. QED
      BY <2>3, <3>1, <3>3 DEF EffectiveEvidence
  <2>4. QED
    BY <2>2, <2>3
<1>4. QED
  BY <1>2, <1>3 DEF Complete, OwnComplete

\* An open finding leads to what can be done about it: its sensor has one at its
\* current revision, or that revision has yet to measure the point.  Where it did
\* measure the point, it measured it failing.
LEMMA OpenFindingLeads ==
  ASSUME TypeOK, EvidenceInv, NEW b \in Batches, NEW f \in OpenFindings(b)
  PROVE  \E s \in CurrentSensors(b) :
           \/ HasOpenFinding(s)
           \/ /\ s.code = f.code
              /\ Key(s, f.point) \notin DOMAIN measurements
              /\ f.point \in UnresolvedProblemPoints(s)
<1>1. /\ f \in DOMAIN findings /\ f \in FindingKey /\ f.batch = b /\ findings[f] = 0
      /\ f.revision \in Nat
  BY SensorType DEF OpenFindings, BatchFindings, TypeOK, Revisions
<1>2. /\ Sensor(f) \in DOMAIN sensors /\ Sensor(f).batch = b /\ Sensor(f).code = f.code
  BY <1>1, SensorType DEF EvidenceInv, Registered
<1>3. PICK s \in CurrentSensors(b) : s.code = f.code
  BY <1>2, CurrentExists
<1>4. s \in SensorRevision /\ s.batch = b /\ s.revision \in Nat /\ s.revision <= MaxRevision
  BY CurrentSensorType DEF SensorRevision, Revisions
<1>5. f.revision <= s.revision
  BY <1>1, <1>3, <1>4, CurrentIsLast DEF EvidenceInv
<1>6. CASE f.revision = s.revision
  BY <1>3, <1>4, <1>6 DEF HasOpenFinding
<1>7. CASE f.revision < s.revision /\ Key(s, f.point) \notin DOMAIN measurements
  BY <1>1, <1>3, <1>7 DEF UnresolvedProblemPoints
<1>8. CASE f.revision < s.revision /\ Key(s, f.point) \in DOMAIN measurements
  <2> DEFINE k == [batch |-> b, code |-> s.code, revision |-> s.revision, point |-> f.point]
  <2>1. k \in DOMAIN measurements
    BY <1>4, <1>8 DEF Key
  <2>2. measurements[k].drafts # {}
    <3>1. SUFFICES ASSUME measurements[k].drafts = {} PROVE FALSE
      OBVIOUS
    <3>2. Passes(Sensor(f), s.revision, f.point)
      BY <1>1, <1>3, <2>1, <3>1, SensorType, KeyOfRevision DEF Passes, Measured
    <3>3. \A r \in f.revision + 1 .. MaxRevision : ~ Passes(Sensor(f), r, f.point)
      BY <1>1 DEF EvidenceInv, FindingsFollowEvidence, FollowsEvidence
    <3>4. s.revision \in f.revision + 1 .. MaxRevision
      BY <1>1, <1>4, <1>8, RevisionAssumption
    <3>5. QED
      BY <3>2, <3>3, <3>4
  <2>3. PICK g \in DOMAIN findings : Sensor(g) = Sensor(k) /\ g.point = k.point
    BY <2>1, <2>2 DEF EvidenceInv, FailureLeavesFinding
  <2>4. g.batch = b /\ g.code = s.code /\ g.revision = s.revision
    BY <2>1, <2>3, SensorType DEF TypeOK
  <2>5. findings[g] = 0
    BY <2>4, CurrentFindingIsOpen
  <2>6. HasOpenFinding(s)
    BY <1>4, <2>4, <2>5 DEF HasOpenFinding, OpenFindings, BatchFindings
  <2>7. QED
    BY <2>6
<1>9. QED
  BY <1>1, <1>4, <1>5, <1>6, <1>7, <1>8

\* A complete batch with an open finding has one to recalibrate for.
WorkToDo ==
  \A b \in Batches :
    TypeOK /\ EvidenceInv /\ (\A f \in DOMAIN findings : FindingSound(f))
      /\ Complete(b) /\ OpenFindings(b) # {} => Recalibratable(b)

\* A point with an older problem that is not measured again is not covered.
LEMMA OpenIsRecalibratable == WorkToDo
<1> SUFFICES ASSUME NEW b \in Batches, TypeOK, EvidenceInv,
                    \A f \in DOMAIN findings : FindingSound(f),
                    Complete(b), OpenFindings(b) # {}
             PROVE  Recalibratable(b)
  BY DEF WorkToDo
<1>1. PICK f \in OpenFindings(b) : TRUE
  OBVIOUS
<1>2. f.point \in profile[b]
  BY <1>1 DEF OpenFindings, BatchFindings, FindingSound
<1>3. PICK s \in CurrentSensors(b) :
        \/ HasOpenFinding(s)
        \/ /\ Key(s, f.point) \notin DOMAIN measurements
           /\ f.point \in UnresolvedProblemPoints(s)
  BY <1>1, OpenFindingLeads
<1>4. EffectiveEvidence(s, f.point) # 0
  BY <1>2 DEF Complete
<1>5. HasOpenFinding(s)
  BY <1>3, <1>4 DEF EffectiveEvidence
<1>6. QED
  BY <1>5 DEF Recalibratable

\* Findings are about points of a locked profile.
LEMMA FindingsStep ==
  ASSUME TypeOK, ProgressInv, NEW b \in Batches, BatchNext(b)
  PROVE  \A f \in DOMAIN findings' : FindingSound(f)'
<1>1. ASSUME NEW f \in DOMAIN findings
      PROVE  FindingSound(f)'
  <2>1. FindingSound(f) /\ f.batch \in Batches
    BY DEF ProgressInv, TypeOK, FindingKey
  <2>2. QED
    BY <2>1, LockedStays DEF FindingSound
<1>2. ASSUME NEW f, f.batch = b, f.point \in profile[b], Locked(b)
      PROVE  FindingSound(f)'
  BY <1>2, LockedStays DEF FindingSound
<1>3. ASSUME NEW s \in CurrentSensors(b), NEW drafts \in Judgements(b), NEW actor \in Actors,
             SubmitMeasurements(s, drafts, actor), NEW f \in DOMAIN findings'
      PROVE  FindingSound(f)'
  <2>1. Locked(b)
    BY <1>3, SubmissionMoves
  <2>2. CASE f \in AutomaticFindings(s, drafts)
    <3>1. /\ s \in SensorRevision /\ s.batch = b
          /\ DOMAIN drafts \in SUBSET Points /\ DOMAIN drafts \subseteq profile[b]
          /\ drafts \in [DOMAIN drafts -> SUBSET Kinds]
      BY CurrentSensorType, JudgementType DEF TypeOK
    <3>2. f.batch = b /\ f.point \in profile[b]
      BY <2>2, <3>1, AutomaticFindingsType
    <3>3. QED
      BY <1>2, <2>1, <3>2
  <2>3. CASE f \notin AutomaticFindings(s, drafts)
    <3>1. DOMAIN findings' = DOMAIN findings \cup AutomaticFindings(s, drafts)
      BY <1>3, SubmissionWrites
    <3>2. QED
      BY <1>1, <1>3, <2>3, <3>1
  <2>4. QED
    BY <2>2, <2>3
<1>4. ASSUME NEW actor \in Actors, NEW corrections \in SUBSET Corrections(b),
             ReturnReview(b, actor, corrections), NEW f \in DOMAIN findings'
      PROVE  FindingSound(f)'
  <2>1. DOMAIN findings' = DOMAIN findings \cup corrections /\ Locked(b)
    BY <1>4 DEF ReturnReview, Locked
  <2>2. CASE f \in corrections
    <3>1. f.batch = b /\ f.point \in profile[b]
      BY <2>2 DEF Corrections
    <3>2. QED
      BY <1>2, <2>1, <3>1
  <2>3. QED
    BY <1>1, <2>1, <2>2
<1>5. QED
  BY <1>1, <1>3, <1>4, WhoWrites

\* A batch that a command leaves alone has as much to go on with as before; codes
\* can only come to be shared.
LEMMA ProgressElsewhere ==
  ASSUME TypeOK, HistoryStep, NEW o \in Batches, Untouched(o), BatchProgress(o)
  PROVE  BatchProgress(o)'
<1>1. /\ CurrentSensors(o)' = CurrentSensors(o) /\ OpenFindings(o)' = OpenFindings(o)
  BY UntouchedMaterial
<1>2. /\ status'[o] = status[o] /\ profile'[o] = profile[o]
      /\ \A k : k.batch = o => (k \in DOMAIN measurements' <=> k \in DOMAIN measurements)
  BY DEF Untouched, Kept, Of
<1>3. DOMAIN sensors \subseteq DOMAIN sensors'
  BY DEF HistoryStep
<1>4. Unshared(o)' => Unshared(o)
  BY <1>3 DEF Unshared
<1>5. ASSUME NEW s \in CurrentSensors(o), NEW p \in profile[o]
      PROVE  Covered(s, p)' <=> Covered(s, p)
  <2>1. s.batch = o /\ Key(s, p).batch = o
    BY CurrentSensorType DEF Key
  <2>2. ASSUME NEW r
        PROVE  Key([s EXCEPT !.revision = r], p).batch = o
    BY <2>1, CurrentSensorType DEF Key, SensorRevision
  <2>3. EarlierEvidence(s, p)' = EarlierEvidence(s, p)
    BY <1>2, <2>2 DEF EarlierEvidence
  <2>4. OwnProblem(s, p)' <=> OwnProblem(s, p)
    BY <1>1, <2>1 DEF OwnProblem
  <2>5. QED
    BY <1>2, <2>1, <2>3, <2>4 DEF Covered
<1>6. OwnComplete(o)' <=> OwnComplete(o)
  BY <1>1, <1>2, <1>5 DEF OwnComplete
<1>7. Recalibratable(o)' <=> Recalibratable(o)
  <2>1. \A s \in CurrentSensors(o) : s.batch = o
    BY CurrentSensorType
  <2>2. QED
    BY <1>1, <2>1 DEF Recalibratable, HasOpenFinding
<1>8. QED
  BY <1>2, <1>3, <1>4, <1>6, <1>7 DEF BatchProgress, Locked

\* A new revision has yet to be measured where the finding is that it was made for.
LEMMA NewRevisionIsUncovered ==
  ASSUME TypeOK, TypeOK', EvidenceInv, ProgressInv, NEW b \in Batches,
         NEW s \in CurrentSensors(b), Recalibrate(s)
  PROVE  ~ OwnComplete(b)'
<1> DEFINE new == [s EXCEPT !.revision = @ + 1]
<1>1. /\ s \in SensorRevision /\ s \in DOMAIN sensors /\ s.batch = b /\ s.revision \in Nat
  BY CurrentSensorType DEF SensorRevision, Revisions
<1>2. /\ new.batch = b /\ new.code = s.code /\ new.revision = s.revision + 1
      /\ Sensor(new) = new
  BY <1>1 DEF SensorRevision, Sensor
<1>3. /\ DOMAIN sensors' = DOMAIN sensors \cup {new}
      /\ UNCHANGED <<profile, measurements, findings>>
      /\ HasOpenFinding(s)
  BY DEF Recalibrate
<1>4. new \notin DOMAIN sensors
  BY NextRevisionIsNew
<1>5. \A t \in DOMAIN sensors :
        t.batch = b /\ t.code = s.code => t.revision <= s.revision
  BY <1>1 DEF CurrentSensors, IsCurrentRevision
<1> HIDE DEF new
<1>6. new \in CurrentSensors(b)'
  <2>1. ASSUME NEW t \in DOMAIN sensors', t.batch = b, t.code = s.code
        PROVE  t.revision <= s.revision + 1
    <3>1. CASE t = new
      BY <1>1, <1>2, <3>1
    <3>2. CASE t \in DOMAIN sensors
      <4>1. t.revision <= s.revision /\ t.revision \in Nat
        BY <1>5, <2>1, <3>2 DEF TypeOK, SensorRevision, Revisions
      <4>2. QED
        BY <1>1, <4>1
    <3>3. QED
      BY <1>3, <3>1, <3>2
  <2>2. QED
    BY <1>2, <1>3, <2>1 DEF CurrentSensors, IsCurrentRevision
<1>7. PICK f \in OpenFindings(b) : f.code = s.code /\ f.revision = s.revision
  BY <1>1, <1>3 DEF HasOpenFinding
<1>8. /\ f \in DOMAIN findings /\ f.batch = b /\ findings[f] = 0
      /\ f.point \in profile[b]
  BY <1>7 DEF OpenFindings, BatchFindings, ProgressInv, FindingSound
<1>9. Key(new, f.point) \notin DOMAIN measurements'
  <2>1. Sensor(Key(new, f.point)) = Sensor(new)
    BY DEF Sensor, Key
  <2>2. QED
    BY <1>2, <1>3, <1>4, <2>1 DEF EvidenceInv, Registered
<1>10. OwnProblem(new, f.point)'
  BY <1>1, <1>2, <1>3, <1>7, <1>8 DEF OwnProblem, OpenFindings, BatchFindings
<1>11. QED
  BY <1>3, <1>6, <1>8, <1>9, <1>10 DEF OwnComplete, Covered

\* The batch a command is for goes on too.
LEMMA ProgressHere ==
  ASSUME TypeOK, TypeOK', EvidenceInv, EvidenceInv', ReferencesInv, ProgressInv,
         HistoryStep, NEW b \in Batches, BatchNext(b),
         \A f \in DOMAIN findings' : FindingSound(f)'
  PROVE  BatchProgress(b)'
<1>1. DOMAIN sensors \subseteq DOMAIN sensors'
  BY DEF HistoryStep
<1>2. BatchProgress(b)
  BY DEF ProgressInv
<1>3. CompleteIsOwn' /\ WorkToDo'
  BY CompletenessIsOwn, OpenIsRecalibratable, PTL
<1>4. CASE ~ Locked(b)'
  BY <1>4 DEF BatchProgress, Locked
<1>5. ASSUME NEW points \in SUBSET Points, LockProfile(b, points)
      PROVE  BatchProgress(b)'
  <2>1. /\ status[b] = "draft" /\ status'[b] = "plan_locked"
        /\ UNCHANGED <<sensors, measurements>>
        /\ \E t \in DOMAIN sensors : t.batch = b
    BY <1>5 DEF LockProfile, MoveTo, TypeOK
  <2>2. \A k \in DOMAIN measurements : k.batch # b
    BY <2>1 DEF ReferencesInv, MeasurementSound, Locked
  <2>3. QED
    BY <2>1, <2>2 DEF BatchProgress
<1>6. ASSUME NEW s \in CurrentSensors(b), NEW drafts \in Judgements(b), NEW actor \in Actors,
             SubmitMeasurements(s, drafts, actor)
      PROVE  BatchProgress(b)'
  <2>1. /\ Locked(b)
        /\ status'[b] \in {"sampling", "failed", "ready_review", "returned"}
        /\ status'[b] = "sampling" => ~ Complete(b)'
        /\ status'[b] = "failed" => Complete(b)' /\ OpenFindings(b)' # {}
    BY <1>6, SubmissionMoves
  <2>2. Registered'
    BY DEF EvidenceInv
  <2>3. status'[b] = "sampling" /\ Unshared(b)' => ~ OwnComplete(b)'
    BY <1>3, <2>1, <2>2 DEF CompleteIsOwn
  <2>4. status'[b] = "failed" => Recalibratable(b)'
    BY <1>3, <2>1 DEF WorkToDo
  <2>5. \E t \in DOMAIN sensors' : t.batch = b
    BY <1>1, <1>2, <2>1 DEF BatchProgress
  <2>6. QED
    BY <2>1, <2>3, <2>4, <2>5 DEF BatchProgress
<1>7. ASSUME NEW s \in CurrentSensors(b), Recalibrate(s)
      PROVE  BatchProgress(b)'
  <2>1. /\ status[b] \in {"failed", "returned"} /\ s.batch = b
        /\ status'[b] \in {"sampling", "returned"}
    BY <1>7, CurrentSensorType DEF Recalibrate, MoveTo, TypeOK
  <2>2. ~ OwnComplete(b)'
    BY <1>7, NewRevisionIsUncovered
  <2>3. \E t \in DOMAIN sensors' : t.batch = b
    BY <1>1, <1>2, <2>1 DEF BatchProgress, Locked
  <2>4. QED
    BY <2>1, <2>2, <2>3 DEF BatchProgress
<1>8. ASSUME Locked(b), status'[b] \notin {"plan_locked", "sampling", "failed"}
      PROVE  BatchProgress(b)'
  BY <1>1, <1>2, <1>8 DEF BatchProgress
<1>9. ASSUME NEW actor \in Actors, ApproveReview(b, actor) \/ ResubmitReview(b, actor)
      PROVE  BatchProgress(b)'
  BY <1>8, <1>9 DEF ApproveReview, Freeze, ResubmitReview, MoveTo, Locked, TypeOK
<1>10. ASSUME NEW actor \in Actors, NEW corrections \in SUBSET Corrections(b),
              ReturnReview(b, actor, corrections)
       PROVE  BatchProgress(b)'
  BY <1>8, <1>10 DEF ReturnReview, MoveTo, Locked, TypeOK
<1>11. CASE Issue(b)
  BY <1>8, <1>11 DEF Issue, MoveTo, Locked, TypeOK
<1>12. ASSUME CreateBatch(b) \/ \E c \in Codes, range \in Ranges : RegisterSensor(b, c, range)
       PROVE  BatchProgress(b)'
  BY <1>4, <1>12 DEF CreateBatch, RegisterSensor, Locked, TypeOK
<1>13. QED
  BY <1>5, <1>6, <1>7, <1>9, <1>10, <1>11, <1>12 DEF BatchNext

\* No batch at the start.
LEMMA ProgressInit == Init => ProgressInv
<1> SUFFICES ASSUME Init PROVE ProgressInv
  OBVIOUS
<1>1. DOMAIN findings = {} /\ \A b \in Batches : status[b] = "absent"
  BY DEF Init
<1>2. QED
  BY <1>1 DEF ProgressInv, BatchProgress, Locked

\* Inductive together with the invariants above.
LEMMA ProgressNext ==
  /\ TypeOK /\ TypeOK' /\ EvidenceInv /\ EvidenceInv' /\ ReferencesInv /\ ProgressInv
  /\ [Next]_vars
  => ProgressInv'
<1> SUFFICES ASSUME TypeOK, TypeOK', EvidenceInv, EvidenceInv', ReferencesInv, ProgressInv,
                    [Next]_vars
             PROVE  ProgressInv'
  OBVIOUS
<1>1. CASE UNCHANGED vars
  BY <1>1 DEF vars, batchVars, ProgressInv, BatchProgress, FindingSound, Locked, Unshared,
     OwnComplete, Covered, OwnProblem, EarlierEvidence, CurrentSensors, IsCurrentRevision,
     Recalibratable, HasOpenFinding, OpenFindings, BatchFindings, Key
<1>2. ASSUME NEW b \in Batches, BatchNext(b)
      PROVE  ProgressInv'
  <2>1. HistoryStep /\ \A f \in DOMAIN findings' : FindingSound(f)'
    BY <1>2, HistoryNext, FindingsStep
  <2>2. BatchProgress(b)'
    BY <1>2, <2>1, ProgressHere
  <2>3. ASSUME NEW o \in Batches \ {b}
        PROVE  BatchProgress(o)'
    <3>1. Untouched(o) /\ BatchProgress(o)
      BY <1>2, OthersUntouched DEF ProgressInv
    <3>2. QED
      BY <2>1, <3>1, ProgressElsewhere
  <2>4. QED
    BY <2>1, <2>2, <2>3 DEF ProgressInv
<1>3. QED
  BY <1>1, <1>2 DEF Next

\* What holds of the progress of a batch even where codes are shared: it starts with
\* something to measure, and while it has failed, or has been returned and is
\* complete with an open finding, it has a revision to recalibrate.
RepairsCanGoOn ==
  \A b \in Batches :
    /\ status[b] = "plan_locked" => ~ Complete(b)
    /\ status[b] = "failed" => Recalibratable(b)
    /\ status[b] = "returned" => Recalibratable(b) \/ ~ Complete(b) \/ Unblocked(b)

\* Without measurements nothing of a profile is covered, and what is complete but
\* has an open finding can be recalibrated.
LEMMA ProgressImpliesRepairs ==
  TypeOK /\ EvidenceInv /\ ReferencesInv /\ ProgressInv => RepairsCanGoOn
<1> SUFFICES ASSUME TypeOK, EvidenceInv, ReferencesInv, ProgressInv, NEW b \in Batches
             PROVE  /\ status[b] = "plan_locked" => ~ Complete(b)
                    /\ status[b] = "failed" => Recalibratable(b)
                    /\ status[b] = "returned" =>
                         Recalibratable(b) \/ ~ Complete(b) \/ Unblocked(b)
  BY DEF RepairsCanGoOn
<1>1. BatchProgress(b)
  BY DEF ProgressInv
<1>2. ASSUME status[b] = "plan_locked", Complete(b)
      PROVE  FALSE
  <2>1. \A k \in DOMAIN measurements : k.batch # b
    BY <1>1, <1>2 DEF BatchProgress
  <2>2. PICK s \in CurrentSensors(b) : TRUE
    BY <1>2 DEF Complete
  <2>3. profile[b] # {}
    <3>1. Cardinality(profile[b]) >= 2
      BY <1>2 DEF ReferencesInv, BatchSound, Locked
    <3>2. QED
      BY <3>1, FS_EmptySet
  <2>4. PICK p \in profile[b] : TRUE
    BY <2>3
  <2>5. Covered(s, p)
    BY <1>2, <2>2, <2>4, CompletenessIsOwn DEF CompleteIsOwn, OwnComplete, EvidenceInv
  <2>6. s \in SensorRevision /\ s.batch = b
    BY CurrentSensorType
  <2>7. Key(s, p) \notin DOMAIN measurements
    BY <2>1, <2>6 DEF Key
  <2>8. ASSUME NEW r
        PROVE  Key([s EXCEPT !.revision = r], p) \notin DOMAIN measurements
    BY <2>1, <2>6 DEF Key, SensorRevision
  <2>9. QED
    BY <2>5, <2>7, <2>8 DEF Covered, EarlierEvidence
<1>3. status[b] = "failed" => Recalibratable(b)
  BY <1>1 DEF BatchProgress
<1>4. Complete(b) /\ OpenFindings(b) # {} => Recalibratable(b)
  BY OpenIsRecalibratable DEF WorkToDo, ProgressInv
<1>5. QED
  BY <1>2, <1>3, <1>4 DEF Unblocked

\* Whatever other batches do with the same sensor codes, a batch that failed or was
\* returned can be repaired, and a batch whose profile was just locked has points to
\* measure.
THEOREM RepairsAreAlwaysPossible == Spec => []RepairsCanGoOn
BY TypeInit, TypeNext, EvidenceInit, EvidenceNext, ReferencesInit, ReferencesNext,
   ProgressInit, ProgressNext, ProgressImpliesRepairs, PTL DEF Spec

\* Where every batch has its sensor codes to itself, no batch is ever stuck: while it
\* samples some point lacks evidence too.  With a shared code, closing a finding of
\* another batch can complete a batch without a command of its own.
THEOREM NoBatchIsWedged == Spec => [](CodesUnshared => NeverWedged)
<1>1. ASSUME TypeOK, EvidenceInv, ProgressInv, RepairsCanGoOn, CodesUnshared
      PROVE  NeverWedged
  <2>1. ASSUME NEW b \in Batches, status[b] = "sampling"
        PROVE  ~ Complete(b)
    <3>1. ~ OwnComplete(b)
      BY <1>1, <2>1 DEF ProgressInv, BatchProgress, CodesUnshared
    <3>2. QED
      BY <1>1, <3>1, CompletenessIsOwn DEF CompleteIsOwn, EvidenceInv
  <2>2. QED
    BY <1>1, <2>1 DEF NeverWedged, RepairsCanGoOn, Recalibratable
<1>2. QED
  BY <1>1, TypeInit, TypeNext, EvidenceInit, EvidenceNext, ReferencesInit, ReferencesNext,
     ProgressInit, ProgressNext, ProgressImpliesRepairs, PTL DEF Spec

\* Where every batch has its sensor codes to itself, a batch in review or past it is
\* still covered.
THEOREM ReviewedIsCovered == Spec => [](CodesUnshared => ReviewableIsCovered)
<1>1. ASSUME TypeOK, EvidenceInv, ProgressInv, CodesUnshared, NEW b \in Batches, InReview(b)
      PROVE  Complete(b)
  <2>1. ReviewReady(b) /\ BatchProgress(b)
    BY <1>1 DEF EvidenceInv, ReviewedIsReady, ProgressInv
  <2>2. CurrentSensors(b) # {}
    BY <1>1, <2>1, CurrentExists DEF BatchProgress, InReview, Locked
  <2>3. ASSUME NEW s \in CurrentSensors(b), NEW p \in profile[b]
        PROVE  Covered(s, p)
    <3>1. s \in SensorRevision /\ s.batch = b /\ s.revision \in Revisions
      BY <1>1, CurrentSensorType DEF SensorRevision
    <3>2. PICK r \in 1 .. s.revision : Measured(s, r, p)
      BY <2>1 DEF ReviewReady
    <3>3. ~ OwnProblem(s, p)
      BY <2>1, <3>1 DEF ReviewReady, OwnProblem
    <3>4. CASE r = s.revision
      <4>1. Key(s, p) \in DOMAIN measurements
        BY <3>1, <3>2, <3>4, KeyOfRevision DEF Measured, Key
      <4>2. QED
        BY <4>1 DEF Covered
    <3>5. CASE r # s.revision
      <4>1. r \in EarlierEvidence(s, p)
        <5>1. r \in Revisions /\ r < s.revision
          BY <3>1, <3>5, RevisionAssumption DEF Revisions
        <5>2. QED
          BY <3>2, <5>1 DEF EarlierEvidence, Measured
      <4>2. QED
        BY <3>3, <4>1 DEF Covered
    <3>6. QED
      BY <3>4, <3>5
  <2>4. OwnComplete(b)
    BY <2>2, <2>3 DEF OwnComplete
  <2>5. QED
    BY <1>1, <2>4, CompletenessIsOwn DEF CompleteIsOwn, EvidenceInv, CodesUnshared
<1>2. TypeOK /\ EvidenceInv /\ ProgressInv => (CodesUnshared => ReviewableIsCovered)
  BY <1>1 DEF ReviewableIsCovered, InReview
<1>3. QED
  BY <1>2, TypeInit, TypeNext, EvidenceInit, EvidenceNext, ReferencesInit, ReferencesNext,
     ProgressInit, ProgressNext, PTL DEF Spec

-----------------------------------------------------------------------------
(* What is left to be done, whatever codes are shared. *)

\* A point of a current revision that it has not measured.
Unmeasured(b) ==
  \E s \in CurrentSensors(b), p \in profile[b] : Key(s, p) \notin DOMAIN measurements

\* Every point was measured in some revision.
EverMeasured(b) ==
  \A s \in CurrentSensors(b), p \in profile[b] : \E r \in 1 .. s.revision : Measured(s, r, p)

BatchWork(b) ==
  /\ ~ Locked(b) => profile[b] = {}
  /\ status[b] = "sampling" => Unmeasured(b)
  /\ status[b] \in {"failed", "returned"} => EverMeasured(b)

\* Inductive together with the invariants above.
WorkInv == \A b \in Batches : BatchWork(b)

\* Evidence comes from measurements, and a measurement is evidence.
EvidenceIsMeasured ==
  \A b \in Batches : TypeOK =>
    /\ Complete(b) => EverMeasured(b)
    /\ CurrentSensors(b) # {} /\ ~ Complete(b) => Unmeasured(b)

\* The revision itself or an earlier one measured what is covered.
LEMMA EvidenceMeasures == EvidenceIsMeasured
<1> SUFFICES ASSUME NEW b \in Batches, TypeOK
             PROVE  /\ Complete(b) => EverMeasured(b)
                    /\ CurrentSensors(b) # {} /\ ~ Complete(b) => Unmeasured(b)
  BY DEF EvidenceIsMeasured
<1>1. ASSUME NEW s \in CurrentSensors(b), NEW p \in profile[b]
      PROVE  /\ EffectiveEvidence(s, p) # 0 => \E r \in 1 .. s.revision : Measured(s, r, p)
             /\ EffectiveEvidence(s, p) = 0 => Key(s, p) \notin DOMAIN measurements
  <2>1. s \in SensorRevision /\ p \in Points /\ s.revision \in Nat /\ s.revision >= 1
    BY CurrentSensorType DEF TypeOK, SensorRevision, Revisions
  <2>2. CASE Key(s, p) \in DOMAIN measurements
    <3>1. Measured(s, s.revision, p)
      BY <2>1, <2>2, KeyOfRevision DEF Measured, Key
    <3>2. QED
      BY <2>1, <2>2, <3>1 DEF EffectiveEvidence
  <2>3. CASE Key(s, p) \notin DOMAIN measurements
    <3>1. ASSUME EffectiveEvidence(s, p) # 0
          PROVE  \E r \in 1 .. s.revision : Measured(s, r, p)
      <4>1. PreviousEvidence(s, p) # 0
        BY <2>3, <3>1 DEF EffectiveEvidence
      <4>2. PreviousEvidence(s, p) \in EarlierEvidence(s, p)
        BY <2>1, <4>1, PreviousEvidenceType
      <4>3. QED
        BY <2>1, <4>2 DEF EarlierEvidence, Measured, Revisions
    <3>2. QED
      BY <2>3, <3>1
  <2>4. QED
    BY <2>2, <2>3
<1>2. Complete(b) => EverMeasured(b)
  BY <1>1 DEF Complete, EverMeasured
<1>3. CurrentSensors(b) # {} /\ ~ Complete(b) => Unmeasured(b)
  BY <1>1 DEF Complete, Unmeasured
<1>4. QED
  BY <1>2, <1>3

\* No batch at the start.
LEMMA WorkInit == Init => WorkInv
<1> SUFFICES ASSUME Init, NEW b \in Batches PROVE BatchWork(b)
  BY DEF WorkInv
<1>1. status[b] = "absent" /\ profile[b] = {}
  BY DEF Init
<1>2. QED
  BY <1>1 DEF BatchWork

\* A batch that a command leaves alone.
LEMMA WorkElsewhere ==
  ASSUME TypeOK, NEW o \in Batches, Untouched(o), BatchWork(o)
  PROVE  BatchWork(o)'
<1>1. CurrentSensors(o)' = CurrentSensors(o)
  BY UntouchedMaterial
<1>2. /\ status'[o] = status[o] /\ profile'[o] = profile[o]
      /\ \A k : k.batch = o => (k \in DOMAIN measurements' <=> k \in DOMAIN measurements)
  BY DEF Untouched, Kept, Of
<1>3. ASSUME NEW s \in CurrentSensors(o), NEW p
      PROVE  Key(s, p) \in DOMAIN measurements' <=> Key(s, p) \in DOMAIN measurements
  BY <1>2, CurrentSensorType DEF Key
<1>4. ASSUME NEW s \in CurrentSensors(o), NEW p, NEW r
      PROVE  Measured(s, r, p)' <=> Measured(s, r, p)
  <2>1. Key([s EXCEPT !.revision = r], p).batch = o
    BY CurrentSensorType DEF Key, SensorRevision
  <2>2. QED
    BY <1>2, <2>1 DEF Measured
<1>5. (Unmeasured(o)' <=> Unmeasured(o)) /\ (EverMeasured(o)' <=> EverMeasured(o))
  BY <1>1, <1>2, <1>3, <1>4 DEF Unmeasured, EverMeasured
<1>6. QED
  BY <1>2, <1>5 DEF BatchWork, Locked

\* A submission either completes the batch or leaves something to measure.
LEMMA WorkAfterSubmission ==
  ASSUME TypeOK, TypeOK', NEW b \in Batches, BatchWork(b), NEW s \in CurrentSensors(b),
         NEW drafts \in Judgements(b), NEW actor \in Actors,
         SubmitMeasurements(s, drafts, actor)
  PROVE  BatchWork(b)'
<1>1. /\ Locked(b) /\ Locked(b)'
      /\ status'[b] = "sampling" => ~ Complete(b)'
      /\ status'[b] = "failed" => Complete(b)'
  BY SubmissionMoves DEF Locked
<1>2. /\ UNCHANGED <<profile, sensors>> /\ DOMAIN measurements \subseteq DOMAIN measurements'
      /\ s.batch = b /\ SetEvaluationStatus(b, Complete(b)', OpenFindings(b)')
  BY CurrentSensorType DEF SubmitMeasurements, PutMeasurements
<1>3. CurrentSensors(b)' = CurrentSensors(b)
  BY <1>2 DEF CurrentSensors, IsCurrentRevision
<1>4. EvidenceIsMeasured'
  BY EvidenceMeasures, PTL
<1>5. status'[b] = "sampling" => Unmeasured(b)'
  BY <1>1, <1>3, <1>4 DEF EvidenceIsMeasured
<1>6. status'[b] = "failed" => EverMeasured(b)'
  BY <1>1, <1>4 DEF EvidenceIsMeasured
<1>7. ASSUME status'[b] = "returned" PROVE EverMeasured(b)'
  <2>1. status[b] = "returned"
    BY <1>2, <1>7 DEF SetEvaluationStatus, EvaluatedStatus, TypeOK
  <2>2. EverMeasured(b)
    BY <2>1 DEF BatchWork
  <2>3. QED
    BY <1>2, <1>3, <2>2 DEF EverMeasured, Measured
<1>8. QED
  BY <1>1, <1>5, <1>6, <1>7 DEF BatchWork

\* A new revision keeps what the ones before it measured, and has to be measured at
\* the point of the finding it was made for.
LEMMA WorkAfterRecalibration ==
  ASSUME TypeOK, TypeOK', EvidenceInv, ProgressInv, NEW b \in Batches, BatchWork(b),
         NEW s \in CurrentSensors(b), Recalibrate(s)
  PROVE  BatchWork(b)'
<1> DEFINE new == [s EXCEPT !.revision = @ + 1]
<1>1. /\ s \in SensorRevision /\ s \in DOMAIN sensors /\ s.batch = b /\ s.revision \in Nat
  BY CurrentSensorType DEF SensorRevision, Revisions
<1>2. new.batch = b /\ new.code = s.code /\ new.revision = s.revision + 1
  BY <1>1 DEF SensorRevision
<1>3. /\ DOMAIN sensors' = DOMAIN sensors \cup {new}
      /\ UNCHANGED <<profile, measurements>>
      /\ Locked(b)'
      /\ status'[b] = "returned" => status[b] = "returned"
      /\ status'[b] # "failed"
  BY <1>1 DEF Recalibrate, MoveTo, Locked, TypeOK
<1>4. CurrentSensors(b)' # {} /\ ~ OwnComplete(b)'
  <2>1. ~ OwnComplete(b)'
    BY NewRevisionIsUncovered
  <2>2. s \in DOMAIN sensors'
    BY <1>1, <1>3
  <2>3. SomeCurrent'
    BY CurrentOfRegistered, PTL
  <2>4. QED
    BY <1>1, <2>1, <2>2, <2>3 DEF SomeCurrent
<1>5. Unmeasured(b)'
  BY <1>4 DEF OwnComplete, Covered, Unmeasured
<1>6. ASSUME status'[b] = "returned", NEW t \in CurrentSensors(b)', NEW p \in profile[b]
      PROVE  \E r \in 1 .. t.revision : Measured(t, r, p)
  <2>1. EverMeasured(b)
    BY <1>3, <1>6 DEF BatchWork
  <2>2. CASE t = new
    <3>1. PICK r \in 1 .. s.revision : Measured(s, r, p)
      BY <1>6, <2>1 DEF EverMeasured
    <3>2. Key([t EXCEPT !.revision = r], p) = Key([s EXCEPT !.revision = r], p)
      BY <1>1, <1>2, <2>2 DEF SensorRevision, Key
    <3>3. r \in 1 .. t.revision
      BY <1>1, <1>2, <2>2
    <3>4. QED
      BY <3>1, <3>2, <3>3 DEF Measured
  <2>3. CASE t # new
    <3>1. t \in CurrentSensors(b)
      BY <1>3, <1>6, <2>3 DEF CurrentSensors, IsCurrentRevision
    <3>2. QED
      BY <1>6, <2>1, <3>1 DEF EverMeasured
  <2>4. QED
    BY <2>2, <2>3
<1>7. status'[b] = "returned" => EverMeasured(b)'
  BY <1>3, <1>6 DEF EverMeasured, Measured
<1>8. QED
  BY <1>3, <1>5, <1>7 DEF BatchWork

\* The batch a command is for.
LEMMA WorkHere ==
  ASSUME TypeOK, TypeOK', EvidenceInv, ProgressInv, NEW b \in Batches, BatchNext(b),
         BatchWork(b)
  PROVE  BatchWork(b)'
<1>1. CASE CreateBatch(b) \/ \E c \in Codes, range \in Ranges : RegisterSensor(b, c, range)
  BY <1>1 DEF CreateBatch, RegisterSensor, BatchWork, Locked, TypeOK
<1>2. ASSUME NEW points \in SUBSET Points, LockProfile(b, points)
      PROVE  BatchWork(b)'
  BY <1>2 DEF LockProfile, MoveTo, BatchWork, Locked, TypeOK
<1>3. ASSUME NEW actor \in Actors, ApproveReview(b, actor) \/ ResubmitReview(b, actor)
      PROVE  BatchWork(b)'
  BY <1>3 DEF ApproveReview, Freeze, ResubmitReview, MoveTo, BatchWork, Locked, TypeOK
<1>4. ASSUME NEW actor \in Actors, NEW corrections \in SUBSET Corrections(b),
             ReturnReview(b, actor, corrections)
      PROVE  BatchWork(b)'
  <2>1. /\ status[b] \in {"ready_review", "failed"} /\ status'[b] = "returned"
        /\ UNCHANGED <<profile, sensors, measurements>>
    BY <1>4 DEF ReturnReview, MoveTo, TypeOK
  <2>2. EverMeasured(b)
    BY <2>1 DEF BatchWork, EvidenceInv, ReviewedIsReady, InReview, ReviewReady, EverMeasured
  <2>3. EverMeasured(b)'
    BY <2>1, <2>2 DEF EverMeasured, Measured, CurrentSensors, IsCurrentRevision
  <2>4. QED
    BY <2>1, <2>3 DEF BatchWork, Locked
<1>5. CASE Issue(b)
  BY <1>5 DEF Issue, MoveTo, BatchWork, Locked, TypeOK
<1>6. QED
  BY <1>1, <1>2, <1>3, <1>4, <1>5, WorkAfterSubmission, WorkAfterRecalibration DEF BatchNext

\* Inductive together with the invariants above.
LEMMA WorkNext ==
  TypeOK /\ TypeOK' /\ EvidenceInv /\ ProgressInv /\ WorkInv /\ [Next]_vars => WorkInv'
<1> SUFFICES ASSUME TypeOK, TypeOK', EvidenceInv, ProgressInv, WorkInv, [Next]_vars
             PROVE  WorkInv'
  OBVIOUS
<1>1. CASE UNCHANGED vars
  BY <1>1 DEF vars, batchVars, WorkInv, BatchWork, Unmeasured, EverMeasured, Measured, Locked,
     CurrentSensors, IsCurrentRevision
<1>2. ASSUME NEW b \in Batches, BatchNext(b), NEW o \in Batches
      PROVE  BatchWork(o)'
  <2>1. CASE o = b
    BY <1>2, <2>1, WorkHere DEF WorkInv
  <2>2. CASE o # b
    BY <1>2, <2>2, OthersUntouched, WorkElsewhere DEF WorkInv
  <2>3. QED
    BY <2>1, <2>2
<1>3. QED
  BY <1>1, <1>2 DEF Next, WorkInv

-----------------------------------------------------------------------------
(* The advice of the queue, the readiness report and the commands. *)

\* The guards of the commands, one by one.
LEMMA AcceptsInTerms ==
  ASSUME NEW b \in Batches
  PROVE  /\ Accepts(b, "register_sensor") <=>
              /\ status[b] = "draft" /\ Ranges # {}
              /\ \E c \in Codes : \A s \in DOMAIN sensors : s.batch = b => s.code # c
         /\ Accepts(b, "lock_profile") <=>
              /\ status[b] = "draft" /\ \E s \in DOMAIN sensors : s.batch = b
              /\ \E points \in SUBSET Points :
                   Cardinality(points) >= 2 /\ RangesCover(b, points)
         /\ Accepts(b, "submit_reading") <=>
              /\ status[b] \in {"plan_locked", "sampling", "failed", "returned"}
              /\ Actors # {} /\ Unmeasured(b)
         /\ Accepts(b, "recalibrate") <=>
              /\ status[b] \in {"failed", "returned"}
              /\ \E s \in CurrentSensors(b) : HasOpenFinding(s) /\ s.revision < MaxRevision
         /\ Accepts(b, "approve_review") <=> \E actor \in Actors : AcceptsApproval(b, actor)
         /\ Accepts(b, "return_review") <=>
              /\ status[b] \in {"ready_review", "failed"} /\ Corrections(b) # {}
              /\ \E actor \in Actors : ~ HasSampler(b, actor)
         /\ Accepts(b, "resubmit_review") <=>
              status[b] = "returned" /\ Unblocked(b) /\ Actors # {}
         /\ Accepts(b, "issue_credential") <=>
              status[b] = "frozen" /\ CredentialsOf(b) = {} /\ OpenFindings(b) = {}
<1>1. ASSUME NEW s, NEW p
      PROVE  NotYetMeasured({Key(s, p)}) <=> Key(s, p) \notin DOMAIN measurements
  BY DEF NotYetMeasured
<1>2. Accepts(b, "submit_reading") <=>
        /\ status[b] \in {"plan_locked", "sampling", "failed", "returned"} /\ Actors # {}
        /\ \E s \in CurrentSensors(b), p \in profile[b] : NotYetMeasured({Key(s, p)})
  BY DEF Accepts
<1>3. (\E s \in CurrentSensors(b), p \in profile[b] : NotYetMeasured({Key(s, p)}))
        <=> Unmeasured(b)
  BY <1>1 DEF Unmeasured
<1>4. QED
  BY <1>2, <1>3 DEF Accepts

\* What the guards of a command let pass, the status of the batch advertises.
LEMMA AcceptedIsAdvertised ==
  ASSUME NEW b \in Batches, NEW command \in CommandNames, Accepts(b, command)
  PROVE  /\ command \in Capabilities[status[b]]
         /\ command = "submit_reading" => CanSubmitSample(b)
         /\ command = "recalibrate" => CanRecalibrate(b)
         /\ status[b] \in {"frozen", "released"} => command = "issue_credential"
<1>1. CASE command \in {"register_sensor", "lock_profile"}
  <2>1. status[b] = "draft"
    BY <1>1, AcceptsInTerms
  <2>2. QED
    BY <1>1, <2>1 DEF Capabilities
<1>2. CASE command = "submit_reading"
  <2>1. status[b] \in {"plan_locked", "sampling", "failed", "returned"}
    BY <1>2, AcceptsInTerms
  <2>2. QED
    BY <1>2, <2>1 DEF Capabilities, CanSubmitSample
<1>3. CASE command = "recalibrate"
  <2>1. status[b] \in {"failed", "returned"}
    BY <1>3, AcceptsInTerms
  <2>2. QED
    BY <1>3, <2>1 DEF Capabilities, CanRecalibrate
<1>4. CASE command = "approve_review"
  <2>1. status[b] = "ready_review"
    BY <1>4, AcceptsInTerms DEF AcceptsApproval
  <2>2. QED
    BY <1>4, <2>1 DEF Capabilities
<1>5. CASE command = "return_review"
  <2>1. status[b] \in {"ready_review", "failed"}
    BY <1>5, AcceptsInTerms
  <2>2. QED
    BY <1>5, <2>1 DEF Capabilities
<1>6. CASE command = "resubmit_review"
  <2>1. status[b] = "returned"
    BY <1>6, AcceptsInTerms
  <2>2. QED
    BY <1>6, <2>1 DEF Capabilities
<1>7. CASE command = "issue_credential"
  <2>1. status[b] = "frozen"
    BY <1>7, AcceptsInTerms
  <2>2. QED
    BY <1>7, <2>1 DEF Capabilities
<1>8. QED
  BY <1>1, <1>2, <1>3, <1>4, <1>5, <1>6, <1>7 DEF CommandNames

\* A command that is carried out passed its guards.
LEMMA CarriedIsAccepted ==
  ASSUME TypeOK, NEW b \in Batches, NEW command \in CommandNames, Carries(b, command)
  PROVE  Accepts(b, command)
<1>1. CASE command = "register_sensor"
  <2>1. \E c \in Codes, range \in Ranges : RegisterSensor(b, c, range)
    BY <1>1 DEF Carries
  <2>2. QED
    BY <1>1, <2>1, AcceptsInTerms DEF RegisterSensor
<1>2. CASE command = "lock_profile"
  <2>1. \E points \in SUBSET Points : LockProfile(b, points)
    BY <1>2 DEF Carries
  <2>2. QED
    BY <1>2, <2>1, AcceptsInTerms DEF LockProfile
<1>3. CASE command = "submit_reading"
  <2>1. PICK s \in CurrentSensors(b), drafts \in Judgements(b), actor \in Actors :
          SubmitMeasurements(s, drafts, actor)
    BY <1>3 DEF Carries
  <2>2. s.batch = b /\ DOMAIN drafts \subseteq profile[b]
    BY <2>1, CurrentSensorType DEF SubmitMeasurements
  <2>3. /\ status[b] \in {"plan_locked", "sampling", "failed", "returned"}
        /\ DOMAIN drafts # {}
        /\ NotYetMeasured({Key(s, p) : p \in DOMAIN drafts})
    BY <2>1, <2>2 DEF SubmitMeasurements, PutMeasurements
  <2>4. PICK p \in DOMAIN drafts : Key(s, p) \notin DOMAIN measurements
    BY <2>3 DEF NotYetMeasured
  <2>5. Unmeasured(b)
    BY <2>1, <2>2, <2>4 DEF Unmeasured
  <2>6. QED
    BY <1>3, <2>1, <2>3, <2>5, AcceptsInTerms
<1>4. CASE command = "recalibrate"
  <2>1. PICK s \in CurrentSensors(b) : Recalibrate(s)
    BY <1>4 DEF Carries
  <2>2. s.batch = b
    BY CurrentSensorType
  <2>3. QED
    BY <1>4, <2>1, <2>2, AcceptsInTerms DEF Recalibrate
<1>5. CASE command = "approve_review"
  <2>1. PICK actor \in Actors : ApproveReview(b, actor)
    BY <1>5 DEF Carries
  <2>2. AcceptsApproval(b, actor)
    BY <2>1 DEF ApproveReview, Freeze, AcceptsApproval
  <2>3. QED
    BY <1>5, <2>2, AcceptsInTerms
<1>6. CASE command = "return_review"
  <2>1. PICK actor \in Actors, corrections \in SUBSET Corrections(b) :
          ReturnReview(b, actor, corrections)
    BY <1>6 DEF Carries
  <2>2. /\ status[b] \in {"ready_review", "failed"} /\ ~ HasSampler(b, actor)
        /\ corrections # {}
    BY <2>1 DEF ReturnReview
  <2>3. Corrections(b) # {}
    BY <2>1, <2>2
  <2>4. QED
    BY <1>6, <2>2, <2>3, AcceptsInTerms
<1>7. CASE command = "resubmit_review"
  <2>1. PICK actor \in Actors : ResubmitReview(b, actor)
    BY <1>7 DEF Carries
  <2>2. QED
    BY <1>7, <2>1, AcceptsInTerms DEF ResubmitReview
<1>8. CASE command = "issue_credential"
  <2>1. Issue(b)
    BY <1>8 DEF Carries
  <2>2. QED
    BY <1>8, <2>1, AcceptsInTerms DEF Issue
<1>9. QED
  BY <1>1, <1>2, <1>3, <1>4, <1>5, <1>6, <1>7, <1>8 DEF CommandNames

\* The report and the commands look at the same things.
ViewsInv ==
  /\ TypeOK /\ EvidenceInv /\ ReferencesInv /\ ProgressInv /\ DutiesInv /\ CredentialInv
  /\ WorkInv

\* All of this holds throughout.
LEMMA ViewsAlways == Spec => []ViewsInv
BY TypeInit, TypeNext, AbsentInit, AbsentNext, EvidenceInit, EvidenceNext, ReferencesInit,
   ReferencesNext, ProgressInit, ProgressNext, DutiesInit, DutiesNext, CredentialInit,
   CredentialNext, WorkInit, WorkNext, PTL DEF Spec, ViewsInv

\* A credential belongs to a released batch.
LEMMA NoCredentialBefore ==
  ASSUME ViewsInv, NEW b \in Batches, status[b] # "released"
  PROVE  CredentialsOf(b) = {}
BY DEF ViewsInv, CredentialInv, CredentialsOf

\* A batch that awaits its review, or is past it, has no open finding.
LEMMA NothingOpenInReview ==
  ASSUME ViewsInv, NEW b \in Batches, InReview(b)
  PROVE  OpenFindings(b) = {}
BY DEF ViewsInv, EvidenceInv, ReviewedIsReady, ReviewReady

\* What was measured everywhere and has no open finding is complete.
LEMMA MeasuredIsComplete ==
  ASSUME ViewsInv, NEW b \in Batches, Unshared(b), Locked(b), EverMeasured(b),
         OpenFindings(b) = {}
  PROVE  Complete(b)
<1>1. CurrentSensors(b) # {}
  BY CurrentExists DEF ViewsInv, ProgressInv, BatchProgress
<1>2. ASSUME NEW s \in CurrentSensors(b), NEW p \in profile[b]
      PROVE  Covered(s, p)
  <2>1. s \in SensorRevision /\ s.batch = b /\ s.revision \in Revisions
    BY <1>2, CurrentSensorType DEF ViewsInv, SensorRevision
  <2>2. PICK r \in 1 .. s.revision : Measured(s, r, p)
    BY DEF EverMeasured
  <2>3. ~ OwnProblem(s, p)
    BY <2>1 DEF OwnProblem
  <2>4. CASE r = s.revision
    BY <2>1, <2>2, <2>4, KeyOfRevision DEF Measured, Key, Covered
  <2>5. CASE r # s.revision
    <3>1. r \in EarlierEvidence(s, p)
      BY <2>1, <2>2, <2>5, RevisionAssumption DEF EarlierEvidence, Measured, Revisions
    <3>2. QED
      BY <2>3, <3>1 DEF Covered
  <2>6. QED
    BY <2>4, <2>5
<1>3. QED
  BY <1>1, <1>2, CompletenessIsOwn DEF ViewsInv, OwnComplete, CompleteIsOwn, EvidenceInv

\* A batch that awaits its review has every point measured.
LEMMA ReviewedIsComplete ==
  ASSUME ViewsInv, NEW b \in Batches, Unshared(b), InReview(b)
  PROVE  Complete(b)
<1>1. Locked(b) /\ OpenFindings(b) = {} /\ EverMeasured(b)
  BY DEF ViewsInv, EvidenceInv, ReviewedIsReady, ReviewReady, EverMeasured, InReview, Locked
<1>2. QED
  BY <1>1, MeasuredIsComplete

\* What AdviceCanBeFollowed says of a batch: a command that carries out the advice is
\* accepted, or the batch is one of the exceptions named there.
FollowUp(b) ==
  \/ \E command \in Advised(b) : Accepts(b, command)
  \/ status[b] = "draft" /\ Cardinality({p \in Points : RangesCover(b, {p})}) < 2
  \/ status[b] = "returned" /\ OpenFindings(b) # {} /\ MeasuringHelps(b)
  \/ status[b] = "ready_review" /\ sampledBy[b] = Actors
  \/ \E s \in CurrentSensors(b) : HasOpenFinding(s) /\ s.revision = MaxRevision

\* A draft: as long as there is no sensor any code will do, and with sensors the
\* points they have in common make the largest profile.
LEMMA DraftAdvice ==
  ASSUME ViewsInv, NEW b \in Batches, status[b] = "draft"
  PROVE  FollowUp(b)
<1>1. CASE CurrentSensors(b) = {}
  <2>1. \A s \in DOMAIN sensors : s.batch # b
    BY <1>1, CurrentExists DEF ViewsInv
  <2>2. Accepts(b, "register_sensor")
    BY <2>1, RequestsAssumption, AcceptsInTerms
  <2>3. nextBatchAction(b) = "register_sensor"
    BY <1>1 DEF nextBatchAction
  <2>4. Advised(b) = {"register_sensor"}
    BY <2>3 DEF Advised
  <2>5. QED
    BY <2>2, <2>4 DEF FollowUp
<1>2. CASE CurrentSensors(b) # {}
  <2> DEFINE common == {p \in Points : RangesCover(b, {p})}
  <2>1. \E s \in DOMAIN sensors : s.batch = b
    BY <1>2 DEF CurrentSensors
  <2>2. RangesCover(b, common) /\ common \in SUBSET Points
    BY DEF RangesCover
  <2>3. nextBatchAction(b) = "lock_profile"
    BY <1>2 DEF nextBatchAction
  <2>4. Advised(b) = {"lock_profile"}
    BY <2>3 DEF Advised
  <2>5. Cardinality(common) \in Nat
    BY PointsAssumption, FS_Subset, FS_CardinalityType
  <2> HIDE DEF common
  <2>6. Cardinality(common) >= 2 => Accepts(b, "lock_profile")
    BY <2>1, <2>2, AcceptsInTerms
  <2>7. Cardinality(common) >= 2 \/ Cardinality(common) < 2
    BY <2>5
  <2>8. QED
    BY <2>4, <2>6, <2>7 DEF FollowUp, common
<1>3. QED
  BY <1>1, <1>2

\* A batch that is sampled has a point to measure.
LEMMA SamplingAdvice ==
  ASSUME ViewsInv, NEW b \in Batches, status[b] \in {"plan_locked", "sampling"}
  PROVE  FollowUp(b)
<1>1. Unmeasured(b)
  <2>1. CASE status[b] = "sampling"
    BY <2>1 DEF ViewsInv, WorkInv, BatchWork
  <2>2. CASE status[b] = "plan_locked"
    <3>1. ~ Complete(b) /\ CurrentSensors(b) # {}
      BY <2>2, ProgressImpliesRepairs, CurrentExists
      DEF ViewsInv, RepairsCanGoOn, ProgressInv, BatchProgress, Locked
    <3>2. QED
      BY <3>1, EvidenceMeasures DEF EvidenceIsMeasured, ViewsInv
  <2>3. QED
    BY <2>1, <2>2
<1>2. Accepts(b, "submit_reading")
  BY <1>1, RequestsAssumption, AcceptsInTerms
<1>3. nextBatchAction(b) = "submit_measurements"
  BY DEF nextBatchAction
<1>4. Advised(b) = {"submit_reading"}
  BY <1>3 DEF Advised
<1>5. QED
  BY <1>2, <1>4 DEF FollowUp

\* A batch that failed, or was returned with a finding of a current revision, has a
\* sensor to recalibrate.
LEMMA RecalibrationAdvice ==
  ASSUME ViewsInv, NEW b \in Batches, Recalibratable(b),
         \/ status[b] = "failed"
         \/ status[b] = "returned" /\ OpenFindings(b) # {}
  PROVE  FollowUp(b)
<1>1. nextBatchAction(b) = "recalibrate"
  BY DEF nextBatchAction
<1>2. Advised(b) = {"recalibrate"}
  BY <1>1 DEF Advised
<1>3. PICK s \in CurrentSensors(b) : HasOpenFinding(s)
  BY DEF Recalibratable
<1>4. s.revision < MaxRevision \/ s.revision = MaxRevision
  BY CurrentSensorType, RevisionAssumption DEF ViewsInv, SensorRevision, Revisions
<1>5. s.revision < MaxRevision => Accepts(b, "recalibrate")
  BY <1>3, AcceptsInTerms
<1>6. QED
  BY <1>2, <1>3, <1>4, <1>5 DEF FollowUp

\* A returned batch: with findings of earlier revisions only, their points are still
\* to be measured; without findings it is complete and can be resubmitted.
LEMMA ReturnedAdvice ==
  ASSUME ViewsInv, NEW b \in Batches, Unshared(b), status[b] = "returned"
  PROVE  FollowUp(b)
<1>1. ASSUME NEW f \in OpenFindings(b), ~ Recalibratable(b)
      PROVE  FollowUp(b)
  <2>1. f.point \in profile[b]
    BY <1>1 DEF OpenFindings, BatchFindings, ViewsInv, ProgressInv, FindingSound
  <2>2. Unmeasured(b)
    BY <1>1, <2>1, OpenFindingLeads DEF ViewsInv, Recalibratable, Unmeasured
  <2>3. Accepts(b, "submit_reading")
    BY <2>2, RequestsAssumption, AcceptsInTerms
  <2>4. ASSUME NEW g \in OpenFindings(b)
        PROVE  /\ g.point \in profile[b]
               /\ \E s \in CurrentSensors(b) :
                    s.code = g.code /\ NotYetMeasured({Key(s, g.point)})
    <3>1. g.point \in profile[b]
      BY DEF OpenFindings, BatchFindings, ViewsInv, ProgressInv, FindingSound
    <3>2. PICK s \in CurrentSensors(b) :
            s.code = g.code /\ Key(s, g.point) \notin DOMAIN measurements
      BY <1>1, OpenFindingLeads DEF ViewsInv, Recalibratable
    <3>3. NotYetMeasured({Key(s, g.point)})
      BY <3>2 DEF NotYetMeasured
    <3>4. QED
      BY <3>1, <3>2, <3>3
  <2>5. QED
    BY <1>1, <2>3, <2>4 DEF FollowUp, MeasuringHelps
<1>2. CASE OpenFindings(b) = {}
  <2>1. Locked(b) /\ EverMeasured(b)
    BY DEF ViewsInv, WorkInv, BatchWork, Locked
  <2>2. Complete(b)
    BY <1>2, <2>1, MeasuredIsComplete
  <2>3. Accepts(b, "resubmit_review")
    BY <1>2, <2>2, RequestsAssumption, AcceptsInTerms DEF Unblocked
  <2>4. nextBatchAction(b) = "resubmit_review"
    BY <1>2 DEF nextBatchAction
  <2>5. Advised(b) = {"resubmit_review"}
    BY <2>4 DEF Advised
  <2>6. QED
    BY <2>3, <2>5 DEF FollowUp
<1>3. QED
  BY <1>1, <1>2, RecalibrationAdvice

\* A batch in review can be approved by anybody who took no readings, and a frozen one
\* has no credential yet.
LEMMA ReviewAdvice ==
  ASSUME ViewsInv, NEW b \in Batches, status[b] \in {"ready_review", "frozen"}
  PROVE  FollowUp(b)
<1>1. OpenFindings(b) = {}
  BY NothingOpenInReview DEF InReview
<1>2. CASE status[b] = "ready_review" /\ sampledBy[b] # Actors
  <2>1. PICK actor \in Actors : ~ HasSampler(b, actor)
    BY <1>2 DEF ViewsInv, TypeOK, HasSampler
  <2>2. Accepts(b, "approve_review")
    BY <1>1, <1>2, <2>1, AcceptsInTerms DEF AcceptsApproval
  <2>3. nextBatchAction(b) = "review"
    BY <1>2 DEF nextBatchAction
  <2>4. "approve_review" \in Advised(b)
    BY <2>3 DEF Advised
  <2>5. QED
    BY <2>2, <2>4 DEF FollowUp
<1>3. CASE status[b] = "frozen"
  <2>1. Accepts(b, "issue_credential")
    BY <1>1, <1>3, NoCredentialBefore, AcceptsInTerms
  <2>2. nextBatchAction(b) = "issue_credential"
    BY <1>3 DEF nextBatchAction
  <2>3. Advised(b) = {"issue_credential"}
    BY <2>2 DEF Advised
  <2>4. QED
    BY <2>1, <2>3 DEF FollowUp
<1>4. QED
  BY <1>2, <1>3 DEF FollowUp

\* The advice of the work queue can be followed, but for the exceptions it names.
THEOREM AdviceIsSound == Spec => [](CodesUnshared => AdviceCanBeFollowed)
<1>1. ASSUME ViewsInv, CodesUnshared, NEW b \in Existing, status[b] # "released"
      PROVE  FollowUp(b)
  <2>1. b \in Batches /\ Unshared(b) /\ status[b] \in Statuses
    BY <1>1 DEF Existing, CodesUnshared, ViewsInv, TypeOK
  <2>2. CASE status[b] = "failed"
    <3>1. Recalibratable(b)
      BY <1>1, <2>1, <2>2 DEF ViewsInv, ProgressInv, BatchProgress
    <3>2. QED
      BY <1>1, <2>1, <2>2, <3>1, RecalibrationAdvice
  <2>3. QED
    BY <1>1, <2>1, <2>2, DraftAdvice, SamplingAdvice, ReturnedAdvice, ReviewAdvice DEF Statuses
<1>2. ViewsInv => (CodesUnshared => AdviceCanBeFollowed)
  BY <1>1 DEF AdviceCanBeFollowed, FollowUp
<1>3. QED
  BY <1>2, ViewsAlways, PTL

\* The advice can be followed, or the batch is a returned one with a point to measure.
AdviceOrMeasurement ==
  \A b \in Existing : status[b] # "released" =>
    FollowUp(b) \/ (status[b] = "returned" /\ Accepts(b, "submit_reading"))

\* Where batches share codes there is one more exception to the advice than those
\* AdviceCanBeFollowed names: a returned batch without findings, when a finding of
\* another batch takes away the evidence of a point.  That point can be measured.
THEOREM AdviceWithSharedCodes == Spec => []AdviceOrMeasurement
<1>1. ASSUME ViewsInv, NEW b \in Existing, status[b] # "released"
      PROVE  FollowUp(b) \/ (status[b] = "returned" /\ Accepts(b, "submit_reading"))
  <2>1. b \in Batches /\ status[b] \in Statuses
    BY <1>1 DEF Existing, ViewsInv, TypeOK
  <2>2. status[b] = "failed" => FollowUp(b)
    BY <1>1, <2>1, RecalibrationAdvice DEF ViewsInv, ProgressInv, BatchProgress
  <2>3. CASE status[b] = "returned"
    <3>1. CASE OpenFindings(b) # {} /\ Recalibratable(b)
      BY <1>1, <2>1, <2>3, <3>1, RecalibrationAdvice
    <3>2. ASSUME NEW f \in OpenFindings(b), ~ Recalibratable(b)
          PROVE  Unmeasured(b)
      <4>1. f.point \in profile[b]
        BY <1>1, <3>2 DEF OpenFindings, BatchFindings, ViewsInv, ProgressInv, FindingSound
      <4>2. QED
        BY <1>1, <2>1, <3>2, <4>1, OpenFindingLeads DEF ViewsInv, Recalibratable, Unmeasured
    <3>3. CASE OpenFindings(b) = {} /\ ~ Complete(b)
      <4>1. CurrentSensors(b) # {}
        BY <1>1, <2>1, <2>3, CurrentExists DEF ViewsInv, ProgressInv, BatchProgress, Locked
      <4>2. Unmeasured(b)
        BY <1>1, <2>1, <3>3, <4>1, EvidenceMeasures DEF EvidenceIsMeasured, ViewsInv
      <4>3. QED
        BY <2>1, <2>3, <4>2, RequestsAssumption, AcceptsInTerms
    <3>4. CASE OpenFindings(b) = {} /\ Complete(b)
      <4>1. Accepts(b, "resubmit_review")
        BY <2>1, <2>3, <3>4, RequestsAssumption, AcceptsInTerms DEF Unblocked
      <4>2. nextBatchAction(b) = "resubmit_review"
        BY <2>3, <3>4 DEF nextBatchAction
      <4>3. Advised(b) = {"resubmit_review"}
        BY <4>2 DEF Advised
      <4>4. QED
        BY <4>1, <4>3 DEF FollowUp
    <3>5. Unmeasured(b) => Accepts(b, "submit_reading")
      BY <2>1, <2>3, RequestsAssumption, AcceptsInTerms
    <3>6. QED
      BY <2>3, <3>1, <3>2, <3>3, <3>4, <3>5
  <2>4. QED
    BY <1>1, <2>1, <2>2, <2>3, DraftAdvice, SamplingAdvice, ReviewAdvice DEF Statuses
<1>2. ViewsInv => AdviceOrMeasurement
  BY <1>1 DEF AdviceOrMeasurement
<1>3. QED
  BY <1>2, ViewsAlways, PTL

\* What the report of blockers comes to.
LEMMA BlockersInTerms ==
  ASSUME NEW b \in Batches
  PROVE  Blockers(b) = {} <=>
           \/ status[b] \in {"frozen", "released"}
           \/ Complete(b) /\ profile[b] # {} /\ OpenFindings(b) = {} /\ sampledBy[b] # {}
<1> DEFINE sensorless == {code \in {"no_sensors"} : CurrentSensors(b) = {}}
           uncovered == \E s \in CurrentSensors(b), p \in profile[b] : EffectiveEvidence(s, p) = 0
           missing == {code \in {"missing_measurement"} : uncovered}
           open == {code \in {"open_findings"} : OpenFindings(b) # {}}
           unsampled == {code \in {"no_sampling_actor"} : sampledBy[b] = {}}
<1>1. Blockers(b) = IF status[b] \in {"frozen", "released"} THEN {}
                    ELSE sensorless \cup IF profile[b] = {} THEN {"profile_unlocked"}
                                        ELSE missing \cup open \cup unsampled
  BY DEF Blockers
<1>2. /\ sensorless = {} <=> CurrentSensors(b) # {}
      /\ missing = {} <=> ~ uncovered
      /\ open = {} <=> OpenFindings(b) = {}
      /\ unsampled = {} <=> sampledBy[b] # {}
  <2> HIDE DEF uncovered
  <2>1. QED
    OBVIOUS
<1>3. Complete(b) <=> CurrentSensors(b) # {} /\ ~ uncovered
  BY DEF Complete
<1> HIDE DEF sensorless, uncovered, missing, open, unsampled
<1>4. QED
  BY <1>1, <1>2, <1>3

\* Who measured a batch is remembered with it.
LEMMA CompleteIsSampled ==
  ASSUME ViewsInv, NEW b \in Batches, Locked(b), Complete(b)
  PROVE  profile[b] # {} /\ sampledBy[b] # {}
<1>1. profile[b] # {}
  <2>1. Cardinality(profile[b]) >= 2
    BY DEF ViewsInv, ReferencesInv, BatchSound
  <2>2. QED
    BY <2>1, FS_EmptySet
<1>2. PICK s \in CurrentSensors(b), p \in profile[b] : TRUE
  BY <1>1 DEF Complete
<1>3. PICK r \in 1 .. s.revision : Measured(s, r, p)
  BY <1>2, EvidenceMeasures DEF ViewsInv, EvidenceIsMeasured, EverMeasured
<1>4. s \in SensorRevision /\ s.batch = b
  BY <1>2, CurrentSensorType DEF ViewsInv
<1> DEFINE k == Key([s EXCEPT !.revision = r], p)
<1>5. k \in DOMAIN measurements /\ k.batch = b
  <2>1. k = [batch |-> s.batch, code |-> s.code, revision |-> r, point |-> p]
    BY <1>4, KeyOfRevision
  <2>2. QED
    BY <1>3, <1>4, <2>1 DEF Measured
<1> HIDE DEF k
<1>6. measurements[k].capturedBy \in sampledBy[b]
  BY <1>5 DEF ViewsInv, DutiesInv, SubmittersAreSamplers
<1>7. QED
  BY <1>1, <1>6

\* A batch without blockers awaits its review, is past it, or can be resubmitted.
THEOREM BlockersAreExact == Spec => [](CodesUnshared => NoBlockersMeansReviewable)
<1>1. ASSUME ViewsInv, CodesUnshared, NEW b \in Existing
      PROVE  Blockers(b) = {} <=>
               \/ status[b] \in {"ready_review", "frozen", "released"}
               \/ status[b] = "returned" /\ Accepts(b, "resubmit_review")
  <2>1. b \in Batches /\ Unshared(b) /\ status[b] \in Statuses
    BY <1>1 DEF Existing, CodesUnshared, ViewsInv, TypeOK
  <2>2. CASE ~ Locked(b)
    <3>1. profile[b] = {} /\ status[b] = "draft"
      BY <1>1, <2>1, <2>2 DEF ViewsInv, WorkInv, BatchWork, Locked, Statuses
    <3>2. QED
      BY <2>1, <3>1, BlockersInTerms
  <2>3. CASE status[b] \in {"plan_locked", "sampling", "failed"}
    <3>1. status[b] \in {"plan_locked", "sampling"} => ~ Complete(b)
      <4>1. status[b] = "sampling" => ~ OwnComplete(b)
        BY <1>1, <2>1 DEF ViewsInv, ProgressInv, BatchProgress
      <4>2. Complete(b) => OwnComplete(b)
        BY <1>1, <2>1, CompletenessIsOwn DEF CompleteIsOwn, ViewsInv, EvidenceInv
      <4>3. status[b] = "plan_locked" => ~ Complete(b)
        BY <1>1, <2>1, ProgressImpliesRepairs DEF ViewsInv, RepairsCanGoOn
      <4>4. QED
        BY <4>1, <4>2, <4>3
    <3>2. status[b] = "failed" => OpenFindings(b) # {}
      <4>1. ASSUME status[b] = "failed" PROVE OpenFindings(b) # {}
        <5>1. Recalibratable(b)
          BY <1>1, <2>1, <4>1 DEF ViewsInv, ProgressInv, BatchProgress
        <5>2. PICK s \in CurrentSensors(b) : HasOpenFinding(s)
          BY <5>1 DEF Recalibratable
        <5>3. s.batch = b
          BY <1>1, <2>1, CurrentSensorType DEF ViewsInv
        <5>4. QED
          BY <5>2, <5>3 DEF HasOpenFinding
      <4>2. QED
        BY <4>1
    <3>3. QED
      BY <2>1, <2>3, <3>1, <3>2, BlockersInTerms
  <2>4. CASE status[b] = "returned"
    <3>1. Blockers(b) = {} <=> Unblocked(b)
      BY <1>1, <2>1, <2>4, CompleteIsSampled, BlockersInTerms DEF Unblocked, Locked
    <3>2. Accepts(b, "resubmit_review") <=> Unblocked(b)
      BY <2>1, <2>4, RequestsAssumption, AcceptsInTerms
    <3>3. QED
      BY <2>4, <3>1, <3>2
  <2>5. CASE status[b] = "ready_review"
    <3>1. Complete(b) /\ OpenFindings(b) = {}
      BY <1>1, <2>1, <2>5, ReviewedIsComplete, NothingOpenInReview DEF InReview
    <3>2. QED
      BY <1>1, <2>1, <2>5, <3>1, CompleteIsSampled, BlockersInTerms DEF Locked
  <2>6. CASE status[b] \in {"frozen", "released"}
    BY <2>1, <2>6, BlockersInTerms
  <2>7. QED
    BY <2>1, <2>2, <2>3, <2>4, <2>5, <2>6 DEF Statuses, Locked
<1>2. ViewsInv => (CodesUnshared => NoBlockersMeansReviewable)
  BY <1>1 DEF NoBlockersMeansReviewable
<1>3. QED
  BY <1>2, ViewsAlways, PTL

\* What a batch advertises and its readiness report agree with the guards of the
\* commands.
THEOREM ReportsAreSound == Spec => [](CodesUnshared => ReportsAgree)
<1>1. ASSUME ViewsInv, CodesUnshared, NEW b \in Existing
      PROVE  ReportAgrees(b)
  <2>1. b \in Batches /\ Unshared(b) /\ status[b] \in Statuses
    BY <1>1 DEF Existing, CodesUnshared, ViewsInv, TypeOK
  <2>2. ASSUME NEW command \in CommandNames, Accepts(b, command)
        PROVE  /\ command \in Capabilities[status[b]]
               /\ command = "submit_reading" => CanSubmitSample(b)
               /\ command = "recalibrate" => CanRecalibrate(b)
               /\ Immutable(b) => command = "issue_credential"
    BY <2>1, <2>2, AcceptedIsAdvertised DEF Immutable
  <2>3. Accepts(b, "issue_credential") <=> CanIssueCredential(b)
    BY <1>1, <2>1, NothingOpenInReview, AcceptsInTerms DEF CanIssueCredential, InReview
  <2>4. ASSUME NEW actor \in Actors
        PROVE  ReviewerEligible(b, actor) <=> AcceptsApproval(b, actor)
    <3>1. status[b] = "ready_review" => Complete(b) /\ profile[b] # {}
      BY <1>1, <2>1, ReviewedIsComplete, CompleteIsSampled DEF InReview, Locked
    <3>2. QED
      BY <3>1 DEF ReviewerEligible, CanReview, AcceptsApproval, HasSampler
  <2>5. QED
    BY <2>2, <2>3, <2>4 DEF ReportAgrees
<1>2. ViewsInv => (CodesUnshared => ReportsAgree)
  BY <1>1 DEF ReportsAgree
<1>3. QED
  BY <1>2, ViewsAlways, PTL

\* What is done was advertised.
Advertised ==
  \A b \in Batches, command \in CommandNames :
    Carries(b, command) => Accepts(b, command) /\ command \in Capabilities[status[b]]

\* Every command that is carried out had passed the guards by which the views judge it,
\* in a state that advertised it, whatever codes are shared.
THEOREM CommandsWereAdvertised == Spec => [][Advertised]_vars
<1>1. ASSUME TypeOK, NEW b \in Batches, NEW command \in CommandNames, Carries(b, command)
      PROVE  Accepts(b, command) /\ command \in Capabilities[status[b]]
  <2>1. Accepts(b, command)
    BY <1>1, CarriedIsAccepted
  <2>2. QED
    BY <1>1, <2>1, AcceptedIsAdvertised
<1>2. TypeOK => Advertised
  BY <1>1 DEF Advertised
<1>3. QED
  BY <1>2, TypeCorrect, PTL

-----------------------------------------------------------------------------
(* What a submission asks of the status machine. *)

\* A submission up to its evaluation: the readings and their findings are stored.
SubmissionStores(s, drafts, actor) ==
  /\ status[s.batch] \in {"plan_locked", "sampling", "failed", "returned"}
  /\ IsCurrentRevision(s)
  /\ DOMAIN drafts # {}
  /\ DOMAIN drafts \subseteq profile[s.batch]
  /\ PutMeasurements(s, drafts, actor)
  /\ UpdateRecalibrationTask(s, drafts)
  /\ ReplaceAutomaticFindings(s, drafts)
  /\ UNCHANGED <<profile, reviewedBy, sensors, reviews, credentials>>

\* The evaluation is what is left of a submission.
LEMMA SubmissionInParts ==
  ASSUME NEW s, NEW drafts, NEW actor
  PROVE  SubmitMeasurements(s, drafts, actor) <=>
           /\ SubmissionStores(s, drafts, actor)
           /\ SetEvaluationStatus(s.batch, Complete(s.batch)', OpenFindings(s.batch)')
BY DEF SubmitMeasurements, SubmissionStores

\* Storing readings keeps open the finding a failed batch is to be recalibrated for: only
\* findings of revisions before the one measured are closed.
LEMMA FailedStaysOpen ==
  ASSUME TypeOK, ProgressInv, NEW b \in Batches, NEW s \in CurrentSensors(b),
         NEW drafts, NEW actor, SubmissionStores(s, drafts, actor), status[b] = "failed"
  PROVE  OpenFindings(b)' # {}
<1>1. PICK t \in CurrentSensors(b) : HasOpenFinding(t)
  BY DEF ProgressInv, BatchProgress, Recalibratable
<1>2. /\ s.batch = b /\ t.batch = b /\ s \in SensorRevision /\ t \in SensorRevision
  BY CurrentSensorType
<1>3. PICK f \in OpenFindings(b) : f.code = t.code /\ f.revision = t.revision
  BY <1>1, <1>2 DEF HasOpenFinding
<1>4. f \notin ClearedFindings(s, drafts)
  <2>1. SUFFICES ASSUME f.code = s.code, f.revision < s.revision PROVE FALSE
    BY DEF ClearedFindings
  <2>2. s \in DOMAIN sensors /\ IsCurrentRevision(t)
    BY DEF CurrentSensors
  <2>3. s.revision <= t.revision
    BY <1>2, <1>3, <2>1, <2>2 DEF IsCurrentRevision
  <2>4. s.revision \in Nat /\ t.revision \in Nat
    BY <1>2 DEF SensorRevision, Revisions
  <2>5. QED
    BY <1>3, <2>1, <2>3, <2>4
<1>5. f \in DOMAIN findings' /\ findings'[f] = 0 /\ f.batch = b
  BY <1>4 DEF SubmissionStores, ReplaceAutomaticFindings, OpenFindings, BatchFindings
<1>6. QED
  BY <1>5 DEF OpenFindings, BatchFindings

\* The status a submission computes for its batch is one the status machine allows,
\* whatever the readings are and whatever codes are shared.
EvaluationIsLegal ==
  \A b \in Batches : \A s \in CurrentSensors(b) : \A drafts, actor :
    SubmissionStores(s, drafts, actor) =>
      LET next == IF status[b] = "returned" THEN "returned"
                  ELSE EvaluatedStatus(Complete(b)', OpenFindings(b)') IN
      AllowedTransition(status[b], next) \/ status[b] = next

\* No submission is refused after its readings were judged.  Only the way from failed
\* to ready_review is closed to it, and a failed batch keeps an open finding.  The
\* statement is about every step that stores readings, also one that SetEvaluationStatus
\* would refuse; such a step is none of Spec's, so it is stated over the invariants,
\* which hold throughout (ViewsAlways).
THEOREM SubmissionsAreNeverRefused == TypeOK /\ ProgressInv => EvaluationIsLegal
<1> SUFFICES ASSUME TypeOK, ProgressInv, NEW b \in Batches, NEW s \in CurrentSensors(b),
                    NEW drafts, NEW actor, SubmissionStores(s, drafts, actor)
             PROVE  LET next == IF status[b] = "returned" THEN "returned"
                                ELSE EvaluatedStatus(Complete(b)', OpenFindings(b)') IN
                    AllowedTransition(status[b], next) \/ status[b] = next
  BY DEF EvaluationIsLegal
<1> DEFINE evaluated == EvaluatedStatus(Complete(b)', OpenFindings(b)')
<1>1. status[b] \in {"plan_locked", "sampling", "failed", "returned"}
  BY CurrentSensorType DEF SubmissionStores
<1>2. /\ evaluated \in {"sampling", "failed", "ready_review"}
      /\ evaluated = "ready_review" => OpenFindings(b)' = {}
  BY DEF EvaluatedStatus
<1>3. status[b] = "failed" => evaluated # "ready_review"
  BY <1>2, FailedStaysOpen
<1> HIDE DEF evaluated
<1>4. status[b] = "returned" \/ AllowedTransition(status[b], evaluated)
      \/ status[b] = evaluated
  BY <1>1, <1>2, <1>3 DEF AllowedTransition, legalTransitions
<1>5. QED
  BY <1>4 DEF evaluated

=============================================================================
