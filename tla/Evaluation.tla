----------------------------- MODULE Evaluation -----------------------------
(***************************************************************************)
(* The evaluation policy (internal/policy/evaluation): which evidence      *)
(* covers a standard point of a sensor revision, when a batch is complete, *)
(* and how the recalibration tasks of a revision are built and updated.    *)
(*                                                                         *)
(* Every set of readings that is accepted has the repetitions the profile  *)
(* asks for, so a point is complete as soon as it has evidence.            *)
(***************************************************************************)
EXTENDS Snapshot, FiniteSetsExt

\* Earlier revisions of s in its own batch that measured point p.
EarlierEvidence(s, p) ==
  {r \in Revisions : r < s.revision /\ Key([s EXCEPT !.revision = r], p) \in DOMAIN measurements}

PreviousEvidence(s, p) ==
  IF EarlierEvidence(s, p) = {} THEN 0 ELSE Max(EarlierEvidence(s, p))

\* Fault: an open finding of an earlier revision no longer blocks inheritance.
UnresolvedProblemPointsNone(s) == {}

\* The findings are selected by sensor code alone: those of other batches count.
UnresolvedProblemPoints(s) ==
  {f.point : f \in {g \in DOMAIN findings :
     g.code = s.code /\ g.revision < s.revision /\ findings[g] = 0}}

\* The revision whose measurement covers point p of sensor revision s: its own
\* or, where no problem is open, the latest earlier one.  0 is no evidence.
EffectiveEvidence(s, p) ==
  IF Key(s, p) \in DOMAIN measurements THEN s.revision
  ELSE IF p \in UnresolvedProblemPoints(s) THEN 0
  ELSE PreviousEvidence(s, p)

\* BuildCoverage and EvaluateBatch agree on this.
Complete(b) ==
  /\ CurrentSensors(b) # {}
  /\ \A s \in CurrentSensors(b), p \in profile[b] : EffectiveEvidence(s, p) # 0

-----------------------------------------------------------------------------
(* Recalibration tasks. *)

\* The open findings that a new revision s must clear at point p.
FindingsToClear(s, p) ==
  {f \in OpenFindings(s.batch) :
     f.code = s.code /\ f.revision < s.revision /\ f.point = p}

NewTask(s, p) ==
  LET open == FindingsToClear(s, p) IN
  [required |-> open # {},
   status   |-> IF open # {} THEN "pending" ELSE "inherited",
   findings |-> open,
   source   |-> PreviousEvidence(s, p),
   evidence |-> IF open # {} THEN 0 ELSE PreviousEvidence(s, p)]

\* Fault: no task records the points that are inherited.
BuildRequiredTasksOnly(s) ==
  LET keys == {Key(s, p) : p \in {q \in profile[s.batch] : FindingsToClear(s, q) # {}}} IN
  tasks' = [k \in DOMAIN tasks \cup keys |->
              IF k \in keys THEN NewTask(s, k.point) ELSE tasks[k]]

BuildRecalibrationTasks(s) ==
  LET keys == {Key(s, p) : p \in profile[s.batch]} IN
  tasks' = [k \in DOMAIN tasks \cup keys |->
              IF k \in keys THEN NewTask(s, k.point) ELSE tasks[k]]

\* Fault: a task that was never required is closed as well.
UpdateAnyRecalibrationTask(s, drafts) ==
  tasks' = [k \in DOMAIN tasks |->
    IF \E p \in DOMAIN drafts : k = Key(s, p)
      THEN [tasks[k] EXCEPT !.evidence = s.revision,
              !.status = IF drafts[k.point] = {} THEN "passed" ELSE "failed"]
      ELSE tasks[k]]

\* drafts: measured point -> what the policy finds wrong with its readings.
UpdateRecalibrationTask(s, drafts) ==
  tasks' = [k \in DOMAIN tasks |->
    IF tasks[k].required /\ \E p \in DOMAIN drafts : k = Key(s, p)
      THEN [tasks[k] EXCEPT !.evidence = s.revision,
              !.status = IF drafts[k.point] = {} THEN "passed" ELSE "failed"]
      ELSE tasks[k]]

=============================================================================
