----------------------------- MODULE Calibration -----------------------------
(***************************************************************************)
(* The life of calibration batches: one action per command of              *)
(* internal/application/workflow, each with the whole mutation that        *)
(* Store.Commit applies to the projection under its lock.  A command whose *)
(* guards fail leaves the projection alone and is not an action.           *)
(*                                                                         *)
(* Expected versions, idempotency keys and the ledger are the subject of   *)
(* EventStore; here every accepted command is one step.                    *)
(***************************************************************************)
EXTENDS Evaluation

(* Creation, registration and the profile. *)

CreateBatch(b) ==
  /\ status[b] = "absent"
  /\ status' = [status EXCEPT ![b] = "draft"]
  /\ version' = [version EXCEPT ![b] = 1]
  /\ UNCHANGED <<profile, sampledBy, reviewedBy, sensors, measurements,
                 findings, tasks, reviews, credentials>>

RegisterSensor(b, c, range) ==
  LET new == [batch |-> b, code |-> c, revision |-> 1] IN
  /\ status[b] = "draft"
  /\ \A s \in DOMAIN sensors : s.batch = b => s.code # c
  /\ sensors' = [s \in DOMAIN sensors \cup {new} |->
                   IF s = new THEN range ELSE sensors[s]]
  /\ Touch(b)
  /\ UNCHANGED <<status, profile, sampledBy, reviewedBy, measurements,
                 findings, tasks, reviews, credentials>>

RangesCover(b, points) == \A s \in CurrentSensors(b) : points \subseteq sensors[s]

LockProfile(b, points) ==
  /\ status[b] = "draft"
  /\ \E s \in DOMAIN sensors : s.batch = b
  /\ Cardinality(points) >= 2
  /\ RangesCover(b, points)
  /\ profile' = [profile EXCEPT ![b] = points]
  /\ MoveTo(b, "plan_locked")
  /\ UNCHANGED <<sampledBy, reviewedBy, sensors, measurements,
                 findings, tasks, reviews, credentials>>

-----------------------------------------------------------------------------
(* Readings and their evaluation. *)

\* Fault: only the last submitter is remembered.
AddSamplerForgetting(b, actor) == sampledBy' = [sampledBy EXCEPT ![b] = {actor}]

AddSampler(b, actor) == sampledBy' = [sampledBy EXCEPT ![b] = @ \cup {actor}]

\* Fault: a point can be measured again and its readings replaced.
NotYetMeasuredUnchecked(keys) == TRUE

NotYetMeasured(keys) == keys \cap DOMAIN measurements = {}

\* drafts is the request after the policy has judged it: point -> findings.  The
\* readings may lie anywhere in the range of s, and nowhere else.
PutMeasurements(s, drafts, actor) ==
  LET keys == {Key(s, p) : p \in DOMAIN drafts} IN
  /\ NotYetMeasured(keys)
  /\ measurements' = [k \in DOMAIN measurements \cup keys |->
       IF k \in keys
         THEN [drafts |-> drafts[k.point], extent |-> sensors[s], capturedBy |-> actor]
         ELSE measurements[k]]
  /\ AddSampler(s.batch, actor)

AutomaticFindings(s, drafts) ==
  UNION {{[batch |-> s.batch, code |-> s.code, revision |-> s.revision,
           point |-> p, kind |-> k, origin |-> "automatic"] : k \in drafts[p]}
         : p \in DOMAIN drafts}

\* Fault: passing at one point closes the findings of every point.
ClearedFindingsAnyPoint(s, drafts) ==
  {f \in OpenFindings(s.batch) :
     /\ f.code = s.code /\ f.revision < s.revision
     /\ \E p \in DOMAIN drafts : drafts[p] = {}}

\* Fault: a failing measurement closes the older findings of its point too.
ClearedFindingsOnFailure(s, drafts) ==
  {f \in OpenFindings(s.batch) :
     /\ f.code = s.code /\ f.revision < s.revision
     /\ f.point \in DOMAIN drafts}

\* Fault: the findings of other batches with the same sensor code are closed.
ClearedFindingsAnyBatch(s, drafts) ==
  {f \in DOMAIN findings :
     /\ findings[f] = 0 /\ f.code = s.code /\ f.revision < s.revision
     /\ f.point \in DOMAIN drafts /\ drafts[f.point] = {}}

\* Fault: off by one, a revision closes its own findings.
ClearedFindingsOwnRevision(s, drafts) ==
  {f \in OpenFindings(s.batch) :
     /\ f.code = s.code /\ f.revision <= s.revision
     /\ f.point \in DOMAIN drafts /\ drafts[f.point] = {}}

\* Automatic and manual findings alike are closed by a later passing revision.
ClearedFindings(s, drafts) ==
  {f \in OpenFindings(s.batch) :
     /\ f.code = s.code /\ f.revision < s.revision
     /\ f.point \in DOMAIN drafts /\ drafts[f.point] = {}}

ReplaceAutomaticFindings(s, drafts) ==
  LET raised  == AutomaticFindings(s, drafts)
      cleared == ClearedFindings(s, drafts) IN
  findings' = [f \in DOMAIN findings \cup raised |->
                 IF f \in raised THEN 0
                 ELSE IF f \in cleared THEN s.revision ELSE findings[f]]

\* Fault: a batch without open findings is ready before it is complete.
EvaluatedStatusTooEarly(complete, open) ==
  IF open # {} THEN IF complete THEN "failed" ELSE "sampling" ELSE "ready_review"

EvaluatedStatus(complete, open) ==
  IF ~complete THEN "sampling" ELSE IF open # {} THEN "failed" ELSE "ready_review"

\* Fault: a returned batch is evaluated like any other and reviewed again
\* without having been resubmitted.
SetEvaluationStatusAlways(b, complete, open) ==
  LET next == EvaluatedStatus(complete, open) IN
  /\ AllowedTransition(status[b], next) \/ status[b] = next
  /\ status' = [status EXCEPT ![b] = next]
  /\ Touch(b)

\* A returned batch stays returned until it is resubmitted.  complete and open
\* describe the batch after the readings and findings have been stored.
SetEvaluationStatus(b, complete, open) ==
  LET next == IF status[b] = "returned" THEN "returned"
                                        ELSE EvaluatedStatus(complete, open) IN
  /\ AllowedTransition(status[b], next) \/ status[b] = next
  /\ status' = [status EXCEPT ![b] = next]
  /\ Touch(b)

\* One or several points in one request: submitMeasurementBatch.
SubmitMeasurements(s, drafts, actor) ==
  /\ status[s.batch] \in {"plan_locked", "sampling", "failed", "returned"}
  /\ IsCurrentRevision(s)
  /\ DOMAIN drafts # {}
  /\ DOMAIN drafts \subseteq profile[s.batch]
  /\ PutMeasurements(s, drafts, actor)
  /\ UpdateRecalibrationTask(s, drafts)
  /\ ReplaceAutomaticFindings(s, drafts)
  /\ UNCHANGED <<profile, reviewedBy, sensors, reviews, credentials>>
  /\ SetEvaluationStatus(s.batch, Complete(s.batch)', OpenFindings(s.batch)')

-----------------------------------------------------------------------------
(* Recalibration. *)

HasOpenFinding(s) ==
  \E f \in OpenFindings(s.batch) : f.code = s.code /\ f.revision = s.revision

\* Bound: MaxRevision.
Recalibrate(s) ==
  LET b == s.batch
      new == [s EXCEPT !.revision = @ + 1] IN
  /\ status[b] \in {"failed", "returned"}
  /\ IsCurrentRevision(s)
  /\ s.revision < MaxRevision
  /\ HasOpenFinding(s)
  /\ sensors' = [t \in DOMAIN sensors \cup {new} |->
                   IF t = new THEN sensors[s] ELSE sensors[t]]
  /\ BuildRecalibrationTasks(new)
  /\ IF status[b] = "returned" THEN Touch(b) /\ UNCHANGED status
                               ELSE MoveTo(b, "sampling")
  /\ UNCHANGED <<profile, sampledBy, reviewedBy, measurements, findings,
                 reviews, credentials>>

-----------------------------------------------------------------------------
(* Review. *)

\* Fault: reviewer and decision are swapped.
RecordSwapped(b, reviewer, decision) ==
  reviews' = [reviews EXCEPT ![b] =
                Append(@, [reviewer |-> decision, decision |-> reviewer])]

Record(b, reviewer, decision) ==
  reviews' = [reviews EXCEPT ![b] =
                Append(@, [reviewer |-> reviewer, decision |-> decision])]

Freeze(b, reviewer) ==
  /\ status[b] \in {"ready_review", "returned"}
  /\ ~HasSampler(b, reviewer)
  /\ reviewedBy' = [reviewedBy EXCEPT ![b] = reviewer]
  /\ MoveTo(b, "frozen")

ApproveReview(b, reviewer) ==
  /\ OpenFindings(b) = {}
  /\ status[b] = "ready_review"
  /\ Record(b, reviewer, "approved")
  /\ Freeze(b, reviewer)
  /\ UNCHANGED <<profile, sampledBy, sensors, measurements, findings, tasks,
                 credentials>>

\* What a reviewer can ask to be corrected: a point of a current revision.
Corrections(b) ==
  UNION {[batch : {b}, code : {s.code}, revision : {s.revision},
          point : profile[b], kind : Problems, origin : {"manual"}] :
            s \in CurrentSensors(b)}

ReturnReview(b, reviewer, corrections) ==
  /\ status[b] \in {"ready_review", "failed"}
  /\ ~HasSampler(b, reviewer)
  /\ corrections # {}
  /\ findings' = [f \in DOMAIN findings \cup corrections |->
                    IF f \in corrections THEN 0 ELSE findings[f]]
  /\ Record(b, reviewer, "returned")
  /\ MoveTo(b, "returned")
  /\ UNCHANGED <<profile, sampledBy, reviewedBy, sensors, measurements, tasks,
                 credentials>>

Unblocked(b) == Complete(b) /\ OpenFindings(b) = {}

ResubmitReview(b, actor) ==
  /\ status[b] = "returned"
  /\ Unblocked(b)
  /\ Record(b, actor, "resubmitted")
  /\ MoveTo(b, "ready_review")
  /\ UNCHANGED <<profile, sampledBy, reviewedBy, sensors, measurements,
                 findings, tasks, credentials>>

-----------------------------------------------------------------------------
(* Release. *)

\* What FrozenDigest hashes, at the version the credential names.
FrozenMaterial(b, v) ==
  [version      |-> v,
   profile      |-> profile[b],
   sampledBy    |-> sampledBy[b],
   reviewedBy   |-> reviewedBy[b],
   sensors      |-> [s \in CurrentSensors(b) |-> sensors[s]],
   measurements |-> [k \in {m \in DOMAIN measurements : m.batch = b} |-> measurements[k]],
   findings     |-> [f \in BatchFindings(b) |-> findings[f]],
   tasks        |-> [k \in {t \in DOMAIN tasks : t.batch = b} |-> tasks[k]],
   reviews      |-> reviews[b]]

\* Fault: the version recorded is the one after the release.
CredentialAtNextVersion(b) ==
  [batch |-> b, batchVersion |-> version[b] + 1,
   revisions |-> CurrentSensors(b), content |-> FrozenMaterial(b, version[b])]

Credential(b) ==
  [batch |-> b, batchVersion |-> version[b],
   revisions |-> CurrentSensors(b), content |-> FrozenMaterial(b, version[b])]

Issue(b) ==
  /\ status[b] = "frozen"
  /\ CredentialsOf(b) = {}
  /\ OpenFindings(b) = {}
  /\ credentials' = credentials \cup {Credential(b)}
  /\ MoveTo(b, "released")
  /\ UNCHANGED <<profile, sampledBy, reviewedBy, sensors, measurements,
                 findings, tasks, reviews>>

\* ledger.VerifyCredential: what a deployer's check of a credential accepts.
VerifyCredential(c) ==
  /\ status[c.batch] \in {"frozen", "released"}
  /\ status[c.batch] = "released" => version[c.batch] = c.batchVersion + 1
  /\ c.content = FrozenMaterial(c.batch, c.batchVersion)
  /\ c.revisions = CurrentSensors(c.batch)

-----------------------------------------------------------------------------

Init ==
  /\ status = [b \in Batches |-> "absent"]
  /\ version = [b \in Batches |-> 0]
  /\ profile = [b \in Batches |-> {}]
  /\ sampledBy = [b \in Batches |-> {}]
  /\ reviewedBy = [b \in Batches |-> Nobody]
  /\ sensors = <<>>
  /\ measurements = <<>>
  /\ findings = <<>>
  /\ tasks = <<>>
  /\ reviews = [b \in Batches |-> <<>>]
  /\ credentials = {}

\* Everything a submission can show about the points it names.
Judgements(b) == UNION {[points -> SUBSET Kinds] : points \in SUBSET profile[b]}

BatchNext(b) ==
  \/ CreateBatch(b)
  \/ \E c \in Codes, range \in Ranges : RegisterSensor(b, c, range)
  \/ \E points \in SUBSET Points : LockProfile(b, points)
  \/ \E s \in CurrentSensors(b), drafts \in Judgements(b), actor \in Actors :
       SubmitMeasurements(s, drafts, actor)
  \/ \E s \in CurrentSensors(b) : Recalibrate(s)
  \/ \E actor \in Actors : ApproveReview(b, actor)
  \/ \E actor \in Actors, corrections \in SUBSET Corrections(b) :
       ReturnReview(b, actor, corrections)
  \/ \E actor \in Actors : ResubmitReview(b, actor)
  \/ Issue(b)

Next == \E b \in Batches : BatchNext(b)

Spec == Init /\ [][Next]_vars

=============================================================================
