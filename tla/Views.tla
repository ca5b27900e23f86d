-------------------------------- MODULE Views --------------------------------
(***************************************************************************)
(* What the service tells people about a batch: its readiness and the next *)
(* action the work queue shows (readiness, work_queue), the retest tasks   *)
(* of a revision and the verification of a credential (queries).  Each is  *)
(* computed from one clone of the projection and changes nothing.          *)
(***************************************************************************)
EXTENDS CalibrationProperties

\* Why a batch cannot go on to its review; the points that lack evidence are
\* named in the code, one blocker each.
Blockers(b) ==
  IF status[b] \in {"frozen", "released"} THEN {}
  ELSE {code \in {"no_sensors"} : CurrentSensors(b) = {}}
       \cup IF profile[b] = {} THEN {"profile_unlocked"}
            ELSE {code \in {"missing_measurement"} :
                    \E s \in CurrentSensors(b), p \in profile[b] : EffectiveEvidence(s, p) = 0}
                 \cup {code \in {"open_findings"} : OpenFindings(b) # {}}
                 \cup {code \in {"no_sampling_actor"} : sampledBy[b] = {}}

CanSubmitSample(b) == status[b] \in {"plan_locked", "sampling", "failed", "returned"}

CanRecalibrate(b) == status[b] \in {"failed", "returned"}

CanIssueCredential(b) == status[b] = "frozen" /\ CredentialsOf(b) = {}

Immutable(b) == status[b] \in {"frozen", "released"}

CanReview(b) ==
  /\ profile[b] # {}
  /\ Complete(b)
  /\ OpenFindings(b) = {}
  /\ status[b] = "ready_review"

ReviewerEligible(b, actor) == CanReview(b) /\ actor \notin sampledBy[b]

\* Fault: a returned batch is always sent back to review.
nextBatchActionHasty(b) ==
  CASE status[b] = "draft" -> IF CurrentSensors(b) = {} THEN "register_sensor" ELSE "lock_profile"
    [] status[b] \in {"plan_locked", "sampling"} -> "submit_measurements"
    [] status[b] = "failed" -> "recalibrate"
    [] status[b] = "returned" -> "resubmit_review"
    [] status[b] = "ready_review" -> "review"
    [] status[b] = "frozen" -> "issue_credential"
    [] OTHER -> "query_only"

nextBatchAction(b) ==
  CASE status[b] = "draft" -> IF CurrentSensors(b) = {} THEN "register_sensor" ELSE "lock_profile"
    [] status[b] \in {"plan_locked", "sampling"} -> "submit_measurements"
    [] status[b] = "failed" -> "recalibrate"
    [] status[b] = "returned" ->
         IF OpenFindings(b) # {} THEN "recalibrate" ELSE "resubmit_review"
    [] status[b] = "ready_review" -> "review"
    [] status[b] = "frozen" -> "issue_credential"
    [] OTHER -> "query_only"

-----------------------------------------------------------------------------
(* Retest tasks. *)

RecalibrationTasksForRevision(s) == {k \in DOMAIN tasks : Sensor(k) = s}

\* The number that a submission and a recalibration report back.
pendingRetestPoints(s) ==
  Cardinality({k \in RecalibrationTasksForRevision(s) :
                 tasks[k].required /\ tasks[k].status # "passed"})

\* The counts shown for a current revision that was recalibrated.
RecalibrationTasks(s) ==
  LET own == RecalibrationTasksForRevision(s)
      count(st) == Cardinality({k \in own : tasks[k].status = st}) IN
  [required  |-> Cardinality({k \in own : tasks[k].required}),
   completed |-> count("passed"),
   pending   |-> count("pending"),
   failed    |-> count("failed"),
   inherited |-> count("inherited")]

-----------------------------------------------------------------------------
(* Verification of a credential a deployer holds. *)

\* Fault: the batch in the path is not compared with the credential's.
VerificationOfAnyBatch(b, c, digest) ==
  IF c \notin credentials THEN "credential_not_found"
  ELSE IF ~VerifyCredential(c) THEN "credential_projection_mismatch"
  ELSE IF digest # c.content THEN "content_digest_mismatch"
  ELSE "valid"

\* The failure that is reported, or "valid".  c is what the credential
\* identifier in the request names.
Verification(b, c, digest) ==
  IF c \notin credentials THEN "credential_not_found"
  ELSE IF c.batch # b THEN "credential_batch_mismatch"
  ELSE IF ~VerifyCredential(c) THEN "credential_projection_mismatch"
  ELSE IF digest # c.content THEN "content_digest_mismatch"
  ELSE "valid"

-----------------------------------------------------------------------------
(* Which requests the commands accept. *)

CommandNames ==
  {"register_sensor", "lock_profile", "submit_reading", "recalibrate",
   "approve_review", "return_review", "resubmit_review", "issue_credential"}

\* A command with some request of a client, carried out.
Carries(b, command) ==
  CASE command = "register_sensor" ->
         \E c \in Codes, range \in Ranges : RegisterSensor(b, c, range)
    [] command = "lock_profile" -> \E points \in SUBSET Points : LockProfile(b, points)
    [] command = "submit_reading" ->
         \E s \in CurrentSensors(b), drafts \in Judgements(b), actor \in Actors :
           SubmitMeasurements(s, drafts, actor)
    [] command = "recalibrate" -> \E s \in CurrentSensors(b) : Recalibrate(s)
    [] command = "approve_review" -> \E actor \in Actors : ApproveReview(b, actor)
    [] command = "return_review" ->
         \E actor \in Actors, corrections \in SUBSET Corrections(b) :
           ReturnReview(b, actor, corrections)
    [] command = "resubmit_review" -> \E actor \in Actors : ResubmitReview(b, actor)
    [] command = "issue_credential" -> Issue(b)

AcceptsApproval(b, actor) ==
  OpenFindings(b) = {} /\ status[b] = "ready_review" /\ ~HasSampler(b, actor)

\* Whether the guards of a command let some request pass.
Accepts(b, command) ==
  CASE command = "register_sensor" ->
         /\ status[b] = "draft" /\ Ranges # {}
         /\ \E c \in Codes : \A s \in DOMAIN sensors : s.batch = b => s.code # c
    [] command = "lock_profile" ->
         /\ status[b] = "draft" /\ \E s \in DOMAIN sensors : s.batch = b
         /\ \E points \in SUBSET Points : Cardinality(points) >= 2 /\ RangesCover(b, points)
    [] command = "submit_reading" ->
         /\ status[b] \in {"plan_locked", "sampling", "failed", "returned"} /\ Actors # {}
         /\ \E s \in CurrentSensors(b), p \in profile[b] : NotYetMeasured({Key(s, p)})
    [] command = "recalibrate" ->
         /\ status[b] \in {"failed", "returned"}
         /\ \E s \in CurrentSensors(b) : HasOpenFinding(s) /\ s.revision < MaxRevision
    [] command = "approve_review" -> \E actor \in Actors : AcceptsApproval(b, actor)
    [] command = "return_review" ->
         /\ status[b] \in {"ready_review", "failed"} /\ Corrections(b) # {}
         /\ \E actor \in Actors : ~HasSampler(b, actor)
    [] command = "resubmit_review" ->
         status[b] = "returned" /\ Unblocked(b) /\ Actors # {}
    [] command = "issue_credential" ->
         status[b] = "frozen" /\ CredentialsOf(b) = {} /\ OpenFindings(b) = {}

\* No command needs more than its guards for some effect of it to be possible.
GuardsSuffice(b) ==
  /\ \A command \in CommandNames : Accepts(b, command) <=> ENABLED Carries(b, command)
  /\ \A actor \in Actors : AcceptsApproval(b, actor) <=> ENABLED ApproveReview(b, actor)

\* The commands that carry out what the queue advises.
Advised(b) ==
  LET action == nextBatchAction(b) IN
  CASE action = "submit_measurements" -> {"submit_reading"}
    [] action = "review" -> {"approve_review", "return_review"}
    [] action = "query_only" -> {}
    [] OTHER -> {action}

-----------------------------------------------------------------------------

Existing == {b \in Batches : status[b] # "absent"}

\* The point of every open finding has yet to be measured in the current revision
\* of its sensor.
MeasuringHelps(b) ==
  /\ Accepts(b, "submit_reading")
  /\ \A f \in OpenFindings(b) :
       /\ f.point \in profile[b]
       /\ \E s \in CurrentSensors(b) :
            s.code = f.code /\ NotYetMeasured({Key(s, f.point)})

\* The advice of the work queue can be followed.  It is refused only where no
\* profile fits the sensors a draft has registered, or where a returned batch has
\* findings of earlier revisions only: then the points of those findings can still
\* be measured, which is what has to be done, though the queue says "recalibrate".
\* A review needs an actor who took no readings, a recalibration a revision left.
AdviceCanBeFollowed ==
  \A b \in Existing : status[b] # "released" =>
    \/ \E command \in Advised(b) : Accepts(b, command)
    \/ status[b] = "draft" /\ Cardinality({p \in Points : RangesCover(b, {p})}) < 2
    \/ status[b] = "returned" /\ OpenFindings(b) # {} /\ MeasuringHelps(b)
    \/ status[b] = "ready_review" /\ sampledBy[b] = Actors
    \/ \E s \in CurrentSensors(b) : HasOpenFinding(s) /\ s.revision = MaxRevision

\* What a batch advertises and its readiness report say of the commands: none is
\* accepted that either rules out, approval is accepted from exactly the reviewers
\* the report calls eligible, and issuing exactly when it is promised.
ReportAgrees(b) ==
  /\ \A command \in CommandNames : Accepts(b, command) =>
       /\ command \in Capabilities[status[b]]
       /\ command = "submit_reading" => CanSubmitSample(b)
       /\ command = "recalibrate" => CanRecalibrate(b)
       /\ Immutable(b) => command = "issue_credential"
  /\ Accepts(b, "issue_credential") <=> CanIssueCredential(b)
  /\ \A actor \in Actors : ReviewerEligible(b, actor) <=> AcceptsApproval(b, actor)

ReportsAgree == \A b \in Existing : ReportAgrees(b)

\* The report agrees with the guards of the commands, and a request the guards let
\* pass is carried out: nothing a command does after them can fail.
ReadinessAgreesWithCommands == ReportsAgree /\ \A b \in Existing : GuardsSuffice(b)

\* A batch is shown without blockers exactly when it awaits its review, is past
\* it, or only has to be resubmitted.
NoBlockersMeansReviewable ==
  \A b \in Existing :
    Blockers(b) = {} <=>
      \/ status[b] \in {"ready_review", "frozen", "released"}
      \/ status[b] = "returned" /\ Accepts(b, "resubmit_review")

\* The retest tasks of a current revision account for every standard point once,
\* and the points they report as pending are those where a finding of an earlier
\* revision still waits for it: the view, the number sent back with each
\* submission and the findings never disagree.
RetestCountsAgree ==
  \A b \in Batches : \A s \in CurrentSensors(b) : s.revision >= 2 =>
    LET view == RecalibrationTasks(s) IN
    /\ view.required + view.inherited = Cardinality(profile[b])
    /\ view.required = view.completed + view.pending + view.failed
    /\ pendingRetestPoints(s) =
         Cardinality({p \in profile[b] : FindingsToClear(s, p) # {}})

\* A deployer's check succeeds exactly for a credential that was issued, under
\* the batch it was issued for, with the content it was sealed over, and goes on
\* to succeed whatever happens to the other batches.
VerificationSound ==
  \A b \in Batches, c, d \in credentials :
    Verification(b, c, d.content) = "valid" <=> c.batch = b /\ d.content = c.content

=============================================================================
