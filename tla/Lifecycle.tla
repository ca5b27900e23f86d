------------------------------ MODULE Lifecycle ------------------------------
(***************************************************************************)
(* The status machine of a batch (internal/domain/calibration/lifecycle):  *)
(* its statuses, the transitions between them, and the capabilities a      *)
(* batch advertises in each of them.                                       *)
(***************************************************************************)

Statuses == {"draft", "plan_locked", "sampling", "failed", "ready_review",
             "returned", "frozen", "released"}

legalTransitions ==
  [draft        |-> {"plan_locked"},
   plan_locked  |-> {"sampling", "failed", "ready_review"},
   sampling     |-> {"sampling", "failed", "ready_review"},
   failed       |-> {"sampling", "returned"},
   ready_review |-> {"returned", "frozen"},
   returned     |-> {"returned", "ready_review"},
   frozen       |-> {"released"},
   released     |-> {}]

AllowedTransition(from, to) == to \in legalTransitions[from]

\* Fault: resubmission was added to the commands but not to the capabilities.
CapabilitiesBeforeResubmission ==
  [draft        |-> {"register_sensor", "lock_profile"},
   plan_locked  |-> {"submit_reading"},
   sampling     |-> {"submit_reading"},
   failed       |-> {"submit_reading", "recalibrate", "return_review"},
   ready_review |-> {"return_review", "approve_review"},
   returned     |-> {"submit_reading", "recalibrate"},
   frozen       |-> {"issue_credential"},
   released     |-> {}]

\* A released batch can only be queried.
Capabilities ==
  [draft        |-> {"register_sensor", "lock_profile"},
   plan_locked  |-> {"submit_reading"},
   sampling     |-> {"submit_reading"},
   failed       |-> {"submit_reading", "recalibrate", "return_review"},
   ready_review |-> {"return_review", "approve_review"},
   returned     |-> {"submit_reading", "recalibrate", "resubmit_review"},
   frozen       |-> {"issue_credential"},
   released     |-> {}]

=============================================================================
