------------------------------- MODULE Release -------------------------------
(***************************************************************************)
(* What the service promises about a batch as a whole: its content can be  *)
(* worked on until somebody who took none of its readings approves it;     *)
(* from then on the content is frozen, and what is released, once, is      *)
(* exactly what was approved.                                              *)
(***************************************************************************)
CONSTANTS
  Batches,  \* the batch identifiers
  Actors,   \* the people who issue commands
  Nobody    \* the approver of a batch not yet approved

VARIABLES
  phase,       \* batch -> "open", "frozen" or "released"
  content,     \* batch -> everything that is approved with it
  submitters,  \* batch -> the people its readings came from
  approver,    \* batch -> who approved it
  issued       \* the contents released, each with its batch

vars == <<phase, content, submitters, approver, issued>>

Init ==
  /\ phase = [b \in Batches |-> "open"]
  /\ submitters = [b \in Batches |-> {}]
  /\ approver = [b \in Batches |-> Nobody]
  /\ issued = {}

OthersKeepTheirs(b) ==
  \A o \in Batches \ {b} :
    content'[o] = content[o] /\ submitters'[o] = submitters[o]

Work(b) ==
  /\ phase[b] = "open"
  /\ submitters[b] \subseteq submitters'[b]
  /\ OthersKeepTheirs(b)
  /\ UNCHANGED <<phase, approver, issued>>

\* The approval itself becomes a part of the content.
Approve(b, actor) ==
  /\ phase[b] = "open"
  /\ actor \notin submitters[b]
  /\ phase' = [phase EXCEPT ![b] = "frozen"]
  /\ approver' = [approver EXCEPT ![b] = actor]
  /\ OthersKeepTheirs(b)
  /\ UNCHANGED <<submitters, issued>>

Issue(b) ==
  /\ phase[b] = "frozen"
  /\ phase' = [phase EXCEPT ![b] = "released"]
  /\ issued' = issued \cup {[batch |-> b, content |-> content[b]]}
  /\ UNCHANGED <<content, submitters, approver>>

Next == \E b \in Batches : Work(b) \/ (\E actor \in Actors : Approve(b, actor)) \/ Issue(b)

Spec == Init /\ [][Next]_vars

=============================================================================
