----------------------------- MODULE CommandLog -----------------------------
(***************************************************************************)
(* What the store promises the clients of the service: each batch is the   *)
(* sequence of the commands applied to it.  A command is applied at most   *)
(* once per idempotency key, and only to the version its sender had read;  *)
(* an answer reports a command that has been applied and never changes.    *)
(* A command whose sender got an error may still take effect.              *)
(***************************************************************************)
EXTENDS Naturals, Sequences

CONSTANTS
  Batches,      \* the batch identifiers
  Keys,         \* the idempotency keys of the clients
  Commands,     \* the command types
  CreateBatch,  \* the command that creates its batch
  Bodies        \* the rest of a request

VARIABLES
  applied,  \* batch -> the commands applied to it, in order
  answers   \* what clients have been told

vars == <<applied, answers>>

\* The commands a client can send that has read the current version of b.
Command(b) ==
  [key : Keys, command : Commands, body : Bodies, expected : {Len(applied[b])}]

\* What requestFingerprint tells apart: the request with the version it
\* expects, but neither its batch nor the type of the command.
RequestDigest(cmd) == <<cmd.body, cmd.expected>>

AnswerTo(b, cmd, version) ==
  [batch |-> b, key |-> cmd.key, command |-> cmd.command,
   digest |-> RequestDigest(cmd), version |-> version]

Init == applied = [b \in Batches |-> <<>>] /\ answers = {}

Fresh(b, cmd) == \A i \in DOMAIN applied[b] : applied[b][i].key # cmd.key

Apply(b, cmd) ==
  /\ Fresh(b, cmd)
  /\ cmd.command = CreateBatch <=> applied[b] = <<>>
  /\ applied' = [applied EXCEPT ![b] = Append(@, cmd)]
  /\ answers' \in {answers, answers \cup {AnswerTo(b, cmd, Len(applied[b]) + 1)}}

Answer(b, i) ==
  /\ answers' = answers \cup {AnswerTo(b, applied[b][i], i)}
  /\ UNCHANGED applied

Next ==
  \E b \in Batches :
    \/ \E cmd \in Command(b) : Apply(b, cmd)
    \/ \E i \in DOMAIN applied[b] : Answer(b, i)

Spec == Init /\ [][Next]_vars

=============================================================================
