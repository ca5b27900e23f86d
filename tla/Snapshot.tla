------------------------------ MODULE Snapshot ------------------------------
(***************************************************************************)
(* The projection that every command reads and replaces: the maps of       *)
(* calibration.Snapshot, the look-ups over them and the status machine of  *)
(* a batch (internal/domain/calibration: types, snapshot, lifecycle,       *)
(* batch).                                                                 *)
(*                                                                         *)
(* The random identifiers of the code are replaced by the natural keys     *)
(* that its guards keep unique: a sensor revision is its batch, code and   *)
(* revision number, a measurement set adds the standard point, a finding   *)
(* adds its kind and origin.  A range is the set of standard points it     *)
(* covers.  Timestamps, titles, notes and messages are left out.           *)
(***************************************************************************)
EXTENDS Naturals, Sequences, FiniteSets, Lifecycle

CONSTANTS
  Batches,      \* the batch identifiers
  Codes,        \* the sensor codes; two batches may register the same code
  Points,       \* the standard points a profile can name
  Ranges,       \* the sensor ranges, each the set of points it covers
  Actors,       \* the people who issue commands
  Nobody,       \* the empty reviewer of a batch not yet frozen
  Kinds,        \* the kinds of finding the evaluation policy can raise
  Problems,     \* the problem types a reviewer can put in a correction
  MaxRevision   \* bound: no sensor is recalibrated past this revision

ASSUME PointsAssumption == IsFiniteSet(Points)
ASSUME RangesAssumption == Ranges \subseteq SUBSET Points
ASSUME RequestsAssumption == Codes # {} /\ Ranges # {} /\ Actors # {}
ASSUME NobodyAssumption == Nobody \notin Actors
ASSUME RevisionAssumption == MaxRevision \in Nat \ {0}

VARIABLES
  status,        \* batch -> its status, "absent" before it is created
  version,       \* batch -> its version, 0 before it is created
  profile,       \* batch -> the locked standard points, {} before the lock
  sampledBy,     \* batch -> the actors who submitted readings
  reviewedBy,    \* batch -> who approved it
  sensors,       \* sensor revision -> the range it was registered with
  measurements,  \* measurement key -> what its readings show, and who took them
  findings,      \* finding key -> the revision that resolved it, 0 while open
  tasks,         \* measurement key -> the recalibration task of that point
  reviews,       \* batch -> its review records, in order
  credentials    \* the credentials issued

batchVars == <<status, version, profile, sampledBy, reviewedBy>>
vars == <<batchVars, sensors, measurements, findings, tasks, reviews, credentials>>

-----------------------------------------------------------------------------
(* The keys and the values of the maps. *)

Revisions == 1 .. MaxRevision

SensorRevision == [batch : Batches, code : Codes, revision : Revisions]

MeasurementKey ==
  [batch : Batches, code : Codes, revision : Revisions, point : Points]

\* A finding names the revision and the point it is about.  The evaluation
\* raises automatic ones, a reviewer who returns the batch manual ones.
FindingKey ==
  [batch : Batches, code : Codes, revision : Revisions, point : Points,
   kind : Kinds, origin : {"automatic"}]
  \cup
  [batch : Batches, code : Codes, revision : Revisions, point : Points,
   kind : Problems, origin : {"manual"}]

\* A measurement set is kept as the kinds of finding its statistics give rise
\* to under the locked profile, {} when it passes, and the range its readings
\* lie in.
MeasurementSet == [drafts : SUBSET Kinds, extent : Ranges, capturedBy : Actors]

\* source: the revision whose evidence the point had when the task was made;
\* evidence: the revision whose measurement the task rests on.  0 is none.
RecalibrationTask ==
  [required : BOOLEAN, status : {"pending", "passed", "failed", "inherited"},
   findings : SUBSET FindingKey, source : 0 .. MaxRevision,
   evidence : 0 .. MaxRevision]

ReviewRecord ==
  [reviewer : Actors, decision : {"returned", "resubmitted", "approved"}]

Key(s, p) ==
  [batch |-> s.batch, code |-> s.code, revision |-> s.revision, point |-> p]

-----------------------------------------------------------------------------
(* Look-ups of snapshot.go. *)

IsCurrentRevision(s) ==
  /\ s \in DOMAIN sensors
  /\ \A t \in DOMAIN sensors :
       t.batch = s.batch /\ t.code = s.code => t.revision <= s.revision

CurrentSensors(b) == {s \in DOMAIN sensors : s.batch = b /\ IsCurrentRevision(s)}

BatchFindings(b) == {f \in DOMAIN findings : f.batch = b}

OpenFindings(b) == {f \in BatchFindings(b) : findings[f] = 0}

CredentialsOf(b) == {c \in credentials : c.batch = b}

-----------------------------------------------------------------------------
(* Moving a batch: lifecycle.go, batch.go. *)

Touch(b) == version' = [version EXCEPT ![b] = @ + 1]

MoveTo(b, next) ==
  /\ AllowedTransition(status[b], next)
  /\ status' = [status EXCEPT ![b] = next]
  /\ Touch(b)

HasSampler(b, actor) == actor \in sampledBy[b]

=============================================================================
