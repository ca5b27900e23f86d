---------------------------- MODULE MCWorkQueue ----------------------------
(***************************************************************************)
(* A small instance of the work queue: more batches than fit on a page,    *)
(* few enough instants for some to share one, and filters on status and    *)
(* time that differ in a single field.  A station never changes.           *)
(***************************************************************************)
EXTENDS WorkQueue, TLC

CONSTANTS MaxId, MaxTime

SomeIds == 1 .. MaxId
SomeTimes == 1 .. MaxTime

Everything == [station |-> Unset, status |-> Unset, from |-> 0, to |-> MaxTime]

SomeFilters ==
  {Everything,
   [Everything EXCEPT !.status = "sampling"],
   [Everything EXCEPT !.to = MaxTime - 1]}

=============================================================================
