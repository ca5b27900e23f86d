---------------------------- MODULE MCEventStore ----------------------------
(***************************************************************************)
(* Small instances of the event store.                                     *)
(***************************************************************************)
EXTENDS EventStoreProperties, TLC

CONSTANTS k1

\* Every batch was created under the same key, by clients of different names.
OneCreationKey == [b \in Batches |-> k1]

\* The other keys, and the batches, are interchangeable.
Symmetry == Permutations(Batches) \cup Permutations(Keys \ {k1}) \cup Permutations(Bodies)

=============================================================================
