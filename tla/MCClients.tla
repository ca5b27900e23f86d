----------------------------- MODULE MCClients -----------------------------
(***************************************************************************)
(* Small instances of the store with its clients.  A key is a client and   *)
(* the number of its attempt.                                              *)
(***************************************************************************)
EXTENDS Clients, TLC

ClientKeys == People \X (1 .. Cardinality(People))

DerivedKey == [b \in Batches |-> <<Creator, 1>>]

=============================================================================
