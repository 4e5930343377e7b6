--------------------------- MODULE MCSqliteLedger ---------------------------
(* SqliteLedger on small instances. *)
EXTENDS SqliteLedger, TLC

ThreadSymmetry == Permutations(Threads)

=============================================================================
