-------------------------- MODULE MCSupabaseLedger --------------------------
(* Instances of SupabaseLedger for TLC. *)
EXTENDS SupabaseLedger, TLC

(* Callers are interchangeable. *)
ClientSymmetry == Permutations(Clients)

=============================================================================
