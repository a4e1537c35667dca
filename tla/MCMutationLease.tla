-------------------------- MODULE MCMutationLease --------------------------
(* Small instances of MutationLease. *)
EXTENDS MutationLease, TLC

CONSTANTS p1, p2, p3

Operations == Permutations(Process)

=============================================================================
