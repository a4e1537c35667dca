-------------------------- MODULE MCManagedAccess --------------------------
(* Small instances of ManagedAccess. *)
EXTENDS ManagedAccess

=============================================================================
