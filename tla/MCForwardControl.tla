-------------------------- MODULE MCForwardControl --------------------------
(* Small instances of ForwardControl. *)
EXTENDS ForwardControl

CONSTANTS r1, r2

=============================================================================
