--------------------------- MODULE MCTunnelGuard ---------------------------
(* Small instances of TunnelGuard. *)
EXTENDS TunnelGuard

CONSTANTS t1, t2, t3

SharedPort == [t \in Tunnel |-> IF t = t3 THEN 40001 ELSE 40000]

\* In hand are two resources at a time: t1 and its rival for the port, over two
\* generations and a crash; or t1 and t3, both with rules, over one generation and
\* without a crash, t3 being left to its lease.
Known(t) == mem[t].st # "absent"
Pairs ==
  Known(t3) =>
    /\ ~Known(t2) /\ crashes = 0
    /\ \A t \in Tunnel : mem[t].gen <= 1
    /\ mem[t3].st \notin {"suspend_pending", "delete_pending"}

=============================================================================
