--------------------------- MODULE TunnelContract ---------------------------
(***************************************************************************)
(* What the panel may rely on about the tunnels of one expiry guard,       *)
(* however calls fail and whenever the guard dies: the durable phase and   *)
(* generation of each resource, and which inbounds the Agent has.          *)
(*                                                                         *)
(*   none      unknown to the guard                                        *)
(*   serving   asked for; also while the guard itself withdraws it at its  *)
(*             deadline                                                    *)
(*   closing   asked to be suspended, an inbound may be left               *)
(*   dooming   asked to be deleted, an inbound may be left                 *)
(*   parked    suspended or expired, no inbound                            *)
(*   gone      deleted, no inbound, for ever                               *)
(***************************************************************************)
EXTENDS Naturals

CONSTANTS Tunnel, Port, MaxGen

VARIABLES phase, gen, live

vars == <<phase, gen, live>>

Phase == {"none", "serving", "closing", "dooming", "parked", "gone"}

Init ==
  /\ phase = [t \in Tunnel |-> "none"]
  /\ gen = [t \in Tunnel |-> 0]
  /\ live = {}

To(t, p, g) ==
  /\ phase' = [phase EXCEPT ![t] = p]
  /\ gen' = [gen EXCEPT ![t] = g]
  /\ UNCHANGED live

\* Serving, or serving again, takes a newer generation.
Serve(t, g) ==
  /\ phase[t] \notin {"dooming", "gone"}
  /\ g > gen[t]
  /\ To(t, "serving", g)

Close(t, g) ==
  /\ phase[t] \notin {"none", "dooming", "gone"}
  /\ g >= gen[t]
  /\ To(t, "closing", g)

Doom(t, g) ==
  /\ phase[t] # "none"
  /\ g >= gen[t]
  /\ phase[t] = "gone" => g > gen[t]
  /\ To(t, "dooming", g)

\* A resource comes to rest only without its inbound.
Rest(t) ==
  /\ t \notin live
  /\ \/ phase[t] \in {"serving", "closing"} /\ To(t, "parked", gen[t])
     \/ phase[t] = "dooming" /\ To(t, "gone", gen[t])

\* An inbound comes up only for a resource to serve, on a port no other uses.
Appear(t) ==
  /\ phase[t] = "serving"
  /\ \A u \in live : Port[u] = Port[t] => u = t
  /\ live' = live \union {t}
  /\ UNCHANGED <<phase, gen>>

Vanish(t) ==
  /\ live' = live \ {t}
  /\ UNCHANGED <<phase, gen>>

Next ==
  \E t \in Tunnel :
    \/ \E g \in 1..MaxGen : Serve(t, g) \/ Close(t, g) \/ Doom(t, g)
    \/ Rest(t) \/ Appear(t) \/ Vanish(t)

Spec == Init /\ [][Next]_vars

=============================================================================
