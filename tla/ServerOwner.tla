----------------------------- MODULE ServerOwner -----------------------------
(***************************************************************************)
(* Who may change a node: one installer, which owns it for a while, or     *)
(* any number of ordinary operations of the panel, never both. The owner   *)
(* may ask the panel to deploy; once it retreats, to restore what the node *)
(* was, it can no longer, and it waits for a deployment under way.         *)
(***************************************************************************)
EXTENDS Naturals

CONSTANTS Nonce, Mutation, NoNonce

VARIABLES owner, retreating, deploying, users

vars == <<owner, retreating, deploying, users>>

Init ==
  /\ owner = NoNonce /\ retreating = FALSE
  /\ deploying = FALSE /\ users = {}

Own(n) ==
  /\ owner = NoNonce /\ ~deploying /\ users = {}
  /\ owner' = n
  /\ UNCHANGED <<retreating, deploying, users>>

\* The owner commits, gives up, or its time is over.
Yield ==
  /\ owner' = NoNonce /\ retreating' = FALSE
  /\ UNCHANGED <<deploying, users>>

Retreat ==
  /\ owner # NoNonce /\ ~deploying
  /\ retreating' = TRUE
  /\ UNCHANGED <<owner, deploying, users>>

Deploy ==
  /\ owner # NoNonce /\ ~retreating /\ ~deploying /\ users = {}
  /\ deploying' = TRUE
  /\ UNCHANGED <<owner, retreating, users>>

Use(m) ==
  /\ owner = NoNonce /\ ~deploying
  /\ users' = users \union {m}
  /\ UNCHANGED <<owner, retreating, deploying>>

\* A deployment ends, operations end, all of them when the panel stops.
Leave ==
  /\ users' \subseteq users
  /\ deploying' \in {FALSE, deploying}
  /\ UNCHANGED <<owner, retreating>>

Next ==
  \/ Leave \/ Yield \/ Retreat \/ Deploy
  \/ \E n \in Nonce : Own(n)
  \/ \E m \in Mutation : Use(m)

Spec == Init /\ [][Next]_vars

=============================================================================
