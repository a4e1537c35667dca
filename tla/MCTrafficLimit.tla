--------------------------- MODULE MCTrafficLimit ---------------------------
EXTENDS TrafficLimit, TLC

Slots == Permutations(Slot)

\* While reports count; two of them in hand only as long as the pass, the
\* administrator and the calendar have done nothing, one beside what they do.
Focus ==
  /\ ~crossed /\ ~misjudged
  /\ \/ check.pc = "idle" /\ requests = 0 /\ present = Client
     \/ \E s \in Slot : \A t \in Slot \ {s} : report[t].stage = "none"
=============================================================================
