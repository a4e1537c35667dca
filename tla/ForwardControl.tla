--------------------------- MODULE ForwardControl ---------------------------
(***************************************************************************)
(* The panel's controller of one user forward (internal/handler/           *)
(* forwarding.go over internal/storage/forwarding.go): HTTP requests and   *)
(* the reconciler drive the expiry guards of the rule's hops, 1 being the  *)
(* entry and N the exit.                                                   *)
(*                                                                         *)
(* An operation reads a copy of the rule, may write a new desired state    *)
(* and generation without any lock, waits for the exclusive leases of the  *)
(* hops' servers, and calls the guards with what its copy says. Every      *)
(* operation on the rule takes the lease of the entry's server, so the     *)
(* leases are one lock here. Any operation may be cut short: the client    *)
(* goes away, an installation owns the server, the panel stops. A call     *)
(* nobody waits for any more may still reach its guard.                    *)
(*                                                                         *)
(* The guards are TunnelContract: each of their steps is one of its        *)
(* actions, and TunnelGuard is shown to implement it.                      *)
(*                                                                         *)
(* Not here: port conflicts (ReallocateUserForwardPorts), usage, the       *)
(* per-hop observed states, which nothing decides on.                      *)
(***************************************************************************)
EXTENDS Naturals, FiniteSets

CONSTANTS N,           \* the number of hops
          Request,     \* slots for concurrent HTTP requests
          reconciler,  \* the reconciler's goroutine
          NoOp,        \* holds no lease
          MaxRequest,  \* bound: requests and changes of the entitlement
          MaxFault,    \* bound: lost or late calls and answers, lapsed leases, cut operations
          MaxGen       \* bound on the generations

Hop == 1..N
Op == Request \union {reconciler}

ASSUME ForwardAssumption ==
  /\ N \in Nat \ {0}
  /\ reconciler \notin Request /\ NoOp \notin Op
  /\ MaxRequest \in Nat /\ MaxFault \in Nat /\ MaxGen \in Nat \ {0}

VARIABLES
  rule,      \* the row of user_forward_rules; hgen and held are its hops' generation and existence
  op,        \* each operation: where it is and its copies
  holder,    \* who holds the leases
  phase, gen, live,  \* the guards, one resource per hop (TunnelContract)
  cause,     \* why the user may not use the forward, "none" if he may
  late,      \* calls whose operation has gone on without them
  requests, faults

guards == <<phase, gen, live>>
vars == <<rule, op, holder, guards, cause, late, requests, faults>>

Guard == INSTANCE TunnelContract WITH Tunnel <- Hop, Port <- [h \in Hop |-> h]

---------------------------------------------------------------------------
(* The rule and the operations. *)

Desired == {"none", "active", "inactive", "deleted"}
Observed == {"pending", "provisioning", "active", "suspended", "cleanup_pending", "error"}
Cause == {"none", "grant_inactive", "target_inactive"}
Reason == Cause \union {"user_disabled"}

Rule == [desired : Desired, observed : Observed, reason : Reason,
         gen : Nat, hgen : Nat, applied : Nat, held : BOOLEAN]

NoRule == [desired |-> "none", observed |-> "pending", reason |-> "none",
           gen |-> 0, hgen |-> 0, applied |-> 0, held |-> FALSE]

\* apply, resume, renew and create deploy; revoke and retry suspend, as suspend does.
Kind == {"none", "create", "resume", "apply", "renew", "suspend", "revoke", "retry", "delete"}
Deploys == {"create", "resume", "apply", "renew"}

Idle == [step |-> "idle", kind |-> "none", call |-> "none", seen |-> NoRule,
         hop |-> 1, hgen |-> 0, healthy |-> FALSE, reason |-> "none"]

Quiet == \A o \in Op : op[o].step = "idle"

Become(o, rec) == op' = [op EXCEPT ![o] = rec]

\* The operation returns and gives up its leases.
End(o) ==
  /\ Become(o, Idle)
  /\ holder' = IF holder = o THEN NoOp ELSE holder

\* healthyRenewal
healthyRenewal(f) == f.observed = "active" /\ f.gen = f.applied

\* An operation of a kind, about to wait for its leases with the copy f.
Waiting(kind, f, reason) ==
  [step |-> "wait", kind |-> kind, seen |-> NoRule, hgen |-> f.hgen, reason |-> reason,
   call |-> CASE kind \in Deploys -> "apply" [] kind = "delete" -> "remove" [] OTHER -> "suspend",
   hop |-> IF ~f.held THEN 0 ELSE IF kind \in Deploys THEN N ELSE 1,
   healthy |-> kind \in Deploys /\ healthyRenewal(f)]

\* An operation of a kind, about to write the rule.
Setting(kind, reason) == [Idle EXCEPT !.step = "set", !.kind = kind, !.reason = reason]

---------------------------------------------------------------------------
(* Operations begin. *)

Begin(o, rec) ==
  /\ op[o].step = "idle" /\ o \in Request /\ requests < MaxRequest
  /\ requests' = requests + 1
  /\ Become(o, rec)
  /\ UNCHANGED <<guards, cause, late, faults>>

\* A create takes the leases, writes the rule and deploys, all in one request.
CreateUserForward(o) ==
  /\ rule.desired = "none" /\ cause = "none" /\ holder = NoOp
  /\ rule' = [NoRule EXCEPT !.desired = "active", !.gen = 1, !.hgen = 1, !.held = TRUE]
  /\ holder' = o
  /\ Begin(o, [Waiting("create", rule', "none") EXCEPT !.step = "mark"])

\* handleForwardItem: suspend, resume, delete. A deleted rule is found as well.
HandleForwardItem(o) ==
  /\ rule.desired # "none"
  /\ \/ rule.held /\ Begin(o, Setting("suspend", "user_disabled"))
     \/ cause = "none" /\ Begin(o, Setting("resume", "none"))
     \/ rule.desired # "deleted" /\ Begin(o, Setting("delete", "none"))
     \/ rule.desired = "deleted" /\ Begin(o, Waiting("delete", rule, "none"))
  /\ UNCHANGED <<rule, holder>>

\* HandleAdminUserTunnelGrantAction and reconcileGrantForwards, after the grant changed.
HandleGrantAction(o) ==
  /\ rule.desired = "active"
  /\ \/ /\ cause = "grant_inactive"
        /\ rule.held
        /\ Begin(o, Setting("revoke", "grant_inactive"))
     \/ /\ cause # "grant_inactive"
        /\ \/ rule.observed = "active" /\ Begin(o, Waiting("renew", rule, "none"))
           \/ rule.observed # "active" /\ Begin(o, Setting("apply", "none"))
  /\ UNCHANGED <<rule, holder>>

\* The grant or the target becomes, or ceases to be, usable.
Entitle ==
  /\ requests < MaxRequest
  /\ requests' = requests + 1
  /\ cause' \in Cause \ {cause}
  /\ UNCHANGED <<rule, op, holder, guards, late, faults>>

\* Mutant of ListForwardReconcileCandidates: deleted rules are forgotten.
ListOnlyWanted ==
  /\ op[reconciler].step = "idle"
  /\ rule.desired \in {"active", "inactive"}
  /\ Become(reconciler, [Idle EXCEPT !.step = "list", !.seen = rule])
  /\ UNCHANGED <<rule, holder, guards, cause, late, requests, faults>>

\* ListForwardReconcileCandidates, once a minute.
ListForwardReconcileCandidates ==
  /\ op[reconciler].step = "idle"
  /\ rule.desired \in {"active", "inactive"} \/ rule.observed = "cleanup_pending"
  /\ Become(reconciler, [Idle EXCEPT !.step = "list", !.seen = rule])
  /\ UNCHANGED <<rule, holder, guards, cause, late, requests, faults>>

\* What reconcileForwards does with the copy f it listed: a user's suspension, ...
RetryOnlyErrors(f) ==     \* mutant of retryInactive
  IF f.observed = "error" /\ f.held THEN Waiting("retry", f, "none") ELSE Idle

retryInactive(f) ==
  IF f.observed # "suspended" /\ f.held THEN Waiting("retry", f, "none") ELSE Idle

\* ... a forward that may not be used, ...
revokeUnusable(f) ==
  IF (f.observed = "suspended" /\ f.reason = cause) \/ ~f.held
  THEN Idle ELSE Setting("revoke", cause)

\* ... and one that may.
ApplyOnlyErrors(f) ==     \* mutant of renewOrApply
  CASE f.observed = "active" -> Waiting("renew", f, "none")
    [] f.observed \in {"error", "suspended"} -> Setting("apply", "none")
    [] OTHER -> Idle

renewOrApply(f) ==
  IF f.observed = "active" THEN Waiting("renew", f, "none") ELSE Setting("apply", "none")

decision(f) ==
  CASE f.desired = "deleted" -> Waiting("delete", f, "none")
    [] f.desired = "inactive" -> retryInactive(f)
    [] f.desired = "active" /\ cause # "none" -> revokeUnusable(f)
    [] f.desired = "active" /\ cause = "none" -> renewOrApply(f)

ReconcileForwards ==
  /\ op[reconciler].step = "list"
  /\ Become(reconciler, decision(op[reconciler].seen))
  /\ UNCHANGED <<rule, holder, guards, cause, late, requests, faults>>

---------------------------------------------------------------------------
(* Writes of the desired state, without the leases. *)

\* SetUserForwardDesired: whatever the rule has become since it was read.
SetUserForwardDesired(o) ==
  LET kind == op[o].kind
      next == [rule EXCEPT
                 !.desired = CASE kind = "resume" -> "active" [] kind = "suspend" -> "inactive"
                               [] OTHER -> "deleted",
                 !.observed = CASE kind = "resume" -> "pending" [] kind = "suspend" -> "provisioning"
                               [] OTHER -> "cleanup_pending",
                 !.reason = op[o].reason,
                 !.gen = @ + 1, !.hgen = IF rule.held THEN @ + 1 ELSE @]
  IN
  /\ op[o].step = "set" /\ kind \in {"resume", "suspend", "delete"}
  /\ rule.gen < MaxGen /\ rule.hgen < MaxGen
  /\ rule' = next
  /\ Become(o, [op[o] EXCEPT !.step = "reread"])
  /\ UNCHANGED <<holder, guards, cause, late, requests, faults>>

\* PrepareUserForwardSystemApply and -Suspend read the rule again ...
PrepareRefused(o) ==
  /\ op[o].step = "set" /\ op[o].kind \in {"apply", "revoke"}
  /\ rule.desired # "active"
  /\ End(o)
  /\ UNCHANGED <<rule, guards, cause, late, requests, faults>>

PrepareReads(o) ==
  /\ op[o].step = "set" /\ op[o].kind \in {"apply", "revoke"}
  /\ rule.desired = "active"
  /\ Become(o, [op[o] EXCEPT !.step = "prepare"])
  /\ UNCHANGED <<rule, holder, guards, cause, late, requests, faults>>

\* ... and then write it: the hops in any case, the rule only if still active.
PrepareWrites(o) ==
  LET bumped == [rule EXCEPT !.hgen = IF rule.held THEN @ + 1 ELSE @]
      next == IF rule.desired = "active"
              THEN [bumped EXCEPT !.observed = "provisioning", !.reason = op[o].reason, !.gen = @ + 1]
              ELSE bumped
  IN
  /\ op[o].step = "prepare"
  /\ rule.hgen < MaxGen /\ rule.gen < MaxGen
  /\ rule' = next
  /\ Become(o, [op[o] EXCEPT !.step = "reread"])
  /\ UNCHANGED <<holder, guards, cause, late, requests, faults>>

\* Both read the rule once more and return that copy.
GetUserForward(o) ==
  /\ op[o].step = "reread"
  /\ Become(o, Waiting(op[o].kind, rule, op[o].reason))
  /\ UNCHANGED <<rule, holder, guards, cause, late, requests, faults>>

---------------------------------------------------------------------------
(* Under the leases. *)

\* Mutant of AcquireForwardLeases: the leases exclude nobody.
AcquireWithoutExclusion(o) ==
  LET deploys == op[o].kind \in Deploys IN
  /\ op[o].step = "wait"
  /\ op[o].hop = 0 => op[o].call # "suspend"
  /\ IF op[o].hop = 0 THEN UNCHANGED holder ELSE holder' = o
  /\ Become(o, [op[o] EXCEPT !.step = IF deploys THEN "mark" ELSE IF op[o].hop = 0 THEN "finish" ELSE "call"])
  /\ UNCHANGED <<rule, guards, cause, late, requests, faults>>

\* acquireForwardLeases. A copy without hops needs none; the suspensions index its
\* first hop all the same, see NoEntry.
AcquireForwardLeases(o) ==
  LET deploys == op[o].kind \in Deploys IN
  /\ op[o].step = "wait"
  /\ op[o].hop = 0 => op[o].call # "suspend"
  /\ IF op[o].hop = 0 THEN UNCHANGED holder ELSE holder = NoOp /\ holder' = o
  /\ Become(o, [op[o] EXCEPT !.step = IF deploys THEN "mark" ELSE IF op[o].hop = 0 THEN "finish" ELSE "call"])
  /\ UNCHANGED <<rule, guards, cause, late, requests, faults>>

\* The hops are gone since the copy was made: the index panics, and in the
\* reconciler that is the end of the process.
NoEntry(o) ==
  /\ op[o].step = "wait" /\ op[o].hop = 0 /\ op[o].call = "suspend"
  /\ IF o = reconciler
     THEN op' = [p \in Op |-> Idle] /\ holder' = NoOp
     ELSE End(o)
  /\ UNCHANGED <<rule, guards, cause, late, requests, faults>>

\* deployForwardOnce marks the rule unless it renews a healthy one.
MarkProvisioning(o) ==
  /\ op[o].step = "mark"
  /\ rule' = IF op[o].healthy THEN rule ELSE [rule EXCEPT !.observed = "provisioning"]
  /\ Become(o, [op[o] EXCEPT !.step = IF op[o].hop = 0 THEN "finish" ELSE "call"])
  /\ UNCHANGED <<holder, guards, cause, late, requests, faults>>

\* Mutant of proceed: a deletion does not stop at the last hop.
DeleteOneHopTooFar(rec) ==
  CASE rec.call = "apply" ->
         IF rec.hop = 1 THEN [rec EXCEPT !.step = "finish"]
         ELSE [rec EXCEPT !.step = "call", !.hop = @ - 1]
    [] rec.kind \in Deploys /\ rec.call = "suspend" ->
         IF rec.hop = N THEN [rec EXCEPT !.step = "fail"]
         ELSE [rec EXCEPT !.step = "call", !.hop = @ + 1]
    [] rec.kind = "delete" ->
         IF rec.hop > N THEN [rec EXCEPT !.step = "finish"]
         ELSE [rec EXCEPT !.step = "call", !.hop = @ + 1]
    [] OTHER -> [rec EXCEPT !.step = "finish"]

\* After the guard of its hop acknowledged: a deployment goes from the exit to the
\* entry, a deletion and a roll-back from the entry to the exit.
proceed(rec) ==
  CASE rec.call = "apply" ->
         IF rec.hop = 1 THEN [rec EXCEPT !.step = "finish"]
         ELSE [rec EXCEPT !.step = "call", !.hop = @ - 1]
    [] rec.kind \in Deploys /\ rec.call = "suspend" ->
         IF rec.hop = N THEN [rec EXCEPT !.step = "fail"]
         ELSE [rec EXCEPT !.step = "call", !.hop = @ + 1]
    [] rec.kind = "delete" ->
         IF rec.hop = N THEN [rec EXCEPT !.step = "finish"]
         ELSE [rec EXCEPT !.step = "call", !.hop = @ + 1]
    [] OTHER -> [rec EXCEPT !.step = "finish"]

\* Mutants of giveUp: a deployment, or a deletion, goes on after a failure.
DeployDespiteFailure(rec) == IF rec.kind \in Deploys THEN proceed(rec) ELSE [rec EXCEPT !.step = "fail"]

DeleteDespiteFailure(rec) ==
  CASE rec.call = "apply" /\ rec.hop < N ->
         [rec EXCEPT !.step = "call", !.call = "suspend", !.hop = @ + 1]
    [] rec.kind = "delete" \/ (rec.kind \in Deploys /\ rec.call = "suspend") -> proceed(rec)
    [] OTHER -> [rec EXCEPT !.step = "fail"]

\* After it did not: a deployment suspends what it applied, in reverse.
giveUp(rec) ==
  CASE rec.call = "apply" /\ rec.hop < N ->
         [rec EXCEPT !.step = "call", !.call = "suspend", !.hop = @ + 1]
    [] rec.kind \in Deploys /\ rec.call = "suspend" -> proceed(rec)
    [] OTHER -> [rec EXCEPT !.step = "fail"]

\* A suspension the user asked for, and a renewal while the last lease still runs,
\* return without a mark.
returnsAtOnce(rec) == rec.kind = "suspend" \/ (rec.healthy /\ rec.call = "apply")

Fails(o) ==
  \/ returnsAtOnce(op[o]) /\ End(o)
  \/ op[o].kind # "suspend" /\ Become(o, giveUp(op[o])) /\ UNCHANGED holder

---------------------------------------------------------------------------
(* A call: the guard of the hop accepts or refuses it, then acknowledges.  *)

\* The guard finds nothing to do: the lease renewed, the work done before.
idempotent(call, h, g) ==
  CASE call = "apply" -> phase[h] = "serving" /\ gen[h] = g /\ h \in live
    [] call = "suspend" -> phase[h] = "parked" /\ gen[h] = g
    [] call = "remove" -> phase[h] = "none" \/ (phase[h] = "gone" /\ gen[h] = g)

accept(call, h, g) ==
  CASE call = "apply" -> Guard!Serve(h, g)
    [] call = "suspend" -> (gen[h] = g => phase[h] # "closing") /\ Guard!Close(h, g)
    [] call = "remove" -> (gen[h] = g => phase[h] # "dooming") /\ Guard!Doom(h, g)

acceptable(call, h, g) ==
  CASE call = "apply" -> phase[h] \notin {"dooming", "gone"} /\ g > gen[h]
    [] call = "suspend" ->
         phase[h] \notin {"none", "dooming", "gone"} /\ (g > gen[h] \/ (g = gen[h] /\ phase[h] # "closing"))
    [] call = "remove" ->
         phase[h] # "none" /\ (g > gen[h] \/ (g = gen[h] /\ phase[h] \notin {"dooming", "gone"}))

Repeat(o) ==
  LET rec == op[o] IN
  /\ rec.step = "call" /\ idempotent(rec.call, rec.hop, rec.hgen)
  /\ Become(o, proceed(rec))
  /\ UNCHANGED <<rule, holder, guards, cause, late, requests, faults>>

Accept(o) ==
  LET rec == op[o] IN
  /\ rec.step = "call" /\ ~idempotent(rec.call, rec.hop, rec.hgen)
  /\ accept(rec.call, rec.hop, rec.hgen)
  /\ Become(o, [rec EXCEPT !.step = "busy"])
  /\ UNCHANGED <<rule, holder, cause, late, requests, faults>>

Refuse(o) ==
  LET rec == op[o] IN
  /\ rec.step = "call" /\ ~idempotent(rec.call, rec.hop, rec.hgen)
  /\ ~acceptable(rec.call, rec.hop, rec.hgen)
  /\ Fails(o)
  /\ UNCHANGED <<rule, guards, cause, late, requests, faults>>

\* The guard has done its work, and says so.
Acknowledge(o) ==
  LET rec == op[o] IN
  /\ rec.step = "busy"
  /\ IF rec.call = "apply" THEN Guard!Appear(rec.hop) ELSE Guard!Rest(rec.hop)
  /\ Become(o, proceed(rec))
  /\ UNCHANGED <<rule, holder, cause, late, requests, faults>>

\* What the calls of these operations may still do once nobody waits for them.
Pending(ops) ==
  {[call |-> IF op[o].step = "call" THEN op[o].call ELSE "appear",
    hop |-> op[o].hop, gen |-> op[o].hgen] :
     o \in {p \in ops : op[p].step = "call" \/ (op[p].step = "busy" /\ op[p].call = "apply")}}

Forget(ops) == late' = late \/ late' = late \union Pending(ops)

\* The call or its answer is lost, or too late.
Lost(o) ==
  /\ op[o].step \in {"call", "busy"} /\ faults < MaxFault
  /\ faults' = faults + 1
  /\ Forget({o})
  /\ Fails(o)
  /\ UNCHANGED <<rule, guards, cause, requests>>

\* The call times out at one address of the server and is repeated at the next.
Resend(o) ==
  /\ op[o].step \in {"call", "busy"} /\ faults < MaxFault
  /\ faults' = faults + 1
  /\ Forget({o})
  /\ Become(o, [op[o] EXCEPT !.step = "call"])
  /\ UNCHANGED <<rule, holder, guards, cause, requests>>

busyWith(h) == \E o \in Op : op[o].step = "busy" /\ op[o].hop = h

\* A late call has its turn, and the inbound it asks for comes up.
LateAccept(m) ==
  /\ m.call # "appear" /\ ~busyWith(m.hop) /\ accept(m.call, m.hop, m.gen)
  /\ late' = (late \ {m}) \union
                IF m.call = "apply" THEN {[m EXCEPT !.call = "appear"]} ELSE {}
  /\ UNCHANGED <<rule, op, holder, cause, requests, faults>>

LateAppear(m) ==
  /\ m.call = "appear" /\ gen[m.hop] = m.gen /\ Guard!Appear(m.hop)
  /\ late' = late \ {m}
  /\ UNCHANGED <<rule, op, holder, cause, requests, faults>>

\* What the guard does by itself: withdraw and rest. A lease that lapses although the
\* panel is there to renew it is a fault.
GuardWithdraws(h) ==
  /\ phase[h] \in {"closing", "dooming"} /\ h \in live
  /\ Guard!Vanish(h)
  /\ UNCHANGED <<rule, op, holder, cause, late, requests, faults>>

GuardRests(h) ==
  /\ ~busyWith(h)
  /\ Guard!Rest(h)
  /\ UNCHANGED <<rule, op, holder, cause, late, requests, faults>>

LeaseLapses(h) ==
  /\ phase[h] = "serving" /\ h \in live /\ ~busyWith(h) /\ faults < MaxFault
  /\ faults' = faults + 1
  /\ Guard!Vanish(h)
  /\ UNCHANGED <<rule, op, holder, cause, late, requests>>

---------------------------------------------------------------------------
(* An operation records its outcome. *)

\* MarkUserForwardDeployment, MarkUserForwardSystemState, FinalizeUserForwardDelete
outcome(kind, reason) ==
  CASE kind \in Deploys -> [rule EXCEPT !.observed = "active", !.applied = rule.gen]
    [] kind \in {"suspend", "retry"} -> [rule EXCEPT !.observed = "suspended", !.applied = rule.gen]
    [] kind = "revoke" ->
         IF rule.desired = "active"
         THEN [rule EXCEPT !.observed = "suspended", !.reason = reason] ELSE rule
    [] kind = "delete" -> [rule EXCEPT !.observed = "suspended", !.held = FALSE]

Finish(o) ==
  /\ op[o].step = "finish"
  /\ rule' = outcome(op[o].kind, op[o].reason)
  /\ End(o)
  /\ UNCHANGED <<guards, cause, late, requests, faults>>

failure(kind, reason) ==
  CASE kind \in Deploys \union {"retry"} -> [rule EXCEPT !.observed = "error"]
    [] kind = "revoke" ->
         IF rule.desired = "active"
         THEN [rule EXCEPT !.observed = "error", !.reason = reason] ELSE rule
    [] kind = "delete" -> [rule EXCEPT !.observed = "cleanup_pending"]

Fail(o) ==
  /\ op[o].step = "fail"
  /\ rule' = failure(op[o].kind, op[o].reason)
  /\ End(o)
  /\ UNCHANGED <<guards, cause, late, requests, faults>>

\* The request is cancelled; or an installation keeps the server from any operation.
Abandon(o) ==
  /\ op[o].step # "idle" /\ faults < MaxFault
  /\ o = reconciler => op[o].step = "wait"
  /\ faults' = faults + 1
  /\ Forget({o}) /\ End(o)
  /\ UNCHANGED <<rule, guards, cause, requests>>

\* The panel stops and starts again.
Restart ==
  /\ ~Quiet /\ faults < MaxFault
  /\ faults' = faults + 1
  /\ Forget(Op) /\ op' = [o \in Op |-> Idle] /\ holder' = NoOp
  /\ UNCHANGED <<rule, guards, cause, requests>>

---------------------------------------------------------------------------
Init ==
  /\ rule = NoRule
  /\ op = [o \in Op |-> Idle] /\ holder = NoOp
  /\ Guard!Init
  /\ cause = "none" /\ late = {} /\ requests = 0 /\ faults = 0

Arrive(o) == CreateUserForward(o) \/ HandleForwardItem(o) \/ HandleGrantAction(o)

Advance(o) ==
  \/ SetUserForwardDesired(o) \/ PrepareRefused(o) \/ PrepareReads(o) \/ PrepareWrites(o)
  \/ GetUserForward(o)
  \/ AcquireForwardLeases(o) \/ NoEntry(o) \/ MarkProvisioning(o)
  \/ Repeat(o) \/ Accept(o) \/ Refuse(o) \/ Acknowledge(o)
  \/ Finish(o) \/ Fail(o)

Reconcile == ListForwardReconcileCandidates \/ ReconcileForwards

GuardStep(h) == GuardWithdraws(h) \/ GuardRests(h)

Next ==
  \/ \E o \in Request : Arrive(o)
  \/ \E o \in Op : Advance(o) \/ Lost(o) \/ Resend(o) \/ Abandon(o)
  \/ Entitle \/ Reconcile \/ Restart
  \/ \E h \in Hop : GuardStep(h) \/ LeaseLapses(h)
  \/ \E m \in late : LateAccept(m) \/ LateAppear(m)

Spec == Init /\ [][Next]_vars

\* A renewal that is refused while the last lease runs is repeated until it has run out.
LeaseRanOut(o) == Refuse(o) /\ op'[o].step # "idle"

\* Requests go on, and the reconciler does, and they get the leases in the end (a Go
\* mutex starves nobody); the reconciler lists again every minute, and the guards
\* finish what they accepted.
Fairness ==
  /\ SF_vars(\E o \in Request : Advance(o)) /\ SF_vars(Advance(reconciler))
  /\ SF_vars(LeaseRanOut(reconciler))
  /\ WF_vars(Reconcile)
  /\ \A h \in Hop : WF_vars(GuardStep(h))

FairSpec == Spec /\ Fairness

---------------------------------------------------------------------------
(* Properties. *)

TypeOK ==
  /\ rule \in [desired : Desired, observed : Observed, reason : Reason,
               gen : 0..MaxGen, hgen : 0..MaxGen, applied : 0..MaxGen, held : BOOLEAN]
  /\ \A o \in Op : op[o].kind \in Kind /\ op[o].hop \in 0..N
  /\ holder \in Op \union {NoOp}
  /\ phase \in [Hop -> Guard!Phase] /\ gen \in [Hop -> 0..MaxGen] /\ live \subseteq Hop
  /\ cause \in Cause /\ requests \in 0..MaxRequest /\ faults \in 0..MaxFault

\* The entry serves a generation only after every hop behind it was brought to it:
\* deployForwardOnce goes from the exit to the entry and stops at the first failure,
\* whatever other operations and late calls do between its calls.
EntryLast == phase[1] = "serving" => \A h \in Hop : gen[h] >= gen[1]

\* A deployment that is about to report the forward active has all its hops at its
\* generation, no other operation having come between its calls. A late call still can.
DeployedTogether ==
  \A o \in Op :
    op[o].step = "finish" /\ op[o].call = "apply" /\ op[o].hop = 1 /\ faults = 0
      => \A h \in Hop : gen[h] = op[o].hgen

\* The ports of a forward that was ever deployed are released only when no hop has
\* its inbound and no call can bring one back.
ReleasedForGood ==
  [][rule.held /\ ~rule'.held /\ rule.applied > 0
       => live = {} /\ \A h \in Hop : phase[h] \in {"dooming", "gone"}]_vars

\* An apply or a revocation has read that the rule is active, and is yet to write its
\* hops, when the user suspends or deletes it (PrepareUserForwardSystemApply).
Overtaken == \E o \in Op : op[o].step = "prepare" /\ rule.desired # "active"

\* A forward that is suspended, or whose grant or target is no longer usable, goes down
\* and stays down, whatever cut the operations short (reconcileForwards): as long as no
\* call is late and no apply is overtaken by the user between its read and its write.
\* (Otherwise the lease may be what takes the entry down.)
UnwantedGoesDown ==
  [](late = {} /\ ~Overtaken)
  /\ <>[](rule.held /\ (rule.desired = "inactive" \/ (rule.desired = "active" /\ cause # "none")))
    => <>[](1 \notin live)

\* A forward the user wants and may use comes up on all its hops and stays up.
ActiveComesUp ==
  <>[](rule.held /\ rule.desired = "active" /\ cause = "none")
    => <>[](rule.observed = "active" /\ live = Hop)

\* A deletion recorded as pending is completed: in the end the ports are released.
CleanupFinishes ==
  <>[](rule.desired = "deleted" /\ rule.observed = "cleanup_pending") => <>[](~rule.held)

=============================================================================
