---------------------------- MODULE TunnelGuard ----------------------------
(***************************************************************************)
(* The expiry guard's managed tunnels (internal/expiryguard/tunnels.go and *)
(* the scheduler of guard.go): one guard process beside one Agent, which   *)
(* owns the Xray inbounds of the server, and one nftables table.           *)
(*                                                                         *)
(* A mutation (apply, renew, suspend, delete, expire) holds tunnelOpsMu    *)
(* from its first read to its last store, so there is one job at a time;   *)
(* but it is not atomic: the process may crash, the clock may advance, and *)
(* the scheduler's start-up repair of the ACL (which takes only g.mu) may  *)
(* run between any two of its steps.                                       *)
(*                                                                         *)
(* Times are durations still to run: lease, hard and retry count the ticks *)
(* to LeaseUntil, HardNotAfter and NextAttemptAt, 0 meaning "reached".     *)
(* UpdatedAt is never in the future, so it never delays a cleanup and is   *)
(* left out, as are Attempts (one delay stands for the back-off) and the   *)
(* error texts. Listen port and source CIDRs belong to the resource id:    *)
(* the guard refuses any other definition (resource_definition_conflict).  *)
(* A request the guard refuses changes nothing and is no step.             *)
(***************************************************************************)
EXTENDS Naturals, FiniteSets

CONSTANTS Tunnel,      \* the resource ids
          Port,          \* the listen port of each resource
          Restricted,    \* the resources with source CIDRs
          MaxGen,        \* bound: the largest generation the panel sends
          MaxLease,      \* maxTunnelLease, in ticks
          MaxHard,       \* bound: the farthest hard deadline the panel sends
          RetryDelay,    \* retryDelay, in ticks
          Hour,          \* how long the scheduler sleeps with nothing to wait for
          MaxCrash       \* bound: crashes of the guard or its host

ASSUME TunnelAssumption ==
  /\ Tunnel # {}
  /\ Restricted \subseteq Tunnel
  /\ MaxGen \in Nat /\ MaxLease \in Nat /\ MaxHard \in Nat
  /\ RetryDelay \in Nat /\ Hour \in Nat /\ MaxCrash \in Nat

VARIABLES
  mem,      \* g.tunnels: the records in the process's memory
  disk,     \* the state file: what a restart loads
  inb,      \* the resources with an inbound on the Agent (configured or running)
  nft,      \* the resources with rules in the arcway_forwarding table
  pc,       \* where the holder of tunnelOpsMu is, "idle" when nobody holds it
  job,      \* what it works on: its kind, its resource, its local copy of the record
  boot,     \* "down", "main" (start-up, not serving yet) or "up"
  rpc,      \* where the goroutine that runs InitializeTunnelSafety and Run is
  due,      \* its list of due records, as read when it was made
  aclRead,  \* the resources PrepareTunnelACL read, before it writes the table
  timer,    \* ticks until its timer fires
  wake,     \* the one-slot wake channel
  crashes

ops   == <<pc, job>>
sched == <<boot, rpc, due, aclRead, timer, wake>>
vars  == <<mem, disk, inb, nft, ops, sched, crashes>>

---------------------------------------------------------------------------
(* Records. *)

PendingState == {"suspend_pending", "delete_pending", "expiry_pending"}
TerminalState == {"suspended", "deleted", "expired"}

\* A record in one of these states is still worked on: there may be an inbound.
OpenState == {"provisioning", "active"} \union PendingState

TunnelState == {"absent"} \union OpenState \union TerminalState

Resource == [st : TunnelState, gen : Nat, term : TerminalState \union {""},
             lease : Nat, hard : Nat, retry : Nat]

NoResource == [st |-> "absent", gen |-> 0, term |-> "", lease |-> 0, hard |-> 0, retry |-> 0]

JobKind == {"none", "apply", "suspend", "delete", "expire"}
Job == [kind : JobKind, tun : Tunnel, rec : Resource]
NoJob == [kind |-> "none", tun |-> CHOOSE t \in Tunnel : TRUE, rec |-> NoResource]

effectiveNotAfter(rec) == IF rec.lease < rec.hard THEN rec.lease ELSE rec.hard

reservesPort(rec) == rec.st \notin {"absent", "deleted", "expired"}

needsACL(t, rec) == t \in Restricted /\ reservesPort(rec)

\* aclResources(exclude): the resources the next version of the table covers.
aclResources(exclude) == {t \in Tunnel \ exclude : needsACL(t, mem[t])}

\* Mutant of Dec: no floor.
DecUnbounded(n) == n - 1

Dec(n) == IF n = 0 THEN 0 ELSE n - 1

Aged(rec) == [rec EXCEPT !.lease = Dec(@), !.hard = Dec(@), !.retry = Dec(@)]

---------------------------------------------------------------------------
(* Persistence. The state file holds every record, so a store that commits *)
(* also makes durable what an earlier failed write left in memory. A store *)
(* may fail before the rename, which undoes it in memory too, or after it  *)
(* (the directory sync), when the change is kept but the caller is told of *)
(* an error.                                                               *)

Commit(t, rec) ==
  /\ mem' = [mem EXCEPT ![t] = rec]
  /\ disk' = mem'

\* A store that reports an error, or one whose result is ignored.
StoreUnsure(t, rec) == Commit(t, rec) \/ UNCHANGED <<mem, disk>>

EndJob == pc' = "idle" /\ job' = NoJob

StepTo(next) == pc' = next /\ UNCHANGED job

notify == wake' = TRUE /\ UNCHANGED <<boot, rpc, due, aclRead, timer>>

---------------------------------------------------------------------------
(* A request begins: the guard's tests, on the record as it is read once   *)
(* under tunnelOpsMu.                                                      *)

Begin(next, kind, t, rec) ==
  /\ boot = "up" /\ pc = "idle"
  /\ pc' = next
  /\ job' = [kind |-> kind, tun |-> t, rec |-> rec]
  /\ UNCHANGED <<mem, disk, inb, nft, sched, crashes>>

\* ApplyTunnel of the current generation only extends the lease.
RenewTunnel(t, lease) ==
  LET current == mem[t] IN
  /\ current.st = "active"
  /\ effectiveNotAfter(current) > 0
  /\ lease > current.lease
  /\ Begin("renew", "apply", t, [current EXCEPT !.lease = lease])

\* Mutant of PortFree: only an active record holds its port.
PortFreeOfActive(t) == \A u \in Tunnel \ {t} : Port[u] = Port[t] => mem[u].st # "active"

\* checkDurablePort and portConflicts
PortFree(t) ==
  \A u \in Tunnel \ {t} : Port[u] = Port[t] => ~reservesPort(mem[u]) /\ u \notin inb

\* Mutant of ApplyTunnel: the current generation may be installed again.
ReapplyTunnel(t, gen, lease, hard) ==
  LET current == mem[t] IN
  /\ current.st \notin {"deleted", "delete_pending"}
  /\ gen >= current.gen
  /\ PortFree(t)
  /\ Begin("store", "apply", t, [st |-> "provisioning", gen |-> gen, term |-> "suspended",
                                 lease |-> lease, hard |-> hard, retry |-> 0])

\* ApplyTunnel of a newer generation, or of an unknown resource.
ApplyTunnel(t, gen, lease, hard) ==
  LET current == mem[t] IN
  /\ current.st \notin {"deleted", "delete_pending"}
  /\ gen > current.gen
  /\ PortFree(t)
  /\ Begin("store", "apply", t, [st |-> "provisioning", gen |-> gen, term |-> "suspended",
                                 lease |-> lease, hard |-> hard, retry |-> 0])

\* Mutant of TransitionTunnelForCleanup: a deletion may become a suspension.
TransitionWithoutDeletedCheck(t, gen, kind) ==
  LET terminal == IF kind = "suspend" THEN "suspended" ELSE "deleted"
      pending == IF kind = "suspend" THEN "suspend_pending" ELSE "delete_pending"
  IN
  /\ mem[t].st # "absent" /\ gen >= mem[t].gen
  /\ gen = mem[t].gen => mem[t].st # terminal /\ mem[t].term # terminal
  /\ Begin("cleanup", kind, t,
           [mem[t] EXCEPT !.gen = gen, !.st = pending, !.term = terminal, !.retry = 0])

\* transitionTunnelForCleanup. A repeated request finds its work done, or under way.
TransitionTunnelForCleanup(t, gen, kind) ==
  LET current == mem[t]
      terminal == IF kind = "suspend" THEN "suspended" ELSE "deleted"
      pending == IF kind = "suspend" THEN "suspend_pending" ELSE "delete_pending"
  IN
  /\ current.st # "absent"
  /\ gen >= current.gen
  /\ kind = "suspend" => current.st \notin {"deleted", "delete_pending"}
  /\ gen = current.gen =>
       /\ current.st # terminal
       /\ ~(current.st \in PendingState /\ current.term = terminal)
  /\ Begin("cleanup", kind, t,
           [current EXCEPT !.gen = gen, !.st = pending, !.term = terminal, !.retry = 0])

---------------------------------------------------------------------------
(* The steps of a job, each ending in the outcome of one call.             *)

StoreRenewal ==
  /\ pc = "renew"
  /\ Commit(job.tun, job.rec)
  /\ EndJob /\ notify
  /\ UNCHANGED <<inb, nft, crashes>>

StoreRenewalFails ==
  /\ pc = "renew"
  /\ StoreUnsure(job.tun, job.rec)
  /\ EndJob
  /\ UNCHANGED <<inb, nft, sched, crashes>>

StoreProvisioning ==
  /\ pc = "store"
  /\ Commit(job.tun, job.rec)
  /\ StepTo(IF job.tun \in Restricted THEN "acl" ELSE "add")
  /\ UNCHANGED <<inb, nft, sched, crashes>>

StoreProvisioningFails ==
  /\ pc = "store"
  /\ StoreUnsure(job.tun, job.rec)
  /\ EndJob /\ notify
  /\ UNCHANGED <<inb, nft, crashes>>

\* Mutant of RebuildTunnelACL: the table is made anew for the resource alone.
RebuildOwnACL ==
  /\ pc = "acl"
  /\ nft' = {job.tun}
  /\ StepTo("add")
  /\ UNCHANGED <<mem, disk, inb, sched, crashes>>

RebuildTunnelACL ==
  /\ pc = "acl"
  /\ nft' = aclResources({})
  /\ StepTo("add")
  /\ UNCHANGED <<mem, disk, inb, sched, crashes>>

RebuildTunnelACLFails ==
  /\ pc = "acl"
  /\ nft' \in {nft, aclResources({})}
  /\ StoreUnsure(job.tun, job.rec)
  /\ EndJob /\ notify
  /\ UNCHANGED <<inb, crashes>>

AddInbound ==
  /\ pc = "add"
  /\ inb' = inb \union {job.tun}
  /\ StepTo("activate")
  /\ UNCHANGED <<mem, disk, nft, sched, crashes>>

\* No acknowledgement says nothing of what the Agent did.
AddInboundFails ==
  /\ pc = "add"
  /\ inb' \in {inb, inb \union {job.tun}, inb \ {job.tun}}
  /\ StoreUnsure(job.tun, job.rec)
  /\ EndJob /\ notify
  /\ UNCHANGED <<nft, crashes>>

activated(rec) == [rec EXCEPT !.st = "active", !.term = "", !.retry = 0]

StoreActive ==
  /\ pc = "activate"
  /\ Commit(job.tun, activated(job.rec))
  /\ EndJob
  /\ UNCHANGED <<inb, nft, sched, crashes>>

StoreActiveFails ==
  /\ pc = "activate"
  /\ StoreUnsure(job.tun, activated(job.rec))
  /\ StepTo("undo")
  /\ UNCHANGED <<inb, nft, sched, crashes>>

\* The final active state was not stored: back to provisioning, and withdrawn.
UndoAdd ==
  /\ pc = "undo"
  /\ StoreUnsure(job.tun, [job.rec EXCEPT !.retry = 0])
  /\ inb' \in {inb, inb \ {job.tun}}
  /\ EndJob /\ notify
  /\ UNCHANGED <<nft, crashes>>

StorePending ==
  /\ pc = "cleanup"
  /\ Commit(job.tun, job.rec)
  /\ StepTo("withdraw")
  /\ UNCHANGED <<inb, nft, sched, crashes>>

StorePendingFails ==
  /\ pc = "cleanup"
  /\ StoreUnsure(job.tun, job.rec)
  /\ EndJob
  /\ UNCHANGED <<inb, nft, sched, crashes>>

\* A failed handler wakes the scheduler; the scheduler's own attempt does not.
notifyHandler == IF job.kind = "expire" THEN UNCHANGED sched ELSE notify

\* removeTunnelInbound, and the ACL without the resource.
WithdrawInbound ==
  /\ pc = "withdraw"
  /\ inb' = inb \ {job.tun}
  /\ nft' = IF job.tun \in Restricted THEN aclResources({job.tun}) ELSE nft
  /\ StepTo("terminal")
  /\ UNCHANGED <<mem, disk, sched, crashes>>

\* Mutant of WithdrawInboundFails: a removal that is not confirmed counts as done.
WithdrawUnconfirmed ==
  /\ pc = "withdraw"
  /\ inb' \in {inb, inb \ {job.tun}}
  /\ StepTo("terminal")
  /\ UNCHANGED <<mem, disk, nft, sched, crashes>>

\* The removal is not confirmed, or it is and the ACL is not.
WithdrawInboundFails ==
  /\ pc = "withdraw"
  /\ \/ inb' \in {inb, inb \ {job.tun}} /\ UNCHANGED nft
     \/ /\ job.tun \in Restricted
        /\ inb' = inb \ {job.tun}
        /\ nft' = aclResources({job.tun})
  /\ StoreUnsure(job.tun, [job.rec EXCEPT !.retry = RetryDelay])
  /\ EndJob /\ notifyHandler
  /\ UNCHANGED crashes

finished(rec) ==
  [rec EXCEPT !.st = IF rec.term = "" THEN "suspended" ELSE rec.term, !.term = "", !.retry = 0]

StoreTerminal ==
  /\ pc = "terminal"
  /\ Commit(job.tun, finished(job.rec))
  /\ EndJob
  /\ UNCHANGED <<inb, nft, sched, crashes>>

StoreTerminalFails ==
  /\ pc = "terminal"
  /\ StoreUnsure(job.tun, finished(job.rec))
  /\ EndJob /\ notifyHandler
  /\ UNCHANGED <<inb, nft, crashes>>

---------------------------------------------------------------------------
(* The scheduler: main runs InitializeTunnelSafety before it serves, then  *)
(* Run does it again beside the handlers and loops.                        *)

\* Ticks until the scheduler has work on a record.
attemptIn(rec) ==
  IF rec.st = "active" /\ effectiveNotAfter(rec) > rec.retry
  THEN effectiveNotAfter(rec) ELSE rec.retry

\* Mutants of dueTunnels: leases are left to the panel; so is a lapsed record.
dueWithoutActive == {t \in Tunnel : mem[t].st \in OpenState \ {"active"} /\ attemptIn(mem[t]) = 0}
dueWithoutExpiry ==
  {t \in Tunnel : mem[t].st \in OpenState \ {"expiry_pending"} /\ attemptIn(mem[t]) = 0}

dueTunnels == {t \in Tunnel : mem[t].st \in OpenState /\ attemptIn(mem[t]) = 0}

\* How long to sleep with nothing due: until the first attempt, if there is one.
isWait(n) ==
  LET times == {attemptIn(mem[t]) : t \in {u \in Tunnel : mem[u].st \in OpenState}} IN
  IF times = {} THEN n = Hour ELSE n \in times /\ \A m \in times : n <= m

ReadACLResources ==
  /\ rpc = "read"
  /\ aclRead' = aclResources({})
  /\ rpc' = "write"
  /\ UNCHANGED <<mem, disk, inb, nft, ops, boot, due, timer, wake, crashes>>

PrepareTunnelACL ==
  /\ rpc = "write"
  /\ nft' = aclRead
  /\ aclRead' = {}
  /\ rpc' = "scan"
  /\ UNCHANGED <<mem, disk, inb, ops, boot, due, timer, wake, crashes>>

\* Nothing to restore and no nftables: not an error.
SkipTunnelACL ==
  /\ rpc = "write"
  /\ aclRead = {}
  /\ rpc' = "scan"
  /\ UNCHANGED <<mem, disk, inb, nft, ops, boot, due, aclRead, timer, wake, crashes>>

FailClosedTunnelACL ==
  LET hit == {t \in Restricted : mem[t].st \in {"active", "provisioning"}} IN
  /\ rpc = "write"
  /\ mem' = [t \in Tunnel |->
               IF t \in hit
               THEN [mem[t] EXCEPT !.st = "expiry_pending", !.term = "suspended", !.retry = 0]
               ELSE mem[t]]
  /\ \/ hit # {} /\ disk' = mem'
     \/ UNCHANGED disk
  /\ wake' = (wake \/ hit # {})
  /\ aclRead' = {}
  /\ rpc' = "scan"
  /\ UNCHANGED <<inb, nft, ops, boot, due, timer, crashes>>

Scan ==
  /\ rpc = "scan"
  /\ boot = "main" \/ dueTunnels # {}
  /\ due' = {[tun |-> t, st |-> mem[t].st, gen |-> mem[t].gen] : t \in dueTunnels}
  /\ rpc' = "work"
  /\ UNCHANGED <<mem, disk, inb, nft, ops, boot, aclRead, timer, wake, crashes>>

\* A record that has changed since the scan, or a lease renewed, is left alone.
outOfDate(e) ==
  LET current == mem[e.tun] IN
  \/ current.gen # e.gen \/ current.st # e.st
  \/ current.st = "active" /\ effectiveNotAfter(current) > 0

SkipDue ==
  /\ rpc = "work" /\ pc = "idle"
  /\ \E e \in due : outOfDate(e) /\ due' = due \ {e}
  /\ UNCHANGED <<mem, disk, inb, nft, ops, boot, rpc, aclRead, timer, wake, crashes>>

lapse(rec) == [rec EXCEPT !.st = "expiry_pending", !.term = "expired", !.retry = 0]

ExpireOrCleanupTunnel ==
  /\ rpc = "work" /\ pc = "idle"
  /\ \E e \in due :
       LET current == mem[e.tun]
           active == current.st = "active"
       IN
       /\ ~outOfDate(e)
       /\ due' = due \ {e}
       /\ pc' = IF active THEN "cleanup" ELSE "withdraw"
       /\ job' = [kind |-> "expire", tun |-> e.tun,
                  rec |-> IF active THEN lapse(current) ELSE current]
  /\ UNCHANGED <<mem, disk, inb, nft, boot, rpc, aclRead, timer, wake, crashes>>

\* The list is worked off. main starts to serve and Run repeats the repair;
\* Run's own loop looks again.
WorkDone ==
  /\ rpc = "work" /\ due = {} /\ job.kind # "expire"
  /\ boot' = "up"
  /\ rpc' = IF boot = "main" THEN "read" ELSE "scan"
  /\ UNCHANGED <<mem, disk, inb, nft, ops, due, aclRead, timer, wake, crashes>>

Sleep ==
  /\ rpc = "scan" /\ boot = "up" /\ dueTunnels = {}
  /\ rpc' = "asleep"
  /\ \E n \in {attemptIn(mem[t]) : t \in Tunnel} \union {Hour} : isWait(n) /\ timer' = n
  /\ UNCHANGED <<mem, disk, inb, nft, ops, boot, due, aclRead, wake, crashes>>

Wake ==
  /\ rpc = "asleep"
  /\ \/ wake /\ wake' = FALSE
     \/ timer = 0 /\ UNCHANGED wake
  /\ rpc' = "scan"
  /\ timer' = 0
  /\ UNCHANGED <<mem, disk, inb, nft, ops, boot, due, aclRead, crashes>>

---------------------------------------------------------------------------
(* Time and faults.                                                        *)

Tick ==
  /\ mem' = [t \in Tunnel |-> Aged(mem[t])]
  /\ disk' = [t \in Tunnel |-> Aged(disk[t])]
  /\ job' = [job EXCEPT !.rec = Aged(@)]
  /\ timer' = Dec(timer)
  /\ UNCHANGED <<inb, nft, pc, boot, rpc, due, aclRead, wake, crashes>>

\* What the Agent may have done with the call a crash leaves unanswered.
AgentOutcome ==
  CASE pc = "add" -> {inb, inb \union {job.tun}}
    [] pc \in {"undo", "withdraw"} -> {inb, inb \ {job.tun}}
    [] OTHER -> {inb}

\* The process dies, alone or with its host, which loses the nftables table.
Crash ==
  /\ boot # "down" /\ crashes < MaxCrash
  /\ crashes' = crashes + 1
  /\ mem' = disk
  /\ inb' \in AgentOutcome
  /\ nft' \in {nft, {}}
  /\ EndJob
  /\ boot' = "down" /\ rpc' = "off"
  /\ due' = {} /\ aclRead' = {} /\ timer' = 0 /\ wake' = FALSE
  /\ UNCHANGED disk

\* New loads the state file (mem is already what it holds), main prepares.
Start ==
  /\ boot = "down"
  /\ boot' = "main" /\ rpc' = "read"
  /\ UNCHANGED <<mem, disk, inb, nft, ops, due, aclRead, timer, wake, crashes>>

---------------------------------------------------------------------------
Init ==
  /\ mem = [t \in Tunnel |-> NoResource]
  /\ disk = mem
  /\ inb = {} /\ nft = {}
  /\ pc = "idle" /\ job = NoJob
  /\ boot = "down" /\ rpc = "off"
  /\ due = {} /\ aclRead = {} /\ timer = 0 /\ wake = FALSE
  /\ crashes = 0

Request ==
  \E t \in Tunnel :
    \/ \E lease \in 1..MaxLease : RenewTunnel(t, lease)
    \/ \E gen \in 1..MaxGen, lease \in 1..MaxLease, hard \in 1..MaxHard :
         ApplyTunnel(t, gen, lease, hard)
    \/ \E gen \in 1..MaxGen, kind \in {"suspend", "delete"} :
         TransitionTunnelForCleanup(t, gen, kind)

JobStep ==
  \/ StoreRenewal \/ StoreRenewalFails
  \/ StoreProvisioning \/ StoreProvisioningFails
  \/ RebuildTunnelACL \/ RebuildTunnelACLFails
  \/ AddInbound \/ AddInboundFails
  \/ StoreActive \/ StoreActiveFails \/ UndoAdd
  \/ StorePending \/ StorePendingFails
  \/ WithdrawInbound \/ WithdrawInboundFails
  \/ StoreTerminal \/ StoreTerminalFails

RunStep ==
  \/ ReadACLResources \/ PrepareTunnelACL \/ SkipTunnelACL \/ FailClosedTunnelACL
  \/ Scan \/ SkipDue \/ ExpireOrCleanupTunnel \/ WorkDone \/ Sleep \/ Wake

Next == Request \/ JobStep \/ RunStep \/ Tick \/ Crash \/ Start

Spec == Init /\ [][Next]_vars

\* Clock, process supervisor, job and scheduler go on. The scheduler gets
\* tunnelOpsMu in the end (a Go mutex starves nobody), and the state file and the
\* Agent do not refuse the same call for ever.
Fairness ==
  /\ WF_vars(Tick) /\ WF_vars(Start) /\ WF_vars(JobStep) /\ WF_vars(RunStep)
  /\ SF_vars(ExpireOrCleanupTunnel) /\ SF_vars(SkipDue)
  /\ SF_vars(StorePending) /\ SF_vars(WithdrawInbound) /\ SF_vars(StoreTerminal)

FairSpec == Spec /\ Fairness

---------------------------------------------------------------------------
(* Properties.                                                             *)

DueEntry == [tun : Tunnel, st : OpenState, gen : Nat]

Step == {"idle", "renew", "store", "acl", "add", "activate", "undo",
         "cleanup", "withdraw", "terminal"}

TypeOK ==
  /\ mem \in [Tunnel -> Resource] /\ disk \in [Tunnel -> Resource]
  /\ inb \subseteq Tunnel /\ nft \subseteq Tunnel /\ aclRead \subseteq Tunnel
  /\ pc \in Step /\ job \in Job
  /\ boot \in {"down", "main", "up"}
  /\ rpc \in {"off", "read", "write", "scan", "work", "asleep"}
  /\ due \subseteq DueEntry
  /\ timer \in Nat /\ wake \in BOOLEAN /\ crashes \in 0..MaxCrash

\* "The durable state must never lag behind a live inbound": whatever fails and
\* whenever the process dies, an inbound on the Agent has a record, in memory and
\* in the state file, that the scheduler will still come back to.
NoOrphanInbound ==
  \A t \in inb : mem[t].st \in OpenState /\ disk[t].st \in OpenState

\* Two inbounds never listen on the same port, not even while one is withdrawn.
PortExclusive ==
  \A t, u \in inb : Port[t] = Port[u] => t = u

\* A resource the panel has had suspended, or that is done with, provisions and
\* serves again only on a newer generation: no late renewal, retry or restart
\* brings it back.
GenerationFence ==
  [][\A t \in Tunnel :
       /\ disk[t].st \in {"suspend_pending", "delete_pending"} \union TerminalState
       /\ disk'[t].st \in {"provisioning", "active"}
       => disk'[t].gen > disk[t].gen]_vars

\* No rebuild of the table takes the rules of an inbound that stays: not one by
\* a request or a cleanup, of whichever resource, and not the repair main makes
\* before it serves. Excepted is the repair Run repeats beside the handlers, which
\* writes a list it has read before, and a reboot of the host.
RebuildKeepsACL ==
  [][\A t \in inb \intersect inb' : t \in nft \ nft' =>
       (rpc = "write" /\ boot = "up") \/ boot' = "down"]_vars

lapsed(t) == t \in inb /\ effectiveNotAfter(mem[t]) = 0

\* The Agent's inbound is withdrawn (or its lease replaced) once the lease or the
\* hard deadline has run out, without the panel, through failures and restarts.
LeaseEnforced == \A t \in Tunnel : lapsed(t) ~> ~lapsed(t)

\* Cleanup, however often it fails, ends: no record stays pending.
PendingSettles ==
  \A t \in Tunnel : (mem[t].st \in PendingState) ~> (mem[t].st \notin PendingState)

---------------------------------------------------------------------------
(* The guard implements its contract, read off the state file and the Agent. *)

durablePhase(rec) ==
  CASE rec.st = "absent" -> "none"
    [] rec.st \in {"provisioning", "active", "expiry_pending"} -> "serving"
    [] rec.st = "suspend_pending" -> "closing"
    [] rec.st = "delete_pending" -> "dooming"
    [] rec.st \in {"suspended", "expired"} -> "parked"
    [] rec.st = "deleted" -> "gone"

Contract == INSTANCE TunnelContract
              WITH phase <- [t \in Tunnel |-> durablePhase(disk[t])],
                   gen <- [t \in Tunnel |-> disk[t].gen],
                   live <- inb

\* Every step of the guard, failing or not, is a step the contract allows.
ImplementsContract == Contract!Spec

=============================================================================
