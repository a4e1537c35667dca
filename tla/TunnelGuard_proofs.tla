------------------------ MODULE TunnelGuard_proofs ------------------------
(***************************************************************************)
(* Proofs about TunnelGuard, for every set of resources, every choice of   *)
(* ports and source CIDRs, and every bound.                                *)
(***************************************************************************)
EXTENDS TunnelGuard, TLAPS

---------------------------------------------------------------------------
(* Type correctness.                                                       *)

\* The empty slot of the table has the type of a record.
LEMMA NoResourceType == NoResource \in Resource
  BY DEF NoResource, Resource, TunnelState, TerminalState

\* The job of a free mutex has the type of a job.
LEMMA NoJobType == NoJob \in Job
  <1>1. (CHOOSE t \in Tunnel : TRUE) \in Tunnel
    BY TunnelAssumption
  <1> QED
    BY <1>1, NoResourceType DEF NoJob, Job, JobKind

\* A tick changes only the deadlines of a record.
LEMMA AgedType ==
  ASSUME NEW rec \in Resource
  PROVE  /\ Aged(rec) \in Resource
         /\ Aged(rec).st = rec.st /\ Aged(rec).gen = rec.gen /\ Aged(rec).term = rec.term
  <1>1. \A n \in Nat : Dec(n) \in Nat
    BY DEF Dec
  <1>2. rec.lease \in Nat /\ rec.hard \in Nat /\ rec.retry \in Nat
    BY DEF Resource
  <1>3. Dec(rec.lease) \in Nat /\ Dec(rec.hard) \in Nat /\ Dec(rec.retry) \in Nat
    BY <1>1, <1>2
  <1> HIDE DEF Dec
  <1> QED
    BY <1>3 DEF Aged, Resource

\* A durable store keeps the types of memory and file.
LEMMA CommitType ==
  ASSUME TypeOK, NEW t \in Tunnel, NEW rec \in Resource, Commit(t, rec)
  PROVE  mem' \in [Tunnel -> Resource] /\ disk' \in [Tunnel -> Resource]
  BY DEF TypeOK, Commit

\* A failing store, undone or not, keeps the types of memory and file.
LEMMA StoreUnsureType ==
  ASSUME TypeOK, NEW t \in Tunnel, NEW rec \in Resource, StoreUnsure(t, rec)
  PROVE  mem' \in [Tunnel -> Resource] /\ disk' \in [Tunnel -> Resource]
  BY CommitType DEF TypeOK, StoreUnsure

\* Taking the mutex with a well-typed record keeps every type.
LEMMA BeginType ==
  ASSUME TypeOK, NEW next \in Step, NEW kind \in JobKind, NEW t \in Tunnel,
         NEW rec \in Resource, Begin(next, kind, t, rec)
  PROVE  TypeOK'
  BY DEF TypeOK, Begin, sched, Job

\* A record on its way to cleanup is a record.
LEMMA PendingType ==
  ASSUME NEW rec \in Resource, NEW gen \in Nat, NEW pending \in PendingState,
         NEW terminal \in TerminalState
  PROVE  [rec EXCEPT !.gen = gen, !.st = pending, !.term = terminal, !.retry = 0] \in Resource
  BY DEF Resource, TunnelState, OpenState

\* No request breaks a type.
LEMMA RequestType ==
  ASSUME TypeOK, Request
  PROVE  TypeOK'
  <1> USE DEF Step, JobKind
  <1>1. ASSUME NEW t \in Tunnel, NEW lease \in 1..MaxLease, RenewTunnel(t, lease)
        PROVE  TypeOK'
    <2>1. [mem[t] EXCEPT !.lease = lease] \in Resource
      <3>1. mem[t] \in Resource /\ lease \in Nat
        BY TunnelAssumption DEF TypeOK
      <3> QED
        BY <3>1 DEF Resource
    <2> QED
      BY <1>1, <2>1, BeginType DEF RenewTunnel
  <1>2. ASSUME NEW t \in Tunnel, NEW gen \in 1..MaxGen, NEW lease \in 1..MaxLease,
               NEW hard \in 1..MaxHard, ApplyTunnel(t, gen, lease, hard)
        PROVE  TypeOK'
    <2>1. [st |-> "provisioning", gen |-> gen, term |-> "suspended",
           lease |-> lease, hard |-> hard, retry |-> 0] \in Resource
      BY TunnelAssumption DEF Resource, TunnelState, OpenState, TerminalState
    <2> QED
      BY <1>2, <2>1, BeginType DEF ApplyTunnel
  <1>3. ASSUME NEW t \in Tunnel, NEW gen \in 1..MaxGen, NEW kind \in {"suspend", "delete"},
               TransitionTunnelForCleanup(t, gen, kind)
        PROVE  TypeOK'
    <2> DEFINE terminal == IF kind = "suspend" THEN "suspended" ELSE "deleted"
               pending == IF kind = "suspend" THEN "suspend_pending" ELSE "delete_pending"
               rec == [mem[t] EXCEPT !.gen = gen, !.st = pending, !.term = terminal, !.retry = 0]
    <2>1. rec \in Resource
      <3>1. mem[t] \in Resource /\ gen \in Nat
        BY TunnelAssumption DEF TypeOK
      <3>2. pending \in PendingState /\ terminal \in TerminalState
        BY DEF PendingState, TerminalState
      <3> QED
        BY <3>1, <3>2, PendingType
    <2>2. Begin("cleanup", kind, t, rec)
      BY <1>3 DEF TransitionTunnelForCleanup
    <2> QED
      BY <2>1, <2>2, BeginType
  <1> QED
    BY <1>1, <1>2, <1>3 DEF Request

\* A record made active is a record.
LEMMA ActivatedType ==
  ASSUME NEW rec \in Resource
  PROVE  activated(rec) \in Resource
  BY DEF activated, Resource, TunnelState, OpenState

\* A record whose cleanup is finished is a record.
LEMMA FinishedType ==
  ASSUME NEW rec \in Resource
  PROVE  finished(rec) \in Resource
  BY DEF finished, Resource, TunnelState, TerminalState

\* A record that expires is a record.
LEMMA LapseType ==
  ASSUME NEW rec \in Resource
  PROVE  lapse(rec) \in Resource
  BY DEF lapse, Resource, TunnelState, OpenState, PendingState, TerminalState

\* A record with its retry set or cleared is a record.
LEMMA RetryType ==
  ASSUME NEW rec \in Resource
  PROVE  [rec EXCEPT !.retry = RetryDelay] \in Resource /\ [rec EXCEPT !.retry = 0] \in Resource
  BY TunnelAssumption DEF Resource

\* The table is rebuilt from known resources only.
LEMMA ACLType ==
  ASSUME NEW exclude
  PROVE  aclResources(exclude) \subseteq Tunnel
  BY DEF aclResources

\* No step of a job breaks a type.
LEMMA JobStepType ==
  ASSUME TypeOK, JobStep
  PROVE  TypeOK'
  <1>1. /\ job.tun \in Tunnel /\ job.rec \in Resource
        /\ activated(job.rec) \in Resource /\ finished(job.rec) \in Resource
        /\ [job.rec EXCEPT !.retry = RetryDelay] \in Resource
        /\ [job.rec EXCEPT !.retry = 0] \in Resource
    BY ActivatedType, FinishedType, RetryType DEF TypeOK, Job
  <1>2. mem' \in [Tunnel -> Resource] /\ disk' \in [Tunnel -> Resource]
    <2>1. \/ \E rec \in Resource : Commit(job.tun, rec) \/ StoreUnsure(job.tun, rec)
          \/ UNCHANGED <<mem, disk>>
      BY <1>1 DEF JobStep, StoreRenewal, StoreRenewalFails, StoreProvisioning,
           StoreProvisioningFails, RebuildTunnelACL, RebuildTunnelACLFails, AddInbound,
           AddInboundFails, StoreActive, StoreActiveFails, UndoAdd, StorePending,
           StorePendingFails, WithdrawInbound, WithdrawInboundFails, StoreTerminal,
           StoreTerminalFails
    <2> QED
      BY <2>1, <1>1, CommitType, StoreUnsureType DEF TypeOK
  <1>3. inb' \subseteq Tunnel /\ nft' \subseteq Tunnel
    BY <1>1, ACLType DEF TypeOK, JobStep, StoreRenewal, StoreRenewalFails, StoreProvisioning,
         StoreProvisioningFails, RebuildTunnelACL, RebuildTunnelACLFails, AddInbound,
         AddInboundFails, StoreActive, StoreActiveFails, UndoAdd, StorePending,
         StorePendingFails, WithdrawInbound, WithdrawInboundFails, StoreTerminal,
         StoreTerminalFails
  <1>4. pc' \in Step /\ job' \in Job
    BY NoJobType DEF TypeOK, Step, EndJob, StepTo, JobStep, StoreRenewal, StoreRenewalFails,
         StoreProvisioning,
         StoreProvisioningFails, RebuildTunnelACL, RebuildTunnelACLFails, AddInbound,
         AddInboundFails, StoreActive, StoreActiveFails, UndoAdd, StorePending,
         StorePendingFails, WithdrawInbound, WithdrawInboundFails, StoreTerminal,
         StoreTerminalFails
  <1>5. UNCHANGED <<boot, rpc, due, aclRead, timer, crashes>> /\ (wake' = TRUE \/ wake' = wake)
    BY DEF JobStep, sched, notify, notifyHandler, StoreRenewal, StoreRenewalFails,
         StoreProvisioning,
         StoreProvisioningFails, RebuildTunnelACL, RebuildTunnelACLFails, AddInbound,
         AddInboundFails, StoreActive, StoreActiveFails, UndoAdd, StorePending,
         StorePendingFails, WithdrawInbound, WithdrawInboundFails, StoreTerminal,
         StoreTerminalFails
  <1>6. wake' \in BOOLEAN
    BY <1>5 DEF TypeOK
  <1> QED
    BY <1>2, <1>3, <1>4, <1>5, <1>6 DEF TypeOK

\* Failing closed at start-up breaks no type.
LEMMA FailClosedType ==
  ASSUME TypeOK, FailClosedTunnelACL
  PROVE  TypeOK'
  <1> DEFINE hit == {t \in Restricted : mem[t].st \in {"active", "provisioning"}}
             closed(t) == [mem[t] EXCEPT !.st = "expiry_pending", !.term = "suspended", !.retry = 0]
  <1>1. ASSUME NEW t \in Tunnel
        PROVE  closed(t) \in Resource
    <2>1. mem[t] \in Resource
      BY DEF TypeOK
    <2>2. "expiry_pending" \in TunnelState /\ "suspended" \in TerminalState
      BY DEF TunnelState, OpenState, PendingState, TerminalState
    <2> QED
      BY <2>1, <2>2 DEF Resource
  <1>2. mem' = [t \in Tunnel |-> IF t \in hit THEN closed(t) ELSE mem[t]]
    BY DEF FailClosedTunnelACL
  <1>3. mem' \in [Tunnel -> Resource]
    BY <1>1, <1>2 DEF TypeOK
  <1>4. disk' \in [Tunnel -> Resource]
    BY <1>3 DEF FailClosedTunnelACL, TypeOK
  <1>5. /\ wake' \in BOOLEAN /\ aclRead' = {} /\ rpc' = "scan"
        /\ UNCHANGED <<inb, nft, ops, boot, due, timer, crashes>>
    BY DEF FailClosedTunnelACL
  <1> QED
    BY <1>3, <1>4, <1>5 DEF TypeOK, ops

\* No step of start-up or scheduler breaks a type.
LEMMA RunStepType ==
  ASSUME TypeOK, RunStep
  PROVE  TypeOK'
  <1>1. CASE ReadACLResources
    BY <1>1, ACLType DEF ReadACLResources, TypeOK, ops
  <1>2. CASE PrepareTunnelACL
    BY <1>2 DEF PrepareTunnelACL, TypeOK, ops
  <1>3. CASE SkipTunnelACL
    BY <1>3 DEF SkipTunnelACL, TypeOK, ops
  <1>4. CASE FailClosedTunnelACL
    BY <1>4, FailClosedType
  <1>5. CASE Scan
    <2>1. ASSUME NEW t \in dueTunnels
          PROVE  [tun |-> t, st |-> mem[t].st, gen |-> mem[t].gen] \in DueEntry
      BY DEF dueTunnels, TypeOK, DueEntry, Resource
    <2>2. due' \subseteq DueEntry
      BY <1>5, <2>1 DEF Scan
    <2> QED
      BY <1>5, <2>2 DEF Scan, TypeOK, ops
  <1>6. CASE SkipDue
    BY <1>6 DEF SkipDue, TypeOK, ops
  <1>7. CASE ExpireOrCleanupTunnel
    <2>1. PICK e \in due :
            /\ due' = due \ {e}
            /\ pc' \in {"cleanup", "withdraw"}
            /\ job' \in {[kind |-> "expire", tun |-> e.tun, rec |-> rec] :
                           rec \in {lapse(mem[e.tun]), mem[e.tun]}}
      BY <1>7 DEF ExpireOrCleanupTunnel
    <2>2. e.tun \in Tunnel /\ mem[e.tun] \in Resource
      BY DEF TypeOK, DueEntry
    <2>3. lapse(mem[e.tun]) \in Resource
      BY <2>2, LapseType
    <2>4. job' \in Job
      BY <2>1, <2>2, <2>3 DEF Job, JobKind
    <2>5. UNCHANGED <<mem, disk, inb, nft, boot, rpc, aclRead, timer, wake, crashes>>
      BY <1>7 DEF ExpireOrCleanupTunnel
    <2>6. pc' \in Step
      BY <2>1 DEF Step
    <2>7. due' \subseteq DueEntry
      BY <2>1 DEF TypeOK
    <2> QED
      BY <2>4, <2>5, <2>6, <2>7 DEF TypeOK
  <1>8. CASE WorkDone
    BY <1>8 DEF WorkDone, TypeOK, ops
  <1>9. CASE Sleep
    <2>1. ASSUME NEW t \in Tunnel
          PROVE  attemptIn(mem[t]) \in Nat
      BY DEF TypeOK, Resource, attemptIn, effectiveNotAfter
    <2>2. timer' \in Nat
      BY <1>9, <2>1, TunnelAssumption DEF Sleep
    <2> QED
      BY <1>9, <2>2 DEF Sleep, TypeOK, ops
  <1>10. CASE Wake
    BY <1>10 DEF Wake, TypeOK, ops
  <1> QED
    BY <1>1, <1>2, <1>3, <1>4, <1>5, <1>6, <1>7, <1>8, <1>9, <1>10 DEF RunStep

\* Neither the clock nor a crash breaks a type.
LEMMA EnvironmentType ==
  ASSUME TypeOK, Tick \/ Crash \/ Start
  PROVE  TypeOK'
  <1>1. CASE Tick
    <2>1. mem' \in [Tunnel -> Resource] /\ disk' \in [Tunnel -> Resource]
      BY <1>1, AgedType DEF Tick, TypeOK
    <2>2. job' \in Job
      BY <1>1, AgedType DEF Tick, TypeOK, Job
    <2>3. timer' \in Nat
      BY <1>1 DEF Tick, TypeOK, Dec
    <2> QED
      BY <1>1, <2>1, <2>2, <2>3 DEF Tick, TypeOK
  <1>2. CASE Crash
    <2>1. inb' \subseteq Tunnel /\ nft' \subseteq Tunnel
      BY <1>2 DEF Crash, AgentOutcome, TypeOK, Job
    <2>2. crashes' \in 0..MaxCrash
      BY <1>2, TunnelAssumption DEF Crash, TypeOK
    <2>3. pc' \in Step /\ job' \in Job
      BY <1>2, NoJobType DEF Crash, EndJob, Step
    <2> QED
      BY <1>2, <2>1, <2>2, <2>3 DEF Crash, TypeOK
  <1>3. CASE Start
    BY <1>3 DEF Start, TypeOK, ops
  <1> QED
    BY <1>1, <1>2, <1>3

\* The initial state has its types.
LEMMA InitType ==
  ASSUME Init
  PROVE  TypeOK
  <1>1. mem \in [Tunnel -> Resource] /\ disk \in [Tunnel -> Resource]
    BY NoResourceType DEF Init
  <1>2. crashes \in 0..MaxCrash
    BY TunnelAssumption DEF Init
  <1> QED
    BY <1>1, <1>2, NoJobType DEF Init, TypeOK, Step

\* No step breaks a type.
LEMMA NextType ==
  ASSUME TypeOK, Next
  PROVE  TypeOK'
  BY RequestType, JobStepType, RunStepType, EnvironmentType DEF Next

\* Every variable keeps its type.
THEOREM TypeCorrect == Spec => []TypeOK
  <1>1. Init => TypeOK
    BY InitType
  <1>2. TypeOK /\ [Next]_vars => TypeOK'
    BY NextType DEF vars, ops, sched, TypeOK
  <1> QED
    BY <1>1, <1>2, PTL DEF Spec

---------------------------------------------------------------------------
(* The inductive invariant.                                                *)

ServingState == {"provisioning", "active", "expiry_pending"}

\* A record that is to end in some state says in which.
GoodRecord(rec) ==
  /\ rec.gen <= MaxGen
  /\ rec.st # "absent" => rec.gen > 0
  /\ rec.st = "provisioning" => rec.term = "suspended"
  /\ rec.st = "expiry_pending" => rec.term \in {"suspended", "expired"}
  /\ rec.st = "suspend_pending" => rec.term = "suspended"
  /\ rec.st = "delete_pending" => rec.term = "deleted"

\* The file lags behind memory only when failClosedTunnelACL did not persist.
Behind(file, rec) ==
  \/ file = rec
  \/ /\ rec.st = "expiry_pending"
     /\ file.st \in ServingState
     /\ file.gen = rec.gen

RecordsOK ==
  \A t \in Tunnel : GoodRecord(mem[t]) /\ GoodRecord(disk[t]) /\ Behind(disk[t], mem[t])

\* The job's copy may take the place of the record in memory.
SamePhase(rec, cur) ==
  /\ rec.gen = cur.gen
  /\ \/ rec.st \in ServingState /\ cur.st \in ServingState
     \/ rec.st = cur.st

PortTaken == \A u \in inb : Port[u] = Port[job.tun] => u = job.tun

JobOK ==
  LET rec == job.rec
      cur == mem[job.tun]
  IN
  /\ pc # "idle" => GoodRecord(rec) /\ rec.st # "absent"
  /\ pc = "renew" => rec.st = "active" /\ SamePhase(rec, cur)
  /\ pc = "store" => /\ rec.st = "provisioning" /\ rec.gen > cur.gen
                     /\ cur.st \notin {"delete_pending", "deleted"}
  /\ pc \in {"acl", "add", "activate", "undo"} => rec.st = "provisioning" /\ SamePhase(rec, cur)
  /\ pc \in {"store", "acl", "add"} => PortTaken
  /\ pc = "cleanup" =>
       /\ rec.st \in PendingState /\ rec.gen >= cur.gen /\ cur.st # "absent"
       /\ rec.st = "expiry_pending" => SamePhase(rec, cur)
       /\ rec.st = "suspend_pending" => cur.st \notin {"delete_pending", "deleted"}
       /\ cur.st = "deleted" => rec.gen > cur.gen
  /\ pc \in {"withdraw", "terminal"} =>
       rec.st \in PendingState \union {"provisioning"} /\ SamePhase(rec, cur)
  /\ pc = "terminal" => job.tun \notin inb

LiveOK == \A t \in inb : mem[t].st \in OpenState

ACLOK == nft \subseteq Restricted /\ aclRead \subseteq Restricted

IInv == TypeOK /\ RecordsOK /\ JobOK /\ LiveOK /\ PortExclusive /\ ACLOK

---------------------------------------------------------------------------
(* Lemmas on stores and on the ends of jobs.                               *)

\* A failing store of a good record leaves good records, and memory with it or without.
LEMMA StoreRecords ==
  ASSUME TypeOK, RecordsOK, NEW t \in Tunnel, NEW rec \in Resource, GoodRecord(rec),
         StoreUnsure(t, rec)
  PROVE  RecordsOK' /\ (mem' = mem \/ mem' = [mem EXCEPT ![t] = rec])
  <1>1. CASE UNCHANGED <<mem, disk>>
    BY <1>1 DEF RecordsOK
  <1>2. CASE Commit(t, rec)
    <2>1. mem' = [mem EXCEPT ![t] = rec] /\ disk' = mem'
      BY <1>2 DEF Commit
    <2>2. \A u \in Tunnel : GoodRecord(mem'[u])
      BY <2>1 DEF RecordsOK, TypeOK
    <2> QED
      BY <2>1, <2>2 DEF RecordsOK, Behind
  <1> QED
    BY <1>1, <1>2 DEF StoreUnsure

\* A durable store of a good record leaves good records.
LEMMA CommitRecords ==
  ASSUME TypeOK, RecordsOK, NEW t \in Tunnel, NEW rec \in Resource, GoodRecord(rec),
         Commit(t, rec)
  PROVE  RecordsOK' /\ mem' = [mem EXCEPT ![t] = rec]
  BY StoreRecords DEF StoreUnsure, Commit

\* A free mutex carries no obligation about its job.
LEMMA IdleJob ==
  ASSUME pc' = "idle"
  PROVE  JobOK'
  BY DEF JobOK

\* A store that leaves no live resource without an open record.
LEMMA StoreLive ==
  ASSUME TypeOK, LiveOK, NEW t \in Tunnel, NEW rec \in Resource,
         mem' = mem \/ mem' = [mem EXCEPT ![t] = rec],
         rec.st \in OpenState \/ t \notin inb',
         inb' \subseteq inb \/ (inb' \subseteq inb \union {t} /\ mem[t].st \in OpenState)
  PROVE  LiveOK'
  BY DEF LiveOK, TypeOK

\* Withdrawing inbounds creates no port conflict.
LEMMA SmallerLive ==
  ASSUME PortExclusive, inb' \subseteq inb
  PROVE  PortExclusive'
  BY DEF PortExclusive

\* Adding the inbound of a job whose port is free creates none either.
LEMMA AddPort ==
  ASSUME PortExclusive, PortTaken, inb' \subseteq inb \union {job.tun}
  PROVE  PortExclusive'
  BY DEF PortExclusive, PortTaken

\* The table is rebuilt only from resources with CIDRs.
LEMMA ACLRestricted ==
  ASSUME NEW exclude
  PROVE  aclResources(exclude) \subseteq Restricted
  BY DEF aclResources, needsACL

\* What the job carries, by its kind of step.
LEMMA JobRecord ==
  ASSUME TypeOK, JobOK, pc # "idle"
  PROVE  /\ job.tun \in Tunnel /\ job.rec \in Resource
         /\ GoodRecord(job.rec) /\ job.rec.st # "absent"
         /\ mem[job.tun] \in Resource /\ disk[job.tun] \in Resource
  BY DEF TypeOK, JobOK, Job

\* A job that ends with a store, of whatever outcome.
LEMMA EndWithStore ==
  ASSUME IInv, TypeOK', ACLOK', pc # "idle", EndJob,
         NEW rec \in Resource, GoodRecord(rec), StoreUnsure(job.tun, rec),
         rec.st \in OpenState \/ job.tun \notin inb',
         \/ inb' \subseteq inb
         \/ inb' \subseteq inb \union {job.tun} /\ mem[job.tun].st \in OpenState /\ PortTaken
  PROVE  IInv'
  <1>1. job.tun \in Tunnel
    BY JobRecord DEF IInv
  <1>2. RecordsOK' /\ (mem' = mem \/ mem' = [mem EXCEPT ![job.tun] = rec])
    BY <1>1, StoreRecords DEF IInv
  <1>3. JobOK'
    BY IdleJob DEF EndJob
  <1>4. LiveOK'
    BY <1>1, <1>2, StoreLive DEF IInv
  <1>5. PortExclusive'
    BY SmallerLive, AddPort DEF IInv
  <1> QED
    BY <1>2, <1>3, <1>4, <1>5 DEF IInv

\* What is served or on its way down is open, and so is what takes its place.
LEMMA PhaseOpen ==
  ASSUME NEW rec, NEW cur, SamePhase(rec, cur),
         rec.st \in PendingState \union {"provisioning", "active"}
  PROVE  rec.st \in OpenState /\ cur.st \in OpenState
  BY DEF SamePhase, ServingState, PendingState, OpenState

\* What a job makes of a good record is good, and of the generation it had.
LEMMA GoodRecords ==
  ASSUME NEW rec \in Resource, GoodRecord(rec), rec.st # "absent"
  PROVE  /\ GoodRecord(activated(rec)) /\ activated(rec).st = "active"
         /\ activated(rec).gen = rec.gen
         /\ \A n \in Nat : GoodRecord([rec EXCEPT !.retry = n])
         /\ \A n \in Nat : [rec EXCEPT !.retry = n].st = rec.st
         /\ rec.st \in PendingState \union {"provisioning"} => GoodRecord(finished(rec))
  <1>1. GoodRecord(activated(rec)) /\ activated(rec).st = "active" /\ activated(rec).gen = rec.gen
    BY DEF GoodRecord, activated, Resource
  <1>2. ASSUME NEW n \in Nat
        PROVE  GoodRecord([rec EXCEPT !.retry = n]) /\ [rec EXCEPT !.retry = n].st = rec.st
    BY DEF GoodRecord, Resource
  <1>3. ASSUME rec.st \in PendingState \union {"provisioning"}
        PROVE  GoodRecord(finished(rec))
    BY <1>3 DEF GoodRecord, finished, Resource, PendingState
  <1> QED
    BY <1>1, <1>2, <1>3

\* A job that goes on without a store: only the Agent and the ACL may change.
LEMMA StepToInv ==
  ASSUME IInv, TypeOK', ACLOK', JobOK', UNCHANGED <<mem, disk, job>>,
         \/ inb' \subseteq inb
         \/ inb' \subseteq inb \union {job.tun} /\ mem[job.tun].st \in OpenState /\ PortTaken
  PROVE  IInv'
  <1>1. RecordsOK'
    BY DEF IInv, RecordsOK
  <1>2. LiveOK'
    BY DEF IInv, LiveOK
  <1>3. PortExclusive'
    BY SmallerLive, AddPort DEF IInv
  <1> QED
    BY <1>1, <1>2, <1>3 DEF IInv

\* The steps of an apply keep the invariant.
LEMMA ApplyStepInv ==
  ASSUME IInv, TypeOK',
         \/ StoreRenewal \/ StoreRenewalFails \/ StoreProvisioning \/ StoreProvisioningFails
         \/ RebuildTunnelACL \/ RebuildTunnelACLFails \/ AddInbound \/ AddInboundFails
         \/ StoreActive \/ StoreActiveFails \/ UndoAdd
  PROVE  IInv'
  <1> DEFINE rec == job.rec
             cur == mem[job.tun]
  <1> SUFFICES ASSUME pc # "idle"
               PROVE  IInv'
    BY DEF StoreRenewal, StoreRenewalFails, StoreProvisioning, StoreProvisioningFails,
         RebuildTunnelACL, RebuildTunnelACLFails, AddInbound, AddInboundFails, StoreActive,
         StoreActiveFails, UndoAdd
  <1>1. /\ job.tun \in Tunnel /\ rec \in Resource /\ cur \in Resource
        /\ GoodRecord(rec) /\ rec.st # "absent"
    BY JobRecord DEF IInv
  <1>2. ACLOK'
    BY ACLRestricted DEF IInv, ACLOK, sched, notify, StoreRenewal, StoreRenewalFails,
         StoreProvisioning, StoreProvisioningFails, RebuildTunnelACL, RebuildTunnelACLFails,
         AddInbound, AddInboundFails, StoreActive, StoreActiveFails, UndoAdd
  <1>3. CASE StoreRenewal \/ StoreRenewalFails
    <2>1. rec.st \in OpenState
      BY <1>3 DEF IInv, JobOK, StoreRenewal, StoreRenewalFails, OpenState
    <2> QED
      BY <1>1, <1>2, <1>3, <2>1, EndWithStore DEF StoreRenewal, StoreRenewalFails, StoreUnsure
  <1>4. CASE StoreProvisioning
    <2>1. rec.st = "provisioning" /\ PortTaken /\ pc' \in {"acl", "add"}
          /\ UNCHANGED <<job, inb>> /\ Commit(job.tun, rec)
      BY <1>4 DEF IInv, JobOK, StoreProvisioning, StepTo
    <2>2. RecordsOK' /\ mem' = [mem EXCEPT ![job.tun] = rec]
      BY <1>1, <2>1, CommitRecords DEF IInv
    <2>3. mem'[job.tun] = rec
      BY <1>1, <2>2 DEF IInv, TypeOK
    <2>4. JobOK'
      BY <1>1, <2>1, <2>3 DEF JobOK, SamePhase, ServingState, PortTaken
    <2>5. LiveOK'
      BY <1>1, <2>1, <2>2, StoreLive DEF IInv, OpenState
    <2> QED
      BY <1>2, <2>1, <2>2, <2>4, <2>5, SmallerLive DEF IInv
  <1>5. CASE StoreProvisioningFails
    <2>1. rec.st \in OpenState
      BY <1>5 DEF IInv, JobOK, StoreProvisioningFails, OpenState
    <2> QED
      BY <1>1, <1>2, <1>5, <2>1, EndWithStore DEF StoreProvisioningFails
  <1>6. CASE RebuildTunnelACL
    <2>1. JobOK'
      BY <1>6 DEF IInv, JobOK, RebuildTunnelACL, StepTo, PortTaken
    <2> QED
      BY <1>2, <1>6, <2>1, StepToInv DEF RebuildTunnelACL, StepTo
  <1>7. CASE RebuildTunnelACLFails
    <2>1. rec.st \in OpenState
      BY <1>7 DEF IInv, JobOK, RebuildTunnelACLFails, OpenState
    <2> QED
      BY <1>1, <1>2, <1>7, <2>1, EndWithStore DEF RebuildTunnelACLFails
  <1>8. CASE AddInbound
    <2>1. cur.st \in OpenState /\ PortTaken
      BY <1>8, PhaseOpen DEF IInv, JobOK, AddInbound
    <2>2. JobOK'
      BY <1>8 DEF IInv, JobOK, AddInbound, StepTo
    <2> QED
      BY <1>2, <1>8, <2>1, <2>2, StepToInv DEF AddInbound, StepTo
  <1>9. CASE AddInboundFails
    <2>1. rec.st \in OpenState /\ cur.st \in OpenState /\ PortTaken
      BY <1>9, PhaseOpen DEF IInv, JobOK, AddInboundFails
    <2> QED
      BY <1>1, <1>2, <1>9, <2>1, EndWithStore DEF AddInboundFails
  <1>10. CASE StoreActive
    <2>1. activated(rec) \in Resource /\ GoodRecord(activated(rec))
          /\ activated(rec).st \in OpenState
      BY <1>1, ActivatedType, GoodRecords DEF OpenState
    <2> QED
      BY <1>1, <1>2, <1>10, <2>1, EndWithStore DEF StoreActive, StoreUnsure
  <1>11. CASE StoreActiveFails
    <2>1. activated(rec) \in Resource /\ GoodRecord(activated(rec))
          /\ activated(rec).st = "active" /\ activated(rec).gen = rec.gen
      BY <1>1, ActivatedType, GoodRecords
    <2>2. rec.st = "provisioning" /\ SamePhase(rec, cur)
          /\ StoreUnsure(job.tun, activated(rec)) /\ pc' = "undo" /\ UNCHANGED <<job, inb>>
      BY <1>11 DEF IInv, JobOK, StoreActiveFails, StepTo
    <2>3. RecordsOK' /\ (mem' = mem \/ mem' = [mem EXCEPT ![job.tun] = activated(rec)])
      BY <1>1, <2>1, <2>2, StoreRecords DEF IInv
    <2>4. mem'[job.tun] \in {cur, activated(rec)}
      BY <1>1, <2>3 DEF IInv, TypeOK
    <2>5. JobOK'
      BY <1>1, <2>1, <2>2, <2>4 DEF JobOK, SamePhase, ServingState
    <2>6. LiveOK'
      BY <1>1, <2>1, <2>2, <2>3, StoreLive DEF IInv, OpenState
    <2> QED
      BY <1>2, <2>2, <2>3, <2>5, <2>6, SmallerLive DEF IInv
  <1>12. CASE UndoAdd
    <2>1. rec.st = "provisioning"
      BY <1>12 DEF IInv, JobOK, UndoAdd
    <2>2. [rec EXCEPT !.retry = 0] \in Resource /\ GoodRecord([rec EXCEPT !.retry = 0])
          /\ [rec EXCEPT !.retry = 0].st \in OpenState
      BY <1>1, <2>1, RetryType, GoodRecords DEF OpenState
    <2> QED
      BY <1>1, <1>2, <1>12, <2>2, EndWithStore DEF UndoAdd
  <1> QED
    BY <1>3, <1>4, <1>5, <1>6, <1>7, <1>8, <1>9, <1>10, <1>11, <1>12

\* The steps of a cleanup keep it.
LEMMA CleanupStepInv ==
  ASSUME IInv, TypeOK',
         \/ StorePending \/ StorePendingFails \/ WithdrawInbound \/ WithdrawInboundFails
         \/ StoreTerminal \/ StoreTerminalFails
  PROVE  IInv'
  <1> DEFINE rec == job.rec
             cur == mem[job.tun]
  <1> SUFFICES ASSUME pc # "idle"
               PROVE  IInv'
    BY DEF StorePending, StorePendingFails, WithdrawInbound, WithdrawInboundFails,
         StoreTerminal, StoreTerminalFails
  <1>1. /\ job.tun \in Tunnel /\ rec \in Resource /\ cur \in Resource
        /\ GoodRecord(rec) /\ rec.st # "absent"
    BY JobRecord DEF IInv
  <1>2. ACLOK'
    BY ACLRestricted DEF IInv, ACLOK, sched, notify, notifyHandler, StorePending,
         StorePendingFails, WithdrawInbound, WithdrawInboundFails, StoreTerminal,
         StoreTerminalFails
  <1>3. CASE StorePending
    <2>1. rec.st \in PendingState /\ pc' = "withdraw" /\ UNCHANGED <<job, inb>>
          /\ Commit(job.tun, rec)
      BY <1>3 DEF IInv, JobOK, StorePending, StepTo
    <2>2. RecordsOK' /\ mem' = [mem EXCEPT ![job.tun] = rec]
      BY <1>1, <2>1, CommitRecords DEF IInv
    <2>3. mem'[job.tun] = rec
      BY <1>1, <2>2 DEF IInv, TypeOK
    <2>4. JobOK'
      BY <1>1, <2>1, <2>3 DEF JobOK, SamePhase
    <2>5. LiveOK'
      BY <1>1, <2>1, <2>2, StoreLive DEF IInv, OpenState
    <2> QED
      BY <1>2, <2>1, <2>2, <2>4, <2>5, SmallerLive DEF IInv
  <1>4. CASE StorePendingFails
    <2>1. rec.st \in OpenState
      BY <1>4 DEF IInv, JobOK, StorePendingFails, OpenState
    <2> QED
      BY <1>1, <1>2, <1>4, <2>1, EndWithStore DEF StorePendingFails
  <1>5. CASE WithdrawInbound
    <2>1. JobOK'
      BY <1>5 DEF IInv, JobOK, WithdrawInbound, StepTo
    <2> QED
      BY <1>2, <1>5, <2>1, StepToInv DEF WithdrawInbound, StepTo
  <1>6. CASE WithdrawInboundFails
    <2>1. rec.st \in OpenState
      BY <1>6, PhaseOpen DEF IInv, JobOK, WithdrawInboundFails
    <2>2. [rec EXCEPT !.retry = RetryDelay] \in Resource
          /\ GoodRecord([rec EXCEPT !.retry = RetryDelay])
          /\ [rec EXCEPT !.retry = RetryDelay].st \in OpenState
      BY <1>1, <2>1, RetryType, GoodRecords, TunnelAssumption
    <2> QED
      BY <1>1, <1>2, <1>6, <2>2, EndWithStore DEF WithdrawInboundFails
  <1>7. CASE StoreTerminal \/ StoreTerminalFails
    <2>1. rec.st \in PendingState \union {"provisioning"} /\ job.tun \notin inb'
          /\ inb' = inb /\ EndJob /\ StoreUnsure(job.tun, finished(rec))
      BY <1>7 DEF IInv, JobOK, StoreTerminal, StoreTerminalFails, StoreUnsure
    <2>2. finished(rec) \in Resource /\ GoodRecord(finished(rec))
      BY <1>1, <2>1, FinishedType, GoodRecords
    <2> QED
      BY <1>1, <1>2, <2>1, <2>2, EndWithStore
  <1> QED
    BY <1>3, <1>4, <1>5, <1>6, <1>7

---------------------------------------------------------------------------
(* Requests, the scheduler, time and faults.                               *)

\* Taking the mutex keeps it, if the new job is in order.
LEMMA BeginInv ==
  ASSUME IInv, TypeOK', NEW next, NEW kind, NEW t, NEW rec, Begin(next, kind, t, rec),
         JobOK'
  PROVE  IInv'
  BY DEF IInv, Begin, sched, RecordsOK, LiveOK, PortExclusive, ACLOK

\* Requests keep it.
LEMMA RequestInv ==
  ASSUME IInv, TypeOK', Request
  PROVE  IInv'
  <1>1. ASSUME NEW t \in Tunnel, NEW lease \in 1..MaxLease, RenewTunnel(t, lease)
        PROVE  IInv'
    <2> DEFINE rec == [mem[t] EXCEPT !.lease = lease]
    <2>1. mem[t] \in Resource /\ GoodRecord(mem[t]) /\ mem[t].st = "active"
          /\ Begin("renew", "apply", t, rec)
      BY <1>1 DEF IInv, TypeOK, RecordsOK, RenewTunnel
    <2>2. rec.st = mem[t].st /\ rec.gen = mem[t].gen /\ rec.term = mem[t].term
      BY <2>1 DEF Resource
    <2>3. GoodRecord(rec) /\ SamePhase(rec, mem[t])
      BY <2>1, <2>2 DEF GoodRecord, SamePhase
    <2>4. pc' = "renew" /\ job'.rec = rec /\ job'.tun = t /\ mem' = mem
      BY <2>1 DEF Begin
    <2> HIDE DEF rec
    <2>5. JobOK'
      BY <2>1, <2>2, <2>3, <2>4 DEF JobOK
    <2> QED
      BY <2>1, <2>5, BeginInv
  <1>2. ASSUME NEW t \in Tunnel, NEW gen \in 1..MaxGen, NEW lease \in 1..MaxLease,
               NEW hard \in 1..MaxHard, ApplyTunnel(t, gen, lease, hard)
        PROVE  IInv'
    <2> DEFINE rec == [st |-> "provisioning", gen |-> gen, term |-> "suspended",
                       lease |-> lease, hard |-> hard, retry |-> 0]
    <2>1. Begin("store", "apply", t, rec) /\ gen > mem[t].gen /\ PortFree(t)
          /\ mem[t].st \notin {"deleted", "delete_pending"}
      BY <1>2 DEF ApplyTunnel
    <2>2. GoodRecord(rec)
      BY TunnelAssumption DEF GoodRecord
    <2>3. pc' = "store" /\ job'.rec = rec /\ job'.tun = t /\ mem' = mem /\ inb' = inb
      BY <2>1 DEF Begin
    <2>4. PortTaken'
      BY <2>1, <2>3 DEF PortFree, PortTaken, IInv, TypeOK
    <2>5. JobOK'
      BY <2>1, <2>2, <2>3, <2>4 DEF JobOK
    <2> QED
      BY <2>1, <2>5, BeginInv
  <1>3. ASSUME NEW t \in Tunnel, NEW gen \in 1..MaxGen, NEW kind \in {"suspend", "delete"},
               TransitionTunnelForCleanup(t, gen, kind)
        PROVE  IInv'
    <2> DEFINE terminal == IF kind = "suspend" THEN "suspended" ELSE "deleted"
               pending == IF kind = "suspend" THEN "suspend_pending" ELSE "delete_pending"
               rec == [mem[t] EXCEPT !.gen = gen, !.st = pending, !.term = terminal, !.retry = 0]
    <2>1. /\ Begin("cleanup", kind, t, rec) /\ mem[t].st # "absent" /\ gen >= mem[t].gen
          /\ kind = "suspend" => mem[t].st \notin {"deleted", "delete_pending"}
          /\ gen = mem[t].gen => mem[t].st # terminal
      BY <1>3 DEF TransitionTunnelForCleanup
    <2>2. mem[t] \in Resource
      BY DEF IInv, TypeOK
    <2>3. rec.st = pending /\ rec.gen = gen /\ rec.term = terminal
      BY <2>2 DEF Resource
    <2>4. GoodRecord(rec)
      BY <2>3, TunnelAssumption DEF GoodRecord
    <2>5. pc' = "cleanup" /\ job'.rec = rec /\ job'.tun = t /\ mem' = mem
      BY <2>1 DEF Begin
    <2>6. CASE kind = "suspend"
      <3>1. rec.st = "suspend_pending" /\ mem[t].st \notin {"deleted", "delete_pending"}
        BY <2>1, <2>3, <2>6
      <3> HIDE DEF rec, pending, terminal
      <3>2. JobOK'
        BY <2>1, <2>3, <2>4, <2>5, <3>1 DEF JobOK, PendingState
      <3> QED
        BY <2>1, <3>2, BeginInv
    <2>7. CASE kind = "delete"
      <3>1. rec.st = "delete_pending" /\ (mem[t].st = "deleted" => gen > mem[t].gen)
        <4>1. pending = "delete_pending" /\ terminal = "deleted"
          BY <2>7
        <4>2. mem[t].st = "deleted" => gen > mem[t].gen
          <5>1. mem[t].gen \in Nat /\ gen \in Nat
            <6>1. mem[t].gen \in Nat
              BY <2>2 DEF Resource
            <6>2. gen \in Nat
              BY TunnelAssumption
            <6> QED
              BY <6>1, <6>2
          <5>2. mem[t].st = "deleted" => gen # mem[t].gen
            BY <2>1, <4>1
          <5> QED
            BY <2>1, <5>1, <5>2
        <4> QED
          BY <2>3, <4>1, <4>2
      <3> HIDE DEF rec, pending, terminal
      <3>2. JobOK'
        BY <2>1, <2>3, <2>4, <2>5, <3>1 DEF JobOK, PendingState
      <3> QED
        BY <2>1, <3>2, BeginInv
    <2> QED
      BY <2>6, <2>7
  <1> QED
    BY <1>1, <1>2, <1>3 DEF Request

\* Failing closed keeps it.
LEMMA FailClosedInv ==
  ASSUME IInv, TypeOK', FailClosedTunnelACL
  PROVE  IInv'
  <1> DEFINE hit == {t \in Restricted : mem[t].st \in {"active", "provisioning"}}
             closed(t) == [mem[t] EXCEPT !.st = "expiry_pending", !.term = "suspended", !.retry = 0]
  <1>1. mem' = [t \in Tunnel |-> IF t \in hit THEN closed(t) ELSE mem[t]]
        /\ (disk' = mem' \/ disk' = disk) /\ aclRead' = {} /\ UNCHANGED <<inb, nft, pc, job>>
    BY DEF FailClosedTunnelACL, ops
  <1>2. ASSUME NEW t \in Tunnel
        PROVE  /\ GoodRecord(mem'[t]) /\ mem'[t].gen = mem[t].gen
               /\ \/ mem'[t] = mem[t]
                  \/ mem[t].st \in {"active", "provisioning"} /\ mem'[t].st = "expiry_pending"
    <2>1. mem[t] \in Resource /\ GoodRecord(mem[t])
      BY DEF IInv, TypeOK, RecordsOK
    <2>2. CASE t \in hit
      <3>1. mem'[t] = closed(t) /\ mem[t].st \in {"active", "provisioning"}
        BY <1>1, <2>2
      <3>2. closed(t).st = "expiry_pending" /\ closed(t).term = "suspended"
            /\ closed(t).gen = mem[t].gen
        BY <2>1 DEF Resource
      <3>3. GoodRecord(closed(t))
        BY <2>1, <3>1, <3>2 DEF GoodRecord
      <3> QED
        BY <3>1, <3>2, <3>3
    <2>3. CASE t \notin hit
      BY <1>1, <2>1, <2>3
    <2> QED
      BY <2>2, <2>3
  <1>3. ASSUME NEW t \in Tunnel
        PROVE  GoodRecord(disk'[t]) /\ Behind(disk'[t], mem'[t])
    <2>1. GoodRecord(mem[t]) /\ GoodRecord(disk[t]) /\ Behind(disk[t], mem[t])
      BY DEF IInv, RecordsOK
    <2>2. CASE disk' = mem'
      BY <1>2, <2>2 DEF Behind
    <2>3. CASE disk' = disk
      <3>1. CASE mem'[t] = mem[t]
        BY <2>1, <2>3, <3>1
      <3>2. CASE mem[t].st \in {"active", "provisioning"} /\ mem'[t].st = "expiry_pending"
        <4>1. disk[t] = mem[t]
          BY <2>1, <3>2 DEF Behind
        <4>2. mem'[t].gen = mem[t].gen
          BY <1>2
        <4> QED
          BY <2>1, <2>3, <3>2, <4>1, <4>2 DEF Behind, ServingState
      <3> QED
        BY <1>2, <3>1, <3>2
    <2> QED
      BY <1>1, <2>2, <2>3
  <1>4. LiveOK'
    BY <1>1, <1>2 DEF IInv, TypeOK, LiveOK, OpenState, PendingState
  <1>5. JobOK'
    <2> SUFFICES ASSUME pc # "idle"
                 PROVE  JobOK'
      BY <1>1, IdleJob
    <2>1. job.tun \in Tunnel
      BY JobRecord DEF IInv
    <2>2. mem'[job.tun].gen = mem[job.tun].gen
          /\ (\/ mem'[job.tun] = mem[job.tun]
              \/ /\ mem[job.tun].st \in {"active", "provisioning"}
                 /\ mem'[job.tun].st = "expiry_pending")
      BY <1>2, <2>1
    <2>3. ASSUME NEW rec, SamePhase(rec, mem[job.tun])
          PROVE  SamePhase(rec, mem'[job.tun])
      BY <2>2, <2>3 DEF SamePhase, ServingState
    <2>4. PortTaken => PortTaken'
      BY <1>1 DEF PortTaken
    <2> QED
      BY <1>1, <2>2, <2>3, <2>4 DEF IInv, JobOK
  <1> QED
    BY <1>1, <1>2, <1>3, <1>4, <1>5 DEF IInv, RecordsOK, PortExclusive, ACLOK

\* Start-up and scheduler keep it.
LEMMA RunStepInv ==
  ASSUME IInv, TypeOK', RunStep
  PROVE  IInv'
  <1>1. ASSUME UNCHANGED <<mem, disk, inb, ops>>, ACLOK'
        PROVE  IInv'
    BY <1>1 DEF IInv, ops, RecordsOK, JobOK, PortTaken, LiveOK, PortExclusive
  <1>2. CASE \/ ReadACLResources \/ PrepareTunnelACL \/ SkipTunnelACL \/ Scan \/ SkipDue
             \/ WorkDone \/ Sleep \/ Wake
    <2>1. UNCHANGED <<mem, disk, inb, ops>>
      BY <1>2 DEF ReadACLResources, PrepareTunnelACL, SkipTunnelACL, Scan, SkipDue, WorkDone,
           Sleep, Wake
    <2>2. ACLOK'
      BY <1>2, ACLRestricted DEF IInv, ACLOK, ReadACLResources, PrepareTunnelACL, SkipTunnelACL,
           Scan, SkipDue, WorkDone, Sleep, Wake
    <2> QED
      BY <1>1, <2>1, <2>2
  <1>3. CASE FailClosedTunnelACL
    BY <1>3, FailClosedInv
  <1>4. CASE ExpireOrCleanupTunnel
    <2>1. PICK e \in due :
            LET current == mem[e.tun] IN
            /\ ~outOfDate(e)
            /\ pc' = IF current.st = "active" THEN "cleanup" ELSE "withdraw"
            /\ job' = [kind |-> "expire", tun |-> e.tun,
                       rec |-> IF current.st = "active" THEN lapse(current) ELSE current]
      BY <1>4 DEF ExpireOrCleanupTunnel
    <2>2. UNCHANGED <<mem, disk, inb, nft, aclRead>>
      BY <1>4 DEF ExpireOrCleanupTunnel
    <2>3. e.tun \in Tunnel /\ mem[e.tun] \in Resource /\ GoodRecord(mem[e.tun])
          /\ mem[e.tun].st \in OpenState
      BY <2>1 DEF IInv, TypeOK, DueEntry, RecordsOK, outOfDate
    <2>4. JobOK'
      <3>1. CASE mem[e.tun].st = "active"
        <4> DEFINE rec == lapse(mem[e.tun])
        <4>1. pc' = "cleanup" /\ job'.rec = rec /\ job'.tun = e.tun
          BY <2>1, <3>1
        <4>2. rec.st = "expiry_pending" /\ rec.term = "expired" /\ rec.gen = mem[e.tun].gen
          BY <2>3 DEF lapse, Resource
        <4> HIDE DEF rec
        <4>3. GoodRecord(rec)
          BY <2>3, <3>1, <4>2 DEF GoodRecord
        <4>4. SamePhase(rec, mem[e.tun])
          BY <3>1, <4>2 DEF SamePhase, ServingState
        <4>5. rec.gen >= mem[e.tun].gen
          <5>1. mem[e.tun].gen \in Nat
            BY <2>3 DEF Resource
          <5> QED
            BY <4>2, <5>1
        <4> QED
          BY <2>2, <3>1, <4>1, <4>2, <4>3, <4>4, <4>5 DEF JobOK, PendingState
      <3>2. CASE mem[e.tun].st # "active"
        <4>1. pc' = "withdraw" /\ job'.rec = mem[e.tun] /\ job'.tun = e.tun
          BY <2>1, <3>2
        <4>2. mem' = mem
          BY <2>2
        <4>3. mem[e.tun].st \in PendingState \union {"provisioning"} /\ mem[e.tun].st # "absent"
          BY <2>3, <3>2 DEF OpenState, PendingState
        <4>4. SamePhase(mem[e.tun], mem[e.tun])
          BY DEF SamePhase
        <4> QED
          BY <2>3, <4>1, <4>2, <4>3, <4>4 DEF JobOK
      <3> QED
        BY <3>1, <3>2
    <2> QED
      BY <2>2, <2>4 DEF IInv, RecordsOK, LiveOK, PortExclusive, ACLOK
  <1> QED
    BY <1>2, <1>3, <1>4 DEF RunStep

\* The clock and crashes keep it.
LEMMA EnvironmentInv ==
  ASSUME IInv, TypeOK', Tick \/ Crash \/ Start
  PROVE  IInv'
  <1>1. CASE Tick
    <2>1. /\ mem' = [t \in Tunnel |-> Aged(mem[t])] /\ disk' = [t \in Tunnel |-> Aged(disk[t])]
          /\ job'.rec = Aged(job.rec) /\ job'.tun = job.tun
          /\ UNCHANGED <<inb, nft, pc, aclRead>>
      BY <1>1 DEF Tick, IInv, TypeOK, Job
    <2>2. ASSUME NEW rec \in Resource
          PROVE  /\ Aged(rec).st = rec.st /\ Aged(rec).gen = rec.gen
                 /\ GoodRecord(rec) => GoodRecord(Aged(rec))
      BY AgedType DEF GoodRecord
    <2>3. RecordsOK'
      <3>1. ASSUME NEW t \in Tunnel
            PROVE  GoodRecord(mem'[t]) /\ GoodRecord(disk'[t]) /\ Behind(disk'[t], mem'[t])
        BY <2>1, <2>2 DEF IInv, TypeOK, RecordsOK, Behind
      <3> QED
        BY <3>1 DEF RecordsOK
    <2>4. JobOK'
      <3> SUFFICES ASSUME pc # "idle"
                   PROVE  JobOK'
        BY <2>1, IdleJob
      <3>1. job.tun \in Tunnel /\ job.rec \in Resource /\ mem[job.tun] \in Resource
            /\ GoodRecord(job.rec)
        BY JobRecord DEF IInv
      <3>2. /\ job'.rec.st = job.rec.st /\ job'.rec.gen = job.rec.gen
            /\ mem'[job'.tun].st = mem[job.tun].st /\ mem'[job'.tun].gen = mem[job.tun].gen
            /\ GoodRecord(job'.rec)
        BY <2>1, <2>2, <3>1
      <3>3. SamePhase(job.rec, mem[job.tun]) => SamePhase(job'.rec, mem'[job'.tun])
        BY <3>2 DEF SamePhase
      <3>4. PortTaken => PortTaken'
        BY <2>1 DEF PortTaken
      <3> QED
        BY <2>1, <3>2, <3>3, <3>4 DEF IInv, JobOK
    <2>5. LiveOK'
      BY <2>1, <2>2 DEF IInv, TypeOK, LiveOK
    <2> QED
      BY <2>1, <2>3, <2>4, <2>5 DEF IInv, PortExclusive, ACLOK
  <1>2. CASE Crash
    <2>1. mem' = disk /\ disk' = disk /\ pc' = "idle" /\ inb' \in AgentOutcome
          /\ nft' \subseteq nft /\ aclRead' = {}
      BY <1>2 DEF Crash, EndJob
    <2>2. RecordsOK'
      BY <2>1 DEF IInv, RecordsOK, Behind
    <2>3. \/ inb' \subseteq inb
          \/ /\ inb' \subseteq inb \union {job.tun}
             /\ mem[job.tun].st \in OpenState /\ PortTaken
      BY <2>1, PhaseOpen DEF AgentOutcome, IInv, JobOK
    <2>4. PortExclusive'
      BY <2>3, SmallerLive, AddPort DEF IInv
    <2>5. \A t \in Tunnel : mem[t].st \in OpenState => disk[t].st \in OpenState
      BY DEF IInv, RecordsOK, Behind, ServingState, OpenState, PendingState
    <2>6. LiveOK'
      BY <2>1, <2>3, <2>5 DEF IInv, TypeOK, Job, LiveOK
    <2> QED
      BY <2>1, <2>2, <2>4, <2>6, IdleJob DEF IInv, ACLOK
  <1>3. CASE Start
    BY <1>3 DEF Start, ops, IInv, RecordsOK, JobOK, PortTaken, LiveOK, PortExclusive, ACLOK
  <1> QED
    BY <1>1, <1>2, <1>3

---------------------------------------------------------------------------
(* The theorems.                                                           *)

\* The invariant holds in every reachable state.
LEMMA Inductive == Spec => []IInv
  <1>1. Init => IInv
    <2> SUFFICES ASSUME Init
                 PROVE  IInv
      OBVIOUS
    <2>1. TypeOK
      BY InitType
    <2>2. GoodRecord(NoResource) /\ MaxGen \in Nat
      BY TunnelAssumption DEF GoodRecord, NoResource
    <2>3. RecordsOK
      BY <2>2 DEF Init, RecordsOK, Behind
    <2> QED
      BY <2>1, <2>3 DEF Init, IInv, JobOK, LiveOK, PortExclusive, ACLOK
  <1>2. IInv /\ [Next]_vars => IInv'
    <2> SUFFICES ASSUME IInv, [Next]_vars
                 PROVE  IInv'
      OBVIOUS
    <2>1. CASE UNCHANGED vars
      BY <2>1 DEF vars, ops, sched, IInv, TypeOK, RecordsOK, JobOK, PortTaken, LiveOK,
           PortExclusive, ACLOK
    <2>2. CASE Next
      <3>1. TypeOK'
        BY <2>2, NextType DEF IInv
      <3>2. CASE JobStep
        BY <3>1, <3>2, ApplyStepInv, CleanupStepInv DEF JobStep
      <3> QED
        BY <2>2, <3>1, <3>2, RequestInv, RunStepInv, EnvironmentInv DEF Next
    <2> QED
      BY <2>1, <2>2
  <1> QED
    BY <1>1, <1>2, PTL DEF Spec

\* "The durable state must never lag behind a live inbound" (ApplyTunnel): through
\* failed stores, failed Agent calls and crashes, every inbound keeps an open record
\* in memory and in the state file.
THEOREM NoOrphan == Spec => []NoOrphanInbound
  <1>1. IInv => NoOrphanInbound
    BY DEF IInv, TypeOK, LiveOK, RecordsOK, Behind, NoOrphanInbound, ServingState, OpenState,
         PendingState
  <1> QED
    BY <1>1, Inductive, PTL

\* No two inbounds on the Agent ever share a port.
THEOREM PortsExclusive == Spec => []PortExclusive
  <1>1. IInv => PortExclusive
    BY DEF IInv
  <1> QED
    BY <1>1, Inductive, PTL

---------------------------------------------------------------------------
(* The ACL of a live inbound.                                              *)

\* An inbound with rules in the table is among those a rebuild carries over.
LEMMA LiveHasACL ==
  ASSUME IInv, NEW t \in inb, t \in nft, NEW exclude, t \notin exclude
  PROVE  t \in aclResources(exclude)
  <1>1. t \in Tunnel /\ t \in Restricted /\ mem[t].st \in OpenState
    BY DEF IInv, TypeOK, LiveOK, ACLOK
  <1> QED
    BY <1>1 DEF aclResources, needsACL, reservesPort, OpenState, PendingState

\* Until it serves, the guard has no job but those of its repair, and the list the
\* repair writes is the records as they are.
RepairOK ==
  /\ boot = "down" => rpc = "off"
  /\ boot # "up" /\ rpc # "work" => pc = "idle"
  /\ boot = "main" /\ rpc = "write" => aclRead = aclResources({})

LEMMA RepairKeeps ==
  ASSUME IInv, RepairOK, [Next]_vars
  PROVE  RepairOK'
  <1>1. CASE Request
    <2>1. boot = "up" /\ UNCHANGED sched
      BY <1>1 DEF Request, RenewTunnel, ApplyTunnel, TransitionTunnelForCleanup, Begin
    <2> QED
      BY <2>1 DEF RepairOK, sched
  <1>2. CASE JobStep
    <2>1. pc # "idle" /\ UNCHANGED <<boot, rpc, aclRead>>
      BY <1>2 DEF JobStep, StoreRenewal, StoreRenewalFails, StoreProvisioning,
           StoreProvisioningFails, RebuildTunnelACL, RebuildTunnelACLFails, AddInbound,
           AddInboundFails, StoreActive, StoreActiveFails, UndoAdd, StorePending,
           StorePendingFails, WithdrawInbound, WithdrawInboundFails, StoreTerminal,
           StoreTerminalFails, sched, notify, notifyHandler
    <2> QED
      BY <2>1 DEF RepairOK
  <1>3. CASE RunStep
    <2>1. boot # "down"
      BY <1>3 DEF RepairOK, RunStep, ReadACLResources, PrepareTunnelACL, SkipTunnelACL,
           FailClosedTunnelACL, Scan, SkipDue, ExpireOrCleanupTunnel, WorkDone, Sleep, Wake
    <2>2. CASE ReadACLResources
      BY <2>1, <2>2 DEF RepairOK, ReadACLResources, aclResources, ops
    <2>3. CASE PrepareTunnelACL \/ SkipTunnelACL \/ FailClosedTunnelACL \/ Scan \/ Sleep \/ Wake
      BY <2>1, <2>3 DEF RepairOK, PrepareTunnelACL, SkipTunnelACL, FailClosedTunnelACL, Scan,
           Sleep, Wake, ops
    <2>4. CASE SkipDue \/ ExpireOrCleanupTunnel \/ WorkDone
      BY <2>1, <2>4 DEF RepairOK, SkipDue, ExpireOrCleanupTunnel, WorkDone
    <2> QED
      BY <1>3, <2>2, <2>3, <2>4 DEF RunStep
  <1>4. CASE Tick
    <2>1. UNCHANGED <<boot, rpc, pc, aclRead>>
      BY <1>4 DEF Tick
    <2>2. ASSUME NEW t \in Tunnel
          PROVE  mem'[t].st = mem[t].st
      BY <1>4, AgedType DEF Tick, IInv, TypeOK
    <2>3. aclResources({})' = aclResources({})
      BY <2>2 DEF aclResources, needsACL, reservesPort
    <2> QED
      BY <2>1, <2>3 DEF RepairOK
  <1>5. CASE Crash \/ Start
    BY <1>5 DEF RepairOK, Crash, Start, EndJob, ops
  <1>6. CASE UNCHANGED vars
    BY <1>6 DEF vars, ops, sched, RepairOK, aclResources
  <1> QED
    BY <1>1, <1>2, <1>3, <1>4, <1>5, <1>6 DEF Next

\* A rebuild of the table keeps the rules of every inbound that stays; only the
\* repair that Run repeats beside the handlers and a reboot can take them away.
THEOREM ACLKept == Spec => RebuildKeepsACL
  <1> DEFINE Kept == \A t \in inb \intersect inb' : t \in nft \ nft' =>
                       (rpc = "write" /\ boot = "up") \/ boot' = "down"
  <1>1. ASSUME IInv, RepairOK, [Next]_vars
        PROVE  Kept
    <2> SUFFICES ASSUME NEW t \in inb, t \in inb', t \in nft, t \notin nft',
                        ~(rpc = "write" /\ boot = "up"), boot' # "down"
                 PROVE  FALSE
      OBVIOUS
    <2>1. t \in aclResources({}) /\ (t # job.tun => t \in aclResources({job.tun}))
      BY <1>1, LiveHasACL
    <2>2. CASE Request
      BY <2>2 DEF Request, RenewTunnel, ApplyTunnel, TransitionTunnelForCleanup, Begin
    <2>3. CASE JobStep
      <3>1. \/ nft' = nft \/ nft' = aclResources({})
            \/ nft' = aclResources({job.tun}) /\ inb' = inb \ {job.tun}
        BY <2>3 DEF JobStep, StoreRenewal, StoreRenewalFails, StoreProvisioning,
             StoreProvisioningFails, RebuildTunnelACL, RebuildTunnelACLFails, AddInbound,
             AddInboundFails, StoreActive, StoreActiveFails, UndoAdd, StorePending,
             StorePendingFails, WithdrawInbound, WithdrawInboundFails, StoreTerminal,
             StoreTerminalFails
      <3> QED
        BY <2>1, <3>1
    <2>4. CASE RunStep
      <3>1. CASE PrepareTunnelACL
        <4>1. rpc = "write" /\ nft' = aclRead /\ boot \in {"down", "main"}
          BY <1>1, <3>1 DEF PrepareTunnelACL, IInv, TypeOK
        <4>2. aclRead = aclResources({})
          BY <1>1, <4>1 DEF RepairOK
        <4> QED
          BY <2>1, <4>1, <4>2
      <3>2. CASE ~PrepareTunnelACL
        BY <2>4, <3>2 DEF RunStep, ReadACLResources, SkipTunnelACL,
             FailClosedTunnelACL, Scan, SkipDue, ExpireOrCleanupTunnel, WorkDone, Sleep, Wake
      <3> QED
        BY <3>1, <3>2
    <2>5. CASE Tick \/ Crash \/ Start
      BY <2>5 DEF Tick, Crash, Start
    <2>6. CASE UNCHANGED vars
      BY <2>6 DEF vars
    <2> QED
      BY <1>1, <2>2, <2>3, <2>4, <2>5, <2>6 DEF Next
  <1>2. Spec => []IInv
    BY Inductive
  <1>3. Init => RepairOK
    BY DEF Init, RepairOK
  <1>4. IInv /\ RepairOK /\ [Next]_vars => RepairOK'
    BY RepairKeeps
  <1>5. IInv /\ RepairOK /\ [Next]_vars => [Kept]_vars
    BY <1>1
  <1> QED
    BY <1>2, <1>3, <1>4, <1>5, PTL DEF Spec, RebuildKeepsACL

---------------------------------------------------------------------------
(* The guard implements its contract.                                      *)

phaseOf == [t \in Tunnel |-> durablePhase(disk[t])]
genOf == [t \in Tunnel |-> disk[t].gen]

\* File and memory agree on what the contract shows.
LEMMA MemoryPhase ==
  ASSUME IInv, NEW t \in Tunnel
  PROVE  /\ phaseOf[t] = durablePhase(mem[t])
         /\ genOf[t] = mem[t].gen
  BY DEF IInv, RecordsOK, Behind, ServingState, durablePhase, phaseOf, genOf

\* Records of one phase and generation are the same to the contract.
LEMMA SamePhaseMaps ==
  ASSUME NEW rec, NEW cur, SamePhase(rec, cur)
  PROVE  durablePhase(rec) = durablePhase(cur) /\ rec.gen = cur.gen
  BY DEF SamePhase, durablePhase, ServingState

\* A store moves one resource.
LEMMA CommitMoves ==
  ASSUME IInv, NEW t \in Tunnel, NEW rec \in Resource, Commit(t, rec)
  PROVE  /\ phaseOf' = [phaseOf EXCEPT ![t] = durablePhase(rec)]
         /\ genOf' = [genOf EXCEPT ![t] = rec.gen]
  <1>1. \A u \in Tunnel : disk'[u] = IF u = t THEN rec ELSE mem[u]
    BY DEF Commit, IInv, TypeOK
  <1>2. \A u \in Tunnel : phaseOf[u] = durablePhase(mem[u]) /\ genOf[u] = mem[u].gen
    BY MemoryPhase
  <1>3. phaseOf' = [phaseOf EXCEPT ![t] = durablePhase(rec)]
    BY <1>1, <1>2 DEF phaseOf
  <1>4. genOf' = [genOf EXCEPT ![t] = rec.gen]
    BY <1>1, <1>2 DEF genOf
  <1> QED
    BY <1>3, <1>4

\* Storing a record of the same phase is a stutter of the contract.
LEMMA StoreKeeps ==
  ASSUME IInv, NEW t \in Tunnel, NEW rec \in Resource, SamePhase(rec, mem[t]),
         StoreUnsure(t, rec)
  PROVE  phaseOf' = phaseOf /\ genOf' = genOf
  <1>1. CASE UNCHANGED <<mem, disk>>
    BY <1>1 DEF phaseOf, genOf
  <1>2. CASE Commit(t, rec)
    <2>1. durablePhase(rec) = phaseOf[t] /\ rec.gen = genOf[t]
      BY MemoryPhase, SamePhaseMaps
    <2>2. phaseOf' = [phaseOf EXCEPT ![t] = durablePhase(rec)]
          /\ genOf' = [genOf EXCEPT ![t] = rec.gen]
      BY <1>2, CommitMoves
    <2>3. phaseOf = [phaseOf EXCEPT ![t] = phaseOf[t]] /\ genOf = [genOf EXCEPT ![t] = genOf[t]]
      BY DEF phaseOf, genOf
    <2> QED
      BY <2>1, <2>2, <2>3
  <1> QED
    BY <1>1, <1>2 DEF StoreUnsure

Contracted == [Contract!Next]_<<phaseOf, genOf, inb>>

\* Any one promise of the contract makes a step of it.
LEMMA ContractStep ==
  ASSUME NEW t \in Tunnel, NEW g \in 1..MaxGen,
         Contract!Serve(t, g) \/ Contract!Close(t, g) \/ Contract!Doom(t, g)
  PROVE  Contracted
  <1>1. Contract!Next
    BY DEF Contract!Next
  <1> QED
    BY <1>1 DEF Contracted

\* The Agent's side of a job, with the durable phases as they are.
LEMMA AgentMoves ==
  ASSUME IInv, phaseOf' = phaseOf, genOf' = genOf, job.tun \in Tunnel,
         \/ inb' \in {inb, inb \ {job.tun}}
         \/ inb' = inb \union {job.tun} /\ mem[job.tun].st \in ServingState /\ PortTaken
  PROVE  Contracted
  <1>1. CASE inb' = inb
    BY <1>1 DEF Contracted
  <1>2. CASE inb' = inb \ {job.tun}
    <2>1. Contract!Vanish(job.tun)
      BY <1>2 DEF Contract!Vanish, phaseOf, genOf
    <2> QED
      BY <2>1 DEF Contracted, Contract!Next
  <1>3. CASE inb' = inb \union {job.tun} /\ mem[job.tun].st \in ServingState /\ PortTaken
    <2>1. phaseOf[job.tun] = "serving"
      BY <1>3, MemoryPhase DEF durablePhase, ServingState
    <2>2. Contract!Appear(job.tun)
      BY <1>3, <2>1 DEF Contract!Appear, PortTaken, phaseOf, genOf
    <2> QED
      BY <2>2 DEF Contracted, Contract!Next
  <1> QED
    BY <1>1, <1>2, <1>3

\* A job that keeps the phase: a store of the same phase, with what the Agent did.
LEMMA KeepMoves ==
  ASSUME IInv, pc # "idle", NEW rec \in Resource, SamePhase(rec, mem[job.tun]),
         StoreUnsure(job.tun, rec) \/ UNCHANGED disk,
         \/ inb' \in {inb, inb \ {job.tun}}
         \/ inb' = inb \union {job.tun} /\ mem[job.tun].st \in ServingState /\ PortTaken
  PROVE  Contracted
  <1>1. job.tun \in Tunnel
    BY JobRecord DEF IInv
  <1>2. phaseOf' = phaseOf /\ genOf' = genOf
    BY <1>1, StoreKeeps DEF phaseOf, genOf
  <1> QED
    BY <1>1, <1>2, AgentMoves

\* Retries and activation do not change the phase of a record.
LEMMA SamePhaseVariants ==
  ASSUME NEW rec \in Resource, NEW cur, SamePhase(rec, cur)
  PROVE  /\ \A n \in Nat : SamePhase([rec EXCEPT !.retry = n], cur)
         /\ rec.st = "provisioning" => SamePhase(activated(rec), cur) /\ cur.st \in ServingState
  BY DEF SamePhase, activated, Resource, ServingState

\* The steps of an apply, after its first store, are steps of the contract or stutters.
LEMMA ApplyStepMoves ==
  ASSUME IInv,
         \/ StoreRenewal \/ StoreRenewalFails \/ RebuildTunnelACL \/ RebuildTunnelACLFails
         \/ AddInbound \/ AddInboundFails \/ StoreActive \/ StoreActiveFails \/ UndoAdd
  PROVE  Contracted
  <1> DEFINE rec == job.rec
             cur == mem[job.tun]
  <1>1. /\ pc # "idle" /\ SamePhase(rec, cur)
        /\ pc # "renew" => rec.st = "provisioning"
        /\ pc \in {"acl", "add"} => PortTaken
    BY DEF IInv, JobOK, StoreRenewal, StoreRenewalFails, RebuildTunnelACL,
         RebuildTunnelACLFails, AddInbound, AddInboundFails, StoreActive, StoreActiveFails,
         UndoAdd
  <1>2. rec \in Resource /\ activated(rec) \in Resource /\ [rec EXCEPT !.retry = 0] \in Resource
    BY <1>1, JobRecord, ActivatedType, RetryType DEF IInv
  <1>3. /\ SamePhase([rec EXCEPT !.retry = 0], cur)
        /\ pc # "renew" => SamePhase(activated(rec), cur) /\ cur.st \in ServingState
    BY <1>1, <1>2, SamePhaseVariants
  <1>4. CASE StoreRenewal \/ StoreRenewalFails \/ RebuildTunnelACLFails
    BY <1>1, <1>2, <1>4, KeepMoves DEF StoreRenewal, StoreRenewalFails, RebuildTunnelACLFails,
         StoreUnsure
  <1>5. CASE RebuildTunnelACL
    BY <1>1, <1>2, <1>5, KeepMoves DEF RebuildTunnelACL
  <1>6. CASE AddInbound \/ AddInboundFails
    <2>1. pc = "add"
      BY <1>6 DEF AddInbound, AddInboundFails
    <2>2. cur.st \in ServingState /\ PortTaken
      BY <1>1, <1>3, <2>1
    <2>3. inb' \in {inb, inb \ {job.tun}} \/ inb' = inb \union {job.tun}
      BY <1>6 DEF AddInbound, AddInboundFails
    <2> QED
      BY <1>1, <1>2, <1>6, <2>2, <2>3, KeepMoves DEF AddInbound, AddInboundFails
  <1>7. CASE StoreActive \/ StoreActiveFails
    <2>1. pc = "activate"
      BY <1>7 DEF StoreActive, StoreActiveFails
    <2>2. SamePhase(activated(rec), cur)
      BY <1>3, <2>1
    <2> QED
      BY <1>1, <1>2, <1>7, <2>2, KeepMoves DEF StoreActive, StoreActiveFails, StoreUnsure
  <1>8. CASE UndoAdd
    BY <1>1, <1>2, <1>3, <1>8, KeepMoves DEF UndoAdd
  <1> QED
    BY <1>4, <1>5, <1>6, <1>7, <1>8

\* Storing the provisioning state serves a newer generation, or changes nothing.
LEMMA ProvisioningMoves ==
  ASSUME IInv, StoreProvisioning \/ StoreProvisioningFails
  PROVE  Contracted
  <1> DEFINE rec == job.rec
             t == job.tun
  <1>1. /\ pc = "store" /\ inb' = inb /\ StoreUnsure(t, rec)
        /\ rec.st = "provisioning" /\ rec.gen > mem[t].gen
        /\ mem[t].st \notin {"delete_pending", "deleted"}
    BY DEF StoreProvisioning, StoreProvisioningFails, StoreUnsure, IInv, JobOK
  <1>2. t \in Tunnel /\ rec \in Resource /\ GoodRecord(rec) /\ rec.st # "absent"
        /\ mem[t] \in Resource
    BY <1>1, JobRecord DEF IInv
  <1>3. CASE UNCHANGED <<mem, disk>>
    BY <1>1, <1>3 DEF Contracted, phaseOf, genOf
  <1>4. CASE Commit(t, rec)
    <2>1. phaseOf' = [phaseOf EXCEPT ![t] = "serving"] /\ genOf' = [genOf EXCEPT ![t] = rec.gen]
      BY <1>1, <1>2, <1>4, CommitMoves DEF durablePhase
    <2>2. phaseOf[t] \notin {"dooming", "gone"} /\ rec.gen > genOf[t]
      BY <1>1, <1>2, MemoryPhase DEF durablePhase, Resource, TunnelState, OpenState,
           PendingState, TerminalState
    <2>3. rec.gen \in 1..MaxGen
      <3>1. rec.gen \in Nat /\ rec.gen > 0 /\ rec.gen <= MaxGen
        BY <1>2 DEF GoodRecord, Resource
      <3> QED
        BY <3>1, TunnelAssumption
    <2>4. PICK u \in Tunnel, g \in 1..MaxGen : u = t /\ g = rec.gen
      BY <1>2, <2>3
    <2>5. Contract!Serve(u, g)
      BY <1>1, <2>1, <2>2, <2>4 DEF Contract!Serve, Contract!To, phaseOf, genOf
    <2> QED
      BY <2>5, ContractStep
  <1> QED
    BY <1>1, <1>3, <1>4 DEF StoreUnsure

\* Storing the pending state closes or dooms the resource, or changes nothing.
LEMMA PendingMoves ==
  ASSUME IInv, StorePending \/ StorePendingFails
  PROVE  Contracted
  <1> DEFINE rec == job.rec
             t == job.tun
  <1>1. /\ pc = "cleanup" /\ inb' = inb /\ StoreUnsure(t, rec)
        /\ rec.st \in PendingState /\ rec.gen >= mem[t].gen /\ mem[t].st # "absent"
        /\ rec.st = "expiry_pending" => SamePhase(rec, mem[t])
        /\ rec.st = "suspend_pending" => mem[t].st \notin {"delete_pending", "deleted"}
        /\ mem[t].st = "deleted" => rec.gen > mem[t].gen
    BY DEF StorePending, StorePendingFails, StoreUnsure, IInv, JobOK
  <1>2. t \in Tunnel /\ rec \in Resource /\ GoodRecord(rec) /\ rec.st # "absent"
        /\ mem[t] \in Resource
    BY <1>1, JobRecord DEF IInv
  <1>3. CASE UNCHANGED <<mem, disk>>
    BY <1>1, <1>3 DEF Contracted, phaseOf, genOf
  <1>4. CASE rec.st = "expiry_pending"
    BY <1>1, <1>2, <1>4, KeepMoves
  <1>5. CASE Commit(t, rec) /\ rec.st # "expiry_pending"
    <2>1. phaseOf' = [phaseOf EXCEPT ![t] = durablePhase(rec)]
          /\ genOf' = [genOf EXCEPT ![t] = rec.gen]
      BY <1>2, <1>5, CommitMoves
    <2>2. /\ phaseOf[t] # "none" /\ rec.gen >= genOf[t]
          /\ rec.st = "suspend_pending" => phaseOf[t] \notin {"dooming", "gone"}
          /\ phaseOf[t] = "gone" => rec.gen > genOf[t]
      BY <1>1, <1>2, MemoryPhase DEF durablePhase, Resource, TunnelState, OpenState,
           PendingState, TerminalState
    <2>3. rec.gen \in 1..MaxGen
      <3>1. rec.gen \in Nat /\ rec.gen > 0 /\ rec.gen <= MaxGen
        BY <1>2 DEF GoodRecord, Resource
      <3> QED
        BY <3>1, TunnelAssumption
    <2>4. PICK u \in Tunnel, g \in 1..MaxGen : u = t /\ g = rec.gen
      BY <1>2, <2>3
    <2>5. CASE rec.st = "suspend_pending"
      <3>1. durablePhase(rec) = "closing"
        BY <2>5 DEF durablePhase
      <3>2. Contract!Close(u, g)
        BY <1>1, <2>1, <2>2, <2>5, <2>4, <3>1 DEF Contract!Close, Contract!To, phaseOf, genOf
      <3> QED
        BY <3>2, ContractStep
    <2>6. CASE rec.st = "delete_pending"
      <3>1. durablePhase(rec) = "dooming"
        BY <2>6 DEF durablePhase
      <3>2. Contract!Doom(u, g)
        BY <1>1, <2>1, <2>2, <2>4, <3>1 DEF Contract!Doom, Contract!To, phaseOf, genOf
      <3> QED
        BY <3>2, ContractStep
    <2> QED
      BY <1>1, <1>5, <2>5, <2>6 DEF PendingState
  <1> QED
    BY <1>1, <1>3, <1>4, <1>5 DEF StoreUnsure

\* Storing the final state brings the resource to rest, or changes nothing.
LEMMA TerminalMoves ==
  ASSUME IInv, StoreTerminal \/ StoreTerminalFails
  PROVE  Contracted
  <1> DEFINE rec == job.rec
             t == job.tun
  <1>1. /\ pc = "terminal" /\ inb' = inb /\ t \notin inb /\ StoreUnsure(t, finished(rec))
        /\ rec.st \in PendingState \union {"provisioning"} /\ SamePhase(rec, mem[t])
    BY DEF StoreTerminal, StoreTerminalFails, StoreUnsure, IInv, JobOK
  <1>2. t \in Tunnel /\ rec \in Resource /\ GoodRecord(rec) /\ finished(rec) \in Resource
    BY <1>1, JobRecord, FinishedType DEF IInv
  <1>3. CASE UNCHANGED <<mem, disk>>
    BY <1>1, <1>3 DEF Contracted, phaseOf, genOf
  <1>4. CASE Commit(t, finished(rec))
    <2>1. /\ finished(rec).gen = rec.gen
          /\ rec.st = "delete_pending" => durablePhase(finished(rec)) = "gone"
          /\ rec.st # "delete_pending" => durablePhase(finished(rec)) = "parked"
      BY <1>1, <1>2 DEF finished, GoodRecord, PendingState, durablePhase, Resource
    <2>2. phaseOf[t] = durablePhase(rec) /\ genOf[t] = rec.gen
      BY <1>1, <1>2, MemoryPhase, SamePhaseMaps
    <2>3. phaseOf' = [phaseOf EXCEPT ![t] = durablePhase(finished(rec))]
          /\ genOf' = [genOf EXCEPT ![t] = genOf[t]]
      BY <1>2, <1>4, <2>1, <2>2, CommitMoves
    <2>4. PICK u \in Tunnel : u = t
      BY <1>2
    <2>5. Contract!Rest(u)
      BY <1>1, <2>1, <2>2, <2>3, <2>4 DEF Contract!Rest, Contract!To, phaseOf, genOf,
           durablePhase, PendingState
    <2>6. Contract!Next
      BY <2>5 DEF Contract!Next
    <2> QED
      BY <2>6 DEF Contracted
  <1> QED
    BY <1>1, <1>3, <1>4 DEF StoreUnsure

\* Withdrawing the inbound is a step of the contract.
LEMMA WithdrawMoves ==
  ASSUME IInv, WithdrawInbound \/ WithdrawInboundFails
  PROVE  Contracted
  <1>1. pc # "idle" /\ SamePhase(job.rec, mem[job.tun]) /\ inb' \in {inb, inb \ {job.tun}}
    BY DEF WithdrawInbound, WithdrawInboundFails, IInv, JobOK
  <1>2. job.rec \in Resource /\ [job.rec EXCEPT !.retry = RetryDelay] \in Resource
    BY <1>1, JobRecord, RetryType DEF IInv
  <1>3. SamePhase([job.rec EXCEPT !.retry = RetryDelay], mem[job.tun])
    BY <1>1, <1>2, SamePhaseVariants, TunnelAssumption
  <1> QED
    BY <1>1, <1>2, <1>3, KeepMoves DEF WithdrawInbound, WithdrawInboundFails

\* Everything else leaves the durable phases alone; a crash may find the Agent at work.
LEMMA OtherMoves ==
  ASSUME IInv, Request \/ RunStep \/ Tick \/ Crash \/ Start
  PROVE  Contracted
  <1>1. ASSUME UNCHANGED <<disk, inb>>
        PROVE  Contracted
    BY <1>1 DEF Contracted, phaseOf, genOf
  <1>2. CASE Request \/ Start
    <2>1. UNCHANGED <<disk, inb>>
      BY <1>2 DEF Request, RenewTunnel, ApplyTunnel, TransitionTunnelForCleanup, Begin, Start
    <2> QED
      BY <1>1, <2>1
  <1>3. CASE RunStep
    <2>1. CASE UNCHANGED <<disk, inb>>
      BY <1>1, <2>1
    <2>2. CASE FailClosedTunnelACL
      <3>1. inb' = inb /\ (disk' = disk \/ disk' = mem')
        BY <2>2 DEF FailClosedTunnelACL
      <3>2. ASSUME NEW t \in Tunnel
            PROVE  durablePhase(mem'[t]) = durablePhase(mem[t]) /\ mem'[t].gen = mem[t].gen
        BY <2>2 DEF FailClosedTunnelACL, IInv, TypeOK, Resource, durablePhase
      <3>3. phaseOf' = phaseOf /\ genOf' = genOf
        <4>1. CASE disk' = disk
          BY <4>1 DEF phaseOf, genOf
        <4>2. CASE disk' = mem'
          <5>1. \A t \in Tunnel : /\ durablePhase(disk'[t]) = durablePhase(disk[t])
                                  /\ disk'[t].gen = disk[t].gen
            BY <3>2, <4>2, MemoryPhase DEF phaseOf, genOf
          <5> QED
            BY <5>1 DEF phaseOf, genOf
        <4> QED
          BY <3>1, <4>1, <4>2
      <3> QED
        BY <3>1, <3>3 DEF Contracted
    <2> QED
      BY <1>3, <2>1, <2>2 DEF RunStep, ReadACLResources, PrepareTunnelACL, SkipTunnelACL, Scan,
           SkipDue, ExpireOrCleanupTunnel, WorkDone, Sleep, Wake
  <1>4. CASE Tick
    <2>1. inb' = inb /\ disk' = [t \in Tunnel |-> Aged(disk[t])]
      BY <1>4 DEF Tick
    <2>2. ASSUME NEW t \in Tunnel
          PROVE  durablePhase(disk'[t]) = durablePhase(disk[t]) /\ disk'[t].gen = disk[t].gen
      BY <2>1, AgedType DEF IInv, TypeOK, durablePhase
    <2>3. phaseOf' = phaseOf /\ genOf' = genOf
      BY <2>2 DEF phaseOf, genOf
    <2> QED
      BY <2>1, <2>3 DEF Contracted
  <1>5. CASE Crash
    <2>1. disk' = disk /\ inb' \in AgentOutcome
      BY <1>5 DEF Crash
    <2>2. phaseOf' = phaseOf /\ genOf' = genOf
      BY <2>1 DEF phaseOf, genOf
    <2>3. \/ inb' \in {inb, inb \ {job.tun}}
          \/ pc = "add" /\ inb' = inb \union {job.tun}
      BY <2>1 DEF AgentOutcome
    <2>4. pc = "add" => mem[job.tun].st \in ServingState /\ PortTaken
      BY DEF IInv, JobOK, SamePhase, ServingState
    <2>5. job.tun \in Tunnel
      BY DEF IInv, TypeOK, Job
    <2> QED
      BY <2>2, <2>3, <2>4, <2>5, AgentMoves
  <1> QED
    BY <1>2, <1>3, <1>4, <1>5

\* Every step of the guard is a step of the contract or a stutter.
LEMMA NextMoves ==
  ASSUME IInv, [Next]_vars
  PROVE  Contracted
  <1>1. CASE UNCHANGED vars
    BY <1>1 DEF vars, Contracted, phaseOf, genOf
  <1>2. CASE Next
    BY <1>2, ApplyStepMoves, ProvisioningMoves, PendingMoves, TerminalMoves, WithdrawMoves,
       OtherMoves DEF Next, JobStep
  <1> QED
    BY <1>1, <1>2

\* Whatever fails and whenever it dies, the guard does only what its contract allows:
\* serving takes a newer generation, rest needs the inbound gone, deletion is for ever,
\* no port is shared.
THEOREM Implements == Spec => ImplementsContract
  <1>1. Init => Contract!Init
    <2> SUFFICES ASSUME Init
                 PROVE  Contract!Init
      OBVIOUS
    <2>1. \A t \in Tunnel : disk[t] = NoResource
      BY DEF Init
    <2>2. durablePhase(NoResource) = "none" /\ NoResource.gen = 0
      BY DEF durablePhase, NoResource
    <2> QED
      BY <2>1, <2>2 DEF Init, Contract!Init
  <1>2. IInv /\ [Next]_vars => [Contract!Next]_(Contract!vars)
    BY NextMoves DEF Contracted, phaseOf, genOf, Contract!vars
  <1> QED
    BY <1>1, <1>2, Inductive, PTL DEF Spec, ImplementsContract, Contract!Spec

\* What is suspended, deleted or done with serves again only on a newer generation.
THEOREM Fenced == Spec => GenerationFence
  <1> DEFINE Fence ==
        \A t \in Tunnel :
          /\ disk[t].st \in {"suspend_pending", "delete_pending"} \union TerminalState
          /\ disk'[t].st \in {"provisioning", "active"}
          => disk'[t].gen > disk[t].gen
  <1>1. ASSUME IInv, [Next]_vars
        PROVE  Fence
    <2> SUFFICES ASSUME NEW t \in Tunnel,
                        disk[t].st \in {"suspend_pending", "delete_pending"} \union TerminalState,
                        disk'[t].st \in {"provisioning", "active"}
                 PROVE  disk'[t].gen > disk[t].gen
      OBVIOUS
    <2>1. phaseOf[t] \in {"closing", "dooming", "parked", "gone"} /\ phaseOf'[t] = "serving"
          /\ genOf[t] = disk[t].gen /\ genOf'[t] = disk'[t].gen
      BY DEF phaseOf, genOf, durablePhase, TerminalState
    <2>2. Contract!Next
      BY <1>1, <2>1, NextMoves DEF Contracted
    <2>3. PICK u \in Tunnel, g \in 1..MaxGen : Contract!Serve(u, g)
      BY <2>1, <2>2 DEF Contract!Next, Contract!Close, Contract!Doom, Contract!Rest,
           Contract!Appear, Contract!Vanish, Contract!To, phaseOf
    <2>4. phaseOf' = [phaseOf EXCEPT ![u] = "serving"] /\ genOf' = [genOf EXCEPT ![u] = g]
          /\ g > genOf[u]
      BY <2>3 DEF Contract!Serve, Contract!To, phaseOf, genOf
    <2>5. u = t
      BY <2>1, <2>4 DEF phaseOf
    <2> QED
      BY <2>1, <2>4, <2>5 DEF genOf
  <1>2. Fence => [Fence]_vars
    OBVIOUS
  <1> QED
    BY <1>1, <1>2, Inductive, PTL DEF Spec, GenerationFence

=============================================================================
