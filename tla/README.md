# Arcway backend: specification of the panel's control of its nodes

Arcway is a panel (one Go process with SQLite) that manages remote servers. On each server
run an Agent, which owns the Xray inbounds, and an *expiry guard*, which enforces deadlines
without the panel. The panel installs servers, watches whether their Agents are there, lets
users in and out of inbounds, and builds *forwards*: chains of hops over several servers,
every hop one tunnel resource of one guard. All of it is paid, access-controlled traffic, so
what matters is what happens when calls are lost, operations overlap and processes die: a
client or an inbound that outlives its authorisation, a port given to two owners, a node two
operations change at a time, a forward or an account nobody will ever clean up, an outage
nobody is told of, traffic that is charged twice. This project models those paths, from the guard upwards.

Paths below are relative to `src/`.

## Inventory

| component | state | operations | hard behaviour | what makes it correct |
|---|---|---|---|---|
| **Expiry guard, tunnels** `internal/expiryguard/tunnels.go`, scheduler in `guard.go` | records in memory (`g.tunnels`) and in the state file, the Agent's inbounds, the nftables table, the scheduler's timer and wake channel | apply/renew, suspend, delete, expire, start-up repair of the ACL, schedule | every store, Agent call and nft run may fail or be cut by a crash; the repair runs beside the handlers; lists are used after they are read | no inbound without a record that is still worked on; ports exclusive; old generations stay fenced; leases enforced; pending work ends |
| **Expiry guard, clients** `internal/expiryguard/guard.go` | entries in the same state file | upsert, delete, attempt | an attempt races a newer deadline | no newer deadline is lost |
| **Forward controller** `internal/handler/forwarding.go`, `forwarding_guard.go`, `internal/storage/forwarding.go` | the rule and its hops in SQLite, server leases, copies held by each operation | create, suspend, resume, delete, grant actions, the reconciler's renew / apply / revoke / retry / delete | operations write before they take the leases and deploy the copy they read; calls time out and arrive late; panel restarts | entry last; ports released only when no hop can come back; the reconciler reaches what is wanted |
| **Remote installation** `internal/storage/traffic.go`, `internal/handler/expiry_guard_asset.go`, the script in `agent_connect.go` | the row of the server's installation, the server's lease, the script's position and what it made of the node, its renewal worker | begin, renew, ready, prepare, quiesce, finalize, abort; the script's retries and its rollback | calls lost, late and repeated; handlers that read the clock before they wait; a Prepare that deploys while the installer gives up; a killed installer whose worker lives | one owner of a node; no deployment into a rollback; panel and node agree on what was committed; locks end |
| **Mutation leases** `internal/storage/traffic.go`, `user_deletion.go`, and their callers in `internal/handler` | one read-write mutex per server, the mutex of user provisioning, contexts that say what is held | shared, exclusive, installation's own, bypassing Prepare | two locks in callers far apart; writers stop readers; waits cannot be cancelled | no circular wait; nothing works where an installation is live |
| **Managed access and user deletion** `internal/handler/managed_nodes.go`, `users.go`, `packages.go`, `internal/storage/managed_nodes_state.go`, `user_deletion.go` | grants, selections, access sources with a generation, saved credentials, the tombstone, the node's clients | select, give up, change the grant, disable, enable, delete; the reconciler's `reconcileSource`; the scan | what was read is carried out by calls that take long; compare-and-set at the end; the guard acts on its own; panel and guard restart | a deleted account leaves nothing; a confirmed revocation stays; deadlines are kept; both end |
| **Agent presence** `internal/handler/remote_ws.go`, `internal/traffic/collector.go`, `internal/storage/traffic.go`, `internal/child/client.go` | the registry, the token's lock, the server's status and outage marks | authenticate, evict, heartbeat, leave, clean up, mark, notify | connections of one token overlap; three writers of one status; the panel restarts | no dead connection registered; each outage told once; who stays gets in |
| **Traffic counters and limits** `internal/traffic/collector.go`, `restart_detector.go`, `internal/storage/traffic.go`, `internal/handler/traffic_limit_enforcer.go`, `user_routed_outbound.go` | Xray's counters, the boot time on the server's row, the detector's memory, the user's traffic row, the user's package, limit and mark, the node's clients | push and pull reports, heartbeats, reset, the pass of `CheckAll` over a user | boot times and counts arrive apart; reports overlap; a row is read and updated in two statements; a pass works on a row it listed long ago, and any of its calls may fail | reports in order charge nothing twice; who is expelled is out |
| Port allocation `internal/storage/forwarding.go` | ports and resource ids of the hops | allocate, reallocate after a conflict | the old resource must be removed at a newer generation before the new port is used | no two forwards hold a port; at most three rounds |
| Usage ledger `internal/storage/forwarding.go` | counters, baselines, epochs | ingest a sample | resets, repeated and late samples | no byte counted twice |
| Wire format `internal/guardwire/wire.go` | nonces seen | seal, open | clock skew | a request is accepted once |
| Agent API `internal/handler/child_manage.go` | Xray's configuration and runtime | add, remove, list | one of two places may fail | seen here only as panel and guard see it |
| Calls to Agents, web-socket RPC `remote_manage.go`, `ws_rpc.go` | pending calls | call, answer, time out | a late answer, a lost socket | an answer reaches its caller or nobody |
| Secure channel, authentication, throttling, event bus, notification | caches and counters | - | expiry at the boundary | later, if at all |
| Subscriptions, packages, ACME, DDNS, MCP, scripts, validation, templates | rows and files | CRUD, I/O | - | not modelled: text, I/O and CRUD |

**Interaction.** Whatever changes a node takes the mutation lease of its server first: ordinary
operations share it and are refused while an installation's row is live, a forward's operation
holds those of all its servers, in their order, an installation's handlers hold it alone. What
changes a user's credentials also takes the provisioning mutex. Panel and guards meet only in
calls, which may be lost, repeated at another address of the server after four seconds, or
answered too late; what keeps them consistent is the generation a call carries, the guard's
refusal of old ones, and deadlines. Reconcilers (forwards, access, deletions) run beside the
requests and pick up what those left. Agents hold a web socket each; what the panel believes
of them is a row that handlers, HTTP reports and the collector write. The same reports carry the
traffic the collector charges; what is charged decides, pass by pass, who keeps its clients.

## Modules

| module | what it is |
|---|---|
| `TunnelGuard` | the guard's tunnels: jobs under `tunnelOpsMu`, the scheduler, the ACL repair, the clock, crashes |
| `TunnelContract` | what a panel may rely on about a guard: durable phase, generation and live inbounds |
| `ForwardControl` | one forward: requests and the reconciler over its row, the leases, and one `TunnelContract` per hop |
| `RemoteInstallation` | one server's installations: the row, the handlers, the lease, and the script of each installer |
| `ServerOwner` | what that is for: a node has one owner or any number of users, and a retreating owner is left alone |
| `MutationLease` | the panel's operations over all servers' leases and the provisioning mutex |
| `ManagedAccess` | one user's access to one inbound: requests, the reconciler, the node, the guard's schedule, the deletion |
| `AgentPresence` | one agent: its connections and their handlers, the registry, the row, the collector |
| `TrafficMeter` | the traffic of one user on one node: Xray's counters, reports, the restart detector, the row |
| `TrafficLimit` | the user's package and limit, and the pass that enforces them by taking clients off and putting them on |
| `MC...` | the instances for TLC |
| `..._proofs` | the inductive invariants and the theorems of `TunnelGuard`, `ForwardControl`, `RemoteInstallation`, `MutationLease`, `ManagedAccess`, `AgentPresence`, `TrafficLimit` (with `TrafficMeter`) |

`TunnelGuard` and `ForwardControl` are composed through `TunnelContract`: `TunnelGuard` implements
it (checked and proved), and every guard step in `ForwardControl` is one of its actions. In the
same way `RemoteInstallation` implements `ServerOwner` (checked and proved), which is what the
lease of a server means to everyone else; `MutationLease` shows that the mutexes the lease is
made of do not lock each other out. `ManagedAccess` composes panel, node and guard in one module.
`TrafficLimit` extends `TrafficMeter`: it reads the row the meter writes, resets it, and changes the
clients whose counters the meter reads.

### TunnelGuard and the code

`mem` is `g.tunnels`, `disk` the state file, `inb` the Agent's inbounds (configured or
running), `nft` the resources with rules in the table, `pc` and `job` the holder of
`tunnelOpsMu` with its local copy of the record, `rpc`, `due`, `timer`, `wake` the goroutine
that runs `InitializeTunnelSafety` and `Run`. A request that passes the guard's tests starts a
job; every later step of the job ends in the outcome of one call, with a failing twin:

| code | actions |
|---|---|
| `ApplyTunnel`, renewal | `RenewTunnel`, `StoreRenewal(Fails)` |
| `ApplyTunnel`, newer generation | `ApplyTunnel`, `StoreProvisioning(Fails)`, `RebuildTunnelACL(Fails)`, `AddInbound(Fails)`, `StoreActive(Fails)`, `UndoAdd` |
| `transitionTunnelForCleanup`, `cleanupTunnel`, expiry | `TransitionTunnelForCleanup`, `StorePending(Fails)`, `WithdrawInbound(Fails)`, `StoreTerminal(Fails)` |
| `InitializeTunnelSafety`, `PrepareTunnelACL`, `failClosedTunnelACL` | `ReadACLResources`, `PrepareTunnelACL`, `SkipTunnelACL`, `FailClosedTunnelACL` |
| `processDueTunnels`, `Run` | `Scan`, `SkipDue`, `ExpireOrCleanupTunnel`, `WorkDone`, `Sleep`, `Wake` |

A store that fails before the rename is undone in memory; one that fails after it (the sync
of the directory) stays and reports an error. A crash loses memory, keeps the file, leaves the
unanswered call either way, and with the host loses the nft table. Deadlines are kept as the
ticks still to run. In a rebuild the reading of the resources and the writing of the table
are one step for a job, which holds `tunnelOpsMu`: only `FailClosedTunnelACL` can come between,
and it does not change which resources need rules. In the start-up repair they are two steps.
Left out: back-off beyond one delay, error texts, client schedules (their writes to the same
file only make durable what memory holds), and a state file that goes back to an older version.

### ForwardControl and the code

`rule` is the row of `user_forward_rules` with, of its hops, the generation and whether they
exist; `op[o]` is an operation with the copy it read; `holder` the leases. Every operation on a
rule takes the lease of the entry's server and only operations on this rule are modelled, so
the leases are one lock. `phase`, `gen`, `live` are the guards.

| code | actions |
|---|---|
| `CreateUserForward` handler, `handleForwardItem`, `HandleAdminUserTunnelGrantAction` | `CreateUserForward`, `HandleForwardItem`, `HandleGrantAction` |
| `SetUserForwardDesired`, `PrepareUserForwardSystemApply/-Suspend` | `SetUserForwardDesired`; `PrepareRefused`, `PrepareReads`, `PrepareWrites`; `GetUserForward` |
| `reconcileForwards` | `ListForwardReconcileCandidates`, `ReconcileForwards` |
| `acquireForwardLeases` | `AcquireForwardLeases`; `NoEntry` where the copy has no hops and the code indexes the first |
| `deployForwardOnce`, `suspendForwardEntry`, `deleteForward` | `MarkProvisioning`, `Repeat`, `Accept`, `Refuse`, `Acknowledge`, `Finish`, `Fail` |

Faults share one budget: a call or its answer is lost (`Lost`) or sent again to the next
address (`Resend`), a call nobody waits for is carried out later (`LateAccept`, `LateAppear`), a
request is cancelled or an installation owns the server (`Abandon`), the panel stops and starts
(`Restart`), a lease lapses (`LeaseLapses`). Assumed: a database write succeeds unless its
operation is cut; SQLite serialises writers; the two queries of `GetUserForward` see one
state; the process supervisor starts a dead panel again. Left out: port conflicts and
reallocation, usage, user deletion, the hops' observed states (nothing decides on them).

### RemoteInstallation and the code

`row` is the row of `remote_server_installations`, `exists` the server's own; `mutators` are the
ordinary operations that hold the shared lease, `deploying` the Prepare that holds it alone;
`calls` are the HTTP calls the panel has yet to finish, whether or not somebody still waits for
them. An installer is its nonce: `pc` and `try` say where the script stands, `attempted` is its
`PREPARE_ATTEMPTED`, `node` what it has made of the node, `renewing` its worker.

| code | actions |
|---|---|
| `BeginRemoteInstallation`, `RenewRemoteInstallation` | `HandlerStarts` (reads the clock), then `BeginInstallation`, `RenewInstallation` |
| `VerifyRemoteManagementPorts` | `MarkReady`, without the lease |
| `PrepareRemoteInstallation` | `PrepareStarts`, `PrepareEnds` |
| `Quiesce-`, `Finalize-`, `AbortRemoteInstallation` | `QuiesceInstallation`, `FinalizeInstallation`, `AbortInstallation` |
| `AcquireRemoteServerMutationLease`, `DeleteRemoteServer` | `AcquireMutationLease`, `Release`, `DeleteRemoteServer` |
| the script: begin, `assert_install_lease`, probing, prepare, commit, `finish_install`, `rollback_install`, `retry_remote_install_post`, `start_install_renewal` | `Start`, `Proceed`, `Answer`, `AttemptFails`, `Fail`, `Restored`, `RollbackFails`, `WorkerRenews` |
| network, power, process | `Lose`, `Die`, `Restart`, `Tick` |

A handler that holds the lease alone is one step; Prepare is two, because it deploys for minutes.
A Prepare is done when its context has ended: what it has asked the node to do by then is part of
it. Left out: the ready policy's contents, the asset download, the legacy clean-up's own files.

### MutationLease and the code

An operation is a plan, the list of locks its code asks for in order (`Plan`): a forward
(`HandleUserForwards`: its servers exclusively, the mutex in `CreateUserForward`, the servers
again in the deployment, where the context says they are held), a tunnel chain, the addition of a
client (`addUserToInboundWithExpiry` with `SaveUserInboundConfig`), provisioning
(`WithUserProvisioningLease` around a lease: `removePackageUserInboundConfig`,
`applyPreparedInboundCredentialForUser`, routed outbounds), the handlers of an installation and its
Prepare. `reader`, `writer` and `parked` are a `sync.RWMutex`: `Announce` is the `Lock` that keeps new
readers out and waits for the old, `Unlock` lets the parked readers in. A context may end at any
time (`Cancel`), and is read before and after a wait, never in it. Having the lock, an operation is
refused if the server's installation is live (`Clear`).

### ManagedAccess and the code

`source` holds the two rows of `user_inbound_access_sources` the user may have for the inbound: that
of the selection and, once a deletion is prepared, the review of a saved credential. `saved` is the
row of `user_inbound_configs`, `client` the node's, `schedule` and `attempt` the guard's entry and the
removal it has in hand. `rec` is what runs under `reconcileMu` with what it has read; `sync` and `admin`
are the administrator's requests that run beside it.

| code | actions |
|---|---|
| `ActivateUserNodeSelection`, `DeactivateUserNodeSelection` | `SelectNode`, `DeselectNode` |
| `HandleAdminGrant`, `syncGrantSources` | `ChangeGrant`, `ReadGrant`, `SyncGrant` |
| `NewUserStatusHandler`, `addUserToInbound` | `Disable`, `RemoveDisabled`; `Enable`, `ResolveAccess`, `ReserveEnabled`, `AddEnabled`, `EnableRefused` |
| `PrepareUserDeletion`, `FinalizeUserDeletion` | `PrepareDeletion`, `FinalizeDeletion` |
| `reconcileAll` | `ScanRead`, `ScanSet`, `Reconcile`, `ReconcileAgain`, `FinalizeDeletion` |
| `reconcileSource`, adding | `TurnOff`, `Judge`, `ReserveCredential`, `ScheduleExpiry`, `Publish`, `MarkApplied`, `Fail` |
| `reconcileSource`, removing | `Withdraw`, `RemoveClient`, `Unschedule`, `MarkApplied`; `ReserveCredential` when another access remains |
| `guard.go` | `TakeDue`, `RemoveDue`, `FinishAttempt`, `GuardRestart` |

A generation only counts by being the one that was read: `settled` says that a source's generation is
the applied one, `fresh` that the reconciler's copy still has it. Assumed: nodes without a native
expiry; the user's package has the inbound or has not, throughout; one change of the account's
state and one change of the grant at a time; a call given up on has taken effect by then or never.
A grant's `on` is "enabled and under its quota". Left out: start dates, private routed access, the
forwards in a deletion's readiness, re-creation of a deleted user, back-off; the limiter push
before a schedule is part of the call that may fail.

### AgentPresence and the code

`conns` is the registry's entry of the token, `conflict` its lock by an address, `conn` the
connections and where their handlers stand, `server` the row, `collector` the state of
`TakeOfflineServersToNotify`, `sweep` what `CleanupStaleConnections` is removing. Times are ages in
ticks of the heartbeat interval.

| code | actions |
|---|---|
| `handleAuth` | `ReadServer`, `Refuse`, `MarkConflict`, `FindPrevious`, `Evict`, `Register`, `UpdateHeartbeat`, `Announce` |
| the read loop and the end of `handleConnection` | `HandleTraffic`, `HandleHeartbeat`, `ReadFails`, `ReadFailsEarly`, `CheckOwn`, `Unregister`, `MarkOfflineByID` |
| `CleanupStaleConnections` | `CloseStale`, `DeleteStale` |
| the collector | `MarkOfflineServers`, `SelectOffline`, `SetNotified`, `TellOffline` |
| the agent | `Dial`, `Hangup`, `HttpReport`; `Stop`, `Start`, `Move`, `Break` |

The comparison of the entry and its deletion are two steps (`CheckOwn`, `Unregister`), as in the
code; an eviction is its `LoadAndDelete` of whatever is there and the close of what was found.
Assumed (`Punctual`): a handler's database calls take less than a tick. The HTTP report's SELECT and
UPDATE are one step. Left out: key exchange, renewal of the token, address throttling (a right
token clears it first), upgrade windows, database errors, connections whose address is not known
(they never conflict). A panel that stops between `SetNotified`
and `TellOffline` loses that notice.

### TrafficMeter, TrafficLimit and the code

The user has two clients on a node: the package's, which a row of `user_inbound_configs` names
(`config`), and that of a private route. `present` and `counter` are Xray's, `boot` which start of it this is;
`known` is `xray_boot_time` of the server's row, `cache` what the detector remembers of the server,
`row` the row of `user_traffic` with up- and downlink in one. `report` holds the reports in hand, any
number at once, each with what the panel has read for it so far: web-socket handlers, the HTTP handler
and the collector's pull are goroutines that nothing keeps apart. `check` is where the pass of `CheckAll` stands, with the limit it listed.

| code | actions |
|---|---|
| Xray and the Agent | `Pass`, `XrayRestarts`, `SetClient`; `Push` |
| `UpdateRemoteServerHeartbeatWithRestart` | `Heartbeat` |
| `handleTraffic`, `CollectFromRemoteServer` | `Receive`; `Pull`, `Fetch` |
| `ProcessRemoteMetrics` with `CheckAndUpdate`, `UpsertUserTraffic` | `Judge`; `Select`, `Update` |
| `CheckAll`: a package that ended | `List`, `Expel`, `Suspend`, `Drop` |
| the month's reset | `Reset`, `Mark`, `Ask`, then `Restore`, `Resume`, `SetOver` |
| the comparison | `Compare`; `Remove`, `Suspend`, `SetOver`; or `Restore`, `Resume`, `SetOver` |
| administrator, calendar | `SetLimit`, `ManualReset`, `MonthTurns`, `PackageEnds` |
| failures | `Lose`, the second alternatives of the steps, `PanelRestarts` |

Assumed: heartbeats arrive in order; a call to the node has taken effect or never will when it is given
up; reads of the database succeed, but for that of `is_over_limit`, whose error the code takes as no,
and of the traffic, without which it passes the user over. A client that is taken off may lose its
counter or keep it. Left out: multipliers (without them the limit is compared with this row), the rows
per email and tag, warnings, the assignment of packages, other grants of the inbound; and the enabling
and disabling of accounts (`NewUserStatusHandler`), so that the account is active throughout: what that
handler does beside a pass is described under the departures.

## Runs

Passing runs:

| run | instance | shows |
|---|---|---|
| `tunnel_guard` | two of three resources: two on one port, one of them with CIDRs, generations to 2 and a crash; or two with CIDRs | `NoOrphanInbound`, `PortExclusive`, `GenerationFence`, `RebuildKeepsACL`, `ImplementsContract` |
| `tunnel_guard_live` | one resource with CIDRs, leases to 2 ticks, hard deadline 1, retry 1, sleep 3 | `LeaseEnforced`, `PendingSettles` |
| `forward_control` | two hops, two requests that may be under way at once beside the reconciler, one fault | `UnwantedGoesDown`, `ActiveComesUp`, `CleanupFinishes` |
| `forward_cleanup` | three hops, a request slot beside the reconciler, three requests, one fault | `EntryLast`, `DeployedTogether`, `ReleasedForGood` |
| `remote_installation` | two installers (symmetric) whose calls are tried twice, one operation, one call nobody waits for, leases and lifetime of 2, clock to 2 | `Excluded`, `QuietRestore`, `CommitAgreement`, `LockEnds`, `NoWayBack`, `ImplementsOwner` |
| `mutation_lease` | two operations of every kind but provisioning, two servers | `NoCircularWait`, `WorksUndisturbed`, `Finishes`; deadlock |
| `managed_access` | three requests or crashes of the panel, one fault, instants 0 to 2, with and without a package | `DeletedIsGone`, `RevokedIsGone`, `DeadlineKept` |
| `managed_access_live` | the same with re-enabling, instants 0 and 1 | `RemovalEnds` |
| `agent_presence` | two connections at a time, two addresses, every upset | `NoGhost`, `OncePerOutage`, `GoneIsMarked`, `GetsIn` |
| `traffic_limit` | two reports in hand (symmetric), two clients of a unit each, a limit of one, two starts of Xray, one request or turn of the calendar, one failure | `NeverOvercharged`, `DroppedIsGone`; deadlock |

**Bounds.** *Guard*: a port conflict needs two resources on one port (`t1`, `t2`), a rebuild that could
lose another's rules two with CIDRs (`t1`, `t3`). Three at once are more than the run can enumerate, so
the constraint `Pairs` takes two at a time: `t1` and `t2` over two generations and a crash; `t1` and `t3`
over one generation and without a crash, `t3` being withdrawn only by its lease. Any number of each is
proved. Generation 2 is a newer one beside an old one; one crash at every step is every crash that
differs, because a second starts from a state a first could also leave. One retry delay and a sleep longer
than every lease let the scheduler be late. *Forward*: `forward_control` has two requests and the
reconciler, three operations at once, each of which may be anywhere; two hops, because three (which hold
as well: 534,148 states) take longer than a run should. `forward_cleanup` has three hops, whose middle one
fails with the exit applied and the entry not, and one request at a time but three of them: deploy, revoke
and delete in every order. Its safety properties are proved for any number of each. One fault of any kind
at any step; `MaxGen` of 6 is met only by the reconciler's repeated revocation of a forward whose
entry's guard never saw it (not_found is no success for a suspension): there the run stops counting,
and everything before has happened. *Installation*: two nonces compete for a row, one operation
competes with both; a second attempt makes a call late that overtakes its retry or is overtaken by
it, and the worker's call is late whenever its installer is gone; a lease of two ticks runs out at
each step, may be renewed in between, past the lifetime if nothing capped it, and taken over at its
end. *Leases*: a circle of two operations is the shortest, and two servers have two orders; forwards
and chains name up to both. *Access*: three requests are select, change and delete, or delete beside
a change that began before; one fault in any call or of the guard; two instants after the first let
a deadline pass and a newer one be set. *Presence*: with two connections one replaces another, and a
third could only replace one of them; every threshold is one or two ticks, so that each may lapse
before or after another. *Traffic*: with a unit of each client either counter can go back alone, and
the second start makes one boot time stale; a limit of one unit is reached by either client, so that
both limit and reset matter to every step of a pass. The constraint `Focus` drops what can no longer
violate `NeverOvercharged` (`crossed`, `misjudged`) and lets two reports be in hand only while no pass,
request or turn of the calendar has come and both clients are there, one report beside all of these;
safety is proved for any bounds and without it. Only where the
system comes to rest by its bounds (requests used up, everything ended) deadlock is not checked.

**Fairness.** *Guard*: the clock, the supervisor, the job in hand and the scheduler go on (weak);
the scheduler's attempts, the store of a pending state, the withdrawal and the store of the
final state succeed in the end if tried for ever (strong): a Go mutex starves nobody, and
without a disk or an Agent that ever answers nothing can be promised. Requests, faults, failing
outcomes and crashes are never fair, here and below. *Forward*: requests go on, and the reconciler
does, and they get the leases (strong, for the same reason), the reconciler lists again (weak, its ticker), each guard
finishes what it accepted (weak, what `TunnelGuard` shows as `PendingSettles`), and a renewal that is
refused is at some time tried after the last lease has run out (strong). `UnwantedGoesDown`
speaks of behaviours without a late call and without an apply that the user overtakes between its read
and its write (`Overtaken`): with either, the lease is the backstop, which is the guard's `LeaseEnforced`.
`DeployedTogether` speaks of states before any fault, for a late call is accepted whatever its operation has become. *Leases*: goroutines run and a
mutex starves nobody (strong). *Access*: the reconciler, the guard and the handlers go on (weak); each
pass takes every pending source and every grant, so that none is passed over for ever (strong);
what fails is bounded, as a node that never answers cannot be cleaned. The properties end where the
panel is down. *Presence*: handlers, collector and clock go on, a running agent dials, sends
heartbeats and notices that it was closed (weak; ticks strong, since a handler at work delays
them). `GetsIn` assumes that from some time on the agent runs at one address,
connections do not break and the panel is not restarted (`Calm`); `GoneIsMarked` only the last.

**Symmetry** is used in `remote_installation`, `traffic_limit` and `lease_order`, which check no liveness.

## Where the code departs from its documents

Two violation runs, each with a quote in `PROJECT.json`:

- `lease_order`: `packages.go:1413` explains why the server comes before the provisioning mutex, and
  `packages.go:1624`, `:1430` and `routed_outbound.go:1002` take them the other way round: an operation
  of each kind on one server wait for each other, without a timeout.
- `managed_access_enable`: re-enabling an account (`users.go:267`) adds clients without the lease that
  `user_deletion.go:60` relies on; one that lands after the deletion stays for ever. The same call
  breaks `RevokedIsGone`, and is made after a traffic limit and when packages change.

Others were met while modelling. The modules contain them, but the properties are stated around
them, and no run is kept for them:

- `tunnels.go:778`: the first successful apply does not wake the scheduler, which may sleep up to an
  hour past the lease; the next renewal or request does wake it.
- `tunnels.go:624`: `Run` repeats the start-up repair beside the server, where `:664` speaks of
  restoring before the guard serves; its older list of resources overwrites the rules of a tunnel applied
  meanwhile. `RebuildKeepsACL` excepts that write, and only that; without the exception TLC finds the trace.
- `handler/forwarding.go:1069`: `deployForwardOnce` does not read the rule again under its leases. A
  create is cut short before any guard heard of it, an apply waits, each guard answers the deletion
  `not_found`, which counts as removed, the ports are released, and then the apply is accepted.
  `ReleasedForGood` asks that the forward was once deployed.
- `handler/forwarding.go:1104`: a renewal under way overwrites `cleanup_pending`; if the deleting
  request is then cut short nobody cleans the forward up. `CleanupFinishes` asks that the deletion
  stays recorded.
- `storage/forwarding.go:1278`: outcomes are recorded by rule id, so an old deployment marks a newer
  generation applied; hence "suspended means down" at rest is no property.
- `storage/forwarding.go:1335`: the reconciler's apply, prepared while the user suspends, gives the
  hops a newer generation and brings the suspended entry up. When it is cut short there, and the request it
  overtook has recorded its success, nothing but the lease takes the entry down: with two requests at once
  and one restart TLC finds that in 28 steps. `UnwantedGoesDown` excepts such behaviours (`Overtaken`).
- `expiry_guard_asset.go:288`: Renew judges the row by the clock it read before it waited for the
  lease, so that a row that expired meanwhile comes to life again, which `traffic.go:10031`
  excludes ("Expired, rolling-back, aborted, and completed transactions cannot be resurrected").
  `NoWayBack` speaks of the other three.
- Managed access: when the deadline passes between the write of the schedule and the addition of the
  client, the guard finds no client, removes its entry, and then the client is added; if the panel
  stops there, an expired client stays until it is back. `DeadlineKept` speaks of settled sources.
- `remote_ws.go:743`: the entry is compared and deleted in two steps, so a connection that registers
  in between is taken out of the registry (and `CleanupStaleConnections` does the same at :1483). It
  goes on being served and marked connected, but the panel cannot reach the agent through it.
- `remote_ws.go:1142`: a traffic message ends an outage without announcing the recovery.
- `traffic_limit_enforcer.go:153`, `:168`, `:210`: a user comes back under its limit, `restoreUserToInbounds`
  asks `addUserToInbound`, which refuses because `is_over_limit` is still set (`packages.go:1691`), and
  only then is the flag cleared. The package's client does not come back, against `:150` and `:165`
  ("Switching an already-blocked user to explicit unlimited must restore access"). The private route does.
- `traffic_limit_enforcer.go:201`: a removal that fails is not tried again once the user is marked, so
  that the client stays. A failed write of `last_reset_at` resets the month again at the next pass;
  `RemovePackageFromUser` leaves `is_over_limit` set for the next package.
- `users.go:262`: enabling an account that is over its limit calls `resumeUserPrivateRouted`
  (`user_routed_outbound.go:621`), which does not ask for `is_over_limit`: the private route is back, and no
  pass takes it off (`traffic_limit_enforcer.go:198` wants a user not marked yet). With these two, "marked
  over the limit means no client" is no property of the code, without any failure, and none is stated.
- `storage/traffic.go:12130`, `:12177`: `UpsertUserTraffic` reads and writes in two statements, without a
  transaction or a lock, and reports overlap: two that are judged on one baseline are both charged from it,
  and one that is judged after a later one makes the next count in part again. `NeverOvercharged` excepts
  both (`crossed`), that is, it speaks of reports in order, each judged after the last was written.
- `restart_detector.go:31`: a report that is held against the boot time of another start of Xray (the
  heartbeat is late, or without a boot time) makes the next one count in full again;
  `NeverOvercharged` excepts it (`misjudged`). An email whose user is not found in one report may be charged
  twice as well and is not modelled.

Two things the code does are accepted as behaviour: `NoEntry` ends the panel's process, and a
forward that is resumed after its deletion becomes active without hops.

## Proofs

The proofs are about the specifications as they are checked, for every value of the constants that
meets the module's assumption. A common shape: `Inductive`, `Spec => []IInv`, from one lemma per group
of actions; the theorems follow.

`TunnelGuard_proofs` proves, for any set of resources, any ports, deadlines, delays, generations
and crashes (`TunnelAssumption` alone):

| theorem | says |
|---|---|
| `TypeCorrect` | `Spec => []TypeOK` |
| `NoOrphan` | `Spec => []NoOrphanInbound` |
| `PortsExclusive` | `Spec => []PortExclusive` |
| `Fenced` | `Spec => GenerationFence` |
| `ACLKept` | `Spec => RebuildKeepsACL`, for any resources with CIDRs |
| `Implements` | `Spec => ImplementsContract`: the refinement |

All rest on `Inductive`, `Spec => []IInv`. None of the properties is inductive alone: while a job
adds or withdraws an inbound, safety depends on what the job has stored before. `IInv` is
`TypeOK` and `PortExclusive` with
- `RecordsOK`: every record is well formed and the file's may only lag behind memory's where the
  resource was being served, at the same generation (the one write whose failure is ignored, when
  the start-up repair fails closed);
- `JobOK`: at each step of a job, how its local copy relates to the record in memory, so that
  storing it never closes a record with an inbound and never goes back a generation, and that
  its port is free until the inbound is added;
- `LiveOK`: every inbound has an open record in memory; with `RecordsOK` also in the file, which
  is what a crash leaves;
- `ACLOK`: the table and the repair's list hold only resources with CIDRs.

`ACLKept` adds `RepairOK`: before the server is up the list the repair has read is still what the records ask for.

The preservation proof has one lemma per group of actions and one step
per action; `Implements` maps each step to a contract step or a stutter.

`ForwardControl_proofs` proves, for any number of hops, any set of concurrent requests, and any
number of requests, generations and faults (`ForwardAssumption` alone):

| theorem | says |
|---|---|
| `TypeCorrect` | `Spec => []TypeOK` |
| `EntryIsLast` | `Spec => []EntryLast` |
| `AllTogether` | `Spec => []DeployedTogether` |
| `ReleasedOnlyDoomed` | `Spec => ReleasedForGood` |

All rest on its `Inductive`. The properties speak of row and guards; why they hold is in the
operations between the two, which `IInv` therefore describes:
- `TypeInv`, `Shapes`: kind, call, hop and step of an operation go together, so that a
  deployment runs from the exit to the entry and a deletion from the entry to the exit;
- `Leases`: past its wait an operation on hops holds the leases, and one that read no hops is
  right that they are gone: hops are released once and never come back under this rule;
- `Guards`: a guard knows a generation exactly when it knows the resource, and a resource at
  rest has no inbound;
- `Order`: the hops behind the one a deployment calls know its generation, and so do the hops
  behind a late apply, which keeps what its operation knew. This is what makes `EntryLast`
  survive every cut and every duplicate;
- `Release`: a deletion leaves only doomed hops behind it, and once a deployment was recorded
  the entry's guard knows the resource, so that removing it is never waved through as `not_found`;
- `Together`: before any fault a deployment has exactly its own generation behind it.

Most steps move no guard and start no call; `CalmKeeps` disposes of them at once. One lemma per
remaining action shows what the operation that moves knows, and `HolderKeeps` that no other is
disturbed, because it has no leases.

`RemoteInstallation_proofs` proves, for any installers, operations, lifetimes, attempts and bounds
(`InstallationAssumption` alone):

| theorem | says |
|---|---|
| `TypeCorrect` | `Spec => []TypeOK` |
| `MutationsExcluded` | `Spec => []Excluded` |
| `RestoreIsQuiet` | `Spec => []QuietRestore` |
| `PanelAndNodeAgree` | `Spec => []CommitAgreement` |
| `OnlyForward` | `Spec => NoWayBack` |
| `LockIsFreed` | `Spec => []LockEnds` |
| `OneOwner` | `Spec => ImplementsOwner`: the refinement |

`IInv` adds to the properties `Blank` (a row without a nonce is no row), `Dated` (no handler has read a
clock in the future: what a stale clock finds expired is expired), `Begun` (only a Begin makes a row
that is not an abort's tombstone), `Nodes` (whoever calls Finalize, also late, has committed its
node), `Quiesced` (who restores after an attempt to prepare had its row set rolling back, and its first
row stays so) and `Deployer`. `QuietRestore` rests on `Quiesced`: a Prepare that comes late finds the row
rolling back, one that came before kept Quiesce waiting. `LockEnds` rests on an invariant of its own,
`Capped` (no row expires later than `MaxLife` after its Begin), which needs only the types: that a lock
is freed needs nothing but time to pass, no step of its installer or of the panel.

`MutationLease_proofs` proves, for any operations, any finite set of servers, any hops and any
kinds of operation (`LeaseAssumption`), the last of the three where nobody provisions
(`"provision" \notin Kind`, the exception `lease_order` shows to be necessary):

| theorem | says |
|---|---|
| `TypeCorrect` | `Spec => []TypeOK` |
| `Undisturbing` | `Spec => []WorksUndisturbed` |
| `NoCircle` | `"provision" \notin Kind => (Spec => []NoCircularWait)` |

`IInv` says of each operation that what it holds and what it will ask for are in one order, the
servers by their identifiers and then the mutex, or held already and then reentered (`InOrder`,
`Before`; the plans are shown to be so one by one); that what it holds it holds in the locks
(`HeldOK`); of each lock, that whoever is in it holds it or is about to (`ReaderOK`, `WriterOK`,
`ParkedOK`); and `Undisturbed`. A circle of waiting operations then has none: of the locks they wait
for one is last (`LastLock`, the servers being finitely many), and its writer, or the reader that
the writer waits for, could wait only for a later one (`ReaderWaitsLater`, `WriterWaitsLater`).

`ManagedAccess_proofs` proves, for any bounds, the first theorem for any requests (its lemmas
`...Type`, one per group of actions, need no other invariant) and the other three for any without
re-enabling (`"enable" \notin Requests`, the exception `managed_access_enable` shows to be necessary):

| theorem | says |
|---|---|
| `TypeCorrect` | `Spec => []TypeOK` |
| `DeletionLeavesNothing` | `Spec => []DeletedIsGone` |
| `RevocationStays` | `Spec => []RevokedIsGone` |
| `DeadlineIsKept` | `Spec => []DeadlineKept` |

Each property is about what is settled, and what settles it was read many steps before. `IInv` says
for each stage of `reconcileSource` what its copy is still good for: `Copied` (a fresh copy agrees with
its source, and the source of a stale one is not settled), `Added`, `Withdrawn` (how far an addition or
a removal has come, and that no addition is on its way to a revoked source), `Revoked`, `Reserved`
(nothing is on the node without a saved credential, by which a deletion finds it), `Left` and `Gone` (the
tombstone ends additions), `Due` and `Scheduled` (the guard has the deadline of what is settled or about
to be, and its attempt is at an older one), `Packaged`, `Reviewed`, `NoEnable`.

`AgentPresence_proofs` proves, for any number of connections and addresses and any thresholds
(`PresenceAssumption` alone):

| theorem | says |
|---|---|
| `TypeCorrect` | `Spec => []TypeOK` |
| `RegisteredIsServed` | `Spec => []NoGhost` |
| `NotifiedOnce` | `Spec => OncePerOutage` |

`IInv` adds `Recorded` (a notice that was given is on the row until the next sign of life), `Chosen` and
`Telling` (what the collector has selected and not heard of since is an outage not told yet).

`TrafficLimit_proofs` proves, for any number of reports in hand, any amounts of traffic, any limit,
starts of Xray, requests and failures (`MeterAssumption` and `LimitAssumption`):

| theorem | says |
|---|---|
| `TypeCorrect` | `Spec => []TypeOK`; among others, nothing negative is ever added to a row |
| `ChargedOnce` | `Spec => []NeverOvercharged`, whose conditions are `misjudged` and `crossed` |
| `DroppedLeavesNothing` | `Spec => []DroppedIsGone` |

That no more is charged than was passed does not survive a step by itself: the reports in hand, and what
Xray has counted since, will still be charged. `IInv` is
- `Reserved(P)`: with `P[s]` what had passed when the report `s` was counted, all that is charged or was
  reset, and all that an open or a waiting report can still add, fits into `P[s]`; what a later report
  counts more fits into what passed later. The invariant says that there is such a `P`;
- `Ordered`: one report is open at a time, those counted before it are late, and of two reports the one
  counted first is known;
- `Remembered`: while a report is being charged the detector remembers the start it is of, or none: what it
  will say of the next report is about this one;
- `Selected`: what a report will add is what it would add to the row as it is now: a reset in between
  changes what is charged, not the base;
- `Expelled`: where a pass has found it safe to drop the package, the client and its row are gone, and
  nothing puts the client back.

The second to the fourth, with `Reserved`, hold until a report is misjudged or crossed (`MeterInv`).
The lemmas on the meter (`TrafficMeter`'s steps and `SetClient`) are used for every step of the pass that
changes a client or the row.

Only model-checked: all liveness (fairness and ENABLED are beyond the prover).

## Not modelled

What the inventory marks so. The usage ledger of forwards is arithmetic over samples, planned
below; configuration text, subscriptions, templates, ACME, DDNS and the like are conversion and
I/O without a protocol of their own; the cryptography of the wire formats is out of reach; the
installer's changes of files on the node are one state, whatever they are.

## Plan

1. `TunnelGuard`, `TunnelContract`, `ForwardControl` and their proofs: done.
2. `RemoteInstallation`, `ServerOwner`, `MutationLease`, `ManagedAccess`, `AgentPresence`,
   `TrafficMeter`, `TrafficLimit` and their proofs: done.
3. Port reallocation (`removeConflictedForwardResources`, `ReallocateUserForwardPorts`) in
   `ForwardControl`: new resource ids, ports shared by two forwards, the promise "a port has one owner".
4. The usage ledger of forwards; the enabling of accounts beside `CheckAll`; the charge weighted by node.
5. The nonce window as a pure function against a reference; then web-socket calls and tokens.
