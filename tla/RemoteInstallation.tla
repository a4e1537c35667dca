------------------------- MODULE RemoteInstallation -------------------------
(***************************************************************************)
(* The installation of a node: the panel's durable row                     *)
(* (internal/storage/traffic.go), its HTTP handlers                        *)
(* (internal/handler/expiry_guard_asset.go) and the installer, the shell   *)
(* script the panel serves (internal/handler/agent_connect.go).            *)
(*                                                                         *)
(* An installer is named by its nonce. It begins a transaction, keeps it   *)
(* alive by renewing it, changes the node, has the panel prove it can      *)
(* reach the node and deploy what it wants there, commits the node and     *)
(* finalizes the row; when anything fails it quiesces the panel, restores  *)
(* the node and aborts the row. Ordinary operations of the panel on the    *)
(* node are refused while the row is live. A call that is given up may     *)
(* still reach the panel; a handler reads the clock before it waits for    *)
(* the server's lease; the panel restarts, the installer dies, and its     *)
(* renewal worker may outlive it.                                          *)
(*                                                                         *)
(* The lease is what MutationLease makes of a read-write mutex: a handler  *)
(* that holds it alone is one step, except Prepare, which deploys while it *)
(* holds it.                                                               *)
(***************************************************************************)
EXTENDS Integers, FiniteSets

CONSTANTS Nonce, Mutation, NoNonce,
          TTL,       \* remoteInstallationTTL
          MaxLife,   \* remoteInstallationMaxLifetime
          MaxTry,    \* attempts of retry_remote_install_post
          MaxLate,   \* bound on the calls under way that nobody waits for
          MaxNow     \* bound on the clock

ASSUME InstallationAssumption ==
  /\ NoNonce \notin Nonce
  /\ TTL \in Nat \ {0} /\ MaxLife \in Nat /\ TTL <= MaxLife
  /\ MaxTry \in Nat \ {0} /\ MaxLate \in Nat /\ MaxNow \in Nat

VARIABLES
  now,
  row,        \* the row of remote_server_installations
  exists,     \* the server has not been deleted
  mutators,   \* ordinary operations that hold the lease
  deploying,  \* the Prepare that holds the lease, if one does
  calls,      \* HTTP calls of installers the panel has not finished
  pc, try,    \* each installer: where it is, its attempt at the call it waits for
  attempted,  \* installers with PREPARE_ATTEMPTED = 1
  node,       \* what each installer has made of the node
  renewing,   \* renewal workers that run
  born        \* how many times a nonce's lock was created, up to 2

panel == <<row, exists, mutators, deploying>>
script == <<pc, try, attempted, node, renewing>>
vars == <<now, panel, calls, script, born>>

---------------------------------------------------------------------------
(* The row. *)

Time == 0..MaxNow
Row == [nonce : Nonce \union {NoNonce}, started : Int, expires : Int,
        ready : BOOLEAN, prepared : BOOLEAN, completed : BOOLEAN,
        rollingBack : BOOLEAN, aborted : BOOLEAN]

NewRow(n, started, expires, aborted) ==
  [nonce |-> n, started |-> started, expires |-> expires, ready |-> FALSE, prepared |-> FALSE,
   completed |-> FALSE, rollingBack |-> FALSE, aborted |-> aborted]

NoRow == NewRow(NoNonce, 0, 0, FALSE)

\* remoteInstallationMatches
Matches(n, t) ==
  row.nonce = n /\ ~row.completed /\ ~row.aborted /\ row.expires > t

\* remoteInstallationUsable
Usable(n, t) == Matches(n, t) /\ ~row.rollingBack

\* IsRemoteServerInstallationActive
Active == row.nonce # NoNonce /\ Matches(row.nonce, now)

\* Another nonce may take the row.
Vacant(t) ==
  row.nonce = NoNonce \/ row.completed \/ row.aborted \/ row.expires <= t

\* Nobody holds the lease, so that a handler may hold it alone.
Free == deploying = {} /\ mutators = {}

---------------------------------------------------------------------------
(* The installer and its calls. *)

\* What the installer calls where it waits for an answer.
OpOf == [beginning |-> "begin", assert1 |-> "renew", probing |-> "ready", assert2 |-> "renew",
         preparing |-> "prepare", assert3 |-> "renew", finalizing |-> "finalize",
         quiescing |-> "quiesce", aborting |-> "abort", worker |-> "renew"]

Waits == DOMAIN OpOf \ {"worker"}
PC == Waits \union {"idle", "locked", "mutating", "committed", "restoring", "ended"}
Node == {"old", "changing", "new"}

\* seen: the time the handler has read, -1 before it runs or if it reads none.
Call == [from : Nonce, at : DOMAIN OpOf, try : 0..MaxTry, seen : -1..MaxNow]

Op(c) == OpOf[c.at]

\* The installer still waits for the answer to this very call.
Awaited(c) == pc[c.from] = c.at /\ try[c.from] = c.try

Late == {c \in calls : ~Awaited(c)}

OnceMore(p) == MaxTry + 1      \* mutant of Tries: off by one

\* Management readiness has its own loop; Prepare is not retried.
Tries(p) == IF p = "preparing" THEN 1 ELSE MaxTry

Sent(n, p, k) ==
  IF p \in Waits THEN {[from |-> n, at |-> p, try |-> k, seen |-> -1]} ELSE {}

Go(n, p) ==
  /\ pc' = [pc EXCEPT ![n] = p]
  /\ try' = [try EXCEPT ![n] = IF p \in Waits THEN 1 ELSE 0]

\* Where a successful answer leads.
After == [beginning |-> "locked", assert1 |-> "mutating", probing |-> "assert2",
          assert2 |-> "preparing", preparing |-> "assert3", assert3 |-> "committed",
          finalizing |-> "ended", quiescing |-> "restoring", aborting |-> "ended"]

\* Before the node is changed, while it is, and when nothing is left to keep.
Untouched == {"beginning", "locked", "assert1"}
Changing == {"mutating", "probing", "assert2", "preparing", "assert3"}
Over == {"aborting", "ended"}

\* early_install_finish and finish_install: what a failure leads to.
OnFailure(n) ==
  IF pc[n] \in Untouched \union {"committed", "finalizing"} THEN "aborting"
  ELSE IF pc[n] \in Changing THEN IF n \in attempted THEN "quiescing" ELSE "restoring"
  ELSE "ended"

\* What moving to p does to the node and to the workers.
Arrives(n, p) ==
  /\ attempted' = IF p = "preparing" THEN attempted \union {n}
                  ELSE IF p \in Over THEN attempted \ {n} ELSE attempted
  /\ node' = IF p = "mutating" THEN [node EXCEPT ![n] = "changing"]
             ELSE IF p = "committed" THEN [node EXCEPT ![n] = "new"] ELSE node
  /\ renewing' = IF p = "locked" THEN renewing \union {n}
                 ELSE IF p \in Over THEN renewing \ {n} ELSE renewing

Move(n, p) == Go(n, p) /\ Arrives(n, p)

\* A successful answer: the installer gets it, or it is lost.
Answer(c) ==
  LET n == c.from  p == After[c.at] IN
  \/ /\ c.at \in Waits /\ Awaited(c)
     /\ Move(n, p)
     /\ calls' = (calls \ {c}) \union Sent(n, p, 1)
  \/ /\ calls' = calls \ {c}
     /\ UNCHANGED script

\* The panel refuses; the installer cannot tell that from a lost answer.
Refuse(c) ==
  /\ calls' = calls \ {c}
  /\ UNCHANGED <<script, row, born>>

---------------------------------------------------------------------------
(* The panel's handlers, each call from its start to its answer. *)

\* A handler of Begin or Renew reads the clock before it waits for the lease.
HandlerStarts(c) ==
  /\ c.seen = -1
  /\ Op(c) \in {"begin", "renew"}
  /\ calls' = (calls \ {c}) \union {[c EXCEPT !.seen = now]}
  /\ UNCHANGED <<now, panel, script, born>>

\* BeginRemoteServerInstallationWithPolicyContext
BeginReactivating(c) ==   \* mutant of BeginInstallation: its own row is no obstacle
  LET n == c.from IN
  /\ Op(c) = "begin" /\ c.seen >= 0 /\ Free
  /\ \/ /\ exists /\ Vacant(c.seen)
        /\ row' = NewRow(n, c.seen, c.seen + TTL, FALSE)
        /\ born' = [born EXCEPT ![n] = IF @ < 2 THEN @ + 1 ELSE @]
        /\ Answer(c)
     \/ /\ exists /\ Usable(n, c.seen)
        /\ Answer(c) /\ UNCHANGED <<row, born>>
     \/ Refuse(c)
  /\ UNCHANGED <<now, exists, mutators, deploying>>

BeginInstallation(c) ==
  LET n == c.from IN
  /\ Op(c) = "begin" /\ c.seen >= 0 /\ Free
  /\ \/ /\ exists /\ row.nonce # n /\ Vacant(c.seen)
        /\ row' = NewRow(n, c.seen, c.seen + TTL, FALSE)
        /\ born' = [born EXCEPT ![n] = IF @ < 2 THEN @ + 1 ELSE @]
        /\ Answer(c)
     \/ /\ exists /\ Usable(n, c.seen)
        /\ Answer(c) /\ UNCHANGED <<row, born>>
     \/ /\ ~(exists /\ (Usable(n, c.seen) \/ (row.nonce # n /\ Vacant(c.seen))))
        /\ Refuse(c)
  /\ UNCHANGED <<now, exists, mutators, deploying>>

\* RenewRemoteServerInstallation: with the clock read before the lease was free.
RenewedUntil(t) == IF t + TTL < row.started + MaxLife THEN t + TTL ELSE row.started + MaxLife

RenewForEver(c) ==        \* mutant of RenewInstallation: no two-hour cap
  /\ Op(c) = "renew" /\ c.seen >= 0 /\ Free
  /\ \/ /\ Usable(c.from, c.seen)
        /\ row' = [row EXCEPT !.expires = c.seen + TTL]
        /\ Answer(c) /\ UNCHANGED born
     \/ ~Usable(c.from, c.seen) /\ Refuse(c)
  /\ UNCHANGED <<now, exists, mutators, deploying>>

RenewInstallation(c) ==
  LET ok == Usable(c.from, c.seen) /\ row.started + MaxLife > c.seen IN
  /\ Op(c) = "renew" /\ c.seen >= 0 /\ Free
  /\ \/ /\ ok
        /\ row' = [row EXCEPT !.expires = RenewedUntil(c.seen)]
        /\ Answer(c) /\ UNCHANGED born
     \/ ~ok /\ Refuse(c)
  /\ UNCHANGED <<now, exists, mutators, deploying>>

\* MarkRemoteServerInstallationReady, without the lease. (One that finds the
\* row renewed since it read it fails, as a call that is lost.)
MarkReady(c) ==
  /\ Op(c) = "ready"
  /\ \/ /\ Usable(c.from, now)
        /\ row' = [row EXCEPT !.ready = TRUE]
        /\ Answer(c) /\ UNCHANGED born
     \/ ~Usable(c.from, now) /\ Refuse(c)
  /\ UNCHANGED <<now, exists, mutators, deploying>>

\* PrepareRemoteInstallation takes the lease, whatever the row says of others, ...
PrepareUnchecked(c) ==    \* mutant of PrepareStarts: the row is not read again
  /\ Op(c) = "prepare" /\ Free
  /\ deploying' = {c} /\ calls' = calls \ {c}
  /\ UNCHANGED <<now, row, exists, mutators, script, born>>

PrepareStarts(c) ==
  LET ok == Usable(c.from, now) /\ row.ready IN
  /\ Op(c) = "prepare" /\ Free
  /\ \/ /\ ok
        /\ deploying' = {c} /\ calls' = calls \ {c}
        /\ UNCHANGED <<row, script, born>>
     \/ ~ok /\ Refuse(c) /\ UNCHANGED deploying
  /\ UNCHANGED <<now, exists, mutators>>

\* ... deploys and marks the row prepared, or fails.
PrepareEnds(c) ==
  LET ok == Usable(c.from, now) /\ row.ready IN
  /\ c \in deploying
  /\ deploying' = {}
  /\ \/ /\ ok
        /\ row' = [row EXCEPT !.prepared = TRUE]
        /\ Answer(c) /\ UNCHANGED born
     \/ Refuse(c)
  /\ UNCHANGED <<now, exists, mutators>>

\* MarkRemoteServerInstallationRollingBack
QuiesceInPassing(c) ==    \* mutant of QuiesceInstallation: does not wait for the lease
  LET ok == Matches(c.from, now) IN
  /\ Op(c) = "quiesce"
  /\ \/ /\ ok
        /\ row' = [row EXCEPT !.rollingBack = TRUE]
        /\ Answer(c) /\ UNCHANGED born
     \/ ~ok /\ Refuse(c)
  /\ UNCHANGED <<now, exists, mutators, deploying>>

QuiesceInstallation(c) ==
  LET ok == Matches(c.from, now) IN
  /\ Op(c) = "quiesce" /\ Free
  /\ \/ /\ ok
        /\ row' = [row EXCEPT !.rollingBack = TRUE]
        /\ Answer(c) /\ UNCHANGED born
     \/ ~ok /\ Refuse(c)
  /\ UNCHANGED <<now, exists, mutators, deploying>>

\* FinalizeRemoteServerInstallation: a second one finds the row completed.
FinalizeInstallation(c) ==
  LET n == c.from
      ok == Usable(n, now) /\ row.ready /\ row.prepared IN
  /\ Op(c) = "finalize" /\ Free
  /\ \/ /\ ok
        /\ row' = [row EXCEPT !.completed = TRUE]
        /\ Answer(c) /\ UNCHANGED born
     \/ row.nonce = n /\ row.completed /\ Answer(c) /\ UNCHANGED <<row, born>>
     \/ ~ok /\ ~(row.nonce = n /\ row.completed) /\ Refuse(c)
  /\ UNCHANGED <<now, exists, mutators, deploying>>

\* AbortRemoteServerInstallation: a tombstone, also before the Begin. What it
\* sets expires_at to is not kept: nothing reads it of an aborted row.
AbortCompleted(c) ==      \* mutant of AbortInstallation: a completed row too
  LET n == c.from
      vacant == row.nonce # n /\ Vacant(now) /\ exists IN
  /\ Op(c) = "abort" /\ Free
  /\ \/ row.nonce = n /\ row' = [row EXCEPT !.aborted = TRUE] /\ Answer(c) /\ UNCHANGED born
     \/ /\ vacant
        /\ row' = NewRow(n, 0, 0, TRUE)
        /\ Answer(c) /\ UNCHANGED born
     \/ row.nonce # n /\ ~vacant /\ Refuse(c)
  /\ UNCHANGED <<now, exists, mutators, deploying>>

AbortInstallation(c) ==
  LET n == c.from
      mine == row.nonce = n /\ ~row.completed
      vacant == row.nonce # n /\ Vacant(now) /\ exists IN
  /\ Op(c) = "abort" /\ Free
  /\ \/ mine /\ row' = [row EXCEPT !.aborted = TRUE] /\ Answer(c) /\ UNCHANGED born
     \/ /\ vacant
        /\ row' = NewRow(n, 0, 0, TRUE)
        /\ Answer(c) /\ UNCHANGED born
     \/ ~mine /\ ~vacant /\ Refuse(c)
  /\ UNCHANGED <<now, exists, mutators, deploying>>

---------------------------------------------------------------------------
(* Ordinary operations, the clock and the panel. *)

\* AcquireRemoteServerMutationLease: the lease, then the row.
AcquireUnchecked(m) ==    \* mutant of AcquireMutationLease: the row is not read
  /\ exists /\ deploying = {} /\ m \notin mutators
  /\ mutators' = mutators \union {m}
  /\ UNCHANGED <<now, row, exists, deploying, calls, script, born>>

AcquireMutationLease(m) ==
  /\ exists /\ deploying = {} /\ ~Active /\ m \notin mutators
  /\ mutators' = mutators \union {m}
  /\ UNCHANGED <<now, row, exists, deploying, calls, script, born>>

Release(m) ==
  /\ m \in mutators
  /\ mutators' = mutators \ {m}
  /\ UNCHANGED <<now, row, exists, deploying, calls, script, born>>

\* DeleteRemoteServer, under a mutation lease, takes the row with it.
DeleteRemoteServer(m) ==
  /\ m \in mutators /\ exists
  /\ exists' = FALSE /\ row' = NoRow
  /\ UNCHANGED <<now, mutators, deploying, calls, script, born>>

Tick ==
  /\ now < MaxNow
  /\ now' = now + 1
  /\ UNCHANGED <<panel, calls, script, born>>

\* The panel stops and starts: leases are in memory, the row is not.
Restart ==
  /\ mutators' = {} /\ deploying' = {}
  /\ calls' = {c \in calls : c.seen = -1}
  /\ UNCHANGED <<now, row, exists, script, born>>

---------------------------------------------------------------------------
(* The installer. *)

Start(n) ==
  /\ pc[n] = "idle"
  /\ Move(n, "beginning") /\ calls' = calls \union Sent(n, "beginning", 1)
  /\ UNCHANGED <<now, panel, born>>

\* It goes on when what it does locally has worked.
Proceed(n) ==
  /\ \E step \in {<<"locked", "assert1">>, <<"mutating", "probing">>, <<"committed", "finalizing">>} :
       /\ pc[n] = step[1]
       /\ Move(n, step[2]) /\ calls' = calls \union Sent(n, step[2], 1)
  /\ UNCHANGED <<now, panel, born>>

\* An attempt times out or is refused: the next one, or the failure.
AttemptFails(n) ==
  /\ pc[n] \in Waits
  /\ \/ /\ try[n] < Tries(pc[n])
        /\ try' = [try EXCEPT ![n] = @ + 1]
        /\ calls' = calls \union Sent(n, pc[n], try[n] + 1)
        /\ UNCHANGED <<pc, attempted, node, renewing>>
     \/ /\ try[n] = Tries(pc[n])
        /\ Move(n, OnFailure(n))
        /\ calls' = calls \union Sent(n, OnFailure(n), 1)
  /\ UNCHANGED <<now, panel, born>>

\* A local step fails, or a signal ends the script: not once it is finishing.
Fail(n) ==
  /\ pc[n] \in Untouched \union Changing \union {"committed", "finalizing"}
  /\ Move(n, OnFailure(n)) /\ calls' = calls \union Sent(n, OnFailure(n), 1)
  /\ UNCHANGED <<now, panel, born>>

\* rollback_install, or, when nothing but the services was stopped, their
\* restart: the node is as it was, or the lock is left to expire.
Restored(n) ==
  /\ pc[n] \in {"restoring", "mutating"}
  /\ Go(n, "aborting") /\ calls' = calls \union Sent(n, "aborting", 1)
  /\ node' = [node EXCEPT ![n] = "old"]
  /\ attempted' = attempted \ {n} /\ renewing' = renewing \ {n}
  /\ UNCHANGED <<now, panel, born>>

RollbackFails(n) ==
  /\ pc[n] = "restoring"
  /\ Move(n, "ended")
  /\ UNCHANGED <<now, panel, born, calls>>

\* SIGKILL or a power cut; only the latter ends the renewal worker.
Die(n) ==
  /\ pc[n] \notin {"ended", "idle"}
  /\ Go(n, "ended")
  /\ renewing' \in {renewing, renewing \ {n}}
  /\ attempted' = attempted \ {n}
  /\ UNCHANGED <<now, panel, calls, born, node>>

\* The worker renews now and then, or no more.
WorkerRenews(n) ==
  /\ n \in renewing
  /\ \A c \in calls : ~(c.from = n /\ c.at = "worker")
  /\ calls' = calls \union {[from |-> n, at |-> "worker", try |-> 0, seen |-> -1]}
  /\ UNCHANGED <<now, panel, script, born>>

\* A call is lost, fails for another reason, or ends when its client is gone.
Lose(c) ==
  /\ calls' = calls \ {c}
  /\ UNCHANGED <<now, panel, script, born>>

---------------------------------------------------------------------------
Init ==
  /\ now = 0 /\ row = NoRow /\ exists = TRUE
  /\ mutators = {} /\ deploying = {} /\ calls = {}
  /\ pc = [n \in Nonce |-> "idle"] /\ try = [n \in Nonce |-> 0]
  /\ attempted = {} /\ node = [n \in Nonce |-> "old"] /\ renewing = {}
  /\ born = [n \in Nonce |-> 0]

Handle(c) ==
  \/ HandlerStarts(c) \/ BeginInstallation(c) \/ RenewInstallation(c) \/ MarkReady(c)
  \/ PrepareStarts(c) \/ QuiesceInstallation(c) \/ FinalizeInstallation(c) \/ AbortInstallation(c)
  \/ Lose(c)

Installer(n) ==
  /\ \/ Start(n) \/ Proceed(n) \/ AttemptFails(n) \/ Fail(n)
     \/ Restored(n) \/ RollbackFails(n) \/ Die(n) \/ WorkerRenews(n)
  /\ Cardinality(Late') <= MaxLate

Next ==
  \/ \E c \in calls : Handle(c)
  \/ \E c \in deploying : PrepareEnds(c)
  \/ \E n \in Nonce : Installer(n)
  \/ \E m \in Mutation : AcquireMutationLease(m) \/ Release(m) \/ DeleteRemoteServer(m)
  \/ Tick \/ Restart

Spec == Init /\ [][Next]_vars

---------------------------------------------------------------------------
(* Properties. *)

\* Every variable keeps its type; the lease has one Prepare at most.
TypeOK ==
  /\ now \in Time /\ row \in Row /\ exists \in BOOLEAN
  /\ mutators \subseteq Mutation
  /\ calls \subseteq Call
  /\ deploying \subseteq Call /\ Cardinality(deploying) <= 1
  /\ pc \in [Nonce -> PC] /\ try \in [Nonce -> 0..MaxTry]
  /\ attempted \subseteq Nonce /\ node \in [Nonce -> Node] /\ renewing \subseteq Nonce
  /\ born \in [Nonce -> 0..2]

\* No ordinary operation of the panel holds the lease while an installation's
\* row is live or a Prepare deploys: whatever the handlers, the clock and the
\* restarts do in between, an operation that passed its check does not find
\* the node being installed before it is done.
Excluded == mutators # {} => ~Active /\ deploying = {}

\* While an installer that had asked for Prepare restores the node, the panel
\* does not deploy for it, not even for a call that was given up long ago.
\* (Unless a Begin as late created its lock a second time.)
QuietRestore ==
  \A n \in Nonce :
    pc[n] = "restoring" /\ n \in attempted /\ born[n] <= 1 => \A c \in deploying : c.from # n

\* The panel and the node agree: a completed row means the node was committed,
\* and it stays so; it was never aborted, and no rollback touches it.
CommitAgreement ==
  row.completed => node[row.nonce] = "new" /\ row.prepared /\ ~row.aborted

\* A transaction goes one way: what was rolled back, completed or aborted is
\* so as long as its row stands, whichever retry or late call comes.
NoWayBack ==
  [][row'.nonce = row.nonce =>
       /\ row.rollingBack => row'.rollingBack /\ ~(row.ready # row'.ready \/ row.prepared # row'.prepared)
       /\ row.completed => row' = row
       /\ row.aborted => row' = row]_vars

\* A lock is never live for longer than MaxLife from the Begin that made it,
\* though a worker may outlive its installer and try to renew it for ever, and
\* a renewal may carry the time at which it began to wait for the lease.
LockEnds == Active => now < row.started + MaxLife

\* The panel's rows, leases and handlers together implement ServerOwner.
Owner == INSTANCE ServerOwner WITH
  owner <- IF Active THEN row.nonce ELSE NoNonce,
  retreating <- Active /\ row.rollingBack,
  deploying <- deploying # {},
  users <- mutators

ImplementsOwner == Owner!Spec

=============================================================================
