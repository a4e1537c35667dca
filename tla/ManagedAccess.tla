--------------------------- MODULE ManagedAccess ---------------------------
(***************************************************************************)
(* A user's access to one inbound of a node (internal/handler/             *)
(* managed_nodes.go and users.go over internal/storage/                    *)
(* managed_nodes_state.go and user_deletion.go). Selections, grants, the   *)
(* account's state and its deletion change desired states in the database; *)
(* reconcileSource, one at a time, carries them out on the node: it        *)
(* reserves a credential, gives the node's expiry guard the deadline, adds *)
(* the client, or takes both away again. What it decides on was read       *)
(* before the calls, and the generation tells it at the end whether the    *)
(* source has changed meanwhile. The guard removes the client at its       *)
(* deadline even when the panel is away.                                   *)
(*                                                                         *)
(* There are two access sources: the one of the user's selection and, once *)
(* the deletion is prepared, the review of the saved credential. A         *)
(* generation only counts by being the one that was read: settled says     *)
(* that it is the applied one, fresh that the reconciler's copy has it.    *)
(*                                                                         *)
(* Not here: nodes with a native expiry, the assignment and the end of a   *)
(* package (whether the user's package has the inbound is fixed), routed   *)
(* access, forwards, re-creation of a deleted user, the backoff.           *)
(***************************************************************************)
EXTENDS Naturals, FiniteSets

CONSTANTS MaxTime,      \* bound: the last instant
          MaxRequests,  \* bound: requests, crashes and repeated reconciliations
          MaxFaults,    \* bound: calls that fail or whose answer is lost
          Requests      \* the requests made: see Request

ASSUME AccessAssumption ==
  /\ MaxTime \in Nat /\ MaxRequests \in Nat /\ MaxFaults \in Nat
  /\ Requests \subseteq {"select", "deselect", "grant", "disable", "enable", "delete", "crash"}

VARIABLES
  now,
  user,      \* the account; "leaving" is disabled with a tombstone
  package,   \* the user's package has the inbound
  grant,     \* the user's grant for the server
  selected,  \* desired_enabled of the selection
  source,    \* user_inbound_access_sources
  saved,     \* the row of user_inbound_configs
  client,    \* the node lets the client in
  schedule,  \* the guard's entry for the client
  attempt,   \* the guard's removal in progress
  panel,
  rec,       \* what reconcileMu protects: the scan or the reconciliation
  sync,      \* an administrator's syncGrantSources
  admin,     \* an administrator's change of the account's state
  requests, faults

account == <<user, package, grant, selected>>
node == <<client, schedule>>
vars == <<now, account, source, saved, node, attempt, panel, rec, sync, admin, requests, faults>>

---------------------------------------------------------------------------
Time == 0..MaxTime
Never == MaxTime + 1          \* no deadline, and no entry of the guard
Deadline == 1..Never
Source == {"selection", "review"}
Wanted == {"active", "inactive"}

Row == [made : BOOLEAN, want : Wanted, seen : Wanted \union {"unknown"},
        settled : BOOLEAN, until : Deadline]
Work == [step : {"idle", "scan", "judge", "reserve", "schedule", "publish", "withdraw",
                 "remove", "unschedule", "mark"},
         of : Source, want : Wanted, until : Deadline, at : Time, fresh : BOOLEAN]

NoSource == [made |-> FALSE, want |-> "inactive", seen |-> "unknown",
             settled |-> FALSE, until |-> Never]
Still == [step |-> "idle", of |-> "selection", want |-> "inactive", until |-> Never,
          at |-> 0, fresh |-> FALSE]
Unread == [step |-> "idle", want |-> "inactive", until |-> Never]
AtEase == [step |-> "idle", of |-> Never]

\* StateAt, the traffic limit counting as a grant that is off.
Entitled(g) == user = "active" /\ g.on /\ now < g.until

Tombstone == user \in {"leaving", "gone"}

\* HasEffectiveUserInboundAccess: only selections count.
ManagedAt(t) == source["selection"].made /\ source["selection"].want = "active"
                  /\ t < source["selection"].until
\* effectiveInboundExpiry: a package counts while the account is active.
EffectiveAt(t) == ManagedAt(t) \/ (package /\ user = "active")
DeadlineAt(t) == IF package /\ user = "active" THEN Never ELSE source["selection"].until

\* The source s with a new generation, and with the present one carried out.
Renewed(s, want, until) ==
  [made |-> TRUE, want |-> want, seen |-> source[s].seen, settled |-> FALSE, until |-> until]
Applied(s, want) ==
  [made |-> source[s].made, want |-> source[s].want, seen |-> want, settled |-> TRUE,
   until |-> source[s].until]

\* The reconciler's copy of a source of S is no longer the present generation.
Outdate(S) == rec' = [rec EXCEPT !.fresh = @ /\ rec.of \notin S]

\* Mutant of Ask: one request too many.
AskOnceMore(kind) == /\ panel = "up" /\ kind \in Requests /\ requests <= MaxRequests
                     /\ requests' = requests + 1

Ask(kind) == /\ panel = "up" /\ kind \in Requests /\ requests < MaxRequests
             /\ requests' = requests + 1

---------------------------------------------------------------------------
(* Requests. *)

\* ActivateUserNodeSelection.
SelectNode ==
  /\ Ask("select")
  /\ Entitled(grant) /\ ~package
  /\ selected' = TRUE
  /\ IF source["selection"].made /\ selected /\ source["selection"].want = "active"
       THEN UNCHANGED <<source, rec>>
       ELSE /\ source' = [source EXCEPT !["selection"] = Renewed("selection", "active", grant.until)]
            /\ Outdate({"selection"})
  /\ UNCHANGED <<now, user, package, grant, saved, node, attempt, panel, sync, admin, faults>>

\* DeactivateUserNodeSelection. One that is inactive already changes too when it was
\* suspended for another reason.
DeselectNode ==
  /\ Ask("deselect")
  /\ source["selection"].made
  /\ selected' = FALSE
  /\ source' = [source EXCEPT !["selection"] =
                   Renewed("selection", "inactive", source["selection"].until)]
  /\ Outdate({"selection"})
  /\ UNCHANGED <<now, user, package, grant, saved, node, attempt, panel, sync, admin, faults>>

\* HandleAdminGrant: UpdateUserServerGrant, then syncGrantSources reads the user and the
\* selections...
ChangeGrant ==
  /\ Ask("grant")
  /\ user # "gone" /\ sync = Unread
  /\ \E g \in [on : BOOLEAN, until : Deadline] : grant' = g
  /\ sync' = [Unread EXCEPT !.step = "read"]
  /\ UNCHANGED <<now, user, package, selected, source, saved, node, attempt, panel, rec, admin, faults>>

\* The state the grant allows the selection.
Verdict(g) == IF Entitled(g) /\ selected THEN "active" ELSE "inactive"

ReadGrant ==
  /\ sync.step = "read"
  /\ sync' = [step |-> "set", want |-> Verdict(grant), until |-> grant.until]
  /\ UNCHANGED <<now, account, source, saved, node, attempt, panel, rec, admin, requests, faults>>

\* SetUserInboundAccessSourceState of the source read just before.
Settle(v) ==
  source' = [source EXCEPT !["selection"] = Renewed("selection", v.want, v.until)]

Differs(v) == /\ source["selection"].made
              /\ source["selection"].want # v.want \/ source["selection"].until # v.until

\* ...and settles the source accordingly, outside reconcileMu.
SyncGrant ==
  /\ sync.step = "set"
  /\ IF Differs(sync) THEN Settle(sync) /\ Outdate({"selection"}) ELSE UNCHANGED <<source, rec>>
  /\ sync' = Unread
  /\ UNCHANGED <<now, account, saved, node, attempt, panel, admin, requests, faults>>

\* NewUserStatusHandler: UpdateUserStatus, then the clients.
Disable ==
  /\ Ask("disable")
  /\ user # "gone" /\ admin = "idle"
  /\ user' = IF Tombstone THEN user ELSE "disabled"
  /\ admin' = IF saved THEN "removing" ELSE "idle"
  /\ UNCHANGED <<now, package, grant, selected, source, saved, node, attempt, panel, rec, sync, faults>>

RemoveDisabled ==
  /\ admin = "removing"
  /\ client' = FALSE \/ client' = client
  /\ admin' = "idle"
  /\ UNCHANGED <<now, account, source, saved, schedule, attempt, panel, rec, sync, requests, faults>>

Enable ==
  /\ Ask("enable")
  /\ user \in {"active", "disabled"} /\ admin = "idle"
  /\ user' = "active"
  /\ admin' = IF saved THEN "enabling" ELSE "idle"
  /\ UNCHANGED <<now, package, grant, selected, source, saved, node, attempt, panel, rec, sync, faults>>

\* addUserToInbound resolves the access...
ResolveAccess ==
  /\ admin = "enabling"
  /\ user # "gone"
  /\ admin' = IF EffectiveAt(now) THEN "resolved" ELSE "idle"
  /\ UNCHANGED <<now, account, source, saved, node, attempt, panel, rec, sync, requests, faults>>

\* ...reserves the credential, if the node answers and it is not refused...
ReserveEnabled ==
  /\ admin = "resolved"
  /\ \/ (saved \/ ~Tombstone) /\ saved' = TRUE /\ admin' = "adding"
     \/ admin' = "idle" /\ UNCHANGED saved
  /\ UNCHANGED <<now, account, source, node, attempt, panel, rec, sync, requests, faults>>

\* ...and adds the client, without the user's lease and outside reconcileMu.
AddEnabled ==
  /\ admin = "adding"
  /\ client' = TRUE \/ client' = client
  /\ admin' = "idle"
  /\ UNCHANGED <<now, account, source, saved, schedule, attempt, panel, rec, sync, requests, faults>>

\* The account is deleted before its access is resolved.
EnableRefused ==
  /\ admin = "enabling" /\ user = "gone"
  /\ admin' = "idle"
  /\ UNCHANGED <<now, account, source, saved, node, attempt, panel, rec, sync, requests, faults>>

\* PrepareUserDeletion, which may be repeated.
Prepared(s) ==
  IF s = "review" /\ saved /\ ~source[s].made
    THEN Renewed(s, "inactive", Never)
    ELSE IF source[s].made /\ (source[s].want = "active" \/ (source[s].seen # "inactive" /\ source[s].settled))
      THEN Renewed(s, "inactive", source[s].until)
      ELSE source[s]

PrepareDeletion ==
  /\ Ask("delete")
  /\ user # "gone"
  /\ user' = "leaving"
  /\ selected' = FALSE
  /\ source' = [s \in Source |-> Prepared(s)]
  /\ Outdate({s \in Source : Prepared(s) # source[s]})
  /\ UNCHANGED <<now, package, grant, saved, node, attempt, panel, sync, admin, faults>>

\* userDeletionReadyTx.
Ready ==
  /\ \A s \in Source : source[s].made =>
       source[s].want = "inactive" /\ source[s].seen = "inactive" /\ source[s].settled
  /\ saved => source["review"].made

\* FinalizeUserDeletion, by the request or by the scan.
FinalizeDeletion ==
  /\ panel = "up"
  /\ user = "leaving" /\ Ready
  /\ user' = "gone" /\ selected' = FALSE /\ saved' = FALSE
  /\ grant' = [grant EXCEPT !.on = FALSE]
  /\ source' = [s \in Source |-> NoSource]
  /\ Outdate(Source)
  /\ UNCHANGED <<now, package, node, attempt, panel, sync, admin, requests, faults>>

---------------------------------------------------------------------------
(* reconcileAll: the scan of the grants. *)

ScanRead ==
  /\ panel = "up" /\ rec.step = "idle"
  /\ user # "gone"
  /\ Differs([want |-> Verdict(grant), until |-> grant.until])
  /\ rec' = [step |-> "scan", of |-> "selection", want |-> Verdict(grant), until |-> grant.until,
             at |-> 0, fresh |-> FALSE]
  /\ UNCHANGED <<now, account, source, saved, node, attempt, panel, sync, admin, requests, faults>>

ScanSet ==
  /\ rec.step = "scan"
  /\ IF Differs(rec) THEN Settle(rec) ELSE UNCHANGED source
  /\ rec' = Still
  /\ UNCHANGED <<now, account, saved, node, attempt, panel, sync, admin, requests, faults>>

---------------------------------------------------------------------------
(* reconcileSource. *)

Begin(s) ==
  /\ panel = "up" /\ rec.step = "idle" /\ source[s].made
  /\ rec' = [step |-> "judge", of |-> s, want |-> source[s].want, until |-> source[s].until,
             at |-> now, fresh |-> TRUE]

\* The next step, with what has been found out.
Go(step, want, until, at) ==
  rec' = [step |-> step, of |-> rec.of, want |-> want, until |-> until, at |-> at, fresh |-> rec.fresh]

\* A source of ListPendingUserInboundAccessSources, or one just changed by a request.
Reconcile(s) ==
  /\ Begin(s) /\ ~source[s].settled
  /\ UNCHANGED <<now, account, source, saved, node, attempt, panel, sync, admin, requests, faults>>

\* A source somebody else has reconciled since it was listed, or an administrator's retry.
ReconcileAgain(s) ==
  /\ requests < MaxRequests /\ requests' = requests + 1
  /\ Begin(s) /\ source[s].settled
  /\ UNCHANGED <<now, account, source, saved, node, attempt, panel, sync, admin, faults>>

\* A source past its deadline, or whose account is not active, is made inactive if it is
\* still as it was read.
TurnOff ==
  /\ rec.step = "judge" /\ rec.want = "active"
  /\ rec.until <= now \/ user # "active"
  /\ IF rec.fresh
       THEN /\ source' = [source EXCEPT ![rec.of] = Renewed(rec.of, "inactive", rec.until)]
            /\ Go("withdraw", "inactive", rec.until, now)
       ELSE rec' = Still /\ UNCHANGED source
  /\ UNCHANGED <<now, account, saved, node, attempt, panel, sync, admin, requests, faults>>

Judge ==
  /\ rec.step = "judge"
  /\ rec.want = "active" => now < rec.until /\ user = "active"
  /\ Go(IF rec.want = "active" THEN "reserve" ELSE "withdraw", rec.want, rec.until, now)
  /\ UNCHANGED <<now, account, source, saved, node, attempt, panel, sync, admin, requests, faults>>

\* Mutant of ReserveCredential: without looking for a tombstone.
ReserveAnyway ==
  /\ rec.step = "reserve" \/ (rec.step = "withdraw" /\ user # "gone")
  /\ EffectiveAt(rec.at)
  /\ saved' = TRUE
  /\ Go("schedule", rec.want, DeadlineAt(rec.at), rec.at)
  /\ UNCHANGED <<now, account, source, node, attempt, panel, sync, admin, requests, faults>>

\* prepareUserInboundCredential: a row that is there is used whatever the account's
\* state, a new one is refused to a deleted account.
ReserveCredential ==
  /\ rec.step = "reserve" \/ (rec.step = "withdraw" /\ user # "gone")
  /\ EffectiveAt(rec.at)
  /\ saved \/ ~Tombstone
  /\ saved' = TRUE
  /\ Go("schedule", rec.want, DeadlineAt(rec.at), rec.at)
  /\ UNCHANGED <<now, account, source, node, attempt, panel, sync, admin, requests, faults>>

\* The access is gone, the credential is refused, or the node does not answer.
Fail ==
  /\ \/ rec.step = "reserve" /\ ~(EffectiveAt(rec.at) /\ (saved \/ ~Tombstone))
     \/ rec.step = "withdraw" /\ EffectiveAt(rec.at) /\ ~(saved \/ ~Tombstone)
     \/ rec.step = "publish" /\ user # "active"
  /\ rec' = Still
  /\ UNCHANGED <<now, account, source, saved, node, attempt, panel, sync, admin, requests, faults>>

\* A call of the node or its guard: it is answered, or fails with or without effect.
Called(next) == rec' = [rec EXCEPT !.step = next] /\ UNCHANGED faults
CallFailed == rec' = Still /\ faults < MaxFaults /\ faults' = faults + 1

\* ensureManagedClientExpiry.
ScheduleExpiry ==
  /\ rec.step = "schedule"
  /\ \/ schedule' = rec.until /\ (Called("publish") \/ CallFailed)
     \/ schedule' = schedule /\ CallFailed
  /\ UNCHANGED <<now, account, source, saved, client, attempt, panel, sync, admin, requests>>

\* applyPreparedInboundCredentialForUser: under the user's lease.
Publish ==
  /\ rec.step = "publish" /\ user = "active"
  /\ \/ client' = TRUE /\ (Called("mark") \/ CallFailed)
     \/ client' = client /\ CallFailed
  /\ UNCHANGED <<now, account, source, saved, schedule, attempt, panel, sync, admin, requests>>

\* No other source is effective. Without a credential there is nothing to remove.
Withdraw ==
  /\ rec.step = "withdraw" /\ ~EffectiveAt(rec.at)
  /\ rec' = [rec EXCEPT !.step = IF saved THEN "remove" ELSE "mark"]
  /\ UNCHANGED <<now, account, source, saved, node, attempt, panel, sync, admin, requests, faults>>

\* Mutant of RemoveClient: the answer of remove-client is not looked at.
RemoveUnheeded ==
  /\ rec.step = "remove"
  /\ client' = FALSE \/ client' = client
  /\ Called("unschedule")
  /\ UNCHANGED <<now, account, source, saved, schedule, attempt, panel, sync, admin, requests>>

RemoveClient ==
  /\ rec.step = "remove"
  /\ \/ client' = FALSE /\ (Called("unschedule") \/ CallFailed)
     \/ client' = client /\ CallFailed
  /\ UNCHANGED <<now, account, source, saved, schedule, attempt, panel, sync, admin, requests>>

Unschedule ==
  /\ rec.step = "unschedule"
  /\ \/ schedule' = Never /\ (Called("mark") \/ CallFailed)
     \/ schedule' = schedule /\ CallFailed
  /\ UNCHANGED <<now, account, source, saved, client, attempt, panel, sync, admin, requests>>

\* Mutant of MarkApplied: whatever the generation is now.
MarkAnyway ==
  /\ rec.step = "mark"
  /\ source' = [source EXCEPT ![rec.of] = Applied(rec.of, rec.want)]
  /\ rec' = Still
  /\ UNCHANGED <<now, account, saved, node, attempt, panel, sync, admin, requests, faults>>

\* MarkUserInboundAccessSourceApplied: only the generation that was carried out.
MarkApplied ==
  /\ rec.step = "mark"
  /\ source' = IF rec.fresh THEN [source EXCEPT ![rec.of] = Applied(rec.of, rec.want)] ELSE source
  /\ rec' = Still
  /\ UNCHANGED <<now, account, saved, node, attempt, panel, sync, admin, requests, faults>>

---------------------------------------------------------------------------
(* The panel stops; what its goroutines held is lost. *)

Crash ==
  /\ Ask("crash")
  /\ panel' = "down" /\ rec' = Still /\ sync' = Unread /\ admin' = "idle"
  /\ UNCHANGED <<now, account, source, saved, node, attempt, faults>>

Restart ==
  /\ panel = "down"
  /\ panel' = "up"
  /\ UNCHANGED <<now, account, source, saved, node, attempt, rec, sync, admin, requests, faults>>

---------------------------------------------------------------------------
(* The guard's client schedules (internal/expiryguard/guard.go). *)

TakeDue ==
  /\ attempt.step = "idle" /\ schedule <= now
  /\ attempt' = [step |-> "remove", of |-> schedule]
  /\ UNCHANGED <<now, account, source, saved, node, panel, rec, sync, admin, requests, faults>>

\* removeClient.
RemoveDue ==
  /\ attempt.step = "remove"
  /\ \/ client' = FALSE /\ attempt' = [attempt EXCEPT !.step = "removed"] /\ UNCHANGED faults
     \/ /\ client' = FALSE \/ client' = client
        /\ attempt' = [attempt EXCEPT !.step = "failed"]
        /\ faults < MaxFaults /\ faults' = faults + 1
  /\ UNCHANGED <<now, account, source, saved, schedule, panel, rec, sync, admin, requests>>

\* Mutant of FinishAttempt: the entry goes even if it has a new deadline.
FinishRegardless ==
  /\ attempt.step \in {"removed", "failed"}
  /\ schedule' = IF attempt.step = "removed" THEN Never ELSE schedule
  /\ attempt' = AtEase
  /\ UNCHANGED <<now, account, source, saved, client, panel, rec, sync, admin, requests, faults>>

\* finishAttempt: an entry that was renewed meanwhile stays.
FinishAttempt ==
  /\ attempt.step \in {"removed", "failed"}
  /\ schedule' = IF attempt.step = "removed" /\ schedule = attempt.of THEN Never ELSE schedule
  /\ attempt' = AtEase
  /\ UNCHANGED <<now, account, source, saved, client, panel, rec, sync, admin, requests, faults>>

GuardRestart ==
  /\ attempt # AtEase /\ faults < MaxFaults
  /\ attempt' = AtEase /\ faults' = faults + 1
  /\ UNCHANGED <<now, account, source, saved, node, panel, rec, sync, admin, requests>>

Tick ==
  /\ now < MaxTime /\ now' = now + 1
  /\ UNCHANGED <<account, source, saved, node, attempt, panel, rec, sync, admin, requests, faults>>

---------------------------------------------------------------------------
Init ==
  /\ now = 0 /\ user = "active" /\ package \in BOOLEAN
  /\ grant \in [on : BOOLEAN, until : Deadline]
  /\ selected = FALSE /\ source = [s \in Source |-> NoSource]
  /\ saved = package /\ client = package /\ schedule = Never
  /\ attempt = AtEase /\ panel = "up" /\ rec = Still /\ sync = Unread /\ admin = "idle"
  /\ requests = 0 /\ faults = 0

Request == SelectNode \/ DeselectNode \/ ChangeGrant \/ Disable \/ Enable \/ PrepareDeletion

Handlers == ReadGrant \/ SyncGrant \/ RemoveDisabled \/ ResolveAccess \/ ReserveEnabled \/ AddEnabled \/ EnableRefused

Reconciler ==
  \/ ScanRead \/ ScanSet \/ \E s \in Source : Reconcile(s) \/ ReconcileAgain(s)
  \/ TurnOff \/ Judge \/ ReserveCredential \/ Fail \/ ScheduleExpiry \/ Publish
  \/ Withdraw \/ RemoveClient \/ Unschedule \/ MarkApplied \/ FinalizeDeletion

Guard == TakeDue \/ RemoveDue \/ FinishAttempt

Next == Request \/ Handlers \/ Reconciler \/ Guard \/ GuardRestart \/ Crash \/ Restart \/ Tick

Spec == Init /\ [][Next]_vars

\* The panel scans every managedReconcileInterval; the guard's Run waits for the next deadline.
\* Each pass takes every pending source, so none is passed over for the other.
FairSpec ==
  /\ Spec
  /\ WF_vars(Reconciler) /\ WF_vars(Guard) /\ WF_vars(Handlers)
  /\ WF_vars(FinalizeDeletion)
  /\ \A s \in Source : SF_vars(Reconcile(s))
  /\ SF_vars(ScanRead)

---------------------------------------------------------------------------
(* Properties. *)

TypeOK ==
  /\ now \in Time /\ user \in {"active", "disabled", "leaving", "gone"} /\ package \in BOOLEAN
  /\ grant \in [on : BOOLEAN, until : Deadline] /\ selected \in BOOLEAN
  /\ source \in [Source -> Row]
  /\ saved \in BOOLEAN /\ client \in BOOLEAN /\ schedule \in Deadline
  /\ attempt \in [step : {"idle", "remove", "removed", "failed"}, of : Deadline]
  /\ panel \in {"up", "down"}
  /\ rec \in Work
  /\ sync \in [step : {"idle", "read", "set"}, want : Wanted, until : Deadline]
  /\ admin \in {"idle", "removing", "enabling", "resolved", "adding"}
  /\ requests \in 0..MaxRequests /\ faults \in 0..MaxFaults

\* Once the deletion of an account is final, nothing it had is left on the node: no client
\* that nobody would remove, and no schedule (FinalizeUserDeletion purges what was confirmed
\* absent).
DeletedIsGone == user = "gone" => ~client /\ schedule = Never

\* A revocation that has been confirmed stays: no addition decided earlier lands after it
\* (reconcileSource).
RevokedIsGone ==
  LET s == source["selection"] IN s.made /\ s.settled /\ s.want = "inactive" => ~client

\* What a source has been granted ends on time: while the client of a settled source is let
\* in, the guard has the source's deadline, not an older one, and did not forget it.
DeadlineKept ==
  LET s == source["selection"] IN
    s.made /\ s.settled /\ s.want = "active" /\ client /\ now < s.until => schedule = s.until

\* What was begun ends: a deletion that has been asked for is finalised, and the
\* revocation of a selection that is given up is confirmed (reconcileAll).
RemovalEnds ==
  LET s == source["selection"] IN
    /\ user = "leaving" ~> user = "gone" \/ panel = "down"
    /\ s.made /\ ~selected ~> (s.settled /\ s.want = "inactive") \/ ~s.made \/ selected \/ panel = "down"

=============================================================================
