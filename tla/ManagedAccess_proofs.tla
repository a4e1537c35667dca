------------------------ MODULE ManagedAccess_proofs ------------------------
(***************************************************************************)
(* Proofs about ManagedAccess, for any bounds: its types for any requests, *)
(* and its safety properties for any but the re-enabling of an account.    *)
(***************************************************************************)
EXTENDS ManagedAccess, TLAPS

---------------------------------------------------------------------------
(***************************************************************************)
(* The inductive invariant.                                                *)
(***************************************************************************)

Selection == source["selection"]
Review == source["review"]
Clean == ~client /\ schedule = Never
At(steps) == rec.step \in steps
Working == ~At({"idle", "scan"})
\* The reconciler is going to add the client, or may yet decide to.
Adding == At({"reserve", "schedule", "publish"})
Will == Adding \/ (At({"judge"}) /\ rec.want = "active")

\* No account is being re-enabled.
NoEnable == admin \notin {"enabling", "resolved", "adding"}

\* A package keeps selections out.
Packaged == package => ~Selection.made

\* A review belongs to a deletion and only revokes.
Reviewed ==
  /\ Review.made => user = "leaving" /\ Review.want = "inactive"
  /\ Working /\ rec.of = "review" => Tombstone /\ rec.want = "inactive"

\* A fresh copy says what its source says; the source of a stale one is not settled, for
\* only the reconciler settles it.
Copied ==
  /\ rec.fresh => Working /\ source[rec.of].made /\ source[rec.of].want = rec.want
  /\ Working /\ ~rec.fresh /\ rec.of = "selection" => ~Selection.settled
  /\ Working /\ rec.of = "selection" => Selection.made \/ user = "gone"

\* Nothing is left of a deleted account.
Gone ==
  user = "gone" => /\ Clean /\ ~saved /\ ~Will
                   /\ \A s \in Source : ~source[s].made

\* What is added is not for a revoked selection, and is for the selection's own sake.
Added ==
  /\ Will => Selection.made /\ (Selection.settled => Selection.want = "active")
  /\ Adding /\ rec.of = "selection" /\ rec.fresh => rec.want = "active"

\* A revocation that is settled has left nothing.
Revoked ==
  /\ Selection.made /\ Selection.settled /\ Selection.want = "inactive" => Clean
  /\ Review.made /\ Review.settled /\ ~Selection.made => Clean

\* How far a withdrawal has come.
Withdrawn ==
  /\ At({"withdraw", "remove", "unschedule"}) => rec.want = "inactive"
  /\ At({"unschedule"}) => ~client
  /\ At({"mark"}) /\ rec.want = "inactive" /\ rec.fresh => Clean

\* Nothing is on the node without a credential in the database.
Reserved ==
  /\ ~saved => Clean
  /\ At({"schedule", "publish"}) => saved

\* A deletion turns the selection off, and what it meant to settle as active is stale.
Left ==
  Tombstone =>
    /\ ~(Selection.made /\ Selection.settled /\ Selection.want = "active")
    /\ rec.fresh /\ rec.want = "active" => At({"judge"})

\* The guard works at a deadline that has passed.
Due == attempt.step # "idle" => attempt.of <= now

\* The guard has the deadline of what is settled as active, or about to be.
Granted == Selection.made /\ Selection.want = "active" /\ now < Selection.until
Scheduled ==
  /\ Granted /\ Selection.settled => schedule = Selection.until
  /\ Granted /\ rec.fresh /\ rec.want = "active" /\ At({"publish", "mark"}) => schedule = Selection.until
  /\ Selection.made /\ rec.fresh /\ rec.want = "active" /\ At({"schedule"}) => rec.until = Selection.until
  /\ At({"withdraw", "remove", "unschedule"}) =>
       ~(Selection.made /\ Selection.settled /\ Selection.want = "active")

IInv == /\ TypeOK /\ NoEnable /\ Packaged /\ Reviewed /\ Copied /\ Gone /\ Added /\ Revoked
        /\ Withdrawn /\ Reserved /\ Left /\ Due /\ Scheduled

---------------------------------------------------------------------------
(* What an action writes has its type. *)

LEMMA RenewedType ==
  ASSUME TypeOK, NEW s \in Source, NEW w \in Wanted, NEW u \in Deadline
  PROVE  Renewed(s, w, u) \in Row
  BY DEF TypeOK, Renewed, Row, Source

LEMMA AppliedType ==
  ASSUME TypeOK, NEW s \in Source, NEW w \in Wanted
  PROVE  Applied(s, w) \in Row
  BY DEF TypeOK, Applied, Row, Source

LEMMA Constants ==
  /\ Never \in Deadline /\ 0 \in Time /\ NoSource \in Row /\ Still \in Work
  BY AccessAssumption DEF Never, Deadline, Time, NoSource, Row, Still, Work, Source, Wanted

\* A new generation of one source.
LEMMA RenewType ==
  ASSUME TypeOK, NEW s \in Source, NEW w \in Wanted, NEW u \in Deadline,
         source' = [source EXCEPT ![s] = Renewed(s, w, u)]
  PROVE  /\ source' \in [Source -> Row]
         /\ source'[s] = Renewed(s, w, u)
         /\ \A t \in Source \ {s} : source'[t] = source[t]
  BY RenewedType DEF TypeOK

\* The reconciler's copy only becomes stale.
LEMMA OutdateType ==
  ASSUME TypeOK, NEW S, Outdate(S)
  PROVE  /\ rec' \in Work
         /\ rec'.step = rec.step /\ rec'.of = rec.of /\ rec'.want = rec.want
         /\ rec'.until = rec.until /\ rec'.at = rec.at
         /\ rec'.fresh => rec.fresh /\ rec.of \notin S
         /\ rec.fresh /\ rec.of \notin S => rec'.fresh
  <1>1. rec \in Work
    BY DEF TypeOK
  <1>2. rec' = [rec EXCEPT !.fresh = rec.fresh /\ rec.of \notin S]
    BY DEF Outdate
  <1>3. rec'.fresh = (rec.fresh /\ rec.of \notin S)
    BY <1>1, <1>2, Zenon DEF Work
  <1>4. rec' \in Work
    BY <1>1, <1>2 DEF Work
  <1>5. /\ rec'.step = rec.step /\ rec'.of = rec.of /\ rec'.want = rec.want
        /\ rec'.until = rec.until /\ rec'.at = rec.at
    BY <1>1, <1>2, Zenon DEF Work
  <1> QED
    BY <1>3, <1>4, <1>5

---------------------------------------------------------------------------
(* Every step keeps the types. *)

LEMMA SelectType ==
  ASSUME TypeOK, SelectNode
  PROVE  TypeOK'
  <1>1. source' \in [Source -> Row]
    BY RenewedType, AppliedType, Constants DEF TypeOK, SelectNode, Ask, Entitled,
      Source, Wanted, Work
  <1>2. rec' \in Work
    BY Constants, OutdateType DEF TypeOK, SelectNode, Ask, Entitled, Work
  <1>3. selected' \in BOOLEAN
    BY Zenon DEF TypeOK, SelectNode, account, node
  <1> QED
    BY <1>1, <1>2, <1>3, AccessAssumption, Constants DEF TypeOK, SelectNode, Ask,
      Entitled, account, node

LEMMA DeselectType ==
  ASSUME TypeOK, DeselectNode
  PROVE  TypeOK'
  <1>1. source' \in [Source -> Row]
    BY RenewedType, AppliedType, Constants DEF TypeOK, DeselectNode, Ask, Source,
      Wanted, Work, Deadline, Never, Time, Row, Renewed,
      Applied, NoSource
  <1>2. rec' \in Work
    BY Constants, OutdateType DEF TypeOK, DeselectNode, Ask, Work
  <1>3. selected' \in BOOLEAN
    BY Zenon DEF TypeOK, DeselectNode, account, node
  <1> QED
    BY <1>1, <1>2, <1>3, AccessAssumption, Constants DEF TypeOK, DeselectNode, Ask,
      account, node, Work, Wanted, Time, Source, Deadline, Never, Still

LEMMA SyncType ==
  ASSUME TypeOK, SyncGrant
  PROVE  TypeOK'
  <1>1. source' \in [Source -> Row]
    BY RenewedType, AppliedType, Constants DEF TypeOK, SyncGrant, Differs, Settle
  <1>2. rec' \in Work
    BY Constants, OutdateType DEF TypeOK, SyncGrant, Differs, Settle, Work
  <1>3. sync' \in [step : {"idle", "read", "set"}, want : Wanted, until : Deadline]
    BY Constants DEF TypeOK, SyncGrant, Unread, Wanted
  <1> QED
    BY <1>1, <1>2, <1>3, AccessAssumption, Constants DEF TypeOK, SyncGrant, Differs,
      Settle, account, node, Work, Wanted, Time, Source, Deadline, Never, Still

LEMMA DisableType ==
  ASSUME TypeOK, Disable
  PROVE  TypeOK'
  BY AccessAssumption, Constants DEF TypeOK, Disable, Ask, Tombstone, account,
    node

LEMMA RemoveDisabledType ==
  ASSUME TypeOK, RemoveDisabled
  PROVE  TypeOK'
  <1>1. client' \in BOOLEAN
    BY Zenon DEF TypeOK, RemoveDisabled, account, node
  <1> QED
    BY <1>1, AccessAssumption, Constants DEF TypeOK, RemoveDisabled, account, node,
      Work, Wanted, Time, Source, Deadline, Never, Still

LEMMA PrepareType ==
  ASSUME TypeOK, PrepareDeletion
  PROVE  TypeOK'
  <1>1. source' \in [Source -> Row]
    BY RenewedType, AppliedType, Constants DEF TypeOK, PrepareDeletion, Ask,
      Prepared, Source, Wanted, Work, Deadline, Never,
      Time, Row, Renewed, Applied, NoSource
  <1>2. rec' \in Work
    BY Constants, OutdateType DEF TypeOK, PrepareDeletion, Ask, Prepared, Work
  <1>3. selected' \in BOOLEAN
    BY Zenon DEF TypeOK, PrepareDeletion, account, node
  <1> QED
    BY <1>1, <1>2, <1>3, AccessAssumption, Constants DEF TypeOK, PrepareDeletion,
      Ask, Prepared, account, node, Work, Wanted, Time, Source, Deadline, Never, Still

LEMMA FinalizeType ==
  ASSUME TypeOK, FinalizeDeletion
  PROVE  TypeOK'
  <1>1. source' \in [Source -> Row]
    BY RenewedType, AppliedType, Constants DEF TypeOK, FinalizeDeletion, Ready,
      Tombstone
  <1>2. rec' \in Work
    BY Constants, OutdateType DEF TypeOK, FinalizeDeletion, Ready, Tombstone, Work
  <1>3. selected' \in BOOLEAN
    BY Zenon DEF TypeOK, FinalizeDeletion, account, node
  <1> QED
    BY <1>1, <1>2, <1>3, AccessAssumption, Constants DEF TypeOK, FinalizeDeletion,
      Ready, Tombstone, account, node

LEMMA ScanReadType ==
  ASSUME TypeOK, ScanRead
  PROVE  TypeOK'
  <1>1. rec' \in Work
    BY Constants DEF TypeOK, ScanRead, Verdict, Differs, Work, Source, Wanted
  <1> QED
    BY <1>1, AccessAssumption, Constants DEF TypeOK, ScanRead, Verdict, Differs,
      account, node

LEMMA ScanSetType ==
  ASSUME TypeOK, ScanSet
  PROVE  TypeOK'
  <1>1. source' \in [Source -> Row]
    BY RenewedType, AppliedType, Constants DEF TypeOK, ScanSet, Differs, Settle,
      Source, Wanted, Work
  <1>2. rec' \in Work
    BY Constants DEF TypeOK, ScanSet, Differs, Settle, Work
  <1> QED
    BY <1>1, <1>2, AccessAssumption, Constants DEF TypeOK, ScanSet, Differs, Settle,
      account, node

LEMMA BeginType ==
  ASSUME TypeOK, NEW s \in Source, Begin(s), UNCHANGED <<now, account, source, saved, node, attempt, panel, sync, admin>>, requests' \in 0..MaxRequests, UNCHANGED faults
  PROVE  TypeOK'
  <1>1. rec' \in Work
    BY Constants DEF TypeOK, Begin, Work, Source, Wanted, Deadline, Time, Never, Row
  <1> QED
    BY <1>1, AccessAssumption, Constants DEF TypeOK, Begin, account, node

LEMMA TurnOffType ==
  ASSUME TypeOK, TurnOff
  PROVE  TypeOK'
  <1>1. source' \in [Source -> Row]
    BY RenewedType, AppliedType, Constants DEF TypeOK, TurnOff, Go, Source, Wanted,
      Work
  <1>2. rec' \in Work
    BY Constants DEF TypeOK, TurnOff, Go, Work, Source, Wanted
  <1> QED
    BY <1>1, <1>2, AccessAssumption, Constants DEF TypeOK, TurnOff, account, node

LEMMA JudgeType ==
  ASSUME TypeOK, Judge
  PROVE  TypeOK'
  <1>1. rec' \in Work
    BY Constants DEF TypeOK, Judge, Go, Work
  <1> QED
    BY <1>1, AccessAssumption, Constants DEF TypeOK, Judge, account, node

LEMMA ReserveType ==
  ASSUME TypeOK, ReserveCredential
  PROVE  TypeOK'
  <1>1. rec' \in Work
    BY Constants DEF TypeOK, ReserveCredential, EffectiveAt, ManagedAt, DeadlineAt,
      Go, Work, Source, Wanted, Deadline, Time, Never, Row
  <1> QED
    BY <1>1, AccessAssumption, Constants DEF TypeOK, ReserveCredential, EffectiveAt,
      ManagedAt, DeadlineAt, account, node

LEMMA FailType ==
  ASSUME TypeOK, Fail
  PROVE  TypeOK'
  <1>1. rec' \in Work
    BY Constants DEF TypeOK, Fail, Work
  <1> QED
    BY <1>1, AccessAssumption, Constants DEF TypeOK, Fail, account, node

LEMMA ScheduleType ==
  ASSUME TypeOK, ScheduleExpiry
  PROVE  TypeOK'
  <1>1. rec' \in Work
    BY Constants DEF TypeOK, ScheduleExpiry, Called, CallFailed, Work
  <1> QED
    BY <1>1, AccessAssumption, Constants DEF TypeOK, ScheduleExpiry, Called,
      CallFailed, account, node, Work, Wanted, Time, Source

LEMMA PublishType ==
  ASSUME TypeOK, Publish
  PROVE  TypeOK'
  <1>1. rec' \in Work
    BY Constants DEF TypeOK, Publish, Called, CallFailed, Work
  <1>2. client' \in BOOLEAN
    BY Zenon DEF TypeOK, Publish, account, node
  <1> QED
    BY <1>1, <1>2, AccessAssumption, Constants DEF TypeOK, Publish, Called,
      CallFailed, account, node, Work, Wanted, Time, Source, Deadline, Never, Still

LEMMA WithdrawType ==
  ASSUME TypeOK, Withdraw
  PROVE  TypeOK'
  <1>1. rec' \in Work
    BY Constants DEF TypeOK, Withdraw, EffectiveAt, ManagedAt, Work
  <1> QED
    BY <1>1, AccessAssumption, Constants DEF TypeOK, Withdraw, EffectiveAt,
      ManagedAt, account, node

LEMMA RemoveType ==
  ASSUME TypeOK, RemoveClient
  PROVE  TypeOK'
  <1>1. rec' \in Work
    BY Constants DEF TypeOK, RemoveClient, Called, CallFailed, Work
  <1>2. client' \in BOOLEAN
    BY Zenon DEF TypeOK, RemoveClient, account, node
  <1> QED
    BY <1>1, <1>2, AccessAssumption, Constants DEF TypeOK, RemoveClient, Called,
      CallFailed, account, node, Work, Wanted, Time, Source, Deadline, Never, Still

LEMMA UnscheduleType ==
  ASSUME TypeOK, Unschedule
  PROVE  TypeOK'
  <1>1. rec' \in Work
    BY Constants DEF TypeOK, Unschedule, Called, CallFailed, Work
  <1> QED
    BY <1>1, AccessAssumption, Constants DEF TypeOK, Unschedule, Called, CallFailed,
      account, node

LEMMA MarkType ==
  ASSUME TypeOK, MarkApplied
  PROVE  TypeOK'
  <1>1. source' \in [Source -> Row]
    BY RenewedType, AppliedType, Constants DEF TypeOK, MarkApplied, Source, Wanted,
      Work
  <1>2. rec' \in Work
    BY Constants DEF TypeOK, MarkApplied, Work
  <1> QED
    BY <1>1, <1>2, AccessAssumption, Constants DEF TypeOK, MarkApplied, account,
      node

LEMMA CrashType ==
  ASSUME TypeOK, Crash
  PROVE  TypeOK'
  <1>1. rec' \in Work
    BY Constants DEF TypeOK, Crash, Ask, Unread, Work
  <1> QED
    BY <1>1, AccessAssumption, Constants DEF TypeOK, Crash, Ask, Unread, account,
      node, Work, Wanted, Time, Source

LEMMA TakeType ==
  ASSUME TypeOK, TakeDue
  PROVE  TypeOK'
  BY AccessAssumption, Constants DEF TypeOK, TakeDue, account, node

LEMMA RemoveDueType ==
  ASSUME TypeOK, RemoveDue
  PROVE  TypeOK'
  <1>1. client' \in BOOLEAN
    BY Zenon DEF TypeOK, RemoveDue, account, node
  <1> QED
    BY <1>1, AccessAssumption, Constants DEF TypeOK, RemoveDue, account, node, Work,
      Wanted, Time, Source, Deadline, Never, Still

LEMMA FinishType ==
  ASSUME TypeOK, FinishAttempt
  PROVE  TypeOK'
  BY AccessAssumption, Constants DEF TypeOK, FinishAttempt, AtEase, account, node

LEMMA GuardRestartType ==
  ASSUME TypeOK, GuardRestart
  PROVE  TypeOK'
  BY AccessAssumption, Constants DEF TypeOK, GuardRestart, AtEase, account, node

LEMMA TickType ==
  ASSUME TypeOK, Tick
  PROVE  TypeOK'
  BY AccessAssumption, Constants DEF TypeOK, Tick, account, node, Work, Wanted,
    Time, Source

LEMMA OthersType ==
  ASSUME TypeOK, ChangeGrant \/ ReadGrant \/ Restart
  PROVE  TypeOK'
  <1>1. CASE ChangeGrant
    <2>1. grant' \in [on : BOOLEAN, until : Deadline]
      BY <1>1, Zenon DEF ChangeGrant
    <2>2. sync' \in [step : {"idle", "read", "set"}, want : Wanted, until : Deadline]
      BY <1>1, Constants DEF ChangeGrant, Unread, Wanted
    <2>3. requests' \in 0..MaxRequests
      BY <1>1, AccessAssumption DEF TypeOK, ChangeGrant, Ask
    <2> QED
      BY <1>1, <2>1, <2>2, <2>3 DEF TypeOK, ChangeGrant, account, node
  <1>2. CASE ReadGrant
    BY <1>2 DEF TypeOK, ReadGrant, Verdict, Wanted, account, node
  <1>3. CASE Restart
    BY <1>3 DEF TypeOK, Restart, account, node
  <1> QED
    BY <1>1, <1>2, <1>3

LEMMA EnableType ==
  ASSUME TypeOK, Enable \/ ResolveAccess \/ ReserveEnabled \/ AddEnabled \/ EnableRefused
  PROVE  TypeOK'
  <1>1. CASE Enable
    BY <1>1, AccessAssumption DEF TypeOK, Enable, Ask, account, node
  <1>2. CASE ResolveAccess
    BY <1>2 DEF TypeOK, ResolveAccess, account, node
  <1>3. CASE ReserveEnabled
    <2>1. saved' \in BOOLEAN
      BY <1>3, Zenon DEF TypeOK, ReserveEnabled
    <2> QED
      BY <1>3, <2>1 DEF TypeOK, ReserveEnabled, account, node
  <1>4. CASE AddEnabled
    <2>1. client' \in BOOLEAN
      BY <1>4, Zenon DEF TypeOK, AddEnabled
    <2> QED
      BY <1>4, <2>1 DEF TypeOK, AddEnabled, account, node
  <1>5. CASE EnableRefused
    BY <1>5 DEF TypeOK, EnableRefused, account, node
  <1> QED
    BY <1>1, <1>2, <1>3, <1>4, <1>5

LEMMA Typed ==
  ASSUME TypeOK, [Next]_vars
  PROVE  TypeOK'
  <1>1. CASE Request
    BY <1>1, SelectType, DeselectType, OthersType, DisableType, EnableType, PrepareType DEF Request
  <1>2. CASE Handlers
    BY <1>2, OthersType, SyncType, RemoveDisabledType, EnableType DEF Handlers
  <1>3. CASE Reconciler
    <2>1. ASSUME NEW s \in Source, Reconcile(s)  PROVE TypeOK'
      <3>1. requests' \in 0..MaxRequests
        BY <2>1 DEF Reconcile, TypeOK
      <3> QED
        BY <2>1, <3>1, BeginType DEF Reconcile
    <2>2. ASSUME NEW s \in Source, ReconcileAgain(s)  PROVE TypeOK'
      <3>1. requests' \in 0..MaxRequests
        BY <2>2, AccessAssumption DEF ReconcileAgain, TypeOK
      <3> QED
        BY <2>2, <3>1, BeginType DEF ReconcileAgain
    <2> QED
      BY <1>3, <2>1, <2>2, ScanReadType, ScanSetType, TurnOffType, JudgeType, ReserveType,
        FailType, ScheduleType, PublishType, WithdrawType, RemoveType, UnscheduleType,
        MarkType, FinalizeType DEF Reconciler
  <1>4. CASE Guard \/ GuardRestart \/ Crash \/ Restart \/ Tick
    BY <1>4, TakeType, RemoveDueType, FinishType, GuardRestartType, CrashType, OthersType,
      TickType DEF Guard
  <1>5. CASE UNCHANGED vars
    BY <1>5 DEF vars, account, node, TypeOK
  <1> QED
    BY <1>1, <1>2, <1>3, <1>4, <1>5 DEF Next

---------------------------------------------------------------------------
(* Every step keeps the invariant. *)

\* A selection is made or renewed: its source is not settled.
LEMMA SelectKeeps ==
  ASSUME IInv, SelectNode
  PROVE  IInv'
  <1>1. TypeOK'
    BY SelectType DEF IInv
  <1>2. Packaged'
    BY DEF IInv, Packaged, Selection, SelectNode, Ask, Entitled, Renewed, Outdate, account,
      node
  <1>3. Reviewed'
    BY DEF IInv, Reviewed, Review, Working, At, Tombstone, TypeOK, Time, Source, Wanted,
      Deadline, Never, Row, Work, SelectNode, Ask, Entitled, Renewed, Outdate, account, node
  <1>4. Copied'
    BY DEF IInv, Copied, Working, At, Selection, TypeOK, Time, Source, Wanted, Deadline,
      Never, Row, Work, SelectNode, Ask, Entitled, Renewed, Outdate, account, node
  <1>5. Gone'
    BY DEF IInv, Gone, Clean, Will, Adding, At, Source, SelectNode, Ask, Entitled, Renewed,
      Outdate, account, node
  <1>6. Added'
    BY DEF IInv, Added, Will, Adding, At, Selection, TypeOK, Time, Source, Wanted, Deadline,
      Never, Row, Work, SelectNode, Ask, Entitled, Renewed, Outdate, account, node
  <1>7. Revoked'
    BY DEF IInv, Revoked, Selection, Review, Clean, TypeOK, Time, Source, Wanted, Deadline,
      Never, Row, Work, SelectNode, Ask, Entitled, Renewed, Outdate, account, node
  <1>8. Withdrawn'
    BY DEF IInv, Withdrawn, At, Clean, TypeOK, Time, Source, Wanted, Deadline, Never, Row,
      Work, SelectNode, Ask, Entitled, Renewed, Outdate, account, node
  <1>9. Reserved'
    BY DEF IInv, Reserved, Clean, At, TypeOK, Time, Source, Wanted, Deadline, Never, Row,
      Work, SelectNode, Ask, Entitled, Renewed, Outdate, account, node
  <1>10. Left'
    BY DEF IInv, Left, Tombstone, Selection, At, SelectNode, Ask, Entitled, Renewed,
      Outdate, account, node
  <1>11. Scheduled'
    BY DEF IInv, Scheduled, Granted, Selection, At, TypeOK, Time, Source, Wanted, Deadline,
      Never, Row, Work, Copied, Working, Reviewed, Review, Tombstone, SelectNode, Ask,
      Entitled, Renewed, Outdate, account, node
  <1>12. NoEnable' /\ Due'
    BY DEF IInv, NoEnable, Due, SelectNode, account, node
  <1> QED
    BY <1>1, <1>2, <1>3, <1>4, <1>5, <1>6, <1>7, <1>8, <1>9, <1>10, <1>11, <1>12 DEF IInv

\* A selection is given up: its source is not settled.
LEMMA DeselectKeeps ==
  ASSUME IInv, DeselectNode
  PROVE  IInv'
  <1>1. TypeOK'
    BY DeselectType DEF IInv
  <1>2. Packaged'
    BY DEF IInv, Packaged, Selection, DeselectNode, Ask, Renewed, Outdate, account, node
  <1>3. Reviewed'
    BY DEF IInv, Reviewed, Review, Working, At, Tombstone, DeselectNode, Ask, Renewed,
      Outdate, account, node
  <1>4. Copied'
    BY DEF IInv, Copied, Working, At, Selection, TypeOK, Time, Source, Wanted, Deadline,
      Never, Row, Work, DeselectNode, Ask, Renewed, Outdate, account, node
  <1>5. Gone'
    BY DEF IInv, Gone, Clean, Will, Adding, At, Source, DeselectNode, Ask, Renewed, Outdate,
      account, node
  <1>6. Added'
    BY DEF IInv, Added, Will, Adding, At, Selection, TypeOK, Time, Source, Wanted, Deadline,
      Never, Row, Work, DeselectNode, Ask, Renewed, Outdate, account, node
  <1>7. Revoked'
    BY DEF IInv, Revoked, Selection, Review, Clean, DeselectNode, Ask, Renewed, Outdate,
      account, node
  <1>8. Withdrawn'
    BY DEF IInv, Withdrawn, At, Clean, TypeOK, Time, Source, Wanted, Deadline, Never, Row,
      Work, DeselectNode, Ask, Renewed, Outdate, account, node
  <1>9. Reserved'
    BY DEF IInv, Reserved, Clean, At, DeselectNode, Ask, Renewed, Outdate, account, node
  <1>10. Left'
    BY DEF IInv, Left, Tombstone, Selection, At, TypeOK, Time, Source, Wanted, Deadline,
      Never, Row, Work, DeselectNode, Ask, Renewed, Outdate, account, node
  <1>11. Scheduled'
    BY DEF IInv, Scheduled, Granted, Selection, At, TypeOK, Time, Source, Wanted, Deadline,
      Never, Row, Work, DeselectNode, Ask, Renewed, Outdate, account, node
  <1>12. NoEnable' /\ Due'
    BY DEF IInv, NoEnable, Due, DeselectNode, account, node
  <1> QED
    BY <1>1, <1>2, <1>3, <1>4, <1>5, <1>6, <1>7, <1>8, <1>9, <1>10, <1>11, <1>12 DEF IInv

\* An administrator's verdict on the grant is written: the source is not settled.
LEMMA SyncKeeps ==
  ASSUME IInv, SyncGrant
  PROVE  IInv'
  <1>1. TypeOK'
    BY SyncType DEF IInv
  <1>2. Packaged'
    BY DEF IInv, Packaged, Selection, SyncGrant, Differs, Settle, Renewed, Outdate, account,
      node
  <1>3. Reviewed'
    BY DEF IInv, Reviewed, Review, Working, At, Tombstone, TypeOK, Time, Source, Wanted,
      Deadline, Never, Row, Work, SyncGrant, Differs, Settle, Renewed, Outdate, account,
      node
  <1>4. Copied'
    BY DEF IInv, Copied, Working, At, Selection, TypeOK, Time, Source, Wanted, Deadline,
      Never, Row, Work, Reviewed, Review, Tombstone, Packaged, Added, Will, Adding,
      SyncGrant, Differs, Settle, Renewed, Outdate, account, node
  <1>5. Gone'
    BY DEF IInv, Gone, Clean, Will, Adding, At, Source, SyncGrant, Differs, Settle, Renewed,
      Outdate, account, node
  <1>6. Added'
    BY DEF IInv, Added, Will, Adding, At, Selection, TypeOK, Time, Source, Wanted, Deadline,
      Never, Row, Work, SyncGrant, Differs, Settle, Renewed, Outdate, account, node
  <1>7. Revoked'
    BY DEF IInv, Revoked, Selection, Review, Clean, TypeOK, Time, Source, Wanted, Deadline,
      Never, Row, Work, SyncGrant, Differs, Settle, Renewed, Outdate, account, node
  <1>8. Withdrawn'
    BY DEF IInv, Withdrawn, At, Clean, TypeOK, Time, Source, Wanted, Deadline, Never, Row,
      Work, SyncGrant, Differs, Settle, Renewed, Outdate, account, node
  <1>9. Reserved'
    BY DEF IInv, Reserved, Clean, At, TypeOK, Time, Source, Wanted, Deadline, Never, Row,
      Work, SyncGrant, Differs, Settle, Renewed, Outdate, account, node
  <1>10. Left'
    BY DEF IInv, Left, Tombstone, Selection, At, TypeOK, Time, Source, Wanted, Deadline,
      Never, Row, Work, SyncGrant, Differs, Settle, Renewed, Outdate, account, node
  <1>11. Scheduled'
    BY DEF IInv, Scheduled, Granted, Selection, At, TypeOK, Time, Source, Wanted, Deadline,
      Never, Row, Work, Copied, Working, Reviewed, Review, Tombstone, Packaged, Added, Will,
      Adding, SyncGrant, Differs, Settle, Renewed, Outdate, account, node
  <1>12. NoEnable' /\ Due'
    BY DEF IInv, NoEnable, Due, SyncGrant, account, node
  <1> QED
    BY <1>1, <1>2, <1>3, <1>4, <1>5, <1>6, <1>7, <1>8, <1>9, <1>10, <1>11, <1>12 DEF IInv

\* An account is disabled.
LEMMA DisableKeeps ==
  ASSUME IInv, Disable
  PROVE  IInv'
  <1>1. TypeOK'
    BY DisableType DEF IInv
  <1>2. NoEnable'
    BY DEF IInv, NoEnable, Disable, Ask, Tombstone, account, node
  <1>3. Reviewed'
    BY DEF IInv, Reviewed, Review, Working, At, Tombstone, Disable, Ask, account, node
  <1>4. Copied'
    BY DEF IInv, Copied, Working, At, Selection, Disable, Ask, Tombstone, account, node
  <1>5. Gone'
    BY DEF IInv, Gone, Clean, Will, Adding, At, Source, Disable, Ask, Tombstone, account,
      node
  <1>6. Left'
    BY DEF IInv, Left, Tombstone, Selection, At, Disable, Ask, account, node
  <1>7. Packaged' /\ Added' /\ Revoked' /\ Withdrawn' /\ Reserved' /\ Due' /\ Scheduled'
    BY DEF IInv, Packaged, Selection, Added, Will, Adding, At, Revoked, Review, Clean,
      Withdrawn, Reserved, Due, Scheduled, Granted, Disable, account, node
  <1> QED
    BY <1>1, <1>2, <1>3, <1>4, <1>5, <1>6, <1>7 DEF IInv

\* Its client is removed.
LEMMA RemoveDisabledKeeps ==
  ASSUME IInv, RemoveDisabled
  PROVE  IInv'
  <1>1. TypeOK'
    BY RemoveDisabledType DEF IInv
  <1>2. NoEnable'
    BY DEF IInv, NoEnable, RemoveDisabled, account, node
  <1>3. Gone'
    BY DEF IInv, Gone, Clean, Will, Adding, At, Source, RemoveDisabled, account, node
  <1>4. Revoked'
    BY DEF IInv, Revoked, Selection, Review, Clean, RemoveDisabled, account, node
  <1>5. Withdrawn'
    BY DEF IInv, Withdrawn, At, Clean, RemoveDisabled, account, node
  <1>6. Reserved'
    BY DEF IInv, Reserved, Clean, At, RemoveDisabled, account, node
  <1>7. Packaged' /\ Reviewed' /\ Copied' /\ Added' /\ Left' /\ Due' /\ Scheduled'
    BY DEF IInv, Packaged, Selection, Reviewed, Review, Working, At, Tombstone, Copied,
      Added, Will, Adding, Left, Due, Scheduled, Granted, RemoveDisabled, account, node
  <1> QED
    BY <1>1, <1>2, <1>3, <1>4, <1>5, <1>6, <1>7 DEF IInv

\* A deletion is prepared: nothing stays active.
LEMMA PrepareKeeps ==
  ASSUME IInv, PrepareDeletion
  PROVE  IInv'
  <1>1. TypeOK'
    BY PrepareType DEF IInv
  <1>2. Packaged'
    BY DEF IInv, Packaged, Selection, TypeOK, Time, Source, Wanted, Deadline, Never, Row,
      Work, PrepareDeletion, Ask, Prepared, Renewed, NoSource, Outdate, account, node
  <1>3. Reviewed'
    BY DEF IInv, Reviewed, Review, Working, At, Tombstone, TypeOK, Time, Source, Wanted,
      Deadline, Never, Row, Work, PrepareDeletion, Ask, Prepared, Renewed, NoSource,
      Outdate, account, node
  <1>4. Copied'
    BY DEF IInv, Copied, Working, At, Selection, TypeOK, Time, Source, Wanted, Deadline,
      Never, Row, Work, PrepareDeletion, Ask, Prepared, Renewed, NoSource, Outdate, account,
      node
  <1>5. Gone'
    BY DEF IInv, Gone, Clean, Will, Adding, At, Source, PrepareDeletion, Ask, Prepared,
      Renewed, NoSource, Outdate, account, node
  <1>6. Added'
    BY DEF IInv, Added, Will, Adding, At, Selection, TypeOK, Time, Source, Wanted, Deadline,
      Never, Row, Work, PrepareDeletion, Ask, Prepared, Renewed, NoSource, Outdate, account,
      node
  <1>7. Revoked'
    BY DEF IInv, Revoked, Selection, Review, Clean, TypeOK, Time, Source, Wanted, Deadline,
      Never, Row, Work, PrepareDeletion, Ask, Prepared, Renewed, NoSource, Outdate, account,
      node
  <1>8. Withdrawn'
    BY DEF IInv, Withdrawn, At, Clean, TypeOK, Time, Source, Wanted, Deadline, Never, Row,
      Work, PrepareDeletion, Ask, Prepared, Renewed, NoSource, Outdate, account, node
  <1>9. Reserved'
    BY DEF IInv, Reserved, Clean, At, PrepareDeletion, Ask, Prepared, Renewed, NoSource,
      Outdate, account, node
  <1>10. Left'
    BY DEF IInv, Left, Tombstone, Selection, At, TypeOK, Time, Source, Wanted, Deadline,
      Never, Row, Work, Copied, Working, Reviewed, Review, PrepareDeletion, Ask, Prepared,
      Renewed, NoSource, Outdate, account, node
  <1>11. Scheduled'
    BY DEF IInv, Scheduled, Granted, Selection, At, TypeOK, Time, Source, Wanted, Deadline,
      Never, Row, Work, PrepareDeletion, Ask, Prepared, Renewed, NoSource, Outdate, account,
      node
  <1>12. NoEnable' /\ Due'
    BY DEF IInv, NoEnable, Due, PrepareDeletion, account, node
  <1> QED
    BY <1>1, <1>2, <1>3, <1>4, <1>5, <1>6, <1>7, <1>8, <1>9, <1>10, <1>11, <1>12 DEF IInv

\* A deletion becomes final: what is settled has left nothing.
LEMMA FinalizeKeeps ==
  ASSUME IInv, FinalizeDeletion
  PROVE  IInv'
  <1>1. TypeOK'
    BY FinalizeType DEF IInv
  <1>2. Packaged'
    BY DEF IInv, Packaged, Selection, TypeOK, Time, Source, Wanted, Deadline, Never, Row,
      Work, FinalizeDeletion, Ready, NoSource, Outdate, Tombstone, account, node
  <1>3. Reviewed'
    BY DEF IInv, Reviewed, Review, Working, At, Tombstone, TypeOK, Time, Source, Wanted,
      Deadline, Never, Row, Work, FinalizeDeletion, Ready, NoSource, Outdate, account, node
  <1>4. Copied'
    BY DEF IInv, Copied, Working, At, Selection, TypeOK, Time, Source, Wanted, Deadline,
      Never, Row, Work, FinalizeDeletion, Ready, NoSource, Outdate, Tombstone, account, node
  <1>5. Gone'
    BY DEF IInv, TypeOK, Time, Source, Wanted, Deadline, Never, Row, Work, NoEnable,
      Packaged, Selection, Reviewed, Review, Working, At, Tombstone, Copied, Gone, Clean,
      Will, Adding, Added, Revoked, Withdrawn, Reserved, Left, Due, Scheduled, Granted,
      FinalizeDeletion, Ready, NoSource, Outdate, account, node
  <1>6. Added'
    BY DEF IInv, Added, Will, Adding, At, Selection, TypeOK, Time, Source, Wanted, Deadline,
      Never, Row, Work, FinalizeDeletion, Ready, NoSource, Outdate, Tombstone, account, node
  <1>7. Revoked'
    BY DEF IInv, Revoked, Selection, Review, Clean, TypeOK, Time, Source, Wanted, Deadline,
      Never, Row, Work, FinalizeDeletion, Ready, NoSource, Outdate, Tombstone, account, node
  <1>8. Withdrawn'
    BY DEF IInv, Withdrawn, At, Clean, TypeOK, Time, Source, Wanted, Deadline, Never, Row,
      Work, FinalizeDeletion, Ready, NoSource, Outdate, Tombstone, account, node
  <1>9. Reserved'
    BY DEF IInv, TypeOK, Time, Source, Wanted, Deadline, Never, Row, Work, NoEnable,
      Packaged, Selection, Reviewed, Review, Working, At, Tombstone, Copied, Gone, Clean,
      Will, Adding, Added, Revoked, Withdrawn, Reserved, Left, Due, Scheduled, Granted,
      FinalizeDeletion, Ready, NoSource, Outdate, account, node
  <1>10. Left'
    BY DEF IInv, Left, Tombstone, Selection, At, TypeOK, Time, Source, Wanted, Deadline,
      Never, Row, Work, FinalizeDeletion, Ready, NoSource, Outdate, account, node
  <1>11. Scheduled'
    BY DEF IInv, Scheduled, Granted, Selection, At, TypeOK, Time, Source, Wanted, Deadline,
      Never, Row, Work, FinalizeDeletion, Ready, NoSource, Outdate, Tombstone, account, node
  <1>12. NoEnable' /\ Due'
    BY DEF IInv, NoEnable, Due, FinalizeDeletion, account, node
  <1> QED
    BY <1>1, <1>2, <1>3, <1>4, <1>5, <1>6, <1>7, <1>8, <1>9, <1>10, <1>11, <1>12 DEF IInv

\* The scan judges a grant.
LEMMA ScanReadKeeps ==
  ASSUME IInv, ScanRead
  PROVE  IInv'
  <1>1. TypeOK'
    BY ScanReadType DEF IInv
  <1>2. Reviewed'
    BY DEF IInv, Reviewed, Review, Working, At, Tombstone, ScanRead, Verdict, Differs,
      account, node
  <1>3. Copied'
    BY DEF IInv, Copied, Working, At, Selection, ScanRead, Verdict, Differs, account, node
  <1>4. Gone'
    BY DEF IInv, Gone, Clean, Will, Adding, At, Source, ScanRead, Verdict, Differs, account,
      node
  <1>5. Added'
    BY DEF IInv, Added, Will, Adding, At, Selection, ScanRead, Verdict, Differs, account,
      node
  <1>6. Withdrawn'
    BY DEF IInv, Withdrawn, At, Clean, ScanRead, Verdict, Differs, account, node
  <1>7. Reserved'
    BY DEF IInv, Reserved, Clean, At, ScanRead, Verdict, Differs, account, node
  <1>8. Left'
    BY DEF IInv, Left, Tombstone, Selection, At, ScanRead, Verdict, Differs, account, node
  <1>9. Scheduled'
    BY DEF IInv, Scheduled, Granted, Selection, At, ScanRead, Verdict, Differs, account,
      node
  <1>10. NoEnable' /\ Packaged' /\ Revoked' /\ Due'
    BY DEF IInv, NoEnable, Packaged, Selection, Revoked, Review, Clean, Due, ScanRead,
      account, node
  <1> QED
    BY <1>1, <1>2, <1>3, <1>4, <1>5, <1>6, <1>7, <1>8, <1>9, <1>10 DEF IInv

\* The scan writes its verdict: the source is not settled.
LEMMA ScanSetKeeps ==
  ASSUME IInv, ScanSet
  PROVE  IInv'
  <1>1. TypeOK'
    BY ScanSetType DEF IInv
  <1>2. Packaged'
    BY DEF IInv, Packaged, Selection, ScanSet, Differs, Settle, Renewed, Still, account,
      node
  <1>3. Reviewed'
    BY DEF IInv, Reviewed, Review, Working, At, Tombstone, TypeOK, Time, Source, Wanted,
      Deadline, Never, Row, Work, ScanSet, Differs, Settle, Renewed, Still, account, node
  <1>4. Copied'
    BY DEF IInv, Copied, Working, At, Selection, ScanSet, Differs, Settle, Renewed, Still,
      account, node
  <1>5. Gone'
    BY DEF IInv, Gone, Clean, Will, Adding, At, Source, ScanSet, Differs, Settle, Renewed,
      Still, account, node
  <1>6. Added'
    BY DEF IInv, Added, Will, Adding, At, Selection, ScanSet, Differs, Settle, Renewed,
      Still, account, node
  <1>7. Revoked'
    BY DEF IInv, Revoked, Selection, Review, Clean, TypeOK, Time, Source, Wanted, Deadline,
      Never, Row, Work, ScanSet, Differs, Settle, Renewed, Still, account, node
  <1>8. Withdrawn'
    BY DEF IInv, Withdrawn, At, Clean, ScanSet, Differs, Settle, Renewed, Still, account,
      node
  <1>9. Reserved'
    BY DEF IInv, Reserved, Clean, At, ScanSet, Differs, Settle, Renewed, Still, account,
      node
  <1>10. Left'
    BY DEF IInv, Left, Tombstone, Selection, At, TypeOK, Time, Source, Wanted, Deadline,
      Never, Row, Work, ScanSet, Differs, Settle, Renewed, Still, account, node
  <1>11. Scheduled'
    BY DEF IInv, Scheduled, Granted, Selection, At, TypeOK, Time, Source, Wanted, Deadline,
      Never, Row, Work, ScanSet, Differs, Settle, Renewed, Still, account, node
  <1>12. NoEnable' /\ Due'
    BY DEF IInv, NoEnable, Due, ScanSet, account, node
  <1> QED
    BY <1>1, <1>2, <1>3, <1>4, <1>5, <1>6, <1>7, <1>8, <1>9, <1>10, <1>11, <1>12 DEF IInv

\* A reconciliation begins with a copy of its source.
LEMMA BeginKeeps ==
  ASSUME IInv, NEW s \in Source, Begin(s), UNCHANGED <<now, account, source, saved, node, attempt, panel, sync, admin>>, requests' \in 0..MaxRequests, UNCHANGED faults
  PROVE  IInv'
  <1>1. TypeOK'
    BY BeginType DEF IInv
  <1>2. Reviewed'
    BY DEF IInv, Reviewed, Review, Working, At, Tombstone, Begin, account, node
  <1>3. Copied'
    BY DEF IInv, Copied, Working, At, Selection, Begin, account, node
  <1>4. Gone'
    BY DEF IInv, Gone, Clean, Will, Adding, At, Source, Begin, account, node
  <1>5. Added'
    BY DEF IInv, Added, Will, Adding, At, Selection, TypeOK, Time, Source, Wanted, Deadline,
      Never, Row, Work, Copied, Working, Reviewed, Review, Tombstone, Begin, account, node
  <1>6. Withdrawn'
    BY DEF IInv, Withdrawn, At, Clean, Begin, account, node
  <1>7. Reserved'
    BY DEF IInv, Reserved, Clean, At, Begin, account, node
  <1>8. Left'
    BY DEF IInv, Left, Tombstone, Selection, At, Begin, account, node
  <1>9. Scheduled'
    BY DEF IInv, Scheduled, Granted, Selection, At, Begin, account, node
  <1>10. NoEnable' /\ Packaged' /\ Revoked' /\ Due'
    BY DEF IInv, NoEnable, Packaged, Selection, Revoked, Review, Clean, Due, account, node
  <1> QED
    BY <1>1, <1>2, <1>3, <1>4, <1>5, <1>6, <1>7, <1>8, <1>9, <1>10 DEF IInv

\* A source is turned off, and the copy with it.
LEMMA TurnOffKeeps ==
  ASSUME IInv, TurnOff
  PROVE  IInv'
  <1>1. TypeOK'
    BY TurnOffType DEF IInv
  <1>2. Packaged'
    BY DEF IInv, Packaged, Selection, TypeOK, Time, Source, Wanted, Deadline, Never, Row,
      Work, Copied, Working, At, Reviewed, Review, Tombstone, TurnOff, Renewed, Still, Go,
      account, node
  <1>3. Reviewed'
    BY DEF IInv, Reviewed, Review, Working, At, Tombstone, TypeOK, Time, Source, Wanted,
      Deadline, Never, Row, Work, TurnOff, Renewed, Still, Go, account, node
  <1>4. Copied'
    BY DEF IInv, Copied, Working, At, Selection, TypeOK, Time, Source, Wanted, Deadline,
      Never, Row, Work, TurnOff, Renewed, Still, Go, account, node
  <1>5. Gone'
    BY DEF IInv, Gone, Clean, Will, Adding, At, Source, TurnOff, Renewed, Still, Go,
      account, node
  <1>6. Added'
    BY DEF IInv, Added, Will, Adding, At, Selection, TurnOff, Renewed, Still, Go, account,
      node
  <1>7. Revoked'
    BY DEF IInv, Revoked, Selection, Review, Clean, TypeOK, Time, Source, Wanted, Deadline,
      Never, Row, Work, TurnOff, Renewed, Still, Go, account, node
  <1>8. Withdrawn'
    BY DEF IInv, Withdrawn, At, Clean, TurnOff, Renewed, Still, Go, account, node
  <1>9. Reserved'
    BY DEF IInv, Reserved, Clean, At, TurnOff, Renewed, Still, Go, account, node
  <1>10. Left'
    BY DEF IInv, Left, Tombstone, Selection, At, TypeOK, Time, Source, Wanted, Deadline,
      Never, Row, Work, TurnOff, Renewed, Still, Go, account, node
  <1>11. Scheduled'
    BY DEF IInv, Scheduled, Granted, Selection, At, TypeOK, Time, Source, Wanted, Deadline,
      Never, Row, Work, Copied, Working, Reviewed, Review, Tombstone, TurnOff, Renewed,
      Still, Go, account, node
  <1>12. NoEnable' /\ Due'
    BY DEF IInv, NoEnable, Due, TurnOff, account, node
  <1> QED
    BY <1>1, <1>2, <1>3, <1>4, <1>5, <1>6, <1>7, <1>8, <1>9, <1>10, <1>11, <1>12 DEF IInv

\* A source is to be added or withdrawn.
LEMMA JudgeKeeps ==
  ASSUME IInv, Judge
  PROVE  IInv'
  <1>1. TypeOK'
    BY JudgeType DEF IInv
  <1>2. Reviewed'
    BY DEF IInv, Reviewed, Review, Working, At, Tombstone, Judge, Go, account, node
  <1>3. Copied'
    BY DEF IInv, Copied, Working, At, Selection, Judge, Go, account, node
  <1>4. Gone'
    BY DEF IInv, Gone, Clean, Will, Adding, At, Source, Judge, Go, account, node
  <1>5. Added'
    BY DEF IInv, Added, Will, Adding, At, Selection, Judge, Go, account, node
  <1>6. Withdrawn'
    BY DEF IInv, Withdrawn, At, Clean, TypeOK, Time, Source, Wanted, Deadline, Never, Row,
      Work, Judge, Go, account, node
  <1>7. Reserved'
    BY DEF IInv, Reserved, Clean, At, Judge, Go, account, node
  <1>8. Left'
    BY DEF IInv, Left, Tombstone, Selection, At, Judge, Go, account, node
  <1>9. Scheduled'
    BY DEF IInv, Scheduled, Granted, Selection, At, TypeOK, Time, Source, Wanted, Deadline,
      Never, Row, Work, Copied, Working, Reviewed, Review, Tombstone, Added, Will, Adding,
      Withdrawn, Clean, Reserved, Left, Judge, Go, account, node
  <1>10. NoEnable' /\ Packaged' /\ Revoked' /\ Due'
    BY DEF IInv, NoEnable, Packaged, Selection, Revoked, Review, Clean, Due, Judge, account,
      node
  <1> QED
    BY <1>1, <1>2, <1>3, <1>4, <1>5, <1>6, <1>7, <1>8, <1>9, <1>10 DEF IInv

\* A credential is reserved for an effective access.
LEMMA ReserveKeeps ==
  ASSUME IInv, ReserveCredential
  PROVE  IInv'
  <1>1. TypeOK'
    BY ReserveType DEF IInv
  <1>2. Reviewed'
    BY DEF IInv, Reviewed, Review, Working, At, Tombstone, ReserveCredential, EffectiveAt,
      ManagedAt, DeadlineAt, Go, account, node
  <1>3. Copied'
    BY DEF IInv, Copied, Working, At, Selection, ReserveCredential, EffectiveAt, ManagedAt,
      DeadlineAt, Go, account, node
  <1>4. Gone'
    BY DEF IInv, Gone, Clean, Will, Adding, At, Source, ReserveCredential, EffectiveAt,
      ManagedAt, DeadlineAt, Go, account, node
  <1>5. Added'
    BY DEF IInv, Added, Will, Adding, At, Selection, TypeOK, Time, Source, Wanted, Deadline,
      Never, Row, Work, Copied, Working, Reviewed, Review, Tombstone, Packaged,
      ReserveCredential, EffectiveAt, ManagedAt, DeadlineAt, Go, account, node
  <1>6. Withdrawn'
    BY DEF IInv, Withdrawn, At, Clean, ReserveCredential, EffectiveAt, ManagedAt,
      DeadlineAt, Go, account, node
  <1>7. Reserved'
    BY DEF IInv, Reserved, Clean, At, ReserveCredential, EffectiveAt, ManagedAt, DeadlineAt,
      Go, account, node
  <1>8. Left'
    BY DEF IInv, Left, Tombstone, Selection, At, ReserveCredential, EffectiveAt, ManagedAt,
      DeadlineAt, Go, account, node
  <1>9. Scheduled'
    BY DEF IInv, Scheduled, Granted, Selection, At, TypeOK, Time, Source, Wanted, Deadline,
      Never, Row, Work, Copied, Working, Reviewed, Review, Tombstone, Packaged, Added, Will,
      Adding, ReserveCredential, EffectiveAt, ManagedAt, DeadlineAt, Go, account, node
  <1>10. NoEnable' /\ Packaged' /\ Revoked' /\ Due'
    BY DEF IInv, NoEnable, Packaged, Selection, Revoked, Review, Clean, Due,
      ReserveCredential, account, node
  <1> QED
    BY <1>1, <1>2, <1>3, <1>4, <1>5, <1>6, <1>7, <1>8, <1>9, <1>10 DEF IInv

\* A reconciliation fails.
LEMMA FailKeeps ==
  ASSUME IInv, Fail
  PROVE  IInv'
  <1>1. TypeOK'
    BY FailType DEF IInv
  <1>2. Reviewed'
    BY DEF IInv, Reviewed, Review, Working, At, Tombstone, Fail, Still, account, node
  <1>3. Copied'
    BY DEF IInv, Copied, Working, At, Selection, Fail, Still, account, node
  <1>4. Gone'
    BY DEF IInv, Gone, Clean, Will, Adding, At, Source, Fail, Still, account, node
  <1>5. Added'
    BY DEF IInv, Added, Will, Adding, At, Selection, Fail, Still, account, node
  <1>6. Withdrawn'
    BY DEF IInv, Withdrawn, At, Clean, Fail, Still, account, node
  <1>7. Reserved'
    BY DEF IInv, Reserved, Clean, At, Fail, Still, account, node
  <1>8. Left'
    BY DEF IInv, Left, Tombstone, Selection, At, Fail, Still, account, node
  <1>9. Scheduled'
    BY DEF IInv, Scheduled, Granted, Selection, At, Fail, Still, account, node
  <1>10. NoEnable' /\ Packaged' /\ Revoked' /\ Due'
    BY DEF IInv, NoEnable, Packaged, Selection, Revoked, Review, Clean, Due, Fail, account,
      node
  <1> QED
    BY <1>1, <1>2, <1>3, <1>4, <1>5, <1>6, <1>7, <1>8, <1>9, <1>10 DEF IInv

\* The guard is given the deadline.
LEMMA ScheduleKeeps ==
  ASSUME IInv, ScheduleExpiry
  PROVE  IInv'
  <1>1. TypeOK'
    BY ScheduleType DEF IInv
  <1>2. Reviewed'
    BY DEF IInv, Reviewed, Review, Working, At, Tombstone, TypeOK, Time, Source, Wanted,
      Deadline, Never, Row, Work, ScheduleExpiry, Called, CallFailed, Still, account, node
  <1>3. Copied'
    BY DEF IInv, Copied, Working, At, Selection, TypeOK, Time, Source, Wanted, Deadline,
      Never, Row, Work, ScheduleExpiry, Called, CallFailed, Still, account, node
  <1>4. Gone'
    BY DEF IInv, Gone, Clean, Will, Adding, At, Source, ScheduleExpiry, Called, CallFailed,
      Still, account, node
  <1>5. Added'
    BY DEF IInv, Added, Will, Adding, At, Selection, TypeOK, Time, Source, Wanted, Deadline,
      Never, Row, Work, ScheduleExpiry, Called, CallFailed, Still, account, node
  <1>6. Revoked'
    BY DEF IInv, Revoked, Selection, Review, Clean, TypeOK, Time, Source, Wanted, Deadline,
      Never, Row, Work, Copied, Working, At, Reviewed, Tombstone, Packaged, Added, Will,
      Adding, ScheduleExpiry, Called, CallFailed, Still, account, node
  <1>7. Withdrawn'
    BY DEF IInv, Withdrawn, At, Clean, TypeOK, Time, Source, Wanted, Deadline, Never, Row,
      Work, ScheduleExpiry, Called, CallFailed, Still, account, node
  <1>8. Reserved'
    BY DEF IInv, Reserved, Clean, At, ScheduleExpiry, Called, CallFailed, Still, account,
      node
  <1>9. Left'
    BY DEF IInv, Left, Tombstone, Selection, At, TypeOK, Time, Source, Wanted, Deadline,
      Never, Row, Work, ScheduleExpiry, Called, CallFailed, Still, account, node
  <1>10. Scheduled'
    BY DEF IInv, Scheduled, Granted, Selection, At, TypeOK, Time, Source, Wanted, Deadline,
      Never, Row, Work, Copied, Working, Reviewed, Review, Tombstone, Added, Will, Adding,
      Withdrawn, Clean, Reserved, Left, ScheduleExpiry, Called, CallFailed, Still, account,
      node
  <1>11. NoEnable' /\ Packaged' /\ Due'
    BY DEF IInv, NoEnable, Packaged, Selection, Due, ScheduleExpiry, account, node
  <1> QED
    BY <1>1, <1>2, <1>3, <1>4, <1>5, <1>6, <1>7, <1>8, <1>9, <1>10, <1>11 DEF IInv

\* The client is added.
LEMMA PublishKeeps ==
  ASSUME IInv, Publish
  PROVE  IInv'
  <1>1. TypeOK'
    BY PublishType DEF IInv
  <1>2. Reviewed'
    BY DEF IInv, Reviewed, Review, Working, At, Tombstone, TypeOK, Time, Source, Wanted,
      Deadline, Never, Row, Work, Publish, Called, CallFailed, Still, account, node
  <1>3. Copied'
    BY DEF IInv, Copied, Working, At, Selection, TypeOK, Time, Source, Wanted, Deadline,
      Never, Row, Work, Publish, Called, CallFailed, Still, account, node
  <1>4. Gone'
    BY DEF IInv, Gone, Clean, Will, Adding, At, Source, Publish, Called, CallFailed, Still,
      account, node
  <1>5. Added'
    BY DEF IInv, Added, Will, Adding, At, Selection, TypeOK, Time, Source, Wanted, Deadline,
      Never, Row, Work, Publish, Called, CallFailed, Still, account, node
  <1>6. Revoked'
    BY DEF IInv, Revoked, Selection, Review, Clean, TypeOK, Time, Source, Wanted, Deadline,
      Never, Row, Work, Copied, Working, At, Reviewed, Tombstone, Packaged, Added, Will,
      Adding, Publish, Called, CallFailed, Still, account, node
  <1>7. Withdrawn'
    BY DEF IInv, Withdrawn, At, Clean, TypeOK, Time, Source, Wanted, Deadline, Never, Row,
      Work, Copied, Working, Selection, Reviewed, Review, Tombstone, Packaged, Added, Will,
      Adding, Publish, Called, CallFailed, Still, account, node
  <1>8. Reserved'
    BY DEF IInv, Reserved, Clean, At, Publish, Called, CallFailed, Still, account, node
  <1>9. Left'
    BY DEF IInv, Left, Tombstone, Selection, At, Publish, Called, CallFailed, Still,
      account, node
  <1>10. Scheduled'
    BY DEF IInv, Scheduled, Granted, Selection, At, TypeOK, Time, Source, Wanted, Deadline,
      Never, Row, Work, Publish, Called, CallFailed, Still, account, node
  <1>11. NoEnable' /\ Packaged' /\ Due'
    BY DEF IInv, NoEnable, Packaged, Selection, Due, Publish, account, node
  <1> QED
    BY <1>1, <1>2, <1>3, <1>4, <1>5, <1>6, <1>7, <1>8, <1>9, <1>10, <1>11 DEF IInv

\* Nothing else is effective.
LEMMA WithdrawKeeps ==
  ASSUME IInv, Withdraw
  PROVE  IInv'
  <1>1. TypeOK'
    BY WithdrawType DEF IInv
  <1>2. Reviewed'
    BY DEF IInv, Reviewed, Review, Working, At, Tombstone, Withdraw, EffectiveAt, ManagedAt,
      account, node
  <1>3. Copied'
    BY DEF IInv, Copied, Working, At, Selection, Withdraw, EffectiveAt, ManagedAt, account,
      node
  <1>4. Gone'
    BY DEF IInv, Gone, Clean, Will, Adding, At, Source, Withdraw, EffectiveAt, ManagedAt,
      account, node
  <1>5. Added'
    BY DEF IInv, Added, Will, Adding, At, Selection, Withdraw, EffectiveAt, ManagedAt,
      account, node
  <1>6. Withdrawn'
    BY DEF IInv, Withdrawn, At, Clean, TypeOK, Time, Source, Wanted, Deadline, Never, Row,
      Work, Copied, Working, Selection, Reviewed, Review, Tombstone, Added, Will, Adding,
      Reserved, Left, Withdraw, EffectiveAt, ManagedAt, account, node
  <1>7. Reserved'
    BY DEF IInv, Reserved, Clean, At, Withdraw, EffectiveAt, ManagedAt, account, node
  <1>8. Left'
    BY DEF IInv, Left, Tombstone, Selection, At, Withdraw, EffectiveAt, ManagedAt, account,
      node
  <1>9. Scheduled'
    BY DEF IInv, Scheduled, Granted, Selection, At, TypeOK, Time, Source, Wanted, Deadline,
      Never, Row, Work, Copied, Working, Reviewed, Review, Tombstone, Added, Will, Adding,
      Withdrawn, Clean, Reserved, Left, Withdraw, EffectiveAt, ManagedAt, account, node
  <1>10. NoEnable' /\ Packaged' /\ Revoked' /\ Due'
    BY DEF IInv, NoEnable, Packaged, Selection, Revoked, Review, Clean, Due, Withdraw,
      account, node
  <1> QED
    BY <1>1, <1>2, <1>3, <1>4, <1>5, <1>6, <1>7, <1>8, <1>9, <1>10 DEF IInv

\* The client is removed.
LEMMA RemoveKeeps ==
  ASSUME IInv, RemoveClient
  PROVE  IInv'
  <1>1. TypeOK'
    BY RemoveType DEF IInv
  <1>2. Reviewed'
    BY DEF IInv, Reviewed, Review, Working, At, Tombstone, TypeOK, Time, Source, Wanted,
      Deadline, Never, Row, Work, RemoveClient, Called, CallFailed, Still, account, node
  <1>3. Copied'
    BY DEF IInv, Copied, Working, At, Selection, TypeOK, Time, Source, Wanted, Deadline,
      Never, Row, Work, RemoveClient, Called, CallFailed, Still, account, node
  <1>4. Gone'
    BY DEF IInv, Gone, Clean, Will, Adding, At, Source, TypeOK, Time, Wanted, Deadline,
      Never, Row, Work, RemoveClient, Called, CallFailed, Still, account, node
  <1>5. Added'
    BY DEF IInv, Added, Will, Adding, At, Selection, TypeOK, Time, Source, Wanted, Deadline,
      Never, Row, Work, RemoveClient, Called, CallFailed, Still, account, node
  <1>6. Revoked'
    BY DEF IInv, Revoked, Selection, Review, Clean, RemoveClient, Called, CallFailed, Still,
      account, node
  <1>7. Withdrawn'
    BY DEF IInv, Withdrawn, At, Clean, TypeOK, Time, Source, Wanted, Deadline, Never, Row,
      Work, RemoveClient, Called, CallFailed, Still, account, node
  <1>8. Reserved'
    BY DEF IInv, Reserved, Clean, At, TypeOK, Time, Source, Wanted, Deadline, Never, Row,
      Work, RemoveClient, Called, CallFailed, Still, account, node
  <1>9. Left'
    BY DEF IInv, Left, Tombstone, Selection, At, TypeOK, Time, Source, Wanted, Deadline,
      Never, Row, Work, RemoveClient, Called, CallFailed, Still, account, node
  <1>10. Scheduled'
    BY DEF IInv, Scheduled, Granted, Selection, At, TypeOK, Time, Source, Wanted, Deadline,
      Never, Row, Work, RemoveClient, Called, CallFailed, Still, account, node
  <1>11. NoEnable' /\ Packaged' /\ Due'
    BY DEF IInv, NoEnable, Packaged, Selection, Due, RemoveClient, account, node
  <1> QED
    BY <1>1, <1>2, <1>3, <1>4, <1>5, <1>6, <1>7, <1>8, <1>9, <1>10, <1>11 DEF IInv

\* The guard forgets the client.
LEMMA UnscheduleKeeps ==
  ASSUME IInv, Unschedule
  PROVE  IInv'
  <1>1. TypeOK'
    BY UnscheduleType DEF IInv
  <1>2. Reviewed'
    BY DEF IInv, Reviewed, Review, Working, At, Tombstone, TypeOK, Time, Source, Wanted,
      Deadline, Never, Row, Work, Unschedule, Called, CallFailed, Still, account, node
  <1>3. Copied'
    BY DEF IInv, Copied, Working, At, Selection, TypeOK, Time, Source, Wanted, Deadline,
      Never, Row, Work, Unschedule, Called, CallFailed, Still, account, node
  <1>4. Gone'
    BY DEF IInv, Gone, Clean, Will, Adding, At, Source, TypeOK, Time, Wanted, Deadline,
      Never, Row, Work, Unschedule, Called, CallFailed, Still, account, node
  <1>5. Added'
    BY DEF IInv, Added, Will, Adding, At, Selection, TypeOK, Time, Source, Wanted, Deadline,
      Never, Row, Work, Unschedule, Called, CallFailed, Still, account, node
  <1>6. Revoked'
    BY DEF IInv, Revoked, Selection, Review, Clean, Unschedule, Called, CallFailed, Still,
      account, node
  <1>7. Withdrawn'
    BY DEF IInv, Withdrawn, At, Clean, TypeOK, Time, Source, Wanted, Deadline, Never, Row,
      Work, Unschedule, Called, CallFailed, Still, account, node
  <1>8. Reserved'
    BY DEF IInv, Reserved, Clean, At, TypeOK, Time, Source, Wanted, Deadline, Never, Row,
      Work, Unschedule, Called, CallFailed, Still, account, node
  <1>9. Left'
    BY DEF IInv, Left, Tombstone, Selection, At, TypeOK, Time, Source, Wanted, Deadline,
      Never, Row, Work, Unschedule, Called, CallFailed, Still, account, node
  <1>10. Scheduled'
    BY DEF IInv, Scheduled, Granted, Selection, At, TypeOK, Time, Source, Wanted, Deadline,
      Never, Row, Work, Copied, Working, Reviewed, Review, Tombstone, Added, Will, Adding,
      Withdrawn, Clean, Reserved, Left, Unschedule, Called, CallFailed, Still, account, node
  <1>11. NoEnable' /\ Packaged' /\ Due'
    BY DEF IInv, NoEnable, Packaged, Selection, Due, Unschedule, account, node
  <1> QED
    BY <1>1, <1>2, <1>3, <1>4, <1>5, <1>6, <1>7, <1>8, <1>9, <1>10, <1>11 DEF IInv

\* A source is settled as what has been carried out.
LEMMA MarkKeeps ==
  ASSUME IInv, MarkApplied
  PROVE  IInv'
  <1>1. TypeOK'
    BY MarkType DEF IInv
  <1>2. Packaged'
    BY DEF IInv, Packaged, Selection, MarkApplied, Applied, Still, account, node
  <1>3. Reviewed'
    BY DEF IInv, Reviewed, Review, Working, At, Tombstone, MarkApplied, Applied, Still,
      account, node
  <1>4. Copied'
    BY DEF IInv, Copied, Working, At, Selection, MarkApplied, Applied, Still, account, node
  <1>5. Gone'
    BY DEF IInv, Gone, Clean, Will, Adding, At, Source, MarkApplied, Applied, Still,
      account, node
  <1>6. Added'
    BY DEF IInv, Added, Will, Adding, At, Selection, MarkApplied, Applied, Still, account,
      node
  <1>7. Revoked'
    BY DEF IInv, Revoked, Selection, Review, Clean, TypeOK, Time, Source, Wanted, Deadline,
      Never, Row, Work, Copied, Working, At, Reviewed, Tombstone, Added, Will, Adding,
      Withdrawn, Reserved, Left, MarkApplied, Applied, Still, account, node
  <1>8. Withdrawn'
    BY DEF IInv, Withdrawn, At, Clean, MarkApplied, Applied, Still, account, node
  <1>9. Reserved'
    BY DEF IInv, Reserved, Clean, At, MarkApplied, Applied, Still, account, node
  <1>10. Left'
    BY DEF IInv, Left, Tombstone, Selection, At, TypeOK, Time, Source, Wanted, Deadline,
      Never, Row, Work, Copied, Working, Reviewed, Review, MarkApplied, Applied, Still,
      account, node
  <1>11. Scheduled'
    BY DEF IInv, Scheduled, Granted, Selection, At, TypeOK, Time, Source, Wanted, Deadline,
      Never, Row, Work, Copied, Working, Reviewed, Review, Tombstone, MarkApplied, Applied,
      Still, account, node
  <1>12. NoEnable' /\ Due'
    BY DEF IInv, NoEnable, Due, MarkApplied, account, node
  <1> QED
    BY <1>1, <1>2, <1>3, <1>4, <1>5, <1>6, <1>7, <1>8, <1>9, <1>10, <1>11, <1>12 DEF IInv

\* The panel stops.
LEMMA CrashKeeps ==
  ASSUME IInv, Crash
  PROVE  IInv'
  <1>1. TypeOK'
    BY CrashType DEF IInv
  <1>2. NoEnable'
    BY DEF IInv, NoEnable, Crash, Ask, Still, Unread, account, node
  <1>3. Reviewed'
    BY DEF IInv, Reviewed, Review, Working, At, Tombstone, Crash, Ask, Still, Unread,
      account, node
  <1>4. Copied'
    BY DEF IInv, Copied, Working, At, Selection, Crash, Ask, Still, Unread, account, node
  <1>5. Gone'
    BY DEF IInv, Gone, Clean, Will, Adding, At, Source, Crash, Ask, Still, Unread, account,
      node
  <1>6. Added'
    BY DEF IInv, Added, Will, Adding, At, Selection, Crash, Ask, Still, Unread, account,
      node
  <1>7. Withdrawn'
    BY DEF IInv, Withdrawn, At, Clean, Crash, Ask, Still, Unread, account, node
  <1>8. Reserved'
    BY DEF IInv, Reserved, Clean, At, Crash, Ask, Still, Unread, account, node
  <1>9. Left'
    BY DEF IInv, Left, Tombstone, Selection, At, Crash, Ask, Still, Unread, account, node
  <1>10. Scheduled'
    BY DEF IInv, Scheduled, Granted, Selection, At, Crash, Ask, Still, Unread, account, node
  <1>11. Packaged' /\ Revoked' /\ Due'
    BY DEF IInv, Packaged, Selection, Revoked, Review, Clean, Due, Crash, account, node
  <1> QED
    BY <1>1, <1>2, <1>3, <1>4, <1>5, <1>6, <1>7, <1>8, <1>9, <1>10, <1>11 DEF IInv

\* The guard takes a due entry.
LEMMA TakeKeeps ==
  ASSUME IInv, TakeDue
  PROVE  IInv'
  <1>1. TypeOK'
    BY TakeType DEF IInv
  <1>2. Due'
    BY DEF IInv, Due, TakeDue, account, node
  <1>3. NoEnable' /\ Packaged' /\ Reviewed' /\ Copied' /\ Gone' /\ Added' /\ Revoked' /\
         Withdrawn' /\ Reserved' /\ Left' /\ Scheduled'
    BY DEF IInv, NoEnable, Packaged, Selection, Reviewed, Review, Working, At, Tombstone,
      Copied, Gone, Clean, Will, Adding, Source, Added, Revoked, Withdrawn, Reserved, Left,
      Scheduled, Granted, TakeDue, account, node
  <1> QED
    BY <1>1, <1>2, <1>3 DEF IInv

\* It removes the client.
LEMMA RemoveDueKeeps ==
  ASSUME IInv, RemoveDue
  PROVE  IInv'
  <1>1. TypeOK'
    BY RemoveDueType DEF IInv
  <1>2. Gone'
    BY DEF IInv, Gone, Clean, Will, Adding, At, Source, RemoveDue, account, node
  <1>3. Revoked'
    BY DEF IInv, Revoked, Selection, Review, Clean, RemoveDue, account, node
  <1>4. Withdrawn'
    BY DEF IInv, Withdrawn, At, Clean, RemoveDue, account, node
  <1>5. Reserved'
    BY DEF IInv, Reserved, Clean, At, RemoveDue, account, node
  <1>6. Due'
    BY DEF IInv, Due, TypeOK, Time, Source, Wanted, Deadline, Never, Row, Work, RemoveDue,
      account, node
  <1>7. NoEnable' /\ Packaged' /\ Reviewed' /\ Copied' /\ Added' /\ Left' /\ Scheduled'
    BY DEF IInv, NoEnable, Packaged, Selection, Reviewed, Review, Working, At, Tombstone,
      Copied, Added, Will, Adding, Left, Scheduled, Granted, RemoveDue, account, node
  <1> QED
    BY <1>1, <1>2, <1>3, <1>4, <1>5, <1>6, <1>7 DEF IInv

\* It forgets the entry, unless it has a new deadline.
LEMMA FinishKeeps ==
  ASSUME IInv, FinishAttempt
  PROVE  IInv'
  <1>1. TypeOK'
    BY FinishType DEF IInv
  <1>2. Gone'
    BY DEF IInv, Gone, Clean, Will, Adding, At, Source, FinishAttempt, AtEase, account, node
  <1>3. Revoked'
    BY DEF IInv, Revoked, Selection, Review, Clean, FinishAttempt, AtEase, account, node
  <1>4. Withdrawn'
    BY DEF IInv, Withdrawn, At, Clean, FinishAttempt, AtEase, account, node
  <1>5. Reserved'
    BY DEF IInv, Reserved, Clean, At, FinishAttempt, AtEase, account, node
  <1>6. Due'
    BY DEF IInv, Due, FinishAttempt, AtEase, account, node
  <1>7. Scheduled'
    BY DEF IInv, TypeOK, Time, Source, Wanted, Deadline, Never, Row, Work, NoEnable,
      Packaged, Selection, Reviewed, Review, Working, At, Tombstone, Copied, Gone, Clean,
      Will, Adding, Added, Revoked, Withdrawn, Reserved, Left, Due, Scheduled, Granted,
      FinishAttempt, AtEase, account, node
  <1>8. NoEnable' /\ Packaged' /\ Reviewed' /\ Copied' /\ Added' /\ Left'
    BY DEF IInv, NoEnable, Packaged, Selection, Reviewed, Review, Working, At, Tombstone,
      Copied, Added, Will, Adding, Left, FinishAttempt, account, node
  <1> QED
    BY <1>1, <1>2, <1>3, <1>4, <1>5, <1>6, <1>7, <1>8 DEF IInv

\* The guard restarts.
LEMMA GuardRestartKeeps ==
  ASSUME IInv, GuardRestart
  PROVE  IInv'
  <1>1. TypeOK'
    BY GuardRestartType DEF IInv
  <1>2. Due'
    BY DEF IInv, Due, GuardRestart, AtEase, account, node
  <1>3. NoEnable' /\ Packaged' /\ Reviewed' /\ Copied' /\ Gone' /\ Added' /\ Revoked' /\
         Withdrawn' /\ Reserved' /\ Left' /\ Scheduled'
    BY DEF IInv, NoEnable, Packaged, Selection, Reviewed, Review, Working, At, Tombstone,
      Copied, Gone, Clean, Will, Adding, Source, Added, Revoked, Withdrawn, Reserved, Left,
      Scheduled, Granted, GuardRestart, account, node
  <1> QED
    BY <1>1, <1>2, <1>3 DEF IInv

\* Time passes.
LEMMA TickKeeps ==
  ASSUME IInv, Tick
  PROVE  IInv'
  <1>1. TypeOK'
    BY TickType DEF IInv
  <1>2. Due'
    BY DEF IInv, Due, TypeOK, Time, Source, Wanted, Deadline, Never, Row, Work, Tick,
      account, node
  <1>3. Scheduled'
    BY DEF IInv, Scheduled, Granted, Selection, At, TypeOK, Time, Source, Wanted, Deadline,
      Never, Row, Work, Tick, account, node
  <1>4. NoEnable' /\ Packaged' /\ Reviewed' /\ Copied' /\ Gone' /\ Added' /\ Revoked' /\
         Withdrawn' /\ Reserved' /\ Left'
    BY DEF IInv, NoEnable, Packaged, Selection, Reviewed, Review, Working, At, Tombstone,
      Copied, Gone, Clean, Will, Adding, Source, Added, Revoked, Withdrawn, Reserved, Left,
      Tick, account, node
  <1> QED
    BY <1>1, <1>2, <1>3, <1>4 DEF IInv

\* An administrator's request and its first reading change no source, nor does a restart.
LEMMA OthersKeep ==
  ASSUME IInv, ChangeGrant \/ ReadGrant \/ Restart
  PROVE  IInv'
  <1>1. TypeOK'
    BY OthersType DEF IInv
  <1>2. UNCHANGED <<now, user, package, source, saved, client, schedule, attempt, rec, admin>>
    BY DEF ChangeGrant, ReadGrant, Restart, Ask, account, node
  <1> QED
    BY <1>1, <1>2 DEF IInv, NoEnable, Packaged, Reviewed, Copied, Gone, Added, Revoked,
      Withdrawn, Reserved, Left, Due, Scheduled, Selection, Review, Clean, At, Working,
      Adding, Will, Granted, Tombstone

LEMMA Initially == Init => IInv
  <1> SUFFICES ASSUME Init PROVE IInv
    OBVIOUS
  <1>1. TypeOK
    <2>1. source \in [Source -> Row] /\ rec \in Work
      BY Constants DEF Init
    <2>2. now \in Time /\ schedule \in Deadline /\ requests \in 0..MaxRequests /\ faults \in 0..MaxFaults
      BY Constants, AccessAssumption DEF Init
    <2>3. attempt \in [step : {"idle", "remove", "removed", "failed"}, of : Deadline]
      BY Constants DEF Init, AtEase
    <2>4. sync \in [step : {"idle", "read", "set"}, want : Wanted, until : Deadline]
      BY Constants DEF Init, Unread, Wanted
    <2> QED
      BY <2>1, <2>2, <2>3, <2>4, Zenon DEF Init, TypeOK
  <1>2. \A s \in Source : ~source[s].made /\ ~source[s].settled
    BY DEF Init, NoSource
  <1>3. rec.step = "idle" /\ ~rec.fresh /\ attempt.step = "idle"
    BY DEF Init, Still, AtEase
  <1>4. ~Selection.made /\ ~Review.made
    BY <1>2 DEF Selection, Review, Source
  <1>5. user = "active" /\ admin = "idle" /\ schedule = Never
    BY DEF Init
  <1>6. ~saved => ~client
    BY Zenon DEF Init
  <1>7. NoEnable /\ Packaged /\ Reviewed /\ Copied /\ Gone /\ Added /\ Revoked /\ Withdrawn
    BY <1>3, <1>4, <1>5 DEF NoEnable, Packaged, Reviewed, Copied, Gone, Added, Revoked, Withdrawn,
      At, Working, Adding, Will
  <1>8. Reserved /\ Left /\ Due /\ Scheduled
    BY <1>3, <1>4, <1>5, <1>6 DEF Reserved, Left, Due, Scheduled, Granted, Clean, At, Tombstone
  <1> QED
    BY <1>1, <1>7, <1>8 DEF IInv

LEMMA Step ==
  ASSUME "enable" \notin Requests, IInv, [Next]_vars
  PROVE  IInv'
  <1>1. CASE Request
    <2>1. ~Enable
      BY DEF Enable, Ask
    <2> QED
      BY <1>1, <2>1, SelectKeeps, DeselectKeeps, OthersKeep, DisableKeeps, PrepareKeeps DEF Request
  <1>2. CASE Handlers
    <2>1. ~ResolveAccess /\ ~ReserveEnabled /\ ~AddEnabled /\ ~EnableRefused
      BY DEF IInv, NoEnable, ResolveAccess, ReserveEnabled, AddEnabled, EnableRefused
    <2> QED
      BY <1>2, <2>1, OthersKeep, SyncKeeps, RemoveDisabledKeeps DEF Handlers
  <1>3. CASE Reconciler
    <2>1. ASSUME NEW s \in Source, Reconcile(s)  PROVE IInv'
      <3>1. requests' \in 0..MaxRequests
        BY <2>1 DEF Reconcile, IInv, TypeOK
      <3> QED
        BY <2>1, <3>1, BeginKeeps DEF Reconcile
    <2>2. ASSUME NEW s \in Source, ReconcileAgain(s)  PROVE IInv'
      <3>1. requests' \in 0..MaxRequests
        BY <2>2, AccessAssumption DEF ReconcileAgain, IInv, TypeOK
      <3> QED
        BY <2>2, <3>1, BeginKeeps DEF ReconcileAgain
    <2> QED
      BY <1>3, <2>1, <2>2, ScanReadKeeps, ScanSetKeeps, TurnOffKeeps, JudgeKeeps, ReserveKeeps,
        FailKeeps, ScheduleKeeps, PublishKeeps, WithdrawKeeps, RemoveKeeps, UnscheduleKeeps,
        MarkKeeps, FinalizeKeeps DEF Reconciler
  <1>4. CASE Guard \/ GuardRestart \/ Crash \/ Restart \/ Tick
    BY <1>4, TakeKeeps, RemoveDueKeeps, FinishKeeps, GuardRestartKeeps, CrashKeeps, OthersKeep,
      TickKeeps DEF Guard
  <1>5. CASE UNCHANGED vars
    BY <1>5 DEF vars, account, node, IInv, TypeOK, NoEnable, Packaged, Reviewed, Copied, Gone,
      Added, Revoked, Withdrawn, Reserved, Left, Due, Scheduled, Selection, Review, Clean, At,
      Working, Adding, Will, Granted, Tombstone
  <1> QED
    BY <1>1, <1>2, <1>3, <1>4, <1>5 DEF Next

LEMMA Invariance ==
  ASSUME "enable" \notin Requests
  PROVE  Spec => []IInv
  <1>1. IInv /\ [Next]_vars => IInv'
    BY Step
  <1> QED
    BY Initially, <1>1, PTL DEF Spec

---------------------------------------------------------------------------
(***************************************************************************)
(* The theorems, for any bounds. All but the first leave out one request:  *)
(* an account that is enabled again adds its client outside the user's     *)
(* lease and outside the reconciler, and then DeletedIsGone and            *)
(* RevokedIsGone are false (the run of ManagedAccessEnable.cfg shows how). *)
(***************************************************************************)

\* Every variable keeps its type, whatever is requested.
THEOREM TypeCorrect == Spec => []TypeOK
  <1>1. Init => TypeOK
    BY Initially DEF IInv
  <1>2. TypeOK /\ [Next]_vars => TypeOK'
    BY Typed
  <1> QED
    BY <1>1, <1>2, PTL DEF Spec

\* FinalizeUserDeletion leaves nothing of the account on the node: whatever the reconciler
\* was doing when the deletion was prepared, and wherever calls failed.
THEOREM DeletionLeavesNothing ==
  ASSUME "enable" \notin Requests
  PROVE  Spec => []DeletedIsGone
  <1>1. IInv => DeletedIsGone
    BY DEF IInv, Gone, Clean, DeletedIsGone
  <1> QED
    BY Invariance, <1>1, PTL

\* A revocation that reconcileSource has confirmed is not undone by what it, or a
\* reconciliation before it, decided on older data.
THEOREM RevocationStays ==
  ASSUME "enable" \notin Requests
  PROVE  Spec => []RevokedIsGone
  <1>1. IInv => RevokedIsGone
    BY DEF IInv, Revoked, Selection, Clean, RevokedIsGone
  <1> QED
    BY Invariance, <1>1, PTL

\* The guard's finishAttempt and ensureManagedClientExpiry never leave a settled access with
\* an older deadline, or without one.
THEOREM DeadlineIsKept ==
  ASSUME "enable" \notin Requests
  PROVE  Spec => []DeadlineKept
  <1>1. IInv => DeadlineKept
    BY DEF IInv, Scheduled, Granted, Selection, DeadlineKept
  <1> QED
    BY Invariance, <1>1, PTL
=============================================================================
