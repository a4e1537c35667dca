---------------------------- MODULE MutationLease ----------------------------
(***************************************************************************)
(* The locks an operation of the panel holds while it changes nodes: one   *)
(* read-write mutex per server, the mutation lease of                      *)
(* internal/storage/traffic.go, and the one mutex managedNodeMu, which     *)
(* guards what users are provisioned with.                                 *)
(*                                                                         *)
(* A forward holds its servers alone and records itself under the mutex; a *)
(* tunnel chain shares its servers; adding a user shares a server and      *)
(* reserves the credential under the mutex; provisioning and unbinding     *)
(* hold the mutex while they share the server; an installation's handlers  *)
(* hold the server alone, and its Prepare runs what they refuse.           *)
(*                                                                         *)
(* A sync.RWMutex lets no reader in once a writer waits, and waits cannot  *)
(* be given up: the context of the request is read again only afterwards.  *)
(***************************************************************************)
EXTENDS Naturals, Sequences, FiniteSets, SequencesExt

CONSTANTS Process, NoProcess,
          Server,     \* identifiers, ordered
          Kind,       \* the kinds of operations that run
          MaxHops     \* bound on the servers a request names

AllKinds == {"forward", "chain", "add", "provision", "install", "prepare"}

ASSUME LeaseAssumption ==
  /\ NoProcess \notin Process
  /\ Server \subseteq Nat \ {0} /\ Server # {} /\ IsFiniteSet(Server)
  /\ Kind \subseteq AllKinds /\ MaxHops \in Nat \ {0}

mu == 0                            \* managedNodeMu
Lock == Server \union {mu}
Mode == {"shared", "exclusive", "own", "bypass", "mutex", "leave"}

VARIABLES
  active,    \* servers whose installation row is live
  reader,    \* each lock: who reads it,
  writer,    \* who has announced itself as its writer,
  parked,    \* who waits for that writer to leave
  status,    \* each operation: idle, asking for locks, working, leaving
  kind,      \* what it is
  todo,      \* the requests before it
  held,      \* what it has, in order
  canceled   \* operations whose context has ended

locks == <<reader, writer, parked>>
ops == <<status, kind, todo, held, canceled>>
vars == <<active, locks, ops>>

---------------------------------------------------------------------------
(* What each kind of operation asks for. *)

Ask(mode, l) == <<[mode |-> mode, lock |-> l]>>

AsNamed(ids) ==            \* mutant of Ascending: in the order of the request
  \A i, j \in DOMAIN ids : i # j => ids[i] # ids[j]

\* The servers of a request, each once, are sorted.
Ascending(ids) == \A i, j \in DOMAIN ids : i < j => ids[i] < ids[j]

EachOf(mode, ids) == [i \in DOMAIN ids |-> [mode |-> mode, lock |-> ids[i]]]

\* The plan of an operation; the second asking of a forward is that of the
\* deployment it calls with the leases it has.
Plan(k, ids) ==
  CASE k = "forward" -> EachOf("exclusive", ids) \o Ask("mutex", mu) \o Ask("leave", mu)
                          \o EachOf("exclusive", ids)
    [] k = "chain" -> EachOf("shared", ids)
    [] k = "add" -> Ask("shared", ids[1]) \o Ask("mutex", mu) \o Ask("leave", mu)
    [] k = "provision" -> Ask("mutex", mu) \o Ask("shared", ids[1])
    [] k = "install" -> Ask("own", ids[1])
    [] k = "prepare" -> Ask("bypass", ids[1]) \o Ask("shared", ids[1])

\* Only an operation on several servers names several.
Named(k) == IF k \in {"forward", "chain"} THEN 1..MaxHops ELSE {1}

---------------------------------------------------------------------------
(* Operations and what they hold. *)

Asks(p) == Head(todo[p])
Alone(mode) == mode \in {"exclusive", "own", "bypass", "mutex"}

Holds(p, l, modes) == \E i \in DOMAIN held[p] : held[p][i].lock = l /\ held[p][i].mode \in modes

\* The context says that the operation has what it asks for.
NeverHeld(p, r) == FALSE    \* mutant of Reentrant: the context is not read

Reentrant(p, r) ==
  \/ r.mode = "shared" /\ Holds(p, r.lock, {"shared", "exclusive", "bypass"})
  \/ r.mode = "exclusive" /\ Holds(p, r.lock, {"exclusive", "bypass"})

\* An operation is refused when the row of the server is live, unless it is
\* the installation's own.
AlwaysClear(r) == TRUE      \* mutant of Clear: the row is not read

Clear(r) == r.mode \in {"own", "bypass", "mutex"} \/ r.lock \notin active

\* It goes on to what is next.
AskOn(p) ==                 \* mutant of GoOn: it asks once too often
  /\ todo' = [todo EXCEPT ![p] = Tail(@)]
  /\ status' = [status EXCEPT ![p] = "asking"]

GoOn(p) ==
  /\ todo' = [todo EXCEPT ![p] = Tail(@)]
  /\ status' = [status EXCEPT ![p] = IF Tail(todo[p]) = <<>> THEN "working" ELSE "asking"]

GiveUp(p) ==
  /\ todo' = [todo EXCEPT ![p] = <<>>]
  /\ status' = [status EXCEPT ![p] = "leaving"]

\* It has the lock: its context and the row are read now. Whoever has the
\* mutex reads the user, the grant and the limits, and may be refused.
Granted(p) ==
  LET r == Asks(p) IN
  /\ held' = [held EXCEPT ![p] = Append(@, r)]
  /\ \/ p \notin canceled /\ Clear(r) /\ GoOn(p)
     \/ (p \in canceled \/ ~Clear(r) \/ r.mode = "mutex") /\ GiveUp(p)

---------------------------------------------------------------------------
(* Steps of an operation. *)

\* A request arrives; its context may end before it is done.
Start(p) ==
  /\ status[p] = "idle"
  /\ \E k \in Kind : \E ids \in UNION {[1..n -> Server] : n \in Named(k)} :
       /\ Ascending(ids)
       /\ kind' = [kind EXCEPT ![p] = k]
       /\ todo' = [todo EXCEPT ![p] = Plan(k, ids)]
  /\ status' = [status EXCEPT ![p] = "asking"]
  /\ UNCHANGED <<active, locks, held, canceled>>

Cancel(p) ==
  /\ status[p] \in {"asking", "parked"} /\ p \notin canceled
  /\ canceled' = canceled \union {p}
  /\ UNCHANGED <<active, locks, status, kind, todo, held>>

\* The context has ended before the lock is asked for.
AskTooLate(p) ==
  /\ status[p] = "asking" /\ p \in canceled
  /\ Asks(p).mode \in {"shared", "exclusive", "bypass"}
  /\ GiveUp(p)
  /\ UNCHANGED <<active, locks, kind, held, canceled>>

\* AcquireRemoteServerMutationLease of a server its context already has.
Reenter(p) ==
  /\ status[p] = "asking" /\ Reentrant(p, Asks(p))
  /\ GoOn(p)
  /\ UNCHANGED <<active, locks, kind, held, canceled>>

\* AcquireRemoteServerMutationLease: RLock, which parks behind a writer.
AcquireShared(p) ==
  LET l == Asks(p).lock IN
  /\ status[p] = "asking" /\ Asks(p).mode = "shared" /\ ~Reentrant(p, Asks(p))
  /\ \/ /\ writer[l] = NoProcess
        /\ reader' = [reader EXCEPT ![l] = @ \union {p}]
        /\ Granted(p) /\ UNCHANGED parked
     \/ /\ writer[l] # NoProcess
        /\ parked' = [parked EXCEPT ![l] = @ \union {p}]
        /\ status' = [status EXCEPT ![p] = "parked"]
        /\ UNCHANGED <<reader, todo, held>>
  /\ UNCHANGED <<active, writer, kind, canceled>>

\* The writer that left has made the parked readers readers.
Unpark(p) ==
  /\ status[p] = "parked" /\ p \in reader[Asks(p).lock]
  /\ Granted(p)
  /\ UNCHANGED <<active, locks, kind, canceled>>

\* AcquireRemoteServerExclusiveMutationLease, the bypass, the installation's
\* own and the mutex: Lock announces the writer, which waits for the readers.
Announce(p) ==
  LET l == Asks(p).lock IN
  /\ status[p] = "asking" /\ Alone(Asks(p).mode) /\ ~Reentrant(p, Asks(p))
  /\ writer[l] = NoProcess
  /\ writer' = [writer EXCEPT ![l] = p]
  /\ status' = [status EXCEPT ![p] = "parked"]
  /\ UNCHANGED <<active, reader, parked, kind, todo, held, canceled>>

AcquireAlone(p) ==
  LET l == Asks(p).lock IN
  /\ status[p] = "parked" /\ writer[l] = p /\ reader[l] = {}
  /\ Granted(p)
  /\ UNCHANGED <<active, locks, kind, canceled>>

\* Releasing a lock lets in who has waited for it.
Unlock(p, r) ==
  IF r.mode = "shared"
    THEN /\ reader' = [reader EXCEPT ![r.lock] = @ \ {p}]
         /\ UNCHANGED <<writer, parked>>
    ELSE /\ writer' = [writer EXCEPT ![r.lock] = NoProcess]
         /\ reader' = [reader EXCEPT ![r.lock] = parked[r.lock]]
         /\ parked' = [parked EXCEPT ![r.lock] = {}]

\* SaveUserInboundConfig and CreateUserForward leave the mutex when they return.
LeaveMutex(p) ==
  /\ status[p] = "asking" /\ Asks(p).mode = "leave"
  /\ Unlock(p, Last(held[p]))
  /\ held' = [held EXCEPT ![p] = Front(@)]
  /\ GoOn(p)
  /\ UNCHANGED <<active, kind, canceled>>

\* It has done its work; a handler of an installation begins or ends one.
Work(p) ==
  /\ status[p] = "working"
  /\ IF kind[p] = "install"
       THEN active' \in {active \union {held[p][1].lock}, active \ {held[p][1].lock}}
       ELSE UNCHANGED active
  /\ status' = [status EXCEPT ![p] = "leaving"]
  /\ UNCHANGED <<locks, kind, todo, held, canceled>>

\* The deferred releases, last first.
Release(p) ==
  /\ status[p] = "leaving"
  /\ IF held[p] = <<>>
       THEN /\ status' = [status EXCEPT ![p] = "idle"]
            /\ kind' = [kind EXCEPT ![p] = "none"]
            /\ canceled' = canceled \ {p}
            /\ UNCHANGED <<locks, held>>
       ELSE /\ Unlock(p, Last(held[p]))
            /\ held' = [held EXCEPT ![p] = Front(@)]
            /\ UNCHANGED <<status, kind, canceled>>
  /\ UNCHANGED <<active, todo>>

\* A row's time is over.
Expire ==
  /\ active # {}
  /\ \E s \in active : active' = active \ {s}
  /\ UNCHANGED <<locks, ops>>

---------------------------------------------------------------------------
Init ==
  /\ active = {}
  /\ reader = [l \in Lock |-> {}] /\ writer = [l \in Lock |-> NoProcess]
  /\ parked = [l \in Lock |-> {}]
  /\ status = [p \in Process |-> "idle"] /\ kind = [p \in Process |-> "none"]
  /\ todo = [p \in Process |-> <<>>] /\ held = [p \in Process |-> <<>>]
  /\ canceled = {}

Proceed(p) ==
  \/ AskTooLate(p) \/ Reenter(p) \/ AcquireShared(p) \/ Unpark(p) \/ Announce(p) \/ AcquireAlone(p)
  \/ LeaveMutex(p) \/ Work(p) \/ Release(p)

Next ==
  \/ \E p \in Process : Start(p) \/ Cancel(p) \/ Proceed(p)
  \/ Expire

Spec == Init /\ [][Next]_vars

\* Goroutines run, and a mutex does not starve who waits for it.
FairSpec == Spec /\ \A p \in Process : SF_vars(Proceed(p))

---------------------------------------------------------------------------
(* Properties. *)

\* Every variable keeps its type.
TypeOK ==
  /\ active \subseteq Server
  /\ reader \in [Lock -> SUBSET Process] /\ parked \in [Lock -> SUBSET Process]
  /\ writer \in [Lock -> Process \union {NoProcess}]
  /\ status \in [Process -> {"idle", "asking", "parked", "working", "leaving"}]
  /\ kind \in [Process -> Kind \union {"none"}]
  /\ canceled \subseteq Process
  /\ \A p \in Process :
       /\ todo[p] \in Seq([mode : Mode, lock : Lock]) /\ held[p] \in Seq([mode : Mode, lock : Lock])
       /\ status[p] \in {"asking", "parked"} => todo[p] # <<>>

\* What waits for a lock waits for those that hold it, or for the writer that
\* waits for them.
Waits(p) ==
  CASE status[p] = "parked" /\ p \in parked[Asks(p).lock] -> {writer[Asks(p).lock]}
    [] status[p] = "parked" /\ writer[Asks(p).lock] = p -> reader[Asks(p).lock]
    [] status[p] = "asking" /\ Alone(Asks(p).mode) /\ ~Reentrant(p, Asks(p)) ->
         {writer[Asks(p).lock]} \ {NoProcess}
    [] OTHER -> {}

\* No operations wait for each other in a circle: however servers are named in
\* requests, whoever announces itself first and whichever contexts end, one of
\* those that wait can go on.
NoCircularWait ==
  \A P \in (SUBSET Process) \ {{}} : \E p \in P : Waits(p) \intersect P = {}

\* An ordinary operation that works has found no installation of any of its
\* servers, and none has begun since.
WorksUndisturbed ==
  \A p \in Process :
    status[p] = "working" /\ kind[p] \notin {"install", "prepare"} =>
      \A i \in DOMAIN held[p] : held[p][i].lock \notin active

\* Every operation comes to an end, with what it asked for or without.
Finishes == \A p \in Process : status[p] # "idle" ~> status[p] = "idle"

=============================================================================
