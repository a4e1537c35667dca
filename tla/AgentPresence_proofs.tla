------------------------ MODULE AgentPresence_proofs ------------------------
(***************************************************************************)
(* Proofs about AgentPresence, for any number of connections and addresses *)
(* and any thresholds.                                                     *)
(***************************************************************************)
EXTENDS AgentPresence, TLAPS

---------------------------------------------------------------------------
(* The inductive invariant *)

Outage == server.status = "offline" /\ server.notified

\* A notice that was given is on the row until the next sign of life.
Recorded == noticed => Outage

\* What the collector selected and has not heard of since is not notified yet.
Chosen == collector.pc = "selected" /\ ~collector.late => Due /\ ~noticed

\* The flag is set before the notice goes out.
Telling == collector.pc = "telling" /\ ~collector.late => Outage /\ ~noticed

IInv == TypeOK /\ NoGhost /\ Recorded /\ Chosen /\ Telling

---------------------------------------------------------------------------
(* Types *)

LEMMA Constants ==
  /\ 0 \in 0..Oldest /\ 0 \in 0..(Stale + 1) /\ 0 \in 0..Cooldown /\ Cooldown \in 0..Cooldown
  /\ None \notin Slot /\ Oldest \in Nat /\ Stale + 1 \in Nat /\ Cooldown \in Nat
  BY PresenceAssumption DEF Oldest

LEMMA UnusedType == Unused \in Connection
  <1>1. (CHOOSE a \in Address : TRUE) \in Address
    BY PresenceAssumption
  <1> QED
    BY <1>1 DEF Unused, Connection, Steps

LEMMA OlderType ==
  ASSUME NEW most \in Nat, NEW age \in 0..most
  PROVE  Older(age, most) \in 0..most
  BY DEF Older

LEMMA MarkedType == MarkedOffline \in Row
  BY Constants DEF MarkedOffline, Row, Status

\* A handler goes to another step, and nothing else changes in its connection.
LEMMA GotoType ==
  ASSUME TypeOK, NEW c \in Slot, NEW pc \in Steps, Goto(c, pc)
  PROVE  /\ conn' \in [Slot -> Connection]
         /\ conn'[c].pc = pc
         /\ \A d \in Slot \ {c} : conn'[d] = conn[d]
  BY DEF TypeOK, Goto, Connection

LEMMA ReturnType ==
  ASSUME TypeOK, NEW c \in Slot, Return(c)
  PROVE  /\ conn' \in [Slot -> Connection]
         /\ \A d \in Slot \ {c} : conn'[d] = conn[d]
  BY UnusedType DEF TypeOK, Return

LEMMA RejectType ==
  ASSUME TypeOK, NEW c \in Slot, Reject(c)
  PROVE  /\ conn' \in [Slot -> Connection]
         /\ \A d \in Slot \ {c} : conn'[d] = conn[d]
         /\ agent' \in [up : BOOLEAN, ip : Address, at : Slot \cup {None}]
  <1>1. agent' \in [up : BOOLEAN, ip : Address, at : Slot \cup {None}]
    BY DEF TypeOK, Reject
  <1> QED
    BY <1>1, ReturnType DEF Reject

LEMMA FieldType ==
  ASSUME NEW r \in Connection, NEW pc \in Steps, NEW news \in BOOLEAN
  PROVE  /\ [r EXCEPT !.link = FALSE] \in Connection
         /\ [r EXCEPT !.pc = pc, !.news = news] \in Connection
         /\ [r EXCEPT !.pc = pc, !.prev = None, !.news = news] \in Connection
  BY DEF Connection

LEMMA ReplaceType ==
  ASSUME TypeOK, NEW c \in Slot, NEW new \in Connection, conn' = [conn EXCEPT ![c] = new]
  PROVE  /\ conn' \in [Slot -> Connection]
         /\ conn'[c] = new
         /\ \A d \in Slot \ {c} : conn'[d] = conn[d]
  BY DEF TypeOK

LEMMA UnlinkedType ==
  ASSUME TypeOK, conn' = Unlinked
  PROVE  /\ conn' \in [Slot -> Connection]
         /\ \A d \in Slot : conn'[d].pc = conn[d].pc
  <1>1. CASE agent.at = None
    BY <1>1 DEF TypeOK, Unlinked
  <1>2. CASE agent.at # None
    <2> DEFINE new == [conn[agent.at] EXCEPT !.link = FALSE]
    <2>1. agent.at \in Slot /\ conn' = [conn EXCEPT ![agent.at] = new]
      BY <1>2 DEF TypeOK, Unlinked
    <2>2. conn[agent.at] \in Connection
      BY <2>1 DEF TypeOK
    <2>3. "free" \in Steps
      BY DEF Steps
    <2>4. new \in Connection
      BY <2>2, <2>3, FieldType
    <2>5. new.pc = conn[agent.at].pc
      BY <2>2 DEF Connection
    <2> HIDE DEF new
    <2> QED
      BY <2>1, <2>4, <2>5, ReplaceType
  <1> QED
    BY <1>1, <1>2

---------------------------------------------------------------------------
(* The three parts about notices: steps that leave the row alone, signs of *)
(* life and steps that mark the server offline.                            *)

Notices == Recorded /\ Chosen /\ Telling

LEMMA NoticesStay ==
  ASSUME Notices, UNCHANGED <<server, collector, noticed>>
  PROVE  Notices'
  BY DEF Notices, Recorded, Chosen, Telling, Outage, Due

LEMMA AliveKeeps ==
  ASSUME TypeOK, Notices, Alive
  PROVE  Notices' /\ server' \in Row /\ noticed' \in BOOLEAN
         /\ collector' \in [pc : {"idle", "selected", "telling"}, late : BOOLEAN]
  <1>1. /\ collector' \in [pc : {"idle", "selected", "telling"}, late : BOOLEAN]
        /\ collector'.pc = collector.pc /\ collector'.late = (collector.pc # "idle")
    BY DEF TypeOK, Alive
  <1>2. server' \in Row /\ noticed' = FALSE
    BY Constants DEF Alive, Row, Status
  <1> QED
    BY <1>1, <1>2 DEF Notices, Recorded, Chosen, Telling

LEMMA MarkedKeeps ==
  ASSUME TypeOK, Notices, server.status = "connected", server' = MarkedOffline,
         UNCHANGED <<collector, noticed>>
  PROVE  Notices' /\ server' \in Row
  BY MarkedType DEF Notices, Recorded, Chosen, Telling, Outage, Due

---------------------------------------------------------------------------
(* The agent's steps *)

LEMMA DialKeeps ==
  ASSUME IInv, NEW c \in Slot, Dial(c)
  PROVE  IInv'
  <1> USE DEF IInv
  <1> DEFINE new == [Unused EXCEPT !.pc = "dialed", !.open = TRUE, !.link = TRUE, !.ip = agent.ip]
  <1>1. new \in Connection
    BY UnusedType DEF TypeOK, Connection, Steps
  <1>2. conn' \in [Slot -> Connection] /\ \A d \in Slot \ {c} : conn'[d] = conn[d]
    BY <1>1 DEF Dial, TypeOK
  <1>3. conns # c
    BY DEF Dial, Referenced
  <1>4. TypeOK'
    BY <1>2 DEF Dial, TypeOK, registry
  <1>5. NoGhost'
    BY <1>2, <1>3 DEF Dial, NoGhost, TypeOK, registry
  <1>6. Notices'
    BY NoticesStay DEF Dial, Notices
  <1> QED
    BY <1>4, <1>5, <1>6 DEF Notices

\* The agent's end of its connection goes.
LEMMA UnlinkKeeps ==
  ASSUME IInv, conn' = Unlinked,
         agent' \in [up : BOOLEAN, ip : Address, at : Slot \cup {None}],
         UNCHANGED <<registry, sweep, server, collector, noticed>>
  PROVE  IInv'
  <1> USE DEF IInv
  <1>1. TypeOK'
    BY UnlinkedType DEF TypeOK, registry
  <1>2. NoGhost'
    BY UnlinkedType DEF NoGhost, TypeOK, registry
  <1>3. Notices'
    BY NoticesStay DEF Notices
  <1> QED
    BY <1>1, <1>2, <1>3 DEF Notices

LEMMA AgentKeeps ==
  ASSUME IInv, Agent
  PROVE  IInv'
  <1>1. CASE \E c \in Slot : Dial(c)
    BY <1>1, DialKeeps
  <1>2. CASE Hangup \/ Break
    BY <1>2, UnlinkKeeps DEF Hangup, Break, Hangs, IInv, TypeOK
  <1>3. CASE Stop
    BY <1>3, UnlinkKeeps DEF Stop, IInv, TypeOK
  <1>4. CASE \E a \in Address : Move(a)
    BY <1>4, UnlinkKeeps DEF Move, IInv, TypeOK
  <1>5. CASE Start
    <2>1. TypeOK' /\ NoGhost'
      BY <1>5 DEF Start, IInv, TypeOK, NoGhost, registry
    <2>2. Notices'
      BY <1>5, NoticesStay DEF Start, IInv, Notices
    <2> QED
      BY <2>1, <2>2 DEF IInv, Notices
  <1>6. CASE HttpReport
    <2>1. Notices' /\ TypeOK'
      BY <1>6, AliveKeeps DEF HttpReport, IInv, TypeOK, registry, Notices
    <2>2. NoGhost'
      BY <1>6 DEF HttpReport, IInv, NoGhost, registry
    <2> QED
      BY <2>1, <2>2 DEF IInv, Notices
  <1> QED
    BY <1>1, <1>2, <1>3, <1>4, <1>5, <1>6 DEF Agent

---------------------------------------------------------------------------
(* A handler's steps: first those that leave the row and the registry alone. *)

\* The registered connection keeps its handler if another handler moves, or its
\* own handler to a step that holds the entry.
LEMMA HandlerMoves ==
  ASSUME IInv, NEW c \in Slot,
         conn' \in [Slot -> Connection], \A d \in Slot \ {c} : conn'[d].pc = conn[d].pc,
         conns = c => conn'[c].pc \in Held,
         agent' \in [up : BOOLEAN, ip : Address, at : Slot \cup {None}],
         conflict' \in [Address -> 0..Cooldown],
         UNCHANGED <<conns, ping, Untouched>>
  PROVE  IInv'
  <1> USE DEF IInv
  <1>1. TypeOK'
    BY DEF TypeOK, Untouched
  <1>2. NoGhost'
    BY DEF NoGhost, TypeOK
  <1>3. Notices'
    BY NoticesStay DEF Notices, Untouched
  <1> QED
    BY <1>1, <1>2, <1>3 DEF Notices

LEMMA AuthenticateKeeps ==
  ASSUME IInv, NEW c \in Slot, Authenticate(c)
  PROVE  IInv'
  <1> USE DEF IInv
  <1>1. CASE ReadServer(c)
    <2>1. conn' \in [Slot -> Connection] /\ \A d \in Slot \ {c} : conn'[d].pc = conn[d].pc
      <3> DEFINE n == \/ server.status = "pending"
                      \/ server.status = "offline" /\ server.notified
      <3> DEFINE new == [conn[c] EXCEPT !.pc = "known", !.news = n]
      <3>1. n \in BOOLEAN /\ conn' = [conn EXCEPT ![c] = new]
        BY <1>1 DEF ReadServer, TypeOK
      <3> HIDE DEF n
      <3>2. new \in Connection
        <4>1. conn[c] \in Connection /\ "known" \in Steps
          BY DEF TypeOK, Steps
        <4> QED
          BY <3>1, <4>1, FieldType
      <3> HIDE DEF new
      <3> QED
        BY <3>1, <3>2, ReplaceType
    <2>2. conns # c
      BY <1>1, Constants DEF ReadServer, NoGhost, Held
    <2> QED
      BY <1>1, <2>1, <2>2, HandlerMoves DEF ReadServer, TypeOK, registry
  <1>2. CASE Refuse(c)
    <2>1. conns # c
      BY <1>2, Constants DEF Refuse, NoGhost, Held
    <2> QED
      BY <1>2, <2>1, RejectType, HandlerMoves DEF Refuse, TypeOK, registry
  <1>3. CASE MarkConflict(c)
    <2>1. conns # c
      BY <1>3, Constants DEF MarkConflict, NoGhost, Held
    <2>2. conflict' \in [Address -> 0..Cooldown]
      BY <1>3, Constants DEF MarkConflict
    <2>3. Reject(c) /\ UNCHANGED <<conns, ping, Untouched>>
      BY <1>3 DEF MarkConflict
    <2> QED
      BY <2>1, <2>2, <2>3, RejectType, HandlerMoves
  <1>4. CASE FindPrevious(c)
    <2>1. conn' \in [Slot -> Connection] /\ \A d \in Slot \ {c} : conn'[d].pc = conn[d].pc
      BY <1>4 DEF FindPrevious, TypeOK, Connection, Steps
    <2>2. conns # c
      BY <1>4, Constants DEF FindPrevious, NoGhost, Held
    <2> QED
      BY <1>4, <2>1, <2>2, HandlerMoves DEF FindPrevious, TypeOK, registry
  <1>5. CASE Evict(c)
    <2>1. conn' \in [Slot -> Connection]
      <3>1. CASE conns = None
        BY <1>5, <3>1 DEF Evict, TypeOK, Connection, Steps
      <3>2. CASE conns # None
        <4> DEFINE kept == [conn EXCEPT ![c].pc = "clear"]
        <4>1. kept \in [Slot -> Connection]
          BY DEF TypeOK, Connection, Steps
        <4>2. conn' = [kept EXCEPT ![conn[c].prev].open = FALSE]
          BY <1>5, <3>2 DEF Evict
        <4> HIDE DEF kept
        <4>3. CASE conn[c].prev \in Slot
          BY <4>1, <4>2, <4>3 DEF Connection
        <4>4. CASE conn[c].prev \notin Slot
          BY <4>1, <4>2, <4>4
        <4> QED
          BY <4>3, <4>4
      <3> QED
        BY <3>1, <3>2
    <2>2. TypeOK' /\ NoGhost'
      BY <1>5, <2>1 DEF Evict, TypeOK, NoGhost, Untouched
    <2>3. Notices'
      BY <1>5, NoticesStay DEF Evict, Notices, Untouched
    <2> QED
      BY <2>2, <2>3 DEF Notices
  <1>6. CASE Register(c)
    <2>1. Goto(c, "stored") /\ conns' = c /\ ping' = 0 /\ UNCHANGED <<conflict, agent, Untouched>>
      BY <1>6 DEF Register
    <2>2. conn' \in [Slot -> Connection] /\ conn'[c].pc = "stored"
      BY <2>1, GotoType DEF Steps
    <2>3. TypeOK'
      BY <2>1, <2>2, Constants DEF TypeOK, Untouched
    <2>4. NoGhost'
      BY <2>1, <2>2 DEF NoGhost, Held
    <2>5. Notices'
      BY <2>1, NoticesStay DEF Notices, Untouched
    <2> QED
      BY <2>3, <2>4, <2>5 DEF Notices
  <1>7. CASE UpdateHeartbeat(c)
    <2>1. conn' \in [Slot -> Connection] /\ conn'[c].pc = "written"
          /\ \A d \in Slot \ {c} : conn'[d] = conn[d]
      BY <1>7, GotoType DEF UpdateHeartbeat, Steps
    <2>2. Notices' /\ TypeOK'
      BY <1>7, <2>1, AliveKeeps DEF UpdateHeartbeat, TypeOK, registry, Notices
    <2>3. NoGhost'
      BY <1>7, <2>1 DEF UpdateHeartbeat, NoGhost, Held, TypeOK, registry
    <2> QED
      BY <2>2, <2>3 DEF Notices
  <1>8. CASE Announce(c)
    <2>1. conn' \in [Slot -> Connection] /\ conn'[c].pc = "reading"
          /\ \A d \in Slot \ {c} : conn'[d].pc = conn[d].pc
      <3> DEFINE new == [conn[c] EXCEPT !.pc = "reading", !.prev = None, !.news = FALSE]
      <3>1. conn' = [conn EXCEPT ![c] = new]
        BY <1>8 DEF Announce, TypeOK
      <3>2. new \in Connection
        <4>1. conn[c] \in Connection /\ "reading" \in Steps
          BY DEF TypeOK, Steps
        <4> QED
          BY <4>1, FieldType
      <3>3. new.pc = "reading"
        BY DEF TypeOK, Connection
      <3> HIDE DEF new
      <3> QED
        BY <3>1, <3>2, <3>3, ReplaceType
    <2> QED
      BY <1>8, <2>1, HandlerMoves DEF Announce, TypeOK, registry, Untouched, Held
  <1> QED
    BY <1>1, <1>2, <1>3, <1>4, <1>5, <1>6, <1>7, <1>8 DEF Authenticate

LEMMA ReceiveKeeps ==
  ASSUME IInv, NEW c \in Slot, HandleTraffic(c) \/ HandleHeartbeat(c)
  PROVE  IInv'
  <1> USE DEF IInv
  <1>1. Alive /\ UNCHANGED <<conns, conflict, conn, sweep, agent>> /\ ping' \in {0, ping}
    BY DEF HandleTraffic, HandleHeartbeat, registry
  <1>2. Notices' /\ TypeOK'
    BY <1>1, AliveKeeps, Constants DEF TypeOK, Notices
  <1>3. NoGhost'
    BY <1>1 DEF NoGhost
  <1> QED
    BY <1>2, <1>3 DEF Notices

LEMMA LeaveKeeps ==
  ASSUME IInv, NEW c \in Slot, Leave(c)
  PROVE  IInv'
  <1> USE DEF IInv
  <1>1. CASE ReadFails(c)
    <2>1. Goto(c, "leaving") /\ UNCHANGED <<registry, agent, Untouched>>
      BY <1>1 DEF ReadFails
    <2> QED
      BY <2>1, GotoType, HandlerMoves DEF TypeOK, registry, Steps, Held
  <1>2. CASE ReadFailsEarly(c)
    <2>1. conns # c
      BY <1>2, Constants DEF ReadFailsEarly, NoGhost, Held
    <2>2. Return(c) /\ UNCHANGED <<registry, agent, Untouched>>
      BY <1>2 DEF ReadFailsEarly
    <2> QED
      BY <2>1, <2>2, ReturnType, HandlerMoves DEF TypeOK, registry
  <1>3. CASE CheckOwn(c)
    <2>1. UNCHANGED <<registry, agent, Untouched>>
      BY <1>3 DEF CheckOwn
    <2>2. CASE Mine(c)
      <3>1. Goto(c, "checked")
        BY <1>3, <2>2 DEF CheckOwn
      <3> QED
        BY <2>1, <3>1, GotoType, HandlerMoves DEF TypeOK, registry, Steps, Held
    <2>3. CASE ~Mine(c)
      <3>1. Return(c) /\ conns # c
        BY <1>3, <2>3 DEF CheckOwn, Mine
      <3> QED
        BY <2>1, <3>1, ReturnType, HandlerMoves DEF TypeOK, registry
    <2> QED
      BY <2>2, <2>3
  <1>4. CASE Unregister(c)
    <2>1. Goto(c, "removed") /\ conns' = None /\ UNCHANGED <<ping, conflict, agent, Untouched>>
      BY <1>4 DEF Unregister
    <2>2. TypeOK' /\ NoGhost'
      BY <2>1, GotoType DEF TypeOK, NoGhost, Untouched, Steps
    <2>3. Notices'
      BY <2>1, NoticesStay DEF Notices, Untouched
    <2> QED
      BY <2>2, <2>3 DEF Notices
  <1>5. CASE MarkOfflineByID(c)
    <2>1. Return(c) /\ UNCHANGED <<registry, agent, collector, sweep, noticed>>
      BY <1>5 DEF MarkOfflineByID
    <2>2. Notices' /\ server' \in Row
      <3>1. CASE server.status = "connected"
        BY <1>5, <3>1, MarkedKeeps DEF MarkOfflineByID, Notices
      <3>2. CASE server.status # "connected"
        BY <1>5, <3>2, NoticesStay DEF MarkOfflineByID, Notices, TypeOK
      <3> QED
        BY <3>1, <3>2
    <2>3. TypeOK'
      BY <2>1, <2>2, ReturnType DEF TypeOK, registry
    <2>4. conns # c
      BY <1>5, Constants DEF MarkOfflineByID, NoGhost, Held
    <2>5. NoGhost'
      BY <2>1, <2>4, ReturnType DEF NoGhost, TypeOK, registry
    <2> QED
      BY <2>2, <2>3, <2>5 DEF Notices
  <1> QED
    BY <1>1, <1>2, <1>3, <1>4, <1>5 DEF Leave

---------------------------------------------------------------------------
(* The cleanup, the collector, time and a restart *)

LEMMA CleanupKeeps ==
  ASSUME IInv, CloseStale \/ DeleteStale
  PROVE  IInv'
  <1> USE DEF IInv
  <1>1. Notices'
    BY NoticesStay DEF CloseStale, DeleteStale, Notices
  <1>2. CASE CloseStale
    <2>1. conn' \in [Slot -> Connection] /\ \A d \in Slot : conn'[d].pc = conn[d].pc
      BY <1>2 DEF CloseStale, TypeOK, Connection
    <2>2. TypeOK' /\ NoGhost'
      BY <1>2, <2>1 DEF CloseStale, TypeOK, NoGhost, registry
    <2> QED
      BY <1>1, <2>2 DEF Notices
  <1>3. CASE DeleteStale
    <2>1. TypeOK' /\ NoGhost'
      BY <1>3 DEF DeleteStale, TypeOK, NoGhost
    <2> QED
      BY <1>1, <2>1 DEF Notices
  <1> QED
    BY <1>2, <1>3

LEMMA CollectKeeps ==
  ASSUME IInv, Collect
  PROVE  IInv'
  <1> USE DEF IInv
  <1>1. NoGhost' /\ UNCHANGED <<registry, conn, sweep, agent>>
    BY DEF Collect, MarkOfflineServers, SelectOffline, SetNotified, TellOffline, NoGhost, registry
  <1>2. CASE MarkOfflineServers
    BY <1>1, <1>2, MarkedKeeps DEF MarkOfflineServers, TypeOK, registry, Notices
  <1>3. CASE SelectOffline
    <2>1. collector' = [pc |-> "selected", late |-> FALSE] /\ Due /\ UNCHANGED <<server, noticed>>
      BY <1>3 DEF SelectOffline
    <2>2. ~noticed
      BY <2>1 DEF Recorded, Outage, Due
    <2>3. Recorded' /\ Chosen' /\ Telling'
      BY <2>1, <2>2 DEF Recorded, Chosen, Telling, Outage, Due
    <2>4. TypeOK'
      BY <1>1, <2>1 DEF TypeOK, registry
    <2> QED
      BY <1>1, <2>3, <2>4
  <1>4. CASE SetNotified
    <2>1. server' \in Row /\ (Due => Outage') /\ (~Due => server' = server)
      BY <1>4 DEF SetNotified, TypeOK, Row, Outage, Due
    <2>2. /\ collector' \in [pc : {"idle", "selected", "telling"}, late : BOOLEAN]
          /\ collector'.pc = "telling" /\ collector'.late = collector.late
          /\ collector.pc = "selected" /\ noticed' = noticed
      BY <1>4 DEF SetNotified, TypeOK
    <2>3. Recorded' /\ Chosen' /\ Telling'
      BY <2>1, <2>2 DEF Recorded, Chosen, Telling, Outage
    <2>4. TypeOK'
      BY <1>1, <2>1, <2>2 DEF TypeOK, registry
    <2> QED
      BY <1>1, <2>3, <2>4
  <1>5. CASE TellOffline
    <2>1. /\ collector.pc = "telling" /\ noticed' = (noticed \/ ~collector.late)
          /\ collector' = [pc |-> "idle", late |-> FALSE] /\ server' = server
      BY <1>5 DEF TellOffline
    <2>2. collector'.pc = "idle"
      BY <2>1
    <2>3. Recorded' /\ Chosen' /\ Telling'
      BY <2>1, <2>2 DEF Recorded, Chosen, Telling, Outage
    <2>4. TypeOK'
      BY <1>1, <2>1 DEF TypeOK, registry
    <2> QED
      BY <1>1, <2>3, <2>4
  <1> QED
    BY <1>2, <1>3, <1>4, <1>5 DEF Collect

LEMMA TickKeeps ==
  ASSUME IInv, Tick
  PROVE  IInv'
  <1> USE DEF IInv
  <1>1. Older(server.age, Oldest) \in 0..Oldest /\ Older(ping, Stale + 1) \in 0..(Stale + 1)
    BY Constants, OlderType DEF TypeOK, Row
  <1>2. server' \in Row /\ server'.status = server.status /\ server'.notified = server.notified
    BY <1>1 DEF Tick, TypeOK, Row
  <1>3. ping' \in 0..(Stale + 1)
    BY <1>1, Constants DEF Tick
  <1>4. conflict' \in [Address -> 0..Cooldown]
    <2>1. \A a \in Address : (IF conflict[a] > 0 THEN conflict[a] - 1 ELSE 0) \in 0..Cooldown
      BY Constants DEF TypeOK
    <2> QED
      BY <2>1 DEF Tick
  <1>5. UNCHANGED <<conns, conn, sweep, collector, agent, noticed>> /\ collector.pc # "selected"
    BY DEF Tick
  <1>6. TypeOK' /\ NoGhost'
    BY <1>2, <1>3, <1>4, <1>5 DEF TypeOK, NoGhost
  <1>7. Recorded' /\ Chosen' /\ Telling'
    BY <1>2, <1>5 DEF Recorded, Chosen, Telling, Outage
  <1> QED
    BY <1>6, <1>7

LEMMA RestartKeeps ==
  ASSUME IInv, Restart
  PROVE  IInv'
  <1> USE DEF IInv
  <1>1. TypeOK'
    BY UnusedType, Constants DEF Restart, TypeOK
  <1>2. NoGhost' /\ Recorded' /\ Chosen' /\ Telling'
    BY DEF Restart, NoGhost, Recorded, Chosen, Telling, Outage
  <1> QED
    BY <1>1, <1>2

---------------------------------------------------------------------------
LEMMA Initially == Init => IInv
  <1> SUFFICES ASSUME Init PROVE IInv
    OBVIOUS
  <1>1. server \in Row
    BY Constants DEF Init, Row, Status
  <1>2. conn \in [Slot -> Connection] /\ conflict \in [Address -> 0..Cooldown]
    BY UnusedType, Constants DEF Init
  <1>3. agent \in [up : BOOLEAN, ip : Address, at : Slot \cup {None}]
    BY DEF Init
  <1>4. TypeOK
    BY <1>1, <1>2, <1>3, Constants DEF Init, TypeOK
  <1>5. NoGhost /\ Recorded /\ Chosen /\ Telling
    BY DEF Init, NoGhost, Recorded, Chosen, Telling
  <1> QED
    BY <1>4, <1>5 DEF IInv

LEMMA Stutter ==
  ASSUME IInv, UNCHANGED vars
  PROVE  IInv'
  BY DEF IInv, vars, registry, TypeOK, NoGhost, Recorded, Chosen, Telling, Outage, Due

LEMMA Invariance == Spec => []IInv
  <1>1. IInv /\ [Next]_vars => IInv'
    BY AgentKeeps, AuthenticateKeeps, LeaveKeeps, ReceiveKeeps, CleanupKeeps, CollectKeeps,
       TickKeeps, RestartKeeps, Stutter DEF Next, Handler
  <1> QED
    BY Initially, <1>1, PTL DEF Spec

---------------------------------------------------------------------------
(* The theorems *)

\* Every variable keeps its type.
THEOREM TypeCorrect == Spec => []TypeOK
  <1>1. IInv => TypeOK
    BY DEF IInv
  <1> QED
    BY Invariance, <1>1, PTL

\* Whatever connections replace, close or withdraw each other, what is registered
\* has a handler that will still look at the registry when its connection ends.
THEOREM RegisteredIsServed == Spec => []NoGhost
  <1>1. IInv => NoGhost
    BY DEF IInv
  <1> QED
    BY Invariance, <1>1, PTL

\* The offline notice of one outage goes out once: across the handlers and the
\* collector that mark the row, signs of life between its two statements, and
\* restarts of the panel.
THEOREM NotifiedOnce == Spec => OncePerOutage
  <1>1. IInv /\ [Next]_vars => [TellOffline /\ ~collector.late => ~noticed]_vars
    BY DEF IInv, Telling, TellOffline
  <1> QED
    BY Invariance, <1>1, PTL DEF Spec, OncePerOutage
=============================================================================
