--------------------------- MODULE AgentPresence ---------------------------
(***************************************************************************)
(* One agent's presence at the panel (internal/handler/remote_ws.go,       *)
(* internal/traffic/collector.go, internal/storage/traffic.go). The agent  *)
(* holds a web socket; the panel runs one handler for each connection. A   *)
(* handler that authenticates takes over the registry entry of the token,  *)
(* closing the connection it finds there, unless that one belongs to       *)
(* another address and was heard of lately. Messages refresh the server's  *)
(* row; a handler whose read fails withdraws its entry and marks the row   *)
(* offline. The collector marks rows that fell silent and, once an outage  *)
(* has lasted the tolerance, tells the administrator. Between connections  *)
(* the agent reports over HTTP.                                            *)
(*                                                                         *)
(* A connection is a slot; pc is where its handler stands. A tick of time  *)
(* is the agent's heartbeat interval.                                      *)
(*                                                                         *)
(* Not here: key exchange and the refusal of plain connections, renewal of *)
(* the token, the throttling of addresses (a right token clears it before  *)
(* the conflict is looked at), upgrade windows, database errors, and       *)
(* connections whose address is not known, which never conflict.           *)
(***************************************************************************)
EXTENDS Naturals, FiniteSets

CONSTANTS Slot,         \* bound: connections the panel handles at a time
          Upsets,       \* bound: what may happen besides
          None,
          Address,
          Silence,      \* offlineThreshold, in ticks
          Tolerance,    \* notify_server_tolerance_seconds, in ticks
          Freshness,    \* tokenConflictFreshness, in ticks
          Cooldown,     \* tokenConflictCooldown, in ticks
          Stale         \* the timeout of CleanupStaleConnections, in ticks

ASSUME PresenceAssumption ==
  /\ None \notin Slot /\ Address # {}
  /\ Upsets \subseteq {"stop", "break", "move", "report", "restart"}
  /\ {Silence, Tolerance, Freshness, Cooldown, Stale} \subseteq Nat \ {0}

VARIABLES
  conns,      \* the registry's entry of the token
  ping,       \* the age of its LastPing; nobody reads another connection's
  conn,       \* the connections and their handlers
  conflict,   \* tokenConflicts: for how long an address has the token
  server,     \* the row of remote_servers
  collector,  \* where TakeOfflineServersToNotify stands
  sweep,      \* the connection CleanupStaleConnections is removing
  agent,
  noticed     \* history: this outage was notified

registry == <<conns, ping, conflict>>
vars == <<registry, conn, server, collector, sweep, agent, noticed>>

---------------------------------------------------------------------------
Steps == {"free", "dialed", "known", "evicting", "clear", "stored", "written",
          "reading", "leaving", "checked", "removed"}
Held == {"stored", "written", "reading", "leaving", "checked"}  \* the entry may be this one's
Status == {"pending", "connected", "offline"}

\* news: by the row handleAuth read, coming online is worth a notice; prev: the
\* connection it found registered.
Connection == [pc : Steps, open : BOOLEAN, link : BOOLEAN, ip : Address,
               news : BOOLEAN, prev : Slot \cup {None}]

\* age is that of last_heartbeat, and of offline_since once the row is offline.
Oldest == IF Silence < Tolerance THEN Tolerance ELSE Silence + 1
Row == [status : Status, age : 0..Oldest, notified : BOOLEAN]

Unused == [pc |-> "free", open |-> FALSE, link |-> FALSE, ip |-> CHOOSE a \in Address : TRUE,
           news |-> FALSE, prev |-> None]

\* Mutant of Older: one tick too many.
OlderStill(age, most) == IF age <= most THEN age + 1 ELSE age

Older(age, most) == IF age < most THEN age + 1 ELSE age

Goto(c, pc) == conn' = [conn EXCEPT ![c].pc = pc]

\* The handler returns: the deferred Close.
Return(c) == conn' = [conn EXCEPT ![c] = Unused]

\* A sign of life: UpdateRemoteServerHeartbeat and its like end the outage.
Alive ==
  /\ server' = [status |-> "connected", age |-> 0, notified |-> FALSE]
  /\ noticed' = FALSE
  /\ collector' = [collector EXCEPT !.late = collector.pc # "idle"]

MarkedOffline == [status |-> "offline", age |-> 0, notified |-> FALSE]

---------------------------------------------------------------------------
(* The agent *)

Referenced(c) == c \in {conns, sweep, agent.at} \/ \E d \in Slot : conn[d].prev = c

Dial(c) ==
  /\ agent.up /\ agent.at = None
  /\ conn[c].pc = "free" /\ ~Referenced(c)
  /\ conn' = [conn EXCEPT ![c] = [Unused EXCEPT !.pc = "dialed", !.open = TRUE, !.link = TRUE,
                                                !.ip = agent.ip]]
  /\ agent' = [agent EXCEPT !.at = c]
  /\ UNCHANGED <<registry, sweep, server, collector, noticed>>

Unlinked == IF agent.at = None THEN conn ELSE [conn EXCEPT ![agent.at].link = FALSE]

Hangs ==
  /\ agent.at # None
  /\ conn' = Unlinked
  /\ agent' = [agent EXCEPT !.at = None]
  /\ UNCHANGED <<registry, sweep, server, collector, noticed>>

\* The panel has closed the connection, and the agent notices.
Hangup == agent.at # None /\ ~conn[agent.at].open /\ Hangs

\* It breaks; the panel need not know yet.
Break == "break" \in Upsets /\ agent.at # None /\ conn[agent.at].open /\ Hangs

Stop ==
  /\ "stop" \in Upsets
  /\ agent.up
  /\ conn' = Unlinked
  /\ agent' = [agent EXCEPT !.at = None, !.up = FALSE]
  /\ UNCHANGED <<registry, sweep, server, collector, noticed>>

Start ==
  /\ ~agent.up
  /\ agent' = [agent EXCEPT !.up = TRUE]
  /\ UNCHANGED <<registry, conn, sweep, server, collector, noticed>>

Move(a) ==
  /\ "move" \in Upsets
  /\ a # agent.ip
  /\ conn' = Unlinked
  /\ agent' = [agent EXCEPT !.at = None, !.ip = a]
  /\ UNCHANGED <<registry, sweep, server, collector, noticed>>

\* waitWithTrafficReport, which announces a recovery the administrator waits for.
HttpReport ==
  /\ agent.up /\ agent.at = None
  /\ "report" \in Upsets
  /\ Alive
  /\ UNCHANGED <<registry, conn, sweep, agent>>

---------------------------------------------------------------------------
(* A connection's handler: handleAuth *)

Untouched == <<server, collector, sweep, noticed>>

ReadServer(c) ==
  /\ conn[c].pc = "dialed" /\ conn[c].open
  /\ conn' = [conn EXCEPT ![c].pc = "known",
                          ![c].news = \/ server.status = "pending"
                                      \/ server.status = "offline" /\ server.notified]
  /\ UNCHANGED <<registry, agent, Untouched>>

\* The agent is told to go away, and hangs up.
Reject(c) ==
  /\ Return(c)
  /\ agent' = IF agent.at = c THEN [agent EXCEPT !.at = None] ELSE agent

Locked(c) == \E a \in Address \ {conn[c].ip} : conflict[a] > 0

\* Mutant of Refuse: every refused attempt locks the token anew.
RefuseAndLock(c) ==
  /\ conn[c].pc = "known" /\ Locked(c)
  /\ conflict' = [a \in Address |-> IF conflict[a] > 0 THEN Cooldown ELSE 0]
  /\ Reject(c)
  /\ UNCHANGED <<conns, ping, Untouched>>

Refuse(c) ==
  /\ conn[c].pc = "known" /\ Locked(c)
  /\ Reject(c)
  /\ UNCHANGED <<registry, Untouched>>

Rival(c) == conns # None /\ conn[conns].ip # conn[c].ip /\ ping < Freshness

MarkConflict(c) ==
  /\ conn[c].pc = "known" /\ ~Locked(c) /\ Rival(c)
  /\ conflict' = [a \in Address |-> IF a = conn[conns].ip THEN Cooldown ELSE 0]
  /\ Reject(c)
  /\ UNCHANGED <<conns, ping, Untouched>>

FindPrevious(c) ==
  /\ conn[c].pc = "known" /\ ~Locked(c) /\ ~Rival(c)
  /\ conn' = [conn EXCEPT ![c].prev = conns,
                          ![c].pc = IF conns = None THEN "clear" ELSE "evicting"]
  /\ UNCHANGED <<registry, agent, Untouched>>

\* LoadAndDelete takes whatever is registered now; what was found is closed.
Evict(c) ==
  /\ conn[c].pc = "evicting"
  /\ conns' = None
  /\ conn' = IF conns = None THEN [conn EXCEPT ![c].pc = "clear"]
             ELSE [conn EXCEPT ![c].pc = "clear", ![conn[c].prev].open = FALSE]
  /\ UNCHANGED <<ping, conflict, agent, Untouched>>

Register(c) ==
  /\ conn[c].pc = "clear"
  /\ conns' = c
  /\ ping' = 0
  /\ Goto(c, "stored")
  /\ UNCHANGED <<conflict, agent, Untouched>>

UpdateHeartbeat(c) ==
  /\ conn[c].pc = "stored"
  /\ Goto(c, "written")
  /\ Alive
  /\ UNCHANGED <<registry, agent, sweep>>

\* By the row read at the beginning; taking over a connection is not news.
Newsworthy(c) == conn[c].news /\ conn[c].prev = None

Announce(c) ==
  /\ conn[c].pc = "written"
  /\ conn' = [conn EXCEPT ![c].pc = "reading", ![c].prev = None, ![c].news = FALSE]
  /\ UNCHANGED <<registry, agent, server, collector, sweep, noticed>>

---------------------------------------------------------------------------
(* The read loop and its end *)

Receives(c) == conn[c].pc = "reading" /\ conn[c].open /\ conn[c].link

HandleTraffic(c) ==
  /\ Receives(c)
  /\ Alive
  /\ UNCHANGED <<registry, conn, sweep, agent>>

HandleHeartbeat(c) ==
  /\ Receives(c)
  /\ ping' = IF conns = c THEN 0 ELSE ping
  /\ Alive
  /\ UNCHANGED <<conns, conflict, conn, sweep, agent>>

Broken(c) == ~conn[c].open \/ ~conn[c].link

ReadFails(c) ==
  /\ conn[c].pc = "reading" /\ Broken(c)
  /\ Goto(c, "leaving")
  /\ UNCHANGED <<registry, agent, Untouched>>

\* Nothing was registered yet, and nothing is withdrawn.
ReadFailsEarly(c) ==
  /\ conn[c].pc = "dialed" /\ Broken(c)
  /\ Return(c)
  /\ UNCHANGED <<registry, agent, Untouched>>

Mine(c) == conns = c

\* Mutant of CheckOwn: the entry is left to the next connection.
LeaveEntry(c) ==
  /\ conn[c].pc = "leaving"
  /\ Return(c)
  /\ UNCHANGED <<registry, agent, Untouched>>

CheckOwn(c) ==
  /\ conn[c].pc = "leaving"
  /\ IF Mine(c) THEN Goto(c, "checked") ELSE Return(c)
  /\ UNCHANGED <<registry, agent, Untouched>>

\* The key is deleted, whatever is stored under it now.
Unregister(c) ==
  /\ conn[c].pc = "checked"
  /\ conns' = None
  /\ Goto(c, "removed")
  /\ UNCHANGED <<ping, conflict, agent, Untouched>>

\* Mutant of MarkOfflineByID: the row's status is not looked at.
MarkOfflineAnyway(c) ==
  /\ conn[c].pc = "removed"
  /\ server' = MarkedOffline
  /\ Return(c)
  /\ UNCHANGED <<registry, agent, collector, sweep, noticed>>

MarkOfflineByID(c) ==
  /\ conn[c].pc = "removed"
  /\ server' = IF server.status = "connected" THEN MarkedOffline ELSE server
  /\ Return(c)
  /\ UNCHANGED <<registry, agent, collector, sweep, noticed>>

---------------------------------------------------------------------------
(* CleanupStaleConnections *)

CloseStale ==
  /\ sweep = None /\ conns # None
  /\ ping > Stale
  /\ sweep' = conns
  /\ conn' = [conn EXCEPT ![conns].open = FALSE]
  /\ UNCHANGED <<registry, server, collector, agent, noticed>>

DeleteStale ==
  /\ sweep # None
  /\ conns' = None
  /\ sweep' = None
  /\ UNCHANGED <<ping, conflict, conn, server, collector, agent, noticed>>

---------------------------------------------------------------------------
(* The collector *)

\* Mutant of MarkOfflineServers: a server without a connection counts as marked.
MarkOfflineConnected ==
  /\ collector.pc = "idle" /\ conns # None
  /\ server.status = "connected" /\ server.age > Silence
  /\ server' = MarkedOffline
  /\ UNCHANGED <<registry, conn, sweep, collector, agent, noticed>>

MarkOfflineServers ==
  /\ collector.pc = "idle"
  /\ server.status = "connected" /\ server.age > Silence
  /\ server' = MarkedOffline
  /\ UNCHANGED <<registry, conn, sweep, collector, agent, noticed>>

Due == server.status = "offline" /\ ~server.notified /\ server.age >= Tolerance

SelectOffline ==
  /\ collector.pc = "idle" /\ Due
  /\ collector' = [pc |-> "selected", late |-> FALSE]
  /\ UNCHANGED <<registry, conn, sweep, server, agent, noticed>>

SetNotified ==
  /\ collector.pc = "selected"
  /\ server' = IF Due THEN [server EXCEPT !.notified = TRUE] ELSE server
  /\ collector' = [collector EXCEPT !.pc = "telling"]
  /\ UNCHANGED <<registry, conn, sweep, agent, noticed>>

\* late: the agent was heard of after the selection, the notice is of a past outage.
TellOffline ==
  /\ collector.pc = "telling"
  /\ noticed' = (noticed \/ ~collector.late)
  /\ collector' = [pc |-> "idle", late |-> FALSE]
  /\ UNCHANGED <<registry, conn, sweep, server, agent>>

---------------------------------------------------------------------------
(* Time and the panel's process *)

\* A handler's database calls are given up after a fraction of a tick, and an
\* agent that is heard at all is heard before its connection is stale.
Punctual(c) ==
  /\ conn[c].pc \in {"free", "dialed", "reading"}
  /\ conns = c /\ Receives(c) => ping < Stale

\* SELECT and UPDATE use one cutoff: no tick falls between them.
Tick ==
  /\ collector.pc # "selected"
  /\ \A c \in Slot : Punctual(c)
  /\ server' = [server EXCEPT !.age = Older(@, Oldest)]
  /\ ping' = IF conns = None THEN 0 ELSE Older(ping, Stale + 1)
  /\ conflict' = [a \in Address |-> IF conflict[a] > 0 THEN conflict[a] - 1 ELSE 0]
  /\ UNCHANGED <<conns, conn, sweep, collector, agent, noticed>>

Restart ==
  /\ "restart" \in Upsets
  /\ conns' = None /\ ping' = 0 /\ sweep' = None
  /\ conn' = [c \in Slot |-> Unused]
  /\ conflict' = [a \in Address |-> 0]
  /\ collector' = [pc |-> "idle", late |-> FALSE]
  /\ agent' = [agent EXCEPT !.at = None]
  /\ UNCHANGED <<server, noticed>>

---------------------------------------------------------------------------
Init ==
  /\ conns = None /\ ping = 0
  /\ conn = [c \in Slot |-> Unused]
  /\ conflict = [a \in Address |-> 0]
  /\ \E a \in Address : agent = [up |-> FALSE, ip |-> a, at |-> None]
  /\ server = [status |-> "pending", age |-> 0, notified |-> FALSE]
  /\ collector = [pc |-> "idle", late |-> FALSE]
  /\ sweep = None
  /\ noticed = FALSE

Agent ==
  (\E c \in Slot : Dial(c)) \/ Hangup \/ Break \/ Stop \/ Start \/ HttpReport \/ \E a \in Address : Move(a)

Authenticate(c) ==
  \/ ReadServer(c) \/ Refuse(c) \/ MarkConflict(c) \/ FindPrevious(c)
  \/ Evict(c) \/ Register(c) \/ UpdateHeartbeat(c) \/ Announce(c)

Leave(c) ==
  ReadFails(c) \/ ReadFailsEarly(c) \/ CheckOwn(c) \/ Unregister(c) \/ MarkOfflineByID(c)

Handler(c) == Authenticate(c) \/ Leave(c)

Collect == MarkOfflineServers \/ SelectOffline \/ SetNotified \/ TellOffline

Next ==
  \/ Agent
  \/ \E c \in Slot : Handler(c) \/ HandleTraffic(c) \/ HandleHeartbeat(c)
  \/ CloseStale \/ DeleteStale
  \/ Collect \/ Tick \/ Restart

Spec == Init /\ [][Next]_vars

\* Handlers, the collector's loop, the clock and a running agent go on: it
\* dials when it has no connection, sends heartbeats on the one it has and
\* notices one that was closed. Stopping, breaking, moving and restarting
\* need not happen. Ticks are strongly fair: a handler at work only delays them.
FairSpec ==
  /\ Spec
  /\ \A c \in Slot : WF_vars(Handler(c) \/ HandleHeartbeat(c))
  /\ WF_vars((\E c \in Slot : Dial(c)) \/ Hangup)
  /\ WF_vars(CloseStale \/ DeleteStale)
  /\ WF_vars(Collect)
  /\ SF_vars(Tick)

---------------------------------------------------------------------------
(* Properties *)

\* The variables have their types.
TypeOK ==
  /\ conns \in Slot \cup {None} /\ ping \in 0..(Stale + 1)
  /\ conn \in [Slot -> Connection]
  /\ conflict \in [Address -> 0..Cooldown]
  /\ server \in Row
  /\ collector \in [pc : {"idle", "selected", "telling"}, late : BOOLEAN]
  /\ sweep \in Slot \cup {None}
  /\ agent \in [up : BOOLEAN, ip : Address, at : Slot \cup {None}]
  /\ noticed \in BOOLEAN

\* A registered connection has a handler that has yet to look whether the
\* entry is its own: no dead connection stays registered (remote_ws.go,
\* the end of handleConnection).
NoGhost == conns # None => conn[conns].pc \in Held

\* An outage is notified once, whoever marks the server offline and however
\* often (TakeOfflineServersToNotify).
OncePerOutage == [][TellOffline /\ ~collector.late => ~noticed]_vars

\* An agent that is gone for good is at last marked offline and its outage
\* notified, also if its connection never fails (the collector); the panel is
\* not restarted for ever.
GoneIsMarked ==
  (<>[]~agent.up /\ <>[][~Restart]_vars) =>
    <>[](server.status = "pending" \/ (server.status = "offline" /\ server.notified))

\* From some point the agent runs at one address, connections do not break and
\* the panel is not restarted.
Calm ==
  /\ \E a \in Address : <>[](agent.up /\ agent.ip = a)
  /\ <>[][~Break /\ ~Restart]_vars

\* An agent that stays, at whatever address, gets a connection accepted and is marked
\* connected while it has it: the entry of its former connection and the lock on the
\* token give way, and the end of the former connection does not leave it offline.
GetsIn ==
  Calm => []<>(/\ agent.at # None /\ conn[agent.at].open /\ conn[agent.at].pc = "reading"
               /\ server.status = "connected")

===========================================================================
