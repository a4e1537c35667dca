---------------------------- MODULE TrafficMeter ----------------------------
(***************************************************************************)
(* The traffic of one user on one node, from the counters of Xray to the   *)
(* row it is charged in (internal/traffic/collector.go,                    *)
(* internal/traffic/restart_detector.go and the Upsert and Reset methods   *)
(* of internal/storage/traffic.go). Xray counts per client, from zero when *)
(* it starts. A report carries the sum of the user's clients; charged is   *)
(* the difference to the report before, or, when Xray was restarted since, *)
(* all of it. Whether it was is told by a boot time that heartbeats write  *)
(* to the server's row and the detector compares with the one it           *)
(* remembers, in memory.                                                   *)
(*                                                                         *)
(* Reports come over the websocket, by HTTP and from the collector's own   *)
(* pull, each handled by a goroutine of its own: several are in hand at    *)
(* once, and nothing keeps them in order. The row is read by one statement *)
(* and updated by another, and a reset or another report may come in       *)
(* between. What Xray and the agent do is external.                        *)
(*                                                                         *)
(* Uplink and downlink are charged alike and are one number here. Not      *)
(* here: the rows per email and per inbound tag (charged alike, from their *)
(* own counters), totals and snapshots for display, emails whose user is   *)
(* found in one report and not in another.                                 *)
(***************************************************************************)
EXTENDS Naturals

CONSTANTS Slot,        \* bound: reports in hand at once
          MaxPassed,   \* bound: traffic of a client, in units
          MaxBoot      \* bound: starts of Xray

ASSUME MeterAssumption == MaxPassed \in Nat /\ MaxBoot \in Nat \ {0}

VARIABLES
  boot,       \* which start of Xray this is, for its boot time
  present,    \* the clients in the running configuration
  counter,    \* Xray's counters
  known,      \* xray_boot_time of the server's row, 0 for NULL
  cache,      \* XrayRestartDetector.cache, 0 when it has no entry
  report,     \* the reports in hand
  row,        \* the row of user_traffic
  passed,     \* history: what each client has passed
  misjudged,  \* history: a report was held against another start of Xray than its own
  crossed,    \* history: reports were judged out of order or before the last was written
  cleared     \* history: what resets took off the row

node == <<boot, present, counter, passed>>
meter == <<node, known, cache, report, row, misjudged, crossed, cleared>>

---------------------------------------------------------------------------
Client == {"direct", "routed"}  \* the emails: of the package, of a private route

\* The columns that matter: uplink + downlink, last_uplink + last_downlink.
Row == [seen : BOOLEAN, used : Nat, last : Nat]

\* pushed by the agent, or pulled when the panel is about to ask for it; received
\* with the boot time of the server's row; judged; selected when its row was read
\* and what to add is known. count is of the start boot; found: there was a row.
\* History: older, those counted before it and still in hand; late, one counted
\* after it was judged.
Stage == {"none", "pushed", "pulled", "received", "judged", "selected"}
Report == [stage : Stage, boot : 0..MaxBoot, count : Nat, time : 0..MaxBoot,
           restarted : BOOLEAN, found : BOOLEAN, add : Nat, older : SUBSET Slot, late : BOOLEAN]
NoReport == [stage |-> "none", boot |-> 0, count |-> 0, time |-> 0, restarted |-> FALSE,
             found |-> FALSE, add |-> 0, older |-> {}, late |-> FALSE]

Zero == [c \in Client |-> 0]

\* byUsername: the sum over the user's emails.
Total(f) == f["direct"] + f["routed"]

---------------------------------------------------------------------------
(* Xray and the agent.                                                     *)

\* A client passes a unit of traffic.
Pass(c) ==
  /\ c \in present /\ passed[c] < MaxPassed
  /\ counter' = [counter EXCEPT ![c] = @ + 1]
  /\ passed' = [passed EXCEPT ![c] = @ + 1]
  /\ UNCHANGED <<boot, present, known, cache, report, row, misjudged, crossed, cleared>>

XrayRestarts ==
  /\ boot < MaxBoot
  /\ boot' = boot + 1
  /\ counter' = Zero
  /\ UNCHANGED <<present, passed, known, cache, report, row, misjudged, crossed, cleared>>

\* A client is put on or taken off; one that goes may take its counter along.
SetClient(c, on) ==
  /\ present' = IF on THEN present \cup {c} ELSE present \ {c}
  /\ \/ counter' = counter
     \/ ~on /\ counter' = [counter EXCEPT ![c] = 0]

Counted == {s \in Slot : report[s].stage \in {"pushed", "received", "judged", "selected"}}

\* The agent sends a report.
Push(s) ==
  /\ report[s].stage = "none"
  /\ report' = [report EXCEPT ![s] = [NoReport EXCEPT !.stage = "pushed", !.boot = boot,
                                                       !.count = Total(counter), !.older = Counted]]
  /\ UNCHANGED <<node, known, cache, row, misjudged, crossed, cleared>>

---------------------------------------------------------------------------
(* The panel.                                                              *)

\* A heartbeat writes the boot time, NULL if it has none.
Heartbeat(b) ==
  /\ b \in {0, boot}
  /\ known' = b
  /\ UNCHANGED <<node, cache, report, row, misjudged, crossed, cleared>>

\* The handler of a pushed report reads the server's row.
Receive(s) ==
  /\ report[s].stage = "pushed"
  /\ report' = [report EXCEPT ![s].stage = "received", ![s].time = known]
  /\ UNCHANGED <<node, known, cache, row, misjudged, crossed, cleared>>

\* The collector has listed the servers, and asks one of them.
Pull(s) ==
  /\ report[s].stage = "none"
  /\ report' = [report EXCEPT ![s] = [NoReport EXCEPT !.stage = "pulled", !.time = known]]
  /\ UNCHANGED <<node, known, cache, row, misjudged, crossed, cleared>>

Fetch(s) ==
  /\ report[s].stage = "pulled"
  /\ report' = [report EXCEPT ![s].stage = "received", ![s].boot = boot,
                              ![s].count = Total(counter), ![s].older = Counted]
  /\ UNCHANGED <<node, known, cache, row, misjudged, crossed, cleared>>

\* Mutant of Restarted: the first boot time after a restart of the panel counts as one.
RestartedAtFirst(b) == b # 0 /\ cache # b

\* What CheckAndUpdate answers and leaves in the cache for the boot time b.
Restarted(b) == b # 0 /\ cache # 0 /\ cache # b
Cached(b) == IF b = 0 THEN cache ELSE b

\* Judged and not yet written.
Open == {s \in Slot : report[s].stage \in {"judged", "selected"}}

\* ProcessRemoteMetrics begins.
Judge(s) ==
  /\ report[s].stage = "received"
  /\ cache' = Cached(report[s].time)
  /\ report' = [t \in Slot |->
                  IF t = s THEN [report[s] EXCEPT !.stage = "judged", !.restarted = Restarted(report[s].time)]
                  ELSE [report[t] EXCEPT !.late = @ \/ t \in report[s].older]]
  /\ misjudged' = (misjudged \/ Cached(report[s].time) \notin {0, report[s].boot})
  /\ crossed' = (crossed \/ report[s].late \/ Open # {})
  /\ UNCHANGED <<node, known, row, cleared>>

\* Mutant of Delta: a count below the last is not clamped.
DeltaUnclamped(r) ==
  IF ~row.seen THEN 0 ELSE IF r.restarted THEN r.count ELSE r.count - row.last

\* What UpsertUserTraffic adds for the report r, by the row it has read.
Delta(r) ==
  IF ~row.seen THEN 0
  ELSE IF r.restarted THEN r.count
  ELSE IF r.count >= row.last THEN r.count - row.last ELSE 0

\* UpsertUserTraffic reads the row ...
Select(s) ==
  /\ report[s].stage = "judged"
  /\ report' = [report EXCEPT ![s].stage = "selected", ![s].found = row.seen, ![s].add = Delta(report[s])]
  /\ UNCHANGED <<node, known, cache, row, misjudged, crossed, cleared>>

\* The report in s is done with.
Without(s) == [t \in Slot |-> IF t = s THEN NoReport ELSE [report[t] EXCEPT !.older = @ \ {s}]]

\* ... and inserts it, what was counted so far being the baseline, or updates it. A
\* row inserted meanwhile is not inserted again: UNIQUE(server_id, username).
Update(s) ==
  /\ report[s].stage = "selected"
  /\ row' = IF report[s].found = row.seen
            THEN [seen |-> TRUE, used |-> row.used + report[s].add, last |-> report[s].count]
            ELSE row
  /\ report' = Without(s)
  /\ UNCHANGED <<node, known, cache, misjudged, crossed, cleared>>

\* The report does not arrive, or a statement fails: logged, the report is gone.
Lose(s) ==
  /\ report[s].stage # "none"
  /\ report' = Without(s)
  /\ UNCHANGED <<node, known, cache, row, misjudged, crossed, cleared>>

\* ResetUserTrafficCycle.
ResetCycle ==
  /\ cleared' = cleared + row.used
  /\ row' = [row EXCEPT !.used = 0]

\* The panel restarts: nothing of the detector's and the reports' survives.
Forget == cache' = 0 /\ report' = [s \in Slot |-> NoReport]

---------------------------------------------------------------------------
MeterInit ==
  /\ boot = 1 /\ present = Client /\ counter = Zero
  /\ known \in {0, 1} /\ cache = 0 /\ report = [s \in Slot |-> NoReport]
  /\ row = [seen |-> FALSE, used |-> 0, last |-> 0]
  /\ passed = Zero /\ misjudged = FALSE /\ crossed = FALSE /\ cleared = 0

\* What goes on by itself.
Collect ==
  \/ \E s \in Slot : \/ Push(s) \/ Receive(s) \/ Pull(s) \/ Fetch(s)
                     \/ Judge(s) \/ Select(s) \/ Update(s)
  \/ XrayRestarts
  \/ \E c \in Client : Pass(c)
  \/ \E b \in {0, boot} : Heartbeat(b)

MeterTypeOK ==
  /\ boot \in 1..MaxBoot /\ present \subseteq Client
  /\ known \in 0..MaxBoot /\ cache \in 0..MaxBoot
  /\ counter \in [Client -> Nat] /\ passed \in [Client -> Nat]
  /\ report \in [Slot -> Report] /\ row \in Row
  /\ misjudged \in BOOLEAN /\ crossed \in BOOLEAN /\ cleared \in Nat

\* A user is charged for no more than its clients have passed, whatever is
\* restarted, reset, lost or taken off, as long as each report is held against
\* the start of Xray it is of, and the reports are judged in the order they were
\* counted, each after the last was written. Nothing in the code ensures either:
\* two reports judged on one baseline are both charged from it
\* (UpsertUserTraffic, CheckAndUpdate).
NeverOvercharged == misjudged \/ crossed \/ row.used + cleared <= Total(passed)
=============================================================================
