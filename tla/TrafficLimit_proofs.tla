------------------------ MODULE TrafficLimit_proofs ------------------------
(***************************************************************************)
(* Proofs about TrafficLimit and the TrafficMeter it charges by, for any   *)
(* limit and any number of starts, requests and faults.                    *)
(***************************************************************************)
EXTENDS TrafficLimit, TLAPS

---------------------------------------------------------------------------
(* The inductive invariant *)

Above(n, m) == IF n >= m THEN n - m ELSE 0

\* What a report of n from the start b would be charged, if it were judged now; by
\* the start k that the detector remembers and the count last of the row.
OwedBy(k, last, n, b) == IF k # 0 /\ k # b THEN n ELSE Above(n, last)
Owed(n, b) == OwedBy(cache, row.last, n, b)

\* What a judged report is charged.
Charge(r) == IF r.restarted THEN r.count ELSE Above(r.count, row.last)

\* What n of the start b can still be charged once the report r is written.
Over(n, b, r) == IF b = r.boot THEN Above(n, r.count) ELSE n

Charged == row.used + cleared

\* Counted, not judged, and nothing counted later is judged either.
Waiting == {s \in Slot : report[s].stage \in {"pushed", "received"} /\ ~report[s].late}

\* There is traffic for every charge to come. Let P[s] be what had passed when the
\* report s was counted: what is charged by then fits into it, and what is charged
\* for later counts fits into what passed later.
Reserved(P) ==
  /\ Charged + Owed(Total(counter), boot) <= Total(passed)
  /\ \A s \in Counted : P[s] + Over(Total(counter), boot, report[s]) <= Total(passed)
  /\ \A t \in Counted : \A s \in report[t].older :
        P[s] + Over(report[t].count, report[t].boot, report[s]) <= P[t]
  /\ \A s \in Waiting : Charged + Owed(report[s].count, report[s].boot) <= P[s]
  /\ \A s \in Open : Charged + Charge(report[s]) <= P[s]

\* As long as the reports are judged in order, each after the last was written:
\* one is open, those counted before it are late, and of two the one counted first
\* is known.
Ordered ==
  /\ \A s, t \in Open : s = t
  /\ \A s \in Open : report[s].older \cap Waiting = {}
  /\ \A s, t \in Counted : s = t \/ s \in report[t].older \/ t \in report[s].older
  /\ \A s \in Counted : report[s].older \subseteq Counted
  /\ \A s \in Slot \ Counted : ~report[s].late

\* The detector remembers the start of the open report, or nothing.
Remembered == \A s \in Open : cache \in {0, report[s].boot}

\* A reset between the two statements does not change what the report adds.
Selected ==
  \A s \in Slot : report[s].stage = "selected" =>
    report[s].add = Delta(report[s]) /\ report[s].found = row.seen

Sound == Ordered /\ Remembered /\ Selected /\ \E P \in [Slot -> Nat] : Reserved(P)

MeterInv == MeterTypeOK /\ (misjudged \/ crossed \/ Sound)

\* The package's client is off the node when its row is gone, and when a pass
\* that took it off without a failure goes on to take the package.
Expelled ==
  /\ ~config => "direct" \notin present
  /\ check.pc \in {"expelRoute", "drop"} /\ check.safe => "direct" \notin present
  /\ check.pc = "drop" => check.safe
  /\ DroppedIsGone

LimitTypeOK ==
  /\ user \in Account /\ config \in BOOLEAN
  /\ check \in Check
  /\ requests \in 0..MaxRequests /\ faults \in 0..MaxFaults

IInv == MeterInv /\ LimitTypeOK /\ Expelled

---------------------------------------------------------------------------
(* Sums and differences *)

LEMMA TotalType ==
  ASSUME NEW f \in [Client -> Nat]
  PROVE  Total(f) \in Nat
  BY DEF Total, Client

LEMMA TotalRaised ==
  ASSUME NEW f \in [Client -> Nat], NEW c \in Client
  PROVE  /\ [f EXCEPT ![c] = @ + 1] \in [Client -> Nat]
         /\ Total([f EXCEPT ![c] = @ + 1]) = Total(f) + 1
  BY DEF Total, Client

LEMMA TotalDropped ==
  ASSUME NEW f \in [Client -> Nat], NEW c \in Client
  PROVE  /\ [f EXCEPT ![c] = 0] \in [Client -> Nat]
         /\ Total([f EXCEPT ![c] = 0]) <= Total(f)
  BY DEF Total, Client

LEMMA TotalZero == Zero \in [Client -> Nat] /\ Total(Zero) = 0
  BY DEF Total, Client, Zero

LEMMA Parts ==
  ASSUME MeterTypeOK
  PROVE  /\ Total(counter) \in Nat /\ Total(passed) \in Nat
         /\ row.used \in Nat /\ row.last \in Nat /\ row.seen \in BOOLEAN /\ cleared \in Nat
         /\ boot \in 0..MaxBoot /\ boot \in Nat /\ boot # 0 /\ cache \in Nat /\ known \in 0..MaxBoot
         /\ \A s \in Slot : report[s] \in Report
  BY TotalType, MeterAssumption DEF MeterTypeOK, Row

LEMMA ReportParts ==
  ASSUME NEW r \in Report
  PROVE  /\ r.count \in Nat /\ r.boot \in Nat /\ r.add \in Nat /\ r.time \in 0..MaxBoot
         /\ r.stage \in Stage /\ r.restarted \in BOOLEAN /\ r.found \in BOOLEAN
         /\ r.older \subseteq Slot /\ r.late \in BOOLEAN
  BY MeterAssumption DEF Report

LEMMA NoReportType == NoReport \in Report
  BY MeterAssumption DEF NoReport, Report, Stage

LEMMA DeltaType ==
  ASSUME MeterTypeOK, NEW r \in Report
  PROVE  Delta(r) \in Nat /\ Delta(r) <= Charge(r)
  BY Parts, ReportParts DEF Delta, Charge, Above

---------------------------------------------------------------------------
(* The meter *)

LEMMA OverBounds ==
  ASSUME NEW n \in Nat, NEW m \in Nat, NEW b \in Nat, NEW r \in Report
  PROVE  /\ Over(n, b, r) \in Nat /\ Over(n, b, r) <= n
         /\ Over(n + 1, b, r) <= Over(n, b, r) + 1
         /\ m <= n => Over(m, b, r) <= Over(n, b, r)
  BY ReportParts DEF Over, Above

LEMMA OwedBounds ==
  ASSUME MeterTypeOK, NEW n \in Nat, NEW m \in Nat, NEW b \in Nat
  PROVE  /\ Owed(n, b) \in Nat /\ Owed(n, b) <= n
         /\ Owed(n + 1, b) <= Owed(n, b) + 1
         /\ m <= n => Owed(m, b) <= Owed(n, b)
  BY Parts DEF Owed, OwedBy, Above

LEMMA ChargeType ==
  ASSUME MeterTypeOK, NEW r \in Report
  PROVE  Charge(r) \in Nat
  BY Parts, ReportParts DEF Charge, Above

LEMMA Sets == Counted \subseteq Slot /\ Open \subseteq Counted /\ Waiting \subseteq Counted
  BY DEF Counted, Open, Waiting

\* The reports in hand become fewer or none, and nothing is charged.
LEMMA FewerKeeps ==
  ASSUME MeterTypeOK, Sound,
         UNCHANGED <<boot, counter, passed, cache, row, cleared>>,
         Counted' \subseteq Counted, Open' \subseteq Open, Waiting' \subseteq Waiting,
         \A s \in Counted' :
           /\ report'[s].boot = report[s].boot /\ report'[s].count = report[s].count
           /\ report'[s].restarted = report[s].restarted
           /\ report'[s].older = report[s].older \cap Counted',
         \A s \in Slot \ Counted' : ~report'[s].late
  PROVE  Ordered' /\ Remembered' /\ \E P \in [Slot -> Nat] : Reserved(P)'
  <1>0. Open' \subseteq Counted' /\ Waiting' \subseteq Counted'
    BY DEF Counted, Open, Waiting
  <1>1. Ordered'
    BY <1>0 DEF Sound, Ordered
  <1>2. Remembered'
    BY <1>0 DEF Sound, Remembered
  <1>3. PICK P \in [Slot -> Nat] : Reserved(P)
    BY DEF Sound
  <1>4. Reserved(P)'
    BY <1>0, <1>3 DEF Reserved, Charged, Owed, OwedBy, Over, Charge
  <1> QED
    BY <1>1, <1>2, <1>4

\* A report is counted in the slot s.
LEMMA CountKeeps ==
  ASSUME MeterTypeOK, MeterTypeOK', Sound, NEW s \in Slot, s \notin Counted,
         UNCHANGED <<boot, counter, passed, cache, row, cleared>>,
         Counted' = Counted \cup {s}, Open' = Open, Waiting' = Waiting \cup {s},
         report'[s].boot = boot, report'[s].count = Total(counter), report'[s].older = Counted,
         \A t \in Slot \ {s} : report'[t] = report[t]
  PROVE  Ordered' /\ Remembered' /\ \E P \in [Slot -> Nat] : Reserved(P)'
  <1>0. Open \subseteq Counted /\ Waiting \subseteq Counted /\ Counted \subseteq Slot
    BY Sets
  <1>1. Ordered'
    BY <1>0 DEF Sound, Ordered
  <1>2. Remembered'
    BY <1>0 DEF Sound, Remembered
  <1>3. PICK P \in [Slot -> Nat] : Reserved(P)
    BY DEF Sound
  <1>4. PICK Q \in [Slot -> Nat] : Q[s] = Total(passed) /\ \A t \in Slot \ {s} : Q[t] = P[t]
    <2> DEFINE q == [P EXCEPT ![s] = Total(passed)]
    <2>1. q \in [Slot -> Nat] /\ q[s] = Total(passed) /\ \A t \in Slot \ {s} : q[t] = P[t]
      BY Parts
    <2> HIDE DEF q
    <2> QED
      BY <2>1
  <1>5. Reserved(Q)'
    <2>1. (Charged + Owed(Total(counter), boot) <= Total(passed))'
      BY <1>3 DEF Reserved, Charged, Owed, OwedBy
    <2>2. \A t \in Counted' : Q[t] + Over(Total(counter), boot, report'[t]) <= Total(passed)
      <3>1. Over(Total(counter), boot, report'[s]) = 0
        BY Parts DEF Over, Above
      <3> QED
        BY <1>0, <1>3, <1>4, <3>1, Parts DEF Reserved
    <2>3. \A t \in Counted' : \A u \in report'[t].older :
            Q[u] + Over(report'[t].count, report'[t].boot, report'[u]) <= Q[t]
      <3>1. ASSUME NEW t \in Counted, NEW u \in report[t].older
            PROVE  t # s /\ u # s /\ t \in Slot /\ u \in Slot
        BY <1>0 DEF Sound, Ordered
      <3>2. ASSUME NEW u \in Counted
            PROVE  Q[u] + Over(report'[s].count, report'[s].boot, report'[u]) <= Q[s]
        BY <1>0, <1>3, <1>4 DEF Reserved
      <3> QED
        BY <1>0, <1>3, <1>4, <3>1, <3>2 DEF Reserved
    <2>4. \A t \in Waiting' : (Charged + Owed(report'[t].count, report'[t].boot) <= Q[t])
      BY <1>0, <1>3, <1>4 DEF Reserved
    <2>5. \A t \in Open' : Charged + Charge(report'[t]) <= Q[t]
      BY <1>0, <1>3, <1>4 DEF Reserved
    <2> QED
      BY <2>1, <2>2, <2>3, <2>4, <2>5 DEF Reserved, Charged, Owed, OwedBy, Over, Charge
  <1> QED
    BY <1>1, <1>2, <1>4, <1>5

LEMMA PassKeeps ==
  ASSUME MeterInv, NEW c \in Client, Pass(c)
  PROVE  MeterInv'
  <1>1. /\ counter' \in [Client -> Nat] /\ passed' \in [Client -> Nat]
        /\ Total(counter') = Total(counter) + 1 /\ Total(passed') = Total(passed) + 1
    BY TotalRaised DEF MeterInv, MeterTypeOK, Pass
  <1>2. MeterTypeOK'
    BY <1>1 DEF MeterInv, MeterTypeOK, Pass
  <1>3. ASSUME Sound PROVE Sound'
    <2>1. Ordered' /\ Remembered' /\ Selected'
      BY <1>3 DEF Sound, Ordered, Remembered, Selected, Counted, Waiting, Open, Delta, Pass
    <2>2. PICK P \in [Slot -> Nat] : Reserved(P)
      BY <1>3 DEF Sound
    <2>3. Reserved(P)'
      <3>1. Counted' = Counted /\ Waiting' = Waiting /\ Open' = Open
        BY DEF Counted, Waiting, Open, Pass
      <3>2. (Charged + Owed(Total(counter), boot) <= Total(passed))'
        <4>1. Charged' = Charged /\ Owed(Total(counter), boot)' = Owed(Total(counter) + 1, boot)
          BY <1>1 DEF Charged, Owed, OwedBy, Pass
        <4>2. Charged \in Nat
          BY Parts DEF MeterInv, Charged
        <4>3. /\ Owed(Total(counter), boot) \in Nat /\ Owed(Total(counter) + 1, boot) \in Nat
              /\ Owed(Total(counter) + 1, boot) <= Owed(Total(counter), boot) + 1
          <5>1. Total(counter) \in Nat /\ Total(counter) + 1 \in Nat /\ boot \in Nat /\ 0 \in Nat /\ MeterTypeOK
            BY Parts DEF MeterInv
          <5> QED
            BY <5>1, OwedBounds
        <4>4. Charged + Owed(Total(counter), boot) <= Total(passed) /\ Total(passed) \in Nat
          BY <2>2, Parts DEF Reserved, MeterInv
        <4> QED
          BY <1>1, <4>1, <4>2, <4>3, <4>4
      <3>3. \A s \in Counted : P[s] + Over(Total(counter'), boot, report[s]) <= Total(passed')
        <4>1. TAKE s \in Counted
        <4>2. s \in Slot /\ report[s] \in Report /\ P[s] \in Nat
          BY Parts, Sets DEF MeterInv
        <4>3. /\ Over(Total(counter), boot, report[s]) \in Nat
              /\ Over(Total(counter) + 1, boot, report[s]) \in Nat
              /\ Over(Total(counter) + 1, boot, report[s]) <= Over(Total(counter), boot, report[s]) + 1
          <5>1. Total(counter) \in Nat /\ Total(counter) + 1 \in Nat /\ boot \in Nat /\ 0 \in Nat
            BY Parts DEF MeterInv
          <5> QED
            BY <4>2, <5>1, OverBounds
        <4>4. P[s] + Over(Total(counter), boot, report[s]) <= Total(passed) /\ Total(passed) \in Nat
          BY <2>2, Parts DEF Reserved, MeterInv
        <4> QED
          BY <1>1, <4>2, <4>3, <4>4
      <3> QED
        BY <2>2, <3>1, <3>2, <3>3 DEF Reserved, Charged, Owed, OwedBy, Over, Charge, Pass
    <2> QED
      BY <2>1, <2>3 DEF Sound
  <1> QED
    BY <1>2, <1>3 DEF MeterInv, Pass

\* Nothing but the counters and the start changes, and what they can still be charged
\* becomes no more.
LEMMA LessKeeps ==
  ASSUME MeterTypeOK, MeterTypeOK', Sound,
         UNCHANGED <<passed, cache, report, row, cleared>>,
         Owed(Total(counter'), boot') <= Owed(Total(counter), boot),
         \A r \in Report : Over(Total(counter'), boot', r) <= Over(Total(counter), boot, r)
  PROVE  Sound'
  <1>1. Ordered' /\ Remembered' /\ Selected'
    BY DEF Sound, Ordered, Remembered, Selected, Counted, Waiting, Open, Delta
  <1>2. PICK P \in [Slot -> Nat] : Reserved(P)
    BY DEF Sound
  <1>3. Reserved(P)'
    <2>1. Counted' = Counted /\ Waiting' = Waiting /\ Open' = Open
      BY DEF Counted, Waiting, Open
    <2>2. Charged' = Charged /\ Charged \in Nat
      BY Parts DEF Charged
    <2>3. Total(counter') \in Nat /\ boot' \in Nat
      BY TotalType, MeterAssumption DEF MeterTypeOK
    <2>4. (Charged + Owed(Total(counter), boot) <= Total(passed))'
      <3>1. Owed(Total(counter), boot)' = Owed(Total(counter'), boot')
        BY DEF Owed, OwedBy
      <3>2. Owed(Total(counter), boot) \in Nat /\ Owed(Total(counter'), boot') \in Nat
        BY <2>3, Parts, OwedBounds
      <3>3. Charged + Owed(Total(counter), boot) <= Total(passed) /\ Total(passed) \in Nat
        BY <1>2, Parts DEF Reserved
      <3> QED
        BY <2>2, <3>1, <3>2, <3>3
    <2>5. \A s \in Counted : P[s] + Over(Total(counter'), boot', report[s]) <= Total(passed)
      <3>1. TAKE s \in Counted
      <3>2. s \in Slot /\ report[s] \in Report /\ P[s] \in Nat
        BY Parts, Sets
      <3>3. /\ Over(Total(counter), boot, report[s]) \in Nat
            /\ Over(Total(counter'), boot', report[s]) \in Nat
            /\ Over(Total(counter'), boot', report[s]) <= Over(Total(counter), boot, report[s])
        BY <2>3, <3>2, Parts, OverBounds
      <3>4. P[s] + Over(Total(counter), boot, report[s]) <= Total(passed) /\ Total(passed) \in Nat
        BY <1>2, Parts DEF Reserved
      <3> QED
        BY <3>2, <3>3, <3>4
    <2> QED
      BY <1>2, <2>1, <2>2, <2>4, <2>5 DEF Reserved, Charged, Owed, OwedBy, Over, Charge
  <1> QED
    BY <1>1, <1>3 DEF Sound

LEMMA SetClientKeeps ==
  ASSUME MeterInv, NEW c \in Client, NEW on \in BOOLEAN, SetClient(c, on),
         UNCHANGED Charging
  PROVE  MeterInv'
  <1>1. present' \subseteq Client
    BY DEF SetClient, MeterInv, MeterTypeOK
  <1>2. counter' \in [Client -> Nat] /\ Total(counter') <= Total(counter)
    BY TotalDropped, TotalType DEF SetClient, MeterInv, MeterTypeOK
  <1>3. MeterTypeOK'
    BY <1>1, <1>2 DEF MeterInv, MeterTypeOK, Charging
  <1>4. ASSUME Sound PROVE Sound'
    <2>1. Total(counter') \in Nat
      BY <1>2, TotalType
    <2>2. Owed(Total(counter'), boot') <= Owed(Total(counter), boot)
      BY <1>2, <2>1, Parts, OwedBounds DEF MeterInv, Charging
    <2>3. \A r \in Report : Over(Total(counter'), boot', r) <= Over(Total(counter), boot, r)
      BY <1>2, <2>1, Parts, OverBounds DEF MeterInv, Charging
    <2> QED
      BY <1>3, <1>4, <2>2, <2>3, LessKeeps DEF MeterInv, Charging
  <1> QED
    BY <1>3, <1>4 DEF MeterInv, Charging

LEMMA XrayRestartsKeeps ==
  ASSUME MeterInv, XrayRestarts
  PROVE  MeterInv'
  <1>1. MeterTypeOK'
    BY TotalZero, MeterAssumption DEF MeterInv, MeterTypeOK, XrayRestarts
  <1>2. ASSUME Sound PROVE Sound'
    <2>1. Total(counter') = 0 /\ boot' \in Nat
      BY TotalZero, Parts DEF MeterInv, XrayRestarts
    <2>2. Owed(Total(counter'), boot') <= Owed(Total(counter), boot)
      BY <2>1, Parts, OwedBounds DEF MeterInv
    <2>3. \A r \in Report : Over(Total(counter'), boot', r) <= Over(Total(counter), boot, r)
      BY <2>1, Parts, OverBounds DEF MeterInv
    <2> QED
      BY <1>1, <1>2, <2>2, <2>3, LessKeeps DEF MeterInv, XrayRestarts
  <1> QED
    BY <1>1, <1>2 DEF MeterInv, XrayRestarts

LEMMA PushKeeps ==
  ASSUME MeterInv, NEW s \in Slot, Push(s)
  PROVE  MeterInv'
  <1>1. MeterTypeOK'
    <2>1. boot \in 0..MaxBoot /\ Total(counter) \in Nat
      BY Parts DEF MeterInv
    <2>2. [NoReport EXCEPT !.stage = "pushed", !.boot = boot, !.count = Total(counter), !.older = Counted] \in Report
      BY <2>1, NoReportType, Sets DEF Report, Stage
    <2> QED
      BY <2>2 DEF MeterInv, MeterTypeOK, Push, node
  <1>2. /\ report'[s] = [NoReport EXCEPT !.stage = "pushed", !.boot = boot, !.count = Total(counter), !.older = Counted]
        /\ \A t \in Slot \ {s} : report'[t] = report[t]
    BY DEF MeterInv, MeterTypeOK, Push
  <1>3. /\ report'[s].stage = "pushed" /\ report'[s].boot = boot /\ report'[s].count = Total(counter)
        /\ report'[s].older = Counted /\ report'[s].late = FALSE
    BY <1>2 DEF NoReport
  <1>4. s \notin Counted /\ s \notin Open /\ s \notin Waiting
    BY DEF Push, Counted, Open, Waiting
  <1>5. Counted' = Counted \cup {s} /\ Open' = Open /\ Waiting' = Waiting \cup {s}
    <2>1. Counted' = Counted \cup {s}
      BY <1>2, <1>3, <1>4 DEF Counted
    <2>2. Open' = Open
      BY <1>2, <1>3, <1>4 DEF Open
    <2>3. Waiting' = Waiting \cup {s}
      BY <1>2, <1>3, <1>4 DEF Waiting
    <2> QED
      BY <2>1, <2>2, <2>3
  <1>6. ASSUME Sound PROVE Sound'
    <2>1. Selected'
      BY <1>2, <1>3, <1>6 DEF Sound, Selected, Delta, Push
    <2> QED
      BY <1>1, <1>2, <1>3, <1>4, <1>5, <1>6, <2>1, CountKeeps DEF MeterInv, Sound, Push, node
  <1> QED
    BY <1>1, <1>6 DEF MeterInv, Push

LEMMA FetchKeeps ==
  ASSUME MeterInv, NEW s \in Slot, Fetch(s)
  PROVE  MeterInv'
  <1>1. MeterTypeOK'
    <2>1. boot \in 0..MaxBoot /\ Total(counter) \in Nat /\ report[s] \in Report
      BY Parts DEF MeterInv
    <2>2. [report[s] EXCEPT !.stage = "received", !.boot = boot, !.count = Total(counter),
                            !.older = Counted] \in Report
      BY <2>1, Sets DEF Report, Stage
    <2>3. report' \in [Slot -> Report]
      BY <2>2 DEF MeterInv, MeterTypeOK, Fetch
    <2> QED
      BY <2>3 DEF MeterInv, MeterTypeOK, Fetch, node
  <1>2. /\ report'[s].stage = "received" /\ report'[s].boot = boot /\ report'[s].count = Total(counter)
        /\ report'[s].older = Counted /\ report'[s].late = report[s].late
        /\ \A t \in Slot \ {s} : report'[t] = report[t]
    BY DEF MeterInv, MeterTypeOK, Report, Fetch
  <1>4. s \notin Counted /\ s \notin Open /\ s \notin Waiting
    BY DEF Fetch, Counted, Open, Waiting
  <1>6. ASSUME Sound PROVE Sound'
    <2>0. ~report[s].late
      BY <1>4, <1>6 DEF Sound, Ordered
    <2>1. Selected'
      BY <1>2, <1>6 DEF Sound, Selected, Delta, Fetch
    <2>5. Counted' = Counted \cup {s} /\ Open' = Open /\ Waiting' = Waiting \cup {s}
      BY <1>2, <1>4, <2>0 DEF Counted, Open, Waiting
    <2> QED
      BY <1>1, <1>2, <1>4, <1>6, <2>1, <2>5, CountKeeps DEF MeterInv, Sound, Fetch, node
  <1> QED
    BY <1>1, <1>6 DEF MeterInv, Fetch

LEMMA HeartbeatKeeps ==
  ASSUME MeterInv, NEW b \in {0, boot}, Heartbeat(b)
  PROVE  MeterInv'
  <1>1. MeterTypeOK'
    BY MeterAssumption DEF MeterInv, MeterTypeOK, Heartbeat, node
  <1> QED
    BY <1>1 DEF MeterInv, Sound, Ordered, Remembered, Selected, Reserved, Counted, Waiting, Open, Charged,
                Owed, OwedBy, Over, Charge, Delta, Heartbeat, node

LEMMA ReceiveKeeps ==
  ASSUME MeterInv, NEW s \in Slot, Receive(s)
  PROVE  MeterInv'
  <1>1. MeterTypeOK'
    <2>1. [report[s] EXCEPT !.stage = "received", !.time = known] \in Report
      <3>1. report[s] \in Report /\ known \in 0..MaxBoot
        BY Parts DEF MeterInv
      <3> QED
        BY <3>1 DEF Report, Stage
    <2>2. report' \in [Slot -> Report]
      BY <2>1 DEF MeterInv, MeterTypeOK, Receive
    <2> QED
      BY <2>2 DEF MeterInv, MeterTypeOK, Receive, node
  <1>2. /\ report'[s].stage = "received" /\ report[s].stage = "pushed"
        /\ report'[s].boot = report[s].boot /\ report'[s].count = report[s].count
        /\ report'[s].restarted = report[s].restarted /\ report'[s].older = report[s].older
        /\ report'[s].late = report[s].late
        /\ \A t \in Slot \ {s} : report'[t] = report[t]
    BY DEF MeterInv, MeterTypeOK, Report, Receive
  <1>3. Counted' = Counted /\ Open' = Open /\ Waiting' = Waiting
    BY <1>2 DEF Counted, Open, Waiting
  <1>4. ASSUME Sound PROVE Sound'
    <2>1. Selected'
      BY <1>2, <1>4 DEF Sound, Selected, Delta, Receive
    <2>2. \A t \in Counted : report[t].older = report[t].older \cap Counted
      BY <1>4 DEF Sound, Ordered
    <2>3. \A t \in Counted' :
            /\ report'[t].boot = report[t].boot /\ report'[t].count = report[t].count
            /\ report'[t].restarted = report[t].restarted
            /\ report'[t].older = report[t].older \cap Counted'
      BY <1>2, <1>3, <2>2, Sets
    <2>4. \A t \in Slot \ Counted' : ~report'[t].late
      BY <1>2, <1>3, <1>4 DEF Sound, Ordered
    <2> QED
      BY <1>3, <1>4, <2>1, <2>3, <2>4, FewerKeeps DEF MeterInv, Sound, Receive, node
  <1> QED
    BY <1>1, <1>4 DEF MeterInv, Receive

LEMMA PullKeeps ==
  ASSUME MeterInv, NEW s \in Slot, Pull(s)
  PROVE  MeterInv'
  <1>1. MeterTypeOK'
    <2>1. [NoReport EXCEPT !.stage = "pulled", !.time = known] \in Report
      BY Parts, NoReportType DEF MeterInv, Report, Stage
    <2> QED
      BY <2>1 DEF MeterInv, MeterTypeOK, Pull, node
  <1>2. /\ report'[s].stage = "pulled" /\ report[s].stage = "none" /\ report'[s].late = FALSE
        /\ \A t \in Slot \ {s} : report'[t] = report[t]
    BY DEF MeterInv, MeterTypeOK, NoReport, Pull
  <1>3. Counted' = Counted /\ Open' = Open /\ Waiting' = Waiting /\ s \notin Counted
    BY <1>2 DEF Counted, Open, Waiting
  <1>4. ASSUME Sound PROVE Sound'
    <2>1. Selected'
      BY <1>2, <1>4 DEF Sound, Selected, Delta, Pull
    <2>2. \A t \in Counted : report[t].older = report[t].older \cap Counted
      BY <1>4 DEF Sound, Ordered
    <2>3. \A t \in Counted' :
            /\ report'[t].boot = report[t].boot /\ report'[t].count = report[t].count
            /\ report'[t].restarted = report[t].restarted
            /\ report'[t].older = report[t].older \cap Counted'
      BY <1>2, <1>3, <2>2, Sets
    <2>4. \A t \in Slot \ Counted' : ~report'[t].late
      BY <1>2, <1>3, <1>4 DEF Sound, Ordered
    <2> QED
      BY <1>3, <1>4, <2>1, <2>3, <2>4, FewerKeeps DEF MeterInv, Sound, Pull, node
  <1> QED
    BY <1>1, <1>4 DEF MeterInv, Pull

\* What the detector makes of a count once it has judged the report r.
LEMMA JudgedOwes ==
  ASSUME MeterTypeOK, NEW r \in Report, NEW n \in Nat, NEW b \in Nat, NEW k \in {0, r.boot},
         k = Cached(r.time)
  PROVE  /\ OwedBy(k, row.last, n, b) \in Nat
         /\ OwedBy(k, row.last, n, b) <= Owed(r.count, r.boot) + Over(n, b, r)
  BY Parts, ReportParts DEF Cached, Owed, OwedBy, Over, Above

\* A restart is seen only where the report is the first of its start.
LEMMA JudgeKeeps ==
  ASSUME MeterInv, NEW s \in Slot, Judge(s)
  PROVE  MeterInv'
  <1> DEFINE r == report[s]
  <1>0. r \in Report
    BY Parts DEF MeterInv
  <1>1. MeterTypeOK'
    <2>1. cache' \in 0..MaxBoot
      BY <1>0, ReportParts DEF MeterInv, MeterTypeOK, Cached, Judge
    <2>2. report' \in [Slot -> Report]
      <3>1. Restarted(r.time) \in BOOLEAN
        BY DEF Restarted
      <3>2. [r EXCEPT !.stage = "judged", !.restarted = Restarted(r.time)] \in Report
        BY <1>0, <3>1 DEF Report, Stage
      <3>3. ASSUME NEW t \in Slot PROVE [report[t] EXCEPT !.late = @ \/ t \in r.older] \in Report
        <4>1. report[t] \in Report
          BY Parts DEF MeterInv
        <4> QED
          BY <4>1 DEF Report
      <3> QED
        BY <3>2, <3>3 DEF Judge
    <2> QED
      BY <2>1, <2>2 DEF MeterInv, MeterTypeOK, Judge, node
  <1>2. /\ report'[s].stage = "judged" /\ r.stage = "received"
        /\ report'[s].boot = r.boot /\ report'[s].count = r.count /\ report'[s].older = r.older
        /\ report'[s].restarted = Restarted(r.time)
    BY <1>0 DEF Judge, Report
  <1>3. \A t \in Slot \ {s} :
          /\ report'[t].stage = report[t].stage /\ report'[t].boot = report[t].boot
          /\ report'[t].count = report[t].count /\ report'[t].older = report[t].older
          /\ report'[t].restarted = report[t].restarted /\ report'[t].add = report[t].add
          /\ report'[t].found = report[t].found
          /\ report'[t].late = (report[t].late \/ t \in r.older)
    BY DEF MeterInv, MeterTypeOK, Report, Judge
  <1>4. ASSUME Sound, ~misjudged', ~crossed' PROVE Sound'
    <2>1. cache' = Cached(r.time) /\ cache' \in {0, r.boot} /\ row' = row /\ Open = {} /\ s \in Waiting
      BY <1>4, <1>2 DEF Judge, Waiting
    <2>2. Counted' = Counted /\ Open' = {s} /\ Waiting' = Waiting \ ({s} \cup r.older)
      <3>1. Counted' = Counted
        BY <1>2, <1>3 DEF Counted
      <3>2. Open' = {s}
        BY <1>2, <1>3, <2>1 DEF Open
      <3>3. Waiting' = Waiting \ ({s} \cup r.older)
        BY <1>2, <1>3 DEF Waiting
      <3> QED
        BY <3>1, <3>2, <3>3
    <2>3. \A t \in Waiting' : s \in report[t].older
      BY <1>4, <2>1, <2>2, Sets DEF Sound, Ordered
    <2>4. Ordered'
      <3>1. \A t \in Counted : report'[t].older = report[t].older
        BY <1>2, <1>3, Sets
      <3>2. \A t \in Slot \ Counted : ~report[t].late /\ t \notin r.older /\ t # s
        BY <1>4, <2>1, Sets DEF Sound, Ordered
      <3>3. \A t \in Slot \ Counted : ~report'[t].late
        BY <1>3, <3>2
      <3> QED
        BY <1>2, <1>4, <2>1, <2>2, <3>1, <3>3, Sets DEF Sound, Ordered
    <2>5. Remembered'
      BY <1>2, <2>1, <2>2 DEF Remembered
    <2>6. Selected'
      BY <1>2, <1>3, <2>1 DEF Selected, Open
    <2>7. PICK P \in [Slot -> Nat] : Reserved(P)
      BY <1>4 DEF Sound
    <2>8. Reserved(P)'
      <3>0. /\ Charged' = Charged /\ Charged \in Nat /\ P[s] \in Nat
            /\ Owed(r.count, r.boot) \in Nat
            /\ Charged + Owed(r.count, r.boot) <= P[s]
        <4>1. Charged' = Charged /\ Charged \in Nat
          BY <2>1, Parts DEF Charged, MeterInv, Judge
        <4>2. Owed(r.count, r.boot) \in Nat
          BY <1>0, ReportParts, OwedBounds DEF MeterInv
        <4>3. Charged + Owed(r.count, r.boot) <= P[s]
          BY <2>1, <2>7 DEF Reserved
        <4> QED
          BY <4>1, <4>2, <4>3
      <3>1. Charged + OwedBy(cache', row.last, Total(counter), boot) <= Total(passed)
        <4>1. P[s] + Over(Total(counter), boot, r) <= Total(passed)
          BY <2>1, <2>7, Sets DEF Reserved
        <4>2. /\ OwedBy(cache', row.last, Total(counter), boot) \in Nat
              /\ OwedBy(cache', row.last, Total(counter), boot)
                   <= Owed(r.count, r.boot) + Over(Total(counter), boot, r)
          BY <1>0, <2>1, Parts, JudgedOwes DEF MeterInv
        <4>3. Over(Total(counter), boot, r) \in Nat /\ Total(passed) \in Nat
          BY <1>0, Parts, OverBounds DEF MeterInv
        <4> QED
          BY <3>0, <4>1, <4>2, <4>3
      <3>2. \A t \in Waiting' : Charged + OwedBy(cache', row.last, report[t].count, report[t].boot) <= P[t]
        <4>1. TAKE t \in Waiting'
        <4>2. t \in Counted /\ report[t] \in Report /\ P[t] \in Nat /\ s \in report[t].older
          BY <2>2, <2>3, Sets, Parts DEF MeterInv
        <4>3. P[s] + Over(report[t].count, report[t].boot, r) <= P[t]
          BY <2>7, <4>2 DEF Reserved
        <4> DEFINE n == report[t].count
                   b == report[t].boot
        <4>4. n \in Nat /\ b \in Nat
          BY <4>2, ReportParts
        <4>5. OwedBy(cache', row.last, n, b) \in Nat
              /\ OwedBy(cache', row.last, n, b) <= Owed(r.count, r.boot) + Over(n, b, r)
          BY <1>0, <2>1, <4>4, JudgedOwes DEF MeterInv
        <4>6. Over(n, b, r) \in Nat
          BY <1>0, <4>4, OverBounds
        <4> QED
          BY <3>0, <4>2, <4>3, <4>5, <4>6
      <3>3. Charge(report[s])' = Owed(r.count, r.boot)
        BY <1>0, <1>2, <2>1, ReportParts, Parts DEF Charge, Owed, OwedBy, Restarted, Cached, MeterInv
      <3>4. UNCHANGED <<counter, boot, passed>>
        BY DEF Judge, node
      <3>5. /\ \A t \in Counted : /\ report'[t].boot = report[t].boot /\ report'[t].count = report[t].count
                                  /\ report'[t].older = report[t].older
            /\ Waiting' \subseteq Counted
        BY <1>2, <1>3, <2>2, Sets
      <3>6. (\A t \in Counted : P[t] + Over(Total(counter), boot, report[t]) <= Total(passed))'
        BY <2>2, <2>7, <3>4, <3>5 DEF Reserved, Over
      <3>7. (\A t \in Counted : \A u \in report[t].older :
               P[u] + Over(report[t].count, report[t].boot, report[u]) <= P[t])'
        BY <1>4, <2>2, <2>7, <3>5 DEF Reserved, Over, Sound, Ordered
      <3>8. (\A t \in Waiting : Charged + Owed(report[t].count, report[t].boot) <= P[t])'
        BY <2>1, <3>0, <3>2, <3>5 DEF Owed
      <3>9. (\A t \in Open : Charged + Charge(report[t]) <= P[t])'
        BY <2>2, <3>0, <3>3
      <3>10. (Charged + Owed(Total(counter), boot) <= Total(passed))'
        BY <2>1, <3>0, <3>1, <3>4 DEF Owed
      <3> QED
        BY <3>6, <3>7, <3>8, <3>9, <3>10 DEF Reserved
    <2> QED
      BY <2>4, <2>5, <2>6, <2>8 DEF Sound
  <1> QED
    BY <1>1, <1>4 DEF MeterInv, Judge

LEMMA SelectKeeps ==
  ASSUME MeterInv, NEW s \in Slot, Select(s)
  PROVE  MeterInv'
  <1>0. report[s] \in Report /\ row.seen \in BOOLEAN
    BY Parts DEF MeterInv
  <1>1. MeterTypeOK'
    <2>1. Delta(report[s]) \in Nat
      BY <1>0, DeltaType DEF MeterInv
    <2> QED
      BY <1>0, <2>1 DEF MeterInv, MeterTypeOK, Report, Stage, Select, node
  <1>2. /\ report'[s].stage = "selected" /\ report[s].stage = "judged"
        /\ report'[s].boot = report[s].boot /\ report'[s].count = report[s].count
        /\ report'[s].restarted = report[s].restarted /\ report'[s].older = report[s].older
        /\ report'[s].late = report[s].late
        /\ report'[s].add = Delta(report[s]) /\ report'[s].found = row.seen
        /\ \A t \in Slot \ {s} : report'[t] = report[t]
    BY <1>0 DEF MeterInv, MeterTypeOK, Report, Select
  <1>3. Counted' = Counted /\ Open' = Open /\ Waiting' = Waiting
    BY <1>2 DEF Counted, Open, Waiting
  <1>4. ASSUME Sound PROVE Sound'
    <2>1. Selected'
      <3>1. row' = row /\ Delta(report[s])' = Delta(report[s])
        BY <1>2 DEF Delta, Select
      <3> QED
        BY <1>2, <1>4, <3>1 DEF Sound, Selected, Delta
    <2>2. \A t \in Counted : report[t].older = report[t].older \cap Counted
      BY <1>4 DEF Sound, Ordered
    <2>3. \A t \in Counted' :
            /\ report'[t].boot = report[t].boot /\ report'[t].count = report[t].count
            /\ report'[t].restarted = report[t].restarted
            /\ report'[t].older = report[t].older \cap Counted'
      BY <1>2, <1>3, <2>2, Sets
    <2>4. \A t \in Slot \ Counted' : ~report'[t].late
      BY <1>2, <1>3, <1>4 DEF Sound, Ordered
    <2> QED
      BY <1>3, <1>4, <2>1, <2>3, <2>4, FewerKeeps DEF MeterInv, Sound, Select, node
  <1> QED
    BY <1>1, <1>4 DEF MeterInv, Select

\* What is in hand without the report in s.
LEMMA WithoutType ==
  ASSUME MeterTypeOK, NEW s \in Slot, report' = Without(s)
  PROVE  /\ report' \in [Slot -> Report]
         /\ Counted' = Counted \ {s} /\ Open' = Open \ {s} /\ Waiting' = Waiting \ {s}
         /\ report'[s] = NoReport
         /\ \A t \in Slot \ {s} :
              /\ report'[t].stage = report[t].stage /\ report'[t].boot = report[t].boot
              /\ report'[t].count = report[t].count /\ report'[t].older = report[t].older \ {s}
              /\ report'[t].restarted = report[t].restarted /\ report'[t].add = report[t].add
              /\ report'[t].found = report[t].found /\ report'[t].late = report[t].late
  <1>1. report' \in [Slot -> Report]
    BY NoReportType DEF MeterTypeOK, Report, Without
  <1>2. report'[s] = NoReport /\ NoReport.stage = "none"
    BY DEF Without, NoReport
  <1>3. \A t \in Slot \ {s} :
          /\ report'[t].stage = report[t].stage /\ report'[t].boot = report[t].boot
          /\ report'[t].count = report[t].count /\ report'[t].older = report[t].older \ {s}
          /\ report'[t].restarted = report[t].restarted /\ report'[t].add = report[t].add
          /\ report'[t].found = report[t].found /\ report'[t].late = report[t].late
    BY DEF MeterTypeOK, Report, Without
  <1>4. Counted' = Counted \ {s} /\ Open' = Open \ {s} /\ Waiting' = Waiting \ {s}
    BY <1>2, <1>3 DEF Counted, Open, Waiting
  <1> QED
    BY <1>1, <1>2, <1>3, <1>4

LEMMA WithoutKeeps ==
  ASSUME MeterTypeOK, Sound, NEW s \in Slot, report' = Without(s),
         UNCHANGED <<boot, counter, passed, cache, row, cleared>>
  PROVE  Sound'
  <1>1. \A t \in Counted' :
          /\ report'[t].boot = report[t].boot /\ report'[t].count = report[t].count
          /\ report'[t].restarted = report[t].restarted
          /\ report'[t].older = report[t].older \cap Counted'
    <2>1. \A t \in Counted : report[t].older \subseteq Counted
      BY DEF Sound, Ordered
    <2> QED
      BY <2>1, WithoutType, Sets
  <1>2. \A t \in Slot \ Counted' : ~report'[t].late
    <2>1. NoReport.late = FALSE
      BY DEF NoReport
    <2> QED
      BY <2>1, WithoutType DEF Sound, Ordered
  <1>3. Selected'
    <2>1. NoReport.stage = "none"
      BY DEF NoReport
    <2> QED
      BY <2>1, WithoutType DEF Sound, Selected, Delta
  <1> QED
    BY <1>1, <1>2, <1>3, WithoutType, FewerKeeps DEF Sound

\* What the row makes of a count once the report r is written.
LEMMA WrittenOwes ==
  ASSUME NEW r \in Report, NEW n \in Nat, NEW b \in Nat, NEW k \in {0, r.boot}
  PROVE  OwedBy(k, r.count, n, b) \in Nat /\ OwedBy(k, r.count, n, b) <= Over(n, b, r)
  BY ReportParts DEF OwedBy, Over, Above

LEMMA UpdateKeeps ==
  ASSUME MeterInv, NEW s \in Slot, Update(s)
  PROVE  MeterInv'
  <1> DEFINE r == report[s]
  <1>0. r \in Report /\ report' = Without(s)
    BY Parts DEF MeterInv, Update
  <1>1. MeterTypeOK'
    <2>1. row' \in Row
      BY <1>0, Parts, ReportParts DEF MeterInv, MeterTypeOK, Row, Update
    <2> QED
      BY <1>0, <2>1, WithoutType DEF MeterInv, MeterTypeOK, Update, node
  <1>2. ASSUME Sound PROVE Sound'
    <2>1. /\ s \in Open /\ s \in Counted /\ Open = {s}
          /\ cache \in {0, r.boot} /\ cache' = cache
          /\ row' = [seen |-> TRUE, used |-> row.used + r.add, last |-> r.count]
          /\ r.add = Delta(r)
      BY <1>2, Sets DEF Update, Open, Sound, Ordered, Remembered, Selected
    <2>2. Counted' = Counted \ {s} /\ Open' = {} /\ Waiting' = Waiting \ {s}
      BY <1>0, <2>1, WithoutType DEF MeterInv
    <2>3. Ordered'
      <3>1. NoReport.late = FALSE
        BY DEF NoReport
      <3> QED
        BY <1>0, <1>2, <2>2, <3>1, WithoutType, Sets DEF MeterInv, Sound, Ordered
    <2>4. Remembered' /\ Selected'
      BY <2>2 DEF Remembered, Selected, Open
    <2>5. PICK P \in [Slot -> Nat] : Reserved(P)
      BY <1>2 DEF Sound
    <2>6. Reserved(P)'
      <3>1. /\ Charged' \in Nat /\ P[s] \in Nat /\ Charged' <= P[s]
        <4>1. row.used \in Nat /\ cleared \in Nat /\ r.add \in Nat /\ Charge(r) \in Nat
              /\ Delta(r) <= Charge(r)
          BY <1>0, Parts, ReportParts, DeltaType, ChargeType DEF MeterInv
        <4>2. Charged' = row.used + r.add + cleared
          BY <2>1 DEF Charged, Update
        <4>3. row.used + cleared + Charge(r) <= P[s]
          BY <2>1, <2>5 DEF Reserved, Charged
        <4> QED
          BY <2>1, <4>1, <4>2, <4>3
      <3>2. Charged' + OwedBy(cache', row'.last, Total(counter), boot) <= Total(passed)
        <4>1. P[s] + Over(Total(counter), boot, r) <= Total(passed)
          BY <2>1, <2>5 DEF Reserved
        <4>2. row'.last = r.count
          BY <2>1
        <4>3. /\ OwedBy(cache, r.count, Total(counter), boot) \in Nat
              /\ OwedBy(cache, r.count, Total(counter), boot) <= Over(Total(counter), boot, r)
          BY <1>0, <2>1, Parts, WrittenOwes DEF MeterInv
        <4>4. Over(Total(counter), boot, r) \in Nat /\ Total(passed) \in Nat
          BY <1>0, Parts, OverBounds DEF MeterInv
        <4>5. cache' = cache
          BY <2>1
        <4> QED
          BY <3>1, <4>1, <4>2, <4>3, <4>4, <4>5
      <3>3. \A t \in Waiting' : Charged' + OwedBy(cache', row'.last, report[t].count, report[t].boot) <= P[t]
        <4>1. TAKE t \in Waiting'
        <4>2. t \in Counted /\ report[t] \in Report /\ P[t] \in Nat /\ s \in report[t].older
          BY <1>2, <2>1, <2>2, Sets, Parts DEF MeterInv, Sound, Ordered
        <4>3. P[s] + Over(report[t].count, report[t].boot, r) <= P[t]
          BY <2>5, <4>2 DEF Reserved
        <4>4. row'.last = r.count
          BY <2>1
        <4> DEFINE n == report[t].count
                   b == report[t].boot
        <4>5. n \in Nat /\ b \in Nat /\ cache' = cache
          BY <2>1, <4>2, ReportParts
        <4>6. OwedBy(cache, r.count, n, b) \in Nat /\ OwedBy(cache, r.count, n, b) <= Over(n, b, r)
          BY <1>0, <2>1, <4>5, WrittenOwes
        <4>7. Over(n, b, r) \in Nat
          BY <1>0, <4>5, OverBounds
        <4> QED
          BY <3>1, <4>2, <4>3, <4>4, <4>5, <4>6, <4>7
      <3>4. UNCHANGED <<counter, boot, passed>>
        BY DEF Update, node
      <3>5. /\ \A t \in Counted' : /\ report'[t].boot = report[t].boot /\ report'[t].count = report[t].count
                                   /\ report'[t].older = report[t].older \ {s}
            /\ Waiting' \subseteq Counted' /\ Counted' \subseteq Counted
        BY <1>0, <2>2, WithoutType, Sets DEF MeterInv
      <3>6. (\A t \in Counted : P[t] + Over(Total(counter), boot, report[t]) <= Total(passed))'
        BY <2>5, <3>4, <3>5 DEF Reserved, Over
      <3>7. (\A t \in Counted : \A u \in report[t].older :
               P[u] + Over(report[t].count, report[t].boot, report[u]) <= P[t])'
        <4>1. \A t \in Counted' : \A u \in report'[t].older : u \in Counted' /\ u \in report[t].older
          BY <2>3, <3>5 DEF Ordered
        <4> QED
          BY <2>5, <3>5, <4>1 DEF Reserved, Over
      <3>8. (\A t \in Waiting : Charged + Owed(report[t].count, report[t].boot) <= P[t])'
        BY <3>3, <3>5 DEF Owed
      <3>9. (\A t \in Open : Charged + Charge(report[t]) <= P[t])'
        BY <2>2
      <3>10. (Charged + Owed(Total(counter), boot) <= Total(passed))'
        BY <3>2, <3>4 DEF Owed
      <3> QED
        BY <3>6, <3>7, <3>8, <3>9, <3>10 DEF Reserved
    <2> QED
      BY <2>3, <2>4, <2>6 DEF Sound
  <1> QED
    BY <1>1, <1>2 DEF MeterInv, Update

LEMMA LoseKeeps ==
  ASSUME MeterInv, NEW s \in Slot, Lose(s)
  PROVE  MeterInv'
  <1>1. MeterTypeOK'
    BY WithoutType DEF MeterInv, MeterTypeOK, Lose, node
  <1> QED
    BY <1>1, WithoutKeeps DEF MeterInv, Lose, node

LEMMA ResetKeeps ==
  ASSUME MeterInv, ResetCycle, UNCHANGED <<node, known, cache, report, misjudged, crossed>>
  PROVE  MeterInv'
  <1>1. MeterTypeOK'
    BY Parts DEF MeterInv, MeterTypeOK, Row, ResetCycle, node
  <1>2. row'.last = row.last /\ row'.seen = row.seen /\ Charged' = Charged
    BY Parts DEF MeterInv, MeterTypeOK, Row, Charged, ResetCycle
  <1>3. ASSUME Sound PROVE Sound'
    <2>1. Ordered' /\ Remembered' /\ Selected'
      BY <1>2, <1>3 DEF Sound, Ordered, Remembered, Selected, Counted, Waiting, Open, Delta
    <2>2. PICK P \in [Slot -> Nat] : Reserved(P)
      BY <1>3 DEF Sound
    <2>3. Reserved(P)'
      BY <1>2, <2>2 DEF Reserved, Counted, Waiting, Open, Owed, OwedBy, Over, Charge, node
    <2> QED
      BY <2>1, <2>3 DEF Sound
  <1> QED
    BY <1>1, <1>3 DEF MeterInv

LEMMA ForgetKeeps ==
  ASSUME MeterInv, Forget, UNCHANGED <<node, known, row, misjudged, crossed, cleared>>
  PROVE  MeterInv'
  <1>1. MeterTypeOK'
    BY Parts, NoReportType, MeterAssumption DEF MeterInv, MeterTypeOK, Forget, node
  <1>2. \A s \in Slot : report'[s].stage = "none" /\ ~report'[s].late
    BY DEF Forget, NoReport
  <1>3. Counted' = {} /\ Open' = {} /\ Waiting' = {}
    BY <1>2 DEF Counted, Open, Waiting
  <1>4. ASSUME Sound PROVE Sound'
    <2>1. Ordered' /\ Remembered' /\ Selected'
      BY <1>2, <1>3 DEF Ordered, Remembered, Selected
    <2>2. PICK P \in [Slot -> Nat] : Reserved(P)
      BY <1>4 DEF Sound
    <2>3. Reserved(P)'
      <3>1. Owed(Total(counter), boot)' <= Owed(Total(counter), boot)
            /\ Owed(Total(counter), boot)' \in Nat /\ Owed(Total(counter), boot) \in Nat
            /\ Charged \in Nat /\ Charged' = Charged
        BY Parts DEF MeterInv, Owed, OwedBy, Above, Charged, Forget, node
      <3>2. (Charged + Owed(Total(counter), boot) <= Total(passed))'
        BY <2>2, <3>1, Parts DEF MeterInv, Reserved, node
      <3> QED
        BY <1>3, <3>2 DEF Reserved
    <2> QED
      BY <2>1, <2>3 DEF Sound
  <1> QED
    BY <1>1, <1>4 DEF MeterInv

LEMMA MeterStutters ==
  ASSUME MeterInv, UNCHANGED meter
  PROVE  MeterInv'
  BY DEF meter, node, MeterInv, MeterTypeOK, Sound, Ordered, Remembered, Selected, Reserved, Counted,
         Waiting, Open, Charged, Owed, OwedBy, Over, Charge, Delta

LEMMA CollectKeeps ==
  ASSUME MeterInv, Collect
  PROVE  MeterInv'
  BY PushKeeps, ReceiveKeeps, PullKeeps, FetchKeeps, JudgeKeeps, SelectKeeps, UpdateKeeps,
     XrayRestartsKeeps, PassKeeps, HeartbeatKeeps DEF Collect

---------------------------------------------------------------------------
(* The enforcer *)

\* A step that leaves the clients, the user's row and the pass alone.
LEMMA AsideKeeps ==
  ASSUME LimitTypeOK, Expelled, UNCHANGED <<present, user, config, check>>,
         requests' \in 0..MaxRequests, faults' \in 0..MaxFaults
  PROVE  LimitTypeOK' /\ Expelled'
  BY DEF LimitTypeOK, Expelled, DroppedIsGone

LEMMA IdleType == Idle \in Check /\ Idle.pc = "idle"
  BY DEF Idle, Check, Steps

LEMMA GotoType ==
  ASSUME check \in Check, NEW pc \in Steps, Goto(pc)
  PROVE  check' \in Check /\ check'.pc = pc /\ (pc # "idle" => check'.safe = check.safe)
  BY IdleType DEF Goto, Check, Steps

LEMMA FaultType ==
  ASSUME LimitTypeOK, Fault
  PROVE  faults' \in 0..MaxFaults /\ faults' # 0
  BY LimitAssumption DEF LimitTypeOK, Fault

\* A call of the agent.
LEMMA CallType ==
  ASSUME MeterInv, LimitTypeOK, NEW c \in Client, NEW on \in BOOLEAN,
         Answered(c, on) \/ Unanswered(c, on), UNCHANGED Charging
  PROVE  /\ MeterInv'
         /\ faults' \in 0..MaxFaults
         /\ faults' = 0 => faults = 0 /\ present' = IF on THEN present \cup {c} ELSE present \ {c}
         /\ present' \in {present, IF on THEN present \cup {c} ELSE present \ {c}}
  <1>1. CASE SetClient(c, on)
    BY <1>1, SetClientKeeps, FaultType DEF Answered, Unanswered, SetClient, LimitTypeOK
  <1>2. CASE ~SetClient(c, on)
    <2>1. Fault /\ UNCHANGED <<present, counter>>
      BY <1>2 DEF Answered, Unanswered
    <2>2. MeterInv'
      BY <2>1, MeterStutters DEF meter, node, Charging
    <2> QED
      BY <2>1, <2>2, FaultType
  <1> QED
    BY <1>1, <1>2

LEMMA ListKeeps ==
  ASSUME IInv, List
  PROVE  IInv'
  <1>1. MeterInv'
    BY MeterStutters DEF IInv, List
  <1>2. /\ check' \in Check /\ check'.pc \in {"expel", "reset", "compare"}
        /\ UNCHANGED <<present, user, config, requests, faults>>
    BY DEF IInv, LimitTypeOK, List, Idle, Check, Steps, Account, meter, node, bounds
  <1>3. LimitTypeOK' /\ Expelled'
    BY <1>2 DEF IInv, LimitTypeOK, Expelled, DroppedIsGone, List
  <1> QED
    BY <1>1, <1>3 DEF IInv

LEMMA ExpelKeeps ==
  ASSUME IInv, Expel
  PROVE  IInv'
  <1>1. check' \in Check /\ check'.pc = "expelRoute" /\ check'.safe = ~config' /\ config' \in BOOLEAN
    BY DEF IInv, LimitTypeOK, Check, Steps, Expel
  <1>2. CASE config /\ (Answered("direct", FALSE) \/ Unanswered("direct", FALSE))
    <2>1. /\ MeterInv' /\ faults' \in 0..MaxFaults
          /\ faults' = 0 => faults = 0 /\ present' = present \ {"direct"}
          /\ present' \in {present, present \ {"direct"}}
      BY <1>2, CallType DEF IInv, Expel, Client
    <2>2. ~config' => "direct" \notin present'
      BY <1>2 DEF Expel, Answered, SetClient
    <2> QED
      BY <1>1, <2>1, <2>2 DEF IInv, LimitTypeOK, Expelled, DroppedIsGone, Expel
  <1>3. CASE ~config /\ UNCHANGED <<present, counter, config, faults>>
    <2>1. MeterInv'
      BY <1>3, MeterStutters DEF IInv, Expel, meter, node, Charging
    <2> QED
      BY <1>1, <1>3, <2>1 DEF IInv, LimitTypeOK, Expelled, DroppedIsGone, Expel
  <1> QED
    BY <1>2, <1>3 DEF Expel

LEMMA SuspendKeeps ==
  ASSUME IInv
  PROVE  /\ Suspend("expelRoute", AfterExpulsion) => IInv'
         /\ Suspend("suspend", "block") => IInv'
  <1>1. ASSUME NEW from, NEW next \in Steps, Suspend(from, next)
        PROVE  /\ check.pc = from
               /\ check' \in Check /\ check'.pc = next /\ (next # "idle" => check'.safe = check.safe)
               /\ MeterInv' /\ faults' \in 0..MaxFaults
               /\ faults' = 0 => faults = 0 /\ present' = present \ {"routed"}
               /\ present' \in {present, present \ {"routed"}}
               /\ UNCHANGED <<user, config, requests>>
    BY <1>1, GotoType, CallType DEF IInv, LimitTypeOK, Suspend, Client
  <1>2. ASSUME Suspend("expelRoute", AfterExpulsion)
        PROVE  IInv'
    <2>1. AfterExpulsion \in {"drop", "idle"} /\ (AfterExpulsion = "drop" => check.safe)
      BY DEF AfterExpulsion
    <2> QED
      BY <1>1, <1>2, <2>1 DEF IInv, LimitTypeOK, Expelled, DroppedIsGone, Steps
  <1>3. ASSUME Suspend("suspend", "block")
        PROVE  IInv'
    BY <1>1, <1>3 DEF IInv, LimitTypeOK, Expelled, DroppedIsGone, Steps
  <1> QED
    BY <1>2, <1>3

LEMMA DropKeeps ==
  ASSUME IInv, Drop
  PROVE  IInv'
  <1>1. MeterInv'
    BY MeterStutters DEF IInv, Drop
  <1>2. check' \in Check /\ check'.pc = "idle" /\ UNCHANGED <<present, config, requests>>
    BY GotoType DEF IInv, LimitTypeOK, Drop, Steps, meter, node
  <1>3. "direct" \notin present
    BY DEF IInv, Expelled, Drop
  <1>4. CASE UNCHANGED user
    BY <1>1, <1>2, <1>4, FaultType DEF IInv, LimitTypeOK, Expelled, DroppedIsGone, Drop
  <1>5. CASE user' = [user EXCEPT !.pkg = FALSE, !.limit = Limit] /\ UNCHANGED faults
    <2>1. user' \in Account /\ user'.over = user.over
      BY <1>5 DEF IInv, LimitTypeOK, Account
    <2> QED
      BY <1>1, <1>2, <1>3, <1>5, <2>1 DEF IInv, LimitTypeOK, Expelled, DroppedIsGone, Drop
  <1> QED
    BY <1>4, <1>5 DEF Drop

LEMMA ResetCycleKeeps ==
  ASSUME IInv, Reset
  PROVE  IInv'
  <1>1. MeterInv'
    BY ResetKeeps, MeterStutters DEF IInv, Reset, meter
  <1>2. check' \in Check /\ check'.pc \in {"mark", "compare"} /\ UNCHANGED <<present, user, config, requests>>
    BY GotoType DEF IInv, LimitTypeOK, Reset, Steps, node
  <1>3. faults' \in 0..MaxFaults /\ (faults' = 0 => faults = 0)
    BY FaultType DEF IInv, LimitTypeOK, Reset
  <1> QED
    BY <1>1, <1>2, <1>3 DEF IInv, LimitTypeOK, Expelled, DroppedIsGone, Reset

LEMMA MarkKeeps ==
  ASSUME IInv, Mark
  PROVE  IInv'
  <1>1. MeterInv'
    BY MeterStutters DEF IInv, Mark
  <1>2. check' \in Check /\ check'.pc = "ask"
    BY GotoType DEF IInv, LimitTypeOK, Mark, Steps
  <1>3. user' \in Account /\ user'.pkg = user.pkg
    BY DEF IInv, LimitTypeOK, Mark, Account
  <1>4. faults' \in 0..MaxFaults /\ UNCHANGED <<present, config, requests>>
    BY FaultType DEF IInv, LimitTypeOK, Mark, meter, node
  <1> QED
    BY <1>1, <1>2, <1>3, <1>4 DEF IInv, LimitTypeOK, Expelled, DroppedIsGone

LEMMA AskKeeps ==
  ASSUME IInv, Ask
  PROVE  IInv'
  <1>1. MeterInv'
    BY MeterStutters DEF IInv, Ask
  <1>2. /\ check' \in Check /\ check'.pc \in {"restore", "compare"}
        /\ UNCHANGED <<present, user, config, requests>>
    BY DEF IInv, LimitTypeOK, Ask, Check, Steps, meter, node
  <1>3. faults' \in 0..MaxFaults
    BY FaultType DEF IInv, LimitTypeOK, Ask, WasOver
  <1> QED
    BY <1>1, <1>2, <1>3 DEF IInv, LimitTypeOK, Expelled, DroppedIsGone

LEMMA CompareKeeps ==
  ASSUME IInv, Compare
  PROVE  IInv'
  <1>1. MeterInv'
    BY MeterStutters DEF IInv, Compare
  <1>2. check' \in Check /\ check'.pc \in {"idle", "restore", "remove"}
    BY IdleType DEF IInv, LimitTypeOK, Compare, Check, Steps
  <1>3. faults' \in 0..MaxFaults /\ UNCHANGED <<present, user, config, requests>>
    BY FaultType DEF IInv, LimitTypeOK, Compare, WasOver, meter, node
  <1> QED
    BY <1>1, <1>2, <1>3 DEF IInv, LimitTypeOK, Expelled, DroppedIsGone

LEMMA RemoveKeeps ==
  ASSUME IInv, Remove
  PROVE  IInv'
  <1>1. check' \in Check /\ check'.pc = "suspend" /\ UNCHANGED <<user, config, requests>>
    BY GotoType DEF IInv, LimitTypeOK, Remove, Steps
  <1>2. CASE config /\ (Answered("direct", FALSE) \/ Unanswered("direct", FALSE))
    <2>1. /\ MeterInv' /\ faults' \in 0..MaxFaults
          /\ faults' = 0 => faults = 0 /\ present' = present \ {"direct"}
          /\ present' \in {present, present \ {"direct"}}
      BY <1>2, CallType DEF IInv, Remove, Client
    <2> QED
      BY <1>1, <2>1 DEF IInv, LimitTypeOK, Expelled, DroppedIsGone, Remove
  <1>3. CASE ~config /\ UNCHANGED <<present, counter, faults>>
    <2>1. MeterInv'
      BY <1>3, MeterStutters DEF IInv, Remove, meter, node, Charging
    <2> QED
      BY <1>1, <1>3, <2>1 DEF IInv, LimitTypeOK, Expelled, DroppedIsGone, Remove
  <1> QED
    BY <1>2, <1>3 DEF Remove

\* The flag is set after the clients went, and cleared after they came.
LEMMA SetOverKeeps ==
  ASSUME IInv
  PROVE  /\ SetOver("block", TRUE, "idle") => IInv'
         /\ SetOver("unblock", FALSE, check.then) => IInv'
  <1>1. ASSUME NEW from, NEW over \in BOOLEAN, NEW next \in {"idle", "compare"}, SetOver(from, over, next)
        PROVE  /\ check.pc = from
               /\ MeterInv' /\ check' \in Check /\ check'.pc = next
               /\ user' \in Account /\ user'.pkg = user.pkg
               /\ faults' \in 0..MaxFaults
               /\ faults' = 0 => faults = 0 /\ user'.over = over
               /\ UNCHANGED <<present, config, requests>>
    <2>1. MeterInv' /\ UNCHANGED <<present, config, requests>>
      BY <1>1, MeterStutters DEF IInv, SetOver, meter, node
    <2>2. check' \in Check /\ check'.pc = next /\ check.pc = from
      BY <1>1, GotoType DEF IInv, LimitTypeOK, SetOver, Steps
    <2>3. CASE user' = [user EXCEPT !.over = over] /\ UNCHANGED faults
      BY <2>1, <2>2, <2>3 DEF IInv, LimitTypeOK, Account
    <2>4. CASE Fault /\ UNCHANGED user
      BY <2>1, <2>2, <2>4, FaultType DEF IInv, LimitTypeOK
    <2> QED
      BY <1>1, <2>3, <2>4 DEF SetOver
  <1>2. ASSUME SetOver("block", TRUE, "idle")
        PROVE  IInv'
    <2>1. present \subseteq Client
      BY DEF IInv, MeterInv, MeterTypeOK
    <2> QED
      BY <1>1, <1>2, <2>1 DEF IInv, LimitTypeOK, Expelled, DroppedIsGone, Client
  <1>3. ASSUME SetOver("unblock", FALSE, check.then)
        PROVE  IInv'
    <2>1. check.then \in {"idle", "compare"}
      BY DEF IInv, LimitTypeOK, Check
    <2> QED
      BY <1>1, <1>3, <2>1 DEF IInv, LimitTypeOK, Expelled, DroppedIsGone
  <1> QED
    BY <1>2, <1>3

\* The package's client stays off: the flag is still set.
LEMMA RestoreKeeps ==
  ASSUME IInv, Restore
  PROVE  IInv'
  <1>1. check' \in Check /\ check'.pc = "resume" /\ UNCHANGED <<user, config, requests>>
    BY GotoType DEF IInv, LimitTypeOK, Restore, Steps
  <1>2. CASE config /\ HasAccess
    <2>1. /\ MeterInv' /\ faults' \in 0..MaxFaults
          /\ faults' = 0 => faults = 0
      BY <1>2, CallType DEF IInv, Restore, Client
    <2> QED
      BY <1>1, <1>2, <2>1 DEF IInv, LimitTypeOK, Expelled, DroppedIsGone, Restore, HasAccess
  <1>3. CASE ~(config /\ HasAccess)
    <2>1. UNCHANGED <<present, counter, faults>>
      BY <1>3 DEF Restore
    <2>2. MeterInv'
      BY <2>1, MeterStutters DEF IInv, Restore, meter, node, Charging
    <2> QED
      BY <1>1, <2>1, <2>2 DEF IInv, LimitTypeOK, Expelled, DroppedIsGone, Restore
  <1> QED
    BY <1>2, <1>3

LEMMA ResumeKeeps ==
  ASSUME IInv, Resume
  PROVE  IInv'
  <1>1. check' \in Check /\ check'.pc = "unblock" /\ UNCHANGED <<user, config, requests>>
    BY GotoType DEF IInv, LimitTypeOK, Resume, Steps
  <1>2. /\ MeterInv' /\ faults' \in 0..MaxFaults
        /\ faults' = 0 => faults = 0
        /\ present' \in {present, present \cup {"routed"}, present \ {"routed"}}
    <2>1. PICK on \in BOOLEAN : Answered("routed", on) \/ Unanswered("routed", on)
      BY DEF Resume
    <2> QED
      BY <2>1, CallType DEF IInv, Resume, Client
  <1> QED
    BY <1>1, <1>2 DEF IInv, LimitTypeOK, Expelled, DroppedIsGone, Resume

LEMMA EnforceKeeps ==
  ASSUME IInv, Enforce
  PROVE  IInv'
  BY ListKeeps, ExpelKeeps, SuspendKeeps, DropKeeps, ResetCycleKeeps, MarkKeeps, AskKeeps, CompareKeeps,
     RemoveKeeps, SetOverKeeps, RestoreKeeps, ResumeKeeps DEF Enforce

---------------------------------------------------------------------------
(* What goes on beside the pass *)

LEMMA MeterKeeps ==
  ASSUME IInv, Meter \/ MeterFault
  PROVE  IInv'
  <1>1. MeterInv' /\ UNCHANGED <<present, user, config, check, requests>>
    <2>1. CASE Meter
      <3>1. Collect
        BY <2>1 DEF Meter
      <3>2. UNCHANGED present
        BY <3>1 DEF Collect, Push, Receive, Pull, Fetch, Judge, Select, Update, XrayRestarts, Pass,
                    Heartbeat, node
      <3> QED
        BY <2>1, <3>1, <3>2, CollectKeeps DEF IInv, Meter, limits, bounds
    <2>2. CASE MeterFault
      BY <2>2, LoseKeeps DEF IInv, MeterFault, Lose, limits, node
    <2> QED
      BY <2>1, <2>2
  <1>2. faults' \in 0..MaxFaults /\ (faults' = 0 => faults = 0) /\ requests' \in 0..MaxRequests
    BY <1>1, FaultType DEF IInv, LimitTypeOK, Meter, MeterFault, bounds
  <1> QED
    BY <1>1, <1>2, AsideKeeps DEF IInv

LEMMA RequestKeeps ==
  ASSUME IInv,
         (\E l \in {0, Limit} : SetLimit(l)) \/ ManualReset \/ MonthTurns \/ PackageEnds
  PROVE  IInv'
  <1>1. MeterInv' /\ UNCHANGED present
    BY MeterStutters, ResetKeeps
       DEF IInv, SetLimit, ManualReset, MonthTurns, PackageEnds, meter, node
  <1>2. requests' \in 0..MaxRequests /\ UNCHANGED <<config, check, faults>>
    BY LimitAssumption
       DEF IInv, LimitTypeOK, SetLimit, ManualReset, MonthTurns, PackageEnds, Request
  <1>3. user' \in Account /\ user'.over = user.over /\ user'.pkg = user.pkg
    BY DEF IInv, LimitTypeOK, SetLimit, ManualReset, MonthTurns, PackageEnds, Account
  <1> QED
    BY <1>1, <1>2, <1>3 DEF IInv, LimitTypeOK, Expelled, DroppedIsGone

LEMMA PanelRestartsKeeps ==
  ASSUME IInv, PanelRestarts
  PROVE  IInv'
  <1>1. MeterInv'
    BY ForgetKeeps DEF IInv, PanelRestarts
  <1>2. faults' \in 0..MaxFaults /\ faults' # 0 /\ UNCHANGED <<present, user, config, requests>>
    BY FaultType DEF IInv, PanelRestarts, node
  <1> QED
    BY <1>1, <1>2, IdleType DEF IInv, LimitTypeOK, Expelled, DroppedIsGone, PanelRestarts

---------------------------------------------------------------------------
LEMMA Initially == Init => IInv
  <1> SUFFICES ASSUME Init PROVE IInv
    OBVIOUS
  <1>1. MeterTypeOK
    <2>1. 1 \in 1..MaxBoot /\ 0 \in 0..MaxBoot /\ 1 \in 0..MaxBoot
      BY MeterAssumption
    <2>2. row \in Row
      BY DEF Init, MeterInit, Row
    <2> QED
      BY <2>1, <2>2, NoReportType, TotalZero DEF Init, MeterInit, MeterTypeOK
  <1>2. Sound
    <2>1. Counted = {} /\ Open = {} /\ Waiting = {} /\ \A s \in Slot : ~report[s].late /\ report[s].stage = "none"
      BY DEF Init, MeterInit, NoReport, Counted, Open, Waiting
    <2>2. Ordered /\ Remembered /\ Selected
      BY <2>1 DEF Ordered, Remembered, Selected
    <2> DEFINE P == [s \in Slot |-> 0]
    <2>3. Reserved(P)
      BY <2>1, TotalZero DEF Init, MeterInit, Reserved, Charged, Owed, OwedBy, Above
    <2> QED
      BY <2>2, <2>3 DEF Sound
  <1>3. LimitTypeOK /\ Expelled
    BY LimitAssumption, IdleType DEF Init, LimitTypeOK, Expelled, DroppedIsGone, Account
  <1> QED
    BY <1>1, <1>2, <1>3 DEF IInv, MeterInv

LEMMA Stutter ==
  ASSUME IInv, UNCHANGED vars
  PROVE  IInv'
  <1>1. MeterInv'
    BY MeterStutters DEF IInv, vars
  <1>2. UNCHANGED <<present, user, config, check, requests, faults>>
    BY DEF vars, meter, node, limits, bounds
  <1> QED
    BY <1>1, <1>2 DEF IInv, LimitTypeOK, Expelled, DroppedIsGone

LEMMA Inductive == Spec => []IInv
  <1>1. IInv /\ [Next]_vars => IInv'
    BY MeterKeeps, EnforceKeeps, RequestKeeps, PanelRestartsKeeps, Stutter DEF Next
  <1> QED
    BY Initially, <1>1, PTL DEF Spec

---------------------------------------------------------------------------
(* The theorems *)

\* Every variable keeps its type.
THEOREM TypeCorrect == Spec => []TypeOK
  <1>1. IInv => TypeOK
    BY DEF IInv, MeterInv, LimitTypeOK, TypeOK
  <1> QED
    BY Inductive, <1>1, PTL

\* No user is charged for more than its clients have passed, however many reports
\* are in hand, as long as they are judged in the order they were counted, each
\* after the last was written and against its own start of Xray: the restarts of
\* Xray and of the panel, lost reports, clients that come and go with their
\* counters, and resets at any moment count nothing twice.
THEOREM ChargedOnce == Spec => []NeverOvercharged
  <1>1. IInv => NeverOvercharged
    <2> SUFFICES ASSUME MeterTypeOK, NEW P \in [Slot -> Nat], Reserved(P)
                 PROVE  row.used + cleared <= Total(passed)
      BY DEF IInv, MeterInv, Sound, NeverOvercharged
    <2>1. Charged + Owed(Total(counter), boot) <= Total(passed)
      BY DEF Reserved
    <2>2. Owed(Total(counter), boot) \in Nat /\ Charged \in Nat /\ Total(passed) \in Nat
      <3>1. Total(counter) \in Nat /\ boot \in Nat /\ 0 \in Nat
        BY Parts
      <3>2. Owed(Total(counter), boot) \in Nat
        BY <3>1, OwedBounds
      <3> QED
        BY <3>2, Parts DEF Charged
    <2> QED
      BY <2>1, <2>2 DEF Charged
  <1> QED
    BY Inductive, <1>1, PTL

\* A user whose package was taken has no client of it on the node, whatever calls
\* and statements failed on the way.
THEOREM DroppedLeavesNothing == Spec => []DroppedIsGone
  <1>1. IInv => DroppedIsGone
    BY DEF IInv, Expelled
  <1> QED
    BY Inductive, <1>1, PTL
=============================================================================
