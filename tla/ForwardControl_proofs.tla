----------------------- MODULE ForwardControl_proofs -----------------------
(***************************************************************************)
(* Proofs about ForwardControl, for every number of hops, every set of     *)
(* concurrent requests, and every bound.                                   *)
(***************************************************************************)
EXTENDS ForwardControl, TLAPS

---------------------------------------------------------------------------
(***************************************************************************)
(* The inductive invariant.                                                *)
(***************************************************************************)

RuleRecord == [desired : Desired, observed : Observed, reason : Reason,
               gen : 0..MaxGen, hgen : 0..MaxGen, applied : 0..MaxGen, held : BOOLEAN]

\* Where an operation is: before its leases are asked for, and after.
Working == {"wait", "mark", "call", "busy", "finish", "fail"}
Step == {"idle", "list", "set", "prepare", "reread"} \union Working
Calling == {"call", "busy"}

Operation == [step : Step, kind : Kind, call : {"none", "apply", "suspend", "remove"},
              seen : RuleRecord, hop : 0..N, hgen : 0..MaxGen, healthy : BOOLEAN,
              reason : Reason]

LateCall == [call : {"apply", "suspend", "remove", "appear"}, hop : Hop, gen : 0..MaxGen]

TypeInv ==
  /\ rule \in RuleRecord
  /\ op \in [Op -> Operation]
  /\ holder \in Op \union {NoOp}
  /\ phase \in [Hop -> Guard!Phase] /\ gen \in [Hop -> 0..MaxGen] /\ live \subseteq Hop
  /\ late \subseteq LateCall
  /\ cause \in Cause /\ requests \in 0..MaxRequest /\ faults \in 0..MaxFault

\* How the parts of an operation belong together at each of its steps.
Shape(rec) ==
  /\ rec.step \in {"set", "prepare", "reread"} \union Working => rec.kind # "none"
  /\ rec.step = "list" => rec.seen.desired # "none"
  /\ rec.step \in Working =>
       /\ rec.kind \in Deploys => rec.call \in {"apply", "suspend"}
       /\ rec.kind = "delete" => rec.call = "remove"
       /\ rec.kind \in {"suspend", "revoke", "retry"} => rec.call = "suspend" /\ rec.hop <= 1
  /\ rec.step \in {"wait", "mark"} =>
       IF rec.kind \in Deploys THEN rec.call = "apply" /\ rec.hop \in {0, N} ELSE rec.hop <= 1
  /\ rec.step = "mark" => rec.kind \in Deploys
  /\ rec.step \in Calling \union {"fail"} => rec.hop >= 1
  /\ rec.step = "finish" =>
       /\ rec.kind \in Deploys => rec.call = "apply" /\ rec.hop <= 1
       /\ rec.kind = "delete" => rec.hop \in {0, N}
       /\ rec.kind \in {"suspend", "revoke", "retry"} => rec.hop = 1
  /\ rec.step = "fail" => rec.kind # "suspend"

Shapes == \A o \in Op : Shape(op[o])

\* Past its wait an operation on hops holds the leases; without hops they are gone for good.
Leased(o) == op[o].step \in Working \ {"wait"} /\ op[o].hop # 0 => holder = o
Hopless(o) ==
  /\ op[o].step \in Working /\ op[o].hop = 0 => ~rule.held
  /\ op[o].step = "list" /\ ~op[o].seen.held => ~rule.held

Leases ==
  /\ \A o \in Op : Leased(o) /\ Hopless(o)
  /\ rule.desired = "none" => /\ rule.observed # "cleanup_pending" /\ rule.applied = 0
                              /\ \A o \in Op : op[o].step = "idle"

\* A guard that knows a resource has a generation of it, and a resource at rest no inbound.
Guards ==
  \A h \in Hop :
    /\ phase[h] = "none" <=> gen[h] = 0
    /\ phase[h] \in {"none", "parked", "gone"} => h \notin live

\* The hops behind h know generation g, or a newer one.
BehindAt(h, g) == \A j \in Hop : j > h => gen[j] >= g

\* A deployment that calls a hop has been to those behind it; so had the late ones.
Following(o) ==
  op[o].call = "apply" =>
    /\ op[o].step \in Calling => BehindAt(op[o].hop, op[o].hgen)
    /\ op[o].step = "busy" => gen[op[o].hop] >= op[o].hgen

EntryKnown == gen[1] > 0 => \A h \in Hop : gen[h] > 0

Order ==
  /\ EntryLast /\ EntryKnown
  /\ \A o \in Op : Following(o)
  /\ \A m \in late : m.call = "apply" => BehindAt(m.hop, m.gen)

\* The guard of the hop is removing it, or has: nothing brings it back.
Doomed(h) == phase[h] \in {"dooming", "gone"} /\ h \notin live

\* A deletion leaves doomed hops behind it, if the forward was ever deployed.
Releasing(o) ==
  op[o].kind = "delete" =>
    /\ op[o].step = "busy" => phase[op[o].hop] = "dooming"
    /\ rule.held /\ rule.applied > 0 =>
         /\ op[o].step \in Calling => \A j \in Hop : j < op[o].hop => Doomed(j)
         /\ op[o].step = "finish" => \A j \in Hop : Doomed(j)

\* Any other operation that is done with its call has found, or left, the entry known.
Found(o) ==
  op[o].step = "finish" /\ op[o].kind # "delete" /\ op[o].hop # 0 => phase[1] # "none"

Release ==
  /\ \A o \in Op : Releasing(o) /\ Found(o)
  /\ rule.held /\ rule.applied > 0 => phase[1] # "none"

\* Without a fault a deployment has exactly its own generation behind it.
Alone(o) ==
  op[o].call = "apply" =>
    /\ op[o].step \in Calling => \A j \in Hop : j > op[o].hop => gen[j] = op[o].hgen
    /\ op[o].step = "busy" => gen[op[o].hop] = op[o].hgen
    /\ op[o].step = "finish" /\ op[o].hop = 1 => \A j \in Hop : gen[j] = op[o].hgen

Together == faults = 0 => late = {} /\ \A o \in Op : Alone(o)

IInv == TypeInv /\ Shapes /\ Leases /\ Guards /\ Order /\ Release /\ Together

---------------------------------------------------------------------------
(* Hops, copies and the moves of an operation.                             *)

\* There is an entry and an exit; the reconciler is no request.
LEMMA HopFacts ==
  /\ N \in Nat /\ N >= 1 /\ 1 \in Hop /\ N \in Hop
  /\ \A h \in Hop : h \in Nat /\ h >= 1 /\ h <= N /\ h \in 0..N
  /\ NoOp \notin Op /\ reconciler \in Op /\ reconciler \notin Request
  BY ForwardAssumption DEF Hop, Op

\* An operation at rest is well formed.
LEMMA IdleShape == Idle \in Operation /\ Shape(Idle)
  BY HopFacts, ForwardAssumption
  DEF Idle, NoRule, Operation, RuleRecord, Desired, Observed, Reason, Cause, Step, Kind,
      Shape, Working, Calling

\* A request that sets the desired state starts well formed.
LEMMA SettingShape ==
  ASSUME NEW kind \in Kind \ {"none"}, NEW reason \in Reason
  PROVE  /\ Setting(kind, reason) \in Operation /\ Shape(Setting(kind, reason))
         /\ Setting(kind, reason).step = "set"
  <1>1. /\ Setting(kind, reason).step = "set" /\ Setting(kind, reason).kind = kind
        /\ Setting(kind, reason) \in Operation
    BY IdleShape DEF Setting, Idle, Operation, Step
  <1> QED
    BY <1>1 DEF Shape, Working, Calling

\* What an operation knows when it starts to wait, from the copy it has.
LEMMA WaitingShape ==
  ASSUME NEW kind \in Kind \ {"none"}, NEW f \in RuleRecord, NEW reason \in Reason
  PROVE  /\ Waiting(kind, f, reason) \in Operation /\ Shape(Waiting(kind, f, reason))
         /\ Waiting(kind, f, reason).step = "wait" /\ Waiting(kind, f, reason).kind = kind
         /\ Waiting(kind, f, reason).hop = 0 => ~f.held
  <1> DEFINE w == Waiting(kind, f, reason)
  <1>1. /\ w.step = "wait" /\ w.kind = kind /\ w.reason = reason /\ w.seen = NoRule
        /\ w.hgen = f.hgen
        /\ w.call = IF kind \in Deploys THEN "apply" ELSE IF kind = "delete" THEN "remove" ELSE "suspend"
        /\ w.hop = IF ~f.held THEN 0 ELSE IF kind \in Deploys THEN N ELSE 1
        /\ w.healthy \in BOOLEAN
    BY DEF Waiting, Deploys
  <1>2. w = [step |-> w.step, kind |-> w.kind, seen |-> w.seen, hgen |-> w.hgen,
             reason |-> w.reason, call |-> w.call, hop |-> w.hop, healthy |-> w.healthy]
    BY DEF Waiting
  <1>3. NoRule \in RuleRecord
    BY IdleShape DEF Idle, Operation
  <1>4. w.hop \in 0..N /\ f.hgen \in 0..MaxGen
    BY <1>1, HopFacts DEF RuleRecord
  <1> HIDE DEF w
  <1>5. w \in Operation
    BY <1>1, <1>2, <1>3, <1>4 DEF Operation, Step, Working
  <1>6. Shape(w)
    BY <1>1, <1>4, HopFacts DEF Shape, Working, Calling, Deploys, Kind
  <1>7. w.hop = 0 => ~f.held
    BY <1>1, HopFacts
  <1> QED
    BY <1>1, <1>5, <1>6, <1>7 DEF w

\* Where an operation goes after its guard acknowledged.
LEMMA Proceeds ==
  ASSUME NEW rec \in Operation, Shape(rec), rec.step \in Calling
  PROVE  /\ proceed(rec) \in Operation /\ Shape(proceed(rec))
         /\ proceed(rec).kind = rec.kind /\ proceed(rec).call = rec.call
         /\ proceed(rec).hgen = rec.hgen /\ proceed(rec).hop >= 1
         /\ proceed(rec).step \in {"call", "finish", "fail"}
         /\ proceed(rec).step = "call" /\ rec.call = "apply" => proceed(rec).hop = rec.hop - 1
         /\ proceed(rec).step = "call" /\ rec.kind = "delete" => proceed(rec).hop = rec.hop + 1
         /\ proceed(rec).step = "finish" => proceed(rec).hop = rec.hop
         /\ proceed(rec).step = "finish" /\ rec.call = "apply" => rec.hop = 1
         /\ proceed(rec).step = "finish" /\ rec.kind = "delete" => rec.hop = N
         /\ proceed(rec).step = "finish" /\ rec.kind # "delete" => rec.hop = 1
  <1>1. /\ rec.hop \in Hop /\ rec.kind \in Kind \ {"none"}
        /\ rec.kind \in Deploys => rec.call \in {"apply", "suspend"}
        /\ rec.kind = "delete" => rec.call = "remove"
        /\ rec.kind \in {"suspend", "revoke", "retry"} => rec.call = "suspend" /\ rec.hop = 1
    BY HopFacts DEF Operation, Shape, Calling, Working, Hop
  <1>0. N \in Nat /\ N >= 1 /\ rec.hop \in Nat /\ rec.hop >= 1 /\ rec.hop <= N
    BY <1>1, HopFacts
  <1>2. CASE rec.call = "apply"
    <2>1. rec.kind \in Deploys
      BY <1>1, <1>2 DEF Kind, Deploys
    <2>2. CASE rec.hop = 1
      <3>1. proceed(rec) = [rec EXCEPT !.step = "finish"]
        BY <1>2, <2>1, <2>2 DEF proceed, Deploys
      <3> QED
        BY <3>1, <2>1, <2>2, <1>2, HopFacts DEF Operation, Shape, Step, Working, Calling, Deploys
    <2>3. CASE rec.hop # 1
      <3>1. proceed(rec) = [rec EXCEPT !.step = "call", !.hop = rec.hop - 1]
        BY <1>2, <2>1, <2>3 DEF proceed, Deploys
      <3>2. rec.hop - 1 \in 0..N /\ rec.hop - 1 >= 1
        BY <1>0, <2>3
      <3> QED
        BY <3>1, <3>2, <2>1, <1>2 DEF Operation, Shape, Step, Working, Calling, Deploys
    <2> QED
      BY <2>2, <2>3
  <1>3. CASE rec.kind \in Deploys /\ rec.call = "suspend"
    <2>1. CASE rec.hop = N
      <3>1. proceed(rec) = [rec EXCEPT !.step = "fail"]
        BY <1>3, <2>1 DEF proceed, Deploys
      <3> QED
        BY <3>1, <1>1, <1>3, HopFacts DEF Operation, Shape, Step, Working, Calling, Deploys
    <2>2. CASE rec.hop # N
      <3>1. proceed(rec) = [rec EXCEPT !.step = "call", !.hop = rec.hop + 1]
        BY <1>3, <2>2 DEF proceed, Deploys
      <3>2. rec.hop + 1 \in 0..N /\ rec.hop + 1 >= 1
        BY <1>0, <2>2
      <3> QED
        BY <3>1, <3>2, <1>3 DEF Operation, Shape, Step, Working, Calling, Deploys
    <2> QED
      BY <2>1, <2>2
  <1>4. CASE rec.kind = "delete"
    <2>0. rec.call = "remove" /\ rec.kind \notin Deploys
      BY <1>1, <1>4 DEF Deploys
    <2>1. CASE rec.hop = N
      <3>1. proceed(rec) = [rec EXCEPT !.step = "finish"]
        BY <1>4, <2>0, <2>1 DEF proceed
      <3> QED
        BY <3>1, <2>0, <2>1, <1>1, <1>4, HopFacts DEF Operation, Shape, Step, Working, Calling
    <2>2. CASE rec.hop # N
      <3>1. proceed(rec) = [rec EXCEPT !.step = "call", !.hop = rec.hop + 1]
        BY <1>4, <2>0, <2>2 DEF proceed
      <3>2. rec.hop + 1 \in 0..N /\ rec.hop + 1 >= 1
        BY <1>0, <2>2
      <3> QED
        BY <3>1, <3>2, <1>4, <2>0 DEF Operation, Shape, Step, Working, Calling
    <2> QED
      BY <2>1, <2>2
  <1>5. CASE rec.kind \in {"suspend", "revoke", "retry"}
    <2>1. rec.call = "suspend" /\ rec.hop = 1 /\ rec.kind \notin Deploys
      BY <1>1, <1>5 DEF Deploys
    <2>2. proceed(rec) = [rec EXCEPT !.step = "finish"]
      BY <1>5, <2>1 DEF proceed
    <2> QED
      BY <2>1, <2>2, <1>5 DEF Operation, Shape, Step, Working, Calling
  <1> QED
    BY <1>1, <1>2, <1>3, <1>4, <1>5 DEF Kind, Deploys

\* Where it goes when the guard did not: never on to another apply.
LEMMA GivesUp ==
  ASSUME NEW rec \in Operation, Shape(rec), rec.step \in Calling, rec.kind # "suspend"
  PROVE  /\ giveUp(rec) \in Operation /\ Shape(giveUp(rec))
         /\ giveUp(rec).kind = rec.kind /\ giveUp(rec).hop >= 1
         /\ giveUp(rec).step \in {"call", "fail"}
         /\ giveUp(rec).step = "call" => giveUp(rec).call = "suspend" /\ rec.kind # "delete"
  <1>1. /\ rec.hop \in Hop /\ rec.kind \in Kind \ {"none"}
        /\ rec.kind \in Deploys => rec.call \in {"apply", "suspend"}
        /\ rec.kind = "delete" => rec.call = "remove"
        /\ rec.kind \in {"suspend", "revoke", "retry"} => rec.call = "suspend" /\ rec.hop = 1
    BY HopFacts DEF Operation, Shape, Calling, Working, Hop
  <1>0. N \in Nat /\ N >= 1 /\ rec.hop \in Nat /\ rec.hop >= 1 /\ rec.hop <= N
    BY <1>1, HopFacts
  <1>2. CASE rec.call = "apply" /\ rec.hop < N
    <2>1. giveUp(rec) = [rec EXCEPT !.step = "call", !.call = "suspend", !.hop = rec.hop + 1]
      BY <1>2 DEF giveUp
    <2>2. rec.hop + 1 \in 0..N /\ rec.hop + 1 >= 1
      BY <1>0, <1>2
    <2>3. rec.kind \in Deploys
      BY <1>1, <1>2 DEF Kind, Deploys
    <2> QED
      BY <2>1, <2>2, <2>3 DEF Operation, Shape, Step, Working, Calling, Deploys
  <1>3. CASE rec.kind \in Deploys /\ rec.call = "suspend"
    <2>1. giveUp(rec) = proceed(rec)
      BY <1>3 DEF giveUp
    <2>2. proceed(rec).step # "finish"
      BY <1>3 DEF proceed, Deploys
    <2> QED
      BY <2>1, <2>2, <1>3, Proceeds DEF Deploys
  <1>4. CASE ~(rec.call = "apply" /\ rec.hop < N) /\ ~(rec.kind \in Deploys /\ rec.call = "suspend")
    <2>1. giveUp(rec) = [rec EXCEPT !.step = "fail"]
      BY <1>4 DEF giveUp
    <2> QED
      BY <2>1, <1>1, HopFacts DEF Operation, Shape, Step, Working, Calling
  <1> QED
    BY <1>2, <1>3, <1>4

---------------------------------------------------------------------------
(* The guards, one move of one of them at a time.                          *)

Moves(h) ==
  \/ \E g \in 0..MaxGen : Guard!Serve(h, g) \/ Guard!Close(h, g) \/ Guard!Doom(h, g)
  \/ Guard!Rest(h) \/ Guard!Appear(h) \/ Guard!Vanish(h)

\* A hop whose guard was not the one that moved.
Untouched(h) == phase'[h] = phase[h] /\ gen'[h] = gen[h] /\ (h \in live' <=> h \in live)

\* Generations only grow, a resource once known stays known, a doomed one stays doomed.
Onward(h) ==
  /\ gen'[h] >= gen[h]
  /\ phase[h] # "none" => phase'[h] # "none"
  /\ Doomed(h) => Doomed(h)'

\* A move of one guard keeps what is known of guards, takes no generation back, and leaves the others alone.
LEMMA MoveFacts ==
  ASSUME TypeInv, Guards, NEW h \in Hop, Moves(h)
  PROVE  /\ phase' \in [Hop -> Guard!Phase] /\ gen' \in [Hop -> 0..MaxGen] /\ live' \subseteq Hop
         /\ Guards'
         /\ \A j \in Hop : Onward(j) /\ (j # h => Untouched(j))
  <1>1. /\ phase \in [Hop -> Guard!Phase] /\ gen \in [Hop -> 0..MaxGen] /\ live \subseteq Hop
        /\ \A j \in Hop : gen[j] \in Nat
    BY ForwardAssumption DEF TypeInv
  <1>2. CASE \E g \in 0..MaxGen : Guard!Serve(h, g) \/ Guard!Close(h, g) \/ Guard!Doom(h, g)
    <2>1. PICK g \in 0..MaxGen : Guard!Serve(h, g) \/ Guard!Close(h, g) \/ Guard!Doom(h, g)
      BY <1>2
    <2>2. PICK p \in {"serving", "closing", "dooming"} :
            /\ Guard!To(h, p, g) /\ g >= gen[h] /\ g > 0
            /\ p # "dooming" => phase[h] \notin {"dooming", "gone"}
      <3>1. CASE Guard!Serve(h, g)
        BY <3>1, <1>1, ForwardAssumption DEF Guard!Serve
      <3>2. CASE Guard!Close(h, g)
        BY <3>2, <1>1, ForwardAssumption DEF Guard!Close, Guards
      <3>3. CASE Guard!Doom(h, g)
        BY <3>3, <1>1, ForwardAssumption DEF Guard!Doom, Guards
      <3> QED
        BY <2>1, <3>1, <3>2, <3>3
    <2>3. phase' = [phase EXCEPT ![h] = p] /\ gen' = [gen EXCEPT ![h] = g] /\ live' = live
      BY <2>2 DEF Guard!To
    <2>4. phase' \in [Hop -> Guard!Phase] /\ gen' \in [Hop -> 0..MaxGen] /\ live' \subseteq Hop
      BY <1>1, <2>3 DEF Guard!Phase
    <2>5. phase'[h] = p /\ gen'[h] = g /\ \A j \in Hop : j # h => Untouched(j)
      BY <1>1, <2>3 DEF Untouched
    <2>6. Guards'
      BY <1>1, <2>2, <2>3, <2>5 DEF Guards, Untouched
    <2>7. ASSUME NEW j \in Hop
          PROVE  Onward(j)
      BY <1>1, <2>2, <2>3, <2>5 DEF Onward, Untouched, Doomed
    <2> QED
      BY <2>4, <2>5, <2>6, <2>7
  <1>3. CASE Guard!Rest(h)
    <2>1. PICK p \in {"parked", "gone"} :
            /\ Guard!To(h, p, gen[h]) /\ h \notin live /\ phase[h] # "none"
            /\ p = "parked" => phase[h] \notin {"dooming", "gone"}
      BY <1>3 DEF Guard!Rest
    <2>2. phase' = [phase EXCEPT ![h] = p] /\ gen' = [gen EXCEPT ![h] = gen[h]] /\ live' = live
      BY <2>1 DEF Guard!To
    <2>3. phase' \in [Hop -> Guard!Phase] /\ gen' \in [Hop -> 0..MaxGen] /\ live' \subseteq Hop
      BY <1>1, <2>2 DEF Guard!Phase
    <2>4. phase'[h] = p /\ gen'[h] = gen[h] /\ \A j \in Hop : j # h => Untouched(j)
      BY <1>1, <2>2 DEF Untouched
    <2>5. Guards'
      BY <1>1, <2>1, <2>2, <2>4 DEF Guards, Untouched
    <2>6. ASSUME NEW j \in Hop
          PROVE  Onward(j)
      BY <1>1, <2>1, <2>2, <2>4 DEF Onward, Untouched, Doomed
    <2> QED
      BY <2>3, <2>4, <2>5, <2>6
  <1>4. CASE Guard!Appear(h) \/ Guard!Vanish(h)
    <2>1. /\ phase' = phase /\ gen' = gen
          /\ live' = live \ {h} \/ (live' = live \union {h} /\ phase[h] = "serving")
      BY <1>4 DEF Guard!Appear, Guard!Vanish
    <2>2. Guards' /\ live' \subseteq Hop
      BY <1>1, <2>1 DEF Guards
    <2>3. ASSUME NEW j \in Hop
          PROVE  Onward(j) /\ (j # h => Untouched(j))
      BY <1>1, <2>1 DEF Onward, Untouched, Doomed
    <2> QED
      BY <1>1, <2>1, <2>2, <2>3
  <1> QED
    BY <1>2, <1>3, <1>4 DEF Moves

\* Guards that do not move stay as they are.
LEMMA StillFacts ==
  ASSUME TypeInv, Guards, UNCHANGED guards
  PROVE  /\ phase' \in [Hop -> Guard!Phase] /\ gen' \in [Hop -> 0..MaxGen] /\ live' \subseteq Hop
         /\ Guards'
         /\ \A j \in Hop : Onward(j) /\ Untouched(j)
  <1>1. \A j \in Hop : gen[j] \in Nat
    BY ForwardAssumption DEF TypeInv
  <1> QED
    BY <1>1 DEF TypeInv, Guards, guards, Onward, Untouched, Doomed

---------------------------------------------------------------------------
(* Types and shapes. *)

\* One operation takes a step.
LEMMA BecomeType ==
  ASSUME TypeInv, Shapes, NEW o \in Op, NEW rec \in Operation, Shape(rec), Become(o, rec)
  PROVE  /\ op' \in [Op -> Operation] /\ Shapes' /\ op'[o] = rec
         /\ \A p \in Op : p # o => op'[p] = op[p]
  BY DEF TypeInv, Shapes, Become

\* An operation that ends gives up its leases and nothing else.
LEMMA EndType ==
  ASSUME TypeInv, Shapes, NEW o \in Op, End(o)
  PROVE  /\ op' \in [Op -> Operation] /\ Shapes' /\ op'[o] = Idle
         /\ \A p \in Op : p # o => op'[p] = op[p]
         /\ holder' \in Op \union {NoOp}
         /\ \A p \in Op : p # o /\ holder = p => holder' = p
  <1>1. Become(o, Idle) /\ holder' = IF holder = o THEN NoOp ELSE holder
    BY DEF End
  <1> QED
    BY <1>1, BecomeType, IdleShape DEF TypeInv

\* An operation past its leases points at a hop and a generation.
LEMMA OpType ==
  ASSUME TypeInv, Shapes, NEW o \in Op
  PROVE  /\ op[o] \in Operation /\ Shape(op[o])
         /\ op[o].step \in Calling \union {"fail"} => op[o].hop \in Hop
         /\ op[o].hgen \in 0..MaxGen /\ op[o].hgen \in Nat
  <1>1. op[o] \in Operation /\ Shape(op[o])
    BY DEF TypeInv, Shapes
  <1>2. op[o].hop \in 0..N /\ op[o].hgen \in 0..MaxGen
    BY <1>1 DEF Operation
  <1>3. op[o].step \in Calling \union {"fail"} => op[o].hop >= 1
    BY <1>1 DEF Shape
  <1> QED
    BY <1>1, <1>2, <1>3, HopFacts, ForwardAssumption DEF Hop

\* A call that fails ends its operation, or takes it back.
LEMMA FailsType ==
  ASSUME TypeInv, Shapes, NEW o \in Op, op[o].step \in Calling, Fails(o)
  PROVE  /\ op' \in [Op -> Operation] /\ Shapes'
         /\ \A p \in Op : p # o => op'[p] = op[p]
         /\ holder' \in Op \union {NoOp}
         /\ \A p \in Op : p # o /\ holder = p => holder' = p
         /\ \/ op'[o] = Idle
            \/ /\ op'[o].step \in {"call", "fail"} /\ op'[o].hop >= 1 /\ holder' = holder
               /\ op'[o].kind = op[o].kind
               /\ op'[o].step = "call" => op'[o].call = "suspend" /\ op[o].kind # "delete"
  <1>1. CASE End(o)
    BY <1>1, EndType
  <1>2. CASE op[o].kind # "suspend" /\ Become(o, giveUp(op[o])) /\ UNCHANGED holder
    <2>1. op[o] \in Operation /\ Shape(op[o])
      BY OpType
    <2> QED
      BY <1>2, <2>1, GivesUp, BecomeType DEF TypeInv
  <1> QED
    BY <1>1, <1>2 DEF Fails

\* A well-formed operation that begins leaves all well formed.
LEMMA BeginType ==
  ASSUME TypeInv, Shapes, NEW o \in Op, NEW rec \in Operation, Shape(rec), Begin(o, rec),
         rule' \in RuleRecord, holder' \in Op \union {NoOp}
  PROVE  TypeInv' /\ Shapes'
  <1>1. requests' \in 0..MaxRequest
    <2>1. requests \in 0..MaxRequest /\ requests < MaxRequest /\ requests' = requests + 1
      BY DEF TypeInv, Begin
    <2> QED
      BY <2>1, ForwardAssumption
  <1>2. op' \in [Op -> Operation] /\ Shapes'
    BY BecomeType DEF Begin
  <1> QED
    BY <1>1, <1>2 DEF TypeInv, Begin, guards

\* A creation starts at the mark, with its leases.
LEMMA CreateShape ==
  ASSUME NEW f \in RuleRecord, f.held
  PROVE  /\ [Waiting("create", f, "none") EXCEPT !.step = "mark"] \in Operation
         /\ Shape([Waiting("create", f, "none") EXCEPT !.step = "mark"])
  <1> DEFINE w == Waiting("create", f, "none")
  <1>1. w \in Operation /\ Shape(w) /\ w.step = "wait" /\ w.kind = "create"
    BY WaitingShape DEF Kind, Reason, Cause
  <1> HIDE DEF w
  <1> QED
    BY <1>1 DEF Operation, Shape, Step, Working, Calling, Deploys, w

\* Requests keep types and shapes.
LEMMA RequestType ==
  ASSUME TypeInv, Shapes, NEW o \in Request, Arrive(o)
  PROVE  TypeInv' /\ Shapes'
  <1>0. o \in Op /\ rule \in RuleRecord /\ holder \in Op \union {NoOp}
    BY DEF Op, TypeInv
  <1>1. CASE CreateUserForward(o)
    <2>1. rule' \in RuleRecord /\ rule'.held
      <3>1. rule' = [NoRule EXCEPT !.desired = "active", !.gen = 1, !.hgen = 1, !.held = TRUE]
        BY <1>1 DEF CreateUserForward
      <3>2. 1 \in 0..MaxGen
        BY ForwardAssumption
      <3> QED
        BY <3>1, <3>2, IdleShape DEF NoRule, Idle, Operation, RuleRecord, Desired
    <2> QED
      BY <1>0, <1>1, <2>1, BeginType, CreateShape DEF CreateUserForward
  <1>2. CASE HandleForwardItem(o) \/ HandleGrantAction(o)
    <2>1. UNCHANGED <<rule, holder>>
      BY <1>2 DEF HandleForwardItem, HandleGrantAction
    <2>2. PICK rec \in {Setting("suspend", "user_disabled"), Setting("resume", "none"),
                        Setting("delete", "none"), Waiting("delete", rule, "none"),
                        Setting("revoke", "grant_inactive"), Waiting("renew", rule, "none"),
                        Setting("apply", "none")} : Begin(o, rec)
      BY <1>2 DEF HandleForwardItem, HandleGrantAction
    <2>3. rec \in Operation /\ Shape(rec)
      BY <1>0, <2>2, SettingShape, WaitingShape DEF Kind, Reason, Cause
    <2> QED
      BY <1>0, <2>1, <2>2, <2>3, BeginType
  <1> QED
    BY <1>1, <1>2 DEF Arrive

\* What the reconciler decides about its copy is a well-formed operation.
LEMMA DecisionShape ==
  ASSUME NEW f \in RuleRecord, f.desired # "none", cause \in Cause
  PROVE  /\ decision(f) \in Operation /\ Shape(decision(f))
         /\ decision(f).step \in {"idle", "set", "wait"}
         /\ decision(f).step = "wait" /\ decision(f).hop = 0 => ~f.held
  <1>1. Idle.step = "idle"
    BY DEF Idle
  <1>2. CASE f.desired = "deleted"
    BY <1>2, WaitingShape DEF decision, Kind, Reason, Cause
  <1>3. CASE f.desired = "inactive"
    BY <1>1, <1>3, WaitingShape, IdleShape DEF decision, retryInactive, Kind, Reason, Cause
  <1>4. CASE f.desired = "active" /\ cause # "none"
    <2>1. decision(f) \in {Idle, Setting("revoke", cause)}
      BY <1>4 DEF decision, revokeUnusable
    <2> QED
      BY <1>1, <2>1, IdleShape, SettingShape DEF Kind, Reason
  <1>5. CASE f.desired = "active" /\ cause = "none"
    <2>1. decision(f) \in {Waiting("renew", f, "none"), Setting("apply", "none")}
      BY <1>5 DEF decision, renewOrApply
    <2> QED
      BY <2>1, SettingShape, WaitingShape DEF Kind, Reason, Cause
  <1> QED
    BY <1>2, <1>3, <1>4, <1>5 DEF RuleRecord, Desired

\* The row with a new desired or observed state, a new generation or none.
LEMMA RuleWritten ==
  ASSUME TypeInv, NEW d \in Desired, NEW b \in Observed, NEW r \in Reason,
         NEW g \in 0..MaxGen, NEW hg \in 0..MaxGen, NEW a \in 0..MaxGen, NEW k \in BOOLEAN
  PROVE  [desired |-> d, observed |-> b, reason |-> r, gen |-> g, hgen |-> hg,
          applied |-> a, held |-> k] \in RuleRecord
  BY DEF RuleRecord

\* The two ways to write the desired state keep types and shapes.
LEMMA WriteType ==
  ASSUME TypeInv, Shapes, NEW o \in Op,
         SetUserForwardDesired(o) \/ PrepareWrites(o)
  PROVE  TypeInv' /\ Shapes' /\ op'[o].step = "reread"
  <1>1. rule \in RuleRecord /\ op[o] \in Operation /\ Shape(op[o])
    BY OpType DEF TypeInv
  <1>2. /\ rule.gen < MaxGen /\ rule.hgen < MaxGen
        /\ Become(o, [op[o] EXCEPT !.step = "reread"]) /\ op[o].step \in {"set", "prepare"}
        /\ UNCHANGED <<holder, guards, cause, late, requests, faults>>
    BY DEF SetUserForwardDesired, PrepareWrites
  <1>3. rule.gen + 1 \in 0..MaxGen /\ rule.hgen + 1 \in 0..MaxGen
    BY <1>1, <1>2, ForwardAssumption DEF RuleRecord
  <1>4. op[o].reason \in Reason
    BY <1>1 DEF Operation
  <1>5. rule' \in RuleRecord
    <2>1. CASE SetUserForwardDesired(o)
      BY <1>1, <1>3, <1>4, <2>1 DEF SetUserForwardDesired, RuleRecord, Desired, Observed
    <2>2. CASE PrepareWrites(o)
      BY <1>1, <1>3, <1>4, <2>2 DEF PrepareWrites, RuleRecord, Observed
    <2> QED
      BY <2>1, <2>2
  <1>6. [op[o] EXCEPT !.step = "reread"] \in Operation /\ Shape([op[o] EXCEPT !.step = "reread"])
    BY <1>1, <1>2 DEF Operation, Step, Shape, Working, Calling
  <1>7. op' \in [Op -> Operation] /\ Shapes' /\ op'[o].step = "reread"
    BY <1>1, <1>2, <1>6, BecomeType DEF Operation
  <1> QED
    BY <1>2, <1>5, <1>7 DEF TypeInv, guards

\* So do the steps of the preparation that only read or refuse.
LEMMA PrepareType ==
  ASSUME TypeInv, Shapes, NEW o \in Op,
         PrepareRefused(o) \/ PrepareReads(o) \/ GetUserForward(o)
  PROVE  TypeInv' /\ Shapes'
  <1>1. rule \in RuleRecord /\ op[o] \in Operation /\ Shape(op[o])
    BY OpType DEF TypeInv
  <1>2. CASE PrepareRefused(o)
    BY <1>2, EndType DEF PrepareRefused, TypeInv, guards
  <1>3. CASE PrepareReads(o)
    <2>1. [op[o] EXCEPT !.step = "prepare"] \in Operation
          /\ Shape([op[o] EXCEPT !.step = "prepare"])
      BY <1>1, <1>3 DEF PrepareReads, Operation, Step, Shape, Working, Calling
    <2> QED
      BY <1>3, <2>1, BecomeType DEF PrepareReads, TypeInv, guards
  <1>4. CASE GetUserForward(o)
    <2>1. op[o].kind \in Kind \ {"none"} /\ op[o].reason \in Reason
      BY <1>1, <1>4 DEF GetUserForward, Operation, Shape
    <2>2. /\ Waiting(op[o].kind, rule, op[o].reason) \in Operation
          /\ Shape(Waiting(op[o].kind, rule, op[o].reason))
      BY <1>1, <2>1, WaitingShape
    <2> QED
      BY <1>4, <2>2, BecomeType DEF GetUserForward, TypeInv, guards
  <1> QED
    BY <1>2, <1>3, <1>4

\* Getting the leases, and the mark that follows.
Acquired(rec) ==
  [rec EXCEPT !.step = IF rec.kind \in Deploys THEN "mark" ELSE IF rec.hop = 0 THEN "finish" ELSE "call"]

Marked(rec) == [rec EXCEPT !.step = IF rec.hop = 0 THEN "finish" ELSE "call"]

\* An operation that got its leases stays well formed and is about the same call.
LEMMA AcquiredShape ==
  ASSUME NEW rec \in Operation, Shape(rec), rec.step = "wait", rec.hop = 0 => rec.call # "suspend"
  PROVE  /\ Acquired(rec) \in Operation /\ Shape(Acquired(rec))
         /\ Acquired(rec).kind = rec.kind /\ Acquired(rec).call = rec.call
         /\ Acquired(rec).hop = rec.hop /\ Acquired(rec).hgen = rec.hgen
         /\ Acquired(rec).step \in {"mark", "call", "finish"}
         /\ Acquired(rec).step # "mark" => rec.call # "apply"
         /\ Acquired(rec).step = "call" => rec.hop = 1
         /\ Acquired(rec).step = "finish" => rec.hop = 0 /\ rec.kind = "delete"
  <1>1. /\ rec.kind \in Kind \ {"none"} /\ rec.hop \in Nat
        /\ rec.kind \notin Deploys => rec.hop \in {0, 1} /\ rec.call # "apply"
        /\ rec.kind \notin Deploys /\ rec.hop = 0 => rec.kind = "delete"
        /\ rec.kind \in Deploys => rec.call = "apply" /\ rec.hop \in {0, N}
        /\ rec.kind = "delete" => rec.call = "remove"
        /\ rec.kind \in {"suspend", "revoke", "retry"} => rec.call = "suspend" /\ rec.hop = 1
    BY HopFacts DEF Operation, Shape, Working, Kind, Deploys
  <1>2. CASE rec.kind \in Deploys
    <2>1. Acquired(rec) = [rec EXCEPT !.step = "mark"]
      BY <1>2 DEF Acquired
    <2> QED
      BY <1>1, <1>2, <2>1 DEF Operation, Shape, Step, Working, Calling, Deploys
  <1>3. CASE rec.kind \notin Deploys /\ rec.hop = 0
    <2>1. Acquired(rec) = [rec EXCEPT !.step = "finish"]
      BY <1>3 DEF Acquired
    <2> QED
      BY <1>1, <1>3, <2>1 DEF Operation, Shape, Step, Working, Calling, Deploys
  <1>4. CASE rec.kind \notin Deploys /\ rec.hop # 0
    <2>1. Acquired(rec) = [rec EXCEPT !.step = "call"]
      BY <1>4 DEF Acquired
    <2> QED
      BY <1>1, <1>4, <2>1 DEF Operation, Shape, Step, Working, Calling, Deploys
  <1> QED
    BY <1>2, <1>3, <1>4

\* So does a deployment that marked the row.
LEMMA MarkedShape ==
  ASSUME NEW rec \in Operation, Shape(rec), rec.step = "mark"
  PROVE  /\ Marked(rec) \in Operation /\ Shape(Marked(rec))
         /\ Marked(rec).kind = rec.kind /\ Marked(rec).call = "apply" /\ rec.kind \in Deploys
         /\ Marked(rec).hop = rec.hop /\ Marked(rec).hgen = rec.hgen
         /\ Marked(rec).step \in {"call", "finish"}
         /\ Marked(rec).step = "call" => rec.hop = N
         /\ Marked(rec).step = "finish" => rec.hop = 0
  <1>1. /\ rec.kind \in Deploys /\ rec.call = "apply" /\ rec.hop \in {0, N} /\ rec.hop \in Nat
        /\ rec.kind \notin {"delete", "suspend", "revoke", "retry"}
    BY HopFacts DEF Operation, Shape, Working, Deploys
  <1>2. CASE rec.hop = 0
    <2>1. Marked(rec) = [rec EXCEPT !.step = "finish"]
      BY <1>2 DEF Marked
    <2> QED
      BY <1>1, <1>2, <2>1 DEF Operation, Shape, Step, Working, Calling
  <1>3. CASE rec.hop # 0
    <2>1. Marked(rec) = [rec EXCEPT !.step = "call"]
      BY <1>3 DEF Marked
    <2>2. rec.hop >= 1
      BY <1>1, <1>3
    <2> QED
      BY <1>1, <1>3, <2>1, <2>2 DEF Operation, Shape, Step, Working, Calling
  <1> QED
    BY <1>2, <1>3

\* The steps around the leases keep types and shapes.
LEMMA LeaseType ==
  ASSUME TypeInv, Shapes, NEW o \in Op,
         AcquireForwardLeases(o) \/ NoEntry(o) \/ MarkProvisioning(o)
  PROVE  TypeInv' /\ Shapes'
  <1>1. rule \in RuleRecord /\ op[o] \in Operation /\ Shape(op[o]) /\ holder \in Op \union {NoOp}
    BY OpType DEF TypeInv
  <1>2. CASE AcquireForwardLeases(o)
    <2>1. /\ Become(o, Acquired(op[o])) /\ holder' \in {holder, o}
          /\ op[o].step = "wait" /\ (op[o].hop = 0 => op[o].call # "suspend")
          /\ UNCHANGED <<rule, guards, cause, late, requests, faults>>
      BY <1>2 DEF AcquireForwardLeases, Acquired
    <2> QED
      BY <1>1, <2>1, AcquiredShape, BecomeType DEF TypeInv, guards
  <1>3. CASE NoEntry(o)
    <2>1. UNCHANGED <<rule, guards, cause, late, requests, faults>>
      BY <1>3 DEF NoEntry
    <2>2. CASE o = reconciler
      <3>1. op' = [p \in Op |-> Idle] /\ holder' = NoOp
        BY <1>3, <2>2 DEF NoEntry
      <3> QED
        BY <2>1, <3>1, IdleShape DEF TypeInv, Shapes, guards
    <2>3. CASE o # reconciler
      BY <1>3, <2>1, <2>3, EndType DEF NoEntry, TypeInv, guards
    <2> QED
      BY <2>2, <2>3
  <1>4. CASE MarkProvisioning(o)
    <2>1. /\ Become(o, Marked(op[o])) /\ op[o].step = "mark"
          /\ rule' \in {rule, [rule EXCEPT !.observed = "provisioning"]}
          /\ UNCHANGED <<holder, guards, cause, late, requests, faults>>
      BY <1>4 DEF MarkProvisioning, Marked
    <2>2. rule' \in RuleRecord
      BY <1>1, <2>1 DEF RuleRecord, Observed
    <2> QED
      BY <1>1, <2>1, <2>2, MarkedShape, BecomeType DEF TypeInv, guards
  <1> QED
    BY <1>2, <1>3, <1>4

\* What the guard of a call does is one of its moves.
LEMMA CallMoves ==
  ASSUME NEW call \in {"apply", "suspend", "remove"}, NEW h \in Hop, NEW g \in 0..MaxGen,
         accept(call, h, g)
  PROVE  /\ Moves(h)
         /\ call = "apply" => Guard!Serve(h, g)
         /\ call = "suspend" => Guard!Close(h, g)
         /\ call = "remove" => Guard!Doom(h, g)
  BY DEF accept, Moves

\* The steps of a call.
LEMMA RepeatType ==
  ASSUME TypeInv, Shapes, NEW o \in Op, Repeat(o)
  PROVE  TypeInv' /\ Shapes'
  <1>1. op[o].step \in Calling /\ Become(o, proceed(op[o]))
        /\ UNCHANGED <<rule, holder, guards, cause, late, requests, faults>>
    BY DEF Repeat, Calling
  <1> QED
    BY <1>1, OpType, Proceeds, BecomeType DEF TypeInv, guards

\* Whether a call is under way or to be sent does not change the shape.
LEMMA BusyShape ==
  ASSUME NEW rec \in Operation, Shape(rec), rec.step \in Calling, NEW s \in Calling
  PROVE  [rec EXCEPT !.step = s] \in Operation /\ Shape([rec EXCEPT !.step = s])
  BY DEF Operation, Step, Shape, Working, Calling

\* A guard that accepts a call moves, and only the operation's step changes.
LEMMA AcceptType ==
  ASSUME TypeInv, Shapes, Guards, NEW o \in Op, Accept(o)
  PROVE  /\ TypeInv' /\ Shapes' /\ Moves(op[o].hop)
         /\ accept(op[o].call, op[o].hop, op[o].hgen)
         /\ op[o].call \in {"apply", "suspend", "remove"}
         /\ op' = [op EXCEPT ![o] = [op[o] EXCEPT !.step = "busy"]]
  <1>1. /\ op[o].step = "call" /\ accept(op[o].call, op[o].hop, op[o].hgen)
        /\ Become(o, [op[o] EXCEPT !.step = "busy"])
        /\ UNCHANGED <<rule, holder, cause, late, requests, faults>>
    BY DEF Accept
  <1>2. op[o] \in Operation /\ Shape(op[o]) /\ op[o].hop \in Hop /\ op[o].hgen \in 0..MaxGen
    BY <1>1, OpType DEF Calling
  <1>3. op[o].call \in {"apply", "suspend", "remove"}
    BY <1>1, <1>2 DEF Operation, Shape, Working, Kind, Deploys
  <1>4. Moves(op[o].hop)
    BY <1>1, <1>2, <1>3, CallMoves
  <1>5. op' \in [Op -> Operation] /\ Shapes'
    BY <1>1, <1>2, BusyShape, BecomeType DEF Calling
  <1> QED
    BY <1>1, <1>2, <1>3, <1>4, <1>5, MoveFacts DEF TypeInv, Become

\* A refused call keeps types and shapes.
LEMMA RefuseType ==
  ASSUME TypeInv, Shapes, NEW o \in Op, Refuse(o)
  PROVE  TypeInv' /\ Shapes'
  <1>1. op[o].step \in Calling /\ Fails(o)
        /\ UNCHANGED <<rule, guards, cause, late, requests, faults>>
    BY DEF Refuse, Calling
  <1> QED
    BY <1>1, FailsType DEF TypeInv, guards

\* An acknowledged call keeps them, and is one of the guard's moves.
LEMMA AcknowledgeType ==
  ASSUME TypeInv, Shapes, Guards, NEW o \in Op, Acknowledge(o)
  PROVE  TypeInv' /\ Shapes' /\ Moves(op[o].hop)
  <1>1. /\ op[o].step \in Calling /\ Become(o, proceed(op[o]))
        /\ Guard!Appear(op[o].hop) \/ Guard!Rest(op[o].hop)
        /\ UNCHANGED <<rule, holder, cause, late, requests, faults>>
    BY DEF Acknowledge, Calling
  <1>2. op[o] \in Operation /\ Shape(op[o]) /\ op[o].hop \in Hop
    BY <1>1, OpType
  <1>3. Moves(op[o].hop)
    BY <1>1 DEF Moves
  <1>4. op' \in [Op -> Operation] /\ Shapes'
    BY <1>1, <1>2, Proceeds, BecomeType
  <1> QED
    BY <1>1, <1>2, <1>3, <1>4, MoveFacts DEF TypeInv

\* The calls that operations leave behind are theirs.
LEMMA PendingType ==
  ASSUME TypeInv, Shapes, NEW S \in SUBSET Op
  PROVE  /\ Pending(S) \subseteq LateCall
         /\ \A m \in Pending(S) : m.call = "apply" =>
              \E o \in S : /\ op[o].step = "call" /\ op[o].call = "apply"
                           /\ m.hop = op[o].hop /\ m.gen = op[o].hgen
  <1> SUFFICES ASSUME NEW m \in Pending(S)
               PROVE  /\ m \in LateCall
                      /\ m.call = "apply" =>
                           \E o \in S : /\ op[o].step = "call" /\ op[o].call = "apply"
                                        /\ m.hop = op[o].hop /\ m.gen = op[o].hgen
    OBVIOUS
  <1>1. PICK o \in S : /\ op[o].step = "call" \/ (op[o].step = "busy" /\ op[o].call = "apply")
                       /\ m = [call |-> IF op[o].step = "call" THEN op[o].call ELSE "appear",
                               hop |-> op[o].hop, gen |-> op[o].hgen]
    BY DEF Pending
  <1>2. o \in Op /\ op[o].step \in Calling
    BY <1>1 DEF Calling
  <1>3. op[o] \in Operation /\ Shape(op[o]) /\ op[o].hop \in Hop /\ op[o].hgen \in 0..MaxGen
    BY <1>2, OpType
  <1>4. op[o].call \in {"apply", "suspend", "remove"}
    BY <1>2, <1>3 DEF Operation, Shape, Working, Calling, Kind, Deploys
  <1> QED
    BY <1>1, <1>2, <1>3, <1>4 DEF LateCall

\* A late apply that is new was the call of an operation just cut short.
LEMMA ForgetType ==
  ASSUME TypeInv, Shapes, NEW S \in SUBSET Op, Forget(S)
  PROVE  /\ late' \subseteq LateCall
         /\ \A m \in late' : m.call = "apply" /\ m \notin late =>
              \E o \in S : /\ op[o].step = "call" /\ op[o].call = "apply"
                           /\ m.hop = op[o].hop /\ m.gen = op[o].hgen
  BY PendingType DEF Forget, TypeInv

\* A fault is counted within the budget.
LEMMA FaultCount ==
  ASSUME TypeInv, faults < MaxFault, faults' = faults + 1
  PROVE  faults' \in 0..MaxFault /\ faults' # 0
  BY ForwardAssumption DEF TypeInv

\* A fault keeps types and shapes, and touches neither row nor guards.
LEMMA FaultType ==
  ASSUME TypeInv, Shapes, NEW o \in Op, Lost(o) \/ Resend(o) \/ Abandon(o) \/ Restart
  PROVE  TypeInv' /\ Shapes' /\ faults' # 0 /\ UNCHANGED <<rule, guards>>
  <1>1. faults < MaxFault /\ faults' = faults + 1 /\ UNCHANGED <<rule, guards, cause, requests>>
    BY DEF Lost, Resend, Abandon, Restart
  <1>2. faults' \in 0..MaxFault /\ faults' # 0
    BY <1>1, FaultCount
  <1>3. CASE Lost(o)
    <2>1. op[o].step \in Calling /\ Fails(o) /\ Forget({o})
      BY <1>3 DEF Lost, Calling
    <2> QED
      BY <1>1, <1>2, <2>1, FailsType, ForgetType DEF TypeInv, guards
  <1>4. CASE Resend(o)
    <2>1. /\ op[o].step \in Calling /\ Become(o, [op[o] EXCEPT !.step = "call"]) /\ Forget({o})
          /\ UNCHANGED holder
      BY <1>4 DEF Resend, Calling
    <2>2. op' \in [Op -> Operation] /\ Shapes'
      BY <2>1, OpType, BusyShape, BecomeType DEF Calling
    <2> QED
      BY <1>1, <1>2, <2>1, <2>2, ForgetType DEF TypeInv, guards
  <1>5. CASE Abandon(o)
    BY <1>1, <1>2, <1>5, EndType, ForgetType DEF Abandon, TypeInv, guards
  <1>6. CASE Restart
    <2>1. op' = [p \in Op |-> Idle] /\ holder' = NoOp /\ Forget(Op)
      BY <1>6 DEF Restart
    <2> QED
      BY <1>1, <1>2, <2>1, IdleShape, ForgetType DEF TypeInv, Shapes, guards
  <1> QED
    BY <1>3, <1>4, <1>5, <1>6

\* The late calls and the guards on their own.
LEMMA LateType ==
  ASSUME TypeInv, Shapes, Guards, NEW m \in late, LateAccept(m) \/ LateAppear(m)
  PROVE  /\ TypeInv' /\ Shapes' /\ m \in LateCall /\ Moves(m.hop)
         /\ UNCHANGED <<rule, op, holder, faults>>
         /\ \A n \in late' : n.call = "apply" => n \in late
         /\ LateAccept(m) => /\ m.call \in {"apply", "suspend", "remove"} /\ ~busyWith(m.hop)
                             /\ accept(m.call, m.hop, m.gen)
  <1>1. m \in LateCall /\ m.hop \in Hop /\ m.gen \in 0..MaxGen
    BY DEF TypeInv, LateCall
  <1>2. CASE LateAccept(m)
    <2>1. /\ m.call \in {"apply", "suspend", "remove"} /\ accept(m.call, m.hop, m.gen)
          /\ ~busyWith(m.hop)
          /\ UNCHANGED <<rule, op, holder, cause, requests, faults>>
      BY <1>1, <1>2 DEF LateAccept, LateCall
    <2>2. Moves(m.hop)
      BY <1>1, <2>1, CallMoves
    <2>3. late' \subseteq LateCall /\ \A n \in late' : n.call = "apply" => n \in late
      <3>1. late' \subseteq (late \ {m}) \union {[m EXCEPT !.call = "appear"]}
        BY <1>2 DEF LateAccept
      <3>2. [m EXCEPT !.call = "appear"] \in LateCall /\ [m EXCEPT !.call = "appear"].call = "appear"
        BY <1>1 DEF LateCall
      <3> QED
        BY <3>1, <3>2 DEF TypeInv
    <2> QED
      BY <1>1, <2>1, <2>2, <2>3, MoveFacts DEF TypeInv, Shapes
  <1>3. CASE LateAppear(m) /\ ~LateAccept(m)
    <2>1. /\ Guard!Appear(m.hop) /\ late' = late \ {m}
          /\ UNCHANGED <<rule, op, holder, cause, requests, faults>>
      BY <1>3 DEF LateAppear
    <2>2. Moves(m.hop)
      BY <2>1 DEF Moves
    <2> QED
      BY <1>1, <1>3, <2>1, <2>2, MoveFacts DEF TypeInv, Shapes
  <1> QED
    BY <1>2, <1>3

\* A guard on its own keeps them, and takes back no generation.
LEMMA GuardType ==
  ASSUME TypeInv, Shapes, Guards, NEW h \in Hop,
         GuardWithdraws(h) \/ GuardRests(h) \/ LeaseLapses(h)
  PROVE  /\ TypeInv' /\ Shapes' /\ Moves(h) /\ UNCHANGED <<rule, op, holder, late>>
         /\ gen' = gen /\ (faults' = 0 => faults = 0)
         /\ \/ phase' = phase
            \/ ~busyWith(h)
  <1>1. /\ Guard!Vanish(h) \/ (Guard!Rest(h) /\ ~busyWith(h))
        /\ UNCHANGED <<rule, op, holder, cause, late, requests>>
        /\ faults' = faults \/ (faults < MaxFault /\ faults' = faults + 1)
    BY DEF GuardWithdraws, GuardRests, LeaseLapses
  <1>2. Moves(h)
    BY <1>1 DEF Moves
  <1>3. gen' = gen /\ (phase' = phase \/ ~busyWith(h))
    <2>1. CASE Guard!Vanish(h)
      BY <2>1 DEF Guard!Vanish
    <2>2. CASE Guard!Rest(h) /\ ~busyWith(h)
      <3>1. gen' = [gen EXCEPT ![h] = gen[h]]
        BY <2>2 DEF Guard!Rest, Guard!To
      <3>2. gen' = gen
        BY <3>1 DEF TypeInv
      <3> QED
        BY <2>2, <3>2
    <2> QED
      BY <1>1, <2>1, <2>2
  <1>4. faults' \in 0..MaxFault /\ (faults' = 0 => faults = 0)
    BY <1>1, FaultCount DEF TypeInv
  <1> QED
    BY <1>1, <1>2, <1>3, <1>4, MoveFacts DEF TypeInv, Shapes

\* Recording an outcome ends the operation and leaves the desired state.
LEMMA OutcomeType ==
  ASSUME TypeInv, Shapes, NEW o \in Op, Finish(o) \/ Fail(o)
  PROVE  /\ TypeInv' /\ Shapes' /\ op'[o] = Idle
         /\ \A p \in Op : p # o => op'[p] = op[p] /\ (holder = p => holder' = p)
         /\ rule'.desired = rule.desired
         /\ rule'.held => rule.held
         /\ rule'.applied # rule.applied =>
              /\ op[o].step = "finish" /\ op[o].kind \in Deploys \union {"suspend", "retry"}
         /\ ~rule'.held /\ rule.held => op[o].step = "finish" /\ op[o].kind = "delete"
         /\ UNCHANGED <<guards, late, faults>>
  <1>1. rule \in RuleRecord /\ op[o] \in Operation /\ Shape(op[o])
    BY OpType DEF TypeInv
  <1>2. op[o].kind \in Kind \ {"none"} /\ op[o].reason \in Reason
    BY <1>1 DEF Finish, Fail, Operation, Shape, Working
  <1>3. CASE Finish(o)
    <2>1. rule' = outcome(op[o].kind, op[o].reason) /\ op[o].step = "finish"
      BY <1>3 DEF Finish
    <2>2. CASE op[o].kind \in Deploys
      <3>1. rule' = [rule EXCEPT !.observed = "active", !.applied = rule.gen]
        BY <2>1, <2>2 DEF outcome, Deploys
      <3> QED
        BY <1>1, <1>3, <2>1, <2>2, <3>1, EndType DEF Finish, TypeInv, RuleRecord, Observed, guards
    <2>3. CASE op[o].kind \in {"suspend", "retry"}
      <3>1. rule' = [rule EXCEPT !.observed = "suspended", !.applied = rule.gen]
        BY <2>1, <2>3 DEF outcome, Deploys
      <3> QED
        BY <1>1, <1>3, <2>1, <2>3, <3>1, EndType DEF Finish, TypeInv, RuleRecord, Observed, guards
    <2>4. CASE op[o].kind = "revoke"
      <3>1. rule' \in {rule, [rule EXCEPT !.observed = "suspended", !.reason = op[o].reason]}
        BY <2>1, <2>4 DEF outcome, Deploys
      <3>2. /\ rule' \in RuleRecord /\ rule'.desired = rule.desired /\ rule'.held = rule.held
            /\ rule'.applied = rule.applied
        BY <1>1, <1>2, <3>1 DEF RuleRecord, Observed
      <3> QED
        BY <1>3, <3>2, EndType DEF Finish, TypeInv, guards
    <2>5. CASE op[o].kind = "delete"
      <3>1. rule' = [rule EXCEPT !.observed = "suspended", !.held = FALSE]
        BY <2>1, <2>5 DEF outcome, Deploys
      <3> QED
        BY <1>1, <1>3, <2>1, <2>5, <3>1, EndType DEF Finish, TypeInv, RuleRecord, Observed, guards
    <2> QED
      BY <1>2, <2>2, <2>3, <2>4, <2>5 DEF Kind, Deploys
  <1>4. CASE Fail(o)
    <2>1. rule' = failure(op[o].kind, op[o].reason) /\ op[o].step = "fail"
      BY <1>4 DEF Fail
    <2>2. op[o].kind # "suspend"
      BY <1>1, <2>1 DEF Shape
    <2>3. \/ rule' = rule
          \/ rule' = [rule EXCEPT !.observed = "error"]
          \/ rule' = [rule EXCEPT !.observed = "error", !.reason = op[o].reason]
          \/ op[o].kind = "delete" /\ rule' = [rule EXCEPT !.observed = "cleanup_pending"]
      BY <1>2, <2>1, <2>2 DEF failure, Deploys, Kind
    <2>4. /\ rule' \in RuleRecord /\ rule'.desired = rule.desired /\ rule'.held = rule.held
          /\ rule'.applied = rule.applied
      BY <1>1, <1>2, <2>3 DEF RuleRecord, Observed
    <2> QED
      BY <1>4, <2>4, EndType DEF Fail, TypeInv, guards
  <1> QED
    BY <1>3, <1>4

\* The reconciler keeps types and shapes.
LEMMA ReconcileType ==
  ASSUME TypeInv, Shapes, Leases, Reconcile
  PROVE  TypeInv' /\ Shapes'
  <1>1. rule \in RuleRecord /\ reconciler \in Op /\ cause \in Cause
    BY HopFacts DEF TypeInv
  <1>2. CASE ListForwardReconcileCandidates
    <2>1. rule.desired # "none"
      BY <1>2 DEF ListForwardReconcileCandidates, Leases
    <2> DEFINE rec == [Idle EXCEPT !.step = "list", !.seen = rule]
    <2>2. rec \in Operation /\ Shape(rec)
      BY <1>1, <2>1, IdleShape DEF Operation, Idle, Step, Shape, Working, Calling
    <2> QED
      BY <1>1, <1>2, <2>2, BecomeType DEF ListForwardReconcileCandidates, TypeInv, guards
  <1>3. CASE ReconcileForwards
    <2>1. op[reconciler].step = "list" /\ Become(reconciler, decision(op[reconciler].seen))
          /\ UNCHANGED <<rule, holder, guards, cause, late, requests, faults>>
      BY <1>3 DEF ReconcileForwards
    <2>2. op[reconciler].seen \in RuleRecord /\ op[reconciler].seen.desired # "none"
      BY <1>1, <2>1, OpType DEF Operation, Shape
    <2> QED
      BY <1>1, <2>1, <2>2, DecisionShape, BecomeType DEF TypeInv, guards
  <1> QED
    BY <1>2, <1>3 DEF Reconcile

\* Every step keeps them.
LEMMA NextType ==
  ASSUME TypeInv, Shapes, Leases, Guards, Next
  PROVE  TypeInv' /\ Shapes'
  <1>1. ASSUME NEW o \in Op, Advance(o)
        PROVE  TypeInv' /\ Shapes'
    BY <1>1, WriteType, PrepareType, LeaseType, RepeatType, AcceptType, RefuseType,
       AcknowledgeType, OutcomeType DEF Advance
  <1>2. CASE Entitle
    <2>1. requests' \in 0..MaxRequest
      <3>1. requests \in 0..MaxRequest /\ requests < MaxRequest /\ requests' = requests + 1
        BY <1>2 DEF TypeInv, Entitle
      <3> QED
        BY <3>1, ForwardAssumption
    <2> QED
      BY <1>2, <2>1 DEF Entitle, TypeInv, Shapes, guards
  <1>3. ASSUME NEW h \in Hop, GuardStep(h) \/ LeaseLapses(h)
        PROVE  TypeInv' /\ Shapes'
    BY <1>3, GuardType DEF GuardStep
  <1>4. CASE Restart
    BY <1>4, FaultType, HopFacts
  <1> QED
    BY <1>1, <1>2, <1>3, <1>4, RequestType, ReconcileType, FaultType, LateType DEF Next

---------------------------------------------------------------------------
(* The leases keep the operations apart.                                   *)

\* One operation takes a step, on a rule that exists.
LEMMA LeasesStep ==
  ASSUME Leases, NEW o \in Op, rule.desired # "none", rule'.desired # "none",
         \A p \in Op : p # o => op'[p] = op[p] /\ (holder = p => holder' = p),
         rule'.held => rule.held, Leased(o)', Hopless(o)'
  PROVE  Leases'
  <1>1. ASSUME NEW p \in Op
        PROVE  Leased(p)' /\ Hopless(p)'
    BY <1>1 DEF Leases, Leased, Hopless
  <1> QED
    BY <1>1 DEF Leases

\* An operation under way has a rule.
LEMMA Existing ==
  ASSUME Leases, NEW o \in Op, op[o].step # "idle"
  PROVE  rule.desired # "none"
  BY DEF Leases

\* An operation before its wait owes nothing about leases.
LEMMA IdleLeases ==
  ASSUME NEW o \in Op, op'[o] = Idle \/ op'[o].step \in {"set", "prepare", "reread"}
  PROVE  Leased(o)' /\ Hopless(o)'
  BY DEF Leased, Hopless, Idle, Working

\* Requests start within the rules about leases.
LEMMA RequestLeases ==
  ASSUME TypeInv, Shapes, Leases, NEW o \in Request, Arrive(o)
  PROVE  Leases'
  <1>0. o \in Op /\ rule \in RuleRecord /\ op \in [Op -> Operation]
    BY DEF Op, TypeInv
  <1>1. CASE CreateUserForward(o)
    <2>1. /\ rule.desired = "none" /\ holder' = o
          /\ rule' = [NoRule EXCEPT !.desired = "active", !.gen = 1, !.hgen = 1, !.held = TRUE]
          /\ Become(o, [Waiting("create", rule', "none") EXCEPT !.step = "mark"])
      BY <1>1 DEF CreateUserForward, Begin
    <2>2. rule'.desired = "active" /\ rule'.held = TRUE
      BY <2>1 DEF NoRule
    <2>3. \A p \in Op : op[p].step = "idle"
      BY <2>1 DEF Leases
    <2>4. \A p \in Op : p # o => op'[p] = op[p]
      BY <1>0, <2>1 DEF Become
    <2>5. op'[o].hop # 0
      <3>1. op'[o].hop = N
        BY <1>0, <2>1, <2>2 DEF Become, Waiting, Deploys
      <3> QED
        BY <3>1, HopFacts
    <2>6. op'[o].step = "mark"
      BY <1>0, <2>1 DEF Become, Waiting
    <2> QED
      BY <2>1, <2>2, <2>3, <2>4, <2>5, <2>6 DEF Leases, Leased, Hopless, Working
  <1>2. CASE HandleForwardItem(o) \/ HandleGrantAction(o)
    <2>1. UNCHANGED <<rule, holder>> /\ rule.desired # "none"
      BY <1>2 DEF HandleForwardItem, HandleGrantAction
    <2>2. PICK rec \in {Setting("suspend", "user_disabled"), Setting("resume", "none"),
                        Setting("delete", "none"), Waiting("delete", rule, "none"),
                        Setting("revoke", "grant_inactive"), Waiting("renew", rule, "none"),
                        Setting("apply", "none")} : Begin(o, rec)
      BY <1>2 DEF HandleForwardItem, HandleGrantAction
    <2>3. op' = [op EXCEPT ![o] = rec]
      BY <2>2 DEF Begin, Become
    <2>4. rec.step = "set" \/ (rec.step = "wait" /\ (rec.hop = 0 => ~rule.held))
      BY <1>0, <2>2, SettingShape, WaitingShape DEF Kind, Reason, Cause
    <2>5. Leased(o)' /\ Hopless(o)'
      BY <1>0, <2>1, <2>3, <2>4 DEF Leased, Hopless, Working
    <2> QED
      BY <1>0, <2>1, <2>3, <2>5, LeasesStep
  <1> QED
    BY <1>1, <1>2 DEF Arrive

\* So does the reconciler.
LEMMA ReconcileLeases ==
  ASSUME TypeInv, Shapes, Leases, Reconcile
  PROVE  Leases'
  <1>1. reconciler \in Op /\ cause \in Cause /\ op \in [Op -> Operation]
    BY HopFacts DEF TypeInv
  <1>2. CASE ListForwardReconcileCandidates
    <2>1. rule.desired # "none" /\ UNCHANGED <<rule, holder>>
          /\ op' = [op EXCEPT ![reconciler] = [Idle EXCEPT !.step = "list", !.seen = rule]]
      BY <1>2 DEF ListForwardReconcileCandidates, Leases, Become
    <2>2. op'[reconciler].step = "list" /\ op'[reconciler].seen = rule
      BY <1>1, <2>1 DEF Idle
    <2>3. Leased(reconciler)' /\ Hopless(reconciler)'
      BY <2>1, <2>2 DEF Leased, Hopless, Working
    <2> QED
      BY <1>1, <2>1, <2>3, LeasesStep
  <1>3. CASE ReconcileForwards
    <2> DEFINE f == op[reconciler].seen
    <2>1. op[reconciler].step = "list" /\ UNCHANGED <<rule, holder>>
          /\ op' = [op EXCEPT ![reconciler] = decision(f)]
      BY <1>3 DEF ReconcileForwards, Become
    <2>2. f \in RuleRecord /\ f.desired # "none"
      BY <1>1, <2>1, OpType DEF Operation, Shape
    <2>3. /\ decision(f).step \in {"idle", "set", "wait"}
          /\ decision(f).step = "wait" /\ decision(f).hop = 0 => ~f.held
      BY <1>1, <2>2, DecisionShape
    <2>4. ~f.held => ~rule.held
      BY <1>1, <2>1 DEF Leases, Hopless
    <2>5. Leased(reconciler)' /\ Hopless(reconciler)'
      BY <1>1, <2>1, <2>3, <2>4 DEF Leased, Hopless, Working
    <2> QED
      BY <1>1, <2>1, <2>5, LeasesStep, Existing
  <1> QED
    BY <1>2, <1>3 DEF Reconcile

\* Writing the desired state takes no lease from anybody.
LEMMA WriteLeases ==
  ASSUME TypeInv, Shapes, Leases, NEW o \in Op,
         \/ SetUserForwardDesired(o) \/ PrepareRefused(o) \/ PrepareReads(o) \/ PrepareWrites(o)
         \/ GetUserForward(o)
  PROVE  Leases'
  <1>0. op \in [Op -> Operation] /\ rule \in RuleRecord /\ rule.desired # "none"
    BY Existing DEF TypeInv, SetUserForwardDesired, PrepareRefused, PrepareReads, PrepareWrites,
       GetUserForward
  <1>1. CASE SetUserForwardDesired(o) \/ PrepareWrites(o)
    <2>1. /\ op' = [op EXCEPT ![o] = [op[o] EXCEPT !.step = "reread"]] /\ holder' = holder
          /\ rule'.held = rule.held
          /\ rule'.desired \in {"active", "inactive", "deleted", rule.desired}
      BY <1>0, <1>1 DEF SetUserForwardDesired, PrepareWrites, Become, RuleRecord
    <2>2. op'[o].step = "reread"
      BY <1>1, WriteType
    <2> QED
      BY <1>0, <2>1, <2>2, IdleLeases, LeasesStep
  <1>2. CASE PrepareRefused(o)
    <2>1. End(o) /\ rule' = rule
      BY <1>2 DEF PrepareRefused
    <2> QED
      BY <1>0, <2>1, EndType, IdleLeases, LeasesStep
  <1>3. CASE PrepareReads(o)
    <2>1. op' = [op EXCEPT ![o] = [op[o] EXCEPT !.step = "prepare"]] /\ UNCHANGED <<rule, holder>>
      BY <1>3 DEF PrepareReads, Become
    <2>2. op'[o].step = "prepare"
      BY <1>0, <2>1 DEF Operation
    <2> QED
      BY <1>0, <2>1, <2>2, IdleLeases, LeasesStep
  <1>4. CASE GetUserForward(o)
    <2> DEFINE w == Waiting(op[o].kind, rule, op[o].reason)
    <2>1. op' = [op EXCEPT ![o] = w] /\ UNCHANGED <<rule, holder>> /\ op[o].step = "reread"
      BY <1>4 DEF GetUserForward, Become
    <2>2. op[o].kind \in Kind \ {"none"} /\ op[o].reason \in Reason
      BY <2>1, OpType DEF Operation, Shape
    <2>3. w.step = "wait" /\ (w.hop = 0 => ~rule.held)
      BY <1>0, <2>2, WaitingShape
    <2> HIDE DEF w
    <2>4. Leased(o)' /\ Hopless(o)'
      BY <1>0, <2>1, <2>3 DEF Leased, Hopless, Working
    <2> QED
      BY <1>0, <2>1, <2>4, LeasesStep
  <1> QED
    BY <1>1, <1>2, <1>3, <1>4

\* Leases are taken only when free, and held from the mark on.
LEMMA AcquireLeases ==
  ASSUME TypeInv, Shapes, Leases, NEW o \in Op,
         AcquireForwardLeases(o) \/ NoEntry(o) \/ MarkProvisioning(o)
  PROVE  Leases'
  <1>0. op \in [Op -> Operation] /\ rule \in RuleRecord /\ rule.desired # "none"
        /\ op[o] \in Operation /\ Shape(op[o])
    BY Existing, OpType DEF TypeInv, AcquireForwardLeases, NoEntry, MarkProvisioning
  <1>1. CASE AcquireForwardLeases(o)
    <2>1. /\ op' = [op EXCEPT ![o] = Acquired(op[o])] /\ rule' = rule /\ op[o].step = "wait"
          /\ op[o].hop = 0 => op[o].call # "suspend"
          /\ IF op[o].hop = 0 THEN holder' = holder ELSE holder = NoOp /\ holder' = o
      BY <1>1 DEF AcquireForwardLeases, Become, Acquired
    <2>2. /\ op'[o].hop = op[o].hop /\ op'[o].step \in {"mark", "call", "finish"}
      BY <1>0, <2>1, AcquiredShape
    <2>3. Leased(o)' /\ Hopless(o)'
      BY <2>1, <2>2 DEF Leases, Leased, Hopless, Working
    <2>4. \A p \in Op : holder = p => holder' = p
      BY <2>1, HopFacts
    <2> QED
      BY <1>0, <2>1, <2>3, <2>4, LeasesStep
  <1>2. CASE NoEntry(o)
    <2>1. rule' = rule
      BY <1>2 DEF NoEntry
    <2>2. CASE o = reconciler
      <3>1. op' = [p \in Op |-> Idle]
        BY <1>2, <2>2 DEF NoEntry
      <3> QED
        BY <1>0, <2>1, <3>1 DEF Leases, Leased, Hopless, Idle, Working
    <2>3. CASE o # reconciler
      BY <1>0, <1>2, <2>1, <2>3, EndType, IdleLeases, LeasesStep DEF NoEntry
    <2> QED
      BY <2>2, <2>3
  <1>3. CASE MarkProvisioning(o)
    <2>1. /\ op' = [op EXCEPT ![o] = Marked(op[o])] /\ holder' = holder /\ op[o].step = "mark"
          /\ rule'.held = rule.held /\ rule'.desired = rule.desired
      BY <1>0, <1>3 DEF MarkProvisioning, Become, Marked, RuleRecord
    <2>2. op'[o].hop = op[o].hop /\ op'[o].step \in {"call", "finish"}
      BY <1>0, <2>1, MarkedShape
    <2>3. Leased(o)' /\ Hopless(o)'
      BY <2>1, <2>2 DEF Leases, Leased, Hopless, Working
    <2> QED
      BY <1>0, <2>1, <2>3, LeasesStep
  <1> QED
    BY <1>1, <1>2, <1>3

\* The steps of a call leave its operation the leases, and its hop is one.
LEMMA CallLeases ==
  ASSUME TypeInv, Shapes, Leases, NEW o \in Op,
         Repeat(o) \/ Accept(o) \/ Refuse(o) \/ Acknowledge(o) \/ Lost(o) \/ Resend(o)
  PROVE  Leases' /\ holder = o /\ op[o].step \in Calling /\ rule' = rule
  <1>1. op[o].step \in Calling /\ rule' = rule
    BY DEF Repeat, Accept, Refuse, Acknowledge, Lost, Resend, Calling
  <1>2. /\ op[o] \in Operation /\ Shape(op[o]) /\ op[o].hop \in Hop /\ op[o].hop # 0
        /\ op \in [Op -> Operation] /\ rule.desired # "none"
    BY <1>1, OpType, Existing, HopFacts DEF Calling, TypeInv
  <1>3. holder = o
    BY <1>1, <1>2 DEF Leases, Leased, Working, Calling
  <1>4. CASE Repeat(o) \/ Acknowledge(o)
    <2>1. op' = [op EXCEPT ![o] = proceed(op[o])] /\ holder' = holder
      BY <1>4 DEF Repeat, Acknowledge, Become
    <2>2. op'[o].hop >= 1 /\ op'[o].step \in {"call", "finish", "fail"} /\ op'[o].hop \in Nat
      BY <1>1, <1>2, <2>1, Proceeds DEF Operation
    <2>3. Leased(o)' /\ Hopless(o)'
      BY <1>3, <2>1, <2>2 DEF Leased, Hopless, Working
    <2> QED
      BY <1>1, <1>2, <1>3, <2>1, <2>3, LeasesStep
  <1>5. CASE Accept(o) \/ Resend(o)
    <2>1. PICK s \in Calling : op' = [op EXCEPT ![o] = [op[o] EXCEPT !.step = s]]
      BY <1>5 DEF Accept, Resend, Become, Calling
    <2>2. holder' = holder
      BY <1>5 DEF Accept, Resend
    <2>3. op'[o].hop = op[o].hop /\ op'[o].step = s
      BY <1>2, <2>1 DEF Operation
    <2>4. Leased(o)' /\ Hopless(o)'
      BY <1>2, <1>3, <2>2, <2>3 DEF Leased, Hopless, Calling
    <2> QED
      BY <1>1, <1>2, <1>3, <2>1, <2>2, <2>4, LeasesStep
  <1>6. CASE Refuse(o) \/ Lost(o)
    <2>1. Fails(o)
      BY <1>6 DEF Refuse, Lost
    <2>2. CASE op'[o] = Idle
      BY <1>1, <1>2, <1>3, <2>1, <2>2, FailsType, IdleLeases, LeasesStep
    <2>3. CASE op'[o].step \in {"call", "fail"} /\ op'[o].hop >= 1 /\ holder' = holder
      <3>1. op'[o].hop # 0
        BY <2>3
      <3>2. Leased(o)' /\ Hopless(o)'
        BY <1>3, <2>3, <3>1 DEF Leased, Hopless, Working
      <3> QED
        BY <1>1, <1>2, <1>3, <2>1, <2>3, <3>2, FailsType, LeasesStep
    <2> QED
      BY <1>1, <2>1, <2>2, <2>3, FailsType
  <1> QED
    BY <1>1, <1>3, <1>4, <1>5, <1>6

\* Every step keeps the rules about leases.
LEMMA NextLeases ==
  ASSUME TypeInv, Shapes, Leases, Guards, Next
  PROVE  Leases'
  <1>1. ASSUME NEW o \in Op, Finish(o) \/ Fail(o)
        PROVE  Leases'
    <2>1. rule.desired # "none"
      BY <1>1, Existing DEF Finish, Fail
    <2> QED
      BY <1>1, <2>1, OutcomeType, IdleLeases, LeasesStep
  <1>2. ASSUME NEW o \in Op, Advance(o) \/ Lost(o) \/ Resend(o)
        PROVE  Leases'
    BY <1>1, <1>2, WriteLeases, AcquireLeases, CallLeases DEF Advance
  <1>3. ASSUME NEW o \in Op, Abandon(o)
        PROVE  Leases'
    <2>1. rule.desired # "none" /\ End(o) /\ rule' = rule
      BY <1>3, Existing DEF Abandon
    <2> QED
      BY <2>1, EndType, IdleLeases, LeasesStep
  <1>4. CASE Restart
    BY <1>4 DEF Restart, Leases, Leased, Hopless, Idle, Working
  <1>5. ASSUME UNCHANGED <<rule, op, holder>>
        PROVE  Leases'
    BY <1>5 DEF Leases, Leased, Hopless
  <1>6. CASE Entitle
    BY <1>5, <1>6 DEF Entitle
  <1>7. ASSUME NEW h \in Hop, GuardStep(h) \/ LeaseLapses(h)
        PROVE  Leases'
    BY <1>5, <1>7, GuardType DEF GuardStep
  <1>8. ASSUME NEW m \in late, LateAccept(m) \/ LateAppear(m)
        PROVE  Leases'
    BY <1>5, <1>8, LateType
  <1> QED
    BY <1>2, <1>3, <1>4, <1>6, <1>7, <1>8, RequestLeases, ReconcileLeases DEF Next

---------------------------------------------------------------------------
(* What other operations leave alone.                                      *)

\* Generations behind a hop only grow.
LEMMA BehindKept ==
  ASSUME TypeInv, TypeInv', \A j \in Hop : Onward(j), NEW h, NEW g \in 0..MaxGen, BehindAt(h, g)
  PROVE  BehindAt(h, g)'
  <1> SUFFICES ASSUME NEW j \in Hop, j > h
               PROVE  gen'[j] >= g
    BY DEF BehindAt
  <1>1. gen'[j] >= gen[j] /\ gen[j] >= g
    BY DEF BehindAt, Onward
  <1>2. gen[j] \in Nat /\ gen'[j] \in Nat /\ g \in Nat
    BY ForwardAssumption DEF TypeInv
  <1> QED
    BY <1>1, <1>2

\* An operation that took no step, or to where it calls nobody.
LEMMA FollowingKept ==
  ASSUME TypeInv, TypeInv', Shapes, \A j \in Hop : Onward(j), NEW p \in Op, Following(p),
         op'[p] = op[p] \/ op'[p].step \notin Calling
  PROVE  Following(p)'
  <1>1. CASE op'[p].step \notin Calling
    BY <1>1 DEF Following, Calling
  <1>2. CASE op'[p] = op[p] /\ op[p].call = "apply" /\ op[p].step \in Calling
    <2>1. op[p].hop \in Hop /\ op[p].hgen \in 0..MaxGen /\ op[p].hgen \in Nat
      BY <1>2, OpType
    <2>2. BehindAt(op[p].hop, op[p].hgen)'
      BY <1>2, <2>1, BehindKept DEF Following
    <2>3. op[p].step = "busy" => gen'[op[p].hop] >= op[p].hgen
      <3>1. gen[op[p].hop] \in Nat /\ gen'[op[p].hop] \in Nat
        BY <2>1, ForwardAssumption DEF TypeInv
      <3>2. gen'[op[p].hop] >= gen[op[p].hop]
        BY <2>1 DEF Onward
      <3> QED
        BY <1>2, <2>1, <3>1, <3>2 DEF Following
    <2> QED
      BY <1>2, <2>1, <2>2, <2>3 DEF Following, BehindAt
  <1> QED
    BY <1>1, <1>2 DEF Following

\* What was known behind the hop of a late apply stays known.
LEMMA LateKept ==
  ASSUME TypeInv, TypeInv', Order, \A j \in Hop : Onward(j),
         \A m \in late' : m.call = "apply" => m \in late
  PROVE  (\A m \in late : m.call = "apply" => BehindAt(m.hop, m.gen))'
  <1>1. ASSUME NEW m \in late', m.call = "apply"
        PROVE  BehindAt(m.hop, m.gen)'
    <2>1. m \in late /\ m.gen \in 0..MaxGen
      BY <1>1 DEF TypeInv, LateCall
    <2> QED
      BY <1>1, <2>1, BehindKept DEF Order
  <1> QED
    BY <1>1 DEF BehindAt

\* The entry follows the others when one guard moves.
LEMMA EntryKept ==
  ASSUME TypeInv, TypeInv', Guards, Order, NEW h \in Hop, Moves(h),
         \A g \in 0..MaxGen : h = 1 /\ Guard!Serve(h, g) => BehindAt(1, g)
  PROVE  EntryLast' /\ EntryKnown'
  <1>1. \A j \in Hop : Onward(j) /\ (j # h => Untouched(j))
    BY MoveFacts
  <1>2. \A j \in Hop : gen[j] \in Nat /\ gen'[j] \in Nat
    BY ForwardAssumption DEF TypeInv
  <1>3. \A j \in Hop : j # 1 => j > 1
    BY HopFacts
  <1>4. CASE \E g \in 0..MaxGen : h = 1 /\ Guard!Serve(h, g)
    <2>1. PICK g \in 0..MaxGen : h = 1 /\ Guard!Serve(h, g)
      BY <1>4
    <2>2. g \in Nat /\ g > gen[1] /\ gen'[1] = g
      BY <1>2, <2>1, HopFacts, ForwardAssumption DEF Guard!Serve, Guard!To, TypeInv
    <2>3. \A j \in Hop : gen'[j] >= g
      BY <1>1, <1>2, <1>3, <2>1, <2>2 DEF BehindAt, Onward
    <2>4. \A j \in Hop : gen'[j] >= gen'[1] /\ gen'[j] > 0
      BY <1>2, <2>2, <2>3, HopFacts
    <2> QED
      BY <2>4 DEF EntryLast, EntryKnown
  <1>5. CASE ~\E g \in 0..MaxGen : h = 1 /\ Guard!Serve(h, g)
    <2>1. phase'[1] = "serving" => phase[1] = "serving" /\ gen'[1] = gen[1]
      <3>1. CASE h = 1
        <4>1. CASE \E g \in 0..MaxGen : Guard!Close(h, g) \/ Guard!Doom(h, g)
          BY <3>1, <4>1, HopFacts DEF TypeInv, Guard!Close, Guard!Doom, Guard!To
        <4>2. CASE Guard!Rest(h)
          BY <3>1, <4>2, HopFacts DEF TypeInv, Guard!Rest, Guard!To
        <4>3. CASE Guard!Appear(h) \/ Guard!Vanish(h)
          BY <4>3 DEF Guard!Appear, Guard!Vanish
        <4> QED
          BY <1>5, <3>1, <4>1, <4>2, <4>3 DEF Moves
      <3>2. CASE h # 1
        BY <1>1, <3>2, HopFacts DEF Untouched
      <3> QED
        BY <3>1, <3>2
    <2>2. EntryLast'
      <3>1. ASSUME phase'[1] = "serving", NEW j \in Hop
            PROVE  gen'[j] >= gen'[1]
        <4>1. gen'[j] >= gen[j] /\ gen[j] >= gen[1] /\ gen'[1] = gen[1]
          BY <1>1, <2>1, <3>1 DEF Onward, Order, EntryLast
        <4> QED
          BY <1>2, <4>1, HopFacts
      <3> QED
        BY <3>1 DEF EntryLast
    <2>3. gen'[1] > 0 => gen[1] > 0
      <3>1. gen'[1] > 0 => phase'[1] # "none"
        BY <1>2, MoveFacts, HopFacts DEF Guards
      <3>2. phase'[1] # "none" => phase[1] # "none"
        <4>1. CASE h = 1
          BY <1>5, <4>1, HopFacts
          DEF Moves, TypeInv, Guard!Close, Guard!Doom, Guard!To, Guard!Rest, Guard!Appear,
              Guard!Vanish
        <4>2. CASE h # 1
          BY <1>1, <4>2, HopFacts DEF Untouched
        <4> QED
          BY <4>1, <4>2
      <3>3. phase[1] # "none" => gen[1] > 0
        BY <1>2, HopFacts DEF Guards
      <3> QED
        BY <3>1, <3>2, <3>3
    <2>4. EntryKnown'
      <3>1. ASSUME gen'[1] > 0, NEW j \in Hop
            PROVE  gen'[j] > 0
        <4>1. gen'[j] >= gen[j] /\ gen[j] > 0
          BY <1>1, <2>3, <3>1 DEF Onward, Order, EntryKnown
        <4> QED
          BY <1>2, <4>1
      <3> QED
        BY <3>1 DEF EntryKnown
    <2> QED
      BY <2>2, <2>4
  <1> QED
    BY <1>4, <1>5

\* An operation that took no step while another, or a guard, did.
LEMMA ReleasingKept ==
  ASSUME TypeInv, Shapes, \A j \in Hop : Onward(j), NEW p \in Op, Releasing(p), Found(p), op'[p] = op[p],
         rule'.held /\ rule'.applied > 0 =>
           (rule.held /\ rule.applied > 0) \/ op[p].step \notin Calling \union {"finish"},
         op[p].step = "busy" => phase'[op[p].hop] = phase[op[p].hop]
  PROVE  Releasing(p)' /\ Found(p)'
  <1>1. Releasing(p)'
    <2>1. op[p].step \in Calling => \A j \in Hop : j < op[p].hop /\ Doomed(j) => Doomed(j)'
      BY DEF Onward
    <2>2. \A j \in Hop : Doomed(j) => Doomed(j)'
      BY DEF Onward
    <2> QED
      BY <2>1, <2>2 DEF Releasing, Calling, Doomed
  <1>2. Found(p)'
    BY HopFacts DEF Found, Onward
  <1> QED
    BY <1>1, <1>2

\* Where an operation is when it neither calls nor has its answer.
LEMMA ReleasingElsewhere ==
  ASSUME NEW p \in Op, op'[p].step \notin Calling \union {"finish"}
  PROVE  Releasing(p)' /\ Found(p)' /\ Alone(p)' /\ Following(p)'
  BY DEF Releasing, Found, Alone, Following, Calling

\* An entry that was known stays known.
LEMMA EntryStaysKnown ==
  ASSUME Release, \A j \in Hop : Onward(j), rule'.held /\ rule'.applied > 0,
         rule.held /\ rule.applied > 0
  PROVE  phase'[1] # "none"
  BY HopFacts DEF Release, Onward

---------------------------------------------------------------------------
(* Steps that call no guard and record no success.                         *)

Calm ==
  /\ UNCHANGED <<guards, late, faults>>
  /\ \A p \in Op : op'[p] = op[p] \/ op'[p].step \notin Calling \union {"finish"}
  /\ rule'.applied = rule.applied
  /\ rule.held => rule'.held
  /\ rule'.held /\ rule'.applied > 0 => rule.held

\* A calm step keeps the rest of the invariant.
LEMMA CalmKeeps ==
  ASSUME TypeInv, TypeInv', Shapes, Guards, Order, Release, Together, Calm
  PROVE  Guards' /\ Order' /\ Release' /\ Together'
  <1>1. Guards' /\ (\A j \in Hop : Onward(j) /\ Untouched(j)) /\ phase' = phase /\ gen' = gen
    BY StillFacts DEF Calm, guards
  <1>2. ASSUME NEW p \in Op
        PROVE  Following(p)' /\ Releasing(p)' /\ Found(p)' /\ (faults = 0 => Alone(p)')
    <2>1. CASE op'[p].step \notin Calling \union {"finish"}
      BY <2>1, ReleasingElsewhere
    <2>2. CASE op'[p] = op[p]
      <3>1. Following(p) /\ Releasing(p) /\ Found(p) /\ (faults = 0 => Alone(p))
        BY DEF Order, Release, Together
      <3>2. Following(p)'
        BY <1>1, <2>2, <3>1, FollowingKept
      <3>3. Releasing(p)' /\ Found(p)'
        BY <1>1, <2>2, <3>1, ReleasingKept DEF Calm
      <3>4. faults = 0 => Alone(p)'
        BY <1>1, <2>2, <3>1 DEF Alone
      <3> QED
        BY <3>2, <3>3, <3>4
    <2> QED
      BY <2>1, <2>2 DEF Calm
  <1>3. EntryLast' /\ EntryKnown'
    BY <1>1 DEF Order, EntryLast, EntryKnown
  <1>4. Order'
    <2>1. \A m \in late' : m.call = "apply" => m \in late
      BY DEF Calm
    <2> QED
      BY <1>1, <1>2, <1>3, <2>1, LateKept DEF Order
  <1>5. Release'
    BY <1>1, <1>2 DEF Release, Calm
  <1>6. Together'
    BY <1>2 DEF Together, Calm
  <1> QED
    BY <1>1, <1>4, <1>5, <1>6

\* An operation that takes a step to where it calls nobody, the row's hops left alone.
LEMMA CalmStep ==
  ASSUME NEW o \in Op, \A p \in Op : p # o => op'[p] = op[p],
         op'[o].step \notin Calling \union {"finish"},
         UNCHANGED <<guards, late, faults>>, rule'.held = rule.held, rule'.applied = rule.applied
  PROVE  Calm
  BY DEF Calm

\* Requests are calm: they move no guard and start no call.
LEMMA RequestCalm ==
  ASSUME TypeInv, Shapes, Leases, NEW o \in Request, Arrive(o)
  PROVE  Calm
  <1>0. o \in Op /\ rule \in RuleRecord /\ op \in [Op -> Operation]
    BY DEF Op, TypeInv
  <1>1. CASE CreateUserForward(o)
    <2>1. /\ rule' = [NoRule EXCEPT !.desired = "active", !.gen = 1, !.hgen = 1, !.held = TRUE]
          /\ op' = [op EXCEPT ![o] = [Waiting("create", rule', "none") EXCEPT !.step = "mark"]]
          /\ UNCHANGED <<guards, late, faults>> /\ rule.applied = 0
      BY <1>1 DEF CreateUserForward, Begin, Become, Leases
    <2>2. rule'.held = TRUE /\ rule'.applied = 0
      BY <2>1 DEF NoRule
    <2>3. op'[o].step = "mark" /\ \A p \in Op : p # o => op'[p] = op[p]
      BY <1>0, <2>1 DEF Waiting
    <2> QED
      BY <2>1, <2>2, <2>3 DEF Calm, Calling
  <1>2. CASE HandleForwardItem(o) \/ HandleGrantAction(o)
    <2>1. rule' = rule
      BY <1>2 DEF HandleForwardItem, HandleGrantAction
    <2>2. PICK rec \in {Setting("suspend", "user_disabled"), Setting("resume", "none"),
                        Setting("delete", "none"), Waiting("delete", rule, "none"),
                        Setting("revoke", "grant_inactive"), Waiting("renew", rule, "none"),
                        Setting("apply", "none")} : Begin(o, rec)
      BY <1>2 DEF HandleForwardItem, HandleGrantAction
    <2>3. rec.step \in {"set", "wait"}
      BY <1>0, <2>2, SettingShape, WaitingShape DEF Kind, Reason, Cause
    <2>4. op' = [op EXCEPT ![o] = rec] /\ UNCHANGED <<guards, late, faults>>
      BY <2>2 DEF Begin, Become
    <2> QED
      BY <1>0, <2>1, <2>3, <2>4, CalmStep DEF Calling
  <1> QED
    BY <1>1, <1>2 DEF Arrive

\* So is the reconciler's choice.
LEMMA ReconcileCalm ==
  ASSUME TypeInv, Shapes, Reconcile
  PROVE  Calm
  <1>1. reconciler \in Op /\ op \in [Op -> Operation] /\ cause \in Cause
    BY HopFacts DEF TypeInv
  <1>2. UNCHANGED <<rule, guards, late, faults>>
    BY DEF Reconcile, ListForwardReconcileCandidates, ReconcileForwards
  <1>3. PICK rec : /\ op' = [op EXCEPT ![reconciler] = rec]
                   /\ rec.step \in {"list", "idle", "set", "wait"}
    <2>1. CASE ListForwardReconcileCandidates
      <3>1. [Idle EXCEPT !.step = "list", !.seen = rule].step = "list"
        BY DEF Idle
      <3> QED
        BY <2>1, <3>1 DEF ListForwardReconcileCandidates, Become
    <2>2. CASE ReconcileForwards
      <3> DEFINE f == op[reconciler].seen
      <3>1. op' = [op EXCEPT ![reconciler] = decision(f)] /\ op[reconciler].step = "list"
        BY <2>2 DEF ReconcileForwards, Become
      <3>2. f \in RuleRecord /\ f.desired # "none"
        BY <1>1, <3>1, OpType DEF Operation, Shape
      <3>3. decision(f).step \in {"idle", "set", "wait"}
        BY <1>1, <3>2, DecisionShape
      <3> QED
        BY <3>1, <3>3
    <2> QED
      BY <2>1, <2>2 DEF Reconcile
  <1> QED
    BY <1>1, <1>2, <1>3, CalmStep DEF Calling

\* So are the writes to the row and the failures recorded there.
LEMMA WriteCalm ==
  ASSUME TypeInv, Shapes, NEW o \in Op,
         \/ SetUserForwardDesired(o) \/ PrepareRefused(o) \/ PrepareReads(o) \/ PrepareWrites(o)
         \/ GetUserForward(o) \/ NoEntry(o) \/ Fail(o)
  PROVE  Calm
  <1>0. op \in [Op -> Operation] /\ rule \in RuleRecord /\ Idle.step = "idle"
    BY DEF TypeInv, Idle
  <1>1. UNCHANGED <<guards, late, faults>>
    BY DEF SetUserForwardDesired, PrepareRefused, PrepareReads, PrepareWrites, GetUserForward,
       NoEntry, Fail
  <1>2. CASE SetUserForwardDesired(o) \/ PrepareWrites(o)
    <2>1. /\ op' = [op EXCEPT ![o] = [op[o] EXCEPT !.step = "reread"]]
          /\ rule'.held = rule.held /\ rule'.applied = rule.applied
      BY <1>0, <1>2 DEF SetUserForwardDesired, PrepareWrites, Become, RuleRecord
    <2> QED
      BY <1>0, <1>1, <1>2, <2>1, WriteType, CalmStep DEF Calling
  <1>3. CASE PrepareRefused(o)
    BY <1>0, <1>1, <1>3, EndType, CalmStep DEF PrepareRefused, Calling
  <1>4. CASE PrepareReads(o)
    <2>1. op' = [op EXCEPT ![o] = [op[o] EXCEPT !.step = "prepare"]] /\ rule' = rule
      BY <1>4 DEF PrepareReads, Become
    <2>2. op'[o].step = "prepare"
      BY <1>0, <2>1 DEF Operation
    <2> QED
      BY <1>0, <1>1, <2>1, <2>2, CalmStep DEF Calling
  <1>5. CASE GetUserForward(o)
    <2>1. op' = [op EXCEPT ![o] = Waiting(op[o].kind, rule, op[o].reason)] /\ rule' = rule
      BY <1>5 DEF GetUserForward, Become
    <2>2. op'[o].step = "wait"
      BY <1>0, <2>1 DEF Waiting
    <2> QED
      BY <1>0, <1>1, <2>1, <2>2, CalmStep DEF Calling
  <1>6. CASE NoEntry(o)
    <2>1. CASE o = reconciler
      <3>1. op' = [p \in Op |-> Idle] /\ rule' = rule
        BY <1>6, <2>1 DEF NoEntry
      <3> QED
        BY <1>0, <1>1, <3>1 DEF Calm, Calling
    <2>2. CASE o # reconciler
      BY <1>0, <1>1, <1>6, <2>2, EndType, CalmStep DEF NoEntry, Calling
    <2> QED
      BY <2>1, <2>2
  <1>7. CASE Fail(o)
    <2>1. rule'.applied = rule.applied /\ (rule'.held <=> rule.held)
      <3>1. op[o].step = "fail"
        BY <1>7 DEF Fail
      <3> QED
        BY <1>0, <1>7, <3>1, OutcomeType DEF RuleRecord
    <2>2. op'[o] = Idle /\ \A p \in Op : p # o => op'[p] = op[p]
      BY <1>7, OutcomeType
    <2> QED
      BY <1>0, <1>1, <2>1, <2>2 DEF Calm, Calling
  <1> QED
    BY <1>2, <1>3, <1>4, <1>5, <1>6, <1>7

---------------------------------------------------------------------------
(* Getting the leases, and the mark: the first call is about to be made.   *)

\* The first call of an operation, to the exit or the entry, keeps the invariant.
LEMMA FirstCallKeeps ==
  ASSUME TypeInv, TypeInv', Shapes, Leases, Leases', Guards, Order, Release, Together, NEW o \in Op,
         AcquireForwardLeases(o) \/ MarkProvisioning(o)
  PROVE  Guards' /\ Order' /\ Release' /\ Together'
  <1>0. op \in [Op -> Operation] /\ rule \in RuleRecord /\ op[o] \in Operation /\ Shape(op[o])
    BY OpType DEF TypeInv
  <1>1. /\ UNCHANGED <<guards, late, faults>>
        /\ rule'.held = rule.held /\ rule'.applied = rule.applied
    BY <1>0 DEF AcquireForwardLeases, MarkProvisioning, RuleRecord
  <1>2. Guards' /\ (\A j \in Hop : Onward(j) /\ Untouched(j)) /\ phase' = phase /\ gen' = gen
    BY <1>1, StillFacts DEF guards
  <1>3. /\ \A p \in Op : p # o => op'[p] = op[p]
        /\ op'[o].step \in {"mark", "call", "finish"}
        /\ op'[o].step = "call" => op'[o].hop = 1 \/ op'[o].call # "remove"
        /\ op'[o].step = "call" /\ op'[o].call = "apply" => op'[o].hop = N
        /\ op'[o].step = "call" /\ op'[o].kind = "delete" => op'[o].hop = 1
        /\ op'[o].step = "finish" => op'[o].hop = 0
    <2>1. CASE AcquireForwardLeases(o)
      <3>1. /\ op' = [op EXCEPT ![o] = Acquired(op[o])] /\ op[o].step = "wait"
            /\ op[o].hop = 0 => op[o].call # "suspend"
        BY <2>1 DEF AcquireForwardLeases, Become, Acquired
      <3> QED
        BY <1>0, <3>1, AcquiredShape
    <2>2. CASE MarkProvisioning(o)
      <3>1. op' = [op EXCEPT ![o] = Marked(op[o])] /\ op[o].step = "mark"
        BY <2>2 DEF MarkProvisioning, Become, Marked
      <3>2. op'[o].kind # "delete"
        BY <1>0, <3>1, MarkedShape DEF Deploys
      <3> QED
        BY <1>0, <3>1, <3>2, MarkedShape
    <2> QED
      BY <2>1, <2>2
  <1>4. op'[o].step = "finish" => ~rule'.held
    BY <1>3 DEF Leases, Hopless, Working
  <1>5. \A j \in Hop : ~(j > N) /\ ~(j < 1)
    BY HopFacts
  <1>6. Following(o)' /\ Releasing(o)' /\ Found(o)' /\ Alone(o)'
    <2>1. Following(o)' /\ Alone(o)'
      BY <1>3, <1>5 DEF Following, Alone, BehindAt, Calling
    <2>2. Releasing(o)' /\ Found(o)'
      BY <1>3, <1>4, <1>5 DEF Releasing, Found, Calling
    <2> QED
      BY <2>1, <2>2
  <1>7. ASSUME NEW p \in Op, p # o
        PROVE  Following(p)' /\ Releasing(p)' /\ Found(p)' /\ (faults = 0 => Alone(p)')
    <2>1. op'[p] = op[p] /\ Following(p) /\ Releasing(p) /\ Found(p) /\ (faults = 0 => Alone(p))
      BY <1>3, <1>7 DEF Order, Release, Together
    <2>2. Following(p)' /\ Releasing(p)' /\ Found(p)'
      BY <1>1, <1>2, <2>1, FollowingKept, ReleasingKept
    <2> QED
      BY <1>2, <2>1, <2>2 DEF Alone
  <1>8. EntryLast' /\ EntryKnown'
    BY <1>2 DEF Order, EntryLast, EntryKnown
  <1>9. Order'
    <2>1. \A m \in late' : m.call = "apply" => m \in late
      BY <1>1
    <2> QED
      BY <1>2, <1>6, <1>7, <1>8, <2>1, LateKept DEF Order
  <1>10. Release'
    BY <1>1, <1>2, <1>6, <1>7 DEF Release
  <1>11. Together'
    BY <1>1, <1>6, <1>7 DEF Together
  <1> QED
    BY <1>2, <1>9, <1>10, <1>11

---------------------------------------------------------------------------
(* The steps of a call, under the leases.                                  *)

\* Everything but the operation that holds the leases.
LEMMA HolderKeeps ==
  ASSUME TypeInv, TypeInv', Shapes, Leases, Guards, Order, Release, Together, NEW o \in Op,
         holder = o, \A p \in Op : p # o => op'[p] = op[p], rule' = rule,
         \A j \in Hop : Onward(j), Guards', EntryLast', EntryKnown',
         \A m \in late' : m.call = "apply" => m \in late \/ BehindAt(m.hop, m.gen)',
         Following(o)', Releasing(o)', Found(o)',
         faults' = 0 => faults = 0 /\ late' = late /\ Alone(o)'
  PROVE  Guards' /\ Order' /\ Release' /\ Together'
  <1>1. ASSUME NEW p \in Op, p # o
        PROVE  Following(p)' /\ Releasing(p)' /\ Found(p)' /\ (faults = 0 => Alone(p)')
    <2>1. op'[p] = op[p] /\ Following(p) /\ Releasing(p) /\ Found(p)
      BY <1>1 DEF Order, Release
    <2>2. op[p].step \notin Calling /\ (op[p].step = "finish" => op[p].hop = 0)
      <3>1. op[p].step \in Calling => op[p].hop # 0
        BY OpType, HopFacts
      <3> QED
        BY <1>1, <3>1 DEF Leases, Leased, Working, Calling
    <2>3. Following(p)'
      BY <2>1, FollowingKept
    <2>4. Releasing(p)' /\ Found(p)'
      BY <2>1, <2>2, ReleasingKept DEF Calling
    <2>5. Alone(p)'
      BY <2>1, <2>2 DEF Alone, Calling
    <2> QED
      BY <2>3, <2>4, <2>5
  <1>2. (\A m \in late : m.call = "apply" => BehindAt(m.hop, m.gen))'
    <2>1. ASSUME NEW m \in late', m.call = "apply"
          PROVE  BehindAt(m.hop, m.gen)'
      <3>1. CASE m \in late
        <4>1. m.gen \in 0..MaxGen /\ BehindAt(m.hop, m.gen)
          BY <2>1, <3>1 DEF TypeInv, LateCall, Order
        <4> QED
          BY <4>1, BehindKept
      <3> QED
        BY <2>1, <3>1
    <2> QED
      BY <2>1 DEF BehindAt
  <1>3. Order'
    BY <1>1, <1>2 DEF Order
  <1>4. Release'
    BY <1>1, EntryStaysKnown DEF Release
  <1>5. Together'
    BY <1>1 DEF Together
  <1> QED
    BY <1>3, <1>4, <1>5

\* A generation that is known behind a hop, and at it, is known from the hop on.
LEMMA BehindNext ==
  ASSUME NEW h \in Hop, NEW g, BehindAt(h, g)', gen'[h] >= g
  PROVE  BehindAt(h - 1, g)'
  <1>1. \A j \in Hop : j > h - 1 => j = h \/ j > h
    BY HopFacts
  <1> QED
    BY <1>1 DEF BehindAt

\* The acknowledgement of hop h takes an operation on: to the next hop, or to its end.
LEMMA ProceedKeeps ==
  ASSUME TypeInv, TypeInv', Shapes, Leases, Leases', Guards, Order, Release, Together, NEW o \in Op,
         op[o].step \in Calling, holder = o,
         NEW h \in Hop, NEW g \in 0..MaxGen, op[o].hop = h, op[o].hgen = g,
         op' = [op EXCEPT ![o] = proceed(op[o])], UNCHANGED <<rule, late, faults>>,
         \A j \in Hop : Onward(j), Guards', EntryLast', EntryKnown',
         op[o].call = "apply" => gen'[h] >= g,
         op[o].call = "apply" /\ faults = 0 =>
           gen' = gen /\ gen[h] = g,
         op[o].kind = "delete" /\ rule.held /\ rule.applied > 0 => Doomed(h)',
         op[o].kind # "delete" => phase'[h] # "none"
  PROVE  Guards' /\ Order' /\ Release' /\ Together'
  <1> DEFINE rec == op[o]
             next == proceed(op[o])
  <1>0. h \in Nat /\ h >= 1 /\ h <= N /\ N \in Nat /\ g \in Nat
        /\ \A j \in Hop : j \in Nat /\ j >= 1 /\ j <= N
    BY HopFacts, ForwardAssumption
  <1>1. rec \in Operation /\ Shape(rec) /\ rec.hop = h /\ rec.hgen = g
        /\ op \in [Op -> Operation]
    BY OpType DEF TypeInv
  <1>2. op'[o] = next /\ \A p \in Op : p # o => op'[p] = op[p]
    BY <1>1
  <1>3. /\ next.kind = rec.kind /\ next.call = rec.call /\ next.hgen = g
        /\ next.step \in {"call", "finish", "fail"}
        /\ next.step = "call" /\ rec.call = "apply" => next.hop = h - 1
        /\ next.step = "call" /\ rec.kind = "delete" => next.hop = h + 1
        /\ next.step = "finish" /\ rec.call = "apply" => h = 1
        /\ next.step = "finish" /\ rec.kind = "delete" => h = N
        /\ next.step = "finish" /\ rec.kind # "delete" => h = 1
    BY <1>1, Proceeds
  <1>4. Following(o) /\ Releasing(o) /\ (faults = 0 => Alone(o))
    BY DEF Order, Release, Together
  <1> HIDE DEF next
  <1>5. Following(o)'
    <2>1. CASE next.step = "call" /\ rec.call = "apply"
      <3>1. BehindAt(h, g)'
        BY <1>1, <1>4, <2>1, BehindKept DEF Following
      <3>2. BehindAt(h - 1, g)'
        BY <2>1, <3>1, BehindNext
      <3>3. op'[o].step = "call" /\ op'[o].hop = h - 1 /\ op'[o].hgen = g
        BY <1>2, <1>3, <2>1
      <3> QED
        BY <3>2, <3>3 DEF Following, BehindAt
    <2>2. CASE ~(next.step = "call" /\ rec.call = "apply")
      BY <1>2, <1>3, <2>2 DEF Following, Calling
    <2> QED
      BY <2>1, <2>2
  <1>6. Releasing(o)'
    <2>1. CASE rec.kind = "delete" /\ rule.held /\ rule.applied > 0
      <3>1. \A j \in Hop : j <= h => Doomed(j)'
        <4>1. ASSUME NEW j \in Hop, j < h
              PROVE  Doomed(j)'
          BY <1>4, <2>1, <4>1 DEF Releasing, Onward
        <4>2. \A j \in Hop : j <= h => j < h \/ j = h
          BY <1>0
        <4> QED
          BY <2>1, <4>1, <4>2
      <3>2. \A j \in Hop : (j < h + 1 => j <= h) /\ j <= N
        BY <1>0
      <3>3. \A j \in Hop : Doomed(j)' <=> phase'[j] \in {"dooming", "gone"} /\ j \notin live'
        BY DEF Doomed
      <3> QED
        BY <1>2, <1>3, <2>1, <3>1, <3>2, <3>3 DEF Releasing, Calling, Doomed
    <2>2. CASE ~(rec.kind = "delete" /\ rule.held /\ rule.applied > 0)
      BY <1>2, <1>3, <2>2 DEF Releasing, Calling
    <2> QED
      BY <2>1, <2>2
  <1>7. Found(o)'
    BY <1>2, <1>3 DEF Found
  <1>8. faults' = 0 => faults = 0 /\ late' = late /\ Alone(o)'
    <2>1. CASE faults = 0 /\ rec.call = "apply"
      <3>1. gen' = gen /\ gen[h] = g /\ \A j \in Hop : j > h => gen[j] = g
        BY <1>4, <2>1 DEF Alone
      <3>2. \A j \in Hop : /\ j > h - 1 => j = h \/ j > h
                           /\ h = 1 => j = h \/ j > h
        BY <1>0
      <3> QED
        BY <1>2, <1>3, <2>1, <3>1, <3>2 DEF Alone, Calling
    <2>2. CASE rec.call # "apply"
      BY <1>2, <1>3, <2>2 DEF Alone
    <2> QED
      BY <2>1, <2>2
  <1>9. \A m \in late' : m.call = "apply" => m \in late \/ BehindAt(m.hop, m.gen)'
    OBVIOUS
  <1> QED
    BY <1>2, <1>5, <1>6, <1>7, <1>8, <1>9, HolderKeeps

\* A call its guard has carried out before is acknowledged at once, and keeps it.
LEMMA RepeatKeeps ==
  ASSUME TypeInv, TypeInv', Shapes, Leases, Leases', Guards, Order, Release, Together, NEW o \in Op,
         Repeat(o)
  PROVE  Guards' /\ Order' /\ Release' /\ Together'
  <1> DEFINE rec == op[o]
  <1>0. PICK h \in Hop, g \in 0..MaxGen : rec.hop = h /\ rec.hgen = g /\ g \in Nat
    <2>1. rec.step \in Calling
      BY DEF Repeat, Acknowledge, Calling
    <2> QED
      BY <2>1, OpType
  <1>1. /\ rec.step \in Calling /\ idempotent(rec.call, h, g)
        /\ op' = [op EXCEPT ![o] = proceed(op[o])]
        /\ UNCHANGED <<rule, guards, late, faults>>
    BY <1>0 DEF Repeat, Become, Calling
  <1>2. holder = o
    BY CallLeases
  <1>3. rec \in Operation /\ Shape(rec) /\ rec.hop = h /\ rec.hgen = g
    BY <1>0, <1>1, OpType
  <1>4. Guards' /\ (\A j \in Hop : Onward(j)) /\ phase' = phase /\ gen' = gen /\ live' = live
    BY <1>1, StillFacts DEF guards
  <1>5. EntryLast' /\ EntryKnown'
    BY <1>4 DEF Order, EntryLast, EntryKnown
  <1>6. rec.call = "apply" => gen[h] = g /\ phase[h] = "serving"
    BY <1>1 DEF idempotent
  <1>7. rec.call = "suspend" => phase[h] = "parked"
    BY <1>1 DEF idempotent
  <1>8. rec.call = "remove" => phase[h] \in {"none", "gone"}
    BY <1>1 DEF idempotent
  <1>9. rec.kind # "delete" => rec.call \in {"apply", "suspend"}
    BY <1>1, <1>3 DEF Operation, Shape, Working, Calling, Kind, Deploys
  <1>10. rec.kind = "delete" => rec.call = "remove"
    BY <1>1, <1>3 DEF Shape, Working, Calling
  <1>11. rec.kind = "delete" /\ rule.held /\ rule.applied > 0 => Doomed(h)'
    <2>1. ASSUME rec.kind = "delete", rule.held, rule.applied > 0
          PROVE  phase[h] = "gone" /\ h \notin live
      <3>1. \A j \in Hop : gen[j] \in Nat
        BY ForwardAssumption DEF TypeInv
      <3>2. gen[1] > 0
        <4>1. phase[1] # "none"
          BY <2>1 DEF Release
        <4>2. gen[1] # 0 /\ gen[1] \in Nat
          BY <3>1, <4>1, HopFacts DEF Guards
        <4> QED
          BY <4>2
      <3>3. gen[h] > 0
        BY <1>3, <3>2 DEF Order, EntryKnown
      <3>4. phase[h] # "none"
        BY <1>3, <3>1, <3>3 DEF Guards
      <3>5. phase[h] = "gone"
        BY <1>8, <1>10, <2>1, <3>4
      <3> QED
        BY <1>3, <3>5 DEF Guards
    <2> QED
      BY <1>4, <2>1 DEF Doomed
  <1>12. rec.call = "apply" => gen'[h] >= g
    BY <1>3, <1>4, <1>6
  <1>13. rec.kind # "delete" => phase'[h] # "none"
    BY <1>4, <1>6, <1>7, <1>9
  <1> QED
    BY <1>0, <1>1, <1>2, <1>4, <1>5, <1>6, <1>11, <1>12, <1>13, ProceedKeeps

\* An acknowledged call keeps it.
LEMMA AcknowledgeKeeps ==
  ASSUME TypeInv, TypeInv', Shapes, Leases, Leases', Guards, Order, Release, Together, NEW o \in Op,
         Acknowledge(o)
  PROVE  Guards' /\ Order' /\ Release' /\ Together'
  <1> DEFINE rec == op[o]
  <1>0. PICK h \in Hop, g \in 0..MaxGen : rec.hop = h /\ rec.hgen = g /\ g \in Nat
    <2>1. rec.step \in Calling
      BY DEF Repeat, Acknowledge, Calling
    <2> QED
      BY <2>1, OpType
  <1>1. /\ rec.step = "busy" /\ rec.step \in Calling
        /\ op' = [op EXCEPT ![o] = proceed(op[o])]
        /\ UNCHANGED <<rule, late, faults>>
        /\ IF rec.call = "apply" THEN Guard!Appear(h) ELSE Guard!Rest(h)
    BY <1>0 DEF Acknowledge, Become, Calling
  <1>2. holder = o
    BY CallLeases
  <1>3. rec \in Operation /\ Shape(rec) /\ rec.hop = h /\ rec.hgen = g
    BY <1>0, <1>1, OpType
  <1>4. Moves(h)
    BY <1>1 DEF Moves
  <1>5. Guards' /\ \A j \in Hop : Onward(j)
    BY <1>3, <1>4, MoveFacts
  <1>6. EntryLast' /\ EntryKnown'
    <2>1. \A n \in 0..MaxGen : ~Guard!Serve(h, n)
      <3>1. phase'[h] # "serving" \/ gen' = gen
        BY <1>1, <1>3 DEF Guard!Appear, Guard!Rest, Guard!To, TypeInv
      <3>2. ASSUME NEW n \in 0..MaxGen, Guard!Serve(h, n)
            PROVE  FALSE
        <4>1. phase'[h] = "serving" /\ gen'[h] = n /\ n > gen[h]
          BY <1>3, <3>2 DEF Guard!Serve, Guard!To, TypeInv
        <4>2. gen[h] \in Nat
          BY <1>3, ForwardAssumption DEF TypeInv
        <4> QED
          BY <3>1, <4>1, <4>2, ForwardAssumption
      <3> QED
        BY <3>2
    <2> QED
      BY <1>3, <1>4, <2>1, EntryKept
  <1>7. rec.call = "apply" => phase[h] = "serving" /\ phase' = phase /\ gen' = gen
    BY <1>1 DEF Guard!Appear
  <1>8. rec.call # "apply" => /\ phase'[h] # "none" /\ h \notin live'
                              /\ phase[h] = "dooming" => phase'[h] = "gone"
    BY <1>1, <1>3 DEF Guard!Rest, Guard!To, TypeInv
  <1>9. rec.call = "apply" => gen[h] >= g
    BY <1>0, <1>1 DEF Order, Following
  <1>10. rec.call = "apply" /\ faults = 0 => gen[h] = g
    BY <1>0, <1>1 DEF Together, Alone
  <1>11. rec.kind = "delete" => Doomed(h)'
    <2>1. rec.kind = "delete" => rec.call # "apply" /\ phase[h] = "dooming"
      BY <1>0, <1>1, <1>3 DEF Shape, Working, Release, Releasing
    <2> QED
      BY <1>8, <2>1 DEF Doomed
  <1> QED
    BY <1>0, <1>1, <1>2, <1>5, <1>6, <1>7, <1>8, <1>9, <1>10, <1>11, ProceedKeeps

\* An accepted call keeps it, though its guard comes to a newer generation.
LEMMA AcceptKeeps ==
  ASSUME TypeInv, TypeInv', Shapes, Leases, Guards, Order, Release, Together, NEW o \in Op, Accept(o)
  PROVE  Guards' /\ Order' /\ Release' /\ Together'
  <1> DEFINE rec == op[o]
  <1>1. /\ op[o].step = "call" /\ op[o].step \in Calling /\ UNCHANGED <<rule, late, faults>>
        /\ op' = [op EXCEPT ![o] = [op[o] EXCEPT !.step = "busy"]]
        /\ accept(rec.call, rec.hop, rec.hgen) /\ rec.call \in {"apply", "suspend", "remove"}
        /\ Moves(rec.hop)
    BY AcceptType DEF Accept, Calling
  <1>2. holder = o
    BY CallLeases
  <1>3. rec \in Operation /\ Shape(rec) /\ rec.hop \in Hop /\ rec.hgen \in 0..MaxGen /\ rec.hgen \in Nat
        /\ op \in [Op -> Operation]
    BY <1>1, OpType DEF TypeInv
  <1>4. Guards' /\ \A j \in Hop : Onward(j) /\ (j # rec.hop => Untouched(j))
    BY <1>1, <1>3, MoveFacts
  <1>5. /\ rec.call = "apply" => Guard!Serve(rec.hop, rec.hgen)
        /\ rec.call = "suspend" => Guard!Close(rec.hop, rec.hgen)
        /\ rec.call = "remove" => Guard!Doom(rec.hop, rec.hgen)
    BY <1>1, <1>3, CallMoves
  <1>6. gen'[rec.hop] = rec.hgen
        /\ (rec.call # "apply" => phase'[rec.hop] # "serving")
        /\ (rec.call = "remove" => phase'[rec.hop] = "dooming")
    BY <1>1, <1>3, <1>5 DEF Guard!Serve, Guard!Close, Guard!Doom, Guard!To, TypeInv
  <1>7. op'[o] = [rec EXCEPT !.step = "busy"] /\ \A p \in Op : p # o => op'[p] = op[p]
    BY <1>1, <1>3
  <1>8. /\ op'[o].step = "busy" /\ op'[o].call = rec.call /\ op'[o].kind = rec.kind
        /\ op'[o].hop = rec.hop /\ op'[o].hgen = rec.hgen
    BY <1>3, <1>7 DEF Operation
  <1>9. Following(o) /\ Releasing(o) /\ (faults = 0 => Alone(o))
    BY DEF Order, Release, Together
  <1>10. EntryLast' /\ EntryKnown'
    <2>1. ASSUME NEW g \in 0..MaxGen, rec.hop = 1, Guard!Serve(rec.hop, g)
          PROVE  BehindAt(1, g)
      <3>1. gen'[rec.hop] = g /\ phase'[rec.hop] = "serving"
        BY <1>3, <2>1 DEF Guard!Serve, Guard!To, TypeInv
      <3>2. g = rec.hgen /\ rec.call = "apply"
        BY <1>6, <3>1
      <3> QED
        BY <1>1, <1>9, <2>1, <3>2 DEF Following
    <2> QED
      BY <1>1, <1>3, <2>1, EntryKept
  <1>11. Following(o)'
    <2>1. CASE rec.call = "apply"
      <3>1. BehindAt(rec.hop, rec.hgen)'
        BY <1>1, <1>3, <1>4, <1>9, <2>1, BehindKept DEF Following
      <3>2. gen'[rec.hop] >= rec.hgen
        BY <1>3, <1>6
      <3> QED
        BY <1>8, <3>1, <3>2 DEF Following, BehindAt
    <2>2. CASE rec.call # "apply"
      BY <1>8, <2>2 DEF Following
    <2> QED
      BY <2>1, <2>2
  <1>12. Releasing(o)' /\ Found(o)'
    <2>1. rec.kind = "delete" => rec.call = "remove"
      BY <1>1, <1>3 DEF Shape, Working
    <2>2. \A j \in Hop : Doomed(j) => Doomed(j)'
      BY <1>4 DEF Onward
    <2> QED
      BY <1>1, <1>6, <1>8, <1>9, <2>1, <2>2 DEF Releasing, Found, Calling, Doomed
  <1>13. faults' = 0 => faults = 0 /\ late' = late /\ Alone(o)'
    <2>1. \A j \in Hop : j > rec.hop => j # rec.hop
      BY <1>3, HopFacts
    <2>2. \A j \in Hop : j > rec.hop => gen'[j] = gen[j]
      BY <1>4, <2>1 DEF Untouched
    <2> QED
      BY <1>1, <1>6, <1>8, <1>9, <2>2 DEF Alone, Calling
  <1>14. \A m \in late' : m.call = "apply" => m \in late \/ BehindAt(m.hop, m.gen)'
    BY <1>1
  <1> QED
    BY <1>1, <1>2, <1>4, <1>7, <1>10, <1>11, <1>12, <1>13, <1>14, HolderKeeps

\* A call refused, lost, or sent again.
LEMMA FailKeeps ==
  ASSUME TypeInv, TypeInv', Shapes, Leases, Guards, Order, Release, Together, NEW o \in Op,
         Refuse(o) \/ Lost(o) \/ Resend(o)
  PROVE  Guards' /\ Order' /\ Release' /\ Together'
  <1>1. /\ op[o].step \in Calling /\ holder = o /\ UNCHANGED <<rule, guards>>
        /\ op \in [Op -> Operation]
    BY CallLeases DEF Refuse, Lost, Resend, TypeInv
  <1>2. Guards' /\ (\A j \in Hop : Onward(j)) /\ phase' = phase /\ gen' = gen /\ live' = live
    BY <1>1, StillFacts DEF guards
  <1>3. EntryLast' /\ EntryKnown'
    BY <1>2 DEF Order, EntryLast, EntryKnown
  <1>4. (late' = late /\ faults' = faults) \/ (Forget({o}) /\ faults' # 0)
    <2>1. CASE Refuse(o)
      BY <2>1 DEF Refuse
    <2>2. CASE Lost(o) \/ Resend(o)
      BY <2>2, FaultType DEF Lost, Resend
    <2> QED
      BY <2>1, <2>2
  <1>5. ASSUME NEW m \in late', m.call = "apply", m \notin late
        PROVE  BehindAt(m.hop, m.gen)'
    <2>1. Forget({o})
      BY <1>4, <1>5
    <2>2. op[o].step = "call" /\ op[o].call = "apply" /\ m.hop = op[o].hop /\ m.gen = op[o].hgen
      BY <1>5, <2>1, ForgetType
    <2>3. BehindAt(m.hop, m.gen)
      BY <1>1, <2>2 DEF Order, Following, BehindAt
    <2> QED
      BY <1>2, <2>3 DEF BehindAt
  <1>6. /\ \A p \in Op : p # o => op'[p] = op[p]
        /\ Following(o)' /\ Releasing(o)' /\ Found(o)' /\ (faults' = 0 => Alone(o)')
    <2>1. CASE Refuse(o) \/ Lost(o)
      <3>1. Fails(o)
        BY <2>1 DEF Refuse, Lost
      <3>2. /\ \A p \in Op : p # o => op'[p] = op[p]
            /\ \/ op'[o] = Idle
               \/ /\ op'[o].step \in {"call", "fail"} /\ op'[o].kind = op[o].kind
                  /\ op'[o].step = "call" => op'[o].call = "suspend" /\ op[o].kind # "delete"
        BY <1>1, <3>1, FailsType
      <3> QED
        BY <3>2, ReleasingElsewhere DEF Idle, Following, Releasing, Found, Alone, Calling
    <2>2. CASE Resend(o)
      <3>1. op' = [op EXCEPT ![o] = [op[o] EXCEPT !.step = "call"]] /\ faults' # 0
        BY <2>2, FaultType DEF Resend, Become
      <3>2. /\ op'[o].step = "call" /\ op'[o].call = op[o].call /\ op'[o].kind = op[o].kind
            /\ op'[o].hop = op[o].hop /\ op'[o].hgen = op[o].hgen
            /\ \A p \in Op : p # o => op'[p] = op[p]
        BY <1>1, <3>1 DEF Operation
      <3>3. Following(o) /\ Releasing(o)
        BY DEF Order, Release
      <3> QED
        BY <1>1, <1>2, <3>1, <3>2, <3>3
        DEF Following, BehindAt, Releasing, Found, Doomed, Calling
    <2> QED
      BY <2>1, <2>2
  <1>7. faults' = 0 => faults = 0 /\ late' = late /\ Alone(o)'
    BY <1>4, <1>6
  <1> QED
    BY <1>1, <1>2, <1>3, <1>5, <1>6, <1>7, HolderKeeps

---------------------------------------------------------------------------
(* The guards and the late calls, between the steps of the operations.     *)

\* A guard that moves beside the operations keeps it.
LEMMA AsideKeeps ==
  ASSUME TypeInv, TypeInv', Shapes, Guards, Order, Release, Together,
         NEW h \in Hop, Moves(h), UNCHANGED <<rule, op>>,
         EntryLast', EntryKnown',
         \A m \in late' : m.call = "apply" => m \in late,
         phase' = phase \/ ~busyWith(h),
         faults' = 0 => faults = 0 /\ gen' = gen /\ late' = late
  PROVE  Guards' /\ Order' /\ Release' /\ Together'
  <1>1. Guards' /\ \A j \in Hop : Onward(j) /\ (j # h => Untouched(j))
    BY MoveFacts
  <1>2. ASSUME NEW p \in Op
        PROVE  Following(p)' /\ Releasing(p)' /\ Found(p)' /\ (faults' = 0 => Alone(p)')
    <2>1. op'[p] = op[p] /\ Following(p) /\ Releasing(p) /\ Found(p) /\ (faults = 0 => Alone(p))
      BY DEF Order, Release, Together
    <2>2. Following(p)'
      BY <1>1, <2>1, FollowingKept
    <2>3. op[p].step = "busy" => phase'[op[p].hop] = phase[op[p].hop]
      <3>1. CASE phase' = phase
        BY <3>1
      <3>2. CASE ~busyWith(h) /\ op[p].step = "busy"
        <4>1. op[p].hop # h /\ op[p].hop \in Hop
          BY <3>2, OpType DEF busyWith, Calling
        <4> QED
          BY <1>1, <4>1 DEF Untouched
      <3> QED
        BY <3>1, <3>2
    <2>4. Releasing(p)' /\ Found(p)'
      BY <1>1, <2>1, <2>3, ReleasingKept
    <2>5. faults' = 0 => Alone(p)'
      BY <2>1 DEF Alone
    <2> QED
      BY <2>2, <2>4, <2>5
  <1>3. Order'
    BY <1>1, <1>2, LateKept DEF Order
  <1>4. Release'
    BY <1>1, <1>2, EntryStaysKnown DEF Release
  <1>5. Together'
    BY <1>2 DEF Together
  <1> QED
    BY <1>1, <1>3, <1>4, <1>5

\* A late call that is carried out keeps it.
LEMMA LateKeeps ==
  ASSUME TypeInv, TypeInv', Shapes, Guards, Order, Release, Together,
         NEW m \in late, LateAccept(m) \/ LateAppear(m)
  PROVE  Guards' /\ Order' /\ Release' /\ Together'
  <1>1. /\ m \in LateCall /\ Moves(m.hop) /\ UNCHANGED <<rule, op, faults>>
        /\ \A n \in late' : n.call = "apply" => n \in late
        /\ m.hop \in Hop /\ m.gen \in 0..MaxGen
    BY LateType DEF LateCall
  <1>2. phase' = phase \/ ~busyWith(m.hop)
    BY LateType DEF LateAppear, Guard!Appear
  <1>3. ASSUME NEW g \in 0..MaxGen, m.hop = 1, Guard!Serve(m.hop, g)
        PROVE  BehindAt(1, g)
    <2>1. gen'[m.hop] = g /\ phase'[m.hop] = "serving" /\ g > gen[m.hop] /\ gen[m.hop] \in Nat
      BY <1>1, <1>3, ForwardAssumption DEF Guard!Serve, Guard!To, TypeInv
    <2>2. LateAccept(m)
      <3>1. CASE LateAppear(m)
        <4>1. gen' = gen
          BY <3>1 DEF LateAppear, Guard!Appear
        <4> QED
          BY <2>1, <4>1
      <3> QED
        BY <3>1
    <2>3. m.call \in {"apply", "suspend", "remove"} /\ accept(m.call, m.hop, m.gen)
      BY <2>2, LateType
    <2>4. m.call = "apply" /\ Guard!Serve(m.hop, m.gen)
      <3>1. CASE m.call = "suspend"
        BY <1>1, <2>1, <2>3, <3>1, CallMoves DEF Guard!Close, Guard!To, TypeInv
      <3>2. CASE m.call = "remove"
        BY <1>1, <2>1, <2>3, <3>2, CallMoves DEF Guard!Doom, Guard!To, TypeInv
      <3>3. CASE m.call = "apply"
        BY <1>1, <2>3, <3>3, CallMoves
      <3> QED
        BY <2>3, <3>1, <3>2, <3>3
    <2>5. g = m.gen
      BY <1>1, <2>1, <2>4 DEF Guard!Serve, Guard!To, TypeInv
    <2> QED
      BY <1>3, <2>4, <2>5 DEF Order
  <1>4. EntryLast' /\ EntryKnown'
    BY <1>1, <1>3, EntryKept
  <1>5. faults # 0
    BY DEF Together
  <1> QED
    BY <1>1, <1>2, <1>4, <1>5, AsideKeeps

\* Guards that withdraw, rest or lapse keep it.
LEMMA GuardKeeps ==
  ASSUME TypeInv, TypeInv', Shapes, Guards, Order, Release, Together,
         NEW h \in Hop, GuardStep(h) \/ LeaseLapses(h)
  PROVE  Guards' /\ Order' /\ Release' /\ Together'
  <1>1. /\ Moves(h) /\ UNCHANGED <<rule, op, late>> /\ gen' = gen /\ (faults' = 0 => faults = 0)
        /\ phase' = phase \/ ~busyWith(h)
    BY GuardType DEF GuardStep
  <1>2. ASSUME NEW g \in 0..MaxGen, Guard!Serve(h, g)
        PROVE  FALSE
    <2>1. gen'[h] = g /\ g > gen[h] /\ gen[h] \in Nat
      BY <1>2, ForwardAssumption DEF Guard!Serve, Guard!To, TypeInv
    <2> QED
      BY <1>1, <2>1
  <1>3. EntryLast' /\ EntryKnown'
    BY <1>1, <1>2, EntryKept
  <1> QED
    BY <1>1, <1>3, AsideKeeps

---------------------------------------------------------------------------
(* Outcomes, and operations cut short.                                     *)

\* A recorded success keeps it.
LEMMA FinishKeeps ==
  ASSUME TypeInv, TypeInv', Shapes, Leases, Guards, Order, Release, Together, NEW o \in Op, Finish(o)
  PROVE  Guards' /\ Order' /\ Release' /\ Together'
  <1>1. /\ op'[o] = Idle /\ \A p \in Op : p # o => op'[p] = op[p]
        /\ rule'.held => rule.held
        /\ rule'.applied # rule.applied => op[o].kind \in Deploys \union {"suspend", "retry"}
        /\ UNCHANGED <<guards, late, faults>> /\ op[o].step = "finish"
    BY OutcomeType DEF Finish
  <1>2. Guards' /\ (\A j \in Hop : Onward(j)) /\ phase' = phase /\ gen' = gen /\ live' = live
    BY <1>1, StillFacts DEF guards
  <1>3. EntryLast' /\ EntryKnown'
    BY <1>2 DEF Order, EntryLast, EntryKnown
  <1>4. rule.held => op[o].hop # 0 /\ holder = o
    BY <1>1 DEF Leases, Hopless, Leased, Working
  <1>5. ASSUME NEW p \in Op
        PROVE  Following(p)' /\ Releasing(p)' /\ Found(p)' /\ (faults = 0 => Alone(p)')
    <2>1. CASE p = o
      <3>1. op'[p].step \notin Calling \union {"finish"}
        BY <1>1, <2>1 DEF Idle, Calling
      <3> QED
        BY <3>1, ReleasingElsewhere
    <2>2. CASE p # o
      <3>1. op'[p] = op[p] /\ Following(p) /\ Releasing(p) /\ Found(p) /\ (faults = 0 => Alone(p))
        BY <1>1, <2>2 DEF Order, Release, Together
      <3>2. rule'.held /\ rule'.applied > 0 =>
              (rule.held /\ rule.applied > 0) \/ op[p].step \notin Calling \union {"finish"}
        <4>1. ASSUME rule.held, op[p].step \in Calling \union {"finish"}
              PROVE  FALSE
          <5>1. op[p].hop # 0
            BY <4>1 DEF Leases, Hopless, Working, Calling
          <5>2. holder = p
            BY <4>1, <5>1 DEF Leases, Leased, Working, Calling
          <5> QED
            BY <1>4, <2>2, <4>1, <5>2
        <4> QED
          BY <1>1, <4>1
      <3>3. Following(p)' /\ Releasing(p)' /\ Found(p)'
        BY <1>2, <3>1, <3>2, FollowingKept, ReleasingKept
      <3> QED
        BY <1>2, <3>1, <3>3 DEF Alone
    <2> QED
      BY <2>1, <2>2
  <1>6. Order'
    <2>1. \A m \in late' : m.call = "apply" => m \in late
      BY <1>1
    <2> QED
      BY <1>2, <1>3, <1>5, <2>1, LateKept DEF Order
  <1>7. Release'
    <2>1. ASSUME rule'.held, rule'.applied > 0
          PROVE  phase'[1] # "none"
      <3>1. CASE rule'.applied = rule.applied
        BY <1>1, <1>2, <2>1, <3>1 DEF Release
      <3>2. CASE rule'.applied # rule.applied
        <4>1. op[o].kind # "delete"
          BY <1>1, <3>2 DEF Deploys
        <4> QED
          BY <1>1, <1>2, <1>4, <2>1, <4>1 DEF Release, Found
      <3> QED
        BY <3>1, <3>2
    <2> QED
      BY <1>5, <2>1 DEF Release
  <1>8. Together'
    BY <1>1, <1>5 DEF Together
  <1> QED
    BY <1>2, <1>6, <1>7, <1>8

\* An operation cut short keeps it, and its call is late with what it knew.
LEMMA CutKeeps ==
  ASSUME TypeInv, TypeInv', Shapes, Guards, Order, Release, Together, NEW o \in Op,
         Abandon(o) \/ Restart
  PROVE  Guards' /\ Order' /\ Release' /\ Together'
  <1>1. faults' # 0 /\ UNCHANGED <<rule, guards>>
    BY FaultType
  <1>2. Guards' /\ (\A j \in Hop : Onward(j)) /\ phase' = phase /\ gen' = gen /\ live' = live
    BY <1>1, StillFacts DEF guards
  <1>3. EntryLast' /\ EntryKnown'
    BY <1>2 DEF Order, EntryLast, EntryKnown
  <1>4. \A p \in Op : op'[p] = Idle \/ op'[p] = op[p]
    <2>1. CASE Abandon(o)
      BY <2>1, EndType DEF Abandon
    <2>2. CASE Restart
      BY <2>2 DEF Restart
    <2> QED
      BY <2>1, <2>2
  <1>5. ASSUME NEW p \in Op
        PROVE  Following(p)' /\ Releasing(p)' /\ Found(p)'
    <2>1. CASE op'[p] = Idle
      <3>1. op'[p].step \notin Calling \union {"finish"}
        BY <2>1 DEF Idle, Calling
      <3> QED
        BY <3>1, ReleasingElsewhere
    <2>2. CASE op'[p] = op[p]
      <3>1. Following(p) /\ Releasing(p) /\ Found(p)
        BY DEF Order, Release
      <3> QED
        BY <1>1, <1>2, <2>2, <3>1, FollowingKept, ReleasingKept
    <2> QED
      BY <1>4, <2>1, <2>2
  <1>6. Order'
    <2>1. ASSUME NEW m \in late', m.call = "apply"
          PROVE  BehindAt(m.hop, m.gen)
      <3>1. CASE m \in late
        BY <2>1, <3>1 DEF Order
      <3>2. CASE m \notin late
        <4>1. PICK S \in SUBSET Op : Forget(S)
          BY DEF Abandon, Restart
        <4>2. PICK p \in S : /\ op[p].step = "call" /\ op[p].call = "apply"
                             /\ m.hop = op[p].hop /\ m.gen = op[p].hgen
          BY <2>1, <3>2, <4>1, ForgetType
        <4>3. p \in Op /\ Following(p)
          BY DEF Order
        <4> QED
          BY <4>2, <4>3 DEF Following, Calling, BehindAt
      <3> QED
        BY <3>1, <3>2
    <2>2. (\A m \in late : m.call = "apply" => BehindAt(m.hop, m.gen))'
      BY <1>2, <2>1 DEF BehindAt
    <2> QED
      BY <1>3, <1>5, <2>2 DEF Order
  <1>7. Release'
    BY <1>1, <1>2, <1>5 DEF Release
  <1>8. Together'
    BY <1>1 DEF Together
  <1> QED
    BY <1>2, <1>6, <1>7, <1>8

---------------------------------------------------------------------------
(* The invariant holds.                                                    *)

\* The invariant holds at the start.
LEMMA InitIInv == Init => IInv
  <1> SUFFICES ASSUME Init
               PROVE  IInv
    OBVIOUS
  <1> USE DEF Init, Guard!Init
  <1>1. NoRule \in RuleRecord
    BY IdleShape DEF Idle, Operation
  <1>2. 0 \in 0..MaxGen /\ 0 \in 0..MaxRequest /\ 0 \in 0..MaxFault
    BY ForwardAssumption
  <1>3. TypeInv
    BY <1>1, <1>2, IdleShape DEF TypeInv, Guard!Phase, Cause
  <1>4. Shapes
    BY IdleShape DEF Shapes
  <1>5. Leases
    BY DEF Leases, Leased, Hopless, Idle, Working, NoRule
  <1>6. Guards
    BY DEF Guards
  <1>7. Order
    BY HopFacts DEF Order, EntryLast, EntryKnown, Following, Idle
  <1>8. Release
    BY DEF Release, Releasing, Found, Idle, NoRule
  <1>9. Together
    BY DEF Together, Alone, Idle
  <1> QED
    BY <1>3, <1>4, <1>5, <1>6, <1>7, <1>8, <1>9 DEF IInv

\* Every step keeps the invariant.
LEMMA NextIInv ==
  ASSUME IInv, Next
  PROVE  IInv'
  <1>1. TypeInv /\ Shapes /\ Leases /\ Guards /\ Order /\ Release /\ Together
    BY DEF IInv
  <1>2. TypeInv' /\ Shapes' /\ Leases'
    BY <1>1, NextType, NextLeases
  <1> DEFINE Rest == Guards /\ Order /\ Release /\ Together
  <1>3. ASSUME NEW o \in Request, Arrive(o)
        PROVE  Rest'
    BY <1>1, <1>2, <1>3, RequestCalm, CalmKeeps
  <1>4. ASSUME NEW o \in Op, Advance(o)
        PROVE  Rest'
    <2>1. CASE AcquireForwardLeases(o) \/ MarkProvisioning(o)
      BY <1>1, <1>2, <2>1, FirstCallKeeps
    <2>2. CASE Repeat(o) \/ Accept(o) \/ Refuse(o) \/ Acknowledge(o)
      BY <1>1, <1>2, <2>2, RepeatKeeps, AcceptKeeps, FailKeeps, AcknowledgeKeeps
    <2>3. CASE Finish(o)
      BY <1>1, <1>2, <2>3, FinishKeeps
    <2>4. CASE \/ SetUserForwardDesired(o) \/ PrepareRefused(o) \/ PrepareReads(o)
               \/ PrepareWrites(o) \/ GetUserForward(o) \/ NoEntry(o) \/ Fail(o)
      BY <1>1, <1>2, <2>4, WriteCalm, CalmKeeps
    <2> QED
      BY <1>4, <2>1, <2>2, <2>3, <2>4 DEF Advance
  <1>5. ASSUME NEW o \in Op, Lost(o) \/ Resend(o) \/ Abandon(o)
        PROVE  Rest'
    BY <1>1, <1>2, <1>5, FailKeeps, CutKeeps
  <1>6. ASSUME Entitle
        PROVE  Rest'
    <2>1. Calm
      BY <1>6 DEF Entitle, Calm
    <2> QED
      BY <1>1, <1>2, <2>1, CalmKeeps
  <1>7. ASSUME Reconcile
        PROVE  Rest'
    BY <1>1, <1>2, <1>7, ReconcileCalm, CalmKeeps
  <1>8. ASSUME Restart
        PROVE  Rest'
    BY <1>1, <1>2, <1>8, CutKeeps, HopFacts
  <1>9. ASSUME NEW h \in Hop, GuardStep(h) \/ LeaseLapses(h)
        PROVE  Rest'
    BY <1>1, <1>2, <1>9, GuardKeeps
  <1>10. ASSUME NEW m \in late, LateAccept(m) \/ LateAppear(m)
         PROVE  Rest'
    BY <1>1, <1>2, <1>10, LateKeeps
  <1>11. Rest'
    BY <1>3, <1>4, <1>5, <1>6, <1>7, <1>8, <1>9, <1>10 DEF Next
  <1> QED
    BY <1>2, <1>11 DEF IInv

\* The invariant holds in every reachable state.
LEMMA Inductive == Spec => []IInv
  <1>1. IInv /\ UNCHANGED vars => IInv'
    BY DEF IInv, vars, guards, TypeInv, Shapes, Leases, Leased, Hopless, Guards, Order, EntryLast,
       EntryKnown, Following, BehindAt, Release, Releasing, Found, Doomed, Together, Alone
  <1>2. IInv /\ [Next]_vars => IInv'
    BY <1>1, NextIInv
  <1> QED
    BY <1>2, InitIInv, PTL DEF Spec

\* The rule, its operations and the guards keep their types.
THEOREM TypeCorrect == Spec => []TypeOK
  <1>1. IInv => TypeOK
    BY DEF IInv, TypeInv, TypeOK, RuleRecord, Operation
  <1> QED
    BY <1>1, Inductive, PTL

\* Whatever operations overlap, fail, are cut short or come late, the entry serves a
\* generation only when every hop behind it has come to it.
THEOREM EntryIsLast == Spec => []EntryLast
  <1>1. IInv => EntryLast
    BY DEF IInv, Order
  <1> QED
    BY <1>1, Inductive, PTL

\* As long as no fault has left a late call behind, a deployment that is done has all
\* hops at its own generation: the leases keep every other operation out.
THEOREM AllTogether == Spec => []DeployedTogether
  <1>1. IInv => DeployedTogether
    BY DEF IInv, Together, Alone, DeployedTogether
  <1> QED
    BY <1>1, Inductive, PTL

\* The ports of a forward that was ever deployed are released only when no hop has its
\* inbound and no call, of an operation or late, can bring one back.
THEOREM ReleasedOnlyDoomed == Spec => ReleasedForGood
  <1> DEFINE Safe == rule.held /\ ~rule'.held /\ rule.applied > 0
                       => live = {} /\ \A h \in Hop : phase[h] \in {"dooming", "gone"}
  <1>1. ASSUME IInv, Next
        PROVE  Safe
    <2> SUFFICES ASSUME rule.held, ~rule'.held, rule.applied > 0
                 PROVE  live = {} /\ \A h \in Hop : phase[h] \in {"dooming", "gone"}
      OBVIOUS
    <2>1. TypeInv /\ Shapes /\ Leases /\ Release
      BY <1>1 DEF IInv
    <2>2. PICK o \in Op : Finish(o)
      <3>1. ASSUME Calm
            PROVE  FALSE
        BY <3>1 DEF Calm
      <3>2. ASSUME rule' = rule \/ rule'.held = rule.held
            PROVE  FALSE
        BY <3>2
      <3>3. ASSUME NEW o \in Op, MarkProvisioning(o)
            PROVE  FALSE
        <4>1. rule'.held = rule.held
          BY <2>1, <3>3 DEF MarkProvisioning, TypeInv, RuleRecord
        <4> QED
          BY <3>2, <4>1
      <3>4. ASSUME NEW o \in Op, Advance(o), ~Finish(o)
            PROVE  FALSE
        BY <2>1, <3>1, <3>2, <3>3, <3>4, WriteCalm
        DEF Advance, AcquireForwardLeases, Repeat, Accept, Refuse, Acknowledge
      <3>5. ASSUME NEW o \in Op, Lost(o) \/ Resend(o) \/ Abandon(o)
            PROVE  FALSE
        BY <3>2, <3>5 DEF Lost, Resend, Abandon
      <3>6. ASSUME NEW h \in Hop, GuardStep(h) \/ LeaseLapses(h)
            PROVE  FALSE
        BY <3>2, <3>6 DEF GuardStep, GuardWithdraws, GuardRests, LeaseLapses
      <3>7. ASSUME NEW m \in late, LateAccept(m) \/ LateAppear(m)
            PROVE  FALSE
        BY <3>2, <3>7 DEF LateAccept, LateAppear
      <3>8. ~Entitle /\ ~Restart
        BY <3>2 DEF Entitle, Restart
      <3> QED
        BY <1>1, <2>1, <3>1, <3>4, <3>5, <3>6, <3>7, <3>8, RequestCalm, ReconcileCalm DEF Next
    <2>3. op[o].step = "finish" /\ op[o].kind = "delete"
      BY <2>1, <2>2, OutcomeType
    <2>4. \A h \in Hop : Doomed(h)
      BY <2>1, <2>3 DEF Release, Releasing
    <2> QED
      BY <2>1, <2>4 DEF Doomed, TypeInv
  <1>2. IInv /\ [Next]_vars => [Safe]_vars
    BY <1>1
  <1> QED
    BY <1>2, Inductive, PTL DEF Spec, ReleasedForGood

=============================================================================
