------------------------ MODULE MutationLease_proofs ------------------------
(***************************************************************************)
(* Proofs about MutationLease, for any number of operations on any servers.*)
(* Nothing here depends on the fairness of the locks.                      *)
(***************************************************************************)
EXTENDS MutationLease, FiniteSetTheorems, SequenceTheorems, WellFoundedInduction, TLAPS

---------------------------------------------------------------------------
(* The inductive invariant.                                                *)

\* A lock a mode is for.
Proper(mode, l) == (mode = "mutex" => l = mu) /\ (mode = "own" => l \in Server)

Request == {r \in [mode : Mode, lock : Lock] : Proper(r.mode, r.lock)}
Whole == {"exclusive", "bypass"}      \* what a context remembers as held alone

\* The order of the locks: servers by their identifiers, the mutex last. Where
\* provisioning runs there is none, and a lock is only not asked for twice.
Before(l, m) ==
  IF "provision" \in Kind THEN l # m ELSE l # mu /\ (m = mu \/ l < m)

\* The j-th request to come, of one that holds h and has t to ask for: it comes
\* after everything held by then;
FreshAt(h, t, j) ==
  /\ \A i \in DOMAIN h : Before(h[i].lock, t[j].lock)
  /\ \A i \in 1..(j - 1) : t[i].mode # "leave" => Before(t[i].lock, t[j].lock)

\* or it is for a server that is held by then;
AgainAt(h, t, j) ==
  /\ t[j].mode \in {"shared", "exclusive"}
  /\ \/ \E i \in DOMAIN h : h[i].lock = t[j].lock /\ h[i].mode \in Whole
     \/ \E i \in 1..(j - 1) : t[i].lock = t[j].lock /\ t[i].mode \in Whole

\* or it leaves the mutex, which was the last to be had.
LeaveAt(h, t, j) ==
  /\ t[j].mode = "leave"
  /\ IF j = 1 THEN h # <<>> /\ h[Len(h)].mode = "mutex" ELSE t[j - 1].mode = "mutex"

Foreseen(h, t, j) ==
  \/ t[j].mode # "leave" /\ FreshAt(h, t, j)
  \/ AgainAt(h, t, j)
  \/ LeaveAt(h, t, j)

InOrder(h, t) ==
  /\ \A i, j \in DOMAIN h : i < j => Before(h[i].lock, h[j].lock)
  /\ \A j \in DOMAIN t : Foreseen(h, t, j)

\* The modes an operation of a kind uses.
ModesOf(k) ==
  CASE k = "install" -> {"own"}
    [] k = "prepare" -> {"bypass", "shared"}
    [] OTHER -> {"shared", "exclusive", "mutex", "leave"}

Uses(s, modes) == \A i \in DOMAIN s : s[i].mode \in modes

OpOK(p) ==
  /\ todo[p] \in Seq(Request) /\ held[p] \in Seq(Request)
  /\ status[p] \in {"asking", "parked"} <=> todo[p] # <<>>
  /\ InOrder(held[p], todo[p])
  /\ Uses(todo[p], ModesOf(kind[p])) /\ Uses(held[p], ModesOf(kind[p]) \ {"leave"})
  /\ status[p] = "parked" => todo[p][1].mode # "leave" /\ FreshAt(held[p], todo[p], 1)
  /\ status[p] = "idle" => held[p] = <<>>
  /\ kind[p] = "install" /\ status[p] = "working" => held[p] # <<>>

Vars ==
  /\ active \subseteq Server
  /\ reader \in [Lock -> SUBSET Process] /\ parked \in [Lock -> SUBSET Process]
  /\ writer \in [Lock -> Process \union {NoProcess}]
  /\ status \in [Process -> {"idle", "asking", "parked", "working", "leaving"}]
  /\ kind \in [Process -> Kind \union {"none"}]
  /\ canceled \subseteq Process
  /\ DOMAIN todo = Process /\ DOMAIN held = Process
  /\ todo = [p \in Process |-> todo[p]] /\ held = [p \in Process |-> held[p]]

\* What is held is held in the locks, and alone where that is said.
HeldOK(p) ==
  \A i \in DOMAIN held[p] :
    LET r == held[p][i] IN
    /\ r.mode = "shared" => p \in reader[r.lock]
    /\ r.mode # "shared" => writer[r.lock] = p /\ reader[r.lock] = {}

\* Whoever is in a lock holds it or is about to.
Has(p, l, modes) == \E i \in DOMAIN held[p] : held[p][i].lock = l /\ held[p][i].mode \in modes
Awaits(p, l, modes) == status[p] = "parked" /\ todo[p][1].lock = l /\ todo[p][1].mode \in modes

Aloof == {"exclusive", "own", "bypass", "mutex"}

ReaderOK(l) ==
  \A p \in reader[l] : Has(p, l, {"shared"}) \/ Awaits(p, l, {"shared"})

WriterOK(l) ==
  \A p \in Process : writer[l] = p => Has(p, l, Aloof) \/ Awaits(p, l, Aloof)

ParkedOK(l) ==
  \A p \in parked[l] : p \notin reader[l] /\ Awaits(p, l, {"shared"})

\* An ordinary operation that has not been refused has found no installation
\* of what it holds, and none has begun since.
Undisturbed(p) ==
  kind[p] \notin {"install", "prepare"} /\ status[p] # "leaving" =>
    \A i \in DOMAIN held[p] : held[p][i].lock \notin active

IInv ==
  /\ Vars
  /\ \A p \in Process : OpOK(p) /\ HeldOK(p) /\ Undisturbed(p)
  /\ \A l \in Lock : ReaderOK(l) /\ WriterOK(l) /\ ParkedOK(l)

---------------------------------------------------------------------------
(* Sequences of requests.                                                  *)

LEMMA BeforeDiffers == ASSUME NEW l \in Lock, NEW m \in Lock, Before(l, m) PROVE l # m
  BY LeaseAssumption DEF Before, Lock, mu

\* u is what remains of t after its first request.
Follows(t, u) ==
  /\ u \in Seq(Request) /\ t[1] \in Request /\ 1 \in DOMAIN t
  /\ Len(t) \in Nat \ {0} /\ DOMAIN t = 1..Len(t) /\ DOMAIN u = 1..(Len(t) - 1)
  /\ \A j \in DOMAIN u : u[j] = t[j + 1] /\ j + 1 \in DOMAIN t

\* g is h with the request r.
Extends(h, r, g) ==
  /\ g \in Seq(Request) /\ Len(h) \in Nat
  /\ DOMAIN h = 1..Len(h) /\ DOMAIN g = 1..(Len(h) + 1)
  /\ \A i \in DOMAIN h : g[i] = h[i] /\ h[i] \in Request
  /\ g[Len(h) + 1] = r

\* f is h without its last request.
Drops(h, f) ==
  /\ f \in Seq(Request) /\ h[Len(h)] \in Request /\ Len(h) \in Nat \ {0}
  /\ DOMAIN h = 1..Len(h) /\ DOMAIN f = 1..(Len(h) - 1)
  /\ \A i \in DOMAIN f : f[i] = h[i] /\ i \in DOMAIN h /\ i < Len(h) /\ h[i] \in Request
  /\ \A i \in DOMAIN h : i # Len(h) => i \in DOMAIN f

LEMMA FollowsOK ==
  ASSUME NEW t \in Seq(Request), t # <<>>
  PROVE  Follows(t, Tail(t)) /\ Head(t) = t[1]
  BY DEF Follows

LEMMA ExtendsOK ==
  ASSUME NEW h \in Seq(Request), NEW r \in Request
  PROVE  Extends(h, r, Append(h, r))
  BY DEF Extends

LEMMA DropsOK ==
  ASSUME NEW h \in Seq(Request), h # <<>>
  PROVE  Drops(h, Front(h)) /\ Last(h) = h[Len(h)]
  BY DEF Drops, Front, Last

\* The requests to come, one place further on.
LEMMA Earlier ==
  ASSUME NEW t, NEW u, Follows(t, u), NEW j \in DOMAIN u
  PROVE  /\ j \in Nat \ {0} /\ j + 1 \in DOMAIN t /\ u[j] = t[j + 1]
         /\ \A i \in 1..(j - 1) : i + 1 \in 1..((j + 1) - 1) /\ u[i] = t[i + 1]
         /\ \A i \in 1..((j + 1) - 1) : i = 1 \/ (i - 1 \in 1..(j - 1) /\ u[i - 1] = t[i])
         /\ j # 1 => u[j - 1] = t[j]
  <1>1. j \in Nat \ {0} /\ j <= Len(t) - 1 /\ Len(t) \in Nat
    BY DEF Follows
  <1>2. \A i \in 1..(j - 1) : i \in DOMAIN u
    BY <1>1 DEF Follows
  <1>3. ASSUME NEW i \in 1..((j + 1) - 1), i # 1
        PROVE  i - 1 \in 1..(j - 1) /\ u[i - 1] = t[i]
    <2>1. i - 1 \in 1..(j - 1) /\ (i - 1) + 1 = i
      BY <1>1, <1>3
    <2>2. u[i - 1] = t[(i - 1) + 1]
      BY <1>2, <2>1 DEF Follows
    <2> QED BY <2>1, <2>2
  <1>4. \A i \in 1..(j - 1) : i + 1 \in 1..((j + 1) - 1) /\ u[i] = t[i + 1]
    BY <1>1, <1>2 DEF Follows
  <1>5. j # 1 => u[j - 1] = t[j]
    BY <1>1, <1>3
  <1> QED BY <1>1, <1>3, <1>4, <1>5 DEF Follows

\* What was foreseen of a request stays so when the first is taken out of t, as
\* long as what was to be held for it is held now.
LEMMA Forward ==
  ASSUME NEW h, NEW t, NEW k, NEW u, Follows(t, u), NEW j \in DOMAIN u,
         Foreseen(h, t, j + 1),
         t[j + 1].mode # "leave" /\ FreshAt(h, t, j + 1) =>
           \A i \in DOMAIN k : Before(k[i].lock, t[j + 1].lock),
         \A i \in DOMAIN h : h[i].mode \in Whole =>
           \E n \in DOMAIN k : k[n].lock = h[i].lock /\ k[n].mode \in Whole,
         t[1].mode \in Whole =>
           \E n \in DOMAIN k : k[n].lock = t[1].lock /\ k[n].mode \in Whole,
         t[1].mode = "mutex" => k # <<>> /\ k[Len(k)].mode = "mutex"
  PROVE  Foreseen(k, u, j)
  <1>1. CASE t[j + 1].mode # "leave" /\ FreshAt(h, t, j + 1)
    <2>1. ASSUME NEW i \in 1..(j - 1), u[i].mode # "leave"
          PROVE  Before(u[i].lock, u[j].lock)
      BY <1>1, <2>1, Earlier DEF FreshAt
    <2>2. \A i \in DOMAIN k : Before(k[i].lock, u[j].lock)
      BY <1>1, Earlier
    <2>3. u[j].mode # "leave"
      BY <1>1, Earlier
    <2> QED BY <2>1, <2>2, <2>3 DEF Foreseen, FreshAt
  <1>2. CASE AgainAt(h, t, j + 1)
    <2>1. u[j] = t[j + 1] /\ u[j].mode \in {"shared", "exclusive"}
      BY <1>2, Earlier DEF AgainAt
    <2>2. CASE \E i \in DOMAIN h : h[i].lock = t[j + 1].lock /\ h[i].mode \in Whole
      BY <2>1, <2>2 DEF Foreseen, AgainAt
    <2>3. CASE \E i \in 1..((j + 1) - 1) : t[i].lock = t[j + 1].lock /\ t[i].mode \in Whole
      <3>1. PICK i \in 1..((j + 1) - 1) : t[i].lock = t[j + 1].lock /\ t[i].mode \in Whole
        BY <2>3
      <3>2. CASE i = 1
        BY <2>1, <3>1, <3>2 DEF Foreseen, AgainAt
      <3>3. CASE i - 1 \in 1..(j - 1) /\ u[i - 1] = t[i]
        BY <2>1, <3>1, <3>3 DEF Foreseen, AgainAt
      <3> QED BY <3>2, <3>3, Earlier
    <2> QED BY <1>2, <2>2, <2>3 DEF AgainAt
  <1>3. CASE LeaveAt(h, t, j + 1)
    <2>1. t[j].mode = "mutex" /\ u[j].mode = "leave" /\ j \in Nat \ {0}
      BY <1>3, Earlier DEF LeaveAt
    <2>2. CASE j = 1
      BY <2>1, <2>2 DEF Foreseen, LeaveAt
    <2>3. CASE j # 1
      BY <2>1, <2>3, Earlier DEF Foreseen, LeaveAt
    <2> QED BY <2>2, <2>3
  <1> QED BY <1>1, <1>2, <1>3 DEF Foreseen

\* A granted request keeps the order, whatever is dropped of those to come.
LEMMA GrantInOrder ==
  ASSUME NEW h \in Seq(Request), NEW t \in Seq(Request), t # <<>>, InOrder(h, t),
         t[1].mode # "leave", FreshAt(h, t, 1)
  PROVE  /\ InOrder(Append(h, Head(t)), Tail(t)) /\ InOrder(Append(h, Head(t)), <<>>)
         /\ \A i \in DOMAIN h : h[i].lock # t[1].lock
  <1> DEFINE g == Append(h, Head(t))
             u == Tail(t)
  <1>0. Follows(t, u) /\ Extends(h, t[1], g) /\ Len(g) = Len(h) + 1
    <2>1. Follows(t, u) /\ Head(t) = t[1]
      BY FollowsOK
    <2>2. t[1] \in Request
      BY <2>1 DEF Follows
    <2> QED BY <2>1, <2>2, ExtendsOK
  <1> HIDE DEF g, u
  <1>1. \A i, j \in DOMAIN g : i < j => Before(g[i].lock, g[j].lock)
    BY <1>0 DEF Extends, FreshAt, InOrder
  <1>2. ASSUME NEW j \in DOMAIN u PROVE Foreseen(g, u, j)
    <2>1. j + 1 \in DOMAIN t /\ Foreseen(h, t, j + 1) /\ 1 \in 1..((j + 1) - 1)
      BY <1>0 DEF InOrder, Follows
    <2>2. FreshAt(h, t, j + 1) => \A i \in DOMAIN g : Before(g[i].lock, t[j + 1].lock)
      BY <1>0, <2>1 DEF Extends, FreshAt
    <2>3. \A i \in DOMAIN h : h[i].mode \in Whole =>
            \E n \in DOMAIN g : g[n].lock = h[i].lock /\ g[n].mode \in Whole
      BY <1>0 DEF Extends
    <2>4. Len(g) \in DOMAIN g /\ g[Len(g)] = t[1] /\ g # <<>>
      BY <1>0 DEF Extends
    <2> QED BY <1>0, <2>1, <2>2, <2>3, <2>4, Forward
  <1>3. ASSUME NEW i \in DOMAIN h PROVE h[i].lock # t[1].lock
    <2>1. h[i].lock \in Lock /\ t[1].lock \in Lock /\ Before(h[i].lock, t[1].lock)
      BY <1>0 DEF FreshAt, Request, Follows, Extends
    <2> QED BY <2>1, BeforeDiffers
  <1>4. InOrder(g, u) /\ InOrder(g, <<>>)
    BY <1>1, <1>2 DEF InOrder
  <1> QED BY <1>3, <1>4 DEF g, u

\* So does a request for what is held.
LEMMA ReenterInOrder ==
  ASSUME NEW h \in Seq(Request), NEW t \in Seq(Request), t # <<>>, InOrder(h, t),
         t[1].mode \in {"shared", "exclusive"},
         t[1].mode = "exclusive" =>
           \E i \in DOMAIN h : h[i].lock = t[1].lock /\ h[i].mode \in Whole
  PROVE  InOrder(h, Tail(t))
  <1> DEFINE u == Tail(t)
  <1>0. Follows(t, u)
    BY FollowsOK
  <1> HIDE DEF u
  <1>1. ASSUME NEW j \in DOMAIN u PROVE Foreseen(h, u, j)
    <2>1. j + 1 \in DOMAIN t /\ Foreseen(h, t, j + 1)
      BY <1>0 DEF InOrder, Follows
    <2>2. FreshAt(h, t, j + 1) => \A i \in DOMAIN h : Before(h[i].lock, t[j + 1].lock)
      BY DEF FreshAt
    <2>3. t[1].mode \in Whole =>
            \E n \in DOMAIN h : h[n].lock = t[1].lock /\ h[n].mode \in Whole
      BY DEF Whole
    <2> QED BY <1>0, <2>1, <2>2, <2>3, Forward
  <1>2. InOrder(h, u)
    BY <1>1 DEF InOrder
  <1> QED BY <1>2 DEF u

\* Leaving the mutex gives up the last that was held, which was the mutex.
LEMMA LeaveInOrder ==
  ASSUME NEW h \in Seq(Request), NEW t \in Seq(Request), t # <<>>, InOrder(h, t),
         t[1].mode = "leave"
  PROVE  h # <<>> /\ Last(h).mode = "mutex" /\ InOrder(Front(h), Tail(t))
  <1> DEFINE f == Front(h)
             u == Tail(t)
  <1>0. Follows(t, u)
    BY FollowsOK
  <1>1. h # <<>> /\ h[Len(h)].mode = "mutex"
    BY <1>0 DEF InOrder, Foreseen, AgainAt, LeaveAt, Follows
  <1>2. Drops(h, f) /\ Last(h) = h[Len(h)]
    BY <1>1, DropsOK
  <1> HIDE DEF f, u
  <1>3. \A i, j \in DOMAIN f : i < j => Before(f[i].lock, f[j].lock)
    BY <1>2 DEF InOrder, Drops
  <1>4. ASSUME NEW j \in DOMAIN u PROVE Foreseen(f, u, j)
    <2>1. j + 1 \in DOMAIN t /\ Foreseen(h, t, j + 1)
      BY <1>0 DEF InOrder, Follows
    <2>2. FreshAt(h, t, j + 1) => \A i \in DOMAIN f : Before(f[i].lock, t[j + 1].lock)
      BY <1>2 DEF FreshAt, Drops
    <2>3. ASSUME NEW i \in DOMAIN h, h[i].mode \in Whole
          PROVE  \E n \in DOMAIN f : f[n].lock = h[i].lock /\ f[n].mode \in Whole
      <3>1. i # Len(h)
        BY <1>1, <2>3 DEF Whole
      <3> QED BY <1>2, <2>3, <3>1 DEF Drops
    <2> QED BY <1>0, <2>1, <2>2, <2>3, Forward DEF Whole
  <1>5. InOrder(f, u)
    BY <1>3, <1>4 DEF InOrder
  <1> QED BY <1>1, <1>2, <1>5 DEF f, u

\* Nothing is asked for any more.
LEMMA NothingToAsk ==
  ASSUME NEW h \in Seq(Request), NEW t \in Seq(Request), InOrder(h, t)
  PROVE  InOrder(h, <<>>)
  BY DEF InOrder

\* What is released is the last of what is held, and held once. What is still
\* to be asked for is left alone where an operation leaves the mutex.
LEMMA LastIsUnique ==
  ASSUME NEW h \in Seq(Request), NEW t, h # <<>>, InOrder(h, t)
  PROVE  \A i \in DOMAIN Front(h) : Front(h)[i].lock # Last(h).lock
  <1> DEFINE f == Front(h)
  <1>0. Drops(h, f) /\ Last(h) = h[Len(h)]
    BY DropsOK
  <1> HIDE DEF f
  <1>1. ASSUME NEW i \in DOMAIN f PROVE f[i].lock # h[Len(h)].lock
    <2>1. Before(h[i].lock, h[Len(h)].lock) /\ h[i].lock \in Lock /\ h[Len(h)].lock \in Lock
      BY <1>0 DEF InOrder, Request, Drops
    <2> QED BY <1>0, <2>1, BeforeDiffers DEF Drops
  <1> QED BY <1>0, <1>1 DEF f

LEMMA ReleaseInOrder ==
  ASSUME NEW h \in Seq(Request), h # <<>>, InOrder(h, <<>>)
  PROVE  InOrder(Front(h), <<>>)
  <1> DEFINE f == Front(h)
  <1>0. Drops(h, f)
    BY DropsOK
  <1> HIDE DEF f
  <1>1. InOrder(f, <<>>)
    BY <1>0 DEF InOrder, Drops
  <1> QED BY <1>1 DEF f

---------------------------------------------------------------------------
(* The plans.                                                              *)

LEMMA Constants ==
  /\ mu \in Lock /\ mu \notin Server /\ Server \subseteq Lock /\ Lock \subseteq Nat
  /\ NoProcess \notin Process /\ "none" \notin Kind /\ MaxHops \in Nat \ {0}
  /\ \A l \in Server : Before(l, mu)
  /\ \A l, m \in Server : l < m => Before(l, m)
  /\ "provision" \in Kind => \A l \in Server : Before(mu, l)
  BY LeaseAssumption DEF Before, Lock, mu, AllKinds

\* A plan in its order on the servers it names.
PlanOK(k, t) ==
  t \in Seq(Request) /\ t # <<>> /\ InOrder(<<>>, t) /\ Uses(t, ModesOf(k))

LEMMA AskType ==
  ASSUME NEW mode \in Mode, NEW l \in Lock,
         Proper(mode, l)
  PROVE  [mode |-> mode, lock |-> l] \in Request
  BY DEF Request, Proper

LEMMA Concatenated ==
  ASSUME NEW a \in Seq(Request), NEW b \in Seq(Request)
  PROVE  /\ a \o b \in Seq(Request) /\ Len(a \o b) = Len(a) + Len(b)
         /\ Len(a) \in Nat /\ Len(b) \in Nat /\ DOMAIN (a \o b) = 1..(Len(a) + Len(b))
         /\ \A i \in 1..Len(a) : (a \o b)[i] = a[i]
         /\ \A i \in 1..Len(b) : (a \o b)[Len(a) + i] = b[i]
  OBVIOUS

LEMMA AskOne ==
  ASSUME NEW mode \in Mode, NEW l \in Lock,
         Proper(mode, l)
  PROVE  /\ Ask(mode, l) \in Seq(Request) /\ Len(Ask(mode, l)) = 1
         /\ Ask(mode, l)[1] = [mode |-> mode, lock |-> l]
  BY AskType DEF Ask

LEMMA Asked ==
  ASSUME NEW a \in Seq(Request), NEW mode \in Mode, NEW l \in Lock,
         Proper(mode, l)
  PROVE  LET t == a \o Ask(mode, l)
         IN  /\ t \in Seq(Request) /\ Len(t) = Len(a) + 1 /\ Len(a) \in Nat
             /\ DOMAIN t = 1..(Len(a) + 1)
             /\ \A i \in 1..Len(a) : t[i] = a[i]
             /\ t[Len(a) + 1] = [mode |-> mode, lock |-> l]
  <1>1. /\ Ask(mode, l) \in Seq(Request) /\ Len(Ask(mode, l)) = 1
        /\ Ask(mode, l)[1] = [mode |-> mode, lock |-> l]
    BY AskOne
  <1> DEFINE b == Ask(mode, l)
             t == a \o b
  <1> HIDE DEF b
  <1>2. /\ t \in Seq(Request) /\ Len(t) = Len(a) + Len(b)
        /\ Len(a) \in Nat /\ DOMAIN t = 1..(Len(a) + Len(b))
        /\ \A i \in 1..Len(a) : t[i] = a[i]
        /\ \A i \in 1..Len(b) : t[Len(a) + i] = b[i]
    BY <1>1, Concatenated DEF b
  <1>3. Len(b) = 1 /\ b[1] = [mode |-> mode, lock |-> l]
    BY <1>1 DEF b
  <1> HIDE DEF t
  <1>4. /\ t \in Seq(Request) /\ Len(t) = Len(a) + 1 /\ Len(a) \in Nat
        /\ DOMAIN t = 1..(Len(a) + 1) /\ \A i \in 1..Len(a) : t[i] = a[i]
        /\ t[Len(a) + 1] = [mode |-> mode, lock |-> l]
    BY <1>2, <1>3
  <1> QED BY <1>4 DEF t, b

\* The servers of a request, each in the same mode.
LEMMA EachOfOK ==
  ASSUME NEW mode \in {"shared", "exclusive"}, NEW n \in Nat \ {0}, NEW ids \in [1..n -> Server]
  PROVE  /\ EachOf(mode, ids) \in Seq(Request) /\ Len(EachOf(mode, ids)) = n
         /\ \A i \in 1..n : EachOf(mode, ids)[i] = [mode |-> mode, lock |-> ids[i]]
  <1>1. DOMAIN EachOf(mode, ids) = 1..n
    BY DEF EachOf
  <1>2. \A i \in 1..n : EachOf(mode, ids)[i] = [mode |-> mode, lock |-> ids[i]]
    BY DEF EachOf
  <1>3. \A i \in 1..n : [mode |-> mode, lock |-> ids[i]] \in Request
    BY Constants DEF Request, Mode, Proper
  <1>4. EachOf(mode, ids) = [i \in 1..n |-> EachOf(mode, ids)[i]]
    BY <1>1 DEF EachOf
  <1>5. EachOf(mode, ids) \in [1..n -> Request]
    BY <1>2, <1>3, <1>4
  <1>6. EachOf(mode, ids) \in Seq(Request)
    BY <1>5
  <1>7. Len(EachOf(mode, ids)) = n
    BY <1>1, <1>6
  <1> QED BY <1>2, <1>6, <1>7

LEMMA ChainPlan ==
  ASSUME NEW n \in 1..MaxHops, NEW ids \in [1..n -> Server], Ascending(ids)
  PROVE  PlanOK("chain", EachOf("shared", ids))
  <1> DEFINE t == EachOf("shared", ids)
  <1>1. n \in Nat \ {0}
    BY Constants
  <1>2. /\ t \in Seq(Request) /\ Len(t) = n /\ DOMAIN t = 1..n
        /\ \A i \in 1..n : t[i] = [mode |-> "shared", lock |-> ids[i]]
    BY <1>1, EachOfOK
  <1> HIDE DEF t
  <1>3. ASSUME NEW j \in DOMAIN t PROVE Foreseen(<<>>, t, j)
    <2>1. ASSUME NEW i \in 1..(j - 1) PROVE Before(t[i].lock, t[j].lock)
      <3>1. i \in 1..n /\ j \in 1..n /\ i < j
        BY <1>1, <1>2
      <3>2. t[i].lock = ids[i] /\ t[j].lock = ids[j] /\ ids[i] < ids[j]
        BY <1>2, <3>1 DEF Ascending
      <3> QED BY <3>1, <3>2, Constants
    <2> QED BY <1>2, <2>1 DEF Foreseen, FreshAt
  <1>4. InOrder(<<>>, t)
    BY <1>3 DEF InOrder
  <1>5. Uses(t, ModesOf("chain"))
    BY <1>2 DEF Uses, ModesOf
  <1>6. t # <<>>
    BY <1>1, <1>2
  <1> QED BY <1>2, <1>4, <1>5, <1>6 DEF PlanOK, t

LEMMA ForwardPlan ==
  ASSUME NEW n \in 1..MaxHops, NEW ids \in [1..n -> Server], Ascending(ids)
  PROVE  PlanOK("forward", EachOf("exclusive", ids) \o Ask("mutex", mu) \o Ask("leave", mu)
                             \o EachOf("exclusive", ids))
  <1> DEFINE e == EachOf("exclusive", ids)
             t == e \o Ask("mutex", mu) \o Ask("leave", mu) \o e
  <1>1. n \in Nat \ {0}
    BY Constants
  <1>2. /\ e \in Seq(Request) /\ Len(e) = n
        /\ \A i \in 1..n : e[i] = [mode |-> "exclusive", lock |-> ids[i]]
    BY <1>1, EachOfOK
  <1> DEFINE a == e \o Ask("mutex", mu)
             b == a \o Ask("leave", mu)
  <1> HIDE DEF e
  <1>3. /\ a \in Seq(Request) /\ Len(a) = n + 1
        /\ \A i \in 1..n : a[i] = e[i]
        /\ a[n + 1] = [mode |-> "mutex", lock |-> mu]
    BY <1>2, Asked, Constants DEF Mode, Proper
  <1> HIDE DEF a
  <1>9. /\ b \in Seq(Request) /\ Len(b) = n + 2
        /\ \A i \in 1..n : b[i] = e[i]
        /\ b[n + 1] = [mode |-> "mutex", lock |-> mu]
        /\ b[n + 2] = [mode |-> "leave", lock |-> mu]
    <2>1. /\ b \in Seq(Request) /\ Len(b) = n + 1 + 1
          /\ \A i \in 1..(n + 1) : b[i] = a[i]
          /\ b[n + 1 + 1] = [mode |-> "leave", lock |-> mu]
      BY <1>3, Asked, Constants DEF Mode, Proper
    <2> HIDE DEF b
    <2> QED BY <1>1, <1>3, <2>1
  <1> HIDE DEF b
  <1>4. /\ t \in Seq(Request) /\ Len(t) = n + 2 + n /\ DOMAIN t = 1..(n + 2 + n)
        /\ \A i \in 1..n : t[i] = e[i]
        /\ t[n + 1] = [mode |-> "mutex", lock |-> mu]
        /\ t[n + 2] = [mode |-> "leave", lock |-> mu]
        /\ \A i \in 1..n : t[n + 2 + i] = e[i]
    <2>1. /\ t \in Seq(Request) /\ Len(t) = n + 2 + n /\ DOMAIN t = 1..(n + 2 + n)
          /\ \A i \in 1..(n + 2) : t[i] = b[i]
          /\ \A i \in 1..n : t[n + 2 + i] = e[i]
      <3>1. t = b \o e
        BY DEF b, a
      <3> HIDE DEF t
      <3>2. /\ t \in Seq(Request) /\ Len(t) = Len(b) + Len(e) /\ DOMAIN t = 1..(Len(b) + Len(e))
            /\ \A i \in 1..Len(b) : t[i] = b[i]
            /\ \A i \in 1..Len(e) : t[Len(b) + i] = e[i]
        BY <1>2, <1>9, <3>1, Concatenated
      <3>3. Len(b) = n + 2 /\ Len(e) = n
        BY <1>2, <1>9
      <3> QED BY <3>2, <3>3
    <2> HIDE DEF t
    <2> QED BY <1>1, <1>9, <2>1
  <1> HIDE DEF t
  <1>5. ASSUME NEW j \in DOMAIN t PROVE Foreseen(<<>>, t, j) /\ t[j].mode \in ModesOf("forward")
    <2>1. CASE j \in 1..n
      <3>1. ASSUME NEW i \in 1..(j - 1) PROVE Before(t[i].lock, t[j].lock)
        <4>1. i \in 1..n /\ i < j
          BY <1>1, <2>1
        <4>2. t[i] = e[i] /\ t[j] = e[j]
          BY <1>4, <2>1, <4>1
        <4>3. e[i].lock = ids[i] /\ e[j].lock = ids[j] /\ ids[i] \in Server /\ ids[j] \in Server
          BY <1>2, <2>1, <4>1
        <4>4. ids[i] < ids[j]
          BY <2>1, <4>1 DEF Ascending
        <4> QED BY <4>2, <4>3, <4>4, Constants
      <3> QED BY <1>2, <1>4, <2>1, <3>1 DEF Foreseen, FreshAt, ModesOf
    <2>2. CASE j = n + 1
      <3>1. ASSUME NEW i \in 1..(j - 1) PROVE Before(t[i].lock, t[j].lock)
        <4>1. i \in 1..n
          BY <1>1, <2>2
        <4>2. t[i] = e[i] /\ t[j].lock = mu
          BY <1>4, <2>2, <4>1
        <4>3. e[i].lock = ids[i] /\ ids[i] \in Server
          BY <1>2, <4>1
        <4> QED BY <4>2, <4>3, Constants
      <3> QED BY <1>4, <2>2, <3>1 DEF Foreseen, FreshAt, ModesOf
    <2>3. CASE j = n + 2
      BY <1>1, <1>4, <2>3 DEF Foreseen, LeaveAt, ModesOf
    <2>4. CASE j \in (n + 3)..(n + 2 + n)
      <3>1. PICK i \in 1..n : j = n + 2 + i
        <4>1. j - (n + 2) \in 1..n /\ j = n + 2 + (j - (n + 2))
          BY <1>1, <2>4
        <4> QED BY <4>1
      <3>2. t[j] = e[i] /\ t[i] = e[i] /\ i \in 1..(j - 1)
        BY <1>1, <1>4, <3>1
      <3>3. e[i].mode = "exclusive" /\ e[i].lock = ids[i]
        BY <1>2
      <3> QED BY <3>2, <3>3 DEF Foreseen, AgainAt, Whole, ModesOf
    <2> QED BY <1>1, <1>4, <2>1, <2>2, <2>3, <2>4
  <1>6. InOrder(<<>>, t)
    BY <1>5 DEF InOrder
  <1>7. Uses(t, ModesOf("forward"))
    BY <1>5 DEF Uses
  <1>8. t # <<>>
    BY <1>1, <1>4
  <1> QED BY <1>4, <1>6, <1>7, <1>8 DEF PlanOK, t, e

\* The plans on one server.
LEMMA SinglePlans ==
  ASSUME NEW s \in Server
  PROVE  /\ PlanOK("add", Ask("shared", s) \o Ask("mutex", mu) \o Ask("leave", mu))
         /\ "provision" \in Kind => PlanOK("provision", Ask("mutex", mu) \o Ask("shared", s))
         /\ PlanOK("install", Ask("own", s))
         /\ PlanOK("prepare", Ask("bypass", s) \o Ask("shared", s))
  <1>1. s \in Lock /\ mu \in Lock
    BY Constants
  <1>2. PlanOK("add", Ask("shared", s) \o Ask("mutex", mu) \o Ask("leave", mu))
    <2> DEFINE a == Ask("shared", s) \o Ask("mutex", mu)
               t == a \o Ask("leave", mu)
    <2>1. /\ a \in Seq(Request) /\ Len(a) = 2
          /\ a[1] = [mode |-> "shared", lock |-> s] /\ a[2] = [mode |-> "mutex", lock |-> mu]
      BY <1>1, AskOne, Asked DEF Mode, Proper
    <2> HIDE DEF a
    <2>2. /\ t \in Seq(Request) /\ DOMAIN t = 1..3 /\ Len(t) = 3
          /\ t[1] = [mode |-> "shared", lock |-> s] /\ t[2] = [mode |-> "mutex", lock |-> mu]
          /\ t[3] = [mode |-> "leave", lock |-> mu]
      <3>1. /\ t \in Seq(Request) /\ DOMAIN t = 1..(Len(a) + 1) /\ Len(t) = Len(a) + 1
            /\ \A i \in 1..Len(a) : t[i] = a[i]
            /\ t[Len(a) + 1] = [mode |-> "leave", lock |-> mu]
        <4>1. a \in Seq(Request) /\ mu \in Lock /\ "leave" \in Mode /\ Proper("leave", mu)
          BY <1>1, <2>1 DEF Mode, Proper
        <4> QED BY <4>1, Asked
      <3> HIDE DEF t
      <3>2. Len(a) + 1 = 3
        BY <2>1
      <3> QED BY <2>1, <3>1, <3>2
    <2> HIDE DEF t
    <2>3. ASSUME NEW j \in DOMAIN t
          PROVE  Foreseen(<<>>, t, j) /\ t[j].mode \in ModesOf("add")
      <3>1. CASE j = 1
        BY <2>2, <3>1 DEF Foreseen, FreshAt, ModesOf
      <3>2. CASE j = 2
        <4>1. Before(t[1].lock, t[2].lock)
          BY <2>2, Constants
        <4> QED BY <2>2, <3>2, <4>1 DEF Foreseen, FreshAt, ModesOf
      <3>3. CASE j = 3
        BY <2>2, <3>3 DEF Foreseen, LeaveAt, ModesOf
      <3> QED BY <2>2, <3>1, <3>2, <3>3
    <2>4. t # <<>>
      <3>1. t \in Seq(Request) /\ Len(t) = 3
        BY <2>2
      <3>2. Len(t) # 0
        BY <3>1
      <3> QED BY <3>1, <3>2, EmptySeq
    <2>5. PlanOK("add", t)
      BY <2>2, <2>3, <2>4 DEF PlanOK, InOrder, Uses
    <2> QED BY <2>5 DEF t, a
  <1>3. ASSUME "provision" \in Kind
        PROVE  PlanOK("provision", Ask("mutex", mu) \o Ask("shared", s))
    <2> DEFINE t == Ask("mutex", mu) \o Ask("shared", s)
    <2>1. /\ t \in Seq(Request) /\ DOMAIN t = 1..2 /\ Len(t) = 2
          /\ t[1] = [mode |-> "mutex", lock |-> mu] /\ t[2] = [mode |-> "shared", lock |-> s]
      BY <1>1, AskOne, Asked DEF Mode, Proper
    <2> HIDE DEF t
    <2>2. ASSUME NEW j \in DOMAIN t
          PROVE  Foreseen(<<>>, t, j) /\ t[j].mode \in ModesOf("provision")
      <3>1. CASE j = 1
        BY <2>1, <3>1 DEF Foreseen, FreshAt, ModesOf
      <3>2. CASE j = 2
        <4>1. Before(t[1].lock, t[2].lock)
          BY <1>3, <2>1, Constants
        <4> QED BY <2>1, <3>2, <4>1 DEF Foreseen, FreshAt, ModesOf
      <3> QED BY <2>1, <3>1, <3>2
    <2>3. t # <<>>
      BY <2>1
    <2>4. PlanOK("provision", t)
      BY <2>1, <2>2, <2>3 DEF PlanOK, InOrder, Uses
    <2> QED BY <2>4 DEF t
  <1>4. PlanOK("install", Ask("own", s))
    <2>1. /\ Ask("own", s) \in Seq(Request) /\ Len(Ask("own", s)) = 1
          /\ Ask("own", s)[1] = [mode |-> "own", lock |-> s]
      BY <1>1, AskOne DEF Mode, Proper
    <2>2. DOMAIN Ask("own", s) = 1..1 /\ Ask("own", s) # <<>>
      BY <2>1
    <2>3. Foreseen(<<>>, Ask("own", s), 1)
      BY <2>1 DEF Foreseen, FreshAt
    <2> QED BY <2>1, <2>2, <2>3 DEF PlanOK, InOrder, Uses, ModesOf
  <1>5. PlanOK("prepare", Ask("bypass", s) \o Ask("shared", s))
    <2> DEFINE t == Ask("bypass", s) \o Ask("shared", s)
    <2>1. /\ t \in Seq(Request) /\ DOMAIN t = 1..2 /\ Len(t) = 2
          /\ t[1] = [mode |-> "bypass", lock |-> s] /\ t[2] = [mode |-> "shared", lock |-> s]
      <3>1. /\ "bypass" \in Mode /\ "shared" \in Mode
            /\ Proper("bypass", s) /\ Proper("shared", s)
        BY DEF Mode, Proper
      <3>2. /\ Ask("bypass", s) \in Seq(Request) /\ Len(Ask("bypass", s)) = 1
            /\ Ask("bypass", s)[1] = [mode |-> "bypass", lock |-> s]
        BY <1>1, <3>1, AskOne
      <3> QED BY <1>1, <3>1, <3>2, Asked
    <2> HIDE DEF t
    <2>2. ASSUME NEW j \in DOMAIN t
          PROVE  Foreseen(<<>>, t, j) /\ t[j].mode \in ModesOf("prepare")
      <3>1. CASE j = 1
        BY <2>1, <3>1 DEF Foreseen, FreshAt, ModesOf
      <3>2. CASE j = 2
        BY <2>1, <3>2 DEF Foreseen, AgainAt, Whole, ModesOf
      <3> QED BY <2>1, <3>1, <3>2
    <2>3. t # <<>>
      BY <2>1
    <2>4. PlanOK("prepare", t)
      BY <2>1, <2>2, <2>3 DEF PlanOK, InOrder, Uses
    <2> QED BY <2>4 DEF t
  <1> QED BY <1>2, <1>3, <1>4, <1>5

LEMMA PlansOK ==
  ASSUME NEW k \in Kind, NEW n \in Named(k), NEW ids \in [1..n -> Server], Ascending(ids)
  PROVE  PlanOK(k, Plan(k, ids))
  <1>1. n >= 1 /\ ids[1] \in Server
    BY Constants DEF Named
  <1>2. k \in AllKinds
    BY LeaseAssumption
  <1>3. CASE k = "forward"
    BY <1>3, ForwardPlan DEF Named, Plan
  <1>4. CASE k = "chain"
    BY <1>4, ChainPlan DEF Named, Plan
  <1>5. CASE k \notin {"forward", "chain"}
    BY <1>1, <1>2, <1>5, SinglePlans DEF Plan, AllKinds
  <1> QED BY <1>3, <1>4, <1>5

---------------------------------------------------------------------------
(* What one operation does leaves the others alone.                        *)

Alike(p) ==
  /\ status'[p] = status[p] /\ kind'[p] = kind[p]
  /\ todo'[p] = todo[p] /\ held'[p] = held[p]

Only(p) == \A q \in Process \ {p} : Alike(q)

LEMMA AlikeOK ==
  ASSUME NEW q \in Process, Alike(q)
  PROVE  /\ OpOK(q) => OpOK(q)'
         /\ \A l, modes : Has(q, l, modes) => Has(q, l, modes)'
         /\ \A l, modes : Awaits(q, l, modes) => Awaits(q, l, modes)'
         /\ Undisturbed(q) /\ active' \subseteq active => Undisturbed(q)'
         /\ HeldOK(q) /\ UNCHANGED locks => HeldOK(q)'
  <1> USE DEF Alike
  <1>1. OpOK(q) => OpOK(q)'
    BY DEF OpOK
  <1>2. \A l, modes : Has(q, l, modes) => Has(q, l, modes)'
    BY DEF Has
  <1>3. \A l, modes : Awaits(q, l, modes) => Awaits(q, l, modes)'
    BY DEF Awaits
  <1>4. Undisturbed(q) /\ active' \subseteq active => Undisturbed(q)'
    BY DEF Undisturbed
  <1>5. HeldOK(q) /\ UNCHANGED locks => HeldOK(q)'
    BY DEF HeldOK, locks
  <1> QED BY <1>1, <1>2, <1>3, <1>4, <1>5

\* A lock that stays as it is, as long as what p has in it does.
LEMMA SameLock ==
  ASSUME NEW p \in Process, Only(p), NEW l \in Lock, ReaderOK(l), WriterOK(l), ParkedOK(l), Vars,
         reader'[l] = reader[l], writer'[l] = writer[l], parked'[l] = parked[l],
         p \in reader[l] => (Has(p, l, {"shared"}) \/ Awaits(p, l, {"shared"}))',
         writer[l] = p => (Has(p, l, Aloof) \/ Awaits(p, l, Aloof))',
         p \in parked[l] => Awaits(p, l, {"shared"})'
  PROVE  ReaderOK(l)' /\ WriterOK(l)' /\ ParkedOK(l)'
  <1>1. reader[l] \subseteq Process /\ parked[l] \subseteq Process
    BY DEF Vars
  <1>2. ASSUME NEW q \in reader[l]
        PROVE  (Has(q, l, {"shared"}) \/ Awaits(q, l, {"shared"}))'
    <2>1. CASE q = p
      BY <2>1
    <2>2. CASE q # p
      <3>1. Alike(q) /\ (Has(q, l, {"shared"}) \/ Awaits(q, l, {"shared"}))
        BY <1>1, <2>2 DEF Only, ReaderOK
      <3> QED BY <1>1, <3>1, AlikeOK
    <2> QED BY <2>1, <2>2
  <1>3. ASSUME NEW q \in Process, writer[l] = q
        PROVE  (Has(q, l, Aloof) \/ Awaits(q, l, Aloof))'
    <2>1. CASE q = p
      BY <1>3, <2>1
    <2>2. CASE q # p
      <3>1. Alike(q) /\ (Has(q, l, Aloof) \/ Awaits(q, l, Aloof))
        BY <1>3, <2>2 DEF Only, WriterOK
      <3> QED BY <3>1, AlikeOK
    <2> QED BY <2>1, <2>2
  <1>4. ASSUME NEW q \in parked[l]
        PROVE  q \notin reader[l] /\ Awaits(q, l, {"shared"})'
    <2>1. CASE q = p
      BY <2>1 DEF ParkedOK
    <2>2. CASE q # p
      <3>1. Alike(q) /\ Awaits(q, l, {"shared"}) /\ q \notin reader[l]
        BY <1>1, <2>2 DEF Only, ParkedOK
      <3> QED BY <1>1, <3>1, AlikeOK
    <2> QED BY <2>1, <2>2
  <1> QED BY <1>2, <1>3, <1>4 DEF ReaderOK, WriterOK, ParkedOK

\* Steps that touch neither the locks nor what is held.
LEMMA Quiet ==
  ASSUME IInv, NEW p \in Process, Only(p), UNCHANGED <<active, locks, held>>,
         status[p] # "parked", Vars', OpOK(p)', Undisturbed(p)'
  PROVE  IInv'
  <1>1. \A q \in Process : OpOK(q)' /\ Undisturbed(q)'
    BY AlikeOK DEF IInv, Only
  <1>2. \A q \in Process : HeldOK(q)'
    BY DEF IInv, HeldOK, locks
  <1>3. ASSUME NEW l \in Lock PROVE ReaderOK(l)' /\ WriterOK(l)' /\ ParkedOK(l)'
    <2>1. \A modes : Has(p, l, modes) => Has(p, l, modes)'
      BY DEF Has
    <2>2. \A modes : ~Awaits(p, l, modes)
      BY DEF Awaits
    <2>3. ReaderOK(l) /\ WriterOK(l) /\ ParkedOK(l) /\ Vars
      BY DEF IInv
    <2>4. p \in reader[l] => (Has(p, l, {"shared"}) \/ Awaits(p, l, {"shared"}))'
      BY <2>1, <2>2, <2>3 DEF ReaderOK
    <2>5. writer[l] = p => (Has(p, l, Aloof) \/ Awaits(p, l, Aloof))'
      BY <2>1, <2>2, <2>3 DEF WriterOK
    <2>6. p \in parked[l] => Awaits(p, l, {"shared"})'
      BY <2>2, <2>3 DEF ParkedOK
    <2>7. reader' = reader /\ writer' = writer /\ parked' = parked
      BY DEF locks
    <2> QED BY <2>3, <2>4, <2>5, <2>6, <2>7, SameLock
  <1> QED BY <1>1, <1>2, <1>3 DEF IInv

---------------------------------------------------------------------------
(* Steps that neither take a lock nor release one.                         *)

LEMMA StartOK ==
  ASSUME IInv, NEW p \in Process, Start(p)
  PROVE  IInv'
  <1>1. PICK k \in Kind : \E ids \in UNION {[1..n -> Server] : n \in Named(k)} :
          Ascending(ids) /\ kind' = [kind EXCEPT ![p] = k]
            /\ todo' = [todo EXCEPT ![p] = Plan(k, ids)]
    BY DEF Start
  <1>2. PICK n \in Named(k) : \E ids \in [1..n -> Server] :
          Ascending(ids) /\ kind' = [kind EXCEPT ![p] = k]
            /\ todo' = [todo EXCEPT ![p] = Plan(k, ids)]
    BY <1>1
  <1>3. PICK ids \in [1..n -> Server] :
          Ascending(ids) /\ kind' = [kind EXCEPT ![p] = k]
            /\ todo' = [todo EXCEPT ![p] = Plan(k, ids)]
    BY <1>2
  <1>4. PlanOK(k, Plan(k, ids))
    BY <1>3, PlansOK
  <1>5. /\ status[p] = "idle" /\ status' = [status EXCEPT ![p] = "asking"]
        /\ UNCHANGED <<active, locks, held, canceled>>
    BY DEF Start
  <1>6. Vars' /\ Only(p)
    BY <1>3, <1>5 DEF IInv, Vars, Only, Alike, locks
  <1>7. /\ held[p] = <<>> /\ held'[p] = <<>> /\ todo'[p] = Plan(k, ids) /\ kind'[p] = k
        /\ status'[p] = "asking"
    BY <1>3, <1>5 DEF IInv, Vars, OpOK
  <1>8. OpOK(p)'
    BY <1>4, <1>7 DEF OpOK, PlanOK, Uses
  <1>9. Undisturbed(p)'
    BY <1>7 DEF Undisturbed
  <1> QED BY <1>5, <1>6, <1>8, <1>9, Quiet

LEMMA CancelOK ==
  ASSUME IInv, NEW p \in Process, Cancel(p)
  PROVE  IInv'
  <1>1. /\ canceled' = canceled \union {p}
        /\ UNCHANGED <<active, reader, writer, parked, status, kind, todo, held>>
    BY DEF Cancel, locks
  <1>2. Vars'
    BY <1>1 DEF IInv, Vars
  <1>3. \A q \in Process : OpOK(q)' /\ HeldOK(q)' /\ Undisturbed(q)'
    BY <1>1 DEF IInv, OpOK, HeldOK, Undisturbed
  <1>4. \A l \in Lock : ReaderOK(l)' /\ WriterOK(l)' /\ ParkedOK(l)'
    BY <1>1 DEF IInv, ReaderOK, WriterOK, ParkedOK, Has, Awaits
  <1> QED BY <1>2, <1>3, <1>4 DEF IInv

\* Giving up asks for nothing more.
LEMMA AskTooLateOK ==
  ASSUME IInv, NEW p \in Process, AskTooLate(p)
  PROVE  IInv'
  <1>1. /\ status[p] = "asking"
        /\ todo' = [todo EXCEPT ![p] = <<>>] /\ status' = [status EXCEPT ![p] = "leaving"]
        /\ UNCHANGED <<active, locks, kind, held, canceled>>
    BY DEF AskTooLate, GiveUp
  <1>2. Vars' /\ Only(p)
    BY <1>1 DEF IInv, Vars, Only, Alike, locks
  <1>3. todo'[p] = <<>> /\ status'[p] = "leaving" /\ held'[p] = held[p] /\ kind'[p] = kind[p]
    BY <1>1 DEF IInv, Vars
  <1>4. OpOK(p) /\ InOrder(held[p], <<>>)
    BY NothingToAsk DEF IInv, OpOK
  <1>5. OpOK(p)'
    BY <1>3, <1>4 DEF OpOK, Uses
  <1>6. Undisturbed(p)'
    BY <1>3 DEF Undisturbed
  <1> QED BY <1>1, <1>2, <1>5, <1>6, Quiet

\* What an operation may ask for again is held, which makes the next request
\* the first; what it may not comes after all it holds.
LEMMA ReentrantHeld ==
  ASSUME NEW p \in Process, OpOK(p), Reentrant(p, Asks(p)), todo[p] # <<>>
  PROVE  /\ todo[p][1].mode \in {"shared", "exclusive"}
         /\ todo[p][1].mode = "exclusive" =>
              \E i \in DOMAIN held[p] : held[p][i].lock = todo[p][1].lock /\ held[p][i].mode \in Whole
  <1>1. Asks(p) = todo[p][1]
    BY FollowsOK DEF OpOK, Asks
  <1> QED BY <1>1 DEF Reentrant, Holds, Whole

LEMMA NotReentrant ==
  ASSUME NEW p \in Process, OpOK(p), ~Reentrant(p, Asks(p)), todo[p] # <<>>,
         todo[p][1].mode # "leave"
  PROVE  Asks(p) = todo[p][1] /\ todo[p][1] \in Request /\ FreshAt(held[p], todo[p], 1)
  <1>1. Asks(p) = todo[p][1] /\ todo[p][1] \in Request /\ 1 \in DOMAIN todo[p]
    BY FollowsOK DEF OpOK, Asks, Follows
  <1>2. Foreseen(held[p], todo[p], 1)
    BY <1>1 DEF OpOK, InOrder
  <1>3. ~AgainAt(held[p], todo[p], 1)
    BY <1>1 DEF AgainAt, Reentrant, Holds, Whole
  <1> QED BY <1>1, <1>2, <1>3 DEF Foreseen, LeaveAt

LEMMA ReenterOK ==
  ASSUME IInv, NEW p \in Process, Reenter(p)
  PROVE  IInv'
  <1>1. /\ status[p] = "asking" /\ Reentrant(p, Asks(p)) /\ todo' = [todo EXCEPT ![p] = Tail(@)]
        /\ status' = [status EXCEPT ![p] = IF Tail(todo[p]) = <<>> THEN "working" ELSE "asking"]
        /\ UNCHANGED <<active, locks, kind, held, canceled>>
    BY DEF Reenter, GoOn
  <1>2. Vars' /\ Only(p)
    BY <1>1 DEF IInv, Vars, Only, Alike, locks
  <1>3. /\ todo'[p] = Tail(todo[p]) /\ held'[p] = held[p] /\ kind'[p] = kind[p]
        /\ status'[p] = IF Tail(todo[p]) = <<>> THEN "working" ELSE "asking"
    BY <1>1 DEF IInv, Vars
  <1>4. OpOK(p) /\ todo[p] # <<>> /\ Undisturbed(p)
    BY <1>1 DEF IInv, OpOK
  <1>5. InOrder(held[p], Tail(todo[p])) /\ todo[p][1].mode \in {"shared", "exclusive"}
    <2>1. held[p] \in Seq(Request) /\ todo[p] \in Seq(Request) /\ InOrder(held[p], todo[p])
      BY <1>4 DEF OpOK
    <2> QED BY <1>1, <1>4, <2>1, ReentrantHeld, ReenterInOrder
  <1>6. Follows(todo[p], Tail(todo[p]))
    BY <1>4, FollowsOK DEF OpOK
  <1>7. kind[p] # "install"
    BY <1>4, <1>5, <1>6 DEF OpOK, Uses, ModesOf, Follows
  <1>8. OpOK(p)'
    BY <1>3, <1>4, <1>5, <1>6, <1>7 DEF OpOK, Uses, Follows
  <1>9. Undisturbed(p)'
    BY <1>1, <1>3, <1>4 DEF Undisturbed
  <1> QED BY <1>1, <1>2, <1>8, <1>9, Quiet

---------------------------------------------------------------------------
(* Waiting for a lock.                                                     *)

\* What p holds and asks for stays, and only the lock l changes.
LEMMA Waiting ==
  ASSUME IInv, NEW p \in Process, NEW l \in Lock,
         status[p] = "asking", ~Reentrant(p, Asks(p)), Asks(p).lock = l,
         todo[p][1].mode # "leave",
         status' = [status EXCEPT ![p] = "parked"],
         UNCHANGED <<active, kind, todo, held, canceled>>
  PROVE  /\ Only(p) /\ OpOK(p)' /\ Undisturbed(p)'
         /\ todo'[p][1].lock = l /\ todo'[p][1].mode = Asks(p).mode /\ status'[p] = "parked"
         /\ todo[p][1] \in Request
         /\ \A i \in DOMAIN held[p] : held[p][i].lock # l
         /\ \A m, modes : Has(p, m, modes) => Has(p, m, modes)'
  <1>1. OpOK(p) /\ todo[p] # <<>> /\ Undisturbed(p) /\ status'[p] = "parked"
    BY DEF IInv, OpOK, Vars
  <1>2. Asks(p) = todo[p][1] /\ todo[p][1] \in Request /\ FreshAt(held[p], todo[p], 1)
    BY <1>1, NotReentrant
  <1>3. Only(p)
    BY DEF IInv, Vars, Only, Alike
  <1>4. OpOK(p)'
    BY <1>1, <1>2 DEF OpOK
  <1>5. Undisturbed(p)'
    BY <1>1 DEF Undisturbed
  <1>6. ASSUME NEW i \in DOMAIN held[p] PROVE held[p][i].lock # l
    <2>1. held[p][i] \in Request /\ Before(held[p][i].lock, l)
      BY <1>1, <1>2 DEF FreshAt, OpOK
    <2>2. held[p][i].lock \in Lock
      BY <2>1 DEF Request
    <2> QED BY <2>1, <2>2, BeforeDiffers
  <1>7. \A m, modes : Has(p, m, modes) => Has(p, m, modes)'
    BY DEF Has
  <1> QED BY <1>1, <1>2, <1>3, <1>4, <1>5, <1>6, <1>7

LEMMA ParkOK ==
  ASSUME IInv, NEW p \in Process, status[p] = "asking", Asks(p).mode = "shared",
         ~Reentrant(p, Asks(p)),
         parked' = [parked EXCEPT ![Asks(p).lock] = @ \union {p}],
         status' = [status EXCEPT ![p] = "parked"],
         UNCHANGED <<active, reader, writer, kind, todo, held, canceled>>
  PROVE  IInv'
  <1>1. OpOK(p) /\ Vars /\ todo[p] # <<>>
    BY DEF IInv, OpOK
  <1>2. Asks(p) = todo[p][1] /\ todo[p][1] \in Request
    BY <1>1, FollowsOK DEF OpOK, Asks, Follows
  <1>3. PICK l \in Lock : l = Asks(p).lock /\ todo[p][1].mode = "shared"
    BY <1>2 DEF Request
  <1>4. /\ Only(p) /\ OpOK(p)' /\ Undisturbed(p)'
        /\ todo'[p][1].lock = l /\ todo'[p][1].mode = "shared" /\ status'[p] = "parked"
        /\ \A i \in DOMAIN held[p] : held[p][i].lock # l
        /\ \A m, modes : Has(p, m, modes) => Has(p, m, modes)'
    BY <1>2, <1>3, Waiting
  <1>5. Vars'
    BY <1>1, <1>3 DEF Vars
  <1>6. \A q \in Process : OpOK(q)' /\ Undisturbed(q)'
    BY <1>4, AlikeOK DEF IInv, Only
  <1>7. \A q \in Process : HeldOK(q)'
    BY DEF IInv, HeldOK
  <1>8. \A m, modes : ~Awaits(p, m, modes)
    BY DEF Awaits
  <1>9. ASSUME NEW m \in Lock PROVE ReaderOK(m)' /\ WriterOK(m)' /\ ParkedOK(m)'
    <2>1. ReaderOK(m) /\ WriterOK(m) /\ ParkedOK(m)
      BY DEF IInv
    <2>2. p \in reader[m] => (Has(p, m, {"shared"}) \/ Awaits(p, m, {"shared"}))'
      BY <1>4, <1>8, <2>1 DEF ReaderOK
    <2>3. writer[m] = p => (Has(p, m, Aloof) \/ Awaits(p, m, Aloof))'
      BY <1>4, <1>8, <2>1 DEF WriterOK
    <2>4. CASE m # l
      <3>1. parked'[m] = parked[m] /\ p \notin parked[m]
        BY <1>1, <1>3, <1>8, <2>1, <2>4 DEF Vars, ParkedOK
      <3> QED BY <1>1, <1>4, <2>1, <2>2, <2>3, <3>1, SameLock
    <2>5. CASE m = l
      <3>1. parked'[l] = parked[l] \union {p} /\ parked[l] \subseteq Process /\ reader[l] \subseteq Process
        BY <1>1, <1>3 DEF Vars
      <3>2. \A q \in Process \ {p} : Alike(q)
        BY <1>4 DEF Only
      <3>3. ReaderOK(l)'
        <4>1. ASSUME NEW q \in reader[l]
              PROVE  (Has(q, l, {"shared"}) \/ Awaits(q, l, {"shared"}))'
          BY <2>1, <2>2, <2>5, <3>1, <3>2, AlikeOK DEF ReaderOK
        <4> QED BY <4>1 DEF ReaderOK
      <3>4. WriterOK(l)'
        <4>1. ASSUME NEW q \in Process, writer[l] = q
              PROVE  (Has(q, l, Aloof) \/ Awaits(q, l, Aloof))'
          BY <2>1, <2>3, <2>5, <3>2, <4>1, AlikeOK DEF WriterOK
        <4> QED BY <4>1 DEF WriterOK
      <3>5. ParkedOK(l)'
        <4>1. Awaits(p, l, {"shared"})'
          BY <1>4 DEF Awaits
        <4>2. p \notin reader[l]
          BY <1>4, <1>8, <2>1, <2>5 DEF ReaderOK, Has
        <4>3. ASSUME NEW q \in parked[l], q # p
              PROVE  q \notin reader[l] /\ Awaits(q, l, {"shared"})'
          BY <2>1, <2>5, <3>1, <3>2, <4>3, AlikeOK DEF ParkedOK
        <4> QED BY <3>1, <4>1, <4>2, <4>3 DEF ParkedOK
      <3> QED BY <2>5, <3>3, <3>4, <3>5
    <2> QED BY <2>4, <2>5
  <1> QED BY <1>5, <1>6, <1>7, <1>9 DEF IInv

LEMMA AnnounceOK ==
  ASSUME IInv, NEW p \in Process, Announce(p)
  PROVE  IInv'
  <1>0. /\ status[p] = "asking" /\ Asks(p).mode \in Aloof /\ ~Reentrant(p, Asks(p))
        /\ writer[Asks(p).lock] = NoProcess /\ writer' = [writer EXCEPT ![Asks(p).lock] = p]
        /\ status' = [status EXCEPT ![p] = "parked"]
        /\ UNCHANGED <<active, reader, parked, kind, todo, held, canceled>>
    BY DEF Announce, Alone, Aloof
  <1>1. OpOK(p) /\ Vars /\ todo[p] # <<>>
    BY <1>0 DEF IInv, OpOK
  <1>2. Asks(p) = todo[p][1] /\ todo[p][1] \in Request
    BY <1>1, FollowsOK DEF OpOK, Asks, Follows
  <1>3. PICK l \in Lock : l = Asks(p).lock
    BY <1>2 DEF Request
  <1>a. todo[p][1].mode \in Aloof /\ todo[p][1].mode # "leave"
    BY <1>0, <1>2 DEF Aloof
  <1>4. /\ Only(p) /\ OpOK(p)' /\ Undisturbed(p)'
        /\ todo'[p][1].lock = l /\ todo'[p][1].mode \in Aloof /\ status'[p] = "parked"
        /\ \A m, modes : Has(p, m, modes) => Has(p, m, modes)'
    BY <1>0, <1>2, <1>3, <1>a, Waiting
  <1>5. Vars'
    BY <1>0, <1>1, <1>3 DEF Vars
  <1>6. \A q \in Process : OpOK(q)' /\ Undisturbed(q)'
    BY <1>0, <1>4, AlikeOK DEF IInv, Only
  <1>7. \A q \in Process : HeldOK(q)'
    <2>1. \A q \in Process : \A i \in DOMAIN held[q] : held[q][i].lock = l => held[q][i].mode = "shared"
      BY <1>0, <1>3, Constants DEF IInv, HeldOK
    <2>2. \A m : m # l => writer'[m] = writer[m]
      BY <1>0, <1>1, <1>3 DEF Vars
    <2>3. \A q \in Process : HeldOK(q)
      BY DEF IInv
    <2>4. held' = held /\ reader' = reader
      BY <1>0
    <2> QED BY <2>1, <2>2, <2>3, <2>4 DEF HeldOK
  <1>8. \A m, modes : ~Awaits(p, m, modes)
    BY <1>0 DEF Awaits
  <1>9. ASSUME NEW m \in Lock PROVE ReaderOK(m)' /\ WriterOK(m)' /\ ParkedOK(m)'
    <2>1. ReaderOK(m) /\ WriterOK(m) /\ ParkedOK(m)
      BY DEF IInv
    <2>2. p \in reader[m] => (Has(p, m, {"shared"}) \/ Awaits(p, m, {"shared"}))'
      BY <1>4, <1>8, <2>1 DEF ReaderOK
    <2>3. writer[m] = p => (Has(p, m, Aloof) \/ Awaits(p, m, Aloof))'
      BY <1>4, <1>8, <2>1 DEF WriterOK
    <2>4. p \notin parked[m]
      BY <1>8, <2>1 DEF ParkedOK
    <2>5. CASE m # l
      <3>1. writer'[m] = writer[m] /\ reader'[m] = reader[m] /\ parked'[m] = parked[m]
        BY <1>0, <1>1, <1>3, <2>5 DEF Vars
      <3> QED BY <1>1, <1>4, <2>1, <2>2, <2>3, <2>4, <3>1, SameLock
    <2>6. CASE m = l
      <3>1. /\ writer'[l] = p /\ reader'[l] = reader[l] /\ parked'[l] = parked[l]
            /\ parked[l] \subseteq Process /\ reader[l] \subseteq Process
        BY <1>0, <1>1, <1>3 DEF Vars
      <3>2. \A q \in Process \ {p} : Alike(q)
        BY <1>4 DEF Only
      <3>3. ASSUME NEW q \in reader[l]
            PROVE  (Has(q, l, {"shared"}) \/ Awaits(q, l, {"shared"}))'
        BY <2>1, <2>2, <2>6, <3>1, <3>2, AlikeOK DEF ReaderOK
      <3>4. Awaits(p, l, Aloof)'
        BY <1>4 DEF Awaits
      <3>5. ASSUME NEW q \in parked[l] PROVE q \notin reader[l] /\ Awaits(q, l, {"shared"})'
        BY <2>1, <2>4, <2>6, <3>1, <3>2, AlikeOK DEF ParkedOK
      <3> QED BY <2>6, <3>1, <3>3, <3>4, <3>5 DEF ReaderOK, WriterOK, ParkedOK
    <2> QED BY <2>5, <2>6
  <1> QED BY <1>5, <1>6, <1>7, <1>9 DEF IInv

---------------------------------------------------------------------------
(* Having a lock.                                                          *)

\* Whoever has got what it asked for holds it and waits for nothing, and what
\* else it holds is in other locks.
LEMMA GrantedOK ==
  ASSUME IInv, NEW p \in Process, NEW l \in Lock, Granted(p), todo[p] # <<>>,
         status[p] \in {"asking", "parked"}, UNCHANGED <<active, kind, canceled>>,
         todo[p][1].mode # "leave", FreshAt(held[p], todo[p], 1), todo[p][1].lock = l
  PROVE  /\ Only(p) /\ OpOK(p)' /\ Undisturbed(p)' /\ status'[p] # "parked"
         /\ Extends(held[p], todo[p][1], held'[p])
         /\ \A i \in DOMAIN held[p] : held[p][i].lock # l
         /\ \A m, modes : Has(p, m, modes) => Has(p, m, modes)'
         /\ \A modes : todo[p][1].mode \in modes => Has(p, l, modes)'
         /\ status' = [q \in Process |-> status'[q]]
         /\ \A q \in Process : status'[q] \in {"idle", "asking", "parked", "working", "leaving"}
         /\ todo' = [q \in Process |-> todo'[q]] /\ held' = [q \in Process |-> held'[q]]
  <1> DEFINE r == todo[p][1]
             g == Append(held[p], Head(todo[p]))
  <1>1. OpOK(p) /\ Vars /\ Undisturbed(p)
    BY DEF IInv
  <1>2. /\ held[p] \in Seq(Request) /\ todo[p] \in Seq(Request) /\ InOrder(held[p], todo[p])
        /\ Uses(todo[p], ModesOf(kind[p])) /\ Uses(held[p], ModesOf(kind[p]) \ {"leave"})
    BY <1>1 DEF OpOK
  <1>3. Follows(todo[p], Tail(todo[p])) /\ Head(todo[p]) = r /\ r \in Request /\ Asks(p) = r
    BY <1>2, FollowsOK DEF Follows, Asks
  <1>4. Extends(held[p], r, g)
    BY <1>2, <1>3, ExtendsOK
  <1>5. /\ InOrder(g, Tail(todo[p])) /\ InOrder(g, <<>>)
        /\ \A i \in DOMAIN held[p] : held[p][i].lock # l
    BY <1>2, GrantInOrder
  <1>6. held' = [held EXCEPT ![p] = g]
    BY <1>3 DEF Granted
  <1>7. \/ /\ p \notin canceled /\ Clear(r)
           /\ todo' = [todo EXCEPT ![p] = Tail(@)]
           /\ status' = [status EXCEPT ![p] = IF Tail(todo[p]) = <<>> THEN "working" ELSE "asking"]
        \/ /\ todo' = [todo EXCEPT ![p] = <<>>]
           /\ status' = [status EXCEPT ![p] = "leaving"]
    BY <1>3 DEF Granted, GoOn, GiveUp
  <1> HIDE DEF g
  <1>8. /\ status' = [q \in Process |-> status'[q]]
        /\ \A q \in Process : status'[q] \in {"idle", "asking", "parked", "working", "leaving"}
        /\ todo' = [q \in Process |-> todo'[q]] /\ held' = [q \in Process |-> held'[q]]
    BY <1>1, <1>6, <1>7 DEF Vars
  <1>9. Only(p)
    BY <1>1, <1>6, <1>7 DEF Vars, Only, Alike
  <1>10. held'[p] = g /\ kind'[p] = kind[p] /\ active' = active
    BY <1>1, <1>6 DEF Vars
  <1>11. \/ /\ Clear(r) /\ todo'[p] = Tail(todo[p])
            /\ status'[p] = IF Tail(todo[p]) = <<>> THEN "working" ELSE "asking"
         \/ todo'[p] = <<>> /\ status'[p] = "leaving"
    BY <1>1, <1>7 DEF Vars
  <1>12. Len(held[p]) + 1 \in DOMAIN g /\ g[Len(held[p]) + 1] = r /\ g # <<>> /\ g \in Seq(Request)
    BY <1>4 DEF Extends
  <1>13. r.mode \in ModesOf(kind[p])
    BY <1>2, <1>3 DEF Uses, Follows
  <1>14. Uses(g, ModesOf(kind[p]) \ {"leave"})
    BY <1>2, <1>4, <1>13 DEF Uses, Extends
  <1>15. Uses(Tail(todo[p]), ModesOf(kind[p])) /\ Tail(todo[p]) \in Seq(Request)
    BY <1>2, <1>3 DEF Uses, Follows
  <1>16. Uses(<<>>, ModesOf(kind[p])) /\ <<>> \in Seq(Request)
    BY DEF Uses
  <1>17. OpOK(p)'
    BY <1>5, <1>10, <1>11, <1>12, <1>14, <1>15, <1>16 DEF OpOK
  <1>18. Undisturbed(p)'
    <2> SUFFICES ASSUME kind[p] \notin {"install", "prepare"}, status'[p] # "leaving",
                        NEW i \in DOMAIN g
                 PROVE  g[i].lock \notin active
      BY <1>10 DEF Undisturbed
    <2>1. CASE i \in DOMAIN held[p]
      BY <1>1, <1>4, <2>1 DEF Undisturbed, Extends
    <2>2. CASE i = Len(held[p]) + 1
      <3>1. Clear(r) /\ r.mode \in {"shared", "exclusive", "mutex"}
        BY <1>11, <1>13 DEF ModesOf
      <3>2. CASE r.mode = "mutex"
        BY <1>1, <1>3, <1>12, <2>2, <3>2, Constants DEF Vars, Request, Proper
      <3>3. CASE r.mode # "mutex"
        BY <1>12, <2>2, <3>1, <3>3 DEF Clear
      <3> QED BY <3>2, <3>3
    <2> QED BY <1>4, <2>1, <2>2 DEF Extends
  <1>19. \A m, modes : Has(p, m, modes) => Has(p, m, modes)'
    BY <1>4, <1>10 DEF Has, Extends
  <1>20. \A modes : r.mode \in modes => Has(p, l, modes)'
    BY <1>10, <1>12 DEF Has
  <1> QED BY <1>4, <1>5, <1>8, <1>9, <1>10, <1>11, <1>17, <1>18, <1>19, <1>20

\* A reader is let in where there is no writer.
LEMMA EnterOK ==
  ASSUME IInv, NEW p \in Process, status[p] = "asking", Asks(p).mode = "shared",
         ~Reentrant(p, Asks(p)), writer[Asks(p).lock] = NoProcess,
         reader' = [reader EXCEPT ![Asks(p).lock] = @ \union {p}],
         Granted(p), UNCHANGED <<active, writer, parked, kind, canceled>>
  PROVE  IInv'
  <1>1. OpOK(p) /\ Vars /\ todo[p] # <<>>
    BY DEF IInv, OpOK
  <1>2. Asks(p) = todo[p][1] /\ todo[p][1] \in Request
    BY <1>1, FollowsOK DEF OpOK, Asks, Follows
  <1>3. PICK l \in Lock : l = Asks(p).lock
    BY <1>2 DEF Request
  <1>4. FreshAt(held[p], todo[p], 1) /\ todo[p][1].mode = "shared"
    BY <1>1, <1>2, NotReentrant
  <1>5. /\ Only(p) /\ OpOK(p)' /\ Undisturbed(p)' /\ status'[p] # "parked"
        /\ Extends(held[p], todo[p][1], held'[p])
        /\ \A m, modes : Has(p, m, modes) => Has(p, m, modes)'
        /\ \A modes : "shared" \in modes => Has(p, l, modes)'
        /\ status' = [q \in Process |-> status'[q]]
        /\ \A q \in Process : status'[q] \in {"idle", "asking", "parked", "working", "leaving"}
        /\ todo' = [q \in Process |-> todo'[q]] /\ held' = [q \in Process |-> held'[q]]
    BY <1>1, <1>2, <1>3, <1>4, GrantedOK
  <1>6. Vars'
    BY <1>1, <1>3, <1>5 DEF Vars
  <1>7. \A q \in Process : OpOK(q)' /\ Undisturbed(q)'
    BY <1>5, AlikeOK DEF IInv, Only
  <1>8. /\ reader'[l] = reader[l] \union {p} /\ writer[l] = NoProcess
        /\ \A m \in Lock \ {l} : reader'[m] = reader[m]
        /\ \A m \in Lock : reader[m] \subseteq reader'[m]
        /\ \A m \in Lock : reader[m] \subseteq Process /\ parked[m] \subseteq Process
    BY <1>1, <1>3 DEF Vars
  <1>9. ASSUME NEW q \in Process, NEW i \in DOMAIN held[q]
        PROVE  LET r == held[q][i] IN
               /\ r.mode = "shared" => q \in reader'[r.lock]
               /\ r.mode # "shared" => writer[r.lock] = q /\ reader'[r.lock] = {}
    <2>1. HeldOK(q) /\ held[q] \in Seq(Request)
      BY DEF IInv, OpOK
    <2>2. held[q][i].lock \in Lock
      BY <2>1 DEF Request
    <2>3. CASE held[q][i].mode = "shared"
      BY <1>8, <2>1, <2>2, <2>3 DEF HeldOK
    <2>4. CASE held[q][i].mode # "shared"
      <3>1. writer[held[q][i].lock] = q /\ reader[held[q][i].lock] = {}
        BY <2>1, <2>4 DEF HeldOK
      <3>2. held[q][i].lock # l
        BY <1>8, <3>1, Constants
      <3>3. reader'[held[q][i].lock] = reader[held[q][i].lock]
        BY <1>8, <2>2, <3>2
      <3> QED BY <2>4, <3>1, <3>3
    <2> QED BY <2>3, <2>4
  <1>10. ASSUME NEW q \in Process PROVE HeldOK(q)'
    <2>1. CASE q # p
      <3>1. held'[q] = held[q]
        BY <1>5, <2>1 DEF Only, Alike
      <3> QED BY <1>9, <3>1 DEF HeldOK
    <2>2. CASE q = p
      <3>1. /\ held'[p][Len(held[p]) + 1] = todo[p][1] /\ DOMAIN held'[p] = 1..(Len(held[p]) + 1)
            /\ \A i \in DOMAIN held[p] : held'[p][i] = held[p][i]
            /\ DOMAIN held[p] = 1..Len(held[p]) /\ Len(held[p]) \in Nat
        BY <1>5 DEF Extends
      <3>2. ASSUME NEW i \in DOMAIN held'[p]
            PROVE  LET r == held'[p][i] IN
                   /\ r.mode = "shared" => p \in reader'[r.lock]
                   /\ r.mode # "shared" => writer[r.lock] = p /\ reader'[r.lock] = {}
        <4>1. CASE i \in DOMAIN held[p]
          <5>1. held'[p][i] = held[p][i]
            BY <3>1, <4>1
          <5> QED BY <1>9, <4>1, <5>1
        <4>2. CASE i = Len(held[p]) + 1
          <5>1. held'[p][i].mode = "shared" /\ held'[p][i].lock = l
            BY <1>2, <1>3, <1>4, <3>1, <4>2
          <5> QED BY <1>8, <5>1
        <4> QED BY <3>1, <4>1, <4>2
      <3> QED BY <2>2, <3>2 DEF HeldOK
    <2> QED BY <2>1, <2>2
  <1>11. \A m, modes : ~Awaits(p, m, modes)
    BY DEF Awaits
  <1>12. ASSUME NEW m \in Lock PROVE ReaderOK(m)' /\ WriterOK(m)' /\ ParkedOK(m)'
    <2>1. ReaderOK(m) /\ WriterOK(m) /\ ParkedOK(m)
      BY DEF IInv
    <2>2. p \in reader[m] => (Has(p, m, {"shared"}) \/ Awaits(p, m, {"shared"}))'
      BY <1>5, <1>11, <2>1 DEF ReaderOK
    <2>3. writer[m] = p => (Has(p, m, Aloof) \/ Awaits(p, m, Aloof))'
      BY <1>5, <1>11, <2>1 DEF WriterOK
    <2>4. p \notin parked[m]
      BY <1>11, <2>1 DEF ParkedOK
    <2>5. CASE m # l
      BY <1>1, <1>5, <1>8, <2>1, <2>2, <2>3, <2>4, <2>5, SameLock
    <2>6. CASE m = l
      <3>1. \A q \in Process \ {p} : Alike(q)
        BY <1>5 DEF Only
      <3>2. ASSUME NEW q \in reader[l], q # p
            PROVE  (Has(q, l, {"shared"}) \/ Awaits(q, l, {"shared"}))'
        BY <1>8, <2>1, <2>6, <3>1, <3>2, AlikeOK DEF ReaderOK
      <3>3. Has(p, l, {"shared"})'
        BY <1>5
      <3>4. ASSUME NEW q \in parked[l]
            PROVE  q \notin reader'[l] /\ Awaits(q, l, {"shared"})'
        BY <1>8, <2>1, <2>4, <2>6, <3>1, AlikeOK DEF ParkedOK
      <3> QED BY <1>8, <2>6, <3>2, <3>3, <3>4, Constants DEF ReaderOK, WriterOK, ParkedOK
    <2> QED BY <2>5, <2>6
  <1> QED BY <1>6, <1>7, <1>10, <1>12 DEF IInv

\* A waiting operation has got its lock: it is a reader, or the writer alone.
LEMMA GotOK ==
  ASSUME IInv, NEW p \in Process, NEW l \in Lock, status[p] = "parked", Asks(p).lock = l,
         Granted(p), UNCHANGED <<active, locks, kind, canceled>>,
         \/ Asks(p).mode = "shared" /\ p \in reader[l]
         \/ Asks(p).mode # "shared" /\ writer[l] = p /\ reader[l] = {}
  PROVE  IInv'
  <1>1. OpOK(p) /\ Vars /\ todo[p] # <<>> /\ todo[p][1].mode # "leave" /\ FreshAt(held[p], todo[p], 1)
    BY DEF IInv, OpOK
  <1>2. Asks(p) = todo[p][1] /\ todo[p][1] \in Request
    BY <1>1, FollowsOK DEF OpOK, Asks, Follows
  <1>3. /\ Only(p) /\ OpOK(p)' /\ Undisturbed(p)' /\ status'[p] # "parked"
        /\ Extends(held[p], todo[p][1], held'[p])
        /\ \A m, modes : Has(p, m, modes) => Has(p, m, modes)'
        /\ \A modes : todo[p][1].mode \in modes => Has(p, l, modes)'
        /\ status' = [q \in Process |-> status'[q]]
        /\ \A q \in Process : status'[q] \in {"idle", "asking", "parked", "working", "leaving"}
        /\ todo' = [q \in Process |-> todo'[q]] /\ held' = [q \in Process |-> held'[q]]
    BY <1>1, <1>2, GrantedOK
  <1>4. reader' = reader /\ writer' = writer /\ parked' = parked /\ active' = active
    BY DEF locks
  <1>5. Vars'
    BY <1>1, <1>3, <1>4 DEF Vars
  <1>6. \A q \in Process : OpOK(q)' /\ Undisturbed(q)'
    BY <1>3, AlikeOK DEF IInv, Only
  <1>7. ASSUME NEW q \in Process PROVE HeldOK(q)'
    <2>1. HeldOK(q)
      BY DEF IInv
    <2>2. CASE q # p
      BY <1>3, <2>1, <2>2, AlikeOK DEF Only
    <2>3. CASE q = p
      <3>1. /\ held'[p][Len(held[p]) + 1] = todo[p][1] /\ DOMAIN held'[p] = 1..(Len(held[p]) + 1)
            /\ \A i \in DOMAIN held[p] : held'[p][i] = held[p][i]
            /\ DOMAIN held[p] = 1..Len(held[p]) /\ Len(held[p]) \in Nat
        BY <1>3 DEF Extends
      <3>2. ASSUME NEW i \in DOMAIN held'[p]
            PROVE  LET r == held'[p][i] IN
                   /\ r.mode = "shared" => p \in reader[r.lock]
                   /\ r.mode # "shared" => writer[r.lock] = p /\ reader[r.lock] = {}
        <4>1. CASE i \in DOMAIN held[p]
          <5>1. held'[p][i] = held[p][i]
            BY <3>1, <4>1
          <5> QED BY <2>1, <2>3, <4>1, <5>1 DEF HeldOK
        <4>2. CASE i = Len(held[p]) + 1
          <5>1. held'[p][i] = Asks(p)
            BY <1>2, <3>1, <4>2
          <5> QED BY <5>1
        <4> QED BY <3>1, <4>1, <4>2
      <3> QED BY <1>4, <2>3, <3>2 DEF HeldOK
    <2> QED BY <2>2, <2>3
  <1>8. ASSUME NEW m \in Lock PROVE ReaderOK(m)' /\ WriterOK(m)' /\ ParkedOK(m)'
    <2>1. ReaderOK(m) /\ WriterOK(m) /\ ParkedOK(m)
      BY DEF IInv
    <2>2. ASSUME NEW modes, Awaits(p, m, modes) PROVE Has(p, m, modes)'
      <3>1. m = l /\ todo[p][1].mode \in modes
        BY <1>2, <2>2 DEF Awaits
      <3> QED BY <1>3, <3>1
    <2>3. p \in reader[m] => (Has(p, m, {"shared"}) \/ Awaits(p, m, {"shared"}))'
      BY <1>3, <2>1, <2>2 DEF ReaderOK
    <2>4. writer[m] = p => (Has(p, m, Aloof) \/ Awaits(p, m, Aloof))'
      BY <1>3, <2>1, <2>2 DEF WriterOK
    <2>5. p \notin parked[m]
      <3>1. p \in parked[m] => m = l /\ todo[p][1].mode = "shared" /\ p \notin reader[m]
        BY <1>2, <2>1 DEF ParkedOK, Awaits
      <3> QED BY <1>2, <3>1
    <2> QED BY <1>1, <1>3, <1>4, <2>1, <2>3, <2>4, <2>5, SameLock
  <1> QED BY <1>5, <1>6, <1>7, <1>8 DEF IInv

\* The lock one waits for is not one it holds already.
LEMMA AwaitedIsNew ==
  ASSUME IInv, NEW p \in Process, status[p] = "parked"
  PROVE  /\ Asks(p) = todo[p][1] /\ todo[p][1] \in Request /\ Asks(p).lock \in Lock
         /\ \A modes : ~Has(p, Asks(p).lock, modes)
  <1>1. OpOK(p) /\ todo[p] # <<>> /\ FreshAt(held[p], todo[p], 1)
    BY DEF IInv, OpOK
  <1>2. Asks(p) = todo[p][1] /\ todo[p][1] \in Request
    BY <1>1, FollowsOK DEF OpOK, Asks, Follows
  <1>3. ASSUME NEW i \in DOMAIN held[p] PROVE held[p][i].lock # Asks(p).lock
    <2>1. held[p][i].lock \in Lock /\ todo[p][1].lock \in Lock
      BY <1>1, <1>2 DEF OpOK, Request
    <2>2. Before(held[p][i].lock, todo[p][1].lock)
      BY <1>1 DEF FreshAt
    <2> QED BY <1>2, <2>1, <2>2, BeforeDiffers
  <1> QED BY <1>2, <1>3 DEF Has, Request

LEMMA UnparkOK ==
  ASSUME IInv, NEW p \in Process, Unpark(p)
  PROVE  IInv'
  <1>1. /\ status[p] = "parked" /\ p \in reader[Asks(p).lock] /\ Granted(p)
        /\ UNCHANGED <<active, locks, kind, canceled>>
    BY DEF Unpark
  <1>2. /\ Asks(p) = todo[p][1] /\ Asks(p).lock \in Lock
        /\ \A modes : ~Has(p, Asks(p).lock, modes)
    BY <1>1, AwaitedIsNew
  <1>3. ReaderOK(Asks(p).lock)
    BY <1>2 DEF IInv
  <1>4. Asks(p).mode = "shared"
    BY <1>1, <1>2, <1>3 DEF ReaderOK, Awaits
  <1> QED BY <1>1, <1>2, <1>4, GotOK

LEMMA AcquireAloneOK ==
  ASSUME IInv, NEW p \in Process, AcquireAlone(p)
  PROVE  IInv'
  <1>1. /\ status[p] = "parked" /\ writer[Asks(p).lock] = p /\ reader[Asks(p).lock] = {}
        /\ Granted(p) /\ UNCHANGED <<active, locks, kind, canceled>>
    BY DEF AcquireAlone
  <1>2. /\ Asks(p) = todo[p][1] /\ Asks(p).lock \in Lock
        /\ \A modes : ~Has(p, Asks(p).lock, modes)
    BY <1>1, AwaitedIsNew
  <1>3. WriterOK(Asks(p).lock)
    BY <1>2 DEF IInv
  <1>4. Asks(p).mode # "shared"
    BY <1>1, <1>2, <1>3 DEF WriterOK, Awaits, Aloof
  <1> QED BY <1>1, <1>2, <1>4, GotOK

LEMMA AcquireSharedOK ==
  ASSUME IInv, NEW p \in Process, AcquireShared(p)
  PROVE  IInv'
  <1>1. /\ status[p] = "asking" /\ Asks(p).mode = "shared" /\ ~Reentrant(p, Asks(p))
        /\ UNCHANGED <<active, writer, kind, canceled>>
    BY DEF AcquireShared
  <1>2. CASE /\ writer[Asks(p).lock] = NoProcess
             /\ reader' = [reader EXCEPT ![Asks(p).lock] = @ \union {p}]
             /\ Granted(p) /\ UNCHANGED parked
    BY <1>1, <1>2, EnterOK
  <1>3. CASE /\ parked' = [parked EXCEPT ![Asks(p).lock] = @ \union {p}]
             /\ status' = [status EXCEPT ![p] = "parked"]
             /\ UNCHANGED <<reader, todo, held>>
    BY <1>1, <1>3, ParkOK
  <1> QED BY <1>2, <1>3 DEF AcquireShared

---------------------------------------------------------------------------
(* Releasing a lock.                                                       *)

\* The last lock of p is released, to those that have waited for it.
LEMMA UnlockOK ==
  ASSUME IInv, NEW p \in Process, status[p] # "parked", held[p] # <<>>,
         Unlock(p, Last(held[p])), held' = [held EXCEPT ![p] = Front(@)],
         active' = active, Only(p), OpOK(p)', Undisturbed(p)',
         status' = [q \in Process |-> status'[q]], kind' = [q \in Process |-> kind'[q]],
         todo' = [q \in Process |-> todo'[q]], canceled' \subseteq Process,
         status'[p] \in {"idle", "asking", "parked", "working", "leaving"},
         kind'[p] \in Kind \union {"none"}
  PROVE  IInv'
  <1>1. OpOK(p) /\ HeldOK(p) /\ Vars
    BY DEF IInv
  <1>2. Drops(held[p], Front(held[p])) /\ Last(held[p]) = held[p][Len(held[p])]
    BY <1>1, DropsOK DEF OpOK
  <1>3. PICK r \in Request : r = Last(held[p])
    BY <1>2 DEF Drops
  <1>4. PICK l \in Lock : l = r.lock
    BY DEF Request
  <1>5. /\ held'[p] = Front(held[p]) /\ r = held[p][Len(held[p])]
        /\ \A i \in DOMAIN Front(held[p]) : held'[p][i] = held[p][i] /\ i \in DOMAIN held[p]
        /\ \A i \in DOMAIN held[p] : i = Len(held[p]) \/ i \in DOMAIN Front(held[p])
        /\ Len(held[p]) \in DOMAIN held[p]
    BY <1>1, <1>2, <1>3 DEF Vars, Drops
  <1>6. \A i \in DOMAIN Front(held[p]) : Front(held[p])[i].lock # l
    BY <1>1, <1>3, <1>4, LastIsUnique DEF OpOK
  <1>7. \/ /\ r.mode = "shared" /\ reader' = [reader EXCEPT ![l] = @ \ {p}]
           /\ writer' = writer /\ parked' = parked
        \/ /\ r.mode # "shared" /\ writer' = [writer EXCEPT ![l] = NoProcess]
           /\ reader' = [reader EXCEPT ![l] = parked[l]]
           /\ parked' = [parked EXCEPT ![l] = {}]
    BY <1>3, <1>4 DEF Unlock
  <1>8. Vars'
    <2>1. \A q \in Process : /\ status'[q] \in {"idle", "asking", "parked", "working", "leaving"}
                             /\ kind'[q] \in Kind \union {"none"}
      BY <1>1 DEF Only, Alike, Vars
    <2>2. /\ reader' \in [Lock -> SUBSET Process] /\ parked' \in [Lock -> SUBSET Process]
          /\ writer' \in [Lock -> Process \union {NoProcess}]
      BY <1>1, <1>7 DEF Vars
    <2>3. held' = [q \in Process |-> held'[q]]
      BY <1>1 DEF Vars
    <2> QED BY <1>1, <2>1, <2>2, <2>3 DEF Vars
  <1>9. \A q \in Process : OpOK(q)' /\ Undisturbed(q)'
    BY AlikeOK DEF IInv, Only
  <1>10. \A m \in Lock \ {l} : reader'[m] = reader[m] /\ writer'[m] = writer[m] /\ parked'[m] = parked[m]
    BY <1>1, <1>7 DEF Vars
  <1>11. \/ /\ r.mode = "shared" /\ reader'[l] = reader[l] \ {p} /\ p \in reader[l]
            /\ writer'[l] = writer[l] /\ parked'[l] = parked[l]
         \/ /\ r.mode # "shared" /\ writer[l] = p /\ reader[l] = {}
            /\ writer'[l] = NoProcess /\ reader'[l] = parked[l] /\ parked'[l] = {}
    <2>1. /\ r.mode = "shared" => p \in reader[l]
          /\ r.mode # "shared" => writer[l] = p /\ reader[l] = {}
      BY <1>1, <1>4, <1>5 DEF HeldOK
    <2> QED BY <1>1, <1>7, <2>1 DEF Vars
  <1>12. ASSUME NEW q \in Process PROVE HeldOK(q)'
    <2>1. HeldOK(q) /\ held[q] \in Seq(Request)
      BY DEF IInv, OpOK
    <2>2. CASE q # p
      <3>1. held'[q] = held[q]
        BY <2>2 DEF Only, Alike
      <3>2. ASSUME NEW i \in DOMAIN held[q]
            PROVE  /\ held[q][i].mode = "shared" => q \in reader'[held[q][i].lock]
                   /\ held[q][i].mode # "shared" =>
                        writer'[held[q][i].lock] = q /\ reader'[held[q][i].lock] = {}
        <4>1. /\ held[q][i].mode = "shared" => q \in reader[held[q][i].lock]
              /\ held[q][i].mode # "shared" =>
                   writer[held[q][i].lock] = q /\ reader[held[q][i].lock] = {}
          BY <2>1 DEF HeldOK
        <4>2. held[q][i].lock \in Lock
          BY <2>1 DEF Request
        <4>3. CASE held[q][i].lock # l
          BY <1>10, <4>1, <4>2, <4>3
        <4>4. CASE held[q][i].lock = l
          BY <1>11, <2>2, <4>1, <4>4
        <4> QED BY <4>3, <4>4
      <3> QED BY <3>1, <3>2 DEF HeldOK
    <2>3. CASE q = p
      <3>1. ASSUME NEW i \in DOMAIN held'[p]
            PROVE  /\ held'[p][i].mode = "shared" => p \in reader'[held'[p][i].lock]
                   /\ held'[p][i].mode # "shared" =>
                        writer'[held'[p][i].lock] = p /\ reader'[held'[p][i].lock] = {}
        <4>1. /\ held'[p][i] = held[p][i] /\ i \in DOMAIN held[p]
              /\ held[p][i].lock # l /\ held[p][i].lock \in Lock
          <5>1. i \in DOMAIN Front(held[p])
            BY <1>5
          <5>2. held'[p][i] = held[p][i] /\ i \in DOMAIN held[p] /\ held'[p][i] = Front(held[p])[i]
            BY <1>5, <5>1
          <5>3. held[p][i] \in Request
            BY <1>2, <5>1 DEF Drops
          <5> QED BY <1>6, <5>1, <5>2, <5>3 DEF Request
        <4>2. /\ held[p][i].mode = "shared" => p \in reader[held[p][i].lock]
              /\ held[p][i].mode # "shared" =>
                   writer[held[p][i].lock] = p /\ reader[held[p][i].lock] = {}
          BY <1>1, <4>1 DEF HeldOK
        <4> QED BY <1>10, <4>1, <4>2
      <3> QED BY <2>3, <3>1 DEF HeldOK
    <2> QED BY <2>2, <2>3
  <1>13. \A m, modes : ~Awaits(p, m, modes)
    BY DEF Awaits
  <1>14. ASSUME NEW m \in Lock PROVE ReaderOK(m)' /\ WriterOK(m)' /\ ParkedOK(m)'
    <2>1. ReaderOK(m) /\ WriterOK(m) /\ ParkedOK(m)
      BY DEF IInv
    <2>2. p \notin parked[m]
      BY <1>13, <2>1 DEF ParkedOK
    <2>3. CASE m # l
      <3>1. ASSUME NEW modes, Has(p, m, modes) PROVE Has(p, m, modes)'
        <4>1. PICK i \in DOMAIN held[p] : held[p][i].lock = m /\ held[p][i].mode \in modes
          BY <3>1 DEF Has
        <4>2. i \in DOMAIN Front(held[p]) /\ held'[p][i] = held[p][i]
          BY <1>4, <1>5, <2>3, <4>1
        <4> QED BY <1>5, <4>1, <4>2 DEF Has
      <3>2. p \in reader[m] => (Has(p, m, {"shared"}) \/ Awaits(p, m, {"shared"}))'
        BY <1>13, <2>1, <3>1 DEF ReaderOK
      <3>3. writer[m] = p => (Has(p, m, Aloof) \/ Awaits(p, m, Aloof))'
        BY <1>13, <2>1, <3>1 DEF WriterOK
      <3>4. reader'[m] = reader[m] /\ writer'[m] = writer[m] /\ parked'[m] = parked[m]
        BY <1>10, <2>3
      <3> QED BY <1>1, <2>1, <2>2, <3>2, <3>3, <3>4, SameLock
    <2>4. CASE m = l
      <3>1. \A q \in Process \ {p} : Alike(q)
        BY DEF Only
      <3>2. reader[l] \subseteq Process /\ parked[l] \subseteq Process
        BY <1>1 DEF Vars
      <3>3. ASSUME NEW q \in parked[l]
            PROVE  q # p /\ q \notin reader[l] /\ Awaits(q, l, {"shared"})'
        BY <2>1, <2>2, <2>4, <3>1, <3>2, AlikeOK DEF ParkedOK
      <3>4. CASE /\ r.mode = "shared" /\ reader'[l] = reader[l] \ {p} /\ p \in reader[l]
                 /\ writer'[l] = writer[l] /\ parked'[l] = parked[l]
        <4>1. ASSUME NEW q \in reader'[l]
              PROVE  (Has(q, l, {"shared"}) \/ Awaits(q, l, {"shared"}))'
          BY <2>1, <2>4, <3>1, <3>2, <3>4, AlikeOK DEF ReaderOK
        <4>2. ~Has(p, l, Aloof)
          BY <1>5, <1>6, <3>4 DEF Has, Aloof
        <4>3. ASSUME NEW q \in Process, writer[l] = q
              PROVE  (Has(q, l, Aloof) \/ Awaits(q, l, Aloof))'
          BY <1>13, <2>1, <2>4, <3>1, <4>2, <4>3, AlikeOK DEF WriterOK
        <4> QED BY <2>4, <3>3, <3>4, <4>1, <4>3 DEF ReaderOK, WriterOK, ParkedOK
      <3>5. CASE /\ r.mode # "shared" /\ writer[l] = p /\ reader[l] = {}
                 /\ writer'[l] = NoProcess /\ reader'[l] = parked[l] /\ parked'[l] = {}
        BY <2>4, <3>3, <3>5, Constants DEF ReaderOK, WriterOK, ParkedOK
      <3> QED BY <1>11, <3>4, <3>5
    <2> QED BY <2>3, <2>4
  <1> QED BY <1>8, <1>9, <1>12, <1>14 DEF IInv

LEMMA LeaveMutexOK ==
  ASSUME IInv, NEW p \in Process, LeaveMutex(p)
  PROVE  IInv'
  <1>1. /\ status[p] = "asking" /\ Asks(p).mode = "leave" /\ Unlock(p, Last(held[p]))
        /\ held' = [held EXCEPT ![p] = Front(@)] /\ todo' = [todo EXCEPT ![p] = Tail(@)]
        /\ status' = [status EXCEPT ![p] = IF Tail(todo[p]) = <<>> THEN "working" ELSE "asking"]
        /\ UNCHANGED <<active, kind, canceled>>
    BY DEF LeaveMutex, GoOn
  <1>2. OpOK(p) /\ Vars /\ Undisturbed(p) /\ todo[p] # <<>>
    BY <1>1 DEF IInv, OpOK
  <1>3. Follows(todo[p], Tail(todo[p])) /\ Asks(p) = todo[p][1]
    BY <1>2, FollowsOK DEF OpOK, Asks
  <1>4. held[p] # <<>> /\ InOrder(Front(held[p]), Tail(todo[p]))
    BY <1>1, <1>2, <1>3, LeaveInOrder DEF OpOK
  <1>5. Drops(held[p], Front(held[p]))
    BY <1>2, <1>4, DropsOK DEF OpOK
  <1>6. /\ held'[p] = Front(held[p]) /\ todo'[p] = Tail(todo[p]) /\ kind'[p] = kind[p]
        /\ status'[p] = IF Tail(todo[p]) = <<>> THEN "working" ELSE "asking"
    BY <1>1, <1>2 DEF Vars
  <1>7. kind[p] # "install"
    BY <1>1, <1>2, <1>3 DEF OpOK, Uses, ModesOf, Follows
  <1>8. OpOK(p)'
    <2>1. Tail(todo[p]) \in Seq(Request) /\ Front(held[p]) \in Seq(Request)
      BY <1>3, <1>5 DEF Follows, Drops
    <2>2. Uses(Tail(todo[p]), ModesOf(kind[p])) /\ Uses(Front(held[p]), ModesOf(kind[p]) \ {"leave"})
      BY <1>2, <1>3, <1>5 DEF OpOK, Uses, Follows, Drops
    <2> QED BY <1>4, <1>6, <1>7, <2>1, <2>2 DEF OpOK
  <1>9. Undisturbed(p)'
    <2>1. \A i \in DOMAIN held'[p] : held'[p][i] = held[p][i] /\ i \in DOMAIN held[p]
      BY <1>5, <1>6 DEF Drops
    <2>2. kind[p] \notin {"install", "prepare"} =>
            \A i \in DOMAIN held[p] : held[p][i].lock \notin active
      BY <1>1, <1>2 DEF Undisturbed
    <2> QED BY <1>1, <1>6, <2>1, <2>2 DEF Undisturbed
  <1>10. Only(p) /\ canceled' \subseteq Process
    BY <1>1, <1>2 DEF Vars, Only, Alike
  <1>11. /\ status' = [q \in Process |-> status'[q]] /\ kind' = [q \in Process |-> kind'[q]]
         /\ todo' = [q \in Process |-> todo'[q]] /\ kind'[p] \in Kind \union {"none"}
    BY <1>1, <1>2 DEF Vars
  <1> QED BY <1>1, <1>4, <1>6, <1>8, <1>9, <1>10, <1>11, UnlockOK

LEMMA ReleaseOK ==
  ASSUME IInv, NEW p \in Process, Release(p)
  PROVE  IInv'
  <1>1. status[p] = "leaving" /\ UNCHANGED <<active, todo>>
    BY DEF Release
  <1>2. OpOK(p) /\ Vars
    BY DEF IInv
  <1>3. CASE held[p] = <<>>
    <2>1. /\ status' = [status EXCEPT ![p] = "idle"] /\ kind' = [kind EXCEPT ![p] = "none"]
          /\ canceled' = canceled \ {p} /\ UNCHANGED <<locks, held>>
      BY <1>3 DEF Release
    <2>2. Vars' /\ Only(p)
      BY <1>1, <1>2, <2>1 DEF Vars, Only, Alike, locks
    <2>3. status'[p] = "idle" /\ kind'[p] = "none" /\ held'[p] = <<>> /\ todo'[p] = todo[p]
      BY <1>1, <1>2, <1>3, <2>1 DEF Vars
    <2>4. OpOK(p)'
      <3>1. todo[p] = <<>> /\ InOrder(<<>>, <<>>) /\ <<>> \in Seq(Request)
        BY <1>1, <1>2, <1>3 DEF OpOK
      <3> QED BY <2>3, <3>1 DEF OpOK, Uses
    <2>5. Undisturbed(p)'
      BY <2>3 DEF Undisturbed
    <2> QED BY <1>1, <2>1, <2>2, <2>4, <2>5, Quiet
  <1>4. CASE held[p] # <<>>
    <2>1. /\ Unlock(p, Last(held[p])) /\ held' = [held EXCEPT ![p] = Front(@)]
          /\ UNCHANGED <<status, kind, canceled>>
      BY <1>4 DEF Release
    <2>2. Drops(held[p], Front(held[p]))
      BY <1>2, <1>4, DropsOK DEF OpOK
    <2>3. held'[p] = Front(held[p])
      BY <1>2, <2>1 DEF Vars
    <2>4. InOrder(Front(held[p]), <<>>) /\ todo[p] = <<>>
      BY <1>1, <1>2, <1>4, ReleaseInOrder DEF OpOK
    <2>5. OpOK(p)'
      <3>1. Front(held[p]) \in Seq(Request)
        BY <2>2 DEF Drops
      <3>2. Uses(Front(held[p]), ModesOf(kind[p]) \ {"leave"})
        BY <1>2, <2>2 DEF OpOK, Uses, Drops
      <3>3. status'[p] = "leaving" /\ kind'[p] = kind[p] /\ todo'[p] = <<>>
        BY <1>1, <2>1, <2>4
      <3> QED BY <1>2, <2>3, <2>4, <3>1, <3>2, <3>3 DEF OpOK, Uses
    <2>6. Undisturbed(p)'
      BY <1>1, <2>1 DEF Undisturbed
    <2>7. Only(p) /\ canceled' \subseteq Process
      BY <1>1, <1>2, <2>1 DEF Vars, Only, Alike
    <2>8. /\ status' = [q \in Process |-> status'[q]] /\ kind' = [q \in Process |-> kind'[q]]
          /\ todo' = [q \in Process |-> todo'[q]] /\ kind'[p] \in Kind \union {"none"}
      BY <1>1, <1>2, <2>1 DEF Vars
    <2> QED BY <1>1, <1>4, <2>1, <2>5, <2>6, <2>7, <2>8, UnlockOK
  <1> QED BY <1>3, <1>4

---------------------------------------------------------------------------
(* Installations begin and end.                                            *)

\* A lock held alone is nobody else's.
LEMMA AloneIsAlone ==
  ASSUME IInv, NEW p \in Process, NEW q \in Process \ {p},
         NEW i \in DOMAIN held[p], held[p][i].mode # "shared", NEW j \in DOMAIN held[q]
  PROVE  held[q][j].lock # held[p][i].lock
  <1>1. HeldOK(p) /\ HeldOK(q)
    BY DEF IInv
  <1> QED BY <1>1 DEF HeldOK

LEMMA WorkOK ==
  ASSUME IInv, NEW p \in Process, Work(p)
  PROVE  IInv'
  <1>1. /\ status[p] = "working" /\ status' = [status EXCEPT ![p] = "leaving"]
        /\ UNCHANGED <<locks, kind, todo, held, canceled>>
    BY DEF Work
  <1>2. OpOK(p) /\ Vars
    BY DEF IInv
  <1>3. status'[p] = "leaving" /\ Only(p)
    BY <1>1, <1>2 DEF Vars, Only, Alike
  <1>4. OpOK(p)'
    BY <1>1, <1>2, <1>3 DEF OpOK
  <1>5. Undisturbed(p)'
    BY <1>3 DEF Undisturbed
  <1>6. CASE kind[p] # "install"
    <2>1. active' = active
      BY <1>6 DEF Work
    <2>2. Vars'
      BY <1>1, <1>2, <2>1 DEF Vars, locks
    <2> QED BY <1>1, <1>3, <1>4, <1>5, <2>1, <2>2, Quiet
  <1>7. CASE kind[p] = "install"
    <2>1. PICK s \in Lock : /\ s = held[p][1].lock /\ 1 \in DOMAIN held[p]
                            /\ held[p][1].mode = "own" /\ s \in Server
      <3>1. held[p] # <<>> /\ held[p] \in Seq(Request) /\ Uses(held[p], {"own"})
        BY <1>1, <1>2, <1>7 DEF OpOK, ModesOf, Uses
      <3>2. 1 \in DOMAIN held[p] /\ held[p][1] \in Request
        BY <3>1
      <3>3. held[p][1].mode = "own" /\ held[p][1].lock \in Lock
        BY <3>1, <3>2 DEF Uses, Request
      <3>4. held[p][1].lock \in Server
        BY <3>2, <3>3 DEF Request, Proper
      <3> QED BY <3>2, <3>3, <3>4
    <2>2. active' = active \union {s} \/ active' = active \ {s}
      BY <1>7, <2>1 DEF Work
    <2>3. Vars'
      BY <1>1, <1>2, <2>1, <2>2 DEF Vars, locks
    <2>4. \A q \in Process : OpOK(q)'
      BY <1>3, <1>4, AlikeOK DEF IInv, Only
    <2>5. \A q \in Process : HeldOK(q)'
      BY <1>1 DEF IInv, HeldOK, locks
    <2>6. ASSUME NEW q \in Process PROVE Undisturbed(q)'
      <3>1. CASE q = p
        BY <1>5, <3>1
      <3>2. CASE q # p
        <4>1. Undisturbed(q) /\ \A j \in DOMAIN held[q] : held[q][j].lock # s
          BY <2>1, <3>2, AloneIsAlone DEF IInv
        <4>2. Alike(q)
          BY <1>3, <3>2 DEF Only
        <4> QED BY <2>2, <4>1, <4>2 DEF Undisturbed, Alike
      <3> QED BY <3>1, <3>2
    <2>7. ASSUME NEW l \in Lock PROVE ReaderOK(l)' /\ WriterOK(l)' /\ ParkedOK(l)'
      <3>1. ReaderOK(l) /\ WriterOK(l) /\ ParkedOK(l)
        BY DEF IInv
      <3>2. \A modes : ~Awaits(p, l, modes) /\ (Has(p, l, modes) => Has(p, l, modes)')
        BY <1>1 DEF Awaits, Has
      <3>3. reader' = reader /\ writer' = writer /\ parked' = parked
        BY <1>1 DEF locks
      <3> QED BY <1>2, <1>3, <3>1, <3>2, <3>3, SameLock DEF ReaderOK, WriterOK, ParkedOK
    <2> QED BY <2>3, <2>4, <2>5, <2>6, <2>7 DEF IInv
  <1> QED BY <1>6, <1>7

LEMMA ExpireOK ==
  ASSUME IInv, Expire
  PROVE  IInv'
  <1>1. active' \subseteq active /\ UNCHANGED <<locks, ops>>
    BY DEF Expire
  <1> USE <1>1 DEF locks, ops
  <1>2. Vars'
    BY DEF IInv, Vars
  <1>3. \A q \in Process : OpOK(q)' /\ HeldOK(q)' /\ Undisturbed(q)'
    BY DEF IInv, OpOK, HeldOK, Undisturbed
  <1>4. \A l \in Lock : ReaderOK(l)' /\ WriterOK(l)' /\ ParkedOK(l)'
    BY DEF IInv, ReaderOK, WriterOK, ParkedOK, Has, Awaits
  <1> QED BY <1>2, <1>3, <1>4 DEF IInv

---------------------------------------------------------------------------
(* The invariant holds.                                                    *)

LEMMA InitOK == Init => IInv
  <1> SUFFICES ASSUME Init PROVE IInv
    OBVIOUS
  <1> USE DEF Init
  <1>1. Vars
    BY DEF Vars
  <1>2. ASSUME NEW p \in Process PROVE OpOK(p) /\ HeldOK(p) /\ Undisturbed(p)
    <2>1. /\ todo[p] = <<>> /\ held[p] = <<>> /\ status[p] = "idle" /\ kind[p] = "none"
          /\ <<>> \in Seq(Request)
      OBVIOUS
    <2> QED BY <2>1 DEF OpOK, HeldOK, Undisturbed, InOrder, Uses
  <1>3. ASSUME NEW l \in Lock PROVE ReaderOK(l) /\ WriterOK(l) /\ ParkedOK(l)
    BY Constants DEF ReaderOK, WriterOK, ParkedOK
  <1> QED BY <1>1, <1>2, <1>3 DEF IInv

LEMMA NextOK == IInv /\ [Next]_vars => IInv'
  <1> SUFFICES ASSUME IInv, [Next]_vars PROVE IInv'
    OBVIOUS
  <1>1. ASSUME NEW p \in Process, Start(p) PROVE IInv'
    BY <1>1, StartOK
  <1>2. ASSUME NEW p \in Process, Cancel(p) PROVE IInv'
    BY <1>2, CancelOK
  <1>3. ASSUME NEW p \in Process, AskTooLate(p) PROVE IInv'
    BY <1>3, AskTooLateOK
  <1>4. ASSUME NEW p \in Process, Reenter(p) PROVE IInv'
    BY <1>4, ReenterOK
  <1>5. ASSUME NEW p \in Process, AcquireShared(p) PROVE IInv'
    BY <1>5, AcquireSharedOK
  <1>6. ASSUME NEW p \in Process, Unpark(p) PROVE IInv'
    BY <1>6, UnparkOK
  <1>7. ASSUME NEW p \in Process, Announce(p) PROVE IInv'
    BY <1>7, AnnounceOK
  <1>8. ASSUME NEW p \in Process, AcquireAlone(p) PROVE IInv'
    BY <1>8, AcquireAloneOK
  <1>9. ASSUME NEW p \in Process, LeaveMutex(p) PROVE IInv'
    BY <1>9, LeaveMutexOK
  <1>10. ASSUME NEW p \in Process, Work(p) PROVE IInv'
    BY <1>10, WorkOK
  <1>11. ASSUME NEW p \in Process, Release(p) PROVE IInv'
    BY <1>11, ReleaseOK
  <1>12. CASE Expire
    BY <1>12, ExpireOK
  <1>13. CASE UNCHANGED vars
    <2> USE <1>13 DEF vars, locks, ops
    <2>1. Vars'
      BY DEF IInv, Vars
    <2>2. \A q \in Process : OpOK(q)' /\ HeldOK(q)' /\ Undisturbed(q)'
      BY DEF IInv, OpOK, HeldOK, Undisturbed
    <2>3. \A l \in Lock : ReaderOK(l)' /\ WriterOK(l)' /\ ParkedOK(l)'
      BY DEF IInv, ReaderOK, WriterOK, ParkedOK, Has, Awaits
    <2> QED BY <2>1, <2>2, <2>3 DEF IInv
  <1> QED BY <1>1, <1>2, <1>3, <1>4, <1>5, <1>6, <1>7, <1>8, <1>9, <1>10, <1>11, <1>12, <1>13
          DEF Next, Proceed

\* The invariant the three theorems below rest on holds in every behaviour.
THEOREM Inductive == Spec => []IInv
  BY InitOK, NextOK, PTL DEF Spec

\* Every variable keeps its type: in particular, an operation that asks for a
\* lock or waits for one has something left to ask for.
THEOREM TypeCorrect == Spec => []TypeOK
  <1>1. Request \subseteq [mode : Mode, lock : Lock]
    BY DEF Request
  <1>2. IInv => TypeOK
    <2> SUFFICES ASSUME IInv PROVE TypeOK
      OBVIOUS
    <2>1. \A p \in Process :
            /\ todo[p] \in Seq([mode : Mode, lock : Lock]) /\ held[p] \in Seq([mode : Mode, lock : Lock])
            /\ status[p] \in {"asking", "parked"} => todo[p] # <<>>
      <3> TAKE p \in Process
      <3>1. todo[p] \in Seq(Request) /\ held[p] \in Seq(Request)
              /\ (status[p] \in {"asking", "parked"} => todo[p] # <<>>)
        BY DEF IInv, OpOK
      <3> QED BY <1>1, <3>1, SeqMonotonic
    <2> QED BY <2>1 DEF IInv, Vars, TypeOK
  <1> QED BY <1>2, Inductive, PTL

\* An ordinary operation that works has found no installation of any of its
\* servers, and none begins before it has released them.
THEOREM Undisturbing == Spec => []WorksUndisturbed
  <1>1. IInv => WorksUndisturbed
    BY DEF IInv, Undisturbed, WorksUndisturbed
  <1> QED BY <1>1, Inductive, PTL

---------------------------------------------------------------------------
(* Where none provisions, waiting ends: of the operations of a circle, one *)
(* waits for the last lock, and who has that lock waits for a later one.   *)

LEMMA LastLock ==
  ASSUME "provision" \notin Kind, NEW T \in SUBSET Lock, T # {}
  PROVE  \E l \in T : \A m \in T : ~Before(l, m)
  <1>1. CASE mu \in T
    BY <1>1 DEF Before
  <1>2. CASE mu \notin T
    <2> DEFINE Later(x) == {y \in T : x < y}
               F == {Later(x) : x \in T}
               R == StrictSubsetOrdering(Server)
    <2>1. T \subseteq Server /\ T \subseteq Nat
      BY <1>2, Constants DEF Lock
    <2>2. IsFiniteSet(Server)
      BY LeaseAssumption
    <2>3. IsWellFoundedOn(R, FiniteSubsetsOf(Server)) /\ FiniteSubsetsOf(Server) = SUBSET Server
      BY <2>2, FS_StrictSubsetOrderingWellFounded, FS_FiniteSubsetsOfFinite
    <2>4. F \subseteq SUBSET Server /\ F # {}
      BY <2>1
    <2>5. PICK X \in F : \A Y \in F : ~(<<Y, X>> \in R)
      <3> HIDE DEF F, R
      <3> QED BY <2>3, <2>4, WFMin
    <2>6. PICK x \in T : X = Later(x)
      OBVIOUS
    <2>7. ASSUME NEW y \in T, x < y PROVE FALSE
      <3>1. Later(y) \subseteq Later(x) /\ y \in Later(x) /\ y \notin Later(y)
        <4>1. x \in Nat /\ y \in Nat /\ y \in Later(x) /\ y \notin Later(y)
          BY <2>1, <2>7
        <4>2. ASSUME NEW z \in Later(y) PROVE z \in Later(x)
          <5>1. z \in T /\ z \in Nat /\ y < z
            BY <2>1, <4>2
          <5>2. x < z
            BY <2>7, <4>1, <5>1
          <5> QED BY <5>1, <5>2
        <4> QED BY <4>1, <4>2
      <3>2. Later(y) \in F /\ Later(y) \in SUBSET Server /\ Later(x) \in SUBSET Server
        BY <2>1
      <3> HIDE DEF Later
      <3>3. <<Later(y), Later(x)>> \in R
        BY <3>1, <3>2 DEF StrictSubsetOrdering
      <3> QED BY <2>5, <2>6, <3>2, <3>3
    <2> QED BY <1>2, <2>7 DEF Before
  <1> QED BY <1>1, <1>2

\* Who waits at a lock holds only earlier ones, and waits for its writer or, as
\* the writer, for its readers.
LEMMA WaitsAt ==
  ASSUME IInv, NEW p \in Process, Waits(p) # {}
  PROVE  /\ Asks(p).lock \in Lock
         /\ \A l \in Lock : \A modes : Has(p, l, modes) => Before(l, Asks(p).lock)
         /\ \/ Waits(p) \subseteq {writer[Asks(p).lock]}
            \/ writer[Asks(p).lock] = p /\ Waits(p) = reader[Asks(p).lock]
  <1>1. \/ status[p] = "parked"
        \/ status[p] = "asking" /\ Alone(Asks(p).mode) /\ ~Reentrant(p, Asks(p))
    BY DEF Waits
  <1>2. OpOK(p) /\ todo[p] # <<>>
    BY <1>1 DEF IInv, OpOK
  <1>3. Asks(p) = todo[p][1] /\ todo[p][1] \in Request
    BY <1>2, FollowsOK DEF OpOK, Asks, Follows
  <1>4. FreshAt(held[p], todo[p], 1)
    <2>1. CASE status[p] = "parked"
      BY <1>2, <2>1 DEF OpOK
    <2>2. CASE Alone(Asks(p).mode) /\ ~Reentrant(p, Asks(p))
      <3>1. todo[p][1].mode # "leave"
        BY <1>3, <2>2 DEF Alone
      <3> QED BY <1>2, <2>2, <3>1, NotReentrant
    <2> QED BY <1>1, <2>1, <2>2
  <1>5. \/ Waits(p) \subseteq {writer[Asks(p).lock]}
        \/ writer[Asks(p).lock] = p /\ Waits(p) = reader[Asks(p).lock]
    BY DEF Waits
  <1> QED BY <1>3, <1>4, <1>5 DEF Has, FreshAt, Request

\* A reader that waits does so for a later lock.
LEMMA ReaderWaitsLater ==
  ASSUME IInv, NEW l \in Lock, NEW p \in reader[l], Waits(p) # {}
  PROVE  p \in Process /\ Before(l, Asks(p).lock)
  <1>1. p \in Process /\ ReaderOK(l) /\ WriterOK(l) /\ ParkedOK(l)
    BY DEF IInv, Vars
  <1>2. CASE Has(p, l, {"shared"})
    BY <1>1, <1>2, WaitsAt
  <1>3. CASE Awaits(p, l, {"shared"})
    <2>1. status[p] = "parked" /\ Asks(p) = todo[p][1] /\ Asks(p).lock = l /\ ~Has(p, l, Aloof)
      BY <1>1, <1>3, AwaitedIsNew DEF Awaits
    <2>2. p \notin parked[l]
      BY <1>1 DEF ParkedOK
    <2>3. writer[l] # p
      BY <1>1, <1>3, <2>1 DEF WriterOK, Awaits, Aloof
    <2> QED BY <2>1, <2>2, <2>3 DEF Waits
  <1> QED BY <1>1, <1>2, <1>3 DEF ReaderOK

\* A writer that waits does so for a later lock, or for the readers.
LEMMA WriterWaitsLater ==
  ASSUME IInv, NEW l \in Lock, NEW p \in Process, writer[l] = p, Waits(p) # {}
  PROVE  Before(l, Asks(p).lock) \/ Waits(p) = reader[l]
  <1>1. WriterOK(l) /\ ParkedOK(l)
    BY DEF IInv
  <1>2. CASE Has(p, l, Aloof)
    BY <1>2, WaitsAt
  <1>3. CASE Awaits(p, l, Aloof)
    <2>1. status[p] = "parked" /\ Asks(p) = todo[p][1] /\ Asks(p).lock = l
      BY <1>3, AwaitedIsNew DEF Awaits
    <2>2. p \notin parked[l]
      BY <1>1, <1>3 DEF ParkedOK, Awaits, Aloof
    <2> QED BY <2>1, <2>2 DEF Waits
  <1> QED BY <1>1, <1>2, <1>3 DEF WriterOK

\* Operations that take servers in their order and the mutex last never wait
\* for each other in a circle, however many there are.
THEOREM NoCircle == "provision" \notin Kind => (Spec => []NoCircularWait)
  <1> SUFFICES ASSUME "provision" \notin Kind PROVE Spec => []NoCircularWait
    OBVIOUS
  <1>1. ASSUME IInv PROVE NoCircularWait
    <2> SUFFICES ASSUME NEW P \in (SUBSET Process) \ {{}}, \A p \in P : Waits(p) \intersect P # {}
                 PROVE  FALSE
      BY DEF NoCircularWait
    <2> DEFINE T == {Asks(p).lock : p \in P}
    <2>1. T \subseteq Lock /\ T # {}
      <3>1. ASSUME NEW p \in P PROVE Asks(p).lock \in Lock
        <4>1. p \in Process /\ Waits(p) # {}
          OBVIOUS
        <4> QED BY <1>1, <4>1, WaitsAt
      <3>2. P # {}
        OBVIOUS
      <3> QED BY <3>1, <3>2
    <2>2. PICK l \in T : \A m \in T : ~Before(l, m)
      <3> HIDE DEF T
      <3> QED BY <1>1, <2>1, LastLock
    <2>3. \A p \in P : Waits(p) # {} /\ ~Before(l, Asks(p).lock)
      BY <2>2
    <2>4. PICK p \in P : l = Asks(p).lock
      OBVIOUS
    <2>5. l \in Lock
      BY <2>1, <2>2
    <2>6. ASSUME NEW q \in P, writer[l] = q PROVE FALSE
      <3>1. Waits(q) = reader[l]
        BY <1>1, <2>3, <2>5, <2>6, WriterWaitsLater
      <3>2. PICK r \in P : r \in reader[l]
        BY <3>1
      <3> QED BY <1>1, <2>3, <2>5, <3>2, ReaderWaitsLater
    <2>7. CASE Waits(p) \subseteq {writer[l]}
      <3>1. writer[l] \in P
        BY <2>7
      <3> QED BY <2>6, <3>1
    <2>8. CASE writer[l] = p
      BY <2>6, <2>8
    <2> QED BY <1>1, <2>3, <2>4, <2>7, <2>8, WaitsAt
  <1>2. IInv => NoCircularWait
    BY <1>1
  <1> QED BY <1>2, Inductive, PTL

=============================================================================
