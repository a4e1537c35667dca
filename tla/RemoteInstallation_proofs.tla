--------------------- MODULE RemoteInstallation_proofs ---------------------
(***************************************************************************)
(* Proofs about RemoteInstallation, for any set of installers and ordinary *)
(* operations, any lifetimes and any bounds.                               *)
(***************************************************************************)
EXTENDS RemoteInstallation, FiniteSetTheorems, TLAPS

---------------------------------------------------------------------------
(***************************************************************************)
(* The inductive invariant.                                                *)
(***************************************************************************)

\* A row without a nonce is no row.
Blank == row.nonce = NoNonce => row = NoRow

\* No handler has read the clock in the future.
Dated == \A c \in calls : c.seen <= now

\* Only a Begin makes a row that is not aborted.
Begun == row.nonce # NoNonce /\ ~row.aborted => born[row.nonce] >= 1

\* The node is new exactly where the installer believes it is, and whoever
\* calls Finalize has committed it.
Nodes ==
  /\ \A n \in Nonce :
       /\ pc[n] \in {"committed", "finalizing"} => node[n] = "new"
       /\ node[n] = "new" => pc[n] \in {"committed", "finalizing", "aborting", "ended"}
  /\ \A c \in calls : c.at = "finalizing" => node[c.from] = "new"

\* Who restores after an attempt to prepare has quiesced: its first row stays so.
Quiesced ==
  \A n \in Nonce :
    pc[n] = "restoring" /\ n \in attempted =>
      /\ born[n] >= 1
      /\ born[n] <= 1 /\ row.nonce = n => row.rollingBack \/ row.aborted

\* Only a Prepare deploys.
Deployer == \A c \in deploying : Op(c) = "prepare"

IInv == /\ TypeOK /\ Excluded /\ Blank /\ Dated /\ Begun /\ Nodes /\ Quiesced /\ Deployer
        /\ QuietRestore /\ CommitAgreement

---------------------------------------------------------------------------
(* The moves of an installer.                                              *)

\* Where answers and failures lead is a place of the script.
LEMMA Places ==
  /\ Waits \subseteq PC /\ Waits \subseteq DOMAIN OpOf
  /\ \A p \in Waits : After[p] \in PC
  /\ \A n \in Nonce : OnFailure(n) \in PC
  BY DEF Waits, PC, OpOf, After, OnFailure, Untouched, Changing

\* A call that is sent is a call of the installer where it waits.
LEMMA SentType ==
  ASSUME NEW n \in Nonce, NEW p \in PC, NEW k \in 0..MaxTry
  PROVE  /\ Sent(n, p, k) \subseteq Call
         /\ \A c \in Sent(n, p, k) : c.from = n /\ c.at = p /\ c.seen = -1
  BY InstallationAssumption DEF Sent, Call, Waits, OpOf

\* A move of an installer keeps the types and leaves the others where they were.
LEMMA MoveType ==
  ASSUME TypeOK, NEW n \in Nonce, NEW p \in PC, Move(n, p)
  PROVE  /\ pc' = [pc EXCEPT ![n] = p] /\ pc' \in [Nonce -> PC]
         /\ try' \in [Nonce -> 0..MaxTry]
         /\ attempted' \subseteq Nonce /\ renewing' \subseteq Nonce
         /\ node' \in [Nonce -> Node]
         /\ \A k \in Nonce : k # n => node'[k] = node[k] /\ (k \in attempted' <=> k \in attempted)
         /\ node'[n] = IF p = "mutating" THEN "changing"
                       ELSE IF p = "committed" THEN "new" ELSE node[n]
         /\ p = "restoring" => attempted' = attempted
  <1>1. pc' = [pc EXCEPT ![n] = p] /\ pc' \in [Nonce -> PC]
    BY DEF Move, Go, TypeOK
  <1>2. try' \in [Nonce -> 0..MaxTry]
    BY InstallationAssumption DEF Move, Go, TypeOK
  <1>3. attempted' \subseteq Nonce /\ renewing' \subseteq Nonce
    BY DEF Move, Arrives, Over, TypeOK
  <1>4. node' \in [Nonce -> Node]
    BY DEF Move, Arrives, Over, TypeOK, Node
  <1>5. node'[n] = IF p = "mutating" THEN "changing"
                ELSE IF p = "committed" THEN "new" ELSE node[n]
    BY DEF Move, Arrives, Over, TypeOK
  <1>6. \A k \in Nonce : k # n => node'[k] = node[k] /\ (k \in attempted' <=> k \in attempted)
    BY DEF Move, Arrives, Over, TypeOK
  <1>7. p = "restoring" => attempted' = attempted
    BY DEF Move, Arrives, Over
  <1> QED
    BY <1>1, <1>2, <1>3, <1>4, <1>5, <1>6, <1>7

---------------------------------------------------------------------------
(***************************************************************************)
(* A step of the system is a step of the panel and a step of the script.   *)
(***************************************************************************)

\* n comes to restore the node after an attempt to prepare it.
Enters(n) ==
  /\ pc'[n] = "restoring" /\ n \in attempted'
  /\ ~(pc[n] = "restoring" /\ n \in attempted)

\* What every step of the script keeps.
ScriptOK ==
  /\ pc' \in [Nonce -> PC] /\ try' \in [Nonce -> 0..MaxTry]
  /\ attempted' \subseteq Nonce /\ renewing' \subseteq Nonce /\ node' \in [Nonce -> Node]
  /\ calls' \subseteq Call
  /\ \A c \in calls' : c \in calls \/ c.seen <= now
  /\ Nodes'
  /\ \A n \in Nonce : node[n] = "new" => node'[n] = "new"

\* The panel has been told that n retreats.
Retreated(n) ==
  /\ born[n] >= 1
  /\ born[n] <= 1 /\ row.nonce = n => row.rollingBack \/ row.aborted

DeployedFor(n) == \E c \in deploying : c.from = n

\* What every step of the panel keeps.
PanelOK ==
  /\ now' \in Time /\ row' \in Row /\ exists' \in BOOLEAN
  /\ mutators' \subseteq Mutation
  /\ deploying' \subseteq Call /\ Cardinality(deploying') <= 1
  /\ born' \in [Nonce -> 0..2]
  /\ now <= now' /\ \A n \in Nonce : born[n] <= born'[n]
  /\ Excluded' /\ Blank' /\ Begun' /\ Deployer'
  /\ \A n \in Nonce :
       Retreated(n) => Retreated(n)' /\ (born'[n] <= 1 /\ DeployedFor(n)' => DeployedFor(n))
  /\ row'.completed => node[row'.nonce] = "new" /\ row'.prepared /\ ~row'.aborted

\* Both together keep the invariant.
LEMMA Together ==
  ASSUME IInv, ScriptOK, PanelOK,
         \A n \in Nonce : Enters(n) => Retreated(n)' /\ deploying' = {}
  PROVE  IInv'
  <1>1. TypeOK' /\ Excluded' /\ Blank' /\ Begun' /\ Nodes' /\ Deployer'
    BY DEF TypeOK, ScriptOK, PanelOK
  <1>2. Dated'
    <2> SUFFICES ASSUME NEW c \in calls'
                 PROVE  c.seen <= now'
      BY DEF Dated
    <2>1. c.seen <= now
      BY DEF IInv, Dated, ScriptOK
    <2>2. c.seen \in Int /\ now \in Int /\ now' \in Int
      BY InstallationAssumption DEF IInv, TypeOK, ScriptOK, PanelOK, Call, Time
    <2> QED
      BY <2>1, <2>2 DEF PanelOK
  <1>3. Quiesced'
    <2> SUFFICES ASSUME NEW n \in Nonce, pc'[n] = "restoring", n \in attempted'
                 PROVE  Retreated(n)'
      BY DEF Quiesced, Retreated
    <2>1. CASE Enters(n)
      BY <2>1
    <2>2. CASE ~Enters(n)
      <3>1. Retreated(n)
        BY <2>2 DEF Enters, IInv, Quiesced, Retreated
      <3> QED
        BY <3>1 DEF PanelOK
    <2> QED
      BY <2>1, <2>2
  <1>4. QuietRestore'
    <2> SUFFICES ASSUME NEW n \in Nonce, pc'[n] = "restoring", n \in attempted', born'[n] <= 1
                 PROVE  ~DeployedFor(n)'
      BY DEF QuietRestore, DeployedFor
    <2>1. CASE Enters(n)
      BY <2>1 DEF DeployedFor
    <2>2. CASE ~Enters(n)
      <3>1. Retreated(n)
        BY <2>2 DEF Enters, IInv, Quiesced, Retreated
      <3>2. born[n] <= 1
        <4>1. born[n] \in Int /\ born'[n] \in Int /\ born[n] <= born'[n]
          BY DEF IInv, TypeOK, PanelOK
        <4> QED
          BY <4>1
      <3>3. ~DeployedFor(n)
        BY <2>2, <3>2 DEF Enters, IInv, QuietRestore, DeployedFor
      <3> QED
        BY <3>1, <3>3 DEF PanelOK
    <2> QED
      BY <2>1, <2>2
  <1>5. CommitAgreement'
    <2> SUFFICES ASSUME row'.completed
                 PROVE  node'[row'.nonce] = "new" /\ row'.prepared /\ ~row'.aborted
      BY DEF CommitAgreement
    <2>1. node[row'.nonce] = "new" /\ row'.prepared /\ ~row'.aborted
      BY DEF PanelOK
    <2>2. row'.nonce \in Nonce
      <3>1. row'.nonce \in Nonce \union {NoNonce}
        BY DEF PanelOK, Row
      <3>2. row'.nonce # NoNonce
        BY DEF PanelOK, Blank, NoRow, NewRow
      <3> QED
        BY <3>1, <3>2
    <2> QED
      BY <2>1, <2>2 DEF ScriptOK
  <1> QED
    BY <1>1, <1>2, <1>3, <1>4, <1>5 DEF IInv

---------------------------------------------------------------------------
(* The steps of the script.                                                *)

\* A move to p with the call it sends is a step of the script, unless p
\* would lose a new node or finalize an old one.
LEMMA MoveScript ==
  ASSUME TypeOK, Nodes, NEW n \in Nonce, NEW p \in PC, Move(n, p),
         p = "finalizing" => node[n] = "new",
         node[n] = "new" => p \in {"finalizing", "aborting", "ended"},
         \E k \in 0..MaxTry : calls' \subseteq calls \union Sent(n, p, k)
  PROVE  ScriptOK /\ \A k \in Nonce : Enters(k) => k = n /\ p = "restoring" /\ n \in attempted
  <1>1. PICK k \in 0..MaxTry : calls' \subseteq calls \union Sent(n, p, k)
    OBVIOUS
  <1>2. /\ Sent(n, p, k) \subseteq Call
        /\ \A c \in Sent(n, p, k) : c.from = n /\ c.at = p /\ c.seen = -1
    BY SentType
  <1>3. calls' \subseteq Call /\ \A c \in calls' : c \in calls \/ c.seen <= now
    BY <1>1, <1>2, InstallationAssumption DEF TypeOK, Time
  <1>4. \A m \in Nonce : node[m] = "new" => node'[m] = "new"
    BY MoveType
  <1>5. \A m \in Nonce :
          /\ pc'[m] \in {"committed", "finalizing"} => node'[m] = "new"
          /\ node'[m] = "new" => pc'[m] \in {"committed", "finalizing", "aborting", "ended"}
    BY MoveType DEF Nodes, TypeOK
  <1>6. \A c \in calls' : c.at = "finalizing" => node'[c.from] = "new"
    <2> SUFFICES ASSUME NEW c \in calls', c.at = "finalizing"
                 PROVE  node'[c.from] = "new"
      OBVIOUS
    <2>1. c.from \in Nonce
      BY <1>3 DEF Call
    <2>2. node[c.from] = "new"
      BY <1>1, <1>2 DEF Nodes
    <2> QED
      BY <2>1, <2>2, <1>4
  <1>7. \A k_1 \in Nonce : Enters(k_1) => k_1 = n /\ p = "restoring" /\ n \in attempted
    BY MoveType DEF Enters, TypeOK
  <1> QED
    BY <1>3, <1>4, <1>5, <1>6, <1>7, MoveType DEF ScriptOK, Nodes

\* A step that leaves the script alone and sends nothing.
LEMMA StillScript ==
  ASSUME TypeOK, Nodes, UNCHANGED script, calls' \subseteq calls
  PROVE  ScriptOK /\ \A k \in Nonce : ~Enters(k)
  BY DEF ScriptOK, Enters, TypeOK, Nodes, script

\* A successful answer is one; only that of a quiesce brings its installer to restore.
LEMMA AnswerScript ==
  ASSUME TypeOK, Nodes, NEW c \in Call, Answer(c)
  PROVE  ScriptOK /\ \A k \in Nonce : Enters(k) => k = c.from /\ c.at = "quiescing"
  <1>1. CASE calls' = calls \ {c} /\ UNCHANGED script
    BY <1>1, StillScript
  <1>2. CASE /\ c.at \in Waits /\ Awaited(c) /\ Move(c.from, After[c.at])
             /\ calls' = (calls \ {c}) \union Sent(c.from, After[c.at], 1)
    <2> DEFINE n == c.from
               p == After[c.at]
    <2>1. n \in Nonce /\ p \in PC /\ pc[n] = c.at
      BY <1>2, Places DEF Call, Awaited
    <2>2. /\ p # "finalizing"
          /\ p = "restoring" => c.at = "quiescing"
          /\ c.at \in {"finalizing", "aborting"} => p = "ended"
      BY <1>2 DEF After, Waits, OpOf
    <2>3. node[n] = "new" => c.at \in {"finalizing", "aborting"}
      BY <1>2, <2>1 DEF Nodes, Waits, OpOf
    <2>4. 1 \in 0..MaxTry /\ calls' \subseteq calls \union Sent(n, p, 1)
      BY <1>2, InstallationAssumption
    <2> HIDE DEF n, p
    <2>5. Move(n, p)
      BY <1>2 DEF n, p
    <2>6. /\ p = "finalizing" => node[n] = "new"
          /\ node[n] = "new" => p \in {"finalizing", "aborting", "ended"}
          /\ \E k \in 0..MaxTry : calls' \subseteq calls \union Sent(n, p, k)
      BY <2>2, <2>3, <2>4
    <2>7. ScriptOK /\ \A k \in Nonce : Enters(k) => k = n /\ p = "restoring" /\ n \in attempted
      BY <2>1, <2>5, <2>6, MoveScript
    <2> QED
      BY <2>2, <2>7 DEF n
  <1> QED
    BY <1>1, <1>2 DEF Answer

\* So is every step of an installer, and none of them restores what it had
\* the panel prepare without having quiesced it.
LEMMA InstallerScript ==
  ASSUME TypeOK, Nodes, NEW n \in Nonce, Installer(n)
  PROVE  ScriptOK /\ \A k \in Nonce : ~Enters(k)
  <1>0. 1 \in 0..MaxTry
    BY InstallationAssumption
  <1>1. ASSUME NEW p \in PC, Move(n, p), calls' \subseteq calls \union Sent(n, p, 1),
               p = "finalizing" => node[n] = "new",
               node[n] = "new" => p \in {"finalizing", "aborting", "ended"},
               p = "restoring" => n \notin attempted
        PROVE  ScriptOK /\ \A k \in Nonce : ~Enters(k)
    BY <1>0, <1>1, MoveScript
  <1>2. CASE Start(n)
    <2>1. pc[n] = "idle" /\ "beginning" \in PC
      BY <1>2 DEF Start, PC, Waits, OpOf
    <2> QED
      BY <1>1, <1>2, <2>1 DEF Start, Nodes
  <1>3. CASE Proceed(n)
    <2>1. PICK step \in {<<"locked", "assert1">>, <<"mutating", "probing">>,
                         <<"committed", "finalizing">>} :
            /\ pc[n] = step[1] /\ Move(n, step[2])
            /\ calls' = calls \union Sent(n, step[2], 1)
      BY <1>3 DEF Proceed
    <2>2. step[2] \in PC /\ step[2] # "restoring"
      BY DEF PC, Waits, OpOf
    <2>3. /\ step[2] = "finalizing" => node[n] = "new"
          /\ node[n] = "new" => step[2] \in {"finalizing", "aborting", "ended"}
      BY <2>1 DEF Nodes
    <2> QED
      BY <1>1, <2>1, <2>2, <2>3
  <1>4. ASSUME Move(n, OnFailure(n)), calls' = calls \union Sent(n, OnFailure(n), 1)
        PROVE  ScriptOK /\ \A k \in Nonce : ~Enters(k)
    <2>1. /\ OnFailure(n) \in PC /\ OnFailure(n) # "finalizing"
          /\ OnFailure(n) = "restoring" => n \notin attempted
      BY Places DEF OnFailure
    <2>2. node[n] = "new" => OnFailure(n) \in {"finalizing", "aborting", "ended"}
      BY DEF OnFailure, Nodes, Changing, Untouched
    <2> QED
      BY <1>1, <1>4, <2>1, <2>2
  <1>5. CASE AttemptFails(n)
    <2>1. CASE /\ try[n] < Tries(pc[n]) /\ try' = [try EXCEPT ![n] = @ + 1]
               /\ calls' = calls \union Sent(n, pc[n], try[n] + 1)
               /\ UNCHANGED <<pc, attempted, node, renewing>>
      <3>1. pc[n] \in PC /\ try[n] + 1 \in 0..MaxTry /\ try' \in [Nonce -> 0..MaxTry]
        BY <2>1, InstallationAssumption DEF TypeOK, Tries
      <3>2. /\ Sent(n, pc[n], try[n] + 1) \subseteq Call
            /\ \A c \in Sent(n, pc[n], try[n] + 1) : c.from = n /\ c.at = pc[n] /\ c.seen = -1
        BY <3>1, SentType
      <3>3. calls' \subseteq Call /\ \A c \in calls' : c \in calls \/ c.seen <= now
        BY <2>1, <3>2, InstallationAssumption DEF TypeOK, Time
      <3>4. Nodes'
        BY <2>1, <3>2 DEF Nodes
      <3> QED
        BY <2>1, <3>1, <3>3, <3>4 DEF ScriptOK, Enters, TypeOK
    <2> QED
      BY <1>4, <1>5, <2>1 DEF AttemptFails
  <1>6. CASE Fail(n)
    BY <1>4, <1>6 DEF Fail
  <1>7. CASE Restored(n)
    <2>1. /\ pc[n] \in {"restoring", "mutating"} /\ pc' = [pc EXCEPT ![n] = "aborting"]
          /\ try' = [try EXCEPT ![n] = 1]
          /\ calls' = calls \union Sent(n, "aborting", 1)
          /\ node' = [node EXCEPT ![n] = "old"]
          /\ attempted' = attempted \ {n} /\ renewing' = renewing \ {n}
          /\ "aborting" \in PC
      BY <1>7 DEF Restored, Go, Waits, OpOf, PC
    <2>2. /\ Sent(n, "aborting", 1) \subseteq Call
          /\ \A c \in Sent(n, "aborting", 1) : c.from = n /\ c.at = "aborting" /\ c.seen = -1
      BY <1>0, <2>1, SentType
    <2>3. calls' \subseteq Call /\ \A c \in calls' : c \in calls \/ c.seen <= now
      BY <2>1, <2>2, InstallationAssumption DEF TypeOK, Time
    <2>4. node[n] # "new"
      BY <2>1 DEF Nodes
    <2>5. \A m \in Nonce : node[m] = "new" => node'[m] = "new"
      BY <2>1, <2>4 DEF TypeOK
    <2>6. \A m \in Nonce :
            /\ pc'[m] \in {"committed", "finalizing"} => node'[m] = "new"
            /\ node'[m] = "new" => pc'[m] \in {"committed", "finalizing", "aborting", "ended"}
      BY <2>1 DEF Nodes, TypeOK
    <2>7. \A c \in calls' : c.at = "finalizing" => node'[c.from] = "new"
      <3> SUFFICES ASSUME NEW c \in calls', c.at = "finalizing"
                   PROVE  node'[c.from] = "new"
        OBVIOUS
      <3>1. c \in calls /\ c.from \in Nonce
        BY <2>1, <2>2, <2>3 DEF Call
      <3> QED
        BY <3>1, <2>5 DEF Nodes
    <2>8. \A k \in Nonce : ~Enters(k)
      BY <2>1 DEF Enters, TypeOK
    <2> QED
      BY <1>0, <2>1, <2>3, <2>5, <2>6, <2>7, <2>8 DEF ScriptOK, Nodes, TypeOK, Node
  <1>8. CASE RollbackFails(n)
    <2>1. "ended" \in PC
      BY DEF PC
    <2> QED
      BY <1>1, <1>8, <2>1 DEF RollbackFails, Nodes
  <1>9. CASE Die(n)
    <2>1. /\ pc' = [pc EXCEPT ![n] = "ended"] /\ try' = [try EXCEPT ![n] = 0]
          /\ renewing' \subseteq renewing /\ attempted' = attempted \ {n} /\ node' = node
          /\ calls' = calls /\ "ended" \in PC
      BY <1>9 DEF Die, Go, Waits, OpOf, PC
    <2>2. Nodes'
      BY <2>1 DEF Nodes, TypeOK
    <2> QED
      BY <2>1, <2>2, InstallationAssumption DEF ScriptOK, Enters, TypeOK
  <1>10. CASE WorkerRenews(n)
    <2> DEFINE w == [from |-> n, at |-> "worker", try |-> 0, seen |-> -1]
    <2>1. calls' = calls \union {w} /\ UNCHANGED script
      BY <1>10 DEF WorkerRenews
    <2>2. w \in Call /\ w.at # "finalizing" /\ w.seen = -1
      BY InstallationAssumption DEF Call, OpOf
    <2>3. calls' \subseteq Call /\ \A c \in calls' : c \in calls \/ c.seen <= now
      BY <2>1, <2>2, InstallationAssumption DEF TypeOK, Time
    <2> HIDE DEF w
    <2>4. Nodes'
      BY <2>1, <2>2 DEF Nodes, script
    <2> QED
      BY <2>1, <2>3, <2>4 DEF ScriptOK, Enters, TypeOK, script
  <1> QED
    BY <1>2, <1>3, <1>5, <1>6, <1>7, <1>8, <1>9, <1>10 DEF Installer

---------------------------------------------------------------------------
(* The steps of the panel.                                                 *)

\* Sets with no element and with one.
LEMMA AtMostOne ==
  Cardinality({}) = 0 /\ \A c : Cardinality({c}) = 1
  BY FS_EmptySet, FS_Singleton

\* A step that changes no row and neither adds a lease nor goes back in time.
LEMMA QuietPanel ==
  ASSUME IInv, UNCHANGED <<row, born>>, now' \in Time, now <= now', exists' \in BOOLEAN,
         mutators' \subseteq mutators, deploying' \in {deploying, {}}
  PROVE  PanelOK
  <1>1. row.expires \in Int /\ now \in Int /\ now' \in Int
    BY InstallationAssumption DEF IInv, TypeOK, Row, Time
  <1>2. Active' => Active
    BY <1>1 DEF Active, Matches
  <1>3. \A n \in Nonce : born[n] <= born'[n]
    BY DEF IInv, TypeOK
  <1> QED
    BY <1>2, <1>3, AtMostOne
    DEF PanelOK, IInv, TypeOK, Excluded, Blank, Begun, Retreated, DeployedFor, CommitAgreement,
        Deployer, Op

\* A step of a handler that holds the lease alone, or has nothing to do with it:
\* the row it leaves has to be right.
LEMMA HandlerPanel ==
  ASSUME IInv, UNCHANGED <<now, exists, mutators>>, mutators = {} \/ (Active' => Active),
         deploying' \in {deploying, {}}, deploying' # {} => mutators = {},
         row' \in Row, row'.nonce # NoNonce, born' \in [Nonce -> 0..2],
         \A n \in Nonce : born[n] <= born'[n],
         ~row'.aborted => born'[row'.nonce] >= 1,
         row'.completed => node[row'.nonce] = "new" /\ row'.prepared /\ ~row'.aborted,
         \A n \in Nonce : Retreated(n) => Retreated(n)'
  PROVE  PanelOK
  <1>1. now <= now'
    BY InstallationAssumption DEF IInv, TypeOK, Time
  <1>2. Excluded'
    BY DEF Excluded, IInv
  <1>3. deploying' \subseteq Call /\ Cardinality(deploying') <= 1
    <2>1. CASE deploying' = deploying
      BY <2>1 DEF IInv, TypeOK
    <2>2. CASE deploying' = {}
      BY <2>2, AtMostOne
    <2> QED
      BY <2>1, <2>2
  <1>4. now' \in Time /\ exists' \in BOOLEAN /\ mutators' \subseteq Mutation
    BY DEF IInv, TypeOK
  <1>5. \A n \in Nonce : DeployedFor(n)' => DeployedFor(n)
    BY DEF DeployedFor
  <1>6. Blank' /\ Begun' /\ Deployer'
    BY DEF Blank, Begun, Deployer, IInv, Op
  <1> QED
    BY <1>1, <1>2, <1>3, <1>4, <1>5, <1>6 DEF PanelOK

\* The row a Begin makes, and that of an Abort without one.
LEMMA FreshRow ==
  ASSUME NEW n \in Nonce, NEW t \in Int, NEW e \in Int, NEW a \in BOOLEAN
  PROVE  /\ NewRow(n, t, e, a) \in Row /\ NewRow(n, t, e, a).nonce = n
         /\ ~NewRow(n, t, e, a).completed /\ ~NewRow(n, t, e, a).rollingBack
         /\ NewRow(n, t, e, a).aborted = a
  BY DEF NewRow, Row

\* Begin keeps the panel right: a nonce's second row is counted.
LEMMA BeginPanel ==
  ASSUME IInv, NEW c \in calls, BeginInstallation(c)
  PROVE  PanelOK
  <1> DEFINE n == c.from
  <1>0. n \in Nonce /\ n # NoNonce /\ c.seen \in Int
    BY InstallationAssumption DEF IInv, TypeOK, Call
  <1>1. UNCHANGED <<now, exists, mutators, deploying>> /\ mutators = {}
    BY DEF BeginInstallation, Free
  <1>2. CASE UNCHANGED <<row, born>>
    BY <1>1, <1>2, QuietPanel, InstallationAssumption DEF IInv, TypeOK, Time
  <1>3. CASE /\ row.nonce # n
             /\ row' = NewRow(n, c.seen, c.seen + TTL, FALSE)
             /\ born' = [born EXCEPT ![n] = IF @ < 2 THEN @ + 1 ELSE @]
    <2>1. /\ row' \in Row /\ row'.nonce = n /\ ~row'.completed /\ ~row'.aborted
          /\ ~row'.rollingBack
      <3>1. c.seen + TTL \in Int /\ FALSE \in BOOLEAN
        BY <1>0, InstallationAssumption
      <3> HIDE DEF n
      <3> QED
        BY <1>0, <1>3, <3>1, FreshRow, Zenon
    <2>2. /\ born' \in [Nonce -> 0..2] /\ born'[n] >= 1
          /\ \A k \in Nonce : born[k] <= born'[k]
          /\ \A k \in Nonce \ {n} : born'[k] = born[k]
          /\ born[n] >= 1 => born'[n] > 1
      BY <1>0, <1>3 DEF IInv, TypeOK
    <2>3. \A k \in Nonce : Retreated(k) => Retreated(k)'
      <3> SUFFICES ASSUME NEW k \in Nonce, Retreated(k)
                   PROVE  Retreated(k)'
        OBVIOUS
      <3>1. CASE k = n
        BY <2>1, <2>2, <3>1 DEF Retreated, IInv, TypeOK
      <3>2. CASE k # n
        BY <2>1, <2>2, <3>2 DEF Retreated
      <3> QED
        BY <3>1, <3>2
    <2>4. row'.nonce # NoNonce /\ ~row'.completed /\ born'[row'.nonce] >= 1
          /\ deploying' \in {deploying, {}} /\ (deploying' # {} => mutators = {})
      BY <1>0, <1>1, <2>1, <2>2
    <2> HIDE DEF n
    <2> QED
      BY <1>1, <2>1, <2>2, <2>3, <2>4, HandlerPanel
  <1> QED
    BY <1>2, <1>3 DEF BeginInstallation, Refuse

\* A handler that finds the row its caller's and not over may mark it.
LEMMA MarkPanel ==
  ASSUME IInv, NEW n \in Nonce, row.nonce = n, ~row.aborted,
         UNCHANGED <<now, exists, mutators, born>>, mutators = {} \/ (Active' => Active),
         deploying' \in {deploying, {}}, deploying' # {} => mutators = {},
         row' \in Row, row'.nonce = n,
         row.rollingBack => row'.rollingBack,
         row'.completed => node[n] = "new" /\ row'.prepared /\ ~row'.aborted
  PROVE  PanelOK
  <1>1. n # NoNonce
    BY InstallationAssumption
  <1>2. born' \in [Nonce -> 0..2] /\ \A k \in Nonce : born[k] <= born'[k]
    BY DEF IInv, TypeOK
  <1>3. ~row'.aborted => born'[row'.nonce] >= 1
    BY <1>1 DEF IInv, Begun
  <1>4. \A k \in Nonce : Retreated(k) => Retreated(k)'
    BY DEF Retreated
  <1>5. /\ row'.nonce # NoNonce
        /\ row'.completed => node[row'.nonce] = "new" /\ row'.prepared /\ ~row'.aborted
    BY <1>1
  <1> QED
    BY <1>2, <1>3, <1>4, <1>5, HandlerPanel

\* Renew.
LEMMA RenewPanel ==
  ASSUME IInv, NEW c \in calls, RenewInstallation(c)
  PROVE  PanelOK
  <1>0. c.from \in Nonce /\ c.seen \in Int
    BY InstallationAssumption DEF IInv, TypeOK, Call
  <1>1. UNCHANGED <<now, exists, mutators, deploying, born>> /\ mutators = {}
    BY DEF RenewInstallation, Free, Refuse
  <1>2. CASE UNCHANGED row
    BY <1>1, <1>2, QuietPanel, InstallationAssumption DEF IInv, TypeOK, Time
  <1>3. CASE Usable(c.from, c.seen) /\ row' = [row EXCEPT !.expires = RenewedUntil(c.seen)]
    <2>1. RenewedUntil(c.seen) \in Int
      BY <1>0, InstallationAssumption DEF RenewedUntil, IInv, TypeOK, Row
    <2>2. /\ row' \in Row /\ row.nonce = c.from /\ row'.nonce = c.from
          /\ ~row.completed /\ ~row.aborted /\ ~row.rollingBack /\ ~row'.completed
      BY <1>3, <2>1 DEF Usable, Matches, IInv, TypeOK, Row
    <2> QED
      BY <1>0, <1>1, <2>2, MarkPanel
  <1> QED
    BY <1>2, <1>3 DEF RenewInstallation, Refuse

\* The marks on the row: ready, prepared, rolling back, completed.
LEMMA RowMarks ==
  ASSUME IInv, NEW n \in Nonce, Matches(n, now),
         \/ row' = [row EXCEPT !.ready = TRUE]
         \/ row' = [row EXCEPT !.prepared = TRUE]
         \/ row' = [row EXCEPT !.rollingBack = TRUE]
         \/ row' = [row EXCEPT !.completed = TRUE]
  PROVE  /\ row' \in Row /\ row.nonce = n /\ row'.nonce = n /\ ~row.aborted /\ ~row.completed
         /\ ~row'.aborted
         /\ row.rollingBack => row'.rollingBack
         /\ Active
         /\ now' = now => (Active' <=> ~row'.completed)
  BY InstallationAssumption DEF Matches, Active, IInv, TypeOK, Row

\* MarkReady and the end of a Prepare, which may find the lease taken.
LEMMA ReadyPanel ==
  ASSUME IInv, NEW c \in Call, MarkReady(c) \/ (c \in deploying /\ PrepareEnds(c))
  PROVE  PanelOK
  <1>0. c.from \in Nonce
    BY DEF Call
  <1>1. /\ UNCHANGED <<now, exists, mutators, born>> /\ deploying' \in {deploying, {}}
        /\ MarkReady(c) => UNCHANGED deploying
        /\ ~MarkReady(c) => deploying' = {}
    BY DEF MarkReady, PrepareEnds, Refuse
  <1>2. CASE UNCHANGED row
    BY <1>1, <1>2, QuietPanel, InstallationAssumption DEF IInv, TypeOK, Time
  <1>3. CASE /\ Usable(c.from, now)
             /\ \/ row' = [row EXCEPT !.ready = TRUE]
                \/ row' = [row EXCEPT !.prepared = TRUE]
    <2>1. Matches(c.from, now)
      BY <1>3 DEF Usable
    <2>2. /\ row' \in Row /\ row.nonce = c.from /\ row'.nonce = c.from /\ ~row.aborted
          /\ row.rollingBack => row'.rollingBack
          /\ Active
      BY <1>0, <1>3, <2>1, RowMarks
    <2>3. ~row'.completed
      BY <1>0, <1>3, <2>1, <2>2 DEF Matches, IInv, TypeOK, Row
    <2>4. mutators = {}
      BY <2>2 DEF IInv, Excluded
    <2> QED
      BY <1>0, <1>1, <2>2, <2>3, <2>4, MarkPanel
  <1> QED
    BY <1>2, <1>3 DEF MarkReady, PrepareEnds, Refuse

\* Quiesce.
LEMMA QuiescePanel ==
  ASSUME IInv, NEW c \in calls, QuiesceInstallation(c)
  PROVE  PanelOK
  <1>0. c.from \in Nonce
    BY DEF IInv, TypeOK, Call
  <1>1. UNCHANGED <<now, exists, mutators, deploying, born>> /\ mutators = {}
    BY DEF QuiesceInstallation, Free, Refuse
  <1>2. CASE UNCHANGED row
    BY <1>1, <1>2, QuietPanel, InstallationAssumption DEF IInv, TypeOK, Time
  <1>3. CASE Matches(c.from, now) /\ row' = [row EXCEPT !.rollingBack = TRUE]
    <2>1. /\ row' \in Row /\ row.nonce = c.from /\ row'.nonce = c.from /\ ~row.aborted
          /\ row.rollingBack => row'.rollingBack
          /\ ~row.completed
      BY <1>0, <1>3, RowMarks
    <2>2. ~row'.completed
      BY <1>3, <2>1 DEF IInv, TypeOK, Row
    <2> QED
      BY <1>0, <1>1, <2>1, <2>2, MarkPanel
  <1> QED
    BY <1>2, <1>3 DEF QuiesceInstallation, Refuse

\* Finalize: what it completes is prepared, and its installer has committed the node.
LEMMA FinalizePanel ==
  ASSUME IInv, NEW c \in calls, FinalizeInstallation(c)
  PROVE  PanelOK
  <1>0. c.from \in Nonce /\ c.at \in DOMAIN OpOf /\ OpOf[c.at] = "finalize"
    BY DEF IInv, TypeOK, Call, FinalizeInstallation, Op
  <1>1. UNCHANGED <<now, exists, mutators, deploying, born>> /\ mutators = {}
    BY DEF FinalizeInstallation, Free, Refuse
  <1>2. CASE UNCHANGED row
    BY <1>1, <1>2, QuietPanel, InstallationAssumption DEF IInv, TypeOK, Time
  <1>3. CASE /\ Usable(c.from, now) /\ row.prepared
             /\ row' = [row EXCEPT !.completed = TRUE]
    <2>1. Matches(c.from, now)
      BY <1>3 DEF Usable
    <2>2. /\ row' \in Row /\ row.nonce = c.from /\ row'.nonce = c.from /\ ~row.aborted
          /\ row.rollingBack => row'.rollingBack
          /\ ~row'.aborted
      BY <1>0, <1>3, <2>1, RowMarks
    <2>3. row'.prepared
      BY <1>3, <2>2 DEF IInv, TypeOK, Row
    <2>4. node[c.from] = "new"
      <3>1. c.at = "finalizing"
        BY <1>0 DEF OpOf
      <3> QED
        BY <3>1 DEF IInv, Nodes
    <2> QED
      BY <1>0, <1>1, <2>2, <2>3, <2>4, MarkPanel
  <1> QED
    BY <1>2, <1>3 DEF FinalizeInstallation, Refuse

\* Abort, of its own row or as a tombstone.
LEMMA AbortPanel ==
  ASSUME IInv, NEW c \in calls, AbortInstallation(c)
  PROVE  PanelOK
  <1> DEFINE n == c.from
  <1>0. n \in Nonce /\ n # NoNonce
    BY InstallationAssumption DEF IInv, TypeOK, Call
  <1>1. UNCHANGED <<now, exists, mutators, deploying, born>> /\ mutators = {} /\ deploying' = {}
    BY DEF AbortInstallation, Free, Refuse
  <1>2. born' \in [Nonce -> 0..2] /\ \A k \in Nonce : born[k] <= born'[k]
    BY <1>1 DEF IInv, TypeOK
  <1>3. CASE UNCHANGED row
    BY <1>1, <1>3, QuietPanel, InstallationAssumption DEF IInv, TypeOK, Time
  <1>4. ASSUME row' \in Row, row'.nonce = n, row'.aborted, ~row'.completed,
               row.nonce = n /\ row.rollingBack => row'.rollingBack
        PROVE  PanelOK
    <2>1. \A k \in Nonce : Retreated(k) => Retreated(k)'
      BY <1>1, <1>4 DEF Retreated
    <2>2. /\ row'.nonce # NoNonce
          /\ ~row'.aborted => born'[row'.nonce] >= 1
          /\ row'.completed => node[row'.nonce] = "new" /\ row'.prepared /\ ~row'.aborted
      BY <1>0, <1>4
    <2> HIDE DEF n
    <2> QED
      BY <1>1, <1>2, <1>4, <2>1, <2>2, HandlerPanel
  <1>5. CASE row.nonce = n /\ ~row.completed /\ row' = [row EXCEPT !.aborted = TRUE]
    BY <1>4, <1>5 DEF IInv, TypeOK, Row
  <1>6. CASE row.nonce # n /\ row' = NewRow(n, 0, 0, TRUE)
    <2> HIDE DEF n
    <2>1. /\ row' \in Row /\ row'.nonce = n /\ ~row'.completed /\ ~row'.rollingBack
          /\ row'.aborted = TRUE
      <3>1. 0 \in Int /\ TRUE \in BOOLEAN
        OBVIOUS
      <3> QED
        BY <1>0, <1>6, <3>1, FreshRow, Zenon
    <2> QED
      BY <1>4, <1>6, <2>1
  <1> QED
    BY <1>3, <1>5, <1>6 DEF AbortInstallation, Refuse

\* A Prepare deploys for the installer whose row is live and not rolling back.
LEMMA PreparePanel ==
  ASSUME IInv, NEW c \in calls, PrepareStarts(c)
  PROVE  PanelOK
  <1>0. c \in Call /\ c.from \in Nonce
    BY DEF IInv, TypeOK, Call
  <1>1. UNCHANGED <<now, exists, mutators, born, row>> /\ mutators = {}
    BY DEF PrepareStarts, Free, Refuse
  <1>2. CASE UNCHANGED deploying
    BY <1>1, <1>2, QuietPanel, InstallationAssumption DEF IInv, TypeOK, Time
  <1>3. CASE Usable(c.from, now) /\ deploying' = {c}
    <2>1. deploying' \subseteq Call /\ Cardinality(deploying') <= 1
      <3>1. Cardinality({c}) = 1
        BY AtMostOne
      <3> QED
        BY <1>0, <1>3, <3>1
    <2>2. Excluded' /\ Blank' /\ Begun' /\ Deployer'
      BY <1>1, <1>3 DEF IInv, Excluded, Blank, Begun, Deployer, PrepareStarts, Op
    <2>3. ASSUME NEW k \in Nonce, Retreated(k)
          PROVE  Retreated(k)' /\ (born'[k] <= 1 /\ DeployedFor(k)' => DeployedFor(k))
      BY <1>1, <1>3, <2>3 DEF Retreated, DeployedFor, Usable, Matches
    <2>4. now <= now' /\ \A k \in Nonce : born[k] <= born'[k]
      BY <1>1, InstallationAssumption DEF IInv, TypeOK, Time
    <2> QED
      BY <1>1, <2>1, <2>2, <2>3, <2>4 DEF PanelOK, IInv, TypeOK, CommitAgreement
  <1> QED
    BY <1>2, <1>3 DEF PrepareStarts, Refuse

\* Ordinary operations come only when no row is live, and go with the server.
LEMMA MutationPanel ==
  ASSUME IInv, NEW m \in Mutation,
         AcquireMutationLease(m) \/ Release(m) \/ DeleteRemoteServer(m)
  PROVE  PanelOK
  <1>0. now <= now /\ \A k \in Nonce : born[k] <= born[k]
    BY InstallationAssumption DEF IInv, TypeOK, Time
  <1>1. CASE AcquireMutationLease(m)
    <2>1. /\ UNCHANGED <<now, row, exists, deploying, born>> /\ deploying = {} /\ ~Active
          /\ mutators' = mutators \union {m}
      BY <1>1 DEF AcquireMutationLease
    <2>2. Excluded' /\ Blank' /\ Begun' /\ Deployer'
      BY <2>1 DEF IInv, Excluded, Blank, Begun, Active, Matches, Deployer
    <2>3. ASSUME NEW k \in Nonce, Retreated(k)
          PROVE  Retreated(k)' /\ (born'[k] <= 1 /\ DeployedFor(k)' => DeployedFor(k))
      BY <2>1, <2>3 DEF Retreated, DeployedFor
    <2>4. mutators' \subseteq Mutation /\ now' \in Time /\ row' \in Row /\ exists' \in BOOLEAN
          /\ deploying' \subseteq Call /\ Cardinality(deploying') <= 1 /\ born' \in [Nonce -> 0..2]
      BY <2>1 DEF IInv, TypeOK
    <2>5. row'.completed => node[row'.nonce] = "new" /\ row'.prepared /\ ~row'.aborted
      BY <2>1 DEF IInv, CommitAgreement
    <2>6. now <= now' /\ \A k \in Nonce : born[k] <= born'[k]
      BY <1>0, <2>1
    <2> QED
      BY <2>1, <2>2, <2>3, <2>4, <2>5, <2>6 DEF PanelOK
  <1>2. CASE Release(m)
    BY <1>0, <1>2, QuietPanel DEF Release, IInv, TypeOK
  <1>3. CASE DeleteRemoteServer(m)
    <2>1. /\ UNCHANGED <<now, mutators, deploying, born>> /\ exists' = FALSE /\ row' = NoRow
          /\ deploying = {}
      BY <1>3 DEF DeleteRemoteServer, IInv, Excluded
    <2>2. /\ row' \in Row /\ row'.nonce = NoNonce /\ ~row'.completed
      BY <2>1 DEF NoRow, NewRow, Row
    <2>3. Excluded' /\ Blank' /\ Begun' /\ Deployer'
      BY <2>1, <2>2 DEF Excluded, Blank, Begun, Active, Matches, NoRow, NewRow, Deployer
    <2>4. ASSUME NEW k \in Nonce, Retreated(k)
          PROVE  Retreated(k)' /\ (born'[k] <= 1 /\ DeployedFor(k)' => DeployedFor(k))
      BY <2>1, <2>2, <2>4, InstallationAssumption DEF Retreated, DeployedFor
    <2>5. mutators' \subseteq Mutation /\ now' \in Time /\ exists' \in BOOLEAN
          /\ deploying' \subseteq Call /\ Cardinality(deploying') <= 1 /\ born' \in [Nonce -> 0..2]
      BY <2>1 DEF IInv, TypeOK
    <2>6. now <= now' /\ \A k \in Nonce : born[k] <= born'[k]
      BY <1>0, <2>1
    <2> QED
      BY <2>1, <2>2, <2>3, <2>4, <2>5, <2>6 DEF PanelOK
  <1> QED
    BY <1>1, <1>2, <1>3

---------------------------------------------------------------------------
(***************************************************************************)
(* Together.                                                               *)
(***************************************************************************)

LEMMA InitIInv == Init => IInv
  <1> SUFFICES ASSUME Init
               PROVE  IInv
    OBVIOUS
  <1>1. NoRow \in Row /\ NoRow.nonce = NoNonce /\ ~NoRow.completed
    BY DEF NoRow, NewRow, Row
  <1>2. TypeOK
    BY <1>1, AtMostOne, InstallationAssumption DEF Init, TypeOK, Time, PC, Node
  <1> QED
    BY <1>1, <1>2 DEF Init, IInv, Excluded, Blank, Dated, Begun, Nodes, Quiesced, QuietRestore,
       CommitAgreement, Deployer

\* Every call the panel handles keeps the invariant.
LEMMA HandleKeeps ==
  ASSUME IInv, NEW c \in calls, Handle(c)
  PROVE  IInv'
  <1>0. TypeOK /\ Nodes /\ c \in Call
    BY DEF IInv, TypeOK
  <1>1. ASSUME UNCHANGED script, calls' \subseteq calls, PanelOK
        PROVE  IInv'
    BY <1>0, <1>1, StillScript, Together
  <1>2. ASSUME Answer(c), c.at # "quiescing", PanelOK
        PROVE  IInv'
    BY <1>0, <1>2, AnswerScript, Together
  <1>3. ASSUME Refuse(c), PanelOK
        PROVE  IInv'
    BY <1>1, <1>3 DEF Refuse
  <1>4. Op(c) # "quiesce" => c.at # "quiescing"
    BY DEF Op, OpOf
  <1>5. CASE HandlerStarts(c)
    <2> DEFINE d == [c EXCEPT !.seen = now]
    <2>1. UNCHANGED script /\ calls' = (calls \ {c}) \union {d} /\ UNCHANGED <<now, panel, born>>
      BY <1>5 DEF HandlerStarts
    <2>2. d \in Call /\ d.seen = now /\ d.at = c.at /\ d.from = c.from
      BY <1>0, InstallationAssumption DEF Call, TypeOK, Time
    <2> HIDE DEF d
    <2>3. calls' \subseteq Call /\ \A e \in calls' : e \in calls \/ e.seen <= now
      BY <1>0, <2>1, <2>2, InstallationAssumption DEF TypeOK, Time
    <2>4. Nodes'
      BY <1>0, <2>1, <2>2 DEF Nodes, script
    <2>5. ScriptOK /\ \A n \in Nonce : ~Enters(n)
      BY <1>0, <2>1, <2>3, <2>4 DEF ScriptOK, Enters, TypeOK, script
    <2>6. now <= now' /\ now' \in Time /\ exists' \in BOOLEAN
      BY <1>0, <2>1, InstallationAssumption DEF TypeOK, Time, panel
    <2>7. PanelOK
      BY <2>1, <2>6, QuietPanel DEF panel
    <2> QED
      BY <2>5, <2>7, Together
  <1>6. CASE BeginInstallation(c)
    BY <1>2, <1>3, <1>4, <1>6, BeginPanel DEF BeginInstallation
  <1>7. CASE RenewInstallation(c)
    BY <1>2, <1>3, <1>4, <1>7, RenewPanel DEF RenewInstallation
  <1>8. CASE MarkReady(c)
    BY <1>0, <1>2, <1>3, <1>4, <1>8, ReadyPanel DEF MarkReady
  <1>9. CASE PrepareStarts(c)
    BY <1>1, <1>3, <1>9, PreparePanel DEF PrepareStarts
  <1>10. CASE QuiesceInstallation(c)
    <2>1. PanelOK
      BY <1>10, QuiescePanel
    <2>2. CASE Refuse(c)
      BY <1>3, <2>1, <2>2
    <2>3. CASE /\ Matches(c.from, now) /\ row' = [row EXCEPT !.rollingBack = TRUE]
               /\ Answer(c) /\ UNCHANGED <<born, deploying>> /\ deploying = {}
      <3>1. c.from \in Nonce /\ c.from # NoNonce
        BY <1>0, InstallationAssumption DEF Call
      <3>2. /\ row.nonce = c.from /\ ~row.aborted /\ row'.rollingBack
        BY <2>3 DEF Matches, IInv, TypeOK, Row
      <3>3. Retreated(c.from)'
        BY <2>3, <3>1, <3>2 DEF Retreated, IInv, Begun
      <3> QED
        BY <1>0, <2>1, <2>3, <3>3, AnswerScript, Together
    <2> QED
      BY <1>10, <2>2, <2>3 DEF QuiesceInstallation, Free
  <1>11. CASE FinalizeInstallation(c)
    BY <1>2, <1>3, <1>4, <1>11, FinalizePanel DEF FinalizeInstallation
  <1>12. CASE AbortInstallation(c)
    BY <1>2, <1>3, <1>4, <1>12, AbortPanel DEF AbortInstallation
  <1>13. CASE Lose(c)
    <2>1. now <= now' /\ now' \in Time /\ exists' \in BOOLEAN
      BY <1>0, <1>13, InstallationAssumption DEF Lose, TypeOK, Time, panel
    <2>2. PanelOK
      BY <1>13, <2>1, QuietPanel DEF Lose, panel
    <2> QED
      BY <1>1, <1>13, <2>2 DEF Lose
  <1> QED
    BY <1>5, <1>6, <1>7, <1>8, <1>9, <1>10, <1>11, <1>12, <1>13 DEF Handle

\* Every step keeps the invariant.
LEMMA NextIInv ==
  ASSUME IInv, Next
  PROVE  IInv'
  <1>0. TypeOK /\ Nodes /\ now <= now
    BY InstallationAssumption DEF IInv, TypeOK, Time
  <1>1. ASSUME NEW c \in calls, Handle(c)
        PROVE  IInv'
    BY <1>1, HandleKeeps
  <1>2. ASSUME NEW c \in deploying, PrepareEnds(c)
        PROVE  IInv'
    <2>1. c \in Call
      BY <1>0 DEF TypeOK
    <2>2. PanelOK
      BY <1>2, <2>1, ReadyPanel
    <2>3. CASE Answer(c) /\ deploying' = {}
      <3>1. \A n \in Nonce : Enters(n) => c.at = "quiescing" /\ n = c.from
        BY <1>0, <2>1, <2>3, AnswerScript
      <3>2. ScriptOK
        BY <1>0, <2>1, <2>3, AnswerScript
      <3>3. c.at # "quiescing"
        BY <1>2 DEF IInv, Deployer, Op, OpOf
      <3> QED
        BY <2>2, <3>1, <3>2, <3>3, Together
    <2>4. CASE Refuse(c)
      BY <1>0, <2>2, <2>4, StillScript, Together DEF Refuse
    <2> QED
      BY <1>2, <2>3, <2>4 DEF PrepareEnds
  <1>3. ASSUME NEW n \in Nonce, Installer(n)
        PROVE  IInv'
    <2>1. UNCHANGED <<now, panel, born>>
      BY <1>3 DEF Installer, Start, Proceed, AttemptFails, Fail, Restored, RollbackFails, Die,
                  WorkerRenews
    <2>2. PanelOK
      BY <1>0, <2>1, QuietPanel DEF panel, TypeOK
    <2> QED
      BY <1>0, <1>3, <2>2, InstallerScript, Together
  <1>4. ASSUME NEW m \in Mutation,
               AcquireMutationLease(m) \/ Release(m) \/ DeleteRemoteServer(m)
        PROVE  IInv'
    <2>1. UNCHANGED <<script, calls>>
      BY <1>4 DEF AcquireMutationLease, Release, DeleteRemoteServer
    <2> QED
      BY <1>0, <1>4, <2>1, MutationPanel, StillScript, Together
  <1>5. CASE Tick
    <2>1. now' \in Time /\ now <= now' /\ UNCHANGED <<panel, script, calls, born>>
      BY <1>0, <1>5, InstallationAssumption DEF Tick, TypeOK, Time
    <2>2. PanelOK
      BY <1>0, <2>1, QuietPanel DEF panel, TypeOK
    <2> QED
      BY <1>0, <2>1, <2>2, StillScript, Together
  <1>6. CASE Restart
    <2>1. PanelOK
      BY <1>0, <1>6, QuietPanel DEF Restart, TypeOK
    <2> QED
      BY <1>0, <1>6, <2>1, StillScript, Together DEF Restart
  <1> QED
    BY <1>1, <1>2, <1>3, <1>4, <1>5, <1>6 DEF Next

\* The invariant holds in every reachable state.
LEMMA Inductive == Spec => []IInv
  <1>1. IInv /\ UNCHANGED vars => IInv'
    BY DEF IInv, vars, panel, script, TypeOK, Excluded, Active, Matches, Blank, Dated, Begun, Nodes,
           Quiesced, QuietRestore, CommitAgreement, Deployer
  <1>2. IInv /\ [Next]_vars => IInv'
    BY <1>1, NextIInv
  <1> QED
    BY <1>2, InitIInv, PTL DEF Spec

---------------------------------------------------------------------------
(***************************************************************************)
(* The theorems.                                                           *)
(***************************************************************************)

\* The panel, the installers and the calls between them keep their types.
THEOREM TypeCorrect == Spec => []TypeOK
  <1>1. IInv => TypeOK
    BY DEF IInv
  <1> QED
    BY <1>1, Inductive, PTL

\* No ordinary operation holds a lease of a node that is being installed, however
\* many operations and installers there are.
THEOREM MutationsExcluded == Spec => []Excluded
  <1>1. IInv => Excluded
    BY DEF IInv
  <1> QED
    BY <1>1, Inductive, PTL

\* While an installer that had asked for Prepare restores its node, no Prepare of
\* it deploys, however late it comes.
THEOREM RestoreIsQuiet == Spec => []QuietRestore
  <1>1. IInv => QuietRestore
    BY DEF IInv
  <1> QED
    BY <1>1, Inductive, PTL

\* A completed row and a committed node go together.
THEOREM PanelAndNodeAgree == Spec => []CommitAgreement
  <1>1. IInv => CommitAgreement
    BY DEF IInv
  <1> QED
    BY <1>1, Inductive, PTL

\* What a step may do to a row that stays its installer's.
OneWay ==
  row'.nonce = row.nonce =>
    /\ row.rollingBack => row'.rollingBack /\ ~(row.ready # row'.ready \/ row.prepared # row'.prepared)
    /\ row.completed => row' = row
    /\ row.aborted => row' = row

\* Calls, the clock, the panel and the script only move a row forward.
LEMMA OneWayStep ==
  ASSUME IInv, Next
  PROVE  OneWay
  <1>0. row \in Row /\ (row.nonce = NoNonce => row = NoRow)
    BY DEF IInv, TypeOK, Blank
  <1>1. ASSUME UNCHANGED row
        PROVE  OneWay
    BY <1>1 DEF OneWay
  <1>2. ASSUME NEW c \in calls, BeginInstallation(c)
        PROVE  OneWay
    <2>1. CASE UNCHANGED row
      BY <1>1, <2>1
    <2>2. CASE row.nonce # c.from /\ row' = NewRow(c.from, c.seen, c.seen + TTL, FALSE)
      BY <2>2 DEF OneWay, NewRow
    <2> QED
      BY <1>2, <2>1, <2>2 DEF BeginInstallation, Refuse
  <1>3. ASSUME NEW c \in calls, RenewInstallation(c)
        PROVE  OneWay
    BY <1>0, <1>1, <1>3 DEF RenewInstallation, Refuse, OneWay, Usable, Matches, Row
  <1>4. ASSUME NEW c \in Call, MarkReady(c) \/ PrepareEnds(c)
        PROVE  OneWay
    BY <1>0, <1>1, <1>4 DEF MarkReady, PrepareEnds, Refuse, OneWay, Usable, Matches, Row
  <1>5. ASSUME NEW c \in calls, QuiesceInstallation(c)
        PROVE  OneWay
    BY <1>0, <1>1, <1>5 DEF QuiesceInstallation, Refuse, OneWay, Matches, Row
  <1>6. ASSUME NEW c \in calls, FinalizeInstallation(c)
        PROVE  OneWay
    BY <1>0, <1>1, <1>6 DEF FinalizeInstallation, Refuse, OneWay, Usable, Matches, Row
  <1>7. ASSUME NEW c \in calls, AbortInstallation(c)
        PROVE  OneWay
    <2>1. CASE UNCHANGED row
      BY <1>1, <2>1
    <2>2. CASE ~row.completed /\ row' = [row EXCEPT !.aborted = TRUE]
      BY <1>0, <2>2 DEF OneWay, Row
    <2>3. CASE row.nonce # c.from /\ row' = NewRow(c.from, 0, 0, TRUE)
      BY <2>3 DEF OneWay, NewRow
    <2> QED
      BY <1>7, <2>1, <2>2, <2>3 DEF AbortInstallation, Refuse
  <1>8. ASSUME NEW m \in Mutation, DeleteRemoteServer(m)
        PROVE  OneWay
    BY <1>0, <1>8 DEF DeleteRemoteServer, OneWay, NoRow, NewRow
  <1>9. ASSUME NEW c \in calls, HandlerStarts(c) \/ PrepareStarts(c) \/ Lose(c)
        PROVE  OneWay
    BY <1>1, <1>9 DEF HandlerStarts, PrepareStarts, Lose, Refuse, panel
  <1>10. ASSUME NEW n \in Nonce, Installer(n)
         PROVE  OneWay
    BY <1>1, <1>10 DEF Installer, Start, Proceed, AttemptFails, Fail, Restored, RollbackFails, Die,
                       WorkerRenews, panel
  <1>11. ASSUME NEW m \in Mutation, AcquireMutationLease(m) \/ Release(m)
         PROVE  OneWay
    BY <1>1, <1>11 DEF AcquireMutationLease, Release
  <1>12. ASSUME Tick \/ Restart
         PROVE  OneWay
    BY <1>1, <1>12 DEF Tick, Restart, panel
  <1>13. deploying \subseteq Call /\ calls \subseteq Call
    BY DEF IInv, TypeOK
  <1>14. ASSUME NEW c \in calls, Handle(c)
         PROVE  OneWay
    BY <1>2, <1>3, <1>4, <1>5, <1>6, <1>7, <1>9, <1>13, <1>14 DEF Handle
  <1>15. ASSUME NEW c \in deploying, PrepareEnds(c)
         PROVE  OneWay
    BY <1>4, <1>13, <1>15
  <1> QED
    BY <1>8, <1>10, <1>11, <1>12, <1>14, <1>15 DEF Next

\* A transaction that rolls back, is completed or aborted stays so: no retry and no
\* late call makes it ready, prepared or live again.
THEOREM OnlyForward == Spec => NoWayBack
  <1>1. IInv /\ [Next]_vars => [OneWay]_vars
    BY OneWayStep
  <1> QED
    BY <1>1, Inductive, PTL DEF Spec, NoWayBack, OneWay

---------------------------------------------------------------------------
(* The lifetime of a lock.                                                 *)

\* No row outlives its Begin by more than MaxLife.
Capped == row.expires <= row.started + MaxLife

\* Begin and Abort make rows that are capped; Renew caps what it adds; nothing
\* else moves the two times of a row.
LEMMA CappedStep ==
  ASSUME TypeOK, Capped, Next
  PROVE  Capped'
  <1>0. row \in Row /\ calls \subseteq Call
        /\ TTL \in Nat /\ MaxLife \in Nat /\ TTL <= MaxLife /\ MaxNow \in Nat
    BY InstallationAssumption DEF TypeOK
  <1>1. ASSUME row'.started = row.started, row'.expires = row.expires
        PROVE  Capped'
    BY <1>1 DEF Capped
  <1>2. ASSUME NEW c \in calls, BeginInstallation(c)
        PROVE  Capped'
    <2>1. CASE UNCHANGED row
      BY <1>1, <2>1
    <2>2. CASE row' = NewRow(c.from, c.seen, c.seen + TTL, FALSE)
      <3>1. c.seen \in Int
        BY <1>0 DEF Call
      <3>2. row'.started = c.seen /\ row'.expires = c.seen + TTL
        BY <2>2 DEF NewRow
      <3> QED
        BY <1>0, <3>1, <3>2 DEF Capped
    <2> QED
      BY <1>2, <2>1, <2>2 DEF BeginInstallation, Refuse
  <1>3. ASSUME NEW c \in calls, RenewInstallation(c)
        PROVE  Capped'
    <2>1. CASE UNCHANGED row
      BY <1>1, <2>1
    <2>2. CASE row' = [row EXCEPT !.expires = RenewedUntil(c.seen)]
      <3>1. c.seen \in Int /\ row.started \in Int
        BY <1>0 DEF Call, Row
      <3>2. row'.started = row.started /\ row'.expires = RenewedUntil(c.seen)
        BY <1>0, <2>2 DEF Row
      <3> QED
        BY <1>0, <3>1, <3>2 DEF Capped, RenewedUntil
    <2> QED
      BY <1>3, <2>1, <2>2 DEF RenewInstallation, Refuse
  <1>4. ASSUME NEW c, \/ MarkReady(c) \/ PrepareEnds(c) \/ QuiesceInstallation(c)
                      \/ FinalizeInstallation(c)
        PROVE  Capped'
    BY <1>0, <1>1, <1>4
    DEF MarkReady, PrepareEnds, QuiesceInstallation, FinalizeInstallation, Refuse, Row
  <1>5. ASSUME NEW c \in calls, AbortInstallation(c)
        PROVE  Capped'
    <2>1. CASE UNCHANGED row
      BY <1>1, <2>1
    <2>2. CASE row' = [row EXCEPT !.aborted = TRUE]
      BY <1>0, <1>1, <2>2 DEF Row
    <2>3. CASE row' = NewRow(c.from, 0, 0, TRUE)
      BY <1>0, <2>3 DEF Capped, NewRow
    <2> QED
      BY <1>5, <2>1, <2>2, <2>3 DEF AbortInstallation, Refuse
  <1>6. ASSUME NEW m \in Mutation, DeleteRemoteServer(m)
        PROVE  Capped'
    BY <1>0, <1>6 DEF DeleteRemoteServer, Capped, NoRow, NewRow
  <1>7. ASSUME NEW c \in calls, HandlerStarts(c) \/ PrepareStarts(c) \/ Lose(c)
        PROVE  Capped'
    BY <1>1, <1>7 DEF HandlerStarts, PrepareStarts, Lose, Refuse, panel
  <1>8. ASSUME NEW n \in Nonce, Installer(n)
        PROVE  Capped'
    BY <1>1, <1>8 DEF Installer, Start, Proceed, AttemptFails, Fail, Restored, RollbackFails, Die,
                      WorkerRenews, panel
  <1>9. ASSUME NEW m \in Mutation, AcquireMutationLease(m) \/ Release(m)
        PROVE  Capped'
    BY <1>1, <1>9 DEF AcquireMutationLease, Release
  <1>10. ASSUME Tick \/ Restart
         PROVE  Capped'
    BY <1>1, <1>10 DEF Tick, Restart, panel
  <1>11. ASSUME NEW c \in calls, Handle(c)
         PROVE  Capped'
    BY <1>2, <1>3, <1>4, <1>5, <1>7, <1>11 DEF Handle
  <1> QED
    BY <1>4, <1>6, <1>8, <1>9, <1>10, <1>11 DEF Next

\* A lock ends MaxLife after its Begin at the latest, whatever workers are left behind
\* and however long a renewal has waited for the lease.
THEOREM LockIsFreed == Spec => []LockEnds
  <1>1. Init => Capped
    BY InstallationAssumption DEF Init, Capped, NoRow, NewRow
  <1>2. TypeOK /\ Capped /\ [Next]_vars => Capped'
    <2>1. Capped /\ UNCHANGED vars => Capped'
      BY DEF Capped, vars, panel
    <2> QED
      BY <2>1, CappedStep
  <1>3. TypeOK /\ Capped => LockEnds
    BY InstallationAssumption DEF TypeOK, Capped, LockEnds, Active, Matches, Row, Time
  <1> QED
    BY <1>1, <1>2, <1>3, TypeCorrect, PTL DEF Spec

---------------------------------------------------------------------------
(* The abstract specification.                                             *)

Owned == [Owner!Next]_(Owner!vars)

\* The row stays what it is to the abstract specification, and leases are only released.
LEMMA LeaveOrStay ==
  ASSUME Active' <=> Active, Active => row'.nonce = row.nonce /\ row'.rollingBack = row.rollingBack,
         mutators' \subseteq mutators, deploying' \in {deploying, {}}
  PROVE  Owned
  BY DEF Owned, Owner!Next, Owner!Leave

\* The owner's time is over, or it has given up or committed.
LEMMA OwnerYields ==
  ASSUME ~Active', UNCHANGED <<mutators, deploying>>
  PROVE  Owned
  BY DEF Owned, Owner!Next, Owner!Yield

\* Somebody owns the node that was free.
LEMMA OwnerComes ==
  ASSUME ~Active, Active', Free, row'.nonce \in Nonce, ~row'.rollingBack,
         UNCHANGED <<mutators, deploying>>
  PROVE  Owned
  <1>1. Owner!Own(row'.nonce)
    BY DEF Owner!Own, Free
  <1> QED
    BY <1>1 DEF Owned, Owner!Next

\* A handler that may take or renew the row for n, knowing nothing of the clock.
LEMMA RowTaken ==
  ASSUME NEW n \in Nonce, Free, row'.nonce = n, ~row'.rollingBack,
         Active => row.nonce = n /\ ~row.rollingBack, UNCHANGED <<mutators, deploying>>
  PROVE  Owned
  <1>1. CASE ~Active'
    BY <1>1, OwnerYields
  <1>2. CASE Active' /\ ~Active
    BY <1>2, OwnerComes
  <1>3. CASE Active' /\ Active
    <2>1. Active => row'.nonce = row.nonce
      OBVIOUS
    <2> QED
      BY <1>3, <2>1 DEF Owned, Owner!vars
  <1> QED
    BY <1>1, <1>2, <1>3

\* A handler's step is a step of the abstract specification.
LEMMA HandleOwned ==
  ASSUME IInv, NEW c \in calls, Handle(c)
  PROVE  Owned
  <1>0. /\ c.from \in Nonce /\ c.from # NoNonce /\ c.seen \in Int /\ c.seen <= now /\ now \in Int
        /\ row \in Row
    BY InstallationAssumption DEF IInv, TypeOK, Call, Dated, Time
  <1>1. ASSUME UNCHANGED <<now, row, mutators, deploying>>
        PROVE  Owned
    <2>1. Active' <=> Active
      BY <1>1 DEF Active, Matches
    <2> QED
      BY <1>1, <2>1, LeaveOrStay
  <1>2. CASE HandlerStarts(c) \/ Lose(c)
    BY <1>1, <1>2 DEF HandlerStarts, Lose, panel
  <1>3. CASE BeginInstallation(c)
    <2>1. CASE UNCHANGED row
      BY <1>1, <1>3, <2>1 DEF BeginInstallation
    <2>2. CASE Vacant(c.seen) /\ row' = NewRow(c.from, c.seen, c.seen + TTL, FALSE)
      <3>1. ~Active
        BY <1>0, <2>2 DEF Vacant, Active, Matches, Row
      <3>2. row'.nonce = c.from /\ ~row'.rollingBack
        BY <2>2 DEF NewRow
      <3> QED
        BY <1>0, <1>3, <3>1, <3>2, RowTaken DEF BeginInstallation
    <2> QED
      BY <1>3, <2>1, <2>2 DEF BeginInstallation, Refuse
  <1>4. CASE RenewInstallation(c)
    <2>1. CASE UNCHANGED row
      BY <1>1, <1>4, <2>1 DEF RenewInstallation
    <2>2. CASE Usable(c.from, c.seen) /\ row' = [row EXCEPT !.expires = RenewedUntil(c.seen)]
      <3>1. /\ row.nonce = c.from /\ ~row.rollingBack
            /\ row'.nonce = c.from /\ ~row'.rollingBack
        BY <1>0, <2>2 DEF Usable, Matches, Row
      <3> QED
        BY <1>0, <1>4, <3>1, RowTaken DEF RenewInstallation
    <2> QED
      BY <1>4, <2>1, <2>2 DEF RenewInstallation, Refuse
  <1>5. CASE MarkReady(c)
    <2>1. CASE UNCHANGED row
      BY <1>1, <1>5, <2>1 DEF MarkReady
    <2>2. CASE Usable(c.from, now) /\ row' = [row EXCEPT !.ready = TRUE]
      <3>1. now' = now
        BY <1>5 DEF MarkReady
      <3>2. row'.nonce = row.nonce /\ row'.rollingBack = row.rollingBack /\ (Active' <=> Active)
        BY <1>0, <2>2, <3>1 DEF Active, Matches, Row
      <3> QED
        BY <1>5, <3>2, LeaveOrStay DEF MarkReady
    <2> QED
      BY <1>5, <2>1, <2>2 DEF MarkReady, Refuse
  <1>6. CASE PrepareStarts(c)
    <2>1. CASE UNCHANGED deploying
      BY <1>1, <1>6, <2>1 DEF PrepareStarts, Refuse
    <2>2. CASE Usable(c.from, now) /\ deploying' = {c} /\ UNCHANGED row
      <3>1. Active /\ row.nonce = c.from /\ ~row.rollingBack
        BY <1>0, <2>2 DEF Usable, Matches, Active
      <3>2. Active' /\ UNCHANGED <<row, mutators>> /\ deploying = {} /\ mutators = {}
        BY <1>6, <2>2, <3>1 DEF PrepareStarts, Free, Active, Matches
      <3>3. Owner!Deploy
        BY <1>0, <2>2, <3>1, <3>2 DEF Owner!Deploy
      <3> QED
        BY <3>3 DEF Owned, Owner!Next
    <2> QED
      BY <1>6, <2>1, <2>2 DEF PrepareStarts
  <1>7. CASE QuiesceInstallation(c)
    <2>1. CASE UNCHANGED row
      BY <1>1, <1>7, <2>1 DEF QuiesceInstallation
    <2>2. CASE Matches(c.from, now) /\ row' = [row EXCEPT !.rollingBack = TRUE]
      <3>1. UNCHANGED <<now, mutators, deploying>> /\ deploying = {}
        BY <1>7 DEF QuiesceInstallation, Free
      <3>2. /\ Active /\ Active' /\ row.nonce = c.from /\ row'.nonce = row.nonce
            /\ row'.rollingBack
        BY <1>0, <2>2, <3>1 DEF Active, Matches, Row
      <3>3. Owner!Retreat
        BY <1>0, <3>1, <3>2 DEF Owner!Retreat
      <3> QED
        BY <3>3 DEF Owned, Owner!Next
    <2> QED
      BY <1>7, <2>1, <2>2 DEF QuiesceInstallation, Refuse
  <1>8. CASE FinalizeInstallation(c)
    <2>1. CASE UNCHANGED row
      BY <1>1, <1>8, <2>1 DEF FinalizeInstallation
    <2>2. CASE row' = [row EXCEPT !.completed = TRUE]
      <3>1. ~Active'
        BY <1>0, <2>2 DEF Active, Matches, Row
      <3> QED
        BY <1>8, <3>1, OwnerYields DEF FinalizeInstallation
    <2> QED
      BY <1>8, <2>1, <2>2 DEF FinalizeInstallation, Refuse
  <1>9. CASE AbortInstallation(c)
    <2>1. CASE UNCHANGED row
      BY <1>1, <1>9, <2>1 DEF AbortInstallation
    <2>2. CASE \/ row' = [row EXCEPT !.aborted = TRUE]
               \/ row' = NewRow(c.from, 0, 0, TRUE)
      <3>1. ~Active'
        BY <1>0, <2>2 DEF Active, Matches, Row, NewRow
      <3> QED
        BY <1>9, <3>1, OwnerYields DEF AbortInstallation
    <2> QED
      BY <1>9, <2>1, <2>2 DEF AbortInstallation, Refuse
  <1> QED
    BY <1>2, <1>3, <1>4, <1>5, <1>6, <1>7, <1>8, <1>9 DEF Handle

\* So is every other step.
LEMMA NextOwned ==
  ASSUME IInv, Next
  PROVE  Owned
  <1>0. row \in Row /\ now \in Int
    BY InstallationAssumption DEF IInv, TypeOK, Time
  <1>1. ASSUME UNCHANGED <<now, row>>, mutators' \subseteq mutators, deploying' \in {deploying, {}}
        PROVE  Owned
    <2>1. Active' <=> Active
      BY <1>1 DEF Active, Matches
    <2> QED
      BY <1>1, <2>1, LeaveOrStay
  <1>2. ASSUME NEW c \in deploying, PrepareEnds(c)
        PROVE  Owned
    <2>1. UNCHANGED <<now, mutators>> /\ deploying' = {}
      BY <1>2 DEF PrepareEnds
    <2>2. CASE UNCHANGED row
      BY <1>1, <2>1, <2>2
    <2>3. CASE row' = [row EXCEPT !.prepared = TRUE]
      <3>1. row'.nonce = row.nonce /\ row'.rollingBack = row.rollingBack /\ (Active' <=> Active)
        BY <1>0, <2>1, <2>3 DEF Active, Matches, Row
      <3> QED
        BY <2>1, <3>1, LeaveOrStay
    <2> QED
      BY <1>2, <2>2, <2>3 DEF PrepareEnds, Refuse
  <1>3. ASSUME NEW n \in Nonce, Installer(n)
        PROVE  Owned
    BY <1>1, <1>3 DEF Installer, Start, Proceed, AttemptFails, Fail, Restored, RollbackFails, Die,
                      WorkerRenews, panel
  <1>4. ASSUME NEW m \in Mutation, AcquireMutationLease(m)
        PROVE  Owned
    <2>1. /\ ~Active /\ ~Active' /\ deploying = {} /\ deploying' = {}
          /\ mutators' = mutators \union {m}
      BY <1>4 DEF AcquireMutationLease, Active, Matches
    <2>2. Owner!Use(m)
      BY <2>1 DEF Owner!Use
    <2> QED
      BY <2>2 DEF Owned, Owner!Next
  <1>5. ASSUME NEW m \in Mutation, DeleteRemoteServer(m)
        PROVE  Owned
    <2>1. ~Active'
      BY <1>5 DEF DeleteRemoteServer, Active, Matches, NoRow, NewRow
    <2> QED
      BY <1>5, <2>1, OwnerYields DEF DeleteRemoteServer
  <1>6. ASSUME NEW m \in Mutation, Release(m)
        PROVE  Owned
    BY <1>1, <1>6 DEF Release
  <1>7. CASE Tick
    <2>1. UNCHANGED <<row, mutators, deploying>> /\ now' = now + 1
      BY <1>7 DEF Tick, panel
    <2>2. CASE Active'
      <3>1. Active
        BY <1>0, <2>1, <2>2 DEF Active, Matches, Row
      <3> QED
        BY <2>1, <2>2, <3>1, LeaveOrStay
    <2>3. CASE ~Active'
      BY <2>1, <2>3, OwnerYields
    <2> QED
      BY <2>2, <2>3
  <1>8. CASE Restart
    BY <1>1, <1>8 DEF Restart
  <1> QED
    BY <1>2, <1>3, <1>4, <1>5, <1>6, <1>7, <1>8, HandleOwned DEF Next

\* Rows, leases and handlers together are a node with one owner at a time, or users.
THEOREM OneOwner == Spec => ImplementsOwner
  <1>1. Init => Owner!Init
    BY InstallationAssumption DEF Init, Owner!Init, Active, NoRow, NewRow
  <1>2. UNCHANGED vars => Owned
    <2> SUFFICES ASSUME UNCHANGED vars
                 PROVE  Owned
      OBVIOUS
    <2>1. Active' <=> Active
      BY DEF vars, panel, Active, Matches
    <2> QED
      BY <2>1, LeaveOrStay DEF vars, panel
  <1>3. IInv /\ [Next]_vars => [Owner!Next]_(Owner!vars)
    BY <1>2, NextOwned DEF Owned
  <1> QED
    BY <1>1, <1>3, Inductive, PTL DEF Spec, ImplementsOwner, Owner!Spec

=============================================================================
