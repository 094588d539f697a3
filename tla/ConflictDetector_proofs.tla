----------------------- MODULE ConflictDetector_proofs -----------------------
(***************************************************************************)
(* Proofs about ConflictDetector for any finite set of nodes, any          *)
(* detections and any bounds: TypeOK, NodesAgree and CountsBalance are     *)
(* invariants, a node holds at most one report per target and votes on its *)
(* latest one, and every step satisfies ViewsAdvance.                      *)
(***************************************************************************)
EXTENDS ConflictDetector, FiniteSetTheorems, TLAPS

Unruled == {"consensus", "escalated", "cloud"}
Methods == {"confidence", "authority"} \cup Unruled

\* Verdict v of node n is what the rules say of its two reports.
Follows(n, v) ==
    IF Ruling(n, v).method = "open"
    THEN v.method \in Unruled
    ELSE /\ v.method = Ruling(n, v).method
         /\ v.winner = IF Ruling(n, v).side = "ours" THEN {n} ELSE {v.peer}

\* Nothing but what the rules leave open goes to the cloud.
VerdictsInv ==
    \A n \in Nodes :
        /\ \A v \in verdicts[n] : Follows(n, v)
        /\ request[n] # NoConflict => Ruling(n, request[n]).method = "open"

\* What is on a connection came later than what its receiver has seen.
LinesInv ==
    \A n, p \in Nodes :
        /\ \A i, j \in DOMAIN lines[p][n] : i < j => lines[p][n][i] < lines[p][n][j]
        /\ \A k \in views[n][p] : \A i \in DOMAIN lines[p][n] : k < lines[p][n][i]

FiniteInv == \A n \in Nodes : IsFiniteSet(todo[n])

IInv == TypeOK /\ VerdictsInv /\ LinesInv /\ FiniteInv /\ CountsBalance

-----------------------------------------------------------------------------
\* A weight is a number, whatever the sensor.
LEMMA WeightNat == \A s : Weight(s) \in Nat
<1> TAKE s
<1>1. CASE s \in DOMAIN SensorWeights
  <2>1. s \in {"lidar", "radar", "thermal", "camera", "audio", "unknown"}
    BY <1>1 DEF SensorWeights
  <2> QED  BY <2>1 DEF Weight, SensorWeights
<1>2. CASE s \notin DOMAIN SensorWeights
  BY <1>2 DEF Weight
<1> QED  BY <1>1, <1>2

\* The rules that resolve_by_confidence and resolve_by_authority apply are
\* symmetric: the other side's ruling is by the same method for the same report.
LEMMA RulingSymmetric ==
    ASSUME NEW a \in Detections, NEW b \in Detections
    PROVE  /\ RulingOf(a, b).method \in {"confidence", "authority", "open"}
           /\ RulingOf(b, a).method = RulingOf(a, b).method
           /\ RulingOf(a, b).method # "open" =>
                 (RulingOf(b, a).side = "ours") <=> (RulingOf(a, b).side # "ours")
<1> DEFINE x == a.confidence
           y == b.confidence
           u == Weight(a.sensor)
           w == Weight(b.sensor)
<1>1. x \in Int /\ y \in Int /\ u \in Int /\ w \in Int
  BY WeightNat, DetectionsAssumption
<1>2. Gap(x, y) = Gap(y, x) /\ Gap(u, w) = Gap(w, u)
  BY <1>1 DEF Gap
<1>3. Gap(x, y) > Margin => (x > y <=> ~(y > x))
  BY <1>1 DEF Gap, Margin
<1>4. Gap(u, w) > 2 => (u > w <=> ~(w > u))
  BY <1>1 DEF Gap
<1>5. CASE Gap(x, y) > Margin
  BY <1>2, <1>3, <1>5 DEF RulingOf, Higher
<1>6. CASE ~(Gap(x, y) > Margin) /\ Gap(u, w) > 2
  BY <1>2, <1>4, <1>6 DEF RulingOf, Higher
<1>7. CASE ~(Gap(x, y) > Margin) /\ ~(Gap(u, w) > 2)
  BY <1>2, <1>7 DEF RulingOf, Higher
<1> QED  BY <1>5, <1>6, <1>7

\* Reports are only added.
LEMMA ReportsKept ==
    ASSUME TypeOK, [Next]_vars
    PROVE  /\ reports' \in [Nodes -> Seq(Detections)]
           /\ \A p \in Nodes : DOMAIN reports[p] \subseteq DOMAIN reports'[p]
           /\ \A p \in Nodes : \A k \in DOMAIN reports[p] :
                 reports'[p][k] = reports[p][k]
<1>1. reports \in [Nodes -> Seq(Detections)]
  BY DEF TypeOK, MeshType
<1>2. CASE \E n \in Nodes : Perceive(n)
  <2>1. PICK n \in Nodes, d \in Detections :
            reports' = [reports EXCEPT ![n] = Append(@, d)]
    BY <1>2, Zenon DEF Perceive
  <2>2. reports[n] \in Seq(Detections)
    BY <1>1
  <2>3. /\ Append(reports[n], d) \in Seq(Detections)
        /\ DOMAIN reports[n] \subseteq DOMAIN Append(reports[n], d)
        /\ \A k \in DOMAIN reports[n] : Append(reports[n], d)[k] = reports[n][k]
    BY <2>2
  <2> HIDE DEF TypeOK
  <2> QED  BY <1>1, <2>1, <2>3, Zenon
<1>3. CASE ~(\E n \in Nodes : Perceive(n))
  <2>1. reports' = reports
    BY <1>3, Zenon
       DEF Next, MeshNext, PanelNext, CloudNext, Receive, ReceiveNothing, Check,
           ResolveByRule, ResolveByConsensus, Resolved, Escalate, ResetStats,
           CloudAnswers, CloudEnds, vars, meshVars
  <2> QED  BY <1>1, <2>1
<1> QED  BY <1>2, <1>3

\* So what a record refers to is there, and the rules say the same of it.
LEMMA MadeKept ==
    ASSUME TypeOK, [Next]_vars, NEW n \in Nodes,
           NEW c, c.peer \in Nodes, Made(n, c)
    PROVE  Made(n, c)' /\ Ruling(n, c)' = Ruling(n, c)
<1>1. c.our \in DOMAIN reports[n] /\ c.their \in DOMAIN reports[c.peer]
  BY DEF Made
<1>2. Made(n, c)'
  BY <1>1, ReportsKept, Zenon DEF Made
<1>3. /\ reports'[n][c.our] = reports[n][c.our]
      /\ reports'[c.peer][c.their] = reports[c.peer][c.their]
  BY <1>1, ReportsKept, Zenon
<1> QED  BY <1>2, <1>3, Zenon DEF Ruling

\* A check finds finitely many conflicts, all between reports that were made.
Records(n) ==
    UNION {[our : DOMAIN reports[n], peer : {p}, their : DOMAIN reports[p]] : p \in Nodes}

\* They are among the records that reports make possible, which are finitely many.
LEMMA ConflictsFinite ==
    ASSUME TypeOK, NEW n \in Nodes
    PROVE  /\ Conflicts(n) \in SUBSET ConflictRecord
           /\ \A c \in Conflicts(n) : Made(n, c)
           /\ IsFiniteSet(Conflicts(n))
<1>1. Conflicts(n) \subseteq Records(n)
  <2> SUFFICES ASSUME NEW c \in Conflicts(n) PROVE c \in Records(n)
    OBVIOUS
  <2>1. PICK k \in local[n], o \in Opinions(n) :
            c = [our |-> k, peer |-> o.peer, their |-> o.their]
    BY DEF Conflicts
  <2>2. o.peer \in Nodes /\ o.their \in views[n][o.peer]
    BY DEF Opinions
  <2>3. k \in DOMAIN reports[n] /\ o.their \in DOMAIN reports[o.peer]
    BY <2>2 DEF TypeOK, MeshType
  <2> QED  BY <2>1, <2>2, <2>3 DEF Records
<1>2. \A p \in Nodes : IsFiniteSet(DOMAIN reports[p])
  <2> TAKE p \in Nodes
  <2>1. Len(reports[p]) \in Nat /\ DOMAIN reports[p] = 1..Len(reports[p])
    BY DEF TypeOK, MeshType
  <2> QED  BY <2>1, FS_Interval
<1>3. ASSUME NEW p \in Nodes
      PROVE  IsFiniteSet([our : DOMAIN reports[n], peer : {p}, their : DOMAIN reports[p]])
  <2> DEFINE P == (DOMAIN reports[n]) \X (DOMAIN reports[p])
             R == [our : DOMAIN reports[n], peer : {p}, their : DOMAIN reports[p]]
             f == [x \in P |-> [our |-> x[1], peer |-> p, their |-> x[2]]]
  <2>1. IsFiniteSet(P)
    BY <1>2, FS_Product, Zenon
  <2>2. f \in [P -> R]
    <3>1. ASSUME NEW x \in P
          PROVE  [our |-> x[1], peer |-> p, their |-> x[2]] \in R
      OBVIOUS
    <3> HIDE DEF P, R
    <3> QED  BY <3>1, Zenon
  <2>3. ASSUME NEW r \in R PROVE \E x \in P : f[x] = r
    <3>1. <<r.our, r.their>> \in P /\ r = [our |-> r.our, peer |-> p, their |-> r.their]
      BY DEF R, P
    <3>2. f[<<r.our, r.their>>] = r
      BY <3>1, Zenon DEF f
    <3> QED  BY <3>1, <3>2
  <2>4. f \in Surjection(P, R)
    BY <2>2, <2>3, Zenon DEF Surjection
  <2> HIDE DEF P, R, f
  <2>5. IsFiniteSet(R)
    BY <2>1, <2>4, FS_Surjection
  <2> QED  BY <2>5 DEF R
<1>4. IsFiniteSet(Records(n))
  <2> DEFINE of == [p \in Nodes |->
                      [our : DOMAIN reports[n], peer : {p}, their : DOMAIN reports[p]]]
             parts == {of[p] : p \in Nodes}
  <2>1. of \in Surjection(Nodes, parts)
    BY Zenon DEF Surjection
  <2>2. \A s \in parts : IsFiniteSet(s)
    BY <1>3
  <2>3. Records(n) = UNION parts
    BY DEF Records
  <2> HIDE DEF of, parts
  <2>4. IsFiniteSet(parts)
    BY <2>1, NodesAssumption, FS_Surjection
  <2> QED  BY <2>2, <2>3, <2>4, FS_UNION
<1>5. ASSUME NEW c \in Records(n) PROVE c \in ConflictRecord /\ Made(n, c)
  <2>1. \A p \in Nodes : DOMAIN reports[p] \subseteq Nat
    BY DEF TypeOK, MeshType
  <2> QED  BY <2>1 DEF Records, ConflictRecord, Made
<1> QED  BY <1>1, <1>4, <1>5, FS_Subset

-----------------------------------------------------------------------------
\* The invariants hold at first.
LEMMA InitInv == Init => IInv
<1> SUFFICES ASSUME Init PROVE IInv
  OBVIOUS
<1>1. \A S : <<>> \in Seq(S) /\ Len(<<>>) = 0 /\ DOMAIN <<>> = {}
  OBVIOUS
<1>2. TypeOK
  BY <1>1, BoundsAssumption DEF Init, TypeOK, MeshType, PanelType, bounds
<1>3. VerdictsInv
  BY DEF Init, VerdictsInv
<1>4. LinesInv
  BY <1>1 DEF Init, LinesInv
<1>5. FiniteInv /\ CountsBalance
  BY FS_EmptySet DEF Init, FiniteInv, CountsBalance
<1> QED  BY <1>2, <1>3, <1>4, <1>5 DEF IInv

-----------------------------------------------------------------------------
(* Every step keeps the types: first of the mesh, then of the panel.       *)
\* Perceive, once the detection and the peers it reaches are known.
PerceiveEffect(n, d, reached) ==
    LET k == Len(reports[n]) + 1 IN
    /\ reports' = [reports EXCEPT ![n] = Append(@, d)]
    /\ local' = [local EXCEPT ![n] = Overwrite(reports'[n], @, k)]
    /\ lines' = [lines EXCEPT ![n] =
          [p \in Nodes |-> IF p \in reached THEN Append(@[p], k) ELSE @[p]]]

\* What a new report changes.
LEMMA PerceiveChanges ==
    ASSUME NEW n \in Nodes, Perceive(n)
    PROVE  \E d \in Detections, reached \in SUBSET Nodes : PerceiveEffect(n, d, reached)
BY Zenon DEF Perceive, PerceiveEffect

\* Every step keeps the caches and connections to reports that were made.
LEMMA MeshTyped ==
    ASSUME TypeOK, [Next]_vars
    PROVE  MeshType'
<1> USE DEF TypeOK, MeshType
<1>1. ASSUME NEW n \in Nodes, Perceive(n) PROVE MeshType'
  <2>1. PICK d \in Detections, reached \in SUBSET Nodes : PerceiveEffect(n, d, reached)
    BY <1>1, PerceiveChanges
  <2> DEFINE k == Len(reports[n]) + 1
  <2>2. k \in Nat /\ reports[n] \in Seq(Detections)
    OBVIOUS
  <2>3. /\ DOMAIN reports'[n] = DOMAIN reports[n] \cup {k}
        /\ \A p \in Nodes : DOMAIN reports[p] \subseteq DOMAIN reports'[p]
        /\ reports' \in [Nodes -> Seq(Detections)]
    BY <2>1, <2>2 DEF PerceiveEffect
  <2>4. perceived' \in 0..MaxReports /\ views' = views
    BY <1>1, BoundsAssumption DEF Perceive
  <2> HIDE DEF k
  <2>5. /\ local' \in [Nodes -> SUBSET Nat]
        /\ \A m \in Nodes : local'[m] \subseteq DOMAIN reports'[m]
    BY <2>1, <2>2, <2>3 DEF Overwrite, k, PerceiveEffect
  <2>6. /\ lines' \in [Nodes -> [Nodes -> Seq(Nat)]]
        /\ \A m, p \in Nodes : \A i \in DOMAIN lines'[p][m] :
              lines'[p][m][i] \in DOMAIN reports'[p]
    <3>1. ASSUME NEW m \in Nodes
          PROVE  /\ Append(lines[n][m], k) \in Seq(Nat)
                 /\ \A i \in DOMAIN Append(lines[n][m], k) :
                       Append(lines[n][m], k)[i] \in DOMAIN reports'[n]
      <4> DEFINE q == lines[n][m]
      <4>1. /\ q \in Seq(Nat) /\ k \in DOMAIN reports'[n]
            /\ \A i \in DOMAIN q : q[i] \in DOMAIN reports'[n]
        BY <2>3
      <4> HIDE DEF q, TypeOK, MeshType
      <4>2. \A i \in DOMAIN Append(q, k) : i \in DOMAIN q \/ Append(q, k)[i] = k
        BY <2>2, <4>1
      <4>3. Append(q, k) \in Seq(Nat) /\ \A i \in DOMAIN q : Append(q, k)[i] = q[i]
        BY <2>2, <4>1
      <4> QED  BY <4>1, <4>2, <4>3, Zenon DEF q
    <3>2. ASSUME NEW m \in Nodes
          PROVE  \/ lines'[n][m] = Append(lines[n][m], k)
                 \/ lines'[n][m] = lines[n][m]
      BY <2>1 DEF k, PerceiveEffect
    <3>3. \A p \in Nodes \ {n} : lines'[p] = lines[p]
      BY <2>1 DEF PerceiveEffect
    <3>4. lines' \in [Nodes -> [Nodes -> Seq(Nat)]]
      BY <2>1, <3>1 DEF k, PerceiveEffect
    <3>5. ASSUME NEW m \in Nodes, NEW p \in Nodes, NEW i \in DOMAIN lines'[p][m]
          PROVE  lines'[p][m][i] \in DOMAIN reports'[p]
      <4>1. i \in DOMAIN lines[p][m] => lines[p][m][i] \in DOMAIN reports'[p]
        BY <2>3
      <4> QED  BY <3>1, <3>2, <3>3, <3>5, <4>1, Zenon
    <3> QED  BY <3>4, <3>5
  <2> QED  BY <2>3, <2>4, <2>5, <2>6
<1>2. ASSUME NEW n \in Nodes, NEW p \in Nodes, Receive(n, p) \/ ReceiveNothing(n, p)
      PROVE  MeshType'
  <2>1. /\ lines[p][n] \in Seq(Nat) /\ lines[p][n] # <<>>
        /\ lines' = [lines EXCEPT ![p][n] = Tail(@)]
        /\ reports' = reports /\ local' = local /\ perceived' = perceived
    BY <1>2 DEF Receive, ReceiveNothing, bounds
  <2>2. /\ Tail(lines[p][n]) \in Seq(Nat)
        /\ \A i \in DOMAIN Tail(lines[p][n]) :
              i + 1 \in DOMAIN lines[p][n] /\ Tail(lines[p][n])[i] = lines[p][n][i + 1]
        /\ 1 \in DOMAIN lines[p][n] /\ Head(lines[p][n]) = lines[p][n][1]
    BY <2>1
  <2>3. /\ lines' \in [Nodes -> [Nodes -> Seq(Nat)]]
        /\ \A m, q \in Nodes : \A i \in DOMAIN lines'[q][m] :
              lines'[q][m][i] \in DOMAIN reports[q]
    <3>1. /\ lines'[p][n] = Tail(lines[p][n])
          /\ \A m, q \in Nodes : (q = p /\ m = n) \/ lines'[q][m] = lines[q][m]
      BY <2>1
    <3>2. \A i \in DOMAIN Tail(lines[p][n]) : Tail(lines[p][n])[i] \in DOMAIN reports[p]
      BY <2>2
    <3>3. lines' \in [Nodes -> [Nodes -> Seq(Nat)]]
      BY <2>1, <2>2
    <3> QED  BY <3>1, <3>2, <3>3
  <2>4. Head(lines[p][n]) \in DOMAIN reports[p] /\ Head(lines[p][n]) \in Nat
    BY <2>1, <2>2
  <2>5. \/ views' = views
        \/ views' = [views EXCEPT ![n][p] = Overwrite(reports[p], @, Head(lines[p][n]))]
    BY <1>2 DEF Receive, ReceiveNothing
  <2>6. /\ Overwrite(reports[p], views[n][p], Head(lines[p][n])) \subseteq DOMAIN reports[p]
        /\ Overwrite(reports[p], views[n][p], Head(lines[p][n])) \subseteq Nat
    BY <2>4 DEF Overwrite
  <2>7. /\ views' \in [Nodes -> [Nodes -> SUBSET Nat]]
        /\ \A m, q \in Nodes : views'[m][q] \subseteq DOMAIN reports[q]
    <3> DEFINE new == Overwrite(reports[p], views[n][p], Head(lines[p][n]))
    <3>1. new \in SUBSET Nat /\ new \subseteq DOMAIN reports[p]
      BY <2>6
    <3>2. views' = views \/ views' = [views EXCEPT ![n][p] = new]
      BY <2>5
    <3>0. /\ views \in [Nodes -> [Nodes -> SUBSET Nat]]
          /\ \A m, q \in Nodes : views[m][q] \subseteq DOMAIN reports[q]
      OBVIOUS
    <3> HIDE DEF new, TypeOK, MeshType
    <3> DEFINE Numbers == SUBSET Nat
               row == [views[n] EXCEPT ![p] = new]
    <3>3. views \in [Nodes -> [Nodes -> Numbers]] /\ new \in Numbers
      BY <3>0, <3>1
    <3>4. views' = views \/ views' = [views EXCEPT ![n] = row]
      BY <3>2
    <3> HIDE DEF Numbers
    <3>5. row \in [Nodes -> Numbers]
      BY <3>3
    <3>6. \A q \in Nodes : row[q] = views[n][q] \/ (q = p /\ row[q] = new)
      BY <3>3
    <3> HIDE DEF row
    <3>7. /\ views' \in [Nodes -> [Nodes -> Numbers]]
          /\ \A m \in Nodes : views'[m] = views[m] \/ (m = n /\ views'[m] = row)
      BY <3>3, <3>4, <3>5
    <3>8. \A m, q \in Nodes : views'[m][q] = views[m][q] \/ (q = p /\ views'[m][q] = new)
      BY <3>6, <3>7, Zenon
    <3> QED  BY <3>0, <3>1, <3>7, <3>8, Zenon DEF Numbers
  <2> QED  BY <2>1, <2>3, <2>7
<1>3. CASE ~(\E n \in Nodes : MeshNext(n))
  <2>1. meshVars' = meshVars /\ perceived' = perceived
    BY <1>3, Zenon
       DEF Next, PanelNext, CloudNext, Check, ResolveByRule, ResolveByConsensus, Resolved,
           Escalate, ResetStats, CloudAnswers, CloudEnds, vars, meshVars, bounds
  <2> QED  BY <2>1 DEF meshVars
<1> QED  BY <1>1, <1>2, <1>3, Zenon DEF MeshNext

-----------------------------------------------------------------------------
\* What the three ways to settle a record have in common.
SettleEffect(n, c, m, w) ==
    /\ todo' = [todo EXCEPT ![n] = @ \ {c}]
    /\ verdicts' = [verdicts EXCEPT ![n] = @ \cup {Verdict(c, m, w)}]
    /\ \/ stats' = [stats EXCEPT ![n].resolved = @ + 1]
       \/ stats' = [stats EXCEPT ![n].escalated = @ + 1]
    /\ \/ request' = request
       \/ request' = [request EXCEPT ![n] = c] /\ Ruling(n, c).method = "open"
    /\ frames' = frames
    /\ Follows(n, Verdict(c, m, w))

\* Each of them settles a record of the node as the rules tell.
LEMMA SettleChanges ==
    ASSUME TypeOK, NEW n \in Nodes,
           ResolveByRule(n) \/ ResolveByConsensus(n) \/ Escalate(n)
    PROVE  \E c \in todo[n], m \in Methods, w \in SUBSET Nodes : SettleEffect(n, c, m, w)
<1>1. ASSUME NEW c \in todo[n]
      PROVE  /\ c.peer \in Nodes
             /\ Ruling(n, c).method \in {"confidence", "authority", "open"}
             /\ \A m, w : Ruling(n, Verdict(c, m, w)) = Ruling(n, c)
             /\ \A m, w : Verdict(c, m, w).method = m /\ Verdict(c, m, w).winner = w
             /\ \A m, w : Verdict(c, m, w).peer = c.peer
  <2>1. c \in ConflictRecord /\ Made(n, c)
    BY DEF TypeOK, PanelType
  <2>2. c.peer \in Nodes
    BY <2>1 DEF ConflictRecord
  <2>3. reports[n][c.our] \in Detections /\ reports[c.peer][c.their] \in Detections
    BY <2>1, <2>2 DEF TypeOK, MeshType, Made
  <2>4. Ruling(n, c).method \in {"confidence", "authority", "open"}
    BY <2>3, RulingSymmetric DEF Ruling
  <2>5. \A m, w : Ruling(n, Verdict(c, m, w)) = Ruling(n, c)
    BY DEF Ruling, Verdict
  <2> QED  BY <2>2, <2>4, <2>5 DEF Verdict
<1>2. ASSUME NEW c \in todo[n], NEW m \in Unruled, Ruling(n, c).method = "open"
      PROVE  \A w : Follows(n, Verdict(c, m, w))
  BY <1>1, <1>2 DEF Follows
<1>3. CASE ResolveByRule(n)
  <2>1. PICK c \in todo[n] : /\ Ruling(n, c).method # "open"
                             /\ Resolved(n, c, Ruling(n, c).method, Ruling(n, c).side)
    BY <1>3 DEF ResolveByRule
  <2> DEFINE m == Ruling(n, c).method
             w == IF Ruling(n, c).side = "ours" THEN {n} ELSE {c.peer}
  <2>2. m \in Methods /\ w \in SUBSET Nodes
    BY <1>1, <2>1 DEF Methods
  <2>3. Follows(n, Verdict(c, m, w))
    <3>1. Verdict(c, m, w).method = m /\ Verdict(c, m, w).winner = w
          /\ Verdict(c, m, w).peer = c.peer /\ Ruling(n, Verdict(c, m, w)) = Ruling(n, c)
      BY <1>1
    <3> QED  BY <2>1, <3>1, Zenon DEF Follows
  <2>4. SettleEffect(n, c, m, w)
    BY <2>1, <2>3, Zenon DEF SettleEffect, Resolved, bounds
  <2> QED  BY <2>2, <2>4, Zenon
<1>4. CASE ResolveByConsensus(n)
  <2>1. PICK c \in todo[n] :
            /\ Ruling(n, c).method = "open"
            /\ Resolved(n, c, "consensus", Higher(OurVotes(n, c), TheirVotes(n, c)))
    BY <1>4 DEF ResolveByConsensus
  <2> DEFINE w == IF Higher(OurVotes(n, c), TheirVotes(n, c)) = "ours"
                  THEN {n} ELSE {c.peer}
  <2>2. "consensus" \in Unruled /\ "consensus" \in Methods /\ w \in SUBSET Nodes
    BY <1>1 DEF Methods, Unruled
  <2>3. SettleEffect(n, c, "consensus", w)
    BY <1>2, <2>1, <2>2, Zenon DEF SettleEffect, Resolved, bounds
  <2> QED  BY <2>2, <2>3, Zenon
<1>5. CASE Escalate(n)
  <2>1. PICK c \in todo[n] :
            /\ Ruling(n, c).method = "open"
            /\ todo' = [todo EXCEPT ![n] = @ \ {c}]
            /\ verdicts' = [verdicts EXCEPT ![n] = @ \cup {Verdict(c, "escalated", {})}]
            /\ stats' = [stats EXCEPT ![n].escalated = @ + 1]
            /\ request' = request \/ request' = [request EXCEPT ![n] = c]
            /\ frames' = frames
    BY <1>5, Zenon DEF Escalate, HandOver, bounds
  <2>2. "escalated" \in Unruled /\ "escalated" \in Methods /\ {} \in SUBSET Nodes
    BY DEF Methods, Unruled
  <2>3. SettleEffect(n, c, "escalated", {})
    BY <1>2, <2>1, <2>2, Zenon DEF SettleEffect
  <2> QED  BY <2>2, <2>3, Zenon
<1> QED  BY <1>3, <1>4, <1>5

\* And what the panel and the cloud client hold.
LEMMA PanelTyped ==
    ASSUME TypeOK, [Next]_vars
    PROVE  PanelType'
<1>0. /\ todo \in [Nodes -> SUBSET ConflictRecord]
      /\ stats \in [Nodes -> [detected : Nat, resolved : Nat, escalated : Nat]]
      /\ request \in [Nodes -> ConflictRecord \cup {NoConflict}]
      /\ verdicts \in [Nodes -> SUBSET Settlement]
      /\ frames \in 0..MaxFrames
      /\ \A n \in Nodes : /\ \A c \in todo[n] \cup verdicts[n] : Made(n, c)
                          /\ request[n] # NoConflict => Made(n, request[n])
  BY DEF TypeOK, PanelType
<1>1. \A n \in Nodes : \A c \in ConflictRecord \cup Settlement : Made(n, c) => Made(n, c)'
  BY MadeKept DEF ConflictRecord, Settlement
<1>2. \A c \in ConflictRecord : \A m \in Methods, w \in SUBSET Nodes :
          /\ Verdict(c, m, w) \in Settlement
          /\ \A n \in Nodes : Made(n, c) => Made(n, Verdict(c, m, w))
  <2> TAKE c \in ConflictRecord
  <2> TAKE m \in Methods, w \in SUBSET Nodes
  <2>1. Verdict(c, m, w) \in Settlement
    BY DEF ConflictRecord, Settlement, Verdict, Methods, Unruled
  <2>2. \A n \in Nodes : Made(n, c) => Made(n, Verdict(c, m, w))
    BY DEF Made, Verdict
  <2> QED  BY <2>1, <2>2
<1>3. ASSUME NEW n \in Nodes, NEW c \in todo[n], NEW m \in Methods, NEW w \in SUBSET Nodes,
             SettleEffect(n, c, m, w)
      PROVE  PanelType'
  <2>1. c \in ConflictRecord /\ Made(n, c)
    BY <1>0
  <2>2. todo' \in [Nodes -> SUBSET ConflictRecord]
        /\ \A p \in Nodes : todo'[p] \subseteq todo[p]
    BY <1>0, <1>3, Zenon DEF SettleEffect
  <2>3. stats' \in [Nodes -> [detected : Nat, resolved : Nat, escalated : Nat]]
    BY <1>0, <1>3 DEF SettleEffect
  <2>4. request' \in [Nodes -> ConflictRecord \cup {NoConflict}]
        /\ \A p \in Nodes : request'[p] = request[p] \/ (p = n /\ request'[p] = c)
    BY <1>0, <1>3, <2>1 DEF SettleEffect
  <2>5. verdicts' \in [Nodes -> SUBSET Settlement]
        /\ \A p \in Nodes : \A v \in verdicts'[p] :
              v \in verdicts[p] \/ (p = n /\ v = Verdict(c, m, w))
    <3> DEFINE v == Verdict(c, m, w)
    <3>1. v \in Settlement /\ verdicts' = [verdicts EXCEPT ![n] = @ \cup {v}]
      BY <1>2, <1>3, <2>1, Zenon DEF SettleEffect
    <3> HIDE DEF v
    <3>2. verdicts' \in [Nodes -> SUBSET Settlement]
      BY <1>0, <3>1
    <3>3. \A p \in Nodes : \A x \in verdicts'[p] : x \in verdicts[p] \/ (p = n /\ x = v)
      BY <1>0, <3>1
    <3> QED  BY <3>2, <3>3 DEF v
  <2>6. frames' = frames
    BY <1>3 DEF SettleEffect
  <2>7. ASSUME NEW p \in Nodes, NEW x \in todo'[p] \cup verdicts'[p] PROVE Made(p, x)'
    <3>1. x \in ConflictRecord \cup Settlement
      BY <2>2, <2>5
    <3>2. Made(n, Verdict(c, m, w))
      BY <1>2, <2>1
    <3>3. Made(p, x)
      BY <1>0, <2>2, <2>5, <3>2
    <3> QED  BY <1>1, <3>1, <3>3, Zenon
  <2>8. ASSUME NEW p \in Nodes, request'[p] # NoConflict PROVE Made(p, request[p])'
    <3>1. request'[p] \in ConflictRecord
      BY <2>4, <2>8
    <3>2. Made(p, request'[p])
      BY <1>0, <2>1, <2>4, <2>8, Zenon
    <3> QED  BY <1>1, <3>1, <3>2, Zenon
  <2> QED  BY <1>0, <2>2, <2>3, <2>4, <2>5, <2>6, <2>7, <2>8, Zenon DEF PanelType
<1>4. ASSUME NEW n \in Nodes, Check(n) PROVE PanelType'
  <2> DEFINE C == Conflicts(n)
  <2>1. C \in SUBSET ConflictRecord /\ (\A c \in C : Made(n, c)) /\ IsFiniteSet(C)
    BY ConflictsFinite
  <2>2. Cardinality(C) \in Nat
    BY <2>1, FS_CardinalityType
  <2>3. /\ todo' = [todo EXCEPT ![n] = C]
        /\ stats' = [stats EXCEPT ![n].detected = @ + Cardinality(C)]
        /\ request' = request /\ verdicts' = verdicts
    BY <1>4, Zenon DEF Check
  <2>4. frames' \in 0..MaxFrames
    BY <1>0, <1>4, BoundsAssumption DEF Check
  <2> HIDE DEF C
  <2>5. stats' \in [Nodes -> [detected : Nat, resolved : Nat, escalated : Nat]]
    BY <1>0, <2>2, <2>3
  <2>6. /\ todo' \in [Nodes -> SUBSET ConflictRecord]
        /\ \A p \in Nodes : \A c \in todo'[p] : Made(p, c)
    BY <1>0, <2>1, <2>3
  <2>7. ASSUME NEW p \in Nodes, NEW x \in todo'[p] \cup verdicts'[p] PROVE Made(p, x)'
    <3>1. x \in ConflictRecord \cup Settlement /\ Made(p, x)
      BY <1>0, <2>3, <2>6, Zenon
    <3> QED  BY <1>1, <3>1, Zenon
  <2>8. ASSUME NEW p \in Nodes, request'[p] # NoConflict PROVE Made(p, request[p])'
    BY <1>0, <1>1, <2>3, <2>8, Zenon
  <2> QED  BY <1>0, <2>3, <2>4, <2>5, <2>6, <2>7, <2>8, Zenon DEF PanelType
<1>5. ASSUME NEW n \in Nodes, ResetStats(n) \/ CloudEnds(n) PROVE PanelType'
  <2>1. /\ todo' = todo /\ verdicts' = verdicts /\ frames' = frames
        /\ \/ stats' = stats
           \/ stats' = [stats EXCEPT ![n] =
                          [detected |-> 0, resolved |-> 0, escalated |-> 0]]
        /\ request' = request \/ request' = [request EXCEPT ![n] = NoConflict]
    BY <1>5 DEF ResetStats, CloudEnds, bounds
  <2>2. /\ stats' \in [Nodes -> [detected : Nat, resolved : Nat, escalated : Nat]]
        /\ request' \in [Nodes -> ConflictRecord \cup {NoConflict}]
        /\ \A p \in Nodes : request'[p] = request[p] \/ request'[p] = NoConflict
    BY <1>0, <2>1
  <2>3. ASSUME NEW p \in Nodes, NEW x \in todo'[p] \cup verdicts'[p] PROVE Made(p, x)'
    BY <1>0, <1>1, <2>1, Zenon
  <2>4. ASSUME NEW p \in Nodes, request'[p] # NoConflict PROVE Made(p, request[p])'
    BY <1>0, <1>1, <2>2, <2>4, Zenon
  <2> QED  BY <1>0, <2>1, <2>2, <2>3, <2>4, Zenon DEF PanelType
<1>6. ASSUME NEW n \in Nodes, CloudAnswers(n) PROVE PanelType'
  <2> DEFINE v == Verdict(request[n], "cloud", {})
  <2>1. /\ request[n] # NoConflict /\ verdicts' = [verdicts EXCEPT ![n] = @ \cup {v}]
        /\ todo' = todo /\ stats' = stats /\ request' = request /\ frames' = frames
    BY <1>6, Zenon DEF CloudAnswers, bounds
  <2>2. request[n] \in ConflictRecord /\ Made(n, request[n])
    BY <1>0, <2>1
  <2>3. "cloud" \in Methods /\ {} \in SUBSET Nodes
    BY DEF Methods, Unruled
  <2>4. v \in Settlement /\ Made(n, v)
    BY <1>2, <2>2, <2>3, Zenon
  <2> HIDE DEF v
  <2>5. /\ verdicts' \in [Nodes -> SUBSET Settlement]
        /\ \A p \in Nodes : \A x \in verdicts'[p] : x \in verdicts[p] \/ (p = n /\ x = v)
    BY <1>0, <2>1, <2>4
  <2>6. ASSUME NEW p \in Nodes, NEW x \in todo'[p] \cup verdicts'[p] PROVE Made(p, x)'
    <3>1. Made(p, x) /\ x \in ConflictRecord \cup Settlement
      BY <1>0, <2>1, <2>4, <2>5
    <3> QED  BY <1>1, <3>1, Zenon
  <2>7. ASSUME NEW p \in Nodes, request'[p] # NoConflict PROVE Made(p, request[p])'
    BY <1>0, <1>1, <2>1, <2>7, Zenon
  <2> QED  BY <1>0, <2>1, <2>5, <2>6, <2>7, Zenon DEF PanelType
<1>7. CASE UNCHANGED <<todo, stats, request, frames, verdicts>>
  <2>1. ASSUME NEW p \in Nodes, NEW x \in todo'[p] \cup verdicts'[p] PROVE Made(p, x)'
    BY <1>0, <1>1, <1>7, Zenon
  <2>2. ASSUME NEW p \in Nodes, request'[p] # NoConflict PROVE Made(p, request[p])'
    BY <1>0, <1>1, <1>7, <2>2, Zenon
  <2> QED  BY <1>0, <1>7, <2>1, <2>2, Zenon DEF PanelType
<1>8. \/ UNCHANGED <<todo, stats, request, frames, verdicts>>
      \/ \E n \in Nodes :
            \/ Check(n) \/ ResetStats(n) \/ CloudEnds(n) \/ CloudAnswers(n)
            \/ ResolveByRule(n) \/ ResolveByConsensus(n) \/ Escalate(n)
  BY Zenon DEF Next, MeshNext, PanelNext, CloudNext, Perceive, Receive, ReceiveNothing,
               vars, bounds
<1> QED  BY <1>3, <1>4, <1>5, <1>6, <1>7, <1>8, SettleChanges, Zenon

-----------------------------------------------------------------------------
\* Every step keeps the verdicts in line with the rules.
LEMMA VerdictsStep ==
    ASSUME TypeOK, VerdictsInv, [Next]_vars
    PROVE  VerdictsInv'
<1>1. \A n \in Nodes : \A v \in verdicts[n] : v.peer \in Nodes /\ Made(n, v)
  BY DEF TypeOK, PanelType, Settlement
<1>2. \A n \in Nodes : request[n] # NoConflict =>
          request[n].peer \in Nodes /\ Made(n, request[n])
  BY DEF TypeOK, PanelType, ConflictRecord
<1>3. \A n \in Nodes : \A v \in verdicts[n] : Follows(n, v)'
  <2> SUFFICES ASSUME NEW n \in Nodes, NEW v \in verdicts[n] PROVE Follows(n, v)'
    OBVIOUS
  <2>1. Ruling(n, v)' = Ruling(n, v)
    BY <1>1, MadeKept
  <2>2. Follows(n, v)
    BY DEF VerdictsInv
  <2> QED  BY <2>1, <2>2, Zenon DEF Follows
<1>4. ASSUME NEW n \in Nodes, NEW c, c.peer \in Nodes, Made(n, c),
             Ruling(n, c).method = "open", request'[n] = c
      PROVE  (Ruling(n, request[n]).method = "open")'
  <2>1. Ruling(n, c)' = Ruling(n, c)
    BY <1>4, MadeKept
  <2>2. Ruling(n, request[n])' = Ruling(n, c)'
    BY <1>4, Zenon DEF Ruling
  <2> QED  BY <1>4, <2>1, <2>2, Zenon
<1>5. ASSUME NEW n \in Nodes, request[n] # NoConflict, request'[n] = request[n]
      PROVE  (Ruling(n, request[n]).method = "open")'
  <2>1. PICK c : c = request[n]
    OBVIOUS
  <2>2. c.peer \in Nodes /\ Made(n, c) /\ Ruling(n, c).method = "open"
    BY <1>2, <1>5, <2>1 DEF VerdictsInv
  <2> QED  BY <1>4, <1>5, <2>1, <2>2, Zenon
<1>6. ASSUME NEW n \in Nodes, NEW c \in todo[n], NEW m \in Methods, NEW w \in SUBSET Nodes,
             SettleEffect(n, c, m, w)
      PROVE  VerdictsInv'
  <2>1. c.peer \in Nodes /\ Made(n, c) /\ Made(n, Verdict(c, m, w))
    BY DEF TypeOK, PanelType, ConflictRecord, Made, Verdict
  <2>2. PICK x : x = Verdict(c, m, w)
    OBVIOUS
  <2>3. x.peer \in Nodes /\ Made(n, x) /\ Follows(n, x)
    <3>1. Verdict(c, m, w).peer = c.peer
      BY DEF Verdict
    <3> QED  BY <1>6, <2>1, <2>2, <3>1, Zenon DEF SettleEffect
  <2>4. Follows(n, x)'
    <3>1. Ruling(n, x)' = Ruling(n, x)
      BY <2>3, MadeKept
    <3> QED  BY <2>3, <3>1, Zenon DEF Follows
  <2>5. verdicts' = [verdicts EXCEPT ![n] = @ \cup {x}]
    BY <1>6, <2>2, Zenon DEF SettleEffect
  <2>6. \A p \in Nodes : \A v \in verdicts'[p] : v \in verdicts[p] \/ (p = n /\ v = x)
    BY <2>5 DEF TypeOK, PanelType
  <2>7. \A p \in Nodes : \A v \in verdicts'[p] : Follows(p, v)'
    BY <1>3, <2>4, <2>6, Zenon
  <2>8. ASSUME NEW p \in Nodes, request'[p] # NoConflict
        PROVE  (Ruling(p, request[p]).method = "open")'
    <3>1. \/ request'[p] = request[p]
          \/ p = n /\ request'[p] = c /\ Ruling(n, c).method = "open"
      BY <1>6 DEF SettleEffect, TypeOK, PanelType
    <3> QED  BY <1>4, <1>5, <2>1, <2>8, <3>1
  <2> QED  BY <2>7, <2>8, Zenon DEF VerdictsInv
<1>7. ASSUME NEW n \in Nodes, CloudAnswers(n) PROVE VerdictsInv'
  <2>1. PICK c : c = request[n]
    OBVIOUS
  <2>2. PICK x : x = Verdict(c, "cloud", {})
    OBVIOUS
  <2>3. /\ c # NoConflict /\ request' = request
        /\ verdicts' = [verdicts EXCEPT ![n] = @ \cup {x}]
    BY <1>7, <2>1, <2>2, Zenon DEF CloudAnswers
  <2>4. c.peer \in Nodes /\ Made(n, c) /\ Ruling(n, c).method = "open"
    BY <1>2, <2>1, <2>3 DEF VerdictsInv
  <2>5. Ruling(n, x) = Ruling(n, c) /\ x.method = "cloud" /\ x.peer = c.peer /\ Made(n, x)
    BY <2>2, <2>4 DEF Ruling, Verdict, Made
  <2>6. Follows(n, x)'
    <3>1. Ruling(n, x)' = Ruling(n, x)
      BY <2>4, <2>5, MadeKept
    <3>2. Ruling(n, x)'.method = "open" /\ x.method \in Unruled
      BY <2>4, <2>5, <3>1 DEF Unruled
    <3> QED  BY <3>2, Zenon DEF Follows
  <2>7. \A p \in Nodes : \A v \in verdicts'[p] : v \in verdicts[p] \/ (p = n /\ v = x)
    BY <2>3 DEF TypeOK, PanelType
  <2>8. \A p \in Nodes : \A v \in verdicts'[p] : Follows(p, v)'
    BY <1>3, <2>6, <2>7, Zenon
  <2>9. ASSUME NEW p \in Nodes, request'[p] # NoConflict
        PROVE  (Ruling(p, request[p]).method = "open")'
    BY <1>5, <2>3, <2>9
  <2> QED  BY <2>8, <2>9, Zenon DEF VerdictsInv
<1>8. CASE \/ UNCHANGED <<verdicts, request>>
           \/ \E n \in Nodes : CloudEnds(n)
  <2>1. /\ verdicts' = verdicts
        /\ \A p \in Nodes : request'[p] = request[p] \/ request'[p] = NoConflict
    BY <1>8 DEF CloudEnds, TypeOK, PanelType
  <2>2. \A p \in Nodes : \A v \in verdicts'[p] : Follows(p, v)'
    BY <1>3, <2>1, Zenon
  <2>3. ASSUME NEW p \in Nodes, request'[p] # NoConflict
        PROVE  (Ruling(p, request[p]).method = "open")'
    BY <1>5, <2>1, <2>3
  <2> QED  BY <2>2, <2>3, Zenon DEF VerdictsInv
<1>9. \/ UNCHANGED <<verdicts, request>>
      \/ \E n \in Nodes : \/ CloudEnds(n) \/ CloudAnswers(n)
                          \/ ResolveByRule(n) \/ ResolveByConsensus(n) \/ Escalate(n)
  BY Zenon DEF Next, MeshNext, PanelNext, CloudNext, Perceive, Receive, ReceiveNothing,
               Check, ResetStats, vars
<1> QED  BY <1>6, <1>7, <1>8, <1>9, SettleChanges, Zenon

-----------------------------------------------------------------------------
\* A connection stays in order, and ahead of what its receiver has seen.
LEMMA LinesStep ==
    ASSUME TypeOK, LinesInv, [Next]_vars
    PROVE  LinesInv'
<1> DEFINE InOrder(q) == \A i, j \in DOMAIN q : i < j => q[i] < q[j]
           After(K, q) == \A k \in K : \A i \in DOMAIN q : k < q[i]
<1>0. \A m, q \in Nodes : /\ lines[q][m] \in Seq(Nat) /\ views[m][q] \subseteq Nat
                          /\ InOrder(lines[q][m]) /\ After(views[m][q], lines[q][m])
  BY DEF TypeOK, MeshType, LinesInv
<1>1. ASSUME NEW n \in Nodes, Perceive(n) PROVE LinesInv'
  <2>1. PICK d \in Detections, reached \in SUBSET Nodes : PerceiveEffect(n, d, reached)
    BY <1>1, PerceiveChanges
  <2> DEFINE k == Len(reports[n]) + 1
  <2>2. /\ k \in Nat
        /\ \A m \in Nodes : \A i \in DOMAIN lines[n][m] : lines[n][m][i] < k
        /\ \A m \in Nodes : \A j \in views[m][n] : j < k
    <3>1. reports[n] \in Seq(Detections)
      BY DEF TypeOK, MeshType
    <3>2. k \in Nat /\ \A j \in DOMAIN reports[n] : j < k
      BY <3>1
    <3> QED  BY <3>2 DEF TypeOK, MeshType
  <2>3. views' = views
    BY <1>1 DEF Perceive
  <2>4. \A m, q \in Nodes : \/ lines'[q][m] = lines[q][m]
                            \/ q = n /\ lines'[q][m] = Append(lines[q][m], k)
    BY <2>1 DEF PerceiveEffect, TypeOK, MeshType
  <2> HIDE DEF k
  <2>5. ASSUME NEW m \in Nodes, lines'[n][m] = Append(lines[n][m], k)
        PROVE  InOrder(lines'[n][m]) /\ After(views[m][n], lines'[n][m])
    <3> DEFINE q == lines[n][m]
    <3>1. /\ q \in Seq(Nat) /\ InOrder(q) /\ After(views[m][n], q)
          /\ \A i \in DOMAIN q : q[i] < k
          /\ \A j \in views[m][n] : j < k
      BY <1>0, <2>2
    <3> HIDE DEF q
    <3>2. /\ \A i \in DOMAIN Append(q, k) : i \in DOMAIN q \/ i = Len(q) + 1
          /\ \A i \in DOMAIN q : Append(q, k)[i] = q[i] /\ i < Len(q) + 1
          /\ Append(q, k)[Len(q) + 1] = k /\ Len(q) \in Nat
          /\ \A i \in DOMAIN q : i \in Nat
      BY <2>2, <3>1
    <3>3. ASSUME NEW i \in DOMAIN Append(q, k), NEW j \in DOMAIN Append(q, k), i < j
          PROVE  Append(q, k)[i] < Append(q, k)[j]
      <4>1. CASE i \in DOMAIN q /\ j \in DOMAIN q
        BY <3>1, <3>2, <3>3, <4>1
      <4>2. CASE i \in DOMAIN q /\ j = Len(q) + 1
        BY <3>1, <3>2, <4>2
      <4>3. CASE i = Len(q) + 1
        BY <3>2, <3>3, <4>3
      <4> QED  BY <3>2, <4>1, <4>2, <4>3
    <3>4. After(views[m][n], Append(q, k))
      BY <3>1, <3>2
    <3> QED  BY <2>5, <3>3, <3>4 DEF q
  <2> QED  BY <1>0, <2>3, <2>4, <2>5 DEF LinesInv
<1>2. ASSUME NEW n \in Nodes, NEW p \in Nodes, Receive(n, p) \/ ReceiveNothing(n, p)
      PROVE  LinesInv'
  <2> DEFINE q == lines[p][n]
  <2>1. /\ q \in Seq(Nat) /\ q # <<>> /\ InOrder(q) /\ After(views[n][p], q)
    BY <1>0, <1>2 DEF Receive, ReceiveNothing
  <2>2. \A m, r \in Nodes : \/ lines'[r][m] = lines[r][m] /\ (r # p \/ m # n)
                            \/ r = p /\ m = n /\ lines'[r][m] = Tail(q)
    <3> DEFINE new == Tail(q)
    <3>1. lines' = [lines EXCEPT ![p][n] = new]
      BY <1>2 DEF Receive, ReceiveNothing
    <3> HIDE DEF q, new
    <3>2. \A m, r \in Nodes :
              lines'[r][m] = IF r = p /\ m = n THEN new ELSE lines[r][m]
      BY <3>1 DEF TypeOK, MeshType
    <3> QED  BY <3>2 DEF new
  <2>3. \A m, r \in Nodes :
            \/ views'[m][r] = views[m][r]
            \/ r = p /\ m = n /\ views'[m][r] \subseteq views[m][r] \cup {Head(q)}
    <3>1. Overwrite(reports[p], views[n][p], Head(q)) \subseteq views[n][p] \cup {Head(q)}
      BY DEF Overwrite
    <3> DEFINE new == Overwrite(reports[p], views[n][p], Head(q))
    <3>2. views' = views \/ views' = [views EXCEPT ![n][p] = new]
      BY <1>2 DEF Receive, ReceiveNothing
    <3> HIDE DEF q, new
    <3>3. ASSUME NEW m \in Nodes, NEW r \in Nodes
          PROVE  \/ views'[m][r] = views[m][r]
                 \/ r = p /\ m = n /\ views'[m][r] = new
      <4>1. CASE views' = views
        BY <4>1
      <4>2. CASE views' = [views EXCEPT ![n][p] = new]
        BY <4>2 DEF TypeOK, MeshType
      <4> QED  BY <3>2, <4>1, <4>2
    <3> QED  BY <3>1, <3>3, Zenon DEF new
  <2> HIDE DEF q
  <2>4. /\ \A i \in DOMAIN Tail(q) : /\ i + 1 \in DOMAIN q /\ Tail(q)[i] = q[i + 1]
                                     /\ i \in Nat /\ 1 < i + 1
        /\ 1 \in DOMAIN q /\ Head(q) = q[1]
    BY <2>1
  <2>5. InOrder(Tail(q)) /\ After(views[n][p] \cup {Head(q)}, Tail(q))
    <3>1. InOrder(Tail(q))
      BY <2>1, <2>4
    <3>2. After(views[n][p], Tail(q))
      BY <2>1, <2>4
    <3>3. \A i \in DOMAIN Tail(q) : Head(q) < Tail(q)[i]
      BY <2>1, <2>4
    <3> QED  BY <3>1, <3>2, <3>3
  <2>6. ASSUME NEW m \in Nodes, NEW r \in Nodes
        PROVE  InOrder(lines'[r][m]) /\ After(views'[m][r], lines'[r][m])
    <3>1. CASE r = p /\ m = n
      <4>1. lines'[r][m] = Tail(q) /\ views'[m][r] \subseteq views[n][p] \cup {Head(q)}
        BY <2>2, <2>3, <3>1
      <4> QED  BY <2>5, <4>1
    <3>2. CASE r # p \/ m # n
      BY <1>0, <2>2, <2>3, <3>2
    <3> QED  BY <3>1, <3>2
  <2> QED  BY <2>6 DEF LinesInv
<1>3. CASE ~(\E n \in Nodes : MeshNext(n))
  <2>1. views' = views /\ lines' = lines
    BY <1>3, Zenon
       DEF Next, PanelNext, CloudNext, Check, ResolveByRule, ResolveByConsensus, Resolved,
           Escalate, ResetStats, CloudAnswers, CloudEnds, vars, meshVars
  <2> QED  BY <2>1 DEF LinesInv
<1> QED  BY <1>1, <1>2, <1>3, Zenon DEF MeshNext

-----------------------------------------------------------------------------
\* Every step keeps the panel's figures in balance.
LEMMA CountsStep ==
    ASSUME TypeOK, FiniteInv, CountsBalance, [Next]_vars
    PROVE  FiniteInv' /\ CountsBalance'
<1>0. /\ todo \in [Nodes -> SUBSET ConflictRecord]
      /\ stats \in [Nodes -> [detected : Nat, resolved : Nat, escalated : Nat]]
      /\ \A n \in Nodes : IsFiniteSet(todo[n]) /\ Cardinality(todo[n]) \in Nat
      /\ \A n \in Nodes :
            stats[n].detected = stats[n].resolved + stats[n].escalated + Cardinality(todo[n])
  BY FS_CardinalityType DEF TypeOK, PanelType, FiniteInv, CountsBalance
<1>1. ASSUME NEW n \in Nodes, NEW c \in todo[n], NEW m \in Methods, NEW w \in SUBSET Nodes,
             SettleEffect(n, c, m, w)
      PROVE  FiniteInv' /\ CountsBalance'
  <2>1. /\ IsFiniteSet(todo[n] \ {c})
        /\ Cardinality(todo[n] \ {c}) = Cardinality(todo[n]) - 1
    BY <1>0, FS_RemoveElement
  <2>2. todo'[n] = todo[n] \ {c} /\ \A p \in Nodes \ {n} : todo'[p] = todo[p]
    BY <1>0, <1>1 DEF SettleEffect
  <2>3. /\ stats'[n].detected = stats[n].detected
        /\ stats'[n].resolved + stats'[n].escalated =
              stats[n].resolved + stats[n].escalated + 1
        /\ \A p \in Nodes \ {n} : stats'[p] = stats[p]
    BY <1>0, <1>1 DEF SettleEffect
  <2>4. stats'[n].detected =
            stats'[n].resolved + stats'[n].escalated + Cardinality(todo'[n])
    <3>1. /\ stats[n].detected \in Nat /\ stats[n].resolved \in Nat
          /\ stats[n].escalated \in Nat
      BY <1>0
    <3> QED  BY <1>0, <2>1, <2>2, <2>3, <3>1
  <2>5. \A p \in Nodes \ {n} : stats'[p].detected =
            stats'[p].resolved + stats'[p].escalated + Cardinality(todo'[p])
    BY <1>0, <2>2, <2>3, Zenon
  <2>6. CountsBalance'
    BY <2>4, <2>5, Zenon DEF CountsBalance
  <2>7. FiniteInv'
    BY <1>0, <2>1, <2>2, Zenon DEF FiniteInv
  <2> QED  BY <2>6, <2>7
<1>2. ASSUME NEW n \in Nodes, Check(n) PROVE FiniteInv' /\ CountsBalance'
  <2> DEFINE C == Conflicts(n)
  <2>1. IsFiniteSet(C) /\ Cardinality(C) \in Nat
    BY ConflictsFinite, FS_CardinalityType
  <2>2. /\ todo[n] = {} /\ todo' = [todo EXCEPT ![n] = C]
        /\ stats' = [stats EXCEPT ![n].detected = @ + Cardinality(C)]
    BY <1>2, Zenon DEF Check
  <2> HIDE DEF C
  <2>3. Cardinality(todo[n]) = 0
    BY <2>2, FS_EmptySet
  <2>4. todo'[n] = C /\ \A p \in Nodes \ {n} : todo'[p] = todo[p]
    BY <1>0, <2>2
  <2>5. /\ stats'[n].detected = stats[n].detected + Cardinality(C)
        /\ stats'[n].resolved = stats[n].resolved
        /\ stats'[n].escalated = stats[n].escalated
        /\ \A p \in Nodes \ {n} : stats'[p] = stats[p]
    BY <1>0, <2>2
  <2>6. stats'[n].detected =
            stats'[n].resolved + stats'[n].escalated + Cardinality(todo'[n])
    <3>1. /\ stats[n].detected \in Nat /\ stats[n].resolved \in Nat
          /\ stats[n].escalated \in Nat
      BY <1>0
    <3> QED  BY <1>0, <2>1, <2>3, <2>4, <2>5, <3>1
  <2>7. \A p \in Nodes \ {n} : stats'[p].detected =
            stats'[p].resolved + stats'[p].escalated + Cardinality(todo'[p])
    BY <1>0, <2>4, <2>5, Zenon
  <2>8. CountsBalance'
    BY <2>6, <2>7, Zenon DEF CountsBalance
  <2>9. FiniteInv'
    BY <1>0, <2>1, <2>4, Zenon DEF FiniteInv
  <2> QED  BY <2>8, <2>9
<1>3. ASSUME NEW n \in Nodes, ResetStats(n) PROVE FiniteInv' /\ CountsBalance'
  <2>1. /\ todo[n] = {} /\ todo' = todo
        /\ stats' = [stats EXCEPT ![n] = [detected |-> 0, resolved |-> 0, escalated |-> 0]]
    BY <1>3 DEF ResetStats
  <2>2. Cardinality(todo[n]) = 0
    BY <2>1, FS_EmptySet
  <2>3. FiniteInv'
    BY <1>0, <2>1 DEF FiniteInv
  <2>4. CountsBalance'
    BY <1>0, <2>1, <2>2 DEF CountsBalance
  <2> QED  BY <2>3, <2>4
<1>4. CASE UNCHANGED <<todo, stats>>
  BY <1>4 DEF FiniteInv, CountsBalance
<1>5. \/ UNCHANGED <<todo, stats>>
      \/ \E n \in Nodes : \/ Check(n) \/ ResetStats(n)
                          \/ ResolveByRule(n) \/ ResolveByConsensus(n) \/ Escalate(n)
  BY Zenon DEF Next, MeshNext, PanelNext, CloudNext, Perceive, Receive, ReceiveNothing,
               CloudAnswers, CloudEnds, vars
<1> QED  BY <1>1, <1>2, <1>3, <1>4, <1>5, SettleChanges, Zenon

-----------------------------------------------------------------------------
(* The theorems.                                                           *)

\* The inductive invariant.
THEOREM Invariance == Spec => []IInv
<1>1. IInv /\ [Next]_vars => IInv'
  BY MeshTyped, PanelTyped, VerdictsStep, LinesStep, CountsStep, Zenon DEF IInv, TypeOK
<1> QED  BY InitInv, <1>1, PTL DEF Spec

\* Caches, connections, records and verdicts refer to reports that were made.
THEOREM TypeCorrect == Spec => []TypeOK
<1>1. IInv => TypeOK
  BY DEF IInv
<1> QED  BY Invariance, <1>1, PTL

\* Every counted conflict is settled, escalated or still to do, exactly once.
THEOREM CountsBalanceAlways == Spec => []CountsBalance
<1>1. IInv => CountsBalance
  BY DEF IInv
<1> QED  BY Invariance, <1>1, PTL

\* Two nodes settle the conflict between the same two reports alike.
THEOREM NodesAgreeAlways == Spec => []NodesAgree
<1>1. ASSUME TypeOK, VerdictsInv PROVE NodesAgree
  <2> SUFFICES ASSUME NEW m \in Nodes, NEW n \in Nodes,
                      NEW v \in verdicts[m], NEW w \in verdicts[n],
                      v.peer = n, w.peer = m, v.our = w.their, v.their = w.our,
                      v.method \in {"confidence", "authority"}
               PROVE  w.method = v.method /\ w.winner = v.winner
    BY DEF NodesAgree
  <2> DEFINE a == reports[m][v.our]
             b == reports[n][v.their]
  <2>1. a \in Detections /\ b \in Detections
    BY <1>1 DEF TypeOK, MeshType, PanelType, Made
  <2>2. Ruling(m, v) = RulingOf(a, b) /\ Ruling(n, w) = RulingOf(b, a)
    BY DEF Ruling
  <2>3. Follows(m, v) /\ Follows(n, w)
    BY <1>1 DEF VerdictsInv
  <2> HIDE DEF a, b
  <2>4. /\ RulingOf(a, b).method # "open"
        /\ v.method = RulingOf(a, b).method
        /\ v.winner = IF RulingOf(a, b).side = "ours" THEN {m} ELSE {n}
    BY <2>2, <2>3 DEF Follows, Unruled
  <2>5. /\ RulingOf(b, a).method = RulingOf(a, b).method
        /\ (RulingOf(b, a).side = "ours") <=> (RulingOf(a, b).side # "ours")
    BY <2>1, <2>4, RulingSymmetric
  <2>6. /\ w.method = RulingOf(b, a).method
        /\ w.winner = IF RulingOf(b, a).side = "ours" THEN {n} ELSE {m}
    BY <2>2, <2>3, <2>4, <2>5 DEF Follows
  <2> QED  BY <2>4, <2>5, <2>6
<1>2. IInv => NodesAgree
  BY <1>1 DEF IInv
<1> QED  BY Invariance, <1>2, PTL

\* What a node believes of a target of a peer never goes back.
THEOREM ViewsAdvanceAlways == Spec => ViewsAdvance
<1> DEFINE Advance ==
        \A n, p \in Nodes : \A j \in views[n][p] : \E k \in views'[n][p] :
            k >= j /\ reports[p][k].target = reports[p][j].target
<1>1. ASSUME TypeOK, LinesInv, Next PROVE Advance
  <2>0. \A n, p \in Nodes : views[n][p] \subseteq Nat
    BY <1>1 DEF TypeOK, MeshType
  <2>1. ASSUME NEW n \in Nodes, NEW p \in Nodes, Receive(n, p) PROVE Advance
    <3> DEFINE h == Head(lines[p][n])
               new == Overwrite(reports[p], views[n][p], h)
    <3>1. views' = [views EXCEPT ![n][p] = new]
      BY <2>1 DEF Receive
    <3>2. h \in Nat /\ \A j \in views[n][p] : h >= j
      <4> DEFINE q == lines[p][n]
      <4>1. q \in Seq(Nat) /\ q # <<>> /\ \A j \in views[n][p] : \A i \in DOMAIN q : j < q[i]
        BY <1>1, <2>1 DEF Receive, TypeOK, MeshType, LinesInv
      <4> HIDE DEF q
      <4>2. 1 \in DOMAIN q /\ Head(q) = q[1] /\ Head(q) \in Nat
        BY <4>1
      <4>3. \A j \in views[n][p] : Head(q) >= j
        BY <2>0, <4>1, <4>2
      <4> QED  BY <4>2, <4>3 DEF q
    <3>3. ASSUME NEW j \in views[n][p]
          PROVE  \E k \in new : k >= j /\ reports[p][k].target = reports[p][j].target
      <4>1. j \in Nat /\ j >= j
        BY <2>0
      <4>2. CASE reports[p][j].target = reports[p][h].target
        <5>1. h \in new
          BY DEF Overwrite
        <5> QED  BY <3>2, <4>2, <5>1, Zenon
      <4>3. CASE reports[p][j].target # reports[p][h].target
        <5>1. j \in new
          BY <4>3 DEF Overwrite
        <5> QED  BY <4>1, <5>1, Zenon
      <4> QED  BY <4>2, <4>3
    <3> HIDE DEF new, h
    <3>4. \A m, r \in Nodes : views'[m][r] = IF m = n /\ r = p THEN new ELSE views[m][r]
      BY <1>1, <3>1 DEF TypeOK, MeshType
    <3>5. ASSUME NEW m \in Nodes, NEW r \in Nodes, NEW j \in views[m][r]
          PROVE  \E k \in views'[m][r] :
                     k >= j /\ reports[r][k].target = reports[r][j].target
      <4>1. CASE m = n /\ r = p
        BY <3>3, <3>4, <4>1, Zenon
      <4>2. CASE ~(m = n /\ r = p)
        <5>1. j \in views'[m][r] /\ j >= j
          BY <2>0, <3>4, <4>2
        <5> QED  BY <5>1, Zenon
      <4> QED  BY <4>1, <4>2
    <3> QED  BY <3>5
  <2>2. CASE ~(\E n, p \in Nodes : Receive(n, p))
    <3>1. views' = views
      BY <1>1, <2>2, Zenon
         DEF Next, MeshNext, PanelNext, CloudNext, Perceive, ReceiveNothing, Check,
             ResolveByRule, ResolveByConsensus, Resolved, Escalate, ResetStats,
             CloudAnswers, CloudEnds, meshVars
    <3>2. \A n, p \in Nodes : \A j \in views[n][p] : j >= j
      BY <2>0
    <3> QED  BY <3>1, <3>2, Zenon
  <2> QED  BY <2>1, <2>2
<1>2. IInv /\ [Next]_vars => [Advance]_vars
  BY <1>1 DEF IInv
<1> QED  BY Invariance, <1>2, PTL DEF Spec, ViewsAdvance

-----------------------------------------------------------------------------
(* One report per target, and whose report a ballot is held on.            *)

\* The cache has one entry per target.
Single(rs, cache) == \A j, k \in cache : rs[j].target = rs[k].target => j = k

\* _local_cache and _peer_cache, which the code keys by target, hold one report on
\* a target, although targets are names that reports of any age share.
CachesSingle ==
    \A n \in Nodes :
        /\ Single(reports[n], local[n])
        /\ \A p \in Nodes : Single(reports[p], views[n][p])

\* A node's cache holds its latest report on every target it ever reported.
OwnLatest ==
    \A n \in Nodes : \A j \in DOMAIN reports[n] : \E k \in local[n] :
        k >= j /\ reports[n][k].target = reports[n][j].target

\* The report of its own that a node puts to the ballot on a conflict is its latest
\* on that target, no older than the one the conflict was found with.
OwnIsLatest ==
    \A n \in Nodes : \A c \in todo[n] : \E k \in DOMAIN reports[n] :
        /\ OwnOf(n, c) = reports[n][k] /\ k >= c.our
        /\ \A j \in DOMAIN reports[n] :
              reports[n][j].target = reports[n][c.our].target => j <= k

\* An overwritten cache has one entry per target again, and one for every target
\* it had one for.
LEMMA OverwriteKeeps ==
    ASSUME NEW rs, NEW cache, NEW k
    PROVE  /\ Single(rs, cache) => Single(rs, Overwrite(rs, cache, k))
           /\ k \in Overwrite(rs, cache, k)
           /\ \A j \in cache : \/ rs[j].target = rs[k].target
                               \/ j \in Overwrite(rs, cache, k)
BY DEF Single, Overwrite

\* Both facts hold in every state: a new report and a received one overwrite the
\* entry of their target (submit_local_perception, receive_peer_perception).
THEOREM CachesSingleAlways == Spec => [](CachesSingle /\ OwnLatest)
<1>1. Init => CachesSingle /\ OwnLatest
  BY DEF Init, CachesSingle, OwnLatest, Single
<1>2. ASSUME TypeOK, CachesSingle, OwnLatest, [Next]_vars
      PROVE  CachesSingle' /\ OwnLatest'
  <2>1. /\ \A n \in Nodes : local[n] \subseteq DOMAIN reports[n]
        /\ \A n, p \in Nodes : views[n][p] \subseteq DOMAIN reports[p]
        /\ reports \in [Nodes -> Seq(Detections)]
        /\ \A n \in Nodes : local[n] \subseteq Nat
        /\ local \in [Nodes -> SUBSET Nat] /\ views \in [Nodes -> [Nodes -> SUBSET Nat]]
    BY <1>2 DEF TypeOK, MeshType
  <2>2. ASSUME NEW n \in Nodes, Perceive(n) PROVE CachesSingle' /\ OwnLatest'
    <3>1. PICK d \in Detections, reached \in SUBSET Nodes : PerceiveEffect(n, d, reached)
      BY <2>2, PerceiveChanges
    <3> DEFINE k == Len(reports[n]) + 1
               new == Overwrite(reports'[n], local[n], k)
    <3>2. views' = views
      BY <2>2 DEF Perceive
    <3>3. \A p \in Nodes : \A j \in DOMAIN reports[p] : reports'[p][j] = reports[p][j]
      BY <1>2, ReportsKept
    <3>4. /\ DOMAIN reports'[n] = DOMAIN reports[n] \cup {k}
          /\ k \in Nat /\ \A j \in DOMAIN reports[n] : k >= j
          /\ \A p \in Nodes \ {n} : reports'[p] = reports[p]
      <4>1. reports[n] \in Seq(Detections)
        BY <2>1
      <4> QED  BY <2>1, <3>1, <4>1 DEF PerceiveEffect
    <3>5. local'[n] = new /\ \A p \in Nodes \ {n} : local'[p] = local[p]
      BY <2>1, <3>1 DEF PerceiveEffect
    <3> HIDE DEF k
    <3>6. Single(reports'[n], local[n])
      BY <1>2, <2>1, <3>3, Zenon DEF CachesSingle, Single
    <3>7. /\ Single(reports'[n], new) /\ k \in new
          /\ \A j \in local[n] : reports'[n][j].target = reports'[n][k].target \/ j \in new
      BY <3>6, OverwriteKeeps
    <3> HIDE DEF new
    <3>8. ASSUME NEW m \in Nodes PROVE Single(reports'[m], local'[m])
      <4>1. CASE m = n
        BY <3>5, <3>7, <4>1
      <4>2. CASE m # n
        BY <1>2, <3>4, <3>5, <4>2, Zenon DEF CachesSingle
      <4> QED  BY <4>1, <4>2
    <3>9. ASSUME NEW m \in Nodes, NEW p \in Nodes PROVE Single(reports'[p], views'[m][p])
      <4>1. Single(reports[p], views[m][p])
        BY <1>2 DEF CachesSingle
      <4> QED  BY <2>1, <3>2, <3>3, <4>1, Zenon DEF Single
    <3>10. ASSUME NEW m \in Nodes, NEW j \in DOMAIN reports'[m]
           PROVE  \E i \in local'[m] : i >= j /\ reports'[m][i].target = reports'[m][j].target
      <4>1. CASE m # n
        <5>1. reports'[m] = reports[m] /\ local'[m] = local[m]
          BY <3>4, <3>5, <4>1
        <5>2. \E i \in local[m] : i >= j /\ reports[m][i].target = reports[m][j].target
          BY <1>2, <5>1 DEF OwnLatest
        <5> QED  BY <5>1, <5>2, Zenon
      <4>2. CASE m = n /\ j = k
        <5>1. k >= k
          BY <3>4
        <5> QED  BY <3>5, <3>7, <4>2, <5>1
      <4>3. CASE m = n /\ j # k
        <5>1. j \in DOMAIN reports[n]
          BY <3>4, <4>3
        <5>2. PICK i \in local[n] : i >= j /\ reports[n][i].target = reports[n][j].target
          BY <1>2, <5>1 DEF OwnLatest
        <5>3. /\ reports'[n][i].target = reports'[n][j].target
              /\ i \in DOMAIN reports[n]
          BY <2>1, <3>3, <5>1, <5>2
        <5>4. CASE reports'[n][i].target = reports'[n][k].target
          <6>1. k >= j
            BY <3>4, <5>1
          <6> QED  BY <3>5, <3>7, <4>3, <5>3, <5>4, <6>1, Zenon
        <5>5. CASE i \in new
          BY <3>5, <4>3, <5>2, <5>3, <5>5, Zenon
        <5> QED  BY <3>7, <5>4, <5>5
      <4> QED  BY <4>1, <4>2, <4>3
    <3> QED  BY <3>8, <3>9, <3>10 DEF CachesSingle, OwnLatest
  <2>3. ASSUME NEW n \in Nodes, NEW p \in Nodes, Receive(n, p)
        PROVE  CachesSingle' /\ OwnLatest'
    <3> DEFINE new == Overwrite(reports[p], views[n][p], Head(lines[p][n]))
    <3>1. views' = [views EXCEPT ![n][p] = new] /\ reports' = reports /\ local' = local
      BY <2>3 DEF Receive
    <3>2. Single(reports[p], new)
      BY <1>2, OverwriteKeeps DEF CachesSingle
    <3> HIDE DEF new
    <3>3. \A m, q \in Nodes : views'[m][q] = IF m = n /\ q = p THEN new ELSE views[m][q]
      BY <2>1, <3>1
    <3>4. ASSUME NEW m \in Nodes, NEW q \in Nodes PROVE Single(reports[q], views'[m][q])
      <4>1. CASE m = n /\ q = p
        BY <3>2, <3>3, <4>1, Zenon
      <4>2. CASE ~(m = n /\ q = p)
        BY <1>2, <3>3, <4>2 DEF CachesSingle
      <4> QED  BY <4>1, <4>2
    <3>5. CachesSingle'
      BY <1>2, <3>1, <3>4, Zenon DEF CachesSingle
    <3>6. OwnLatest'
      BY <1>2, <3>1 DEF OwnLatest
    <3> QED  BY <3>5, <3>6
  <2>4. CASE ~(\E n \in Nodes : Perceive(n) \/ \E p \in Nodes : Receive(n, p))
    <3>1. reports' = reports /\ local' = local /\ views' = views
      BY <1>2, <2>4, Zenon
         DEF Next, MeshNext, PanelNext, CloudNext, ReceiveNothing, Check, ResolveByRule,
             ResolveByConsensus, Resolved, Escalate, ResetStats, CloudAnswers, CloudEnds,
             vars, meshVars
    <3> QED  BY <1>2, <3>1 DEF CachesSingle, OwnLatest
  <2> QED  BY <2>2, <2>3, <2>4
<1> QED  BY <1>1, <1>2, TypeCorrect, PTL DEF Spec

\* Between the check that found a conflict and its settlement the node may report
\* again: the ballot of resolve_by_consensus is then held on the newer report.
THEOREM OwnIsLatestAlways == Spec => []OwnIsLatest
<1>1. ASSUME TypeOK, CachesSingle, OwnLatest PROVE OwnIsLatest
  <2> SUFFICES ASSUME NEW n \in Nodes, NEW c \in todo[n]
               PROVE  \E k \in DOMAIN reports[n] :
                        /\ OwnOf(n, c) = reports[n][k] /\ k >= c.our
                        /\ \A j \in DOMAIN reports[n] :
                              reports[n][j].target = reports[n][c.our].target => j <= k
    BY DEF OwnIsLatest
  <2> DEFINE target(j) == reports[n][j].target
             k == CHOOSE j \in local[n] : target(j) = target(c.our)
  <2>1. /\ c.our \in DOMAIN reports[n] /\ local[n] \subseteq DOMAIN reports[n]
        /\ DOMAIN reports[n] \subseteq Nat
    BY <1>1 DEF TypeOK, MeshType, PanelType, Made
  <2>2. OwnOf(n, c) = reports[n][k]
    BY DEF OwnOf
  <2>3. \A j \in DOMAIN reports[n] : \E i \in local[n] : i >= j /\ target(i) = target(j)
    BY <1>1 DEF OwnLatest
  <2>4. \A i, j \in local[n] : target(i) = target(j) => i = j
    BY <1>1 DEF CachesSingle, Single
  <2> HIDE DEF target
  <2>5. k \in local[n] /\ target(k) = target(c.our)
    BY <2>1, <2>3
  <2> HIDE DEF k
  <2>6. ASSUME NEW j \in DOMAIN reports[n], target(j) = target(c.our) PROVE j <= k
    <3>1. PICK i \in local[n] : i >= j /\ target(i) = target(j)
      BY <2>3
    <3>2. i = k
      BY <2>4, <2>5, <2>6, <3>1
    <3> QED  BY <2>1, <2>5, <3>1, <3>2
  <2>7. k \in DOMAIN reports[n] /\ k >= c.our
    BY <2>1, <2>5, <2>6
  <2> QED  BY <2>2, <2>6, <2>7 DEF target
<1> QED  BY <1>1, CachesSingleAlways, TypeCorrect, PTL
=============================================================================
