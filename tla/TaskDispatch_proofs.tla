------------------------ MODULE TaskDispatch_proofs ------------------------
(***************************************************************************)
(* Proofs about TaskDispatch for any set of heartbeat situations and any   *)
(* number of tasks: the type invariant, that a task is in exactly one      *)
(* place and only moves forward, the order of the queues and that only a   *)
(* more urgent task overtakes another, and that the channel implements     *)
(* TaskDelivery.                                                           *)
(***************************************************************************)
EXTENDS TaskDispatch, TLAPS, FiniteSetTheorems, SequenceTheorems, WellFoundedInduction

-----------------------------------------------------------------------------
(* The stable insertion that both queues are kept sorted with.             *)

IsCut(ts, q, i, k) ==
    \A n \in DOMAIN q : n <= k <=> ts[q[n]].priority >= ts[i].priority

\* The least number of a non-empty set of numbers.
LEMMA LeastNumber ==
    ASSUME NEW S \in SUBSET Nat, S # {}
    PROVE  \E k \in S : \A m \in S : k <= m
<1>1. \E k \in S : \A m \in S : <<m, k>> \notin OpToRel(<, Nat)
  BY NatLessThanWellFounded, WFMin
<1>2. \A m, k \in Nat : m < k => <<m, k>> \in OpToRel(<, Nat)
  BY DEF OpToRel
<1>3. PICK k \in S : \A m \in S : <<m, k>> \notin OpToRel(<, Nat)
  BY <1>1
<1>4. ASSUME NEW m \in S PROVE k <= m
  <2>1. ~(m < k)
    BY <1>2, <1>3
  <2>2. m \in Nat /\ k \in Nat
    BY Zenon
  <2> QED  BY <2>1, <2>2
<1> QED  BY <1>4

\* A queue sorted by priority has a place for a task: behind the tasks at least
\* as urgent, before the others.
LEMMA CutExists ==
    ASSUME NEW N \in Nat, NEW ts \in Seq(Decision), N <= Len(ts),
           NEW q \in Seq(1..N), ByUrgency(ts, q), NEW i \in 1..Len(ts)
    PROVE  \E k \in 0..Len(q) : IsCut(ts, q, i, k)
<1> DEFINE prio(j) == ts[j].priority
           Below == {n \in 1..Len(q) : prio(q[n]) < prio(i)}
<1>1. Len(q) \in Nat /\ DOMAIN q = 1..Len(q)
  OBVIOUS
<1>2. ASSUME NEW j \in 1..Len(ts) PROVE prio(j) \in Int
  <2>1. ts[j] \in Decision
    OBVIOUS
  <2> QED  BY <2>1 DEF Decision
<1>3. \A n \in 1..Len(q) : prio(q[n]) \in Int /\ prio(i) \in Int
  <2>1. \A n \in 1..Len(q) : q[n] \in 1..Len(ts)
    OBVIOUS
  <2> HIDE DEF prio
  <2> QED  BY <2>1, <1>2
<1>4. \A m, n \in 1..Len(q) : m < n => prio(q[m]) >= prio(q[n])
  BY <1>1 DEF ByUrgency
<1>5. \E k \in 0..Len(q) : \A n \in 1..Len(q) : n <= k <=> prio(q[n]) >= prio(i)
  <2> HIDE DEF prio
  <2>1. CASE Below = {}
    <3>1. \A n \in 1..Len(q) : prio(q[n]) >= prio(i)
      <4> TAKE n \in 1..Len(q)
      <4>1. ~(prio(q[n]) < prio(i))
        BY <2>1
      <4> QED  BY <4>1, <1>3
    <3>2. \A n \in 1..Len(q) : n <= Len(q)
      BY <1>1
    <3>3. Len(q) \in 0..Len(q)
      BY <1>1
    <3> HIDE DEF Below
    <3> QED  BY <3>1, <3>2, <3>3
  <2>2. CASE Below # {}
    <3>1. Below \in SUBSET Nat
      OBVIOUS
    <3> HIDE DEF Below
    <3>2. PICK b \in Below : \A m \in Below : b <= m
      BY <2>2, <3>1, LeastNumber
    <3> USE DEF Below
    <3>3. b \in 1..Len(q) /\ b - 1 \in 0..Len(q)
      BY <1>1
    <3>4. ASSUME NEW n \in 1..Len(q)
          PROVE  n <= b - 1 <=> prio(q[n]) >= prio(i)
      <4>1. CASE n < b
        BY <4>1, <3>2, <1>3, <3>3
      <4>2. CASE n >= b
        <5>1. prio(q[b]) >= prio(q[n])
          BY <4>2, <1>3, <1>4, <3>3
        <5>2. prio(q[b]) < prio(i)
          OBVIOUS
        <5> QED  BY <5>1, <5>2, <4>2, <1>3, <3>3
      <4> QED  BY <4>1, <4>2, <3>3
    <3> QED  BY <3>3, <3>4
  <2> QED  BY <2>1, <2>2
<1> QED  BY <1>1, <1>5 DEF IsCut

\* What StableInsert returns, in terms of such a place.
LEMMA InsertAtCut ==
    ASSUME NEW N \in Nat, NEW ts \in Seq(Decision), N <= Len(ts),
           NEW q \in Seq(1..N), ByUrgency(ts, q), NEW i \in 1..Len(ts)
    PROVE  \E k \in 0..Len(q) :
             /\ IsCut(ts, q, i, k)
             /\ StableInsert(ts, q, i) =
                  [n \in 1..(Len(q) + 1) |->
                     IF n <= k THEN q[n] ELSE IF n = k + 1 THEN i ELSE q[n - 1]]
<1> DEFINE cut == CHOOSE k \in 0..Len(q) :
                    \A n \in DOMAIN q : n <= k <=> ts[q[n]].priority >= ts[i].priority
<1>1. cut \in 0..Len(q) /\ IsCut(ts, q, i, cut)
  BY CutExists DEF IsCut
<1>2. StableInsert(ts, q, i) =
        [n \in 1..(Len(q) + 1) |->
           IF n <= cut THEN q[n] ELSE IF n = cut + 1 THEN i ELSE q[n - 1]]
  BY DEF StableInsert
<1> QED  BY <1>1, <1>2

\* An insertion keeps the queue a queue of tasks, adds exactly the new task, and
\* keeps it free of duplicates, sorted, and, for the youngest task, first come
\* first served among equals.
LEMMA InsertProperties ==
    ASSUME NEW N \in Nat, NEW ts \in Seq(Decision), N <= Len(ts),
           NEW q \in Seq(1..N), ByUrgency(ts, q), NEW i \in 1..Len(ts),
           NEW r, r = StableInsert(ts, q, i)
    PROVE  /\ r \in Seq(1..Len(ts))
           /\ Elems(r) = Elems(q) \cup {i}
           /\ Distinct(q) /\ i \notin Elems(q) => Distinct(r)
           /\ ByUrgency(ts, r)
           /\ OlderFirst(ts, q) /\ (\A j \in Elems(q) : j < i) => OlderFirst(ts, r)
<1> DEFINE prio(j) == ts[j].priority
<1>1. Len(q) \in Nat /\ DOMAIN q = 1..Len(q) /\ Len(ts) \in Nat
  OBVIOUS
<1>2. \A n \in 1..Len(q) : q[n] \in 1..N /\ q[n] \in 1..Len(ts)
  OBVIOUS
<1>3. ASSUME NEW j \in 1..Len(ts) PROVE prio(j) \in Int
  <2>1. ts[j] \in Decision
    OBVIOUS
  <2> QED  BY <2>1 DEF Decision
<1>4. PICK k \in 0..Len(q) :
        /\ IsCut(ts, q, i, k)
        /\ r = [n \in 1..(Len(q) + 1) |->
                  IF n <= k THEN q[n] ELSE IF n = k + 1 THEN i ELSE q[n - 1]]
  BY InsertAtCut
<1>5. \A n \in 1..Len(q) : n <= k <=> prio(q[n]) >= prio(i)
  BY <1>1, <1>4 DEF IsCut
<1>6. DOMAIN r = 1..(Len(q) + 1) /\ k \in Nat /\ k <= Len(q)
  BY <1>4, <1>1
<1>7. ASSUME NEW n \in 1..(Len(q) + 1)
      PROVE  \/ n = k + 1 /\ r[n] = i
             \/ \E a \in 1..Len(q) : /\ r[n] = q[a]
                                     /\ (n = a /\ a <= k) \/ (n = a + 1 /\ a > k)
  <2>1. CASE n <= k
    <3>1. n \in 1..Len(q) /\ r[n] = q[n]
      BY <2>1, <1>4, <1>1, <1>6
    <3> QED  BY <3>1, <2>1
  <2>2. CASE n = k + 1
    BY <2>2, <1>4, <1>1, <1>6
  <2>3. CASE n > k + 1
    <3>1. n - 1 \in 1..Len(q) /\ r[n] = q[n - 1] /\ n = (n - 1) + 1 /\ n - 1 > k
      BY <2>3, <1>4, <1>1, <1>6
    <3> QED  BY <3>1
  <2> QED  BY <2>1, <2>2, <2>3, <1>6
<1>8. /\ k + 1 \in 1..(Len(q) + 1) /\ r[k + 1] = i
      /\ \A n \in 1..Len(q) : n <= k => n \in 1..(Len(q) + 1) /\ r[n] = q[n]
      /\ \A n \in 1..Len(q) : n > k => n + 1 \in 1..(Len(q) + 1) /\ r[n + 1] = q[n]
  BY <1>4, <1>1, <1>6
<1>9. r \in Seq(1..Len(ts))
  <2>1. ASSUME NEW n \in 1..(Len(q) + 1) PROVE r[n] \in 1..Len(ts)
    BY <1>2, <1>7
  <2>2. r \in [1..(Len(q) + 1) -> 1..Len(ts)]
    <3> DEFINE e(n) == IF n <= k THEN q[n] ELSE IF n = k + 1 THEN i ELSE q[n - 1]
    <3>1. r = [n \in 1..(Len(q) + 1) |-> e(n)]
      BY <1>4
    <3>2. \A n \in 1..(Len(q) + 1) : e(n) \in 1..Len(ts)
      BY <2>1, <3>1
    <3> HIDE DEF e
    <3> QED  BY <3>1, <3>2
  <2>3. Len(q) + 1 \in Nat
    BY <1>1
  <2> DEFINE T == 1..Len(ts)
             l == Len(q) + 1
  <2>4. r \in [1..l -> T] /\ l \in Nat
    BY <2>2, <2>3
  <2> HIDE DEF T, l
  <2>5. Seq(T) = UNION {[1..n -> T] : n \in Nat}
    BY SeqDef
  <2> QED  BY <2>4, <2>5, Zenon DEF T
<1>10. Elems(r) = Elems(q) \cup {i}
  <2>1. ASSUME NEW n \in 1..(Len(q) + 1) PROVE r[n] \in Elems(q) \cup {i}
    <3>1. \A m \in 1..Len(q) : q[m] \in Elems(q)
      BY <1>1 DEF Elems
    <3> QED  BY <1>7, <3>1
  <2>2. i \in Elems(r)
    BY <1>6, <1>8 DEF Elems
  <2>3. ASSUME NEW n \in 1..Len(q) PROVE q[n] \in Elems(r)
    <3>1. n <= k \/ n > k
      BY <1>1, <1>6
    <3> QED  BY <3>1, <1>6, <1>8 DEF Elems
  <2> QED  BY <2>1, <2>2, <2>3, <1>1, <1>6 DEF Elems
<1>11. ASSUME Distinct(q), i \notin Elems(q) PROVE Distinct(r)
  <2>1. \A n \in 1..Len(q) : q[n] # i
    BY <1>11, <1>1 DEF Elems
  <2>2. \A m, n \in 1..Len(q) : q[m] = q[n] => m = n
    BY <1>11, <1>1 DEF Distinct
  <2>3. ASSUME NEW m \in 1..(Len(q) + 1), NEW n \in 1..(Len(q) + 1), r[m] = r[n]
        PROVE  m = n
    <3>1. \/ m = k + 1 /\ r[m] = i
          \/ \E a \in 1..Len(q) : /\ r[m] = q[a]
                                  /\ (m = a /\ a <= k) \/ (m = a + 1 /\ a > k)
      BY <1>7
    <3>2. \/ n = k + 1 /\ r[n] = i
          \/ \E a \in 1..Len(q) : /\ r[n] = q[a]
                                  /\ (n = a /\ a <= k) \/ (n = a + 1 /\ a > k)
      BY <1>7
    <3>3. m \in Int /\ n \in Int /\ k \in Int
      OBVIOUS
    <3> QED  BY <2>1, <2>2, <2>3, <3>1, <3>2, <3>3
  <2> QED  BY <2>3, <1>6 DEF Distinct
<1>12. ByUrgency(ts, r)
  <2>1. \A m, n \in 1..Len(q) : m < n => prio(q[m]) >= prio(q[n])
    BY <1>1 DEF ByUrgency
  <2>2. /\ \A n \in 1..Len(q) : prio(q[n]) \in Int
        /\ prio(i) \in Int
    <3> HIDE DEF prio
    <3> QED  BY <1>2, <1>3
  <2>3. ASSUME NEW m \in 1..(Len(q) + 1), NEW n \in 1..(Len(q) + 1), m < n
        PROVE  prio(r[m]) >= prio(r[n])
    <3> HIDE DEF prio
    <3>1. \/ m = k + 1 /\ r[m] = i
          \/ \E a \in 1..Len(q) : /\ r[m] = q[a]
                                  /\ (m = a /\ a <= k) \/ (m = a + 1 /\ a > k)
      BY <1>7
    <3>2. \/ n = k + 1 /\ r[n] = i
          \/ \E a \in 1..Len(q) : /\ r[n] = q[a]
                                  /\ (n = a /\ a <= k) \/ (n = a + 1 /\ a > k)
      BY <1>7
    <3>3. m \in Int /\ n \in Int /\ k \in Int
      OBVIOUS
    <3>4. CASE m = k + 1 /\ r[m] = i
      <4>1. PICK b \in 1..Len(q) : r[n] = q[b] /\ b > k
        BY <2>1, <2>2, <2>3, <3>2, <3>3, <3>4
      <4> QED  BY <2>1, <2>2, <2>3, <3>4, <4>1, <1>5
    <3>5. ASSUME NEW a \in 1..Len(q), r[m] = q[a],
                 (m = a /\ a <= k) \/ (m = a + 1 /\ a > k)
          PROVE  prio(r[m]) >= prio(r[n])
      <4>1. CASE n = k + 1 /\ r[n] = i
        <5>1. a <= k
          BY <4>1, <2>3, <3>3, <3>5
        <5> QED  BY <2>1, <2>2, <2>3, <3>5, <4>1, <5>1, <1>5
      <4>2. ASSUME NEW b \in 1..Len(q), r[n] = q[b],
                   (n = b /\ b <= k) \/ (n = b + 1 /\ b > k)
            PROVE  prio(r[m]) >= prio(r[n])
        <5>1. a < b
          BY <4>2, <2>3, <3>3, <3>5
        <5> QED  BY <2>1, <2>2, <2>3, <3>5, <4>2, <5>1
      <4> QED  BY <4>1, <4>2, <3>2
    <3> QED  BY <3>1, <3>4, <3>5
  <2> QED  BY <2>3, <1>6 DEF ByUrgency
<1>13. ASSUME OlderFirst(ts, q), \A j \in Elems(q) : j < i PROVE OlderFirst(ts, r)
  <2>1. \A m, n \in 1..Len(q) : m < n /\ prio(q[m]) = prio(q[n]) => q[m] < q[n]
    BY <1>13, <1>1 DEF OlderFirst
  <2>2. \A n \in 1..Len(q) : q[n] < i
    BY <1>13, <1>1 DEF Elems
  <2>3. /\ \A n \in 1..Len(q) : prio(q[n]) \in Int
        /\ prio(i) \in Int
    <3> HIDE DEF prio
    <3> QED  BY <1>2, <1>3
  <2>4. ASSUME NEW m \in 1..(Len(q) + 1), NEW n \in 1..(Len(q) + 1), m < n,
               prio(r[m]) = prio(r[n])
        PROVE  r[m] < r[n]
    <3> HIDE DEF prio
    <3>1. \/ m = k + 1 /\ r[m] = i
          \/ \E a \in 1..Len(q) : /\ r[m] = q[a]
                                  /\ (m = a /\ a <= k) \/ (m = a + 1 /\ a > k)
      BY <1>7
    <3>2. \/ n = k + 1 /\ r[n] = i
          \/ \E a \in 1..Len(q) : /\ r[n] = q[a]
                                  /\ (n = a /\ a <= k) \/ (n = a + 1 /\ a > k)
      BY <1>7
    <3>3. m \in Int /\ n \in Int /\ k \in Int
      OBVIOUS
    <3>4. CASE m = k + 1 /\ r[m] = i
      <4>1. PICK b \in 1..Len(q) : r[n] = q[b] /\ b > k
        BY <2>1, <2>2, <2>3, <2>4, <3>2, <3>3, <3>4
      <4> QED  BY <2>1, <2>2, <2>3, <2>4, <3>4, <4>1, <1>5
    <3>5. ASSUME NEW a \in 1..Len(q), r[m] = q[a],
                 (m = a /\ a <= k) \/ (m = a + 1 /\ a > k)
          PROVE  r[m] < r[n]
      <4>1. CASE n = k + 1 /\ r[n] = i
        <5>1. a <= k
          BY <4>1, <2>4, <3>3, <3>5
        <5> QED  BY <2>1, <2>2, <2>3, <2>4, <3>5, <4>1, <5>1, <1>5
      <4>2. ASSUME NEW b \in 1..Len(q), r[n] = q[b],
                   (n = b /\ b <= k) \/ (n = b + 1 /\ b > k)
            PROVE  r[m] < r[n]
        <5>1. a < b
          BY <4>2, <2>4, <3>3, <3>5
        <5> QED  BY <2>1, <2>2, <2>3, <2>4, <3>5, <4>2, <5>1
      <4> QED  BY <4>1, <4>2, <3>2
    <3> QED  BY <3>1, <3>4, <3>5
  <2> QED  BY <2>4, <1>6 DEF OlderFirst
<1> QED  BY <1>9, <1>10, <1>11, <1>12, <1>13

-----------------------------------------------------------------------------
(* The other operations on queues: the head leaves, tasks is appended to.  *)

\* The operations that shorten a queue: the task taken is one of the queue's,
\* and what is left keeps the queue's order, ranks and absence of duplicates.
LEMMA TailProperties ==
    ASSUME NEW ts, NEW S \in SUBSET Nat, NEW q \in Seq(S), q # <<>>
    PROVE  /\ Head(q) \in S /\ Head(q) \in Elems(q)
           /\ Tail(q) \in Seq(S)
           /\ Elems(q) = Elems(Tail(q)) \cup {Head(q)}
           /\ Distinct(q) => Distinct(Tail(q)) /\ Head(q) \notin Elems(Tail(q))
           /\ ByUrgency(ts, q) => ByUrgency(ts, Tail(q))
           /\ OlderFirst(ts, q) => OlderFirst(ts, Tail(q))
<1>1. /\ Len(q) \in Nat \ {0} /\ DOMAIN q = 1..Len(q)
      /\ Tail(q) \in Seq(S) /\ Len(Tail(q)) = Len(q) - 1
      /\ DOMAIN Tail(q) = 1..(Len(q) - 1)
      /\ \A n \in 1..(Len(q) - 1) : Tail(q)[n] = q[n + 1] /\ n + 1 \in 1..Len(q)
      /\ Head(q) = q[1] /\ Head(q) \in S /\ 1 \in 1..Len(q)
  BY HeadTailProperties, EmptySeq
<1>2. Elems(q) = Elems(Tail(q)) \cup {Head(q)}
  <2>1. \A n \in 1..Len(q) : n = 1 \/ (n - 1 \in 1..(Len(q) - 1) /\ Tail(q)[n - 1] = q[n])
    BY <1>1
  <2>2. ASSUME NEW n \in 1..Len(q) PROVE q[n] \in Elems(Tail(q)) \cup {Head(q)}
    BY <2>1, <1>1 DEF Elems
  <2>3. \A n \in 1..(Len(q) - 1) : Tail(q)[n] \in Elems(q)
    BY <1>1 DEF Elems
  <2> QED  BY <2>2, <2>3, <1>1 DEF Elems
<1>3. Distinct(q) => Distinct(Tail(q)) /\ Head(q) \notin Elems(Tail(q))
  BY <1>1 DEF Distinct, Elems
<1>4. ByUrgency(ts, q) => ByUrgency(ts, Tail(q))
  BY <1>1 DEF ByUrgency
<1>5. OlderFirst(ts, q) => OlderFirst(ts, Tail(q))
  BY <1>1 DEF OlderFirst
<1> QED  BY <1>1, <1>2, <1>3, <1>4, <1>5

\* A new task does not change the order of the queues of the others.
LEMMA AppendKeepsOrder ==
    ASSUME NEW ts \in Seq(Decision), NEW d \in Decision, NEW q \in Seq(1..Len(ts))
    PROVE  /\ ByUrgency(ts, q) => ByUrgency(Append(ts, d), q)
           /\ OlderFirst(ts, q) => OlderFirst(Append(ts, d), q)
<1>1. \A j \in 1..Len(ts) : Append(ts, d)[j] = ts[j]
  OBVIOUS
<1>2. DOMAIN q = 1..Len(q) /\ \A n \in 1..Len(q) : q[n] \in 1..Len(ts)
  OBVIOUS
<1> QED  BY <1>1, <1>2 DEF ByUrgency, OlderFirst

-----------------------------------------------------------------------------
(* The inductive invariant.  ExactlyOnePlace and QueueOrder need each      *)
(* other: an insertion puts a task at its place only in a sorted queue,    *)
(* and a queue is sorted by tasks only if its ids are tasks.               *)

IInv == TypeOK /\ ExactlyOnePlace /\ QueueOrder

\* ExactlyOnePlace without the record: C, U, B, E, R, L are the places.
Partition(C, U, B, E, R, L, N) ==
    /\ C \cup U \cup B \cup E \cup R \cup L = N
    /\ C \cap U = {} /\ C \cap B = {} /\ C \cap E = {} /\ C \cap R = {} /\ C \cap L = {}
    /\ U \cap B = {} /\ U \cap E = {} /\ U \cap R = {} /\ U \cap L = {}
    /\ B \cap E = {} /\ B \cap R = {} /\ B \cap L = {}
    /\ E \cap R = {} /\ E \cap L = {} /\ R \cap L = {}

OnePlace ==
    /\ Distinct(cloudQ) /\ Distinct(edgeQ)
    /\ Distinct(batch[UI]) /\ Distinct(batch[Background])
    /\ Partition(Elems(cloudQ), Elems(batch[UI]), Elems(batch[Background]),
                 Elems(edgeQ), received, lost, 1..Len(tasks))

\* The count over the places (ExactlyOnePlace) is the pairwise statement that the
\* provers work with: a task issued is in one place and in no second one.
LEMMA OnePlaceIsExactlyOnePlace == ExactlyOnePlace <=> OnePlace
<1>1. DOMAIN Places = {"cloud", "ui", "background", "edge", "received", "lost"}
  BY DEF Places
<1>2. /\ Places["cloud"] = Elems(cloudQ) /\ Places["ui"] = Elems(batch[UI])
      /\ Places["background"] = Elems(batch[Background]) /\ Places["edge"] = Elems(edgeQ)
      /\ Places["received"] = received /\ Places["lost"] = lost
  BY DEF Places
<1>3. UNION {Places[x] : x \in DOMAIN Places} =
        Elems(cloudQ) \cup Elems(batch[UI]) \cup Elems(batch[Background])
          \cup Elems(edgeQ) \cup received \cup lost
  <2> HIDE DEF Places
  <2> QED  BY <1>1, <1>2
<1>4. (\A x, y \in DOMAIN Places : x # y => Places[x] \cap Places[y] = {}) <=>
        Partition(Elems(cloudQ), Elems(batch[UI]), Elems(batch[Background]),
                  Elems(edgeQ), received, lost,
                  UNION {Places[x] : x \in DOMAIN Places})
  <2> HIDE DEF Places
  <2> QED  BY <1>1, <1>2, <1>3 DEF Partition
<1>5. (\A p \in Pollers : Distinct(batch[p])) <=>
        Distinct(batch[UI]) /\ Distinct(batch[Background])
  BY DEF Pollers
<1> QED
  <2> HIDE DEF Places
  <2> QED  BY <1>3, <1>4, <1>5 DEF ExactlyOnePlace, OnePlace, Partition

\* A sequence over S whose elements all lie in T is a sequence over T.
LEMMA SeqOfElems ==
    ASSUME NEW S, NEW T, NEW q \in Seq(S), Elems(q) \subseteq T
    PROVE  q \in Seq(T)
<1>1. Len(q) \in Nat /\ DOMAIN q = 1..Len(q) /\ q \in [1..Len(q) -> S]
  BY LenProperties
<1>2. \A n \in 1..Len(q) : q[n] \in T
  BY <1>1 DEF Elems
<1>3. q \in [1..Len(q) -> T]
  BY <1>1, <1>2
<1>4. Seq(T) = UNION {[1..n -> T] : n \in Nat}
  BY SeqDef
<1> QED  BY <1>1, <1>3, <1>4, Zenon

\* The queues hold tasks, ids below the next one.
LEMMA QueuesHoldTasks ==
    ASSUME TypeOK, OnePlace
    PROVE  /\ cloudQ \in Seq(1..Len(tasks)) /\ edgeQ \in Seq(1..Len(tasks))
           /\ \A p \in Pollers : batch[p] \in Seq(1..Len(tasks))
           /\ received \subseteq 1..Len(tasks) /\ lost \subseteq 1..Len(tasks)
           /\ Len(tasks) \in Nat /\ 1..Len(tasks) \subseteq TaskIds
<1>1. /\ Elems(cloudQ) \subseteq 1..Len(tasks) /\ Elems(edgeQ) \subseteq 1..Len(tasks)
      /\ \A p \in Pollers : Elems(batch[p]) \subseteq 1..Len(tasks)
      /\ received \subseteq 1..Len(tasks) /\ lost \subseteq 1..Len(tasks)
  BY DEF OnePlace, Partition, Pollers
<1>2. /\ cloudQ \in Seq(TaskIds) /\ edgeQ \in Seq(TaskIds)
      /\ \A p \in Pollers : batch[p] \in Seq(TaskIds)
  BY DEF TypeOK
<1>3. Len(tasks) \in Nat /\ 1..Len(tasks) \subseteq TaskIds
  BY MaxTasksAssumption DEF TypeOK, TaskIds
<1> QED  BY <1>1, <1>2, <1>3, SeqOfElems

\* tasks[i] is a decision, and its type says how the task is executed.
LEMMA TaskIsDecision ==
    ASSUME TypeOK, NEW i \in 1..Len(tasks)
    PROVE  tasks[i] \in Decision
BY DEF TypeOK

\* The cloud starts with no task, and with every queue and batch empty.
THEOREM InitIInv == Init => IInv
<1> SUFFICES ASSUME Init PROVE IInv
  OBVIOUS
<1>1. Elems(<<>>) = {} /\ Distinct(<<>>)
  BY DEF Elems, Distinct
<1>2. \A ts : ByUrgency(ts, <<>>) /\ OlderFirst(ts, <<>>)
  BY DEF ByUrgency, OlderFirst
<1>3. TypeOK
  <2>1. tasks \in Seq(Decision) /\ Len(tasks) <= MaxTasks
    BY MaxTasksAssumption DEF Init
  <2>2. /\ batch \in [Pollers -> Seq(TaskIds)] /\ cloudQ \in Seq(TaskIds)
        /\ edgeQ \in Seq(TaskIds)
    BY DEF Init
  <2>3. \A p \in Pollers : pc[p] = "idle" /\ batch[p] = <<>>
    BY DEF Init
  <2> QED  BY <2>1, <2>2, <2>3 DEF Init, TypeOK
<1>4. OnePlace
  <2>1. batch[UI] = <<>> /\ batch[Background] = <<>>
    BY DEF Init, Pollers
  <2>2. 1..Len(tasks) = {}
    BY DEF Init
  <2> QED  BY <1>1, <2>1, <2>2 DEF Init, OnePlace, Partition
<1>5. QueueOrder
  BY <1>2 DEF Init, QueueOrder
<1> QED  BY <1>3, <1>4, <1>5, OnePlaceIsExactlyOnePlace DEF IInv

-----------------------------------------------------------------------------
(* Steps that leave the queues and the fate of the tasks alone.            *)

queueVars == <<tasks, cloudQ, batch, edgeQ, received, lost>>

\* A step that leaves the tasks and every place alone leaves the order and the
\* place of each task alone: UI frames, CPU readings, tasks being executed.
LEMMA QuietStep ==
    ASSUME IInv, UNCHANGED queueVars
    PROVE  ExactlyOnePlace' /\ QueueOrder'
<1>1. /\ tasks' = tasks /\ cloudQ' = cloudQ /\ batch' = batch /\ edgeQ' = edgeQ
      /\ received' = received /\ lost' = lost
  BY DEF queueVars
<1>2. Places' = Places
  BY <1>1 DEF Places
<1>3. ExactlyOnePlace'
  BY <1>1, <1>2 DEF IInv, ExactlyOnePlace
<1>4. QueueOrder'
  BY <1>1 DEF IInv, QueueOrder
<1> QED  BY <1>3, <1>4

\* The new task goes into the cloud's queue.
LEMMA EnqueueStep ==
    ASSUME IInv, Enqueue
    PROVE  IInv'
<1> USE DEF IInv
<1>1. OnePlace
  BY OnePlaceIsExactlyOnePlace
<1>2. /\ cloudQ \in Seq(1..Len(tasks)) /\ edgeQ \in Seq(1..Len(tasks))
      /\ \A p \in Pollers : batch[p] \in Seq(1..Len(tasks))
      /\ Len(tasks) \in Nat
  BY <1>1, QueuesHoldTasks
<1>3. PICK k \in deciding :
        /\ Len(tasks) < MaxTasks
        /\ tasks' = Append(tasks, [type |-> Rules[k].type, priority |-> Rules[k].priority])
        /\ cloudQ' = StableInsert(tasks', cloudQ, Len(tasks) + 1)
        /\ deciding' = deciding \ {k}
        /\ UNCHANGED <<snapshot, pollVars, running, edgeQ, uiVars, clientVars,
                       received, outcome, lost>>
  BY DEF Enqueue
<1> DEFINE d == [type |-> Rules[k].type, priority |-> Rules[k].priority]
           new == Len(tasks) + 1
<1>4. d \in Decision
  BY DEF TypeOK, RuleIds, Rules, Decision, AsyncTypes
<1> HIDE DEF d
<1>5. /\ tasks \in Seq(Decision) /\ tasks' = Append(tasks, d)
      /\ tasks' \in Seq(Decision) /\ Len(tasks') = Len(tasks) + 1
  BY <1>3, <1>4 DEF TypeOK, d
<1>6. /\ ByUrgency(tasks', cloudQ) /\ OlderFirst(tasks', cloudQ)
      /\ ByUrgency(tasks', edgeQ)
      /\ \A p \in Pollers : ByUrgency(tasks', batch[p]) /\ OlderFirst(tasks', batch[p])
  BY <1>2, <1>4, <1>5, AppendKeepsOrder DEF QueueOrder
<1>7. new \notin 1..Len(tasks) /\ 1..Len(tasks') = 1..Len(tasks) \cup {new}
  BY <1>2, <1>5
<1>8. Elems(cloudQ) \subseteq 1..Len(tasks)
  BY <1>1 DEF OnePlace, Partition
<1>9. /\ cloudQ' \in Seq(1..Len(tasks'))
      /\ Elems(cloudQ') = Elems(cloudQ) \cup {new}
      /\ Distinct(cloudQ')
      /\ ByUrgency(tasks', cloudQ') /\ OlderFirst(tasks', cloudQ')
  <2>1. Len(tasks) <= Len(tasks') /\ new \in 1..Len(tasks')
    BY <1>2, <1>5
  <2>2. \A j \in Elems(cloudQ) : j < new
    BY <1>2, <1>8
  <2>3. new \notin Elems(cloudQ) /\ Distinct(cloudQ)
    BY <1>7, <1>8, <1>1 DEF OnePlace
  <2>4. cloudQ' = StableInsert(tasks', cloudQ, new)
    BY <1>3
  <2>5. /\ Len(tasks) \in Nat /\ tasks' \in Seq(Decision)
        /\ cloudQ \in Seq(1..Len(tasks)) /\ ByUrgency(tasks', cloudQ)
        /\ OlderFirst(tasks', cloudQ)
    BY <1>2, <1>5, <1>6
  <2> HIDE DEF new, IInv
  <2> QED  BY <2>1, <2>2, <2>3, <2>4, <2>5, InsertProperties
<1>10. TypeOK'
  <2>1. cloudQ' \in Seq(TaskIds)
    <3>1. 1..Len(tasks') \subseteq TaskIds
      BY <1>2, <1>3, <1>5, MaxTasksAssumption DEF TaskIds
    <3> QED  BY <3>1, <1>9, SeqMonotonic
  <2>2. Len(tasks') <= MaxTasks
    BY <1>2, <1>3, <1>5, MaxTasksAssumption
  <2> QED  BY <1>3, <1>5, <2>1, <2>2 DEF TypeOK, pollVars, uiVars, clientVars
<1>11. OnePlace'
  <2>1. edgeQ' = edgeQ /\ batch' = batch /\ received' = received /\ lost' = lost
    BY <1>3 DEF pollVars
  <2> HIDE DEF new
  <2>2. Partition(Elems(cloudQ'), Elems(batch'[UI]), Elems(batch'[Background]),
                  Elems(edgeQ'), received', lost', 1..Len(tasks'))
    BY <1>1, <1>7, <1>9, <2>1 DEF OnePlace, Partition
  <2>3. Distinct(cloudQ') /\ Distinct(edgeQ') /\ Distinct(batch'[UI]) /\ Distinct(batch'[Background])
    BY <1>1, <1>9, <2>1 DEF OnePlace
  <2> QED  BY <2>2, <2>3 DEF OnePlace
<1>12. QueueOrder'
  BY <1>3, <1>6, <1>9 DEF QueueOrder, pollVars
<1>13. ExactlyOnePlace'
  BY <1>11, OnePlaceIsExactlyOnePlace, PTL
<1> QED  BY <1>10, <1>12, <1>13

\* The empty queue is trivially in order; polls and restarts produce it.
LEMMA EmptyQueue ==
    /\ Elems(<<>>) = {} /\ Distinct(<<>>)
    /\ \A ts : ByUrgency(ts, <<>>) /\ OlderFirst(ts, <<>>)
BY DEF Elems, Distinct, ByUrgency, OlderFirst

\* The queue becomes the response of one poll.
LEMMA DrainStep ==
    ASSUME IInv, NEW p \in Pollers, Drain(p)
    PROVE  IInv'
<1> USE DEF IInv
<1>1. OnePlace
  BY OnePlaceIsExactlyOnePlace
<1>2. /\ tasks' = tasks /\ cloudQ' = <<>> /\ edgeQ' = edgeQ
      /\ received' = received /\ lost' = lost
      /\ batch' = [batch EXCEPT ![p] = cloudQ]
      /\ batch[p] = <<>>
      /\ DOMAIN batch = Pollers
  BY DEF Drain, TypeOK
<1>3. TypeOK'
  BY DEF Drain, TypeOK, uiVars, clientVars
<1>4. OnePlace'
  <2>1. CASE p = UI
    <3>1. batch'[UI] = cloudQ /\ batch'[Background] = batch[Background]
      BY <1>2, <2>1 DEF UI, Background, Pollers
    <3> QED  BY <1>1, <1>2, <2>1, <3>1, EmptyQueue DEF OnePlace, Partition
  <2>2. CASE p = Background
    <3>1. batch'[Background] = cloudQ /\ batch'[UI] = batch[UI]
      BY <1>2, <2>2 DEF UI, Background, Pollers
    <3> QED  BY <1>1, <1>2, <2>2, <3>1, EmptyQueue DEF OnePlace, Partition
  <2> QED  BY <2>1, <2>2 DEF Pollers
<1>5. QueueOrder'
  BY <1>2, EmptyQueue DEF QueueOrder
<1>6. ExactlyOnePlace'
  BY <1>4, OnePlaceIsExactlyOnePlace, PTL
<1> QED  BY <1>3, <1>5, <1>6

\* The queue goes to a client that is no longer there, or dies with the cloud.
LEMMA CloudLossStep ==
    ASSUME IInv, cloudQ' = <<>>, lost' = lost \cup Elems(cloudQ),
           UNCHANGED <<tasks, batch, edgeQ, received>>
    PROVE  ExactlyOnePlace' /\ QueueOrder'
<1> USE DEF IInv
<1>1. OnePlace
  BY OnePlaceIsExactlyOnePlace
<1>2. OnePlace'
  BY <1>1, EmptyQueue DEF OnePlace, Partition
<1>3. QueueOrder'
  BY EmptyQueue DEF QueueOrder
<1> QED  BY <1>2, <1>3, OnePlaceIsExactlyOnePlace, PTL

\* A response does not arrive.
LEMMA ResponseLostStep ==
    ASSUME IInv, NEW p \in Pollers, ResponseLost(p)
    PROVE  IInv'
<1> USE DEF IInv
<1>1. OnePlace
  BY OnePlaceIsExactlyOnePlace
<1>2. /\ tasks' = tasks /\ cloudQ' = cloudQ /\ edgeQ' = edgeQ
      /\ received' = received /\ lost' = lost \cup Elems(batch[p])
      /\ batch' = [batch EXCEPT ![p] = <<>>]
      /\ DOMAIN batch = Pollers
  BY DEF ResponseLost, TypeOK, cloudVars
<1>3. TypeOK'
  <2>1. lost' \subseteq TaskIds
    <3>1. batch[p] \in Seq(TaskIds)
      BY DEF TypeOK
    <3>2. \A n \in DOMAIN batch[p] : batch[p][n] \in TaskIds
      BY <3>1
    <3> QED  BY <1>2, <3>2 DEF TypeOK, Elems
  <2> QED  BY <2>1 DEF ResponseLost, TypeOK, cloudVars, uiVars, clientVars
<1>4. OnePlace'
  <2>1. CASE p = UI
    <3>1. batch'[UI] = <<>> /\ batch'[Background] = batch[Background]
      BY <1>2, <2>1 DEF UI, Background, Pollers
    <3> QED  BY <1>1, <1>2, <2>1, <3>1, EmptyQueue DEF OnePlace, Partition
  <2>2. CASE p = Background
    <3>1. batch'[Background] = <<>> /\ batch'[UI] = batch[UI]
      BY <1>2, <2>2 DEF UI, Background, Pollers
    <3> QED  BY <1>1, <1>2, <2>2, <3>1, EmptyQueue DEF OnePlace, Partition
  <2> QED  BY <2>1, <2>2 DEF Pollers
<1>5. QueueOrder'
  BY <1>2, EmptyQueue DEF QueueOrder
<1>6. ExactlyOnePlace'
  BY <1>4, OnePlaceIsExactlyOnePlace, PTL
<1> QED  BY <1>3, <1>5, <1>6

\* The next item of a response goes into the edge's queue.
LEMMA StoreStep ==
    ASSUME IInv, NEW p \in Pollers, Store(p)
    PROVE  IInv'
<1> USE DEF IInv
<1>1. OnePlace
  BY OnePlaceIsExactlyOnePlace
<1>2. /\ edgeQ \in Seq(1..Len(tasks)) /\ batch[p] \in Seq(1..Len(tasks))
      /\ Len(tasks) \in Nat /\ 1..Len(tasks) \subseteq TaskIds
  BY <1>1, QueuesHoldTasks
<1> DEFINE i == Head(batch[p])
           rest == Tail(batch[p])
<1>3. /\ tasks' = tasks /\ cloudQ' = cloudQ /\ edgeQ' = StableInsert(tasks, edgeQ, i)
      /\ received' = received /\ lost' = lost
      /\ batch' = [batch EXCEPT ![p] = rest]
      /\ DOMAIN batch = Pollers
      /\ tasks \in Seq(Decision)
      /\ pc[p] = "storing" /\ pc' = pc /\ batch[p] # <<>>
  <2>1. tasks' = tasks /\ cloudQ' = cloudQ
    BY DEF Store, cloudVars
  <2>2. DOMAIN batch = Pollers /\ tasks \in Seq(Decision)
    BY DEF TypeOK
  <2>3. /\ pc[p] = "storing" /\ edgeQ' = StableInsert(tasks, edgeQ, i)
        /\ received' = received /\ lost' = lost /\ batch' = [batch EXCEPT ![p] = rest]
        /\ pc' = pc /\ batch[p] # <<>>
    BY DEF Store
  <2> QED  BY <2>1, <2>2, <2>3
<1>4. /\ i \in 1..Len(tasks) /\ rest \in Seq(1..Len(tasks))
      /\ Elems(batch[p]) = Elems(rest) \cup {i}
      /\ Distinct(rest) /\ i \notin Elems(rest)
      /\ ByUrgency(tasks, rest) /\ OlderFirst(tasks, rest)
  <2>1. 1..Len(tasks) \in SUBSET Nat
    BY <1>2
  <2>2. Distinct(batch[p]) /\ ByUrgency(tasks, batch[p]) /\ OlderFirst(tasks, batch[p])
    BY DEF ExactlyOnePlace, QueueOrder
  <2> HIDE DEF IInv
  <2> QED  BY <1>2, <1>3, <2>1, <2>2, TailProperties
<1>5. /\ edgeQ' \in Seq(1..Len(tasks))
      /\ Elems(edgeQ') = Elems(edgeQ) \cup {i}
      /\ Distinct(edgeQ')
      /\ ByUrgency(tasks, edgeQ')
  <2>1. i \notin Elems(edgeQ) /\ Distinct(edgeQ) /\ ByUrgency(tasks, edgeQ)
    BY <1>1, <1>4 DEF OnePlace, Partition, Pollers, QueueOrder
  <2>2. Len(tasks) <= Len(tasks)
    BY <1>2
  <2>3. /\ tasks \in Seq(Decision) /\ edgeQ \in Seq(1..Len(tasks)) /\ Len(tasks) \in Nat
        /\ i \in 1..Len(tasks) /\ edgeQ' = StableInsert(tasks, edgeQ, i)
    BY <1>2, <1>3, <1>4
  <2> HIDE DEF IInv, i, rest
  <2> QED  BY <2>1, <2>2, <2>3, InsertProperties
<1> HIDE DEF i, rest
<1>6. TypeOK'
  <2>1. edgeQ' \in Seq(TaskIds) /\ rest \in Seq(TaskIds)
    BY <1>2, <1>4, <1>5, SeqMonotonic
  <2>2. batch' \in [Pollers -> Seq(TaskIds)]
    BY <1>3, <2>1 DEF TypeOK
  <2>3. \A x \in Pollers : batch'[x] # <<>> => pc'[x] \in {"answered", "storing"}
    <3> SUFFICES ASSUME NEW x \in Pollers, batch'[x] # <<>>
                 PROVE  pc'[x] \in {"answered", "storing"}
      OBVIOUS
    <3>1. CASE x = p
      BY <3>1, <1>3
    <3>2. CASE x # p
      <4>1. batch'[x] = batch[x]
        BY <3>2, <1>3
      <4>2. batch[x] # <<>> => pc[x] \in {"answered", "storing"}
        BY Zenon DEF TypeOK
      <4> QED  BY <4>1, <4>2, <1>3
    <3> QED  BY <3>1, <3>2
  <2> QED  BY <1>3, <2>1, <2>2, <2>3 DEF Store, TypeOK, cloudVars, uiVars, clientVars
<1>7. OnePlace'
  <2>1. CASE p = UI
    <3>1. batch'[UI] = rest /\ batch'[Background] = batch[Background]
      BY <1>3, <2>1 DEF UI, Background, Pollers
    <3> QED  BY <1>1, <1>3, <1>4, <1>5, <2>1, <3>1 DEF OnePlace, Partition
  <2>2. CASE p = Background
    <3>1. batch'[Background] = rest /\ batch'[UI] = batch[UI]
      BY <1>3, <2>2 DEF UI, Background, Pollers
    <3> QED  BY <1>1, <1>3, <1>4, <1>5, <2>2, <3>1 DEF OnePlace, Partition
  <2> QED  BY <2>1, <2>2 DEF Pollers
<1>8. QueueOrder'
  BY <1>3, <1>4, <1>5 DEF QueueOrder
<1>9. ExactlyOnePlace'
  BY <1>7, OnePlaceIsExactlyOnePlace, PTL
<1> QED  BY <1>6, <1>8, <1>9

\* The most urgent task of the edge's queue is received.
LEMMA PopStep ==
    ASSUME IInv, Pop
    PROVE  IInv'
<1> USE DEF IInv
<1>1. OnePlace
  BY OnePlaceIsExactlyOnePlace
<1>2. /\ edgeQ \in Seq(1..Len(tasks))
      /\ Len(tasks) \in Nat /\ 1..Len(tasks) \subseteq TaskIds
  BY <1>1, QueuesHoldTasks
<1> DEFINE i == Head(edgeQ)
<1>3. /\ tasks' = tasks /\ cloudQ' = cloudQ /\ edgeQ' = Tail(edgeQ) /\ edgeQ # <<>>
      /\ received' = received \cup {i} /\ lost' = lost /\ batch' = batch
  BY DEF Pop, cloudVars, pollVars
<1>4. /\ i \in 1..Len(tasks) /\ edgeQ' \in Seq(1..Len(tasks))
      /\ Elems(edgeQ) = Elems(edgeQ') \cup {i}
      /\ Distinct(edgeQ') /\ i \notin Elems(edgeQ')
      /\ ByUrgency(tasks, edgeQ')
  <2>1. 1..Len(tasks) \in SUBSET Nat
    BY <1>2
  <2>2. Distinct(edgeQ) /\ ByUrgency(tasks, edgeQ)
    BY DEF ExactlyOnePlace, QueueOrder
  <2> HIDE DEF IInv
  <2> QED  BY <1>2, <1>3, <2>1, <2>2, TailProperties
<1>5. TypeOK'
  <2>1. edgeQ' \in Seq(TaskIds) /\ i \in TaskIds /\ i # None
    <3>1. i \in TaskIds
      BY <1>2, <1>4
    <3>2. i # None
      BY <3>1, MaxTasksAssumption DEF TaskIds, None
    <3> HIDE DEF i
    <3> QED  BY <1>2, <1>4, <3>1, <3>2, SeqMonotonic
  <2> QED  BY <1>3, <2>1 DEF Pop, UIFree, TypeOK, cloudVars, pollVars, clientVars
<1> HIDE DEF i
<1>6. OnePlace'
  BY <1>1, <1>3, <1>4 DEF OnePlace, Partition
<1>7. QueueOrder'
  BY <1>3, <1>4 DEF QueueOrder
<1>8. ExactlyOnePlace'
  BY <1>6, OnePlaceIsExactlyOnePlace, PTL
<1> QED  BY <1>5, <1>7, <1>8

\* All that is on the edge and not yet received is lost.
LEMMA EdgeRestartStep ==
    ASSUME IInv, EdgeRestart
    PROVE  IInv'
<1> USE DEF IInv
<1>1. OnePlace
  BY OnePlaceIsExactlyOnePlace
<1>2. /\ tasks' = tasks /\ cloudQ' = cloudQ /\ edgeQ' = <<>> /\ received' = received
      /\ lost' = lost \cup Elems(edgeQ) \cup Elems(batch[UI]) \cup Elems(batch[Background])
      /\ \A p \in Pollers : batch'[p] = <<>>
      /\ batch'[UI] = <<>> /\ batch'[Background] = <<>>
  BY DEF EdgeRestart, cloudVars, Pollers
<1>3. OnePlace'
  BY <1>1, <1>2, EmptyQueue DEF OnePlace, Partition
<1>4. QueueOrder'
  BY <1>2, EmptyQueue DEF QueueOrder
<1>5. TypeOK'
  <2>1. lost' \subseteq TaskIds
    <3>1. /\ Elems(edgeQ) \cup Elems(batch[UI]) \cup Elems(batch[Background]) \cup lost
               \subseteq 1..Len(tasks)
          /\ 1..Len(tasks) \subseteq TaskIds
      BY <1>1, QueuesHoldTasks DEF OnePlace, Partition
    <3> QED  BY <1>2, <3>1
  <2>2. abandoned' \in [Pollers -> BOOLEAN]
    BY DEF EdgeRestart
  <2>3. outcome' \in [TaskIds -> SUBSET {"ok", "error", "async", "interrupted"}]
    BY DEF EdgeRestart, TypeOK
  <2>4. /\ batch' \in [Pollers -> Seq(TaskIds)]
        /\ pc' \in [Pollers -> {"idle", "requested", "answered", "storing"}]
        /\ \A p \in Pollers : pc'[p] = "idle" /\ batch'[p] = <<>>
    BY DEF EdgeRestart
  <2>5. /\ ui' = "free" /\ exec' = None /\ verdict' = "none" /\ request' = None
        /\ reachable' = FALSE /\ running' = FALSE /\ endpoint' = FALSE /\ edgeQ' \in Seq(TaskIds)
        /\ tasks' = tasks /\ deciding' = deciding /\ snapshot' = snapshot
        /\ cloudQ' = cloudQ /\ received' = received
    BY DEF EdgeRestart, cloudVars
  <2> QED  BY <2>1, <2>2, <2>3, <2>4, <2>5 DEF TypeOK
<1>6. ExactlyOnePlace'
  BY <1>3, OnePlaceIsExactlyOnePlace, PTL
<1> QED  BY <1>4, <1>5, <1>6

\* Every other step changes the threads' places or the client only.
LEMMA QuietActions ==
    ASSUME IInv,
           \/ \E s \in Situations : Heartbeat(s)
           \/ \E p \in Pollers : \/ PollSend(p) \/ RequestTimesOut(p) \/ ResponseArrives(p)
                                 \/ PollEnds(p)
           \/ UINext /\ ~Pop
           \/ ClientNext
           \/ UNCHANGED vars
    PROVE  UNCHANGED queueVars
BY DEF Heartbeat, PollSend, RequestTimesOut, ResponseArrives, PollEnds, UINext,
       SetEndpoint, Start, Stop, Joined, Pop, ExecuteSync, ExecuteAsync, Report, RequestCloudReview, CheckHealth, ClientNext,
       WorkerFinished, WorkerEnds, WorkerFails, vars, queueVars, cloudVars, pollVars

\* Completions record results of received tasks.
LEMMA CompleteType ==
    ASSUME TypeOK, NEW i, NEW res \in {"ok", "error", "async", "interrupted"}, Complete(i, res)
    PROVE  outcome' \in [TaskIds -> SUBSET {"ok", "error", "async", "interrupted"}]
BY DEF TypeOK, Complete

\* Every operation of the cloud, the two pollers and the UI keeps the types.
LEMMA TypeOKStep ==
    ASSUME IInv, [Next]_vars
    PROVE  TypeOK'
<1> USE DEF IInv
<1>1. ASSUME NEW s \in Situations, Heartbeat(s) PROVE TypeOK'
  <2>1. Fired(s) \subseteq RuleIds /\ s \subseteq Conditions
    BY SituationsAssumption DEF Fired
  <2> QED  BY <1>1, <2>1 DEF Heartbeat, TypeOK, pollVars, uiVars, clientVars
<1>2. CASE Enqueue
  BY <1>2, EnqueueStep
<1>3. CASE CloudRestart
  <2>1. Elems(cloudQ) \subseteq TaskIds
    BY OnePlaceIsExactlyOnePlace, QueuesHoldTasks DEF OnePlace, Partition
  <2> QED  BY <1>3, <2>1 DEF CloudRestart, TypeOK, pollVars, uiVars, clientVars
<1>4. ASSUME NEW p \in Pollers, PollNext(p) PROVE TypeOK'
  <2>1. CASE PollSend(p)
    <3>1. pc[p] = "idle"
      BY <2>1 DEF PollSend, UIFree
    <3>2. /\ pc' = [pc EXCEPT ![p] = "requested"] /\ batch[p] = <<>>
          /\ UNCHANGED <<cloudVars, batch, abandoned, endpoint, running, edgeQ, uiVars,
                         clientVars, received, outcome, lost>>
      BY <2>1, <3>1 DEF PollSend, TypeOK
    <3> QED  BY <3>1, <3>2 DEF TypeOK, cloudVars, uiVars, clientVars
  <2>2. CASE Drain(p)
    BY <2>2, DrainStep
  <2>3. CASE DrainAbandoned(p)
    <3>1. Elems(cloudQ) \subseteq TaskIds
      BY OnePlaceIsExactlyOnePlace, QueuesHoldTasks DEF OnePlace, Partition
    <3> QED  BY <2>3, <3>1 DEF DrainAbandoned, TypeOK, uiVars, clientVars
  <2>4. CASE RequestTimesOut(p)
    <3>1. abandoned' \in [Pollers -> BOOLEAN]
      BY <2>4 DEF RequestTimesOut, TypeOK
    <3> QED  BY <2>4, <3>1 DEF RequestTimesOut, TypeOK, cloudVars, uiVars, clientVars
  <2>5. CASE ResponseArrives(p)
    BY <2>5 DEF ResponseArrives, TypeOK, cloudVars, uiVars, clientVars
  <2>6. CASE ResponseLost(p)
    BY <2>6, ResponseLostStep
  <2>7. CASE Store(p)
    BY <2>7, StoreStep
  <2>8. CASE PollEnds(p)
    <3>1. DOMAIN pc = Pollers /\ pc' = [pc EXCEPT ![p] = "idle"] /\ batch[p] = <<>>
          /\ batch' = batch
      BY <2>8 DEF PollEnds, TypeOK
    <3>2. pc' \in [Pollers -> {"idle", "requested", "answered", "storing"}]
      BY <3>1 DEF TypeOK
    <3>3. \A x \in Pollers : batch'[x] # <<>> => pc'[x] \in {"answered", "storing"}
      BY <3>1 DEF TypeOK
    <3> QED  BY <2>8, <3>1, <3>2, <3>3 DEF PollEnds, TypeOK, cloudVars, uiVars, clientVars
  <2> QED  BY <1>4, <2>1, <2>2, <2>3, <2>4, <2>5, <2>6, <2>7, <2>8 DEF PollNext
<1>5. CASE UINext
  <2>1. CASE Start \/ Stop \/ Joined
    BY <2>1 DEF Start, Stop, Joined, UIFree, TypeOK, cloudVars, pollVars, uiVars, clientVars
  <2>2. CASE Pop
    BY <2>2, PopStep
  <2>3. CASE ExecuteSync
    BY <2>3 DEF ExecuteSync, TypeOK, cloudVars, pollVars, clientVars
  <2>4. CASE ExecuteAsync
    <3>1. exec \in received /\ ui' = "reporting" /\ exec' = exec /\ exec # None
      BY <2>4 DEF ExecuteAsync, TypeOK
    <3>2. /\ request' \in received \cup {None, Review}
          /\ reachable' = reachable /\ verdict' \in {"error", "async"}
      BY <2>4, <3>1 DEF ExecuteAsync, StartRequest, TypeOK, clientVars
    <3> QED  BY <2>4, <3>1, <3>2 DEF ExecuteAsync, TypeOK, cloudVars, pollVars
  <2>5. CASE Report
    <3>1. outcome' \in [TaskIds -> SUBSET {"ok", "error", "async", "interrupted"}]
      <4>1. verdict \in {"ok", "error", "async", "interrupted"}
        BY <2>5 DEF Report, TypeOK
      <4> QED  BY <2>5, <4>1, CompleteType DEF Report
    <3> QED  BY <2>5, <3>1 DEF Report, TypeOK, cloudVars, pollVars, clientVars
  <2>6. CASE RequestCloudReview
    BY <2>6 DEF RequestCloudReview, StartRequest, TypeOK, cloudVars, pollVars, uiVars,
                clientVars
  <2>7. CASE CheckHealth
    BY <2>7 DEF CheckHealth, TypeOK, cloudVars, pollVars, uiVars
  <2>8. CASE SetEndpoint
    BY <2>8 DEF SetEndpoint, TypeOK, cloudVars, uiVars, clientVars
  <2> QED  BY <1>5, <2>1, <2>2, <2>3, <2>4, <2>5, <2>6, <2>7, <2>8 DEF UINext
<1>6. CASE ClientNext
  <2>1. ASSUME NEW res \in {"ok", "error"}, CallBack(res)
        PROVE  outcome' \in [TaskIds -> SUBSET {"ok", "error", "async", "interrupted"}]
    <3>1. CASE request = Review
      BY <2>1, <3>1 DEF CallBack, TypeOK
    <3>2. CASE request # Review
      BY <2>1, <3>2, CompleteType DEF CallBack
    <3> QED  BY <3>1, <3>2
  <2>2. CASE WorkerFinished
    BY <2>1, <2>2 DEF WorkerFinished, TypeOK, cloudVars, pollVars, uiVars
  <2>3. CASE WorkerEnds
    BY <2>3 DEF WorkerEnds, TypeOK, cloudVars, pollVars, uiVars
  <2>4. CASE WorkerFails
    BY <2>1, <2>4 DEF WorkerFails, TypeOK, cloudVars, pollVars, uiVars
  <2> QED  BY <1>6, <2>2, <2>3, <2>4 DEF ClientNext
<1>7. CASE EdgeRestart
  BY <1>7, EdgeRestartStep
<1>8. CASE UNCHANGED vars
  BY <1>8 DEF vars, TypeOK, cloudVars, pollVars, uiVars, clientVars
<1> QED  BY <1>1, <1>2, <1>3, <1>4, <1>5, <1>6, <1>7, <1>8 DEF Next, CloudNext

\* Every step keeps the inductive invariant: by operation, the ones that move
\* tasks from one place to another first, the others by QuietStep.
LEMMA IInvStep ==
    ASSUME IInv, [Next]_vars
    PROVE  IInv'
<1>1. TypeOK'
  BY TypeOKStep
<1>2. CASE UNCHANGED queueVars
  BY <1>1, <1>2, QuietStep DEF IInv
<1>3. CASE Enqueue
  BY <1>3, EnqueueStep
<1>4. CASE CloudRestart \/ \E p \in Pollers : DrainAbandoned(p)
  <2>1. /\ cloudQ' = <<>> /\ lost' = lost \cup Elems(cloudQ)
        /\ UNCHANGED <<tasks, batch, edgeQ, received>>
    BY <1>4 DEF CloudRestart, DrainAbandoned, pollVars
  <2> QED  BY <1>1, <2>1, CloudLossStep DEF IInv
<1>5. CASE \E p \in Pollers : Drain(p) \/ ResponseLost(p) \/ Store(p)
  BY <1>5, DrainStep, ResponseLostStep, StoreStep
<1>6. CASE Pop
  BY <1>6, PopStep
<1>7. CASE EdgeRestart
  BY <1>7, EdgeRestartStep
<1> QED
  BY <1>2, <1>3, <1>4, <1>5, <1>6, <1>7, QuietActions DEF Next, CloudNext, PollNext, UINext

\* The inductive invariant holds in every reachable state of the task path, for
\* any rules, situations and number of tasks.
THEOREM Invariance == Spec => []IInv
<1>1. IInv /\ [Next]_vars => IInv'
  BY IInvStep
<1> QED  BY InitIInv, <1>1, PTL DEF Spec

\* Type correctness of the task path.
THEOREM TypeCorrect == Spec => []TypeOK
<1>1. IInv => TypeOK
  BY DEF IInv
<1> QED  BY Invariance, <1>1, PTL

\* No task is ever in two places or twice in one, and none is in no place:
\* concurrent polls, late requests, lost responses and restarts included.
THEOREM OnePlaceAlways == Spec => []ExactlyOnePlace
<1>1. IInv => ExactlyOnePlace
  BY DEF IInv
<1> QED  BY Invariance, <1>1, PTL

\* Both queues are sorted by priority whatever the order of enqueues, and the
\* cloud serves equals in the order of their creation.
THEOREM QueueOrderAlways == Spec => []QueueOrder
<1>1. IInv => QueueOrder
  BY DEF IInv
<1> QED  BY Invariance, <1>1, PTL

-----------------------------------------------------------------------------
(* The order of the UI thread and the end of the poll thread.              *)

\* Every received task has been reported before the next one is received.
THEOREM ReportedAlways == Spec => []ReportedInTurn
<1>1. Init => ReportedInTurn
  BY DEF Init, ReportedInTurn
<1>2. ASSUME TypeOK, ReportedInTurn, [Next]_vars
      PROVE  ReportedInTurn'
  <2>1. CASE UNCHANGED <<received, outcome, exec>>
    BY <1>2, <2>1 DEF ReportedInTurn
  <2>2. CASE Pop
    <3>1. exec = None /\ None \notin received
      BY <1>2, <2>2, MaxTasksAssumption DEF Pop, UIFree, TypeOK, TaskIds, None
    <3>2. \A i \in received : outcome[i] # {}
      BY <1>2, <3>1 DEF ReportedInTurn
    <3> QED  BY <2>2, <3>2 DEF Pop, ReportedInTurn
  <2>3. ASSUME NEW i, NEW res, Complete(i, res), received' = received,
               \/ exec' = exec
               \/ i = exec /\ exec \in received
        PROVE  ReportedInTurn'
    <3>1. \A j \in received : outcome[j] # {} => outcome'[j] # {}
      BY <1>2, <2>3 DEF Complete, TypeOK
    <3>2. i \in received => outcome'[i] # {}
      BY <1>2, <2>3 DEF Complete, TypeOK
    <3> QED  BY <1>2, <2>3, <3>1, <3>2 DEF ReportedInTurn
  <2>4. CASE Report
    <3>1. exec \in received
      BY <1>2, <2>4 DEF Report, TypeOK
    <3> QED  BY <2>3, <2>4, <3>1 DEF Report
  <2>5. CASE WorkerFinished \/ WorkerFails
    <3>1. received' = received /\ exec' = exec
      BY <2>5 DEF WorkerFinished, WorkerFails, uiVars
    <3>2. PICK res \in {"ok", "error"} : CallBack(res)
      BY <2>5 DEF WorkerFinished, WorkerFails
    <3>3. CASE request = Review
      BY <2>1, <3>1, <3>2, <3>3 DEF CallBack
    <3>4. CASE request # Review
      BY <2>3, <3>1, <3>2, <3>4 DEF CallBack
    <3> QED  BY <3>3, <3>4
  <2>6. CASE EdgeRestart
    <3>1. CASE exec = None
      <4>1. \A i \in received : i # None
        BY <1>2, MaxTasksAssumption DEF TypeOK, TaskIds, None
      <4> QED  BY <1>2, <2>6, <3>1, <4>1 DEF EdgeRestart, ReportedInTurn
    <3>2. CASE exec # None
      <4>1. Complete(exec, "interrupted") /\ received' = received /\ exec \in received
        BY <1>2, <2>6, <3>2 DEF EdgeRestart, Complete, TypeOK
      <4> QED  BY <2>3, <4>1
    <3> QED  BY <3>1, <3>2
  <2>7. \/ UNCHANGED <<received, outcome, exec>>
        \/ Pop \/ Report \/ WorkerFinished \/ WorkerFails \/ EdgeRestart
    BY <1>2 DEF Next, CloudNext, PollNext, UINext, ClientNext, Heartbeat, Enqueue,
       CloudRestart, PollSend, Drain, DrainAbandoned, RequestTimesOut, ResponseArrives,
       ResponseLost, Store, PollEnds, SetEndpoint, Start, Stop, Joined, ExecuteSync, ExecuteAsync,
       RequestCloudReview, CheckHealth, WorkerEnds, vars, uiVars
  <2> QED  BY <2>1, <2>2, <2>4, <2>5, <2>6, <2>7
<1> QED  BY <1>1, <1>2, TypeCorrect, PTL DEF Spec

\* After stop() has returned the poll thread is not in a poll.
THEOREM QuietAlways == Spec => []QuietAfterStop
<1>1. Init => QuietAfterStop
  BY DEF Init, QuietAfterStop, Pollers
<1>2. ASSUME TypeOK, QuietAfterStop, [Next]_vars
      PROVE  QuietAfterStop'
  <2> USE <1>2 DEF QuietAfterStop
  <2>1. CASE UNCHANGED <<pc, running, ui>>
    BY <2>1
  <2>2. CASE \E p \in Pollers : PollSend(p)
    BY <2>2 DEF PollSend, UI, Background, Pollers, uiVars, TypeOK
  <2>3. CASE \E p \in Pollers : Drain(p) \/ RequestTimesOut(p) \/ ResponseArrives(p)
                               \/ ResponseLost(p) \/ PollEnds(p)
    <3>1. PICK p \in Pollers : \/ Drain(p) \/ RequestTimesOut(p) \/ ResponseArrives(p)
                               \/ ResponseLost(p) \/ PollEnds(p)
      BY <2>3
    <3>2. \E x : pc' = [pc EXCEPT ![p] = x]
      BY <3>1 DEF Drain, RequestTimesOut, ResponseArrives, ResponseLost, PollEnds
    <3>3. pc[p] # "idle" /\ running' = running /\ ui' = ui
      BY <3>1 DEF Drain, RequestTimesOut, ResponseArrives, ResponseLost, PollEnds, uiVars
    <3> QED  BY <3>2, <3>3 DEF TypeOK
  <2>4. CASE Start \/ Stop \/ Joined
    BY <2>4 DEF Start, Stop, Joined, pollVars
  <2>5. CASE Pop \/ ExecuteSync \/ ExecuteAsync \/ Report
    BY <2>5 DEF Pop, ExecuteSync, ExecuteAsync, Report, pollVars, UIFree
  <2>6. CASE EdgeRestart
    BY <2>6 DEF EdgeRestart, Pollers
  <2> QED  BY <2>1, <2>2, <2>3, <2>4, <2>5, <2>6 DEF Next, CloudNext, PollNext, UINext,
              ClientNext, Heartbeat, Enqueue, CloudRestart, DrainAbandoned, Store,
              SetEndpoint, RequestCloudReview, CheckHealth, WorkerFinished, WorkerEnds, WorkerFails,
              vars, pollVars, uiVars
<1> QED  BY <1>1, <1>2, TypeCorrect, PTL DEF Spec

-----------------------------------------------------------------------------
(* The task path implements TaskDelivery.                                  *)

\* Every step is a creation, a reception, a loss or a stutter of TaskDelivery.
THEOREM Refinement == Spec => AtMostOnceDelivery
<1>1. Init => Delivery!Init
  BY EmptyQueue DEF Init, Delivery!Init, InTransit, Pollers
<1>2. ASSUME IInv, IInv', [Next]_vars
      PROVE  [Delivery!Next]_Delivery!vars
  <2>1. OnePlace
    BY <1>2, OnePlaceIsExactlyOnePlace DEF IInv
  <2>2. OnePlace'
    BY <1>2, OnePlaceIsExactlyOnePlace, PTL DEF IInv
  <2>3. /\ InTransit \cup received \cup lost = 1..Len(tasks)
        /\ InTransit \cap received = {} /\ InTransit \cap lost = {}
        /\ received \cap lost = {}
    BY <2>1 DEF OnePlace, Partition, InTransit
  <2>4. /\ InTransit' \cup received' \cup lost' = 1..Len(tasks')
        /\ InTransit' \cap received' = {} /\ InTransit' \cap lost' = {}
        /\ received' \cap lost' = {}
    BY <2>2 DEF OnePlace, Partition, InTransit
  <2>5. 1..Len(tasks) \subseteq TaskIds /\ 1..Len(tasks') \subseteq TaskIds
        /\ Len(tasks) \in Nat
    BY <1>2, MaxTasksAssumption DEF IInv, TypeOK, TaskIds
  <2>6. CASE Enqueue
    <3>1. received' = received /\ lost' = lost /\ Len(tasks') = Len(tasks) + 1
      BY <1>2, <2>6 DEF Enqueue, IInv, TypeOK
    <3>2. 1..Len(tasks') = 1..Len(tasks) \cup {Len(tasks) + 1}
          /\ Len(tasks) + 1 \notin 1..Len(tasks)
      BY <3>1, <2>5
    <3>3. Delivery!Create(Len(tasks) + 1)
      BY <2>3, <2>4, <3>1, <3>2 DEF Delivery!Create
    <3> QED  BY <2>5, <3>2, <3>3 DEF Delivery!Next
  <2>7. CASE Pop
    <3>1. Head(edgeQ) \in TaskIds /\ Head(edgeQ) \in InTransit
      <4>1. edgeQ \in Seq(TaskIds) /\ edgeQ # <<>> /\ TaskIds \in SUBSET Nat
        BY <1>2, <2>7 DEF Pop, IInv, TypeOK, TaskIds
      <4>2. Head(edgeQ) \in TaskIds /\ Head(edgeQ) \in Elems(edgeQ)
        BY <4>1, TailProperties
      <4> QED  BY <4>2 DEF InTransit
    <3>2. tasks' = tasks /\ received' = received \cup {Head(edgeQ)} /\ lost' = lost
      BY <2>7 DEF Pop, cloudVars
    <3>3. Delivery!Receive(Head(edgeQ))
      BY <2>3, <2>4, <3>1, <3>2 DEF Delivery!Receive
    <3> QED  BY <3>1, <3>3 DEF Delivery!Next
  <2>8. CASE tasks' = tasks /\ received' = received /\ lost \subseteq lost'
    <3>1. Delivery!Lose(lost' \ lost)
      BY <2>3, <2>4, <2>8 DEF Delivery!Lose
    <3>2. lost' \ lost \in SUBSET TaskIds
      BY <2>4, <2>5
    <3> QED  BY <3>1, <3>2 DEF Delivery!Next
  <2>9. \/ Enqueue \/ Pop
        \/ tasks' = tasks /\ received' = received /\ lost \subseteq lost'
    BY <1>2 DEF Next, CloudNext, PollNext, UINext, ClientNext, Heartbeat, CloudRestart,
       PollSend, Drain, DrainAbandoned, RequestTimesOut, ResponseArrives, ResponseLost,
       Store, PollEnds, SetEndpoint, Start, Stop, Joined, ExecuteSync, ExecuteAsync,
       Report, RequestCloudReview,
       CheckHealth, WorkerFinished, WorkerEnds, WorkerFails, EdgeRestart, vars, cloudVars
  <2> QED  BY <2>6, <2>7, <2>8, <2>9
<1> QED  BY <1>1, <1>2, Invariance, PTL DEF Spec, AtMostOnceDelivery, Delivery!Spec

-----------------------------------------------------------------------------
(* What the two insertions are given.                                      *)

\* The cloud inserts the youngest task into a sorted queue of older ones.
LEMMA EnqueueInserts ==
    ASSUME IInv, Enqueue
    PROVE  /\ tasks' \in Seq(Decision) /\ Len(tasks') = Len(tasks) + 1
           /\ cloudQ' = StableInsert(tasks', cloudQ, Len(tasks) + 1)
           /\ ByUrgency(tasks', cloudQ) /\ cloudQ \in Seq(1..Len(tasks))
           /\ Len(tasks) \in Nat /\ Len(tasks) + 1 \notin Elems(cloudQ)
           /\ Elems(cloudQ') = Elems(cloudQ) \cup {Len(tasks) + 1}
<1>1. OnePlace
  BY OnePlaceIsExactlyOnePlace DEF IInv
<1>2. cloudQ \in Seq(1..Len(tasks)) /\ Len(tasks) \in Nat
  BY <1>1, QueuesHoldTasks DEF IInv
<1>3. PICK k \in deciding :
        /\ tasks' = Append(tasks, [type |-> Rules[k].type, priority |-> Rules[k].priority])
        /\ cloudQ' = StableInsert(tasks', cloudQ, Len(tasks) + 1)
  BY DEF Enqueue
<1> DEFINE d == [type |-> Rules[k].type, priority |-> Rules[k].priority]
<1>4. d \in Decision
  BY DEF IInv, TypeOK, RuleIds, Rules, Decision, AsyncTypes
<1>5. tasks' = Append(tasks, d)
  BY <1>3
<1> HIDE DEF d
<1>6. tasks \in Seq(Decision)
  BY DEF IInv, TypeOK
<1>7. tasks' \in Seq(Decision) /\ Len(tasks') = Len(tasks) + 1
  BY <1>4, <1>5, <1>6
<1>8. ByUrgency(tasks, cloudQ)
  BY DEF IInv, QueueOrder
<1>9. ByUrgency(tasks', cloudQ)
  BY <1>2, <1>4, <1>5, <1>6, <1>8, AppendKeepsOrder
<1>10. Len(tasks) + 1 \notin Elems(cloudQ)
  <2>1. Elems(cloudQ) \subseteq 1..Len(tasks)
    BY <1>1 DEF OnePlace, Partition
  <2> QED  BY <1>2, <2>1
<1> DEFINE new == Len(tasks) + 1
<1>11. Elems(cloudQ') = Elems(cloudQ) \cup {new}
  <2>1. Len(tasks) <= Len(tasks') /\ new \in 1..Len(tasks')
    BY <1>2, <1>7
  <2>2. cloudQ' = StableInsert(tasks', cloudQ, new)
    BY <1>3
  <2> HIDE DEF new
  <2> QED  BY <1>2, <1>7, <1>9, <2>1, <2>2, InsertProperties
<1> QED  BY <1>2, <1>3, <1>7, <1>9, <1>10, <1>11

\* The edge inserts the head of a response, a task it has not, into its sorted queue.
LEMMA StoreInserts ==
    ASSUME IInv, NEW p \in Pollers, Store(p)
    PROVE  /\ tasks' = tasks /\ tasks \in Seq(Decision)
           /\ edgeQ' = StableInsert(tasks, edgeQ, Head(batch[p]))
           /\ ByUrgency(tasks, edgeQ) /\ edgeQ \in Seq(1..Len(tasks))
           /\ Len(tasks) \in Nat /\ Head(batch[p]) \in 1..Len(tasks)
           /\ Head(batch[p]) \notin Elems(edgeQ)
           /\ Elems(edgeQ') = Elems(edgeQ) \cup {Head(batch[p])}
<1>1. OnePlace
  BY OnePlaceIsExactlyOnePlace DEF IInv
<1>2. /\ edgeQ \in Seq(1..Len(tasks)) /\ batch[p] \in Seq(1..Len(tasks))
      /\ Len(tasks) \in Nat
  BY <1>1, QueuesHoldTasks DEF IInv
<1>3. batch[p] # <<>>
  BY Zenon DEF Store, IInv, TypeOK
<1>4. Head(batch[p]) \in 1..Len(tasks) /\ Head(batch[p]) \in Elems(batch[p])
  <2>1. 1..Len(tasks) \in SUBSET Nat
    BY <1>2
  <2> QED  BY <1>2, <1>3, <2>1, TailProperties
<1>5. Elems(batch[p]) \cap Elems(edgeQ) = {}
  BY <1>1 DEF OnePlace, Partition, Pollers
<1>6. tasks \in Seq(Decision) /\ ByUrgency(tasks, edgeQ)
  BY DEF IInv, TypeOK, QueueOrder
<1>7. tasks' = tasks /\ edgeQ' = StableInsert(tasks, edgeQ, Head(batch[p]))
  BY DEF Store, cloudVars
<1> DEFINE i == Head(batch[p])
<1>8. Elems(edgeQ') = Elems(edgeQ) \cup {i}
  <2>1. Len(tasks) <= Len(tasks)
    BY <1>2
  <2>2. /\ tasks \in Seq(Decision) /\ edgeQ \in Seq(1..Len(tasks)) /\ Len(tasks) \in Nat
        /\ i \in 1..Len(tasks) /\ edgeQ' = StableInsert(tasks, edgeQ, i)
        /\ ByUrgency(tasks, edgeQ)
    BY <1>2, <1>4, <1>6, <1>7
  <2> HIDE DEF i
  <2> QED  BY <2>1, <2>2, InsertProperties
<1> QED  BY <1>2, <1>4, <1>5, <1>6, <1>7, <1>8

-----------------------------------------------------------------------------
(* No way back along the path.                                             *)

\* A task moves along the path only: from the cloud's queue into a response, from
\* a response into the edge's queue (never into the other thread's response, and
\* never back to the cloud), from there to the application; and it is lost only
\* before the application has it.
ForwardOnly ==
    [][/\ Elems(cloudQ) \subseteq
            Elems(cloudQ') \cup Elems(batch'[UI]) \cup Elems(batch'[Background]) \cup lost'
       /\ \A p \in Pollers :
            Elems(batch[p]) \subseteq Elems(batch'[p]) \cup Elems(edgeQ') \cup lost'
       /\ Elems(edgeQ) \subseteq Elems(edgeQ') \cup received' \cup lost'
       /\ received \subseteq received' /\ lost \subseteq lost']_vars

\* What a step of the path may do to a place, from the lemmas on queues.
LEMMA HeadLeaves ==
    ASSUME NEW q \in Seq(TaskIds), q # <<>>
    PROVE  Elems(q) = Elems(Tail(q)) \cup {Head(q)}
<1>1. TaskIds \in SUBSET Nat
  BY MaxTasksAssumption DEF TaskIds
<1> QED  BY <1>1, TailProperties

\* No retry, late request, timeout or restart of either side takes a task back to
\* a place it has left (enqueue, drain, poll_cloud_tasks, process_queue).
THEOREM ForwardOnlyAlways == Spec => ForwardOnly
<1> DEFINE Step ==
      /\ Elems(cloudQ) \subseteq
           Elems(cloudQ') \cup Elems(batch'[UI]) \cup Elems(batch'[Background]) \cup lost'
      /\ \A p \in Pollers :
           Elems(batch[p]) \subseteq Elems(batch'[p]) \cup Elems(edgeQ') \cup lost'
      /\ Elems(edgeQ) \subseteq Elems(edgeQ') \cup received' \cup lost'
      /\ received \subseteq received' /\ lost \subseteq lost'
<1>1. ASSUME IInv, IInv', Next PROVE Step
  <2>1. /\ cloudQ \in Seq(TaskIds) /\ edgeQ \in Seq(TaskIds)
        /\ \A p \in Pollers : batch[p] \in Seq(TaskIds)
        /\ DOMAIN batch = Pollers
        /\ \A p \in Pollers : batch[p] # <<>> => pc[p] \in {"answered", "storing"}
    BY <1>1, Zenon DEF IInv, TypeOK
  <2>2. UI \in Pollers /\ Background \in Pollers /\ UI # Background
        /\ \A p \in Pollers : p = UI \/ p = Background
    BY DEF Pollers, UI, Background
  <2>3. CASE Enqueue
    <3>1. batch' = batch /\ edgeQ' = edgeQ /\ received' = received /\ lost' = lost
      BY <2>3 DEF Enqueue, pollVars
    <3>2. Elems(cloudQ') = Elems(cloudQ) \cup {Len(tasks) + 1}
      BY <1>1, <2>3, EnqueueInserts
    <3> QED  BY <3>1, <3>2
  <2>4. ASSUME NEW p \in Pollers, Drain(p) PROVE Step
    <3>1. /\ batch' = [batch EXCEPT ![p] = cloudQ] /\ batch[p] = <<>>
          /\ edgeQ' = edgeQ /\ received' = received /\ lost' = lost
      BY <2>1, <2>4 DEF Drain
    <3>2. batch'[p] = cloudQ /\ \A x \in Pollers : x # p => batch'[x] = batch[x]
      BY <2>1, <3>1
    <3>3. Elems(batch[p]) = {}
      BY <3>1, EmptyQueue
    <3> QED  BY <2>2, <3>1, <3>2, <3>3
  <2>5. ASSUME NEW p \in Pollers, ResponseLost(p) PROVE Step
    <3>1. /\ batch' = [batch EXCEPT ![p] = <<>>] /\ cloudQ' = cloudQ
          /\ edgeQ' = edgeQ /\ received' = received /\ lost' = lost \cup Elems(batch[p])
      BY <2>5 DEF ResponseLost, cloudVars
    <3>2. \A x \in Pollers : x # p => batch'[x] = batch[x]
      BY <2>1, <3>1
    <3> QED  BY <2>2, <3>1, <3>2
  <2>6. ASSUME NEW p \in Pollers, Store(p) PROVE Step
    <3>1. /\ batch' = [batch EXCEPT ![p] = Tail(batch[p])] /\ cloudQ' = cloudQ
          /\ edgeQ' = StableInsert(tasks, edgeQ, Head(batch[p]))
          /\ received' = received /\ lost' = lost /\ batch[p] # <<>>
      BY <2>1, <2>6 DEF Store, cloudVars
    <3>2. Elems(batch[p]) = Elems(Tail(batch[p])) \cup {Head(batch[p])}
      BY <2>1, <3>1, HeadLeaves
    <3>3. Elems(edgeQ') = Elems(edgeQ) \cup {Head(batch[p])}
      BY <1>1, <2>6, StoreInserts
    <3>4. batch'[p] = Tail(batch[p]) /\ \A x \in Pollers : x # p => batch'[x] = batch[x]
      BY <2>1, <3>1
    <3> QED  BY <2>2, <3>1, <3>2, <3>3, <3>4
  <2>7. CASE Pop
    <3>1. /\ edgeQ' = Tail(edgeQ) /\ edgeQ # <<>> /\ cloudQ' = cloudQ /\ batch' = batch
          /\ received' = received \cup {Head(edgeQ)} /\ lost' = lost
      BY <2>7 DEF Pop, cloudVars, pollVars
    <3> QED  BY <2>1, <3>1, HeadLeaves
  <2>8. CASE \E p \in Pollers : DrainAbandoned(p)
    BY <2>8 DEF DrainAbandoned
  <2>9. CASE CloudRestart
    BY <2>9 DEF CloudRestart, pollVars
  <2>10. CASE EdgeRestart
    <3>1. /\ cloudQ' = cloudQ /\ received' = received
          /\ lost' = lost \cup Elems(edgeQ) \cup Elems(batch[UI]) \cup Elems(batch[Background])
      BY <2>10 DEF EdgeRestart, cloudVars
    <3> QED  BY <2>2, <3>1
  <2>11. CASE UNCHANGED queueVars
    BY <2>11 DEF queueVars
  <2>12. \/ Enqueue \/ Pop \/ CloudRestart \/ EdgeRestart
         \/ \E p \in Pollers : Drain(p) \/ DrainAbandoned(p) \/ ResponseLost(p) \/ Store(p)
         \/ UNCHANGED queueVars
    BY <1>1, QuietActions DEF Next, CloudNext, PollNext, UINext, ClientNext
  <2> HIDE DEF Step
  <2> QED  BY <2>3, <2>4, <2>5, <2>6, <2>7, <2>8, <2>9, <2>10, <2>11, <2>12
<1>2. ASSUME IInv, IInv', [Next]_vars PROVE [Step]_vars
  BY <1>1, <1>2
<1> QED  BY <1>2, Invariance, PTL DEF Spec, ForwardOnly

-----------------------------------------------------------------------------
(* No overtaking but by urgency.                                           *)

\* i is ahead of j in q.
Before(q, i, j) == \E m, n \in DOMAIN q : m < n /\ q[m] = i /\ q[n] = j

\* Whoever stays in a queue keeps its place relative to the others who stay, and a
\* newcomer gets ahead of one who stays only by a strictly higher priority.
KeepsOrder(ts, q, r) ==
    /\ \A i, j \in Elems(q) \cap Elems(r) : Before(q, i, j) => Before(r, i, j)
    /\ \A i \in Elems(q) \cap Elems(r), k \in Elems(r) \ Elems(q) :
          Before(r, k, i) => ts[k].priority > ts[i].priority

\* A task waits in the cloud's or the edge's queue behind no task that came after it
\* unless that one is more urgent: polls of two threads, insertions and receptions
\* leave the order of those already waiting as it is.
NoOvertaking ==
    [][KeepsOrder(tasks', cloudQ, cloudQ') /\ KeepsOrder(tasks', edgeQ, edgeQ')]_vars

\* A queue that is left alone or emptied keeps its order.
LEMMA TrivialOrder ==
    ASSUME NEW ts, NEW q
    PROVE  KeepsOrder(ts, q, q) /\ KeepsOrder(ts, q, <<>>)
BY EmptyQueue DEF KeepsOrder

\* A stable insertion keeps the order, and puts the new task ahead of the less
\* urgent ones only.
LEMMA InsertKeepsOrder ==
    ASSUME NEW N \in Nat, NEW ts \in Seq(Decision), N <= Len(ts),
           NEW q \in Seq(1..N), ByUrgency(ts, q), NEW i \in 1..Len(ts),
           i \notin Elems(q),
           NEW r, r = StableInsert(ts, q, i)
    PROVE  KeepsOrder(ts, q, r)
<1> DEFINE prio(j) == ts[j].priority
<1>1. Len(q) \in Nat /\ DOMAIN q = 1..Len(q)
  OBVIOUS
<1>2. PICK k \in 0..Len(q) :
        /\ IsCut(ts, q, i, k)
        /\ r = [n \in 1..(Len(q) + 1) |->
                  IF n <= k THEN q[n] ELSE IF n = k + 1 THEN i ELSE q[n - 1]]
  <2>1. \E k \in 0..Len(q) :
           /\ IsCut(ts, q, i, k)
           /\ StableInsert(ts, q, i) =
                [n \in 1..(Len(q) + 1) |->
                   IF n <= k THEN q[n] ELSE IF n = k + 1 THEN i ELSE q[n - 1]]
    BY InsertAtCut
  <2>2. r = StableInsert(ts, q, i)
    OBVIOUS
  <2> QED  BY ONLY <2>1, <2>2
<1>3. /\ DOMAIN r = 1..(Len(q) + 1) /\ k \in Nat
      /\ \A n \in 1..Len(q) : n <= k => n \in DOMAIN r /\ r[n] = q[n]
      /\ \A n \in 1..Len(q) : n > k => n + 1 \in DOMAIN r /\ r[n + 1] = q[n]
  BY <1>1, <1>2
<1>4. Elems(r) = Elems(q) \cup {i}
  BY InsertProperties
<1>5. ASSUME NEW a, NEW b, Before(q, a, b) PROVE Before(r, a, b)
  <2>1. PICK m \in 1..Len(q), n \in 1..Len(q) : m < n /\ q[m] = a /\ q[n] = b
    BY <1>1, <1>5 DEF Before
  <2>2. CASE n <= k
    <3>1. m \in DOMAIN r /\ r[m] = a /\ n \in DOMAIN r /\ r[n] = b
      BY <1>1, <1>3, <2>1, <2>2
    <3> QED  BY <2>1, <3>1 DEF Before
  <2>3. CASE m <= k /\ n > k
    <3>1. m \in DOMAIN r /\ r[m] = a /\ n + 1 \in DOMAIN r /\ r[n + 1] = b /\ m < n + 1
      BY <1>1, <1>3, <2>1, <2>3
    <3> QED  BY <3>1 DEF Before
  <2>4. CASE m > k
    <3>1. /\ m + 1 \in DOMAIN r /\ r[m + 1] = a /\ n + 1 \in DOMAIN r /\ r[n + 1] = b
          /\ m + 1 < n + 1
      BY <1>1, <1>3, <2>1, <2>4
    <3> QED  BY <3>1 DEF Before
  <2> QED  BY <1>3, <2>1, <2>2, <2>3, <2>4
<1>6. ASSUME NEW a \in Elems(q), Before(r, i, a) PROVE prio(i) > prio(a)
  <2>1. PICK m \in 1..(Len(q) + 1), n \in 1..(Len(q) + 1) : m < n /\ r[m] = i /\ r[n] = a
    BY <1>3, <1>6 DEF Before
  <2>2. \A x \in 1..Len(q) : q[x] # i
    BY <1>1 DEF Elems
  <2>3. m = k + 1
    <3>1. m <= k => m \in 1..Len(q) /\ r[m] = q[m]
      BY <1>1, <1>2, <1>3
    <3>2. m > k + 1 => m - 1 \in 1..Len(q) /\ r[m] = q[m - 1]
      BY <1>1, <1>2, <1>3
    <3> QED  BY <2>1, <2>2, <3>1, <3>2, <1>3
  <2>4. n - 1 \in 1..Len(q) /\ a = q[n - 1] /\ ~(n - 1 <= k)
    BY <1>1, <1>2, <1>3, <2>1, <2>3
  <2>5. ~(prio(q[n - 1]) >= prio(i))
    BY <1>1, <1>2, <2>4 DEF IsCut
  <2>6. prio(i) \in Int /\ prio(a) \in Int
    <3>1. a \in 1..Len(ts)
      BY <2>4
    <3>2. ts[i] \in Decision /\ ts[a] \in Decision
      BY <3>1
    <3> QED  BY <3>2 DEF Decision
  <2> HIDE DEF prio
  <2> QED  BY <2>4, <2>5, <2>6
<1> QED  BY <1>4, <1>5, <1>6 DEF KeepsOrder

\* The reception of the first task leaves the order of the others.
LEMMA TailKeepsOrder ==
    ASSUME NEW ts, NEW q \in Seq(TaskIds), q # <<>>, Distinct(q)
    PROVE  KeepsOrder(ts, q, Tail(q))
<1>1. TaskIds \in SUBSET Nat
  BY MaxTasksAssumption DEF TaskIds
<1>2. Elems(q) = Elems(Tail(q)) \cup {Head(q)} /\ Head(q) \notin Elems(Tail(q))
  BY <1>1, TailProperties
<1>3. /\ Len(q) \in Nat /\ DOMAIN q = 1..Len(q) /\ Head(q) = q[1]
      /\ DOMAIN Tail(q) = 1..(Len(q) - 1)
      /\ \A n \in 1..Len(q) : n > 1 => n - 1 \in DOMAIN Tail(q) /\ Tail(q)[n - 1] = q[n]
  <2>1. Tail(q) \in Seq(TaskIds) /\ Len(Tail(q)) = Len(q) - 1
        /\ \A n \in 1..(Len(q) - 1) : Tail(q)[n] = q[n + 1]
    BY HeadTailProperties
  <2> QED  BY <2>1
<1>4. ASSUME NEW a \in Elems(Tail(q)), NEW b, Before(q, a, b) PROVE Before(Tail(q), a, b)
  <2>1. PICK m \in 1..Len(q), n \in 1..Len(q) : m < n /\ q[m] = a /\ q[n] = b
    BY <1>3, <1>4 DEF Before
  <2>2. m # 1
    BY <1>2, <1>3, <2>1
  <2>3. /\ m - 1 \in DOMAIN Tail(q) /\ Tail(q)[m - 1] = a
        /\ n - 1 \in DOMAIN Tail(q) /\ Tail(q)[n - 1] = b /\ m - 1 < n - 1
    BY <1>3, <2>1, <2>2
  <2> QED  BY <2>3 DEF Before
<1> QED  BY <1>2, <1>4 DEF KeepsOrder

\* Nobody is overtaken in a queue but by a more urgent task (StableInsert of
\* enqueue on both sides, drain, process_queue).
THEOREM NoOvertakingAlways == Spec => NoOvertaking
<1> DEFINE Step == KeepsOrder(tasks', cloudQ, cloudQ') /\ KeepsOrder(tasks', edgeQ, edgeQ')
<1>1. ASSUME IInv, Next PROVE Step
  <2>1. CASE Enqueue
    <3> DEFINE new == Len(tasks) + 1
    <3>1. /\ tasks' \in Seq(Decision) /\ Len(tasks') = new
          /\ cloudQ' = StableInsert(tasks', cloudQ, new)
          /\ ByUrgency(tasks', cloudQ) /\ cloudQ \in Seq(1..Len(tasks))
          /\ Len(tasks) \in Nat /\ new \notin Elems(cloudQ)
      BY <1>1, <2>1, EnqueueInserts
    <3>2. new \in 1..Len(tasks') /\ Len(tasks) <= Len(tasks')
      BY <3>1
    <3>3. edgeQ' = edgeQ
      BY <2>1 DEF Enqueue
    <3> HIDE DEF new
    <3>4. KeepsOrder(tasks', cloudQ, cloudQ')
      BY <3>1, <3>2, InsertKeepsOrder
    <3> QED  BY <3>3, <3>4, TrivialOrder
  <2>2. ASSUME NEW p \in Pollers, Store(p) PROVE Step
    <3> DEFINE i == Head(batch[p])
    <3>1. /\ tasks' = tasks /\ tasks \in Seq(Decision)
          /\ edgeQ' = StableInsert(tasks, edgeQ, i)
          /\ ByUrgency(tasks, edgeQ) /\ edgeQ \in Seq(1..Len(tasks))
          /\ Len(tasks) \in Nat /\ i \in 1..Len(tasks) /\ i \notin Elems(edgeQ)
      BY <1>1, <2>2, StoreInserts
    <3>2. Len(tasks) <= Len(tasks)
      BY <3>1
    <3>3. cloudQ' = cloudQ
      BY <2>2 DEF Store, cloudVars
    <3> HIDE DEF i
    <3>4. KeepsOrder(tasks, edgeQ, edgeQ')
      BY <3>1, <3>2, InsertKeepsOrder
    <3> QED  BY <3>1, <3>3, <3>4, TrivialOrder
  <2>3. CASE Pop
    <3>1. edgeQ' = Tail(edgeQ) /\ edgeQ # <<>> /\ cloudQ' = cloudQ
      BY <2>3 DEF Pop, cloudVars
    <3>2. edgeQ \in Seq(TaskIds) /\ Distinct(edgeQ)
      BY <1>1 DEF IInv, TypeOK, ExactlyOnePlace
    <3> QED  BY <3>1, <3>2, TailKeepsOrder, TrivialOrder
  <2>4. CASE /\ cloudQ' = cloudQ \/ cloudQ' = <<>>
             /\ edgeQ' = edgeQ \/ edgeQ' = <<>>
    BY <2>4, TrivialOrder
  <2>5. \/ Enqueue \/ Pop \/ CloudRestart \/ EdgeRestart
        \/ \E p \in Pollers : Drain(p) \/ DrainAbandoned(p) \/ ResponseLost(p) \/ Store(p)
        \/ UNCHANGED queueVars
    BY <1>1, QuietActions DEF Next, CloudNext, PollNext, UINext, ClientNext
  <2>6. ASSUME \/ CloudRestart \/ EdgeRestart \/ UNCHANGED queueVars
               \/ \E p \in Pollers : Drain(p) \/ DrainAbandoned(p) \/ ResponseLost(p)
        PROVE  /\ cloudQ' = cloudQ \/ cloudQ' = <<>>
               /\ edgeQ' = edgeQ \/ edgeQ' = <<>>
    BY <2>6 DEF CloudRestart, EdgeRestart, queueVars, Drain, DrainAbandoned, ResponseLost,
       cloudVars
  <2> HIDE DEF Step
  <2> QED  BY <2>1, <2>2, <2>3, <2>4, <2>5, <2>6
<1>2. ASSUME IInv, [Next]_vars PROVE [Step]_vars
  BY <1>1, <1>2
<1> QED  BY <1>2, Invariance, PTL DEF Spec, NoOvertaking
=============================================================================
