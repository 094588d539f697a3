--------------------------- MODULE EngineKV_proofs ---------------------------
(***************************************************************************)
(* Proofs about EngineKV for any settings, any sizes and any tokens:       *)
(* TypeOK, InStep, the two properties of the context shift, and that the   *)
(* work of a generation is bounded.                                        *)
(*                                                                         *)
(* InStep is not inductive: IInv adds what holds between the steps of a    *)
(* shift (InOrder) and between the two halves of a replacement             *)
(* (HalfwayInv), that the undisturbed memory is within the context, and    *)
(* that the positions are bounded, without which the largest one need not  *)
(* exist.                                                                  *)
(***************************************************************************)
EXTENDS EngineKV, SequenceTheorems, FiniteSetTheorems, WellFoundedInduction, TLAPS

Places == {"idle", "prompt", "prompted", "prompt_counted", "loop", "full", "removed",
           "moved", "erased", "token", "decoded", "token_counted", "aborted"}

\* The parts of the type invariant.
SettingsOK ==
    /\ n_ctx \in Contexts /\ n_keep \in Keeps /\ n_predict \in Predicts
    /\ context \in [cells : Nat, batch : Nat] /\ can_shift \in BOOLEAN
MemOK(mem) ==
    /\ mem \in [DOMAIN mem -> Tokens]
    /\ \E b \in Nat : DOMAIN mem \subseteq 0..b
CountersOK == n_past \in Int /\ cached \in Seq(Tokens)
WorkOK ==
    /\ pc \in Places
    /\ batch \in Seq(Tokens)
    /\ pc \in {"prompted", "prompt_counted", "token", "decoded", "token_counted"}
          => batch # <<>>
    /\ n_generated \in Nat /\ discard \in Nat
DeskOK ==
    /\ ui \in {"free", "replacing"} /\ target \in Seq(Tokens)
    /\ disturbed \in BOOLEAN

\* What a shift leaves of the tokens.
Kept == SubSeq(cached, 1, n_keep) \o SubSeq(cached, n_keep + discard + 1, Len(cached))

\* The memory at each step, and its tokens are within the context.
MemoryIs ==
    /\ kv = CASE pc = "removed" -> SeqRm(Cells(cached), n_keep, n_keep + discard)
              [] pc = "moved" -> Cells(Kept)
              [] OTHER -> Cells(cached \o Outstanding)
    /\ Len(cached \o Outstanding) <= context.cells

\* The count behind it.
CountIs == n_past = IF pc = "erased" THEN Len(cached) + discard ELSE Len(cached) + Counted

\* A shift discards something, and at most half of what it need not keep.
ShiftIs ==
    /\ pc \in {"full", "removed", "moved"} =>
          /\ discard > 0 /\ n_keep + discard <= Len(cached)
          /\ 2 * discard <= Len(cached) - n_keep
    /\ pc = "erased" => discard > 0 /\ Len(cached) + discard <= context.cells

InOrder == MemoryIs /\ CountIs /\ ShiftIs

\* The places at which the engine has nothing half done.
Calm == pc \in {"idle", "prompt", "loop", "token", "aborted"}

InStepInv == (ui = "free" /\ ~disturbed) => InOrder
HalfwayInv ==
    (ui = "replacing" /\ ~disturbed)
        => Calm /\ kv = Cells(target) /\ Len(target) <= context.cells

TypeInv == SettingsOK /\ MemOK(kv) /\ CountersOK /\ WorkOK /\ DeskOK
IInv == TypeInv /\ InStepInv /\ HalfwayInv

\* The invariant implies the properties that the run engine_kv checks.
LEMMA IInvParts == IInv => TypeOK /\ InStep
<1> SUFFICES ASSUME IInv PROVE TypeOK /\ InStep
  OBVIOUS
<1>1. DOMAIN kv \in SUBSET Nat /\ \A p \in DOMAIN kv : kv[p] \in Tokens
  <2>1. PICK b \in Nat : DOMAIN kv \subseteq 0..b
    BY DEF IInv, TypeInv, MemOK
  <2>2. kv \in [DOMAIN kv -> Tokens]
    BY DEF IInv, TypeInv, MemOK
  <2> QED  BY <2>1, <2>2
<1>2. TypeOK
  BY <1>1 DEF IInv, TypeInv, TypeOK, SettingsOK, CountersOK, WorkOK, DeskOK, Places
<1>3. InStep
  <2> SUFFICES ASSUME ui = "free", ~disturbed, pc \notin {"removed", "moved", "erased"}
               PROVE  n_past = Len(cached) + Counted /\ kv = Cells(cached \o Outstanding)
    BY DEF InStep
  <2> QED  BY DEF IInv, InStepInv, InOrder, MemoryIs, CountIs
<1> QED  BY <1>2, <1>3

-----------------------------------------------------------------------------
(* Positions and cells.                                                    *)

\* A bounded set of natural numbers has a largest element: its smallest bound.
LEMMA HasMax ==
    ASSUME NEW T \in SUBSET Nat, T # {}, NEW b \in Nat, T \subseteq 0..b
    PROVE  \E m \in T : \A x \in T : x <= m
<1> DEFINE U == {c \in Nat : \A x \in T : x <= c}
<1>1. U \subseteq Nat /\ b \in U
  OBVIOUS
<1>2. PICK m \in U : \A y \in U : ~(<<y, m>> \in OpToRel(<, Nat))
  BY <1>1, NatLessThanWellFounded, WFMin
<1>3. \A y \in U : ~(y < m)
  BY <1>1, <1>2 DEF OpToRel
<1>4. m \in T
  <2> SUFFICES ASSUME m \notin T PROVE FALSE
    OBVIOUS
  <2>1. \A x \in T : x <= m - 1
    OBVIOUS
  <2>2. PICK e \in T : TRUE
    OBVIOUS
  <2>3. e \in Nat /\ e <= m - 1 /\ m \in Nat
    BY <2>1
  <2>4. m - 1 \in Nat /\ m - 1 < m
    BY <2>3
  <2>5. m - 1 \in U
    BY <2>1, <2>4
  <2> QED  BY <1>3, <2>4, <2>5
<1> QED  BY <1>4

\* The next position is behind all that are used.
LEMMA NextPositionFacts ==
    ASSUME MemOK(kv)
    PROVE  NextPosition \in Nat /\ \A p \in DOMAIN kv : p < NextPosition
<1>1. PICK b \in Nat : DOMAIN kv \subseteq 0..b
  BY DEF MemOK
<1>2. CASE DOMAIN kv = {}
  BY <1>2 DEF NextPosition
<1>3. CASE DOMAIN kv # {}
  <2> DEFINE m == CHOOSE p \in DOMAIN kv : \A q \in DOMAIN kv : q <= p
  <2>1. DOMAIN kv \in SUBSET Nat
    BY <1>1
  <2>2. \E p \in DOMAIN kv : \A q \in DOMAIN kv : q <= p
    BY <1>1, <1>3, <2>1, HasMax
  <2>3. m \in DOMAIN kv /\ \A q \in DOMAIN kv : q <= m
    BY <2>2
  <2>4. NextPosition = 1 + m
    BY <1>3 DEF NextPosition
  <2> HIDE DEF m
  <2> QED  BY <2>1, <2>3, <2>4
<1> QED  BY <1>2, <1>3

\* The memory that holds a list of tokens: one cell for each, from position 0 on.
LEMMA CellsFacts ==
    ASSUME NEW ts \in Seq(Tokens)
    PROVE  /\ Len(ts) \in Nat /\ DOMAIN Cells(ts) = 0..(Len(ts) - 1)
           /\ \A p \in 0..(Len(ts) - 1) : Cells(ts)[p] = ts[p + 1]
           /\ MemOK(Cells(ts))
           /\ Cardinality(DOMAIN Cells(ts)) = Len(ts)
<1>1. Len(ts) \in Nat /\ \A i \in 1..Len(ts) : ts[i] \in Tokens
  BY LenProperties, ElementOfSeq
<1>2. DOMAIN Cells(ts) = 0..(Len(ts) - 1)
      /\ \A p \in 0..(Len(ts) - 1) : Cells(ts)[p] = ts[p + 1]
  BY DEF Cells
<1>3. \A p \in 0..(Len(ts) - 1) : ts[p + 1] \in Tokens
  BY <1>1
<1>4. Cells(ts) \in [0..(Len(ts) - 1) -> Tokens]
  BY <1>3 DEF Cells
<1>5. MemOK(Cells(ts))
  <2>1. 0..(Len(ts) - 1) \subseteq 0..Len(ts)
    BY <1>1
  <2> QED  BY <1>1, <1>2, <1>4, <2>1 DEF MemOK
<1>6. Cardinality(0..(Len(ts) - 1)) = Len(ts)
  <2>1. Len(ts) - 1 \in Int /\ 0 \in Int
    BY <1>1
  <2>2. Cardinality(0..(Len(ts) - 1)) =
           IF 0 > Len(ts) - 1 THEN 0 ELSE (Len(ts) - 1) - 0 + 1
    BY <2>1, FS_Interval
  <2> QED  BY <1>1, <2>2
<1> QED  BY <1>1, <1>2, <1>5, <1>6

\* Tokens decoded behind a memory without a gap continue it.
LEMMA DecodedCells ==
    ASSUME NEW s \in Seq(Tokens), NEW ts \in Seq(Tokens), kv = Cells(s)
    PROVE  Decoded(ts) = Cells(s \o ts)
<1>1. /\ Len(s) \in Nat /\ DOMAIN kv = 0..(Len(s) - 1)
      /\ \A p \in 0..(Len(s) - 1) : kv[p] = s[p + 1]
      /\ MemOK(kv)
  BY CellsFacts
<1>2. /\ s \o ts \in Seq(Tokens) /\ Len(s \o ts) = Len(s) + Len(ts) /\ Len(ts) \in Nat
      /\ \A i \in 1..(Len(s) + Len(ts)) :
            (s \o ts)[i] = IF i <= Len(s) THEN s[i] ELSE ts[i - Len(s)]
  BY ConcatProperties, LenProperties
<1>3. NextPosition = Len(s)
  <2>1. CASE Len(s) = 0
    BY <2>1, <1>1 DEF NextPosition
  <2>2. CASE Len(s) # 0
    <3> DEFINE m == CHOOSE p \in DOMAIN kv : \A q \in DOMAIN kv : q <= p
    <3>1. Len(s) - 1 \in DOMAIN kv /\ \A q \in DOMAIN kv : q <= Len(s) - 1
      BY <2>2, <1>1
    <3>2. m \in DOMAIN kv /\ \A q \in DOMAIN kv : q <= m
      BY <3>1
    <3>3. NextPosition = 1 + m
      BY <3>1 DEF NextPosition
    <3> HIDE DEF m
    <3>4. m = Len(s) - 1
      <4>1. m \in 0..(Len(s) - 1)
        BY <3>2, <1>1
      <4>2. Len(s) - 1 <= m
        BY <3>1, <3>2
      <4> QED  BY <4>1, <4>2, <1>1
    <3> QED  BY <3>3, <3>4, <1>1
  <2> QED  BY <2>1, <2>2
<1> DEFINE D == DOMAIN kv \cup Len(s)..(Len(s) + Len(ts) - 1)
           n == Len(s)
<1>4. Decoded(ts) = [p \in D |-> IF p \in DOMAIN kv THEN kv[p] ELSE ts[p - n + 1]]
  BY <1>3 DEF Decoded
<1>5. D = 0..(Len(s \o ts) - 1)
  BY <1>1, <1>2
<1>6. ASSUME NEW p \in D
      PROVE  (IF p \in DOMAIN kv THEN kv[p] ELSE ts[p - n + 1]) = (s \o ts)[p + 1]
  <2>1. p + 1 \in 1..(Len(s) + Len(ts)) /\ p \in Nat
    BY <1>1, <1>2
  <2>2. CASE p \in DOMAIN kv
    <3>1. p + 1 <= Len(s) /\ kv[p] = s[p + 1]
      BY <2>2, <1>1
    <3> QED  BY <2>1, <2>2, <3>1, <1>2
  <2>3. CASE p \notin DOMAIN kv
    <3>1. ~(p + 1 <= Len(s)) /\ p - n + 1 = (p + 1) - Len(s)
      BY <2>1, <2>3, <1>1
    <3> QED  BY <2>1, <2>3, <3>1, <1>2
  <2> QED  BY <2>2, <2>3
<1> HIDE DEF D
<1>7. Decoded(ts) = [p \in D |-> (s \o ts)[p + 1]]
  BY <1>4, <1>6
<1> QED  BY <1>5, <1>7 DEF Cells

\* The type of the memory behind a decode, whatever was in it.
LEMMA DecodedOK ==
    ASSUME MemOK(kv), NEW ts \in Seq(Tokens)
    PROVE  MemOK(Decoded(ts))
<1> DEFINE n == NextPosition
           D == DOMAIN kv \cup n..(n + Len(ts) - 1)
           v(p) == IF p \in DOMAIN kv THEN kv[p] ELSE ts[p - n + 1]
<1>1. Len(ts) \in Nat /\ \A i \in 1..Len(ts) : ts[i] \in Tokens
  BY LenProperties, ElementOfSeq
<1>2. n \in Nat /\ \A p \in DOMAIN kv : p < n
  BY NextPositionFacts
<1>3. Decoded(ts) = [p \in D |-> v(p)]
  BY DEF Decoded
<1>4. PICK b \in Nat : DOMAIN kv \subseteq 0..b
  BY DEF MemOK
<1> HIDE DEF n
<1>5. ASSUME NEW p \in D PROVE v(p) \in Tokens
  <2>1. CASE p \in DOMAIN kv
    BY <2>1 DEF MemOK
  <2>2. CASE p \notin DOMAIN kv
    <3>1. p \in n..(n + Len(ts) - 1)
      BY <2>2
    <3>2. p - n + 1 \in 1..Len(ts)
      BY <3>1, <1>1, <1>2
    <3> QED  BY <2>2, <3>2, <1>1
  <2> QED  BY <2>1, <2>2
<1>6. D \subseteq 0..(b + n + Len(ts)) /\ b + n + Len(ts) \in Nat
  BY <1>1, <1>2, <1>4
<1> HIDE DEF D, v
<1>7. DOMAIN Decoded(ts) = D /\ Decoded(ts) \in [D -> Tokens]
  BY <1>3, <1>5
<1> QED  BY <1>6, <1>7 DEF MemOK

\* Decoding nothing changes nothing.
LEMMA DecodedNothing ==
    ASSUME MemOK(kv)
    PROVE  Decoded(<<>>) = kv
<1> DEFINE n == NextPosition
<1>1. n \in Nat
  BY NextPositionFacts
<1>2. Decoded(<<>>) = [p \in DOMAIN kv \cup n..(n + 0 - 1) |->
                         IF p \in DOMAIN kv THEN kv[p] ELSE <<>>[p - n + 1]]
  BY DEF Decoded
<1> HIDE DEF n
<1>3. DOMAIN kv \cup n..(n + 0 - 1) = DOMAIN kv
  BY <1>1
<1>4. Decoded(<<>>) = [p \in DOMAIN kv |-> kv[p]]
  BY <1>2, <1>3
<1> QED  BY <1>4 DEF MemOK

-----------------------------------------------------------------------------
(* The context shift.                                                      *)

\* What a shift discards lies behind the tokens to keep, and is at most half of the rest.
LEMMA DiscardFacts ==
    ASSUME n_past \in Int, n_keep \in Nat, Discard > 0
    PROVE  /\ Discard \in Nat \ {0} /\ n_keep < n_past
           /\ 2 * Discard <= n_past - n_keep /\ n_keep + Discard <= n_past
<1>1. n_keep < n_past /\ Discard = (n_past - n_keep) \div 2
  BY DEF Discard
<1> DEFINE x == n_past - n_keep
<1>2. x \in Nat /\ Discard = x \div 2
  BY <1>1
<1> HIDE DEF x
<1>3. x \div 2 \in Nat /\ 2 * (x \div 2) <= x
  BY <1>2
<1> QED  BY <1>1, <1>2, <1>3 DEF x

\* The type of the memory behind seq_rm, whatever was in it.
LEMMA SeqRmOK ==
    ASSUME MemOK(kv), NEW lo \in Nat, NEW hi \in Nat
    PROVE  MemOK(SeqRm(kv, lo, hi))
<1> DEFINE Rest == {q \in DOMAIN kv : q < lo \/ hi <= q}
           mem == SeqRm(kv, lo, hi)
<1>1. PICK b \in Nat : DOMAIN kv \subseteq 0..b
  BY DEF MemOK
<1>2. mem = [p \in Rest |-> kv[p]]
  BY DEF SeqRm
<1>3. \A p \in Rest : kv[p] \in Tokens
  BY DEF MemOK
<1>4. Rest \subseteq 0..b
  BY <1>1
<1> HIDE DEF Rest, mem
<1>5. DOMAIN mem = Rest /\ mem \in [Rest -> Tokens]
  BY <1>2, <1>3
<1>6. MemOK(mem)
  BY <1>4, <1>5 DEF MemOK
<1> QED  BY <1>6 DEF mem

\* The type of the memory behind seq_add: no cell is moved to the left of the first.
LEMMA SeqAddOK ==
    ASSUME MemOK(kv), NEW lo \in Nat, NEW n \in Int, NEW d \in Nat, d <= lo
    PROVE  MemOK(SeqAdd(kv, lo, n, d))
<1> DEFINE Moved == {q \in DOMAIN kv : lo <= q /\ q < n}
           D == (DOMAIN kv \ Moved) \cup {q - d : q \in Moved}
           new == SeqAdd(kv, lo, n, d)
<1>1. PICK b \in Nat : DOMAIN kv \subseteq 0..b
  BY DEF MemOK
<1>2. \A p \in DOMAIN kv : kv[p] \in Tokens
  BY DEF MemOK
<1>3. new = [p \in D |-> IF p + d \in Moved THEN kv[p + d] ELSE kv[p]]
  BY DEF SeqAdd
<1>4. ASSUME NEW p \in D
      PROVE  (IF p + d \in Moved THEN kv[p + d] ELSE kv[p]) \in Tokens
  <2>1. CASE p + d \in Moved
    BY <2>1, <1>2
  <2>2. CASE p + d \notin Moved
    <3>1. ASSUME NEW q \in Moved PROVE (q - d) + d = q
      <4>1. q \in DOMAIN kv
        OBVIOUS
      <4>2. q \in 0..b
        BY <4>1, <1>1, Zenon
      <4> QED  BY <4>2
    <3>2. p \in DOMAIN kv
      BY <2>2, <3>1
    <3> QED  BY <2>2, <3>2, <1>2
  <2> QED  BY <2>1, <2>2
<1>5. D \subseteq 0..b
  <2>1. \A q \in Moved : q \in 0..b /\ lo <= q
    BY <1>1
  <2>2. \A q \in Moved : q - d \in 0..b
    BY <2>1
  <2> QED  BY <2>2, <1>1
<1> HIDE DEF D, new, Moved
<1>6. DOMAIN new = D /\ new \in [D -> Tokens]
  BY <1>3, <1>4
<1>7. MemOK(new)
  BY <1>5, <1>6 DEF MemOK
<1> QED  BY <1>7 DEF new

\* What remains of tokens when d of them behind the first k are discarded.
LEMMA KeptTokens ==
    ASSUME NEW c \in Seq(Tokens), NEW k \in Nat, NEW d \in Nat, k + d <= Len(c)
    PROVE  LET r == SubSeq(c, 1, k) \o SubSeq(c, k + d + 1, Len(c)) IN
           /\ r \in Seq(Tokens) /\ Len(r) = Len(c) - d
           /\ \A i \in 1..(Len(c) - d) : r[i] = IF i <= k THEN c[i] ELSE c[i + d]
<1> DEFINE n == Len(c)
           a == SubSeq(c, 1, k)
           z == SubSeq(c, k + d + 1, n)
<1>1. n \in Nat
  BY LenProperties
<1>2. a \in Seq(Tokens) /\ Len(a) = k /\ \A i \in 1..k : a[i] = c[i]
  <2>1. \A i \in 1..k : i \in 1..Len(c)
    BY <1>1
  <2>2. a = [i \in 1..k |-> c[i]]
    BY <1>1 DEF a
  <2>3. \A i \in 1..k : c[i] \in Tokens
    BY <2>1, ElementOfSeq
  <2>4. a \in [1..k -> Tokens]
    BY <2>2, <2>3
  <2> QED  BY <2>2, <2>4
<1>3. z \in Seq(Tokens) /\ Len(z) = n - k - d /\ \A i \in 1..(n - k - d) : z[i] = c[i + k + d]
  <2>1. \A i \in 1..(n - k - d) : i + k + d \in 1..Len(c)
    BY <1>1
  <2>2. z = [i \in 1..(n - k - d) |-> c[i + k + d]]
    BY <1>1 DEF z
  <2>3. \A i \in 1..(n - k - d) : c[i + k + d] \in Tokens
    BY <2>1, ElementOfSeq
  <2>4. n - k - d \in Nat
    BY <1>1
  <2>5. z \in [1..(n - k - d) -> Tokens]
    BY <2>2, <2>3, Zenon
  <2> HIDE DEF z
  <2>6. z \in Seq(Tokens) /\ Len(z) = n - k - d
    BY <2>4, <2>5
  <2> QED  BY <2>2, <2>6
<1> HIDE DEF a, z
<1>4. /\ a \o z \in Seq(Tokens) /\ Len(a \o z) = Len(a) + Len(z)
      /\ \A i \in 1..(Len(a) + Len(z)) :
            (a \o z)[i] = IF i <= Len(a) THEN a[i] ELSE z[i - Len(a)]
  BY <1>2, <1>3, ConcatProperties
<1>5. Len(a) + Len(z) = n - d
  BY <1>1, <1>2, <1>3
<1>6. ASSUME NEW i \in 1..(n - d)
      PROVE  (a \o z)[i] = IF i <= k THEN c[i] ELSE c[i + d]
  <2>1. CASE i <= k
    BY <2>1, <1>2, <1>4, <1>5
  <2>2. CASE ~(i <= k)
    <3>1. i - k \in 1..(n - k - d) /\ (i - k) + k + d = i + d
      BY <2>2, <1>1
    <3>2. (a \o z)[i] = z[i - k]
      BY <2>2, <1>2, <1>4, <1>5
    <3> QED  BY <2>2, <3>1, <3>2, <1>3
  <2> QED  BY <2>1, <2>2
<1> QED  BY <1>4, <1>5, <1>6 DEF a, z

\* A shift keeps a memory in step with the tokens.
LEMMA ShiftCells ==
    ASSUME NEW c \in Seq(Tokens), NEW k \in Nat, NEW d \in Nat, k + d <= Len(c)
    PROVE  SeqAdd(SeqRm(Cells(c), k, k + d), k + d, Len(c), d)
              = Cells(SubSeq(c, 1, k) \o SubSeq(c, k + d + 1, Len(c)))
<1> DEFINE n == Len(c)
           r == SubSeq(c, 1, k) \o SubSeq(c, k + d + 1, Len(c))
           all == Cells(c)
           mem == SeqRm(all, k, k + d)
           Rest == {q \in DOMAIN all : q < k \/ k + d <= q}
           Moved == {q \in DOMAIN mem : k + d <= q /\ q < n}
           D == (DOMAIN mem \ Moved) \cup {q - d : q \in Moved}
           v(p) == IF p + d \in Moved THEN mem[p + d] ELSE mem[p]
<1>1. /\ n \in Nat /\ DOMAIN all = 0..(n - 1)
      /\ \A p \in 0..(n - 1) : all[p] = c[p + 1]
  BY CellsFacts
<1> HIDE DEF all
<1>2. /\ r \in Seq(Tokens) /\ Len(r) = n - d
      /\ \A i \in 1..(n - d) : r[i] = IF i <= k THEN c[i] ELSE c[i + d]
  BY KeptTokens
<1> HIDE DEF r
<1>3. mem = [p \in Rest |-> all[p]]
  BY DEF SeqRm
<1>4. DOMAIN mem = Rest /\ \A p \in Rest : mem[p] = c[p + 1]
  BY <1>1, <1>3
<1>5. Rest = 0..(k - 1) \cup (k + d)..(n - 1)
  BY <1>1
<1>6. SeqAdd(mem, k + d, n, d) = [p \in D |-> v(p)]
  BY DEF SeqAdd
<1> HIDE DEF mem, Rest
<1>7. Moved = (k + d)..(n - 1)
  BY <1>1, <1>4, <1>5
<1> HIDE DEF Moved
<1>8. {q - d : q \in Moved} = k..(n - d - 1)
  <2>1. \A q \in Moved : q - d \in k..(n - d - 1)
    BY <1>1, <1>7
  <2>2. \A p \in k..(n - d - 1) : p + d \in Moved /\ (p + d) - d = p
    BY <1>1, <1>7
  <2> QED  BY <2>1, <2>2
<1>9. DOMAIN mem \ Moved = 0..(k - 1)
  BY <1>1, <1>4, <1>5, <1>7
<1>10. D = 0..(n - d - 1)
  <2>1. 0..(k - 1) \cup k..(n - d - 1) = 0..(n - d - 1)
    BY <1>1
  <2> QED  BY <1>8, <1>9, <2>1
<1>11. ASSUME NEW p \in D PROVE v(p) = r[p + 1]
  <2>1. p \in Nat /\ p + 1 \in 1..(n - d) /\ p <= n - d - 1
    BY <1>1, <1>10
  <2>2. CASE p < k
    <3>1. p + d \notin Moved /\ p \in Rest
      BY <2>1, <2>2, <1>1, <1>5, <1>7
    <3>2. p + 1 <= k
      BY <2>1, <2>2
    <3> QED  BY <2>1, <3>1, <3>2, <1>2, <1>4
  <2>3. CASE ~(p < k)
    <3>1. p + d \in Moved /\ p + d \in Rest
      BY <2>1, <2>3, <1>1, <1>5, <1>7
    <3>2. ~(p + 1 <= k) /\ (p + d) + 1 = (p + 1) + d
      BY <2>1, <2>3
    <3>3. v(p) = c[(p + d) + 1]
      BY <3>1, <1>4
    <3> QED  BY <2>1, <3>2, <3>3, <1>2
  <2> QED  BY <2>2, <2>3
<1> HIDE DEF D, v
<1>12. SeqAdd(mem, k + d, n, d) = [p \in D |-> r[p + 1]]
  BY <1>6, <1>11
<1>13. [p \in D |-> r[p + 1]] = Cells(r)
  BY <1>2, <1>10 DEF Cells
<1> QED  BY <1>12, <1>13 DEF mem, r, all

-----------------------------------------------------------------------------
(* The steps.                                                              *)

\* A context has cells and a batch, whatever the slider says.
LEMMA CreatedOK == \A c \in Nat : Created(c) \in [cells : Nat, batch : Nat]
<1> TAKE c \in Nat
<1>1. (c + Align - 1) \div Align \in Nat
  BY SizesAssumption
<1> DEFINE q == (c + Align - 1) \div Align
<1>2. q * Align \in Nat
  <2>1. q \in Nat /\ Align \in Nat
    BY <1>1, SizesAssumption
  <2> HIDE DEF q
  <2> QED  BY <2>1
<1>3. (IF c < NBatch THEN c ELSE NBatch) \in Nat
  BY SizesAssumption
<1> QED  BY <1>2, <1>3 DEF Created

\* The invariant holds before a model is loaded.
LEMMA InitIInv == Init => IInv
<1> SUFFICES ASSUME Init PROVE IInv
  OBVIOUS
<1>1. n_ctx \in Nat
  BY SettingsAssumption DEF Init
<1>2. context \in [cells : Nat, batch : Nat]
  BY <1>1, CreatedOK DEF Init
<1>3. SettingsOK
  BY <1>2 DEF Init, SettingsOK
<1>4. <<>> \in Seq(Tokens) /\ Len(<<>>) = 0 /\ <<>> \o <<>> = <<>>
  BY EmptySeq
<1>5. MemOK(kv) /\ CountersOK /\ WorkOK /\ DeskOK
  <2>1. MemOK(kv)
    BY <1>4, CellsFacts DEF Init
  <2>2. CountersOK
    BY <1>4 DEF Init, CountersOK
  <2>3. WorkOK
    BY <1>4 DEF Init, WorkOK, Places
  <2>4. DeskOK
    BY <1>4 DEF Init, DeskOK
  <2> QED  BY <2>1, <2>2, <2>3, <2>4
<1>6. Outstanding = <<>> /\ Counted = 0
  BY DEF Init, Outstanding, Counted
<1>7. InOrder
  BY <1>2, <1>4, <1>6 DEF Init, InOrder, MemoryIs, CountIs, ShiftIs
<1>8. HalfwayInv
  BY DEF Init, HalfwayInv
<1> QED  BY <1>3, <1>5, <1>7, <1>8 DEF IInv, TypeInv, InStepInv

\* The types that the steps use.
LEMMA IInvTypes ==
    ASSUME IInv
    PROVE  /\ cached \in Seq(Tokens) /\ Len(cached) \in Nat /\ cached \o <<>> = cached
           /\ batch \in Seq(Tokens) /\ Len(batch) \in Nat
           /\ n_past \in Int /\ n_keep \in Nat /\ discard \in Nat
           /\ n_ctx \in Nat /\ n_ctx >= n_keep + 3
           /\ n_predict \in Nat /\ n_predict <= MaxPredict /\ MaxPredict \in Nat
           /\ context.cells \in Nat /\ MemOK(kv)
<1>1. cached \in Seq(Tokens) /\ batch \in Seq(Tokens) /\ n_past \in Int /\ discard \in Nat
  BY DEF IInv, TypeInv, CountersOK, WorkOK
<1>2. Len(cached) \in Nat /\ Len(batch) \in Nat /\ cached \o <<>> = cached
  BY <1>1, LenProperties
<1>3. n_ctx \in Contexts /\ n_keep \in Keeps /\ n_predict \in Predicts
      /\ context.cells \in Nat /\ MemOK(kv)
  BY DEF IInv, TypeInv, SettingsOK
<1>4. n_ctx \in Nat /\ n_keep \in Nat /\ n_ctx >= n_keep + 3
  BY <1>3, SettingsAssumption
<1>5. n_predict \in Nat /\ n_predict <= MaxPredict /\ MaxPredict \in Nat
  BY <1>3, SizesAssumption
<1> QED  BY <1>1, <1>2, <1>3, <1>4, <1>5

\* A step that a replacement half done would disturb keeps the invariant, if it keeps the
\* order of what no replacement has disturbed.
LEMMA TouchKeeps ==
    ASSUME IInv, Touch, UNCHANGED <<settings, desk>>,
           MemOK(kv)', CountersOK', WorkOK',
           ui = "free" /\ InOrder => InOrder'
    PROVE  IInv'
<1>1. DeskOK /\ SettingsOK
  BY DEF IInv, TypeInv
<1>2. disturbed' \in BOOLEAN /\ (~disturbed' => ~disturbed /\ ui # "replacing")
  BY <1>1, Zenon DEF DeskOK, Touch
<1>3. SettingsOK' /\ DeskOK'
  BY <1>1, <1>2 DEF SettingsOK, DeskOK, settings, desk
<1>4. HalfwayInv'
  BY <1>2 DEF HalfwayInv, desk
<1>5. InStepInv'
  BY <1>2 DEF IInv, InStepInv, desk
<1> QED  BY <1>3, <1>4, <1>5 DEF IInv, TypeInv

\* A step between two calm places that leaves the memory and its counters alone.
LEMMA QuietKeeps ==
    ASSUME IInv, UNCHANGED <<settings, memory, discard, desk, disturbed>>,
           Calm, Calm', WorkOK'
    PROVE  IInv'
<1>1. Outstanding = <<>> /\ Outstanding' = <<>> /\ Counted = 0 /\ Counted' = 0
  BY DEF Calm, Outstanding, Counted
<1>2. InOrder => InOrder'
  <2>1. MemoryIs => MemoryIs'
    BY <1>1 DEF MemoryIs, Calm, memory, settings
  <2>2. CountIs => CountIs'
    BY <1>1 DEF CountIs, Calm, memory
  <2>3. ShiftIs'
    BY DEF ShiftIs, Calm
  <2> QED  BY <2>1, <2>2, <2>3 DEF InOrder
<1>3. TypeInv'
  BY DEF IInv, TypeInv, SettingsOK, MemOK, CountersOK, DeskOK, settings, memory, desk
<1>4. InStepInv' /\ HalfwayInv'
  BY <1>2 DEF IInv, InStepInv, HalfwayInv, settings, memory, desk
<1> QED  BY <1>3, <1>4 DEF IInv

\* A decode puts what is outstanding behind the tokens that are cached.
LEMMA DecodeKeeps ==
    ASSUME IInv, Fits(batch), kv' = Decoded(batch), Touch,
           pc \in {"prompt", "token"}, pc' \in {"prompted", "decoded"}, batch # <<>>,
           UNCHANGED <<settings, n_past, cached, batch, n_generated, discard, desk>>
    PROVE  IInv'
<1>1. /\ cached \in Seq(Tokens) /\ Len(cached) \in Nat /\ cached \o <<>> = cached
      /\ batch \in Seq(Tokens) /\ Len(batch) \in Nat
      /\ context.cells \in Nat /\ MemOK(kv)
  BY IInvTypes
<1>2. MemOK(kv)'
  BY <1>1, DecodedOK DEF MemOK
<1>3. CountersOK' /\ WorkOK'
  BY DEF IInv, TypeInv, CountersOK, WorkOK, Places
<1>4. ASSUME InOrder PROVE InOrder'
  <2>1. Outstanding = <<>> /\ Outstanding' = batch /\ Counted = 0 /\ Counted' = 0
    BY DEF Outstanding, Counted
  <2>2. kv = Cells(cached)
    BY <1>1, <1>4, <2>1 DEF InOrder, MemoryIs
  <2>3. kv' = Cells(cached \o batch)
    BY <1>1, <2>2, DecodedCells
  <2>4. Cardinality(DOMAIN kv) = Len(cached)
    BY <1>1, <2>2, CellsFacts
  <2>5. Len(cached \o batch) <= context.cells
    BY <1>1, <2>4, ConcatProperties DEF Fits, Used
  <2>6. MemoryIs'
    BY <2>1, <2>3, <2>5 DEF MemoryIs, settings
  <2>7. CountIs' /\ ShiftIs'
    BY <1>4, <2>1 DEF InOrder, CountIs, ShiftIs
  <2> QED  BY <2>6, <2>7 DEF InOrder
<1> QED  BY <1>2, <1>3, <1>4, TouchKeeps

\* The count behind a decode.
LEMMA CountKeeps ==
    ASSUME IInv, NEW from \in {"prompted", "decoded"},
           NEW to \in {"prompt_counted", "token_counted"}, CountBatch(from, to)
    PROVE  IInv'
<1>1. /\ pc = from /\ n_past' = n_past + Len(batch) /\ pc' = to /\ Touch
      /\ UNCHANGED <<settings, kv, cached, batch, n_generated, discard, desk>>
  BY DEF CountBatch
<1>2. Len(batch) \in Nat /\ Len(cached) \in Nat /\ n_past \in Int
  BY IInvTypes
<1>3. MemOK(kv)' /\ CountersOK' /\ WorkOK'
  BY <1>1, <1>2 DEF IInv, TypeInv, MemOK, CountersOK, WorkOK, Places
<1>4. ASSUME InOrder PROVE InOrder'
  <2>1. Outstanding = batch /\ Outstanding' = batch /\ Counted = 0 /\ Counted' = Len(batch)
    BY <1>1 DEF Outstanding, Counted
  <2>2. MemoryIs'
    BY <1>1, <1>4, <2>1 DEF InOrder, MemoryIs, settings
  <2>3. CountIs' /\ ShiftIs'
    BY <1>1, <1>2, <1>4, <2>1 DEF InOrder, CountIs, ShiftIs
  <2> QED  BY <2>2, <2>3 DEF InOrder
<1> QED  BY <1>1, <1>3, <1>4, TouchKeeps

\* The cache of tokens behind the count.
LEMMA CacheKeeps ==
    ASSUME IInv, NEW from \in {"prompt_counted", "token_counted"}, CacheBatch(from),
           n_generated' \in Nat
    PROVE  IInv'
<1>1. /\ pc = from /\ cached' = cached \o batch /\ pc' = "loop" /\ Touch
      /\ UNCHANGED <<settings, kv, n_past, batch, discard, desk>>
  BY DEF CacheBatch
<1>2. /\ cached \in Seq(Tokens) /\ Len(cached) \in Nat
      /\ batch \in Seq(Tokens) /\ Len(batch) \in Nat
  BY IInvTypes
<1>3. /\ cached' \in Seq(Tokens) /\ Len(cached') = Len(cached) + Len(batch)
      /\ cached' \o <<>> = cached'
  BY <1>1, <1>2, ConcatProperties
<1>4. MemOK(kv)' /\ CountersOK' /\ WorkOK'
  BY <1>1, <1>3 DEF IInv, TypeInv, MemOK, CountersOK, WorkOK, Places
<1>5. ASSUME InOrder PROVE InOrder'
  <2>1. Outstanding = batch /\ Outstanding' = <<>> /\ Counted = Len(batch) /\ Counted' = 0
    BY <1>1 DEF Outstanding, Counted
  <2>2. kv = Cells(cached \o batch) /\ Len(cached \o batch) <= context.cells
    BY <1>1, <1>5, <2>1 DEF InOrder, MemoryIs
  <2>3. cached' \o Outstanding' = cached \o batch
    BY <1>1, <1>3, <2>1
  <2>4. MemoryIs'
    BY <1>1, <2>2, <2>3 DEF MemoryIs, settings
  <2>5. CountIs' /\ ShiftIs'
    BY <1>1, <1>2, <1>3, <1>5, <2>1 DEF InOrder, CountIs, ShiftIs
  <2> QED  BY <2>4, <2>5 DEF InOrder
<1> QED  BY <1>1, <1>4, <1>5, TouchKeeps

-----------------------------------------------------------------------------
(* The steps of a shift.                                                   *)

\* While a shift is under way nothing is outstanding.
LEMMA NothingOutstanding ==
    pc \in {"loop", "full", "removed", "moved", "erased", "idle", "token"}
        => Outstanding = <<>> /\ Counted = 0
BY DEF Outstanding, Counted

\* What is to be discarded fits the tokens.
LEMMA BeginKeeps ==
    ASSUME IInv, ShiftBegins
    PROVE  IInv'
<1>1. /\ pc = "loop" /\ Discard > 0 /\ discard' = Discard /\ pc' = "full" /\ Touch
      /\ UNCHANGED <<settings, memory, batch, n_generated, desk>>
  BY DEF ShiftBegins
<1>2. /\ cached \in Seq(Tokens) /\ Len(cached) \in Nat /\ n_past \in Int /\ n_keep \in Nat
  BY IInvTypes
<1>3. /\ Discard \in Nat \ {0} /\ 2 * Discard <= n_past - n_keep /\ n_keep + Discard <= n_past
  BY <1>1, <1>2, DiscardFacts
<1>4. MemOK(kv)' /\ CountersOK' /\ WorkOK'
  BY <1>1, <1>3 DEF IInv, TypeInv, MemOK, CountersOK, WorkOK, Places, memory
<1>5. ASSUME InOrder PROVE InOrder'
  <2>1. Outstanding = <<>> /\ Outstanding' = <<>> /\ Counted = 0 /\ Counted' = 0
    BY <1>1 DEF Outstanding, Counted
  <2>2. MemoryIs'
    BY <1>1, <1>5, <2>1 DEF InOrder, MemoryIs, settings, memory
  <2>3. n_past = Len(cached)
    BY <1>1, <1>2, <1>5, <2>1 DEF InOrder, CountIs
  <2>4. CountIs'
    BY <1>1, <1>2, <2>1, <2>3 DEF CountIs, memory
  <2>5. ShiftIs'
    BY <1>1, <1>3, <2>3 DEF ShiftIs, memory, settings
  <2> QED  BY <2>2, <2>4, <2>5 DEF InOrder
<1> QED  BY <1>1, <1>4, <1>5, TouchKeeps

\* The cells between are removed.
LEMMA RemoveKeeps ==
    ASSUME IInv, RemoveCells
    PROVE  IInv'
<1>1. /\ pc = "full" /\ kv' = SeqRm(kv, n_keep, n_keep + discard) /\ pc' = "removed" /\ Touch
      /\ UNCHANGED <<settings, n_past, cached, batch, n_generated, discard, desk>>
  BY DEF RemoveCells
<1>2. /\ cached \in Seq(Tokens) /\ Len(cached) \in Nat /\ cached \o <<>> = cached
      /\ n_keep \in Nat /\ discard \in Nat /\ MemOK(kv)
  BY IInvTypes
<1>3. MemOK(kv')
  BY <1>1, <1>2, SeqRmOK
<1>4. MemOK(kv)' /\ CountersOK' /\ WorkOK'
  BY <1>1, <1>3 DEF IInv, TypeInv, MemOK, CountersOK, WorkOK, Places
<1>5. ASSUME InOrder PROVE InOrder'
  <2>1. Outstanding = <<>> /\ Outstanding' = <<>> /\ Counted = 0 /\ Counted' = 0
    BY <1>1 DEF Outstanding, Counted
  <2>2. kv = Cells(cached) /\ Len(cached) <= context.cells
    BY <1>1, <1>2, <1>5, <2>1 DEF InOrder, MemoryIs
  <2>3. MemoryIs'
    BY <1>1, <1>2, <2>1, <2>2 DEF MemoryIs, settings
  <2>4. CountIs' /\ ShiftIs'
    BY <1>1, <1>5, <2>1 DEF InOrder, CountIs, ShiftIs, settings
  <2> QED  BY <2>3, <2>4 DEF InOrder
<1> QED  BY <1>1, <1>4, <1>5, TouchKeeps

\* The cells behind are moved to where they were.
LEMMA MoveKeeps ==
    ASSUME IInv, MoveCells
    PROVE  IInv'
<1>1. /\ pc = "removed" /\ kv' = SeqAdd(kv, n_keep + discard, n_past, discard)
      /\ pc' = "moved" /\ Touch
      /\ UNCHANGED <<settings, n_past, cached, batch, n_generated, discard, desk>>
  BY DEF MoveCells
<1>2. /\ cached \in Seq(Tokens) /\ Len(cached) \in Nat /\ cached \o <<>> = cached
      /\ n_past \in Int /\ n_keep \in Nat /\ discard \in Nat /\ MemOK(kv)
  BY IInvTypes
<1>3. n_keep + discard \in Nat /\ discard <= n_keep + discard
  BY <1>2
<1>4. MemOK(kv')
  BY <1>1, <1>2, <1>3, SeqAddOK
<1>5. MemOK(kv)' /\ CountersOK' /\ WorkOK'
  BY <1>1, <1>4 DEF IInv, TypeInv, MemOK, CountersOK, WorkOK, Places
<1>6. ASSUME InOrder PROVE InOrder'
  <2>1. Outstanding = <<>> /\ Outstanding' = <<>> /\ Counted = 0 /\ Counted' = 0
    BY <1>1 DEF Outstanding, Counted
  <2>2. /\ kv = SeqRm(Cells(cached), n_keep, n_keep + discard)
        /\ Len(cached) <= context.cells
    BY <1>1, <1>2, <1>6, <2>1 DEF InOrder, MemoryIs
  <2>3. n_past = Len(cached) /\ n_keep + discard <= Len(cached)
    BY <1>1, <1>2, <1>6, <2>1 DEF InOrder, CountIs, ShiftIs
  <2>4. kv' = Cells(Kept)
    BY <1>1, <1>2, <2>2, <2>3, ShiftCells DEF Kept
  <2>5. Kept' = Kept
    BY <1>1 DEF Kept, settings
  <2>6. MemoryIs'
    BY <1>1, <1>2, <2>1, <2>2, <2>4, <2>5 DEF MemoryIs, settings
  <2>7. CountIs' /\ ShiftIs'
    BY <1>1, <1>6, <2>1 DEF InOrder, CountIs, ShiftIs, settings
  <2> QED  BY <2>6, <2>7 DEF InOrder
<1> QED  BY <1>1, <1>5, <1>6, TouchKeeps

\* A prefix of tokens is a sequence of tokens.
LEMMA PrefixOK ==
    ASSUME NEW c \in Seq(Tokens), NEW m \in Int, m <= Len(c)
    PROVE  SubSeq(c, 1, m) \in Seq(Tokens)
<1>1. Len(c) \in Nat
  BY LenProperties
<1>2. CASE m < 1
  <2>1. SubSeq(c, 1, m) = <<>>
    BY <1>1, <1>2
  <2> QED  BY <2>1, EmptySeq
<1>3. CASE m >= 1
  <2>1. m \in Nat /\ \A i \in 1..m : i \in 1..Len(c)
    BY <1>1, <1>3
  <2>2. \A i \in 1..m : c[i] \in Tokens
    BY <2>1, ElementOfSeq
  <2>3. SubSeq(c, 1, m) = [i \in 1..m |-> c[i]]
    BY <2>1
  <2> DEFINE a == SubSeq(c, 1, m)
  <2> HIDE DEF a
  <2>4. a \in [1..m -> Tokens]
    BY <2>2, <2>3 DEF a
  <2>5. a \in Seq(Tokens)
    BY <2>1, <2>4
  <2> QED  BY <2>5 DEF a
<1> QED  BY <1>2, <1>3

\* The tokens between are forgotten.
LEMMA EraseKeeps ==
    ASSUME IInv, EraseTokens
    PROVE  IInv'
<1>1. /\ pc = "moved" /\ pc' \in {"erased", "aborted"} /\ Touch
      /\ UNCHANGED <<settings, kv, n_past, batch, n_generated, discard, desk>>
  BY DEF EraseTokens
<1>2. /\ cached \in Seq(Tokens) /\ Len(cached) \in Nat /\ cached \o <<>> = cached
      /\ n_past \in Int /\ n_keep \in Nat /\ discard \in Nat /\ context.cells \in Nat
  BY IInvTypes
<1>3. CASE n_keep + discard <= Len(cached)
  <2>1. cached' = Kept /\ pc' = "erased"
    BY <1>3 DEF EraseTokens, Kept
  <2>2. Kept \in Seq(Tokens) /\ Len(Kept) = Len(cached) - discard
    BY <1>2, <1>3, KeptTokens DEF Kept
  <2>3. cached' \in Seq(Tokens) /\ Len(cached') = Len(cached) - discard
        /\ cached' \o <<>> = cached'
    BY <2>1, <2>2
  <2>4. MemOK(kv)' /\ CountersOK' /\ WorkOK'
    BY <1>1, <2>3 DEF IInv, TypeInv, MemOK, CountersOK, WorkOK, Places
  <2>5. ASSUME InOrder PROVE InOrder'
    <3>1. Outstanding = <<>> /\ Outstanding' = <<>> /\ Counted = 0 /\ Counted' = 0
      BY <1>1, <2>1 DEF Outstanding, Counted
    <3>2. kv = Cells(Kept) /\ Len(cached) <= context.cells
      BY <1>1, <1>2, <2>5, <3>1 DEF InOrder, MemoryIs
    <3>3. n_past = Len(cached) /\ discard > 0
      BY <1>1, <1>2, <2>5, <3>1 DEF InOrder, CountIs, ShiftIs
    <3>4. kv' = Cells(cached')
      BY <1>1, <2>1, <3>2
    <3>5. Len(cached') <= context.cells
      BY <1>2, <2>3, <3>2
    <3>6. MemoryIs'
      BY <1>1, <2>1, <2>3, <3>1, <3>4, <3>5 DEF MemoryIs, settings
    <3>7. CountIs' /\ ShiftIs'
      BY <1>1, <1>2, <2>1, <2>3, <3>2, <3>3 DEF CountIs, ShiftIs, settings
    <3> QED  BY <3>6, <3>7 DEF InOrder
  <2> QED  BY <1>1, <2>4, <2>5, TouchKeeps
<1>4. CASE ~(n_keep + discard <= Len(cached))
  <2>1. cached' = SubSeq(cached, 1, Len(cached) - discard)
    BY <1>4 DEF EraseTokens
  <2>2. cached' \in Seq(Tokens)
    BY <1>2, <2>1, PrefixOK
  <2>3. MemOK(kv)' /\ CountersOK' /\ WorkOK'
    BY <1>1, <2>2 DEF IInv, TypeInv, MemOK, CountersOK, WorkOK, Places
  <2>4. ~InOrder
    BY <1>1, <1>4 DEF InOrder, ShiftIs
  <2> QED  BY <1>1, <2>3, <2>4, TouchKeeps
<1> QED  BY <1>3, <1>4

\* The sampled token is one.
LEMMA SampledFacts ==
    ASSUME IInv, Sampled, n_generated' = n_generated, discard' \in Nat
    PROVE  WorkOK' /\ pc' \in {"idle", "token"}
<1>1. \A t \in Tokens : <<t>> \in Seq(Tokens) /\ <<t>> # <<>>
  OBVIOUS
<1> QED  BY <1>1 DEF IInv, TypeInv, WorkOK, Places, Sampled

\* The count of a shift that is over.
LEMMA EndKeeps ==
    ASSUME IInv, ShiftEnds
    PROVE  IInv'
<1>1. /\ pc = "erased" /\ n_past' = n_past - discard /\ discard' = 0 /\ Sampled /\ Touch
      /\ UNCHANGED <<settings, kv, cached, n_generated, desk>>
  BY DEF ShiftEnds
<1>2. /\ cached \in Seq(Tokens) /\ Len(cached) \in Nat
      /\ n_past \in Int /\ discard \in Nat
  BY IInvTypes
<1>3. WorkOK' /\ pc' \in {"idle", "token"}
  BY <1>1, SampledFacts
<1>4. MemOK(kv)' /\ CountersOK'
  BY <1>1, <1>2 DEF IInv, TypeInv, MemOK, CountersOK
<1>5. ASSUME InOrder PROVE InOrder'
  <2>1. Outstanding = <<>> /\ Outstanding' = <<>> /\ Counted = 0 /\ Counted' = 0
    BY <1>1, <1>3 DEF Outstanding, Counted
  <2>2. MemoryIs'
    BY <1>1, <1>3, <1>5, <2>1 DEF InOrder, MemoryIs, settings
  <2>3. CountIs' /\ ShiftIs'
    BY <1>1, <1>2, <1>3, <1>5, <2>1 DEF InOrder, CountIs, ShiftIs
  <2> QED  BY <2>2, <2>3 DEF InOrder
<1> QED  BY <1>1, <1>3, <1>4, <1>5, TouchKeeps

-----------------------------------------------------------------------------
(* The other steps.                                                        *)

\* A prompt that fails leaves nothing, or a part that is remembered as disturbance.
LEMMA PromptFailsKeeps ==
    ASSUME IInv, PromptFails
    PROVE  IInv'
<1>1. /\ pc = "prompt" /\ pc' = "idle"
      /\ UNCHANGED <<settings, n_past, cached, batch, n_generated, discard, desk>>
  BY DEF PromptFails
<1>2. MemOK(kv) /\ batch \in Seq(Tokens) /\ DeskOK
  BY DEF IInv, TypeInv, WorkOK
<1>3. WorkOK' /\ Calm /\ Calm'
  BY <1>1 DEF IInv, TypeInv, WorkOK, Places, Calm
<1>4. CASE UNCHANGED <<kv, disturbed>>
  BY <1>1, <1>3, <1>4, QuietKeeps DEF memory
<1>5. ASSUME NEW j \in 0..(Len(batch) - 1), kv' = Decoded(SubSeq(batch, 1, j)),
             disturbed' = (disturbed \/ j > 0)
      PROVE  IInv'
  <2>1. CASE j = 0
    <3>1. SubSeq(batch, 1, j) = <<>>
      BY <1>2, <2>1
    <3>2. kv' = kv
      BY <1>2, <1>5, <3>1, DecodedNothing
    <3>3. (j > 0) = FALSE
      BY <2>1
    <3>4. disturbed' = disturbed
      BY <1>2, <1>5, <3>3, Zenon DEF DeskOK
    <3> QED  BY <1>4, <3>2, <3>4
  <2>2. CASE j > 0
    <3>1. SubSeq(batch, 1, j) \in Seq(Tokens)
      <4>1. Len(batch) \in Nat
        BY <1>2, LenProperties
      <4> QED  BY <1>2, <4>1, PrefixOK
    <3>2. MemOK(kv')
      BY <1>2, <1>5, <3>1, DecodedOK
    <3>3. disturbed' = TRUE
      BY <1>5, <2>2, Zenon
    <3>4. TypeInv'
      BY <1>1, <1>3, <3>2, <3>3
         DEF IInv, TypeInv, SettingsOK, MemOK, CountersOK, DeskOK, settings, desk
    <3> QED  BY <3>3, <3>4 DEF IInv, InStepInv, HalfwayInv
  <2> QED  BY <2>1, <2>2
<1> QED  BY <1>4, <1>5 DEF PromptFails

\* The two halves of a replacement.
LEMMA ReplaceKeeps ==
    ASSUME IInv, ReplaceMemory \/ ReplaceCounters
    PROVE  IInv'
<1>1. context.cells \in Nat /\ MemOK(kv) /\ DeskOK /\ WorkOK /\ CountersOK /\ SettingsOK
  BY DEF IInv, TypeInv, SettingsOK
<1>2. CASE ReplaceMemory
  <2> DEFINE between == pc \notin {"idle", "prompt", "loop", "token"}
  <2>1. /\ target' \in Prompts /\ Len(target') <= context.cells
        /\ kv' = Cells(target') /\ ui' = "replacing"
        /\ disturbed' = between
        /\ UNCHANGED <<settings, n_past, cached, work>>
    BY <1>2 DEF ReplaceMemory
  <2>2. target' \in Seq(Tokens)
    BY <2>1, SizesAssumption
  <2>3. MemOK(kv)'
    <3>1. MemOK(Cells(target'))
      BY <2>2, CellsFacts
    <3> QED  BY <2>1, <3>1 DEF MemOK
  <2>4. between \in BOOLEAN
    OBVIOUS
  <2>5. ~between => Calm'
    BY <2>1 DEF Calm, work
  <2> HIDE DEF between
  <2>6. disturbed' \in BOOLEAN /\ (~disturbed' => Calm')
    BY <2>1, <2>4, <2>5, Zenon
  <2>7. HalfwayInv'
    BY <2>1, <2>6 DEF HalfwayInv, settings
  <2>8. InStepInv'
    BY <2>1 DEF InStepInv
  <2>9. SettingsOK' /\ CountersOK' /\ WorkOK'
    BY <1>1, <2>1 DEF SettingsOK, CountersOK, WorkOK, settings, work
  <2>10. DeskOK'
    BY <2>1, <2>2, <2>6 DEF DeskOK
  <2> QED  BY <2>3, <2>7, <2>8, <2>9, <2>10 DEF IInv, TypeInv
<1>3. CASE ReplaceCounters
  <2>1. /\ ui = "replacing" /\ n_past' = Len(target) /\ cached' = target
        /\ ui' = "free" /\ target' = <<>>
        /\ UNCHANGED <<settings, kv, work, disturbed>>
    BY <1>3 DEF ReplaceCounters
  <2>2. target \in Seq(Tokens) /\ Len(target) \in Nat /\ target \o <<>> = target
    BY <1>1, LenProperties DEF DeskOK
  <2>3. ASSUME ~disturbed PROVE InOrder'
    <3>1. Calm /\ kv = Cells(target) /\ Len(target) <= context.cells
      BY <2>1, <2>3 DEF IInv, HalfwayInv
    <3>2. Outstanding' = <<>> /\ Counted' = 0
      BY <2>1, <3>1 DEF Outstanding, Counted, Calm, work
    <3>3. MemoryIs'
      BY <2>1, <2>2, <3>1, <3>2 DEF MemoryIs, Calm, work, settings
    <3>4. CountIs' /\ ShiftIs'
      BY <2>1, <2>2, <3>1, <3>2 DEF CountIs, ShiftIs, Calm, work
    <3> QED  BY <3>3, <3>4 DEF InOrder
  <2>4. InStepInv' /\ HalfwayInv'
    BY <2>1, <2>3 DEF InStepInv, HalfwayInv
  <2>5. SettingsOK' /\ MemOK(kv)' /\ CountersOK' /\ WorkOK'
    BY <1>1, <2>1, <2>2 DEF SettingsOK, MemOK, CountersOK, WorkOK, settings, work
  <2>6. <<>> \in Seq(Tokens)
    BY EmptySeq
  <2>7. DeskOK'
    BY <1>1, <2>1, <2>6 DEF DeskOK
  <2> QED  BY <2>4, <2>5, <2>7 DEF IInv, TypeInv
<1> QED  BY <1>2, <1>3

\* A model is loaded: nothing is left of the memory before.
LEMMA LoadKeeps ==
    ASSUME IInv, LoadModel
    PROVE  IInv'
<1>1. /\ context' = Created(n_ctx) /\ can_shift' \in BOOLEAN
      /\ kv' = Cells(<<>>) /\ n_past' = 0 /\ cached' = <<>> /\ pc' = "idle" /\ discard' = 0
      /\ ui' = "free" /\ target' = <<>> /\ disturbed' = FALSE
      /\ UNCHANGED <<n_ctx, n_keep, n_predict, batch, n_generated>>
  BY DEF LoadModel
<1>2. /\ n_ctx \in Contexts /\ n_ctx \in Nat /\ n_keep \in Keeps /\ n_predict \in Predicts
      /\ WorkOK
  BY SettingsAssumption DEF IInv, TypeInv, SettingsOK
<1>3. context' \in [cells : Nat, batch : Nat]
  BY <1>1, <1>2, CreatedOK
<1>4. <<>> \in Seq(Tokens) /\ Len(<<>>) = 0 /\ <<>> \o <<>> = <<>>
  BY EmptySeq
<1>5. MemOK(kv')
  BY <1>1, <1>4, CellsFacts
<1>6. SettingsOK'
  BY <1>1, <1>2, <1>3 DEF SettingsOK
<1>7. MemOK(kv)' /\ CountersOK' /\ WorkOK' /\ DeskOK'
  <2>1. MemOK(kv)'
    BY <1>5 DEF MemOK
  <2>2. CountersOK'
    BY <1>1, <1>4 DEF CountersOK
  <2>3. WorkOK'
    BY <1>1, <1>2 DEF WorkOK, Places
  <2>4. DeskOK'
    BY <1>1, <1>4 DEF DeskOK
  <2> QED  BY <2>1, <2>2, <2>3, <2>4
<1>8. Outstanding' = <<>> /\ Counted' = 0
  BY <1>1 DEF Outstanding, Counted
<1>9. InOrder'
  BY <1>1, <1>3, <1>4, <1>8 DEF InOrder, MemoryIs, CountIs, ShiftIs
<1> QED  BY <1>1, <1>6, <1>7, <1>9 DEF IInv, TypeInv, InStepInv, HalfwayInv

\* The sliders: n_keep moved in the middle of a shift is a disturbance.
LEMMA SliderKeeps ==
    ASSUME IInv, MoveSlider
    PROVE  IInv'
<1> DEFINE mixed == n_keep' # n_keep /\ pc \in {"full", "removed", "moved"}
<1>1. /\ n_ctx' \in Contexts /\ n_keep' \in Keeps /\ n_predict' \in Predicts
      /\ disturbed' = (disturbed \/ mixed)
      /\ UNCHANGED <<context, can_shift, memory, work, desk>>
  BY DEF MoveSlider
<1>2. mixed \in BOOLEAN /\ DeskOK
  BY DEF IInv, TypeInv
<1>3. ~mixed => n_keep' = n_keep \/ pc \notin {"full", "removed", "moved"}
  OBVIOUS
<1> HIDE DEF mixed
<1>4. disturbed' \in BOOLEAN /\ (~disturbed' => ~disturbed /\ ~mixed)
  BY <1>1, <1>2, Zenon DEF DeskOK
<1>5. TypeInv'
  BY <1>1, <1>4 DEF IInv, TypeInv, SettingsOK, MemOK, CountersOK, WorkOK, DeskOK,
                   memory, work, desk
<1>6. Outstanding' = Outstanding /\ Counted' = Counted
  BY <1>1 DEF Outstanding, Counted, work
<1>7. ASSUME ~mixed, InOrder PROVE InOrder'
  <2>1. CASE n_keep' = n_keep
    <3>1. Kept' = Kept
      BY <1>1, <2>1 DEF Kept, memory, work
    <3> QED  BY <1>1, <1>6, <1>7, <2>1, <3>1
             DEF InOrder, MemoryIs, CountIs, ShiftIs, memory, work
  <2>2. CASE pc \notin {"full", "removed", "moved"}
    BY <1>1, <1>6, <1>7, <2>2 DEF InOrder, MemoryIs, CountIs, ShiftIs, memory, work
  <2> QED  BY <1>3, <1>7, <2>1, <2>2
<1>8. InStepInv'
  BY <1>1, <1>4, <1>7 DEF IInv, InStepInv, desk
<1>9. HalfwayInv'
  BY <1>1, <1>4 DEF IInv, HalfwayInv, Calm, memory, work, desk
<1> QED  BY <1>5, <1>8, <1>9 DEF IInv

\* Every step of the engine and of the UI thread keeps the invariant.
LEMMA StepIInv == IInv /\ [Next]_vars => IInv'
<1> SUFFICES ASSUME IInv, [Next]_vars PROVE IInv'
  OBVIOUS
<1>1. /\ batch \in Seq(Tokens) /\ n_generated \in Nat /\ discard \in Nat
      /\ pc \in {"prompted", "prompt_counted", "token", "decoded", "token_counted"}
            => batch # <<>>
  BY DEF IInv, TypeInv, WorkOK
<1>2. CASE Generate
  <2>1. WorkOK' /\ Calm /\ Calm'
    BY <1>1, <1>2, SizesAssumption DEF Generate, WorkOK, Places, Calm
  <2> QED  BY <1>2, <2>1, QuietKeeps DEF Generate
<1>3. CASE NoTokens \/ PromptAborts \/ LoopEnds \/ TokenFails
  <2>1. /\ UNCHANGED <<settings, memory, batch, n_generated, discard, desk, disturbed>>
        /\ pc \in {"prompt", "loop", "token"} /\ pc' \in {"idle", "aborted"}
    BY <1>3 DEF NoTokens, PromptAborts, LoopEnds, TokenFails
  <2>2. WorkOK' /\ Calm /\ Calm'
    BY <1>1, <2>1 DEF WorkOK, Places, Calm
  <2> QED  BY <2>1, <2>2, QuietKeeps
<1>4. CASE DecodePrompt
  BY <1>4, DecodeKeeps DEF DecodePrompt
<1>5. CASE DecodeToken
  BY <1>1, <1>5, DecodeKeeps DEF DecodeToken
<1>6. CASE PromptFails
  BY <1>6, PromptFailsKeeps
<1>7. CASE CountPrompt \/ CountToken
  BY <1>7, CountKeeps DEF CountPrompt, CountToken
<1>8. CASE CachePrompt \/ CacheToken
  BY <1>1, <1>8, CacheKeeps DEF CachePrompt, CacheToken
<1>9. CASE Iterate
  <2>1. /\ pc = "loop" /\ Sampled
        /\ UNCHANGED <<settings, memory, n_generated, discard, desk, disturbed>>
    BY <1>9 DEF Iterate
  <2>2. WorkOK' /\ pc' \in {"idle", "token"}
    BY <1>1, <2>1, SampledFacts
  <2>3. Calm /\ Calm'
    BY <2>1, <2>2 DEF Calm
  <2> QED  BY <2>1, <2>2, <2>3, QuietKeeps
<1>10. CASE ShiftBegins
  BY <1>10, BeginKeeps
<1>11. CASE RemoveCells
  BY <1>11, RemoveKeeps
<1>12. CASE MoveCells
  BY <1>12, MoveKeeps
<1>13. CASE EraseTokens
  BY <1>13, EraseKeeps
<1>14. CASE ShiftEnds
  BY <1>14, EndKeeps
<1>15. CASE ReplaceMemory \/ ReplaceCounters
  BY <1>15, ReplaceKeeps
<1>16. CASE MoveSlider
  BY <1>16, SliderKeeps
<1>17. CASE LoadModel
  BY <1>17, LoadKeeps
<1>18. CASE UNCHANGED vars
  <2>1. Outstanding' = Outstanding /\ Counted' = Counted /\ Kept' = Kept
    BY <1>18 DEF vars, memory, work, settings, Outstanding, Counted, Kept
  <2>2. TypeInv'
    BY <1>18 DEF vars, IInv, TypeInv, SettingsOK, MemOK, CountersOK, WorkOK, DeskOK,
                 settings, memory, work, desk
  <2>3. InStepInv' /\ HalfwayInv'
    BY <1>18, <2>1 DEF vars, IInv, InStepInv, HalfwayInv, InOrder, MemoryIs, CountIs,
                       ShiftIs, Calm, settings, memory, work, desk
  <2> QED  BY <2>2, <2>3 DEF IInv
<1> QED  BY <1>2, <1>3, <1>4, <1>5, <1>6, <1>7, <1>8, <1>9, <1>10, <1>11, <1>12, <1>13, <1>14,
            <1>15, <1>16, <1>17, <1>18 DEF Next, Engine

-----------------------------------------------------------------------------
(* What a shift makes of the memory.                                       *)

\* Only an iteration, or the end of a shift, has a token sampled.
LEMMA ShiftedRoom ==
    ASSUME IInv, [Next]_vars, pc # "token", pc' = "token",
           ui = "free", ~disturbed, n_ctx <= context.cells
    PROVE  Cardinality(DOMAIN kv') < context.cells
<1>1. Iterate \/ ShiftEnds
  BY DEF Next, Engine, vars, work, Generate, NoTokens, PromptAborts, DecodePrompt, PromptFails,
         CountPrompt, CachePrompt, CountToken, CacheToken, CountBatch, CacheBatch, LoopEnds,
         DecodeToken, TokenFails, ShiftBegins, RemoveCells, MoveCells, EraseTokens,
         ReplaceMemory, ReplaceCounters, MoveSlider, LoadModel
<1>2. /\ cached \in Seq(Tokens) /\ Len(cached) \in Nat /\ cached \o <<>> = cached
      /\ n_past \in Int /\ n_keep \in Nat /\ discard \in Nat /\ context.cells \in Nat
      /\ n_ctx \in Nat /\ n_ctx >= n_keep + 3
  BY IInvTypes
<1>3. pc \in {"loop", "erased"} /\ kv' = kv
  BY <1>1 DEF Iterate, ShiftEnds, memory
<1>4. Outstanding = <<>> /\ Counted = 0 /\ InOrder
  BY <1>3 DEF Outstanding, Counted, IInv, InStepInv
<1>5. kv = Cells(cached) /\ Len(cached) <= context.cells
  BY <1>2, <1>3, <1>4 DEF InOrder, MemoryIs
<1>6. Cardinality(DOMAIN kv') = Len(cached)
  BY <1>2, <1>3, <1>5, CellsFacts
<1>7. CASE ShiftEnds
  <2>1. discard > 0 /\ Len(cached) + discard <= context.cells
    BY <1>4, <1>7 DEF ShiftEnds, InOrder, ShiftIs
  <2> QED  BY <1>2, <1>6, <2>1
<1>8. CASE Iterate
  <2>1. pc = "loop" /\ (ContextFull => Discard = 0)
    BY <1>8 DEF Iterate
  <2>2. n_past = Len(cached)
    BY <1>2, <1>4, <2>1 DEF InOrder, CountIs
  <2>3. ~ContextFull
    <3> SUFFICES ASSUME ContextFull PROVE FALSE
      OBVIOUS
    <3>1. n_past > n_keep /\ n_past - n_keep >= 2
      BY <1>2 DEF ContextFull
    <3> DEFINE x == n_past - n_keep
    <3>2. Discard = x \div 2 /\ x \in Nat /\ x >= 2
      BY <3>1, <1>2 DEF Discard
    <3> HIDE DEF x
    <3>3. x \div 2 > 0
      BY <3>2
    <3> QED  BY <2>1, <3>2, <3>3
  <2> QED  BY <1>2, <1>6, <2>2, <2>3 DEF ContextFull
<1> QED  BY <1>1, <1>7, <1>8

\* The only step of a generation that forgets tokens, but for the UI's, is the one of a shift.
LEMMA ShiftedEnds ==
    ASSUME IInv, [Next]_vars, Working, Len(cached') < Len(cached), ui = "free", ~disturbed
    PROVE  \E d \in 1..(Len(cached) - n_keep) :
              /\ cached' = SubSeq(cached, 1, n_keep)
                              \o SubSeq(cached, n_keep + d + 1, Len(cached))
              /\ 2 * d <= Len(cached) - n_keep
<1>1. /\ cached \in Seq(Tokens) /\ Len(cached) \in Nat /\ batch \in Seq(Tokens)
      /\ Len(batch) \in Nat /\ n_keep \in Nat /\ discard \in Nat
  BY IInvTypes
<1>2. cached' # cached
  BY <1>1
<1>3. cached' # cached \o batch
  BY <1>1, ConcatProperties
<1>4. EraseTokens
  BY <1>2, <1>3 DEF Next, Engine, vars, memory, Working, Generate, NoTokens, PromptAborts,
         DecodePrompt, PromptFails, CountPrompt, CachePrompt, CountToken, CacheToken,
         CountBatch, CacheBatch, LoopEnds, Iterate, DecodeToken, TokenFails, ShiftBegins,
         RemoveCells, MoveCells, ShiftEnds, ReplaceMemory, ReplaceCounters, MoveSlider,
         LoadModel
<1>5. /\ discard > 0 /\ n_keep + discard <= Len(cached) /\ 2 * discard <= Len(cached) - n_keep
  BY <1>4 DEF EraseTokens, IInv, InStepInv, InOrder, ShiftIs
<1>6. cached' = SubSeq(cached, 1, n_keep)
                   \o SubSeq(cached, n_keep + discard + 1, Len(cached))
  BY <1>4, <1>5 DEF EraseTokens
<1>7. discard \in 1..(Len(cached) - n_keep)
  BY <1>1, <1>5
<1> QED  BY <1>5, <1>6, <1>7

-----------------------------------------------------------------------------
\* The inductive invariant of the memory.
THEOREM Inductive == Spec => []IInv
<1>1. Init => IInv
  BY InitIInv
<1>2. IInv /\ [Next]_vars => IInv'
  BY StepIInv
<1> QED  BY <1>1, <1>2, PTL DEF Spec

\* Every reachable state is of its type.
THEOREM TypeCorrect == Spec => []TypeOK
<1>1. IInv => TypeOK
  BY IInvParts
<1> QED  BY <1>1, Inductive, PTL

\* The memory and the counters describe the same tokens (engine.cpp:237-405), for any
\* settings, prompts and interleavings of the two threads.
THEOREM InStepAlways == Spec => []InStep
<1>1. IInv => InStep
  BY IInvParts
<1> QED  BY <1>1, Inductive, PTL

\* The token sampled after a shift, or without one, finds a cell (engine.cpp:326-354).
THEOREM ShiftMakesRoomAlways == Spec => ShiftMakesRoom
<1>1. IInv /\ [Next]_vars =>
         [(pc # "token" /\ pc' = "token") =>
             (ui = "free" /\ ~disturbed /\ n_ctx <= context.cells
                => Cardinality(DOMAIN kv') < context.cells)]_vars
  BY ShiftedRoom
<1> QED  BY <1>1, Inductive, PTL DEF Spec, ShiftMakesRoom

\* A generation forgets tokens of the middle only.
THEOREM ShiftKeepsBothEndsAlways == Spec => ShiftKeepsBothEnds
<1>1. IInv /\ [Next]_vars =>
         [(Working /\ Len(cached') < Len(cached) /\ ui = "free" /\ ~disturbed) =>
             \E d \in 1..(Len(cached) - n_keep) :
                 /\ cached' = SubSeq(cached, 1, n_keep)
                                 \o SubSeq(cached, n_keep + d + 1, Len(cached))
                 /\ 2 * d <= Len(cached) - n_keep]_vars
  BY ShiftedEnds
<1> QED  BY <1>1, Inductive, PTL DEF Spec, ShiftKeepsBothEnds

-----------------------------------------------------------------------------
(* The length of a generation.                                             *)

\* An answer has at most as many tokens as the largest n_predict that can be set, and the
\* one being decoded is among them (engine.cpp:326-380, app.cpp:545): however the setting
\* is moved, and whatever shifts, clears and restored states do to all other counters.
AnswerBounded ==
    /\ n_generated <= MaxPredict
    /\ pc \in {"full", "removed", "moved", "erased", "token", "decoded", "token_counted"}
          => n_generated < MaxPredict

\* No generation, however often it is disturbed and its n_predict is moved, makes more
\* tokens than the slider's largest value.
THEOREM AnswerBoundedAlways == Spec => []AnswerBounded
<1>1. Init => AnswerBounded
  BY SizesAssumption DEF Init, AnswerBounded
<1>2. ASSUME IInv, AnswerBounded, [Next]_vars PROVE AnswerBounded'
  <2>1. /\ n_generated \in Nat /\ MaxPredict \in Nat
        /\ n_predict \in Nat /\ n_predict <= MaxPredict
    BY <1>2, IInvTypes DEF IInv, TypeInv, WorkOK
  <2>2. CASE Generate
    BY <2>1, <2>2 DEF Generate, AnswerBounded
  <2>3. CASE NoTokens \/ PromptAborts \/ DecodePrompt \/ PromptFails \/ LoopEnds \/ TokenFails
    BY <1>2, <2>3 DEF NoTokens, PromptAborts, DecodePrompt, PromptFails, LoopEnds, TokenFails,
                      AnswerBounded
  <2>4. CASE CountPrompt \/ CachePrompt
    BY <1>2, <2>4 DEF CountPrompt, CachePrompt, CountBatch, CacheBatch, AnswerBounded
  <2>5. CASE Iterate \/ ShiftBegins
    <3>1. n_generated < n_predict /\ n_generated' = n_generated
      BY <2>5 DEF Iterate, ShiftBegins
    <3> QED  BY <2>1, <3>1 DEF AnswerBounded
  <2>6. CASE RemoveCells \/ MoveCells \/ EraseTokens \/ ShiftEnds \/ DecodeToken \/ CountToken
    <3>1. /\ pc \in {"full", "removed", "moved", "erased", "token", "decoded"}
          /\ n_generated' = n_generated
      BY <2>6 DEF RemoveCells, MoveCells, EraseTokens, ShiftEnds, DecodeToken, CountToken,
                  CountBatch
    <3> QED  BY <1>2, <3>1 DEF AnswerBounded
  <2>7. CASE CacheToken
    <3>1. n_generated < MaxPredict /\ n_generated' = n_generated + 1 /\ pc' = "loop"
      BY <1>2, <2>7 DEF CacheToken, CacheBatch, AnswerBounded
    <3> QED  BY <2>1, <3>1 DEF AnswerBounded
  <2>8. CASE ReplaceMemory \/ ReplaceCounters \/ MoveSlider \/ UNCHANGED vars
    BY <1>2, <2>8 DEF ReplaceMemory, ReplaceCounters, MoveSlider, vars, work, AnswerBounded
  <2>9. CASE LoadModel
    BY <1>2, <2>9 DEF LoadModel, AnswerBounded
  <2> QED  BY <1>2, <2>2, <2>3, <2>4, <2>5, <2>6, <2>7, <2>8, <2>9 DEF Next, Engine
<1> QED  BY Inductive, <1>1, <1>2, PTL DEF Spec

\* What is left of a token, or of the prompt, at each place.
Stretch ==
    CASE pc = "token_counted" -> 1
      [] pc = "decoded" -> 2
      [] pc = "token" -> 3
      [] pc = "erased" -> 4
      [] pc = "moved" -> 5
      [] pc = "removed" -> 6
      [] pc = "full" -> 7
      [] pc = "loop" -> 8
      [] pc = "prompt_counted" -> 9
      [] pc = "prompted" -> 10
      [] pc = "prompt" -> 11

\* The steps of run_loop that are left at most, whatever n_predict will be moved to: eight
\* for a token, eleven for the prompt and the end.
StepsLeft == IF Working THEN 8 * (MaxPredict - n_generated) + Stretch ELSE 0

\* However often the context is shifted, cleared or restored, and whatever is done to the
\* settings, n_predict among them, every step of run_loop leaves it less to do and nothing
\* gives it more (engine.cpp:280-405).  GenerationEnds adds that its thread runs.
GenerationShortens ==
    [][Working => IF Engine THEN StepsLeft' < StepsLeft ELSE UNCHANGED StepsLeft]_vars

\* The measure is a number within its bound, and above zero while the thread works.
LEMMA StepsLeftFacts ==
    ASSUME IInv, AnswerBounded
    PROVE  /\ StepsLeft \in 0..(8 * MaxPredict + 11)
           /\ Working => StepsLeft > 0 /\ Stretch \in 1..11
<1> DEFINE left == MaxPredict - n_generated
<1>1. left \in 0..MaxPredict /\ MaxPredict \in Nat
  BY SizesAssumption DEF IInv, TypeInv, WorkOK, AnswerBounded
<1> HIDE DEF left
<1>2. CASE ~Working
  BY <1>1, <1>2 DEF StepsLeft
<1>3. CASE Working
  <2>1. Stretch \in 1..11
    BY <1>3 DEF Stretch, Working, IInv, TypeInv, WorkOK, Places
  <2>2. StepsLeft = 8 * left + Stretch
    BY <1>3 DEF StepsLeft, left
  <2> QED  BY <1>1, <2>1, <2>2
<1> QED  BY <1>2, <1>3

\* Each step of run_loop lowers the measure.
LEMMA EngineShortens ==
    ASSUME IInv, AnswerBounded, IInv', AnswerBounded', Engine
    PROVE  StepsLeft' < StepsLeft
<1>1. n_generated \in Nat /\ MaxPredict \in Nat /\ n_generated <= MaxPredict
  BY SizesAssumption DEF IInv, TypeInv, WorkOK, AnswerBounded
<1>2. Working
  BY DEF Engine, NoTokens, PromptAborts, DecodePrompt, PromptFails, CountPrompt, CachePrompt,
         LoopEnds, Iterate, DecodeToken, TokenFails, CountToken, CacheToken, CountBatch,
         CacheBatch, ShiftBegins, RemoveCells, MoveCells, EraseTokens, ShiftEnds, Working
<1>3. StepsLeft > 0
  BY <1>2, StepsLeftFacts
<1>4. CASE ~Working'
  BY <1>3, <1>4 DEF StepsLeft
<1>5. ASSUME n_generated' = n_generated, Stretch' < Stretch, Working' PROVE StepsLeft' < StepsLeft
  <2>1. Stretch \in 1..11 /\ Stretch' \in 1..11
    BY <1>2, <1>5, StepsLeftFacts DEF StepsLeft, Stretch, Working, IInv, TypeInv, WorkOK, Places
  <2>2. PICK k \in Nat : k = MaxPredict - n_generated
    BY <1>1
  <2>3. StepsLeft = 8 * k + Stretch /\ StepsLeft' = 8 * k + Stretch'
    BY <1>2, <1>5, <2>2 DEF StepsLeft
  <2> DEFINE a == Stretch
             b == Stretch'
  <2>4. a \in Int /\ b \in Int /\ b < a
    BY <1>5, <2>1
  <2>5. StepsLeft = 8 * k + a /\ StepsLeft' = 8 * k + b
    BY <2>3
  <2> HIDE DEF a, b
  <2> QED  BY <2>2, <2>4, <2>5
<1>6. CASE DecodePrompt \/ CountPrompt \/ CachePrompt
  <2>1. /\ n_generated' = n_generated /\ Working'
        /\ \/ pc = "prompt" /\ pc' = "prompted"
           \/ pc = "prompted" /\ pc' = "prompt_counted"
           \/ pc = "prompt_counted" /\ pc' = "loop"
    BY <1>6 DEF DecodePrompt, CountPrompt, CachePrompt, CountBatch, CacheBatch, Working
  <2>2. Stretch' < Stretch
    BY <2>1 DEF Stretch
  <2> QED  BY <1>5, <2>1, <2>2
<1>7. CASE DecodeToken \/ CountToken
  <2>1. /\ n_generated' = n_generated /\ Working'
        /\ \/ pc = "token" /\ pc' = "decoded"
           \/ pc = "decoded" /\ pc' = "token_counted"
    BY <1>7 DEF DecodeToken, CountToken, CountBatch, Working
  <2>2. Stretch' < Stretch
    BY <2>1 DEF Stretch
  <2> QED  BY <1>5, <2>1, <2>2
<1>8. CASE (Iterate \/ ShiftEnds) /\ Working'
  <2>1. /\ n_generated' = n_generated /\ pc \in {"loop", "erased"} /\ pc' = "token"
    BY <1>8 DEF Iterate, ShiftEnds, Sampled, Working
  <2>2. Stretch' < Stretch
    BY <2>1 DEF Stretch
  <2> QED  BY <1>5, <1>8, <2>1, <2>2
<1>9. CASE (ShiftBegins \/ RemoveCells \/ MoveCells \/ EraseTokens) /\ Working'
  <2>1. /\ n_generated' = n_generated
        /\ \/ pc = "loop" /\ pc' = "full"
           \/ pc = "full" /\ pc' = "removed"
           \/ pc = "removed" /\ pc' = "moved"
           \/ pc = "moved" /\ pc' = "erased"
    BY <1>9 DEF ShiftBegins, RemoveCells, MoveCells, EraseTokens, Working
  <2>2. Stretch' < Stretch
    BY <2>1 DEF Stretch
  <2> QED  BY <1>5, <1>9, <2>1, <2>2
<1>10. CASE CacheToken
  <2>1. pc = "token_counted" /\ pc' = "loop" /\ n_generated' = n_generated + 1
    BY <1>10 DEF CacheToken, CacheBatch
  <2>2. Stretch = 1 /\ Stretch' = 8 /\ Working'
    BY <2>1 DEF Stretch, Working
  <2> QED  BY <1>1, <1>2, <2>1, <2>2 DEF StepsLeft
<1>11. NoTokens \/ PromptAborts \/ PromptFails \/ LoopEnds \/ TokenFails => ~Working'
  BY DEF NoTokens, PromptAborts, PromptFails, LoopEnds, TokenFails, Working
<1> QED  BY <1>4, <1>6, <1>7, <1>8, <1>9, <1>10, <1>11 DEF Engine

\* A generation takes 8 * MaxPredict + 11 steps at most, and each one shortens the rest.
THEOREM GenerationShortensAlways ==
    Spec => [](StepsLeft \in 0..(8 * MaxPredict + 11)) /\ GenerationShortens
<1>1. IInv /\ AnswerBounded => StepsLeft \in 0..(8 * MaxPredict + 11)
  BY StepsLeftFacts
<1>2. ASSUME IInv, AnswerBounded, IInv', AnswerBounded', [Next]_vars
      PROVE  [Working => IF Engine THEN StepsLeft' < StepsLeft ELSE UNCHANGED StepsLeft]_vars
  <2> SUFFICES ASSUME Working, ~Engine PROVE UNCHANGED StepsLeft
    BY <1>2, EngineShortens
  <2>1. UNCHANGED <<pc, n_generated>>
    BY <1>2 DEF Next, Working, Generate, ReplaceMemory, ReplaceCounters, MoveSlider, LoadModel,
                vars, work
  <2> QED  BY <2>1 DEF StepsLeft, Stretch, Working
<1> QED  BY <1>1, <1>2, Inductive, AnswerBoundedAlways, PTL DEF Spec, GenerationShortens

=============================================================================
