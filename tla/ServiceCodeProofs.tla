------------------------- MODULE ServiceCodeProofs --------------------------
(***************************************************************************)
(* Proofs about ServiceCode and VolarMappings, for any workers,            *)
(* environments, files and identities, whatever is killed, fails or is     *)
(* torn: an answer is never another file's code, nor that of other         *)
(* contents; its mappings relate the bytes of any two texts that           *)
(* language-core's offsets lie in, and leave no byte that is not ignored.  *)
(***************************************************************************)
EXTENDS ServiceCode, FiniteSetTheorems, WellFoundedInduction, TLAPS

-----------------------------------------------------------------------------
(* Numbers. *)

(* A set of numbers that is not empty has a least one.                     *)
LEMMA LeastNat ==
    ASSUME NEW S \in SUBSET Nat, S # {}
    PROVE  \E m \in S : \A k \in S : m <= k
<1>. DEFINE R == StrictSubsetOrdering(Nat)
            T == {1..k : k \in S}
<1>1. T \subseteq FiniteSubsetsOf(Nat) /\ T # {}
  <2>1. ASSUME NEW k \in S PROVE 1..k \in FiniteSubsetsOf(Nat)
    <3>1. IsFiniteSet(1..k)
      BY FS_Interval
    <3>2. 1..k \in SUBSET Nat
      OBVIOUS
    <3>. QED
      BY <3>1, <3>2 DEF FiniteSubsetsOf
  <2>. QED
    BY <2>1
<1>2. IsWellFoundedOn(R, FiniteSubsetsOf(Nat))
  BY FS_StrictSubsetOrderingWellFounded
<1>3. PICK x \in T : \A y \in T : <<y, x>> \notin R
  <2>. HIDE DEF R, T
  <2>. QED
    BY <1>1, <1>2, WFMin
<1>4. PICK m \in S : x = 1..m
  OBVIOUS
<1>5. ASSUME NEW k \in S, k < m PROVE FALSE
  <2>1. 1..k \subseteq 1..m /\ 1..k # 1..m
    BY <1>5
  <2>2. <<1..k, 1..m>> \in R
    BY <2>1 DEF StrictSubsetOrdering
  <2>. QED
    BY <1>3, <1>4, <2>2
<1>. QED
  BY <1>5

(* Induction over numbers, of which a set holds.                           *)
LEMMA Induction ==
    ASSUME NEW n \in Nat, NEW S, \A i \in 0..n : (\A j \in 0..(i - 1) : j \in S) => i \in S
    PROVE  \A i \in 0..n : i \in S
<1>. DEFINE T == {i \in 0..n : i \notin S}
<1>1. SUFFICES ASSUME T # {} PROVE FALSE
  OBVIOUS
<1>2. T \in SUBSET Nat
  OBVIOUS
<1>3. PICK m \in T : \A k \in T : m <= k
  <2>. HIDE DEF T
  <2>. QED
    BY <1>1, <1>2, LeastNat
<1>4. ASSUME NEW j \in 0..(m - 1) PROVE j \in S
  BY <1>3
<1>. QED
  BY <1>3, <1>4

(* A function each of whose values is computed from the one before it.     *)
Chain(n, V, v, G) == n \in Nat /\ v \in V /\ \A i \in 1..n : \A a \in V : G[i][a] \in V

Solves(g, n, V, v, G) == g \in [0..n -> V] /\ g[0] = v /\ \A i \in 1..n : g[i] = G[i][g[i - 1]]

(* There is one, up to any number.                                         *)
LEMMA Recursion ==
    ASSUME NEW n, NEW V, NEW v, NEW G, Chain(n, V, v, G)
    PROVE  \E g : Solves(g, n, V, v, G)
<1>. n \in Nat /\ v \in V /\ \A i \in 1..n : \A a \in V : G[i][a] \in V
  BY DEF Chain
<1>. DEFINE S == {m \in 0..n : \E g : Solves(g, m, V, v, G)}
<1>1. ASSUME NEW m \in 0..n, \A j \in 0..(m - 1) : j \in S
      PROVE  \E g : Solves(g, m, V, v, G)
  <2>1. CASE m = 0
    <3>. DEFINE z == [i \in 0..0 |-> v]
    <3>1. Solves(z, 0, V, v, G)
      BY DEF Solves
    <3>. HIDE DEF z
    <3>. QED
      BY <2>1, <3>1
  <2>2. CASE m # 0
    <3>1. m - 1 \in S /\ m \in 1..n
      <4>1. m \in 1..n /\ m - 1 \in 0..(m - 1)
        BY <2>2
      <4>. HIDE DEF S
      <4>. QED
        BY <1>1, <4>1
    <3>2. PICK g : Solves(g, m - 1, V, v, G)
      BY <3>1
    <3>3. g \in [0..(m - 1) -> V] /\ g[0] = v /\ \A i \in 1..(m - 1) : g[i] = G[i][g[i - 1]]
      BY <3>2 DEF Solves
    <3>. DEFINE h == [i \in 0..m |-> IF i = m THEN G[m][g[m - 1]] ELSE g[i]]
    <3>4. m - 1 \in 0..(m - 1)
      BY <3>1
    <3>5. g[m - 1] \in V
      BY <3>3, <3>4
    <3>7. G[m][g[m - 1]] \in V
      BY <3>1, <3>5
    <3>8. \A i \in 0..(m - 1) : g[i] \in V
      BY <3>3
    <3>9. h \in [0..m -> V]
      BY <3>1, <3>7, <3>8
    <3>10. ASSUME NEW i \in 1..m PROVE h[i] = G[i][h[i - 1]]
      <4>1. i - 1 \in 0..m /\ i - 1 # m
        BY <3>1
      <4>2. h[i - 1] = g[i - 1]
        BY <4>1
      <4>3. i # m => h[i] = g[i] /\ i \in 1..(m - 1)
        BY <3>1
      <4>4. i = m => h[i] = G[m][g[m - 1]]
        OBVIOUS
      <4>. HIDE DEF h
      <4>. QED
        BY <3>3, <4>2, <4>3, <4>4
    <3>11. h[0] = v
      BY <3>1, <3>3
    <3>12. Solves(h, m, V, v, G)
      BY <3>9, <3>10, <3>11 DEF Solves
    <3>. HIDE DEF h
    <3>. QED
      BY <3>12
  <2>. QED
    BY <2>1, <2>2
<1>2. \A m \in 0..n : (\A j \in 0..(m - 1) : j \in S) => m \in S
  BY <1>1
<1>3. \A m \in 0..n : m \in S
  <2>. HIDE DEF S
  <2>. QED
    BY <1>2, Induction
<1>4. \E g : Solves(g, n, V, v, G)
  BY <1>3
<1>. QED
  BY <1>4

(* Two functions that go the same steps from the same value agree.         *)
LEMMA Agree ==
    ASSUME NEW n \in Nat, NEW g, NEW h, g[0] = h[0],
           \A i \in 1..n : g[i - 1] = h[i - 1] => g[i] = h[i]
    PROVE  \A i \in 0..n : g[i] = h[i]
<1>. DEFINE S == {i \in 0..n : g[i] = h[i]}
<1>1. ASSUME NEW i \in 0..n, \A j \in 0..(i - 1) : j \in S
      PROVE  i \in S
  <2>1. CASE i = 0
    BY <2>1
  <2>2. CASE i # 0
    <3>1. i \in 1..n /\ i - 1 \in 0..(i - 1)
      BY <2>2
    <3>. QED
      BY <1>1, <3>1
  <2>. QED
    BY <2>1, <2>2
<1>2. \A i \in 0..n : i \in S
  <2>. HIDE DEF S
  <2>. QED
    BY <1>1, Induction
<1>. QED
  BY <1>2

-----------------------------------------------------------------------------
(* Sums. *)

(* The sums of the first numbers of a list.                                *)
Running(g, n, v) ==
    /\ n \in Nat /\ g \in [0..n -> Nat] /\ g[0] = 0
    /\ \A i \in 1..n : v[i] \in Nat /\ g[i] = g[i - 1] + v[i]

(* Numbers have running sums.                                              *)
LEMMA RunningSums ==
    ASSUME NEW n \in Nat, NEW v, \A i \in 1..n : v[i] \in Nat
    PROVE  \E g : Running(g, n, v)
<1>. PICK G : G = [i \in 1..n |-> [a \in Nat |-> a + v[i]]]
  OBVIOUS
<1>1. Chain(n, Nat, 0, G)
  BY SMTT(30) DEF Chain
<1>2. PICK g : Solves(g, n, Nat, 0, G)
  BY <1>1, Recursion
<1>3. ASSUME NEW i \in 1..n PROVE g[i] = g[i - 1] + v[i]
  <2>1. g[i - 1] \in Nat
    BY <1>2 DEF Solves
  <2>2. G[i][g[i - 1]] = g[i - 1] + v[i]
    BY <2>1
  <2>. QED
    BY <1>2, <2>2 DEF Solves
<1>4. Running(g, n, v)
  BY <1>2, <1>3 DEF Running, Solves
<1>. QED
  BY <1>4

(* SumTo is the last of them.                                              *)
LEMMA SumIsRunning ==
    ASSUME NEW n, NEW v, NEW g, Running(g, n, v)
    PROVE  SumTo(v, n) = g[n]
<1>. n \in Nat
  BY DEF Running
<1>. DEFINE sum == CHOOSE sum : sum = [i \in 0..n |-> IF i = 0 THEN 0 ELSE sum[i - 1] + v[i]]
<1>1. g = [i \in 0..n |-> IF i = 0 THEN 0 ELSE g[i - 1] + v[i]]
  BY DEF Running
<1>2. sum = [i \in 0..n |-> IF i = 0 THEN 0 ELSE sum[i - 1] + v[i]]
  BY <1>1
<1>3. SumTo(v, n) = sum[n]
  BY DEF SumTo
<1>. HIDE DEF sum
<1>4. g[0] = sum[0] /\ \A i \in 1..n : g[i - 1] = sum[i - 1] => g[i] = sum[i]
  BY <1>2 DEF Running
<1>5. \A i \in 0..n : g[i] = sum[i]
  BY <1>4, Agree
<1>. QED
  BY <1>3, <1>5

(* They never fall.                                                        *)
LEMMA RunningGrows ==
    ASSUME NEW n, NEW v, NEW g, Running(g, n, v), NEW x \in 0..n, NEW y \in x..n
    PROVE  g[x] <= g[y]
<1>. n \in Nat /\ g \in [0..n -> Nat]
  BY DEF Running
<1>. DEFINE S == {i \in 0..n : x <= i => g[x] <= g[i]}
<1>1. ASSUME NEW i \in 0..n, \A j \in 0..(i - 1) : j \in S
      PROVE  i \in S
  <2>1. CASE i <= x
    BY <2>1
  <2>2. CASE x < i
    <3>1. i - 1 \in 0..(i - 1) /\ i \in 1..n /\ x <= i - 1
      BY <2>2
    <3>2. g[x] <= g[i - 1]
      BY <1>1, <3>1
    <3>3. g[i] = g[i - 1] + v[i] /\ v[i] \in Nat
      BY <3>1 DEF Running
    <3>4. g[x] \in Nat /\ g[i - 1] \in Nat /\ g[i] \in Nat
      BY <3>1
    <3>5. g[x] <= g[i]
      BY <3>2, <3>3, <3>4
    <3>. QED
      BY <3>5
  <2>. QED
    BY <2>1, <2>2
<1>2. \A i \in 0..n : i \in S
  <2>. HIDE DEF S
  <2>. QED
    BY <1>1, Induction
<1>. QED
  BY <1>2

(* Values that are those of a list behind its first x.                     *)
Behind(w, x, y, v) == \A i \in 1..(y - x) : w[i] = v[x + i]

(* What is summed up behind the first x is what the sum grows by.          *)
LEMMA SumOfTail ==
    ASSUME NEW n, NEW v, NEW g, Running(g, n, v), NEW x \in 0..n, NEW y \in x..n,
           NEW w, Behind(w, x, y, v)
    PROVE  SumTo(w, y - x) = g[y] - g[x]
<1>. n \in Nat /\ g \in [0..n -> Nat]
  BY DEF Running
<1>. y - x \in Nat /\ x \in Nat
  OBVIOUS
<1>1. \A i \in 1..(y - x) : w[i] \in Nat
  <2>1. \A i \in 1..(y - x) : x + i \in 1..n
    OBVIOUS
  <2>. QED
    BY <2>1 DEF Running, Behind
<1>2. PICK h : Running(h, y - x, w)
  BY <1>1, RunningSums
<1>. PICK k : k = [i \in 0..(y - x) |-> g[x + i] - g[x]]
  OBVIOUS
<1>3. k[0] = h[0]
  BY <1>2 DEF Running
<1>4. ASSUME NEW i \in 1..(y - x), k[i - 1] = h[i - 1] PROVE k[i] = h[i]
  <2>1. h[i] = h[i - 1] + w[i] /\ w[i] = v[x + i] /\ h[i - 1] \in Nat
    BY <1>2 DEF Running, Behind
  <2>2. x + i \in 1..n /\ (x + i) - 1 = x + (i - 1) /\ x + (i - 1) \in 0..n /\ i - 1 \in 0..(y - x)
    BY DEF Running
  <2>3. g[x + i] = g[x + (i - 1)] + v[x + i] /\ v[x + i] \in Nat
    BY <2>2 DEF Running
  <2>4. k[i - 1] = g[x + (i - 1)] - g[x] /\ k[i] = g[x + i] - g[x]
    BY <2>2
  <2>5. g[x + i] \in Nat /\ g[x + (i - 1)] \in Nat /\ g[x] \in Nat
    BY <2>2
  <2>. QED
    BY <1>4, <2>1, <2>3, <2>4, <2>5
<1>5. k[y - x] = h[y - x]
  <2>1. PICK d \in Nat : d = y - x
    OBVIOUS
  <2>2. \A i \in 1..d : k[i - 1] = h[i - 1] => k[i] = h[i]
    BY <1>4, <2>1
  <2>3. \A i \in 0..d : k[i] = h[i]
    BY ONLY d \in Nat, <1>3, <2>2, Agree, ZenonT(40)
  <2>. QED
    BY <2>1, <2>3
<1>. QED
  BY <1>2, <1>5, SumIsRunning

-----------------------------------------------------------------------------
(* Offsets. *)

(* A set of numbers up to n that is not empty has a greatest one.          *)
LEMMA GreatestNat ==
    ASSUME NEW n \in Nat, NEW S \in SUBSET (0..n), S # {}
    PROVE  /\ Max(S) \in S
           /\ \A k \in S : k <= Max(S)
<1>. DEFINE T == {n - k : k \in S}
<1>1. PICK m \in T : \A k \in T : m <= k
  <2>1. \A k \in S : n - k \in Nat
    OBVIOUS
  <2>2. T \in SUBSET Nat /\ T # {}
    BY <2>1
  <2>. HIDE DEF T
  <2>. QED
    BY <2>2, LeastNat
<1>2. PICK s \in S : m = n - s
  OBVIOUS
<1>3. ASSUME NEW k \in S PROVE s >= k
  <2>1. n - k \in T
    OBVIOUS
  <2>2. m <= n - k
    BY <1>1, <2>1
  <2>. QED
    BY <1>2, <2>2
<1>4. Max(S) \in S /\ \A k \in S : Max(S) >= k
  BY <1>3 DEF Max
<1>5. \A k \in S : k \in Nat
  OBVIOUS
<1>. QED
  BY <1>4, <1>5

(* The bytes of a text up to each of its units.                            *)
Counts(g, text) == IsText(text) /\ Running(g, Len(text), text)

(* A text has counts.                                                      *)
LEMMA TextHasCounts ==
    ASSUME NEW text, IsText(text)
    PROVE  \E g : Counts(g, text)
<1>1. Len(text) \in Nat /\ \A i \in 1..Len(text) : text[i] \in Nat
  BY DEF IsText
<1>. QED
  BY <1>1, RunningSums DEF Counts

(* A slice that splits no pair has the bytes of its units.                 *)
LEMMA SliceBytes ==
    ASSUME NEW text, NEW g, Counts(g, text),
           NEW x \in 0..Len(text), NEW y \in x..Len(text),
           ~SplitsPair(text, x), ~SplitsPair(text, y)
    PROVE  ByteLength(text, x, y) = g[y] - g[x]
<1>1. /\ Len(text) \in Nat /\ DOMAIN text = 1..Len(text)
      /\ \A i \in 1..Len(text) : text[i] \in 0..4
      /\ \A i \in 1..Len(text) : text[i] = 4 => i < Len(text)
      /\ \A i \in 1..Len(text) : text[i] = 0 => i > 1 /\ text[i - 1] = 4
  <2>1. text \in Seq(0..4)
    BY DEF Counts, IsText
  <2>2. /\ Len(text) \in Nat /\ DOMAIN text = 1..Len(text)
        /\ \A i \in 1..Len(text) : text[i] \in 0..4
    BY <2>1
  <2>3. /\ \A i \in DOMAIN text : text[i] = 4 => i < Len(text)
        /\ \A i \in DOMAIN text : text[i] = 0 => i > 1 /\ text[i - 1] = 4
    BY DEF Counts, IsText
  <2>. QED
    BY <2>2, <2>3
<1>. x \in Nat /\ y \in Nat /\ x <= y /\ y <= Len(text)
  BY <1>1
<1>2. ASSUME NEW i \in 1..(y - x) PROVE UnitBytes(text, x, y, x + i) = text[x + i]
  <2>1. x + i \in 1..Len(text) /\ x + i <= y
    BY <1>1
  <2>2. CASE text[x + i] = 4
    <3>1. x + i # y
      BY <1>1, <2>1, <2>2 DEF SplitsPair
    <3>. QED
      BY <2>1, <2>2, <3>1 DEF UnitBytes
  <2>3. CASE text[x + i] = 0
    <3>1. ASSUME i = 1 PROVE FALSE
      <4>1. (x + i) - 1 = x /\ x + i > 1 /\ text[x] = 4
        BY <1>1, <2>1, <2>3, <3>1
      <4>. QED
        BY <1>1, <2>1, <3>1, <4>1 DEF SplitsPair
    <3>2. x + i > x + 1
      BY <3>1
    <3>. QED
      BY <2>3, <3>2 DEF UnitBytes
  <2>4. CASE text[x + i] # 4 /\ text[x + i] # 0
    BY <2>4 DEF UnitBytes
  <2>. QED
    BY <2>2, <2>3, <2>4
<1>. PICK w : w = [i \in 1..(y - x) |-> UnitBytes(text, x, y, x + i)]
  OBVIOUS
<1>3. \A i \in 1..(y - x) : w[i] = text[x + i]
  BY <1>2
<1>4. SumTo(w, y - x) = g[y] - g[x]
  <2>1. Running(g, Len(text), text)
    BY DEF Counts
  <2>. QED
    <3>1. Behind(w, x, y, text)
      BY <1>3 DEF Behind
    <3>. QED
      BY ONLY <2>1, <3>1, x \in 0..Len(text), y \in x..Len(text), SumOfTail
<1>. QED
  BY <1>4 DEF ByteLength

(* The bytes before an offset are the count there.                         *)
LEMMA BytesAre ==
    ASSUME NEW text, NEW g, Counts(g, text), NEW x \in 0..Len(text), ~SplitsPair(text, x)
    PROVE  Bytes(text, x) = g[x]
<1>1. Len(text) \in Nat /\ g[0] = 0 /\ g[x] \in Nat
  BY DEF Counts, Running
<1>2. 0 \in 0..Len(text) /\ x \in 0..Len(text) /\ ~SplitsPair(text, 0)
  BY <1>1 DEF SplitsPair
<1>3. ByteLength(text, 0, x) = g[x] - g[0]
  BY <1>2, SliceBytes
<1>. QED
  BY <1>1, <1>3 DEF Bytes

(* Offsets of a text that split none of its pairs.                         *)
Whole(offsets, text) ==
    offsets \subseteq 0..Len(text) /\ \A x \in offsets : ~SplitsPair(text, x)

(* Summed up offset by offset, an offset is the bytes before it.           *)
LEMMA Utf8Is ==
    ASSUME NEW text, NEW g, Counts(g, text), NEW offsets, Whole(offsets, text), NEW x \in offsets
    PROVE  Utf8(text, offsets, x) = g[x]
<1>1. /\ Len(text) \in Nat /\ g \in [0..Len(text) -> Nat] /\ g[0] = 0
      /\ offsets \subseteq 0..Len(text) /\ x \in 0..Len(text)
  BY DEF Counts, Running, Whole
<1>. DEFINE Upto(y) == {0} \cup {z \in offsets : z <= y}
<1>. PICK k : k = [y \in 0..x |-> g[Max(Upto(y))]]
  OBVIOUS
<1>. PICK v : v = [y \in 1..x |-> IF y \in offsets THEN ByteLength(text, OffsetBefore(offsets, y), y) ELSE 0]
  OBVIOUS
<1>2. ASSUME NEW y \in 0..x
      PROVE  Max(Upto(y)) \in Upto(y) /\ (\A z \in Upto(y) : z <= Max(Upto(y))) /\ Max(Upto(y)) \in 0..Len(text)
  <2>1. Upto(y) \in SUBSET (0..Len(text)) /\ Upto(y) # {}
    <3>1. 0 \in 0..Len(text)
      BY <1>1
    <3>. QED
      BY <1>1, <3>1
  <2>. HIDE DEF Upto
  <2>2. Max(Upto(y)) \in Upto(y) /\ \A z \in Upto(y) : z <= Max(Upto(y))
    BY <1>1, <2>1, GreatestNat
  <2>. QED
    BY <2>1, <2>2
<1>3. ASSUME NEW y \in 1..x PROVE v[y] \in Nat /\ k[y] = k[y - 1] + v[y]
  <2>1. y - 1 \in 0..x /\ y \in 0..x /\ y - 1 < y /\ y \in 0..Len(text)
    BY <1>1
  <2>2. OffsetBefore(offsets, y) = Max(Upto(y - 1))
    <3>1. \A z \in offsets : z < y <=> z <= y - 1
      BY <1>1
    <3>2. {0} \cup {z \in offsets : z < y} = Upto(y - 1)
      BY <3>1
    <3>. HIDE DEF Upto
    <3>. QED
      BY <3>2 DEF OffsetBefore
  <2>3. k[y] = g[Max(Upto(y))] /\ k[y - 1] = g[Max(Upto(y - 1))]
    BY <2>1
  <2>4. PICK m : m = Max(Upto(y - 1))
    OBVIOUS
  <2>5. m \in Upto(y - 1) /\ m \in 0..Len(text) /\ \A z \in Upto(y - 1) : z <= m
    BY <1>2, <2>1, <2>4
  <2>6. PICK l : l = Max(Upto(y))
    OBVIOUS
  <2>7. l \in Upto(y) /\ l \in 0..Len(text) /\ \A z \in Upto(y) : z <= l
    BY <1>2, <2>1, <2>6
  <2>8. CASE y \in offsets
    <3>1. l = y
      BY <2>1, <2>7, <2>8
    <3>2. v[y] = ByteLength(text, m, y)
      BY <2>2, <2>4, <2>8
    <3>3. m <= y /\ ~SplitsPair(text, m) /\ ~SplitsPair(text, y)
      BY <2>1, <2>5, <2>8 DEF Whole, SplitsPair
    <3>4. y \in m..Len(text)
      BY <1>1, <2>1, <2>5, <3>3
    <3>5. v[y] = g[y] - g[m]
      BY <2>5, <3>2, <3>3, <3>4, SliceBytes
    <3>6. g[m] <= g[y]
      BY <2>5, <3>4, RunningGrows DEF Counts
    <3>7. g[m] \in Nat /\ g[y] \in Nat
      BY <1>1, <2>1, <2>5
    <3>8. k[y] = g[y] /\ k[y - 1] = g[m]
      BY <2>3, <2>4, <2>6, <3>1
    <3>. QED
      BY <3>5, <3>6, <3>7, <3>8
  <2>9. CASE y \notin offsets
    <3>1. Upto(y) = Upto(y - 1)
      <4>1. \A z \in offsets : z <= y <=> z <= y - 1
        BY <1>1, <2>1, <2>9
      <4>. QED
        BY <4>1
    <3>2. k[y] = k[y - 1]
      <4>. HIDE DEF Upto
      <4>. QED
        BY <2>3, <3>1
    <3>3. v[y] = 0
      BY <2>9
    <3>4. k[y - 1] \in Nat
      BY <1>1, <2>3, <2>4, <2>5
    <3>. QED
      BY <3>2, <3>3, <3>4
  <2>. QED
    BY <2>8, <2>9
<1>4. \A y \in 0..x : k[y] \in Nat
  BY <1>1, <1>2
<1>5. ASSUME NEW y \in {0, x} PROVE k[y] = g[y]
  <2>1. y \in 0..x /\ y \in Upto(y)
    BY <1>1
  <2>2. PICK m : m = Max(Upto(y))
    OBVIOUS
  <2>3. m \in Upto(y) /\ y <= m /\ m \in 0..Len(text)
    BY <1>2, <2>1, <2>2
  <2>4. m = y
    BY <1>1, <2>1, <2>3
  <2>. QED
    BY <2>1, <2>2, <2>4
<1>6. k[0] = 0 /\ k[x] = g[x] /\ x \in Nat
  BY <1>1, <1>5
<1>7. Running(k, x, v)
  <2>1. k \in [0..x -> Nat]
    BY <1>4
  <2>. QED
    BY <1>3, <1>6, <2>1 DEF Running
<1>8. SumTo(v, x) = k[x]
  BY <1>7, SumIsRunning
<1>. QED
  BY <1>6, <1>8 DEF Utf8

(* The offsets of a file's mappings lie in its texts.                      *)
LEMMA OffsetsAreWhole ==
    ASSUME NEW file, WithinTexts(file), WholeCharacters(file)
    PROVE  /\ Whole(SourceOffsets(file.mappings), file.source)
           /\ Whole(ServiceOffsets(file.mappings), file.service)
<1>1. ASSUME NEW k \in DOMAIN file.mappings, NEW i \in DOMAIN file.mappings[k].pairs
      PROVE  /\ file.mappings[k].pairs[i].source \in 0..Len(file.source)
             /\ file.mappings[k].pairs[i].source + file.mappings[k].pairs[i].len \in 0..Len(file.source)
             /\ file.mappings[k].pairs[i].service \in 0..Len(file.service)
             /\ file.mappings[k].pairs[i].service + GeneratedLen(file.mappings[k], i) \in 0..Len(file.service)
  <2>. PICK p : p = file.mappings[k].pairs[i]
    OBVIOUS
  <2>. PICK n : n = GeneratedLen(file.mappings[k], i)
    OBVIOUS
  <2>1. /\ p.source \in Nat /\ p.service \in Nat /\ p.len \in Nat /\ n \in Nat
        /\ p.source + p.len <= Len(file.source) /\ p.service + n <= Len(file.service)
    BY DEF WithinTexts
  <2>2. Len(file.source) \in Nat /\ Len(file.service) \in Nat
    BY DEF WithinTexts, IsText
  <2>3. /\ p.source \in 0..Len(file.source) /\ p.source + p.len \in 0..Len(file.source)
        /\ p.service \in 0..Len(file.service) /\ p.service + n \in 0..Len(file.service)
    BY <2>1, <2>2, SMTT(30)
  <2>. QED
    BY <2>3
<1>2. SourceOffsets(file.mappings) \subseteq 0..Len(file.source)
  BY <1>1 DEF SourceOffsets
<1>3. ServiceOffsets(file.mappings) \subseteq 0..Len(file.service)
  BY <1>1 DEF ServiceOffsets
<1>. QED
  BY <1>2, <1>3 DEF Whole, WholeCharacters

(* Both ends of a pair are among the offsets.                              *)
LEMMA PairOffsets ==
    ASSUME NEW ms, NEW k \in DOMAIN ms, NEW i \in DOMAIN ms[k].pairs
    PROVE  /\ ms[k].pairs[i].source \in SourceOffsets(ms)
           /\ ms[k].pairs[i].source + ms[k].pairs[i].len \in SourceOffsets(ms)
           /\ ms[k].pairs[i].service \in ServiceOffsets(ms)
           /\ ms[k].pairs[i].service + GeneratedLen(ms[k], i) \in ServiceOffsets(ms)
BY DEF SourceOffsets, ServiceOffsets

(* What is sent of a pair, and what it covers, in counts of bytes.         *)
LEMMA PairIs ==
    ASSUME NEW file, WithinTexts(file), WholeCharacters(file),
           NEW g, Counts(g, file.source), NEW h, Counts(h, file.service),
           NEW k \in DOMAIN file.mappings, NEW i \in DOMAIN file.mappings[k].pairs,
           NEW p, p = file.mappings[k].pairs[i],
           NEW n, n = GeneratedLen(file.mappings[k], i)
    PROVE  /\ Utf8(file.source, SourceOffsets(file.mappings), p.source) = g[p.source]
           /\ Utf8(file.source, SourceOffsets(file.mappings), p.source + p.len) = g[p.source + p.len]
           /\ Utf8(file.service, ServiceOffsets(file.mappings), p.service) = h[p.service]
           /\ Utf8(file.service, ServiceOffsets(file.mappings), p.service + n) = h[p.service + n]
<1>1. /\ p.source \in SourceOffsets(file.mappings)
      /\ p.source + p.len \in SourceOffsets(file.mappings)
      /\ p.service \in ServiceOffsets(file.mappings)
      /\ p.service + n \in ServiceOffsets(file.mappings)
  BY PairOffsets
<1>2. /\ Whole(SourceOffsets(file.mappings), file.source)
      /\ Whole(ServiceOffsets(file.mappings), file.service)
  BY OffsetsAreWhole
<1>3. \A x \in SourceOffsets(file.mappings) : Utf8(file.source, SourceOffsets(file.mappings), x) = g[x]
  BY <1>2, Utf8Is
<1>4. \A x \in ServiceOffsets(file.mappings) : Utf8(file.service, ServiceOffsets(file.mappings), x) = h[x]
  BY <1>2, Utf8Is
<1>. QED
  BY <1>1, <1>3, <1>4

(* A range of len from x that ends by the end m lies in 0..m.              *)
LEMMA EndsWithin ==
    ASSUME NEW x \in Nat, NEW len \in Nat, NEW m \in Nat, x + len <= m
    PROVE  x \in 0..m /\ x + len \in x..m
OBVIOUS

(* The counts at a pair's ends.                                            *)
LEMMA PairCounts ==
    ASSUME NEW file, WithinTexts(file), WholeCharacters(file),
           NEW g, Counts(g, file.source), NEW h, Counts(h, file.service),
           NEW k \in DOMAIN file.mappings, NEW i \in DOMAIN file.mappings[k].pairs,
           NEW p, p = file.mappings[k].pairs[i],
           NEW n, n = GeneratedLen(file.mappings[k], i)
    PROVE  /\ p.source \in 0..Len(file.source) /\ p.source + p.len \in p.source..Len(file.source)
           /\ p.service \in 0..Len(file.service) /\ p.service + n \in p.service..Len(file.service)
           /\ \A x \in {p.source, p.source + p.len} : ~SplitsPair(file.source, x)
           /\ \A x \in {p.service, p.service + n} : ~SplitsPair(file.service, x)
<1>1. /\ p.source \in Nat /\ p.service \in Nat /\ p.len \in Nat /\ n \in Nat
      /\ p.source + p.len <= Len(file.source) /\ p.service + n <= Len(file.service)
  BY DEF WithinTexts
<1>2. Len(file.source) \in Nat /\ Len(file.service) \in Nat
  BY DEF WithinTexts, IsText
<1>3. /\ p.source \in SourceOffsets(file.mappings)
      /\ p.source + p.len \in SourceOffsets(file.mappings)
      /\ p.service \in ServiceOffsets(file.mappings)
      /\ p.service + n \in ServiceOffsets(file.mappings)
  BY PairOffsets
<1>4. /\ p.source \in 0..Len(file.source) /\ p.source + p.len \in p.source..Len(file.source)
      /\ p.service \in 0..Len(file.service) /\ p.service + n \in p.service..Len(file.service)
  BY <1>1, <1>2, EndsWithin
<1>. QED
  BY <1>3, <1>4 DEF WholeCharacters

(* The mappings relate bytes.                                              *)
MappedInBytes(file) ==
    \A k \in DOMAIN file.mappings : \A i \in DOMAIN file.mappings[k].pairs :
        LET p    == file.mappings[k].pairs[i]
            sent == SentMappings(file)[k][i]
        IN  /\ sent.source = Bytes(file.source, p.source)
            /\ sent.service = Bytes(file.service, p.service)
            /\ sent.source + sent.sourceLen = Bytes(file.source, p.source + p.len)

(* Those of a file of whole characters do.                                 *)
LEMMA FileIsMappedInBytes ==
    ASSUME NEW file, WithinTexts(file), WholeCharacters(file)
    PROVE  MappedInBytes(file)
<1>1. PICK g : Counts(g, file.source)
  BY TextHasCounts DEF WithinTexts
<1>2. PICK h : Counts(h, file.service)
  BY TextHasCounts DEF WithinTexts
<1>3. ASSUME NEW k \in DOMAIN file.mappings, NEW i \in DOMAIN file.mappings[k].pairs
      PROVE  LET p    == file.mappings[k].pairs[i]
                 sent == SentMappings(file)[k][i]
             IN  /\ sent.source = Bytes(file.source, p.source)
                 /\ sent.service = Bytes(file.service, p.service)
                 /\ sent.source + sent.sourceLen = Bytes(file.source, p.source + p.len)
  <2>1. PICK p : p = file.mappings[k].pairs[i]
    OBVIOUS
  <2>2. PICK n : n = GeneratedLen(file.mappings[k], i)
    OBVIOUS
  <2>3. PICK sent : sent = Sent(file, file.mappings[k], i)
    OBVIOUS
  <2>4. sent = SentMappings(file)[k][i]
    BY <2>3 DEF SentMappings
  <2>5. /\ Utf8(file.source, SourceOffsets(file.mappings), p.source) = g[p.source]
        /\ Utf8(file.source, SourceOffsets(file.mappings), p.source + p.len) = g[p.source + p.len]
        /\ Utf8(file.service, ServiceOffsets(file.mappings), p.service) = h[p.service]
    BY <1>1, <1>2, <2>1, <2>2, PairIs
  <2>6. /\ sent.source = g[p.source] /\ sent.service = h[p.service]
        /\ sent.sourceLen = g[p.source + p.len] - g[p.source]
    BY <2>1, <2>3, <2>5 DEF Sent
  <2>7. /\ p.source \in 0..Len(file.source) /\ p.source + p.len \in p.source..Len(file.source)
        /\ p.service \in 0..Len(file.service)
        /\ ~SplitsPair(file.source, p.source) /\ ~SplitsPair(file.source, p.source + p.len)
        /\ ~SplitsPair(file.service, p.service)
    BY <1>1, <1>2, <2>1, <2>2, PairCounts
  <2>8. p.source + p.len \in 0..Len(file.source)
    BY <2>7
  <2>9. /\ Bytes(file.source, p.source) = g[p.source]
        /\ Bytes(file.service, p.service) = h[p.service]
        /\ Bytes(file.source, p.source + p.len) = g[p.source + p.len]
    BY <1>1, <1>2, <2>7, <2>8, BytesAre
  <2>10. g[p.source] \in Nat /\ g[p.source + p.len] \in Nat
    BY <1>1, <2>7, <2>8 DEF Counts, Running
  <2>11. sent.source + sent.sourceLen = Bytes(file.source, p.source + p.len)
    BY <2>6, <2>9, <2>10
  <2>. QED
    BY <2>1, <2>4, <2>6, <2>9, <2>11
<1>. QED
  BY <1>3 DEF MappedInBytes

-----------------------------------------------------------------------------
(* Ranges in order. *)

Ranges(B) == {r \in [pos : 0..B, end : 0..B] : r.pos <= r.end}

(* There are finitely many ranges of a text.                               *)
LEMMA RangesFinite ==
    ASSUME NEW B \in Nat, NEW S \in SUBSET Ranges(B)
    PROVE  IsFiniteSet(S)
<1>. DEFINE P == (0..B) \X (0..B)
            R == [pos : 0..B, end : 0..B]
            f == [x \in P |-> [pos |-> x[1], end |-> x[2]]]
<1>1. IsFiniteSet(0..B)
  BY FS_Interval
<1>2. IsFiniteSet(P)
  BY <1>1, FS_Product
<1>3. \A r \in R : \E x \in P : f[x] = r
  <2>1. ASSUME NEW r \in R PROVE \E x \in P : f[x] = r
    <3>1. <<r.pos, r.end>> \in P
      OBVIOUS
    <3>2. f[<<r.pos, r.end>>] = r
      BY <3>1
    <3>. QED
      BY <3>1, <3>2
  <2>. QED
    BY <2>1
<1>4. f \in [P -> R]
  OBVIOUS
<1>5. f \in Surjection(P, R)
  BY <1>3, <1>4 DEF Surjection
<1>6. IsFiniteSet(R)
  <2>. HIDE DEF f, P, R
  <2>. QED
    BY <1>2, <1>5, FS_Surjection
<1>7. S \in SUBSET R
  BY DEF Ranges
<1>. QED
  BY <1>6, <1>7, FS_Subset

(* Some ranges have a last one.                                            *)
LEMMA LastRange ==
    ASSUME NEW B \in Nat, NEW S \in SUBSET Ranges(B), S # {}
    PROVE  \E r \in S : \A s \in S \ {r} : Before(s, r)
<1>1. \A r \in S : r.pos \in 0..B /\ r.end \in 0..B
  BY DEF Ranges
<1>. PICK P : P = {r.pos : r \in S}
  OBVIOUS
<1>2. P \in SUBSET (0..B) /\ P # {}
  BY <1>1
<1>. PICK p : p = Max(P)
  OBVIOUS
<1>3. p \in P /\ \A q \in P : q <= p
  BY <1>2, GreatestNat
<1>. PICK E : E = {r.end : r \in {s \in S : s.pos = p}}
  OBVIOUS
<1>4. E \in SUBSET (0..B) /\ E # {}
  BY <1>1, <1>3
<1>. PICK e : e = Max(E)
  OBVIOUS
<1>5. e \in E /\ \A q \in E : q <= e
  BY <1>4, GreatestNat
<1>6. PICK r \in S : r.pos = p /\ r.end = e
  BY <1>5
<1>7. ASSUME NEW s \in S \ {r} PROVE Before(s, r)
  <2>1. s.pos \in P /\ (s.pos = p => s.end \in E)
    OBVIOUS
  <2>2. s.pos <= p /\ (s.pos = p => s.end <= e)
    BY <1>3, <1>5, <2>1
  <2>3. s.pos = p /\ s.end = e => s = r
    BY <1>6 DEF Ranges
  <2>4. s.pos \in Nat /\ s.end \in Nat /\ p \in Nat /\ e \in Nat
    BY <1>1, <1>6
  <2>. QED
    BY <1>6, <2>2, <2>3, <2>4 DEF Before
<1>. QED
  BY <1>7

(* The ranges of a set, each once, in order.                               *)
Sorted(s, S) ==
    /\ s \in [1..Cardinality(S) -> S]
    /\ \A i, j \in 1..Cardinality(S) : i < j => Before(s[i], s[j])

(* Ranges of a text can be put in order.                                   *)
LEMMA RangesSort ==
    ASSUME NEW B \in Nat, NEW S \in SUBSET Ranges(B)
    PROVE  \E s : Sorted(s, S)
<1>. DEFINE N == {n \in 0..Cardinality(S) :
                    \A T \in SUBSET Ranges(B) : Cardinality(T) = n => \E s : Sorted(s, T)}
<1>1. Cardinality(S) \in Nat
  BY RangesFinite, FS_CardinalityType
<1>2. ASSUME NEW n \in 0..Cardinality(S), \A j \in 0..(n - 1) : j \in N,
             NEW T \in SUBSET Ranges(B), Cardinality(T) = n
      PROVE  \E s : Sorted(s, T)
  <2>1. IsFiniteSet(T)
    BY RangesFinite
  <2>2. CASE T = {}
    <3>1. Cardinality(T) = 0
      BY <2>2, FS_EmptySet
    <3>. PICK s : s = [i \in {} |-> i]
      OBVIOUS
    <3>2. Sorted(s, T)
      BY <2>2, <3>1 DEF Sorted
    <3>. QED
      BY <3>2
  <2>3. CASE T # {}
    <3>1. PICK r \in T : \A t \in T \ {r} : Before(t, r)
      BY <2>3, LastRange
    <3>. PICK U : U = T \ {r}
      OBVIOUS
    <3>2. Cardinality(U) = n - 1 /\ U \in SUBSET Ranges(B)
      BY <1>2, <2>1, FS_RemoveElement
    <3>3. n # 0
      BY <1>2, <2>1, <2>3, FS_EmptySet
    <3>4. n - 1 \in N
      <4>1. n - 1 \in 0..(n - 1)
        BY <1>1, <3>3
      <4>. HIDE DEF N
      <4>. QED
        BY <1>2, <4>1
    <3>5. PICK u : Sorted(u, U)
      BY <3>2, <3>4
    <3>. PICK s : s = [i \in 1..n |-> IF i = n THEN r ELSE u[i]]
      OBVIOUS
    <3>6. n \in Nat /\ (\A i \in 1..n : i # n => i \in 1..(n - 1))
      BY <1>1
    <3>7. u \in [1..(n - 1) -> U] /\ \A i, j \in 1..(n - 1) : i < j => Before(u[i], u[j])
      BY <3>2, <3>5 DEF Sorted
    <3>8. \A i \in 1..n : i # n => s[i] = u[i] /\ u[i] \in U
      BY <3>6, <3>7
    <3>9. s[n] = r
      BY <3>3, <3>6
    <3>10. s \in [1..n -> T]
      BY <3>8, <3>9
    <3>11. ASSUME NEW i \in 1..n, NEW j \in 1..n, i < j PROVE Before(s[i], s[j])
      <4>1. i # n
        BY <3>11
      <4>2. CASE j = n
        BY <3>1, <3>8, <3>9, <4>1, <4>2
      <4>3. CASE j # n
        <5>1. i \in 1..(n - 1) /\ j \in 1..(n - 1)
          BY <3>6, <4>1, <4>3
        <5>2. Before(u[i], u[j])
          BY <3>7, <3>11, <5>1
        <5>. QED
          BY <3>8, <4>1, <4>3, <5>2
      <4>. QED
        BY <4>2, <4>3
    <3>12. Sorted(s, T)
      BY <1>2, <3>10, <3>11 DEF Sorted
    <3>. QED
      BY <3>12
  <2>. QED
    BY <2>2, <2>3
<1>3. \A n \in 0..Cardinality(S) : (\A j \in 0..(n - 1) : j \in N) => n \in N
  <2>1. ASSUME NEW n \in 0..Cardinality(S), \A j \in 0..(n - 1) : j \in N PROVE n \in N
    <3>1. ASSUME NEW T \in SUBSET Ranges(B), Cardinality(T) = n PROVE \E s : Sorted(s, T)
      <4>. HIDE DEF N
      <4>. QED
        BY <1>2, <2>1, <3>1
    <3>. QED
      BY <3>1
  <2>. HIDE DEF N
  <2>. QED
    BY <2>1
<1>4. \A n \in 0..Cardinality(S) : n \in N
  <2>. HIDE DEF N
  <2>. QED
    BY <1>1, <1>3, Induction
<1>5. Cardinality(S) \in N
  <2>. HIDE DEF N
  <2>. QED
    BY <1>1, <1>4
<1>. QED
  BY <1>5

(* InOrder has every range of the set.                                     *)
LEMMA InOrderIs ==
    ASSUME NEW B \in Nat, NEW S \in SUBSET Ranges(B)
    PROVE  /\ Cardinality(S) \in Nat
           /\ Sorted(InOrder(S), S)
           /\ \A r \in S : \E i \in 1..Cardinality(S) : InOrder(S)[i] = r
<1>. PICK n : n = Cardinality(S)
  OBVIOUS
<1>1. IsFiniteSet(S) /\ n \in Nat
  BY RangesFinite, FS_CardinalityType
<1>. PICK s : s = InOrder(S)
  OBVIOUS
<1>2. Sorted(s, S)
  <2>1. PICK t : Sorted(t, S)
    BY RangesSort
  <2>. QED
    BY <2>1 DEF Sorted, InOrder
<1>3. s \in [1..n -> S] /\ \A i, j \in 1..n : i < j => Before(s[i], s[j])
  BY <1>2 DEF Sorted
<1>4. ASSUME NEW i \in 1..n, NEW j \in 1..n, s[i] = s[j] PROVE i = j
  <2>1. s[i] \in S /\ s[j] \in S
    BY <1>3
  <2>2. ~Before(s[i], s[i])
    BY <2>1 DEF Before, Ranges
  <2>3. ~(i < j) /\ ~(j < i)
    BY <1>3, <1>4, <2>2
  <2>. QED
    BY <1>1, <2>3
<1>5. s \in Injection(1..n, S)
  BY <1>3, <1>4 DEF Injection, IsInjective
<1>6. Cardinality(1..n) = n
  BY <1>1, FS_Interval
<1>7. s \in Surjection(1..n, S)
  BY <1>1, <1>5, <1>6, FS_Injection
<1>8. \A r \in S : \E i \in 1..n : s[i] = r
  BY <1>7 DEF Surjection
<1>. QED
  BY <1>1, <1>2, <1>8

-----------------------------------------------------------------------------
(* Merged ranges. *)

Inside(m, b) == \E j \in DOMAIN m : Holds(m[j], b)

(* Ranges one behind another, none touching the next.                      *)
Apart(m, B) ==
    /\ m \in Seq(Ranges(B))
    /\ \A i, j \in DOMAIN m : i < j => m[i].end < m[j].pos

(* What ranges apart are made of.                                          *)
LEMMA ApartAre ==
    ASSUME NEW B \in Nat, NEW m, Apart(m, B)
    PROVE  /\ Len(m) \in Nat /\ DOMAIN m = 1..Len(m)
           /\ m = <<>> <=> Len(m) = 0
           /\ \A i \in 1..Len(m) :
                 m[i].pos \in Nat /\ m[i].end \in Nat /\ m[i].pos <= m[i].end /\ m[i].end <= B
<1>1. m \in Seq(Ranges(B))
  BY DEF Apart
<1>2. Len(m) \in Nat /\ DOMAIN m = 1..Len(m) /\ (m = <<>> <=> Len(m) = 0)
      /\ \A i \in 1..Len(m) : m[i] \in Ranges(B)
  BY <1>1
<1>. QED
  BY <1>2 DEF Ranges

(* Merged with a range that does not begin before the last of them, they   *)
(* stay apart, hold what they held and what the range holds, and the last  *)
(* one begins no later than the range.                                     *)
Takes(m, r, a, B) ==
    /\ Apart(a, B)
    /\ a # <<>> /\ a[Len(a)].pos <= r.pos
    /\ \A b \in Nat : Inside(a, b) <=> (Inside(m, b) \/ Holds(r, b))

(* A range behind the last of them is appended.                            *)
LEMMA AbsorbAppends ==
    ASSUME NEW B \in Nat, NEW m, Apart(m, B), NEW r \in Ranges(B),
           m # <<>> => m[Len(m)].end < r.pos
    PROVE  Takes(m, r, Append(m, r), B)
<1>1. m \in Seq(Ranges(B))
  BY DEF Apart
<1>. PICK n : n = Len(m)
  OBVIOUS
<1>2. /\ n \in Nat /\ DOMAIN m = 1..n
      /\ \A i \in 1..n : m[i].pos \in Nat /\ m[i].end \in Nat /\ m[i].pos <= m[i].end
      /\ m = <<>> <=> n = 0
  BY ApartAre
<1>. PICK a : a = Append(m, r)
  OBVIOUS
<1>3. /\ a \in Seq(Ranges(B)) /\ Len(a) = n + 1 /\ DOMAIN a = 1..(n + 1) /\ a[n + 1] = r
      /\ \A i \in 1..n : a[i] = m[i]
  BY <1>1
<1>4. r.pos \in Nat
  BY DEF Ranges
<1>5. ASSUME NEW i \in 1..(n + 1), NEW j \in 1..(n + 1), i < j PROVE a[i].end < a[j].pos
  <2>1. i \in 1..n
    BY <1>2, <1>5
  <2>2. CASE j = n + 1
    <3>1. m[i].end <= m[n].end
      <4>1. CASE i = n
        BY <1>2, <2>1, <4>1
      <4>2. CASE i # n
        <5>1. n \in 1..n /\ i < n
          BY <1>2, <2>1, <4>2
        <5>2. m[i].end < m[n].pos
          BY <1>2, <2>1, <5>1 DEF Apart
        <5>. QED
          BY <1>2, <2>1, <5>1, <5>2
      <4>. QED
        BY <4>1, <4>2
    <3>2. n \in 1..n /\ m # <<>>
      BY <1>2, <2>1
    <3>3. m[n].end < r.pos
      BY <3>2
    <3>4. m[i].end \in Nat /\ m[n].end \in Nat
      BY <1>2, <2>1, <3>2
    <3>5. m[i].end < r.pos
      BY <1>4, <3>1, <3>3, <3>4
    <3>. QED
      BY <1>3, <2>1, <2>2, <3>5
  <2>3. CASE j # n + 1
    <3>1. j \in 1..n
      BY <1>2, <2>3
    <3>. QED
      BY <1>2, <1>3, <1>5, <2>1, <3>1 DEF Apart
  <2>. QED
    BY <2>2, <2>3
<1>6. Apart(a, B)
  BY <1>3, <1>5 DEF Apart
<1>7. ASSUME NEW b \in Nat PROVE Inside(a, b) <=> (Inside(m, b) \/ Holds(r, b))
  <2>1. \A j \in 1..(n + 1) : j = n + 1 \/ j \in 1..n
    BY <1>2
  <2>2. n + 1 \in 1..(n + 1) /\ 1..n \subseteq 1..(n + 1)
    BY <1>2
  <2>. QED
    BY <1>2, <1>3, <2>1, <2>2 DEF Inside
<1>8. a # <<>> /\ a[Len(a)].pos <= r.pos
  <2>1. Len(a) # 0
    BY <1>2, <1>3
  <2>. QED
    BY <1>3, <1>4, <2>1
<1>. QED
  BY <1>6, <1>7, <1>8 DEF Takes

(* A range that begins in the last of them widens it.                      *)
LEMMA AbsorbWidens ==
    ASSUME NEW B \in Nat, NEW m, Apart(m, B), NEW r \in Ranges(B), m # <<>>,
           m[Len(m)].pos <= r.pos, r.pos <= m[Len(m)].end
    PROVE  Takes(m, r, [m EXCEPT ![Len(m)].end = Max({@, r.end})], B)
<1>1. m \in Seq(Ranges(B))
  BY DEF Apart
<1>. PICK n : n = Len(m)
  OBVIOUS
<1>2. /\ n \in Nat /\ DOMAIN m = 1..n /\ n \in 1..n
      /\ \A i \in 1..n :
            m[i] \in Ranges(B) /\ m[i].pos \in Nat /\ m[i].end \in Nat /\ m[i].pos <= m[i].end
  <2>1. n \in Nat /\ DOMAIN m = 1..n /\ n # 0
    BY ApartAre
  <2>2. n \in 1..n
    BY <2>1
  <2>3. \A i \in 1..n : m[i] \in Ranges(B)
    BY <1>1
  <2>. QED
    BY <2>1, <2>2, <2>3, ApartAre
<1>. PICK e : e = Max({m[n].end, r.end})
  OBVIOUS
<1>3. r.pos \in 0..B /\ r.end \in 0..B /\ r.pos <= r.end /\ m[n].end \in 0..B /\ m[n].pos \in 0..B
  BY <1>2 DEF Ranges
<1>4. e \in {m[n].end, r.end} /\ m[n].end <= e /\ r.end <= e
  <2>1. {m[n].end, r.end} \in SUBSET (0..B) /\ {m[n].end, r.end} # {}
    BY <1>3
  <2>. QED
    BY <2>1, GreatestNat
<1>. PICK a : a = [m EXCEPT ![n].end = Max({@, r.end})]
  OBVIOUS
<1>5. DOMAIN a = 1..n /\ (\A i \in 1..n : i # n => a[i] = m[i]) /\ a[n] = [m[n] EXCEPT !.end = e]
  BY <1>1, <1>2
<1>6. a[n].pos = m[n].pos /\ a[n].end = e /\ a[n] \in Ranges(B)
  <2>1. m[n] \in [pos : 0..B, end : 0..B]
    BY <1>2 DEF Ranges
  <2>2. e \in 0..B /\ m[n].pos <= e
    BY <1>2, <1>3, <1>4
  <2>. PICK t : t = m[n]
    OBVIOUS
  <2>3. [t EXCEPT !.end = e] = [pos |-> t.pos, end |-> e]
    BY <2>1
  <2>4. a[n] = [pos |-> t.pos, end |-> e]
    BY <1>5, <2>3
  <2>5. t.pos \in 0..B
    BY <2>1
  <2>6. a[n] \in [pos : 0..B, end : 0..B] /\ a[n].pos = m[n].pos /\ a[n].end = e
    BY ONLY t = m[n], <2>2, <2>4, <2>5
  <2>. QED
    BY <2>2, <2>6 DEF Ranges
<1>7. a \in Seq(Ranges(B)) /\ Len(a) = n
  <2>1. \A i \in 1..n : a[i] \in Ranges(B)
    BY <1>2, <1>5, <1>6
  <2>2. a \in [1..n -> Ranges(B)]
    BY <1>2, <1>5, <2>1
  <2>3. a \in Seq(Ranges(B))
    BY <1>2, <2>2
  <2>. QED
    BY <1>2, <1>5, <2>3
<1>8. ASSUME NEW i \in 1..n, NEW j \in 1..n, i < j PROVE a[i].end < a[j].pos
  <2>1. i # n /\ m[i].end < m[j].pos
    BY <1>2, <1>8 DEF Apart
  <2>. QED
    BY <1>5, <1>6, <2>1
<1>9. Apart(a, B)
  BY <1>5, <1>7, <1>8 DEF Apart
<1>10. ASSUME NEW b \in Nat PROVE Inside(a, b) <=> (Inside(m, b) \/ Holds(r, b))
  <2>1. Holds(a[n], b) <=> (Holds(m[n], b) \/ Holds(r, b))
    BY <1>2, <1>3, <1>4, <1>6 DEF Holds
  <2>. QED
    BY <1>2, <1>5, <2>1 DEF Inside
<1>11. a # <<>> /\ a[Len(a)].pos <= r.pos
  BY <1>2, <1>6, <1>7
<1>. QED
  BY <1>9, <1>10, <1>11 DEF Takes

(* Either way it is taken.                                                 *)
LEMMA AbsorbTakes ==
    ASSUME NEW B \in Nat, NEW m, Apart(m, B), NEW r \in Ranges(B),
           m # <<>> => m[Len(m)].pos <= r.pos
    PROVE  Takes(m, r, Absorb(m, r), B)
<1>1. CASE m # <<>> /\ r.pos <= m[Len(m)].end
  BY <1>1, AbsorbWidens DEF Absorb
<1>2. CASE ~(m # <<>> /\ r.pos <= m[Len(m)].end)
  <2>1. r.pos \in Nat
    BY DEF Ranges
  <2>2. ASSUME m # <<>> PROVE m[Len(m)].end < r.pos
    <3>1. Len(m) \in 1..Len(m)
      BY <2>2, ApartAre
    <3>2. m[Len(m)].end \in Nat
      BY <3>1, ApartAre
    <3>. QED
      BY <1>2, <2>1, <2>2, <3>2
  <2>3. Takes(m, r, Append(m, r), B)
    BY <2>2, AbsorbAppends
  <2>. QED
    BY <1>2, <2>3 DEF Absorb
<1>. QED
  BY <1>1, <1>2

(* Ranges in order, merged up to the k-th.                                 *)
MergedUpto(m, s, k, B) ==
    /\ Apart(m, B)
    /\ k > 0 => m # <<>> /\ m[Len(m)].pos <= s[k].pos
    /\ k = 0 => m = <<>>
    /\ \A b \in Nat : Inside(m, b) <=> \E i \in 1..k : Holds(s[i], b)

InTurn(s, n, B) ==
    /\ n \in Nat
    /\ \A i \in 1..n : s[i] \in Ranges(B)
    /\ \A i, j \in 1..n : i < j => Before(s[i], s[j])

(* One more range keeps the others merged.                                 *)
LEMMA MergedOneMore ==
    ASSUME NEW B \in Nat, NEW s, NEW n, InTurn(s, n, B), NEW k \in 1..n,
           NEW m, MergedUpto(m, s, k - 1, B)
    PROVE  MergedUpto(Absorb(m, s[k]), s, k, B)
<1>. n \in Nat
  BY DEF InTurn
<1>1. s[k] \in Ranges(B) /\ s[k].pos \in Nat
  BY DEF InTurn, Ranges
<1>2. ASSUME m # <<>> PROVE m[Len(m)].pos <= s[k].pos
  <2>1. k - 1 # 0 /\ k - 1 \in 1..n /\ k - 1 < k
    BY <1>2 DEF MergedUpto
  <2>2. m[Len(m)].pos <= s[k - 1].pos
    BY <2>1 DEF MergedUpto
  <2>3. s[k - 1].pos <= s[k].pos /\ s[k - 1].pos \in Nat
    <3>1. Before(s[k - 1], s[k]) /\ s[k - 1] \in Ranges(B)
      BY <2>1 DEF InTurn
    <3>. QED
      BY <1>1, <3>1 DEF Before, Ranges
  <2>4. m[Len(m)].pos \in Nat
    <3>1. Apart(m, B)
      BY DEF MergedUpto
    <3>2. Len(m) \in 1..Len(m)
      BY <1>2, <3>1, ApartAre
    <3>. QED
      BY <3>1, <3>2, ApartAre
  <2>. QED
    BY <1>1, <2>2, <2>3, <2>4
<1>. PICK a : a = Absorb(m, s[k])
  OBVIOUS
<1>3. Takes(m, s[k], a, B)
  BY <1>1, <1>2, AbsorbTakes DEF MergedUpto
<1>4. ASSUME NEW b \in Nat PROVE Inside(a, b) <=> \E i \in 1..k : Holds(s[i], b)
  <2>1. Inside(a, b) <=> (\E i \in 1..(k - 1) : Holds(s[i], b)) \/ Holds(s[k], b)
    BY <1>3 DEF Takes, MergedUpto
  <2>2. \A i : i \in 1..k <=> (i \in 1..(k - 1) \/ i = k)
    OBVIOUS
  <2>. QED
    BY <2>1, <2>2
<1>. QED
  BY <1>3, <1>4 DEF Takes, MergedUpto

(* Absorbing one after another is merging.                                 *)
LEMMA MergingIs ==
    ASSUME NEW B \in Nat, NEW s, NEW n, InTurn(s, n, B)
    PROVE  MergedUpto(Merging(s, n), s, n, B)
<1>. n \in Nat
  BY DEF InTurn
<1>. DEFINE S == {k \in 0..n : \E g : /\ g = [i \in 0..k |-> g[i]] /\ g[0] = <<>>
                                      /\ \A i \in 1..k : g[i] = Absorb(g[i - 1], s[i])}
<1>1. ASSUME NEW k \in 0..n, \A j \in 0..(k - 1) : j \in S
      PROVE  k \in S
  <2>1. CASE k = 0
    <3>. PICK g : g = [i \in 0..0 |-> <<>>]
      OBVIOUS
    <3>1. g = [i \in 0..0 |-> g[i]] /\ g[0] = <<>>
      OBVIOUS
    <3>. QED
      BY <2>1, <3>1
  <2>2. CASE k # 0
    <3>1. k - 1 \in S /\ k \in 1..n
      <4>1. k \in 1..n /\ k - 1 \in 0..(k - 1)
        BY <2>2
      <4>. HIDE DEF S
      <4>. QED
        BY <1>1, <4>1
    <3>2. PICK g : /\ g = [i \in 0..(k - 1) |-> g[i]] /\ g[0] = <<>>
                   /\ \A i \in 1..(k - 1) : g[i] = Absorb(g[i - 1], s[i])
      BY <3>1
    <3>. PICK h : h = [i \in 0..k |-> IF i = k THEN Absorb(g[k - 1], s[k]) ELSE g[i]]
      OBVIOUS
    <3>3. \A i \in 0..k : i # k => h[i] = g[i]
      OBVIOUS
    <3>4. k \in 0..k /\ 0 \in 0..k /\ 0 # k
      BY <3>1
    <3>5. h[k] = Absorb(g[k - 1], s[k]) /\ h = [i \in 0..k |-> h[i]]
      BY <3>4
    <3>6. \A i \in 1..k : i - 1 \in 0..k /\ i - 1 # k /\ i \in 0..k /\ (i # k => i \in 1..(k - 1))
      BY <3>1
    <3>7. ASSUME NEW i \in 1..k PROVE h[i] = Absorb(h[i - 1], s[i])
      BY <3>2, <3>3, <3>5, <3>6
    <3>8. h[0] = <<>>
      BY <3>2, <3>3, <3>4
    <3>. QED
      BY <3>1, <3>5, <3>7, <3>8
  <2>. QED
    BY <2>1, <2>2
<1>2. \A k \in 0..n : k \in S
  <2>. HIDE DEF S
  <2>. QED
    BY <1>1, Induction
<1>3. n \in S
  <2>. HIDE DEF S
  <2>. QED
    BY <1>2
<1>4. PICK g : /\ g = [i \in 0..n |-> g[i]] /\ g[0] = <<>>
               /\ \A i \in 1..n : g[i] = Absorb(g[i - 1], s[i])
  BY <1>3
<1>. HIDE DEF S
<1>. DEFINE T == {k \in 0..n : MergedUpto(g[k], s, k, B)}
<1>5. ASSUME NEW k \in 0..n, \A j \in 0..(k - 1) : j \in T
      PROVE  k \in T
  <2>1. CASE k = 0
    <3>1. MergedUpto(<<>>, s, 0, B)
      BY DEF MergedUpto, Apart, Inside
    <3>. QED
      BY <1>4, <2>1, <3>1
  <2>2. CASE k # 0
    <3>1. k \in 1..n /\ k - 1 \in 0..(k - 1)
      BY <2>2
    <3>2. MergedUpto(g[k - 1], s, k - 1, B)
      BY <1>5, <3>1
    <3>3. MergedUpto(Absorb(g[k - 1], s[k]), s, k, B)
      BY <3>1, <3>2, MergedOneMore
    <3>. QED
      BY <1>4, <3>1, <3>3
  <2>. QED
    BY <2>1, <2>2
<1>6. \A k \in 0..n : k \in T
  <2>. HIDE DEF T
  <2>. QED
    BY <1>5, Induction
<1>7. MergedUpto(g[n], s, n, B)
  <2>1. n \in T
    <3>. HIDE DEF T
    <3>. QED
      BY <1>6
  <2>. QED
    BY <2>1
<1>. HIDE DEF T
<1>. DEFINE merged == CHOOSE merged : merged = [k \in 0..n |-> IF k = 0 THEN <<>> ELSE Absorb(merged[k - 1], s[k])]
<1>8. g = [k \in 0..n |-> IF k = 0 THEN <<>> ELSE Absorb(g[k - 1], s[k])]
  <2>1. ASSUME NEW k \in 0..n PROVE g[k] = IF k = 0 THEN <<>> ELSE Absorb(g[k - 1], s[k])
    <3>1. CASE k = 0
      BY <1>4, <3>1, Zenon
    <3>2. CASE k # 0
      <4>1. k \in 1..n
        BY <3>2
      <4>. QED
        BY <1>4, <3>2, <4>1, Zenon
    <3>. QED
      BY <3>1, <3>2, Zenon
  <2>2. g = [k \in 0..n |-> g[k]]
    BY <1>4, Zenon
  <2>. QED
    BY <2>1, <2>2
<1>9. merged = [k \in 0..n |-> IF k = 0 THEN <<>> ELSE Absorb(merged[k - 1], s[k])]
  BY <1>8
<1>10. Merging(s, n) = merged[n]
  BY DEF Merging
<1>. HIDE DEF merged
<1>11. g[0] = merged[0] /\ \A i \in 1..n : g[i - 1] = merged[i - 1] => g[i] = merged[i]
  <2>1. ASSUME NEW k \in 0..n PROVE merged[k] = IF k = 0 THEN <<>> ELSE Absorb(merged[k - 1], s[k])
    BY <1>9, Zenon
  <2>2. 0 \in 0..n /\ \A i \in 1..n : i \in 0..n /\ i # 0
    OBVIOUS
  <2>3. merged[0] = <<>> /\ \A i \in 1..n : merged[i] = Absorb(merged[i - 1], s[i])
    BY <2>1, <2>2, Zenon
  <2>. QED
    BY <1>4, <2>3, Zenon
<1>12. \A i \in 0..n : g[i] = merged[i]
  BY <1>11, Agree
<1>. QED
  BY <1>7, <1>10, <1>12

-----------------------------------------------------------------------------
(* Gaps. *)

(* A byte is in a gap of ranges that stay apart, or in one of them.        *)
LEMMA GapsAreBetween ==
    ASSUME NEW B \in Nat, NEW m, Apart(m, B), NEW b \in 0..(B - 1)
    PROVE  (\E r \in Gaps(m, B) : Holds(r, b)) <=> ~Inside(m, b)
<1>. PICK n : n = Len(m)
  OBVIOUS
<1>1. /\ n \in Nat /\ DOMAIN m = 1..n
      /\ \A i \in 1..n : m[i].pos \in Nat /\ m[i].end \in Nat /\ m[i].pos <= m[i].end /\ m[i].end <= B
  BY ApartAre
<1>2. ASSUME NEW i \in 1..n, NEW j \in i..n
      PROVE  m[i].pos <= m[j].pos /\ m[i].end <= m[j].end
  <2>1. j \in 1..n /\ (i = j \/ i < j)
    BY <1>1
  <2>2. i < j => m[i].end < m[j].pos
    BY <1>1, <2>1 DEF Apart
  <2>. QED
    BY <1>1, <2>1, <2>2
<1>3. \A k \in 0..n : EndOf(m, k) = (IF k = 0 THEN 0 ELSE m[k].end) /\ EndOf(m, k) \in Nat
  BY <1>1 DEF EndOf
<1>4. ASSUME NEW r \in Gaps(m, B), Holds(r, b), NEW j \in 1..n, Holds(m[j], b)
      PROVE  FALSE
  <2>1. m[j].pos <= b /\ b < m[j].end /\ r.pos <= b /\ b < r.end
    BY <1>4 DEF Holds
  <2>2. CASE r = [pos |-> EndOf(m, n), end |-> B]
    <3>1. r.pos = EndOf(m, n)
      BY <2>2
    <3>2. n # 0 /\ n \in 0..n /\ n \in j..n
      BY <1>1
    <3>3. r.pos = m[n].end
      BY <1>3, <3>1, <3>2
    <3>4. m[j].end <= m[n].end
      BY <1>2, <3>2
    <3>5. m[j].end \in Nat /\ m[n].end \in Nat
      BY <1>1, <3>2
    <3>. QED
      BY <2>1, <3>3, <3>4, <3>5
  <2>3. ASSUME NEW k \in 1..n, r = [pos |-> EndOf(m, k - 1), end |-> m[k].pos] PROVE FALSE
    <3>1. r.pos = EndOf(m, k - 1) /\ r.end = m[k].pos /\ k - 1 \in 0..n
      BY <1>1, <2>3
    <3>2. CASE k <= j
      <4>1. j \in k..n
        BY <1>1, <3>2
      <4>2. m[k].pos <= m[j].pos
        BY <1>2, <4>1
      <4>3. m[k].pos \in Nat /\ m[j].pos \in Nat
        BY <1>1
      <4>. QED
        BY <2>1, <3>1, <4>2, <4>3
    <3>3. CASE j < k
      <4>1. k - 1 \in j..n /\ k - 1 # 0 /\ k - 1 \in 1..n
        BY <1>1, <3>3
      <4>2. m[j].end <= m[k - 1].end
        BY <1>2, <4>1
      <4>3. r.pos = m[k - 1].end
        BY <1>3, <3>1, <4>1
      <4>4. m[j].end \in Nat /\ m[k - 1].end \in Nat
        BY <1>1, <4>1
      <4>. QED
        BY <2>1, <4>2, <4>3, <4>4
    <3>. QED
      BY <1>1, <3>2, <3>3
  <2>4. r = [pos |-> EndOf(m, n), end |-> B] \/ \E k \in 1..n : r = [pos |-> EndOf(m, k - 1), end |-> m[k].pos]
    BY <1>1 DEF Gaps
  <2>. QED
    BY <2>2, <2>3, <2>4
<1>5. ASSUME ~Inside(m, b) PROVE \E r \in Gaps(m, B) : Holds(r, b)
  <2>. PICK K : K = {k \in 0..n : EndOf(m, k) <= b}
    OBVIOUS
  <2>1. K \in SUBSET (0..n) /\ 0 \in K
    BY <1>1, <1>3
  <2>. PICK k : k = Max(K)
    OBVIOUS
  <2>2. k \in K /\ \A j \in K : j <= k
    BY <1>1, <2>1, GreatestNat
  <2>3. k \in 0..n /\ EndOf(m, k) <= b
    BY <2>1, <2>2
  <2>4. CASE k = n
    <3>. PICK r : r = [pos |-> EndOf(m, n), end |-> B]
      OBVIOUS
    <3>1. r \in Gaps(m, B)
      BY DEF Gaps
    <3>2. Holds(r, b)
      BY <2>3, <2>4 DEF Holds
    <3>. QED
      BY <3>1, <3>2
  <2>5. CASE k # n
    <3>1. k + 1 \in 1..n /\ (k + 1) - 1 = k /\ k + 1 \in 0..n /\ k + 1 # 0 /\ ~(k + 1 <= k)
      BY <1>1, <2>3, <2>5
    <3>2. ~(EndOf(m, k + 1) <= b)
      BY <2>2, <3>1
    <3>3. ~(m[k + 1].end <= b)
      BY <1>3, <3>1, <3>2
    <3>4. m[k + 1].pos \in Nat /\ m[k + 1].end \in Nat
      BY <1>1, <3>1
    <3>5. ~Holds(m[k + 1], b)
      BY <1>1, <1>5, <3>1 DEF Inside
    <3>6. b < m[k + 1].pos
      BY <3>3, <3>4, <3>5 DEF Holds
    <3>7. EndOf(m, k) \in Nat
      BY <1>3, <2>3
    <3>8. m[k + 1].pos > EndOf(m, k)
      BY <2>3, <3>4, <3>6, <3>7
    <3>. PICK r : r = [pos |-> EndOf(m, (k + 1) - 1), end |-> m[k + 1].pos]
      OBVIOUS
    <3>9. r \in Gaps(m, B)
      BY <1>1, <3>1, <3>8 DEF Gaps
    <3>10. Holds(r, b)
      BY <2>3, <3>1, <3>6 DEF Holds
    <3>. QED
      BY <3>9, <3>10
  <2>. QED
    BY <2>4, <2>5
<1>. QED
  BY <1>1, <1>4, <1>5 DEF Inside

(* What a set of ranges leaves.                                            *)
LEMMA GapsOfMerged ==
    ASSUME NEW B \in Nat, NEW S \in SUBSET Ranges(B), NEW b \in 0..(B - 1)
    PROVE  (\E r \in Gaps(Merging(InOrder(S), Cardinality(S)), B) : Holds(r, b))
             <=> ~\E r \in S : Holds(r, b)
<1>. PICK n : n = Cardinality(S)
  OBVIOUS
<1>. PICK s : s = InOrder(S)
  OBVIOUS
<1>1. /\ n \in Nat /\ s \in [1..n -> S]
      /\ \A i, j \in 1..n : i < j => Before(s[i], s[j])
      /\ \A r \in S : \E i \in 1..n : s[i] = r
  BY InOrderIs DEF Sorted
<1>2. InTurn(s, n, B)
  BY <1>1 DEF InTurn
<1>. PICK m : m = Merging(s, n)
  OBVIOUS
<1>3. MergedUpto(m, s, n, B)
  BY <1>2, MergingIs
<1>4. Apart(m, B) /\ (Inside(m, b) <=> \E i \in 1..n : Holds(s[i], b))
  BY <1>3 DEF MergedUpto
<1>5. (\E i \in 1..n : Holds(s[i], b)) <=> \E r \in S : Holds(r, b)
  BY <1>1
<1>6. (\E r \in Gaps(m, B) : Holds(r, b)) <=> ~Inside(m, b)
  BY <1>4, GapsAreBetween
<1>. QED
  BY <1>4, <1>5, <1>6

-----------------------------------------------------------------------------
(* A file. *)

(* What a pair covers, and what is sent of it.                             *)
LEMMA CoveredIs ==
    ASSUME NEW file, WithinTexts(file), WholeCharacters(file), SameLengths(file),
           NEW h, Counts(h, file.service),
           NEW k \in DOMAIN file.mappings, NEW i \in DOMAIN file.mappings[k].pairs,
           NEW c, c = CoveredBy(file, file.mappings[k], i),
           NEW sent, sent = SentMappings(file)[k][i]
    PROVE  /\ c \in Ranges(h[Len(file.service)])
           /\ sent.service = c.pos /\ sent.service + sent.serviceLen = c.end
           /\ GeneratedLen(file.mappings[k], i) > 0 \/ c.end = c.pos
<1>. PICK g : Counts(g, file.source)
  BY TextHasCounts DEF WithinTexts
<1>. PICK p : p = file.mappings[k].pairs[i]
  OBVIOUS
<1>. PICK n : n = GeneratedLen(file.mappings[k], i)
  OBVIOUS
<1>1. /\ Utf8(file.source, SourceOffsets(file.mappings), p.source) = g[p.source]
      /\ Utf8(file.source, SourceOffsets(file.mappings), p.source + p.len) = g[p.source + p.len]
      /\ Utf8(file.service, ServiceOffsets(file.mappings), p.service) = h[p.service]
      /\ Utf8(file.service, ServiceOffsets(file.mappings), p.service + n) = h[p.service + n]
  BY PairIs
<1>2. /\ p.source \in 0..Len(file.source) /\ p.source + p.len \in p.source..Len(file.source)
      /\ p.service \in 0..Len(file.service) /\ p.service + n \in p.service..Len(file.service)
      /\ ~SplitsPair(file.source, p.source) /\ ~SplitsPair(file.source, p.source + p.len)
      /\ ~SplitsPair(file.service, p.service) /\ ~SplitsPair(file.service, p.service + n)
  BY PairCounts
<1>3. ByteLength(file.source, p.source, p.source + p.len) = g[p.source + p.len] - g[p.source]
  BY <1>2, SliceBytes
<1>4. ByteLength(file.service, p.service, p.service + n) = h[p.service + n] - h[p.service]
  BY <1>2, SliceBytes
<1>5. ByteLength(file.source, p.source, p.source + p.len) = ByteLength(file.service, p.service, p.service + n)
  BY DEF SameLengths
<1>6. c = [pos |-> h[p.service], end |-> h[p.service + n]]
  BY <1>1 DEF CoveredBy
<1>7. sent = Sent(file, file.mappings[k], i)
  BY DEF SentMappings
<1>8. sent.service = h[p.service] /\ sent.serviceLen = g[p.source + p.len] - g[p.source]
  BY <1>1, <1>7 DEF Sent
<1>9. /\ Len(file.service) \in Nat /\ p.service + n \in 0..Len(file.service)
      /\ Len(file.service) \in (p.service + n)..Len(file.service)
      /\ n \in Nat
  <2>1. Len(file.service) \in Nat
    BY DEF Counts, Running
  <2>2. n \in Nat
    BY DEF WithinTexts
  <2>. QED
    BY <1>2, <2>1, <2>2
<1>10. h[p.service] <= h[p.service + n] /\ h[p.service + n] <= h[Len(file.service)]
  <2>1. Running(h, Len(file.service), file.service)
    BY DEF Counts
  <2>. QED
    BY <1>2, <1>9, <2>1, RunningGrows
<1>11. h[p.service] \in Nat /\ h[p.service + n] \in Nat /\ h[Len(file.service)] \in Nat
  <2>1. h \in [0..Len(file.service) -> Nat]
    BY DEF Counts, Running
  <2>2. p.service \in 0..Len(file.service) /\ Len(file.service) \in 0..Len(file.service)
    BY <1>2, <1>9
  <2>. QED
    BY <1>9, <2>1, <2>2
<1>12. c.pos = h[p.service] /\ c.end = h[p.service + n]
  BY <1>6
<1>13. c \in Ranges(h[Len(file.service)])
  <2>1. h[p.service] \in 0..h[Len(file.service)] /\ h[p.service + n] \in 0..h[Len(file.service)]
    BY <1>10, <1>11
  <2>. QED
    BY <1>6, <1>10, <2>1, SMTT(30) DEF Ranges
<1>14. sent.service + sent.serviceLen = c.end
  BY <1>3, <1>4, <1>5, <1>8, <1>11, <1>12
<1>15. n > 0 \/ p.service + n = p.service
  BY <1>2, <1>9
<1>. QED
  BY <1>8, <1>12, <1>13, <1>14, <1>15

(* Every byte is ignored, or in a mapping.                                 *)
IgnoredOrSent(file) ==
    \A b \in 0..(Bytes(file.service, Len(file.service)) - 1) :
        (\E r \in IgnoreMappings(file) : Holds(r, b)) <=> ~InSent(SentMappings(file), b)

(* Those of a file whose lengths agree are.                                *)
LEMMA FileIsIgnoredOrSent ==
    ASSUME NEW file, WithinTexts(file), WholeCharacters(file), SameLengths(file)
    PROVE  IgnoredOrSent(file)
<1>. PICK h : Counts(h, file.service)
  BY TextHasCounts DEF WithinTexts
<1>. PICK B : B = h[Len(file.service)]
  OBVIOUS
<1>. PICK S : S = ServiceCovered(file)
  OBVIOUS
<1>1. Len(file.service) \in Nat /\ B \in Nat /\ Len(file.service) \in 0..Len(file.service)
  BY DEF Counts, Running
<1>2. Bytes(file.service, Len(file.service)) = B
  BY <1>1, BytesAre DEF SplitsPair
<1>3. S \in SUBSET Ranges(B)
  <2>1. ASSUME NEW k \in DOMAIN file.mappings, NEW i \in DOMAIN file.mappings[k].pairs
        PROVE  CoveredBy(file, file.mappings[k], i) \in Ranges(B)
    BY CoveredIs
  <2>. QED
    BY <2>1 DEF ServiceCovered
<1>4. IgnoreMappings(file) = Gaps(Merging(InOrder(S), Cardinality(S)), B)
  BY <1>2 DEF IgnoreMappings, Merged, Bytes
<1>5. ASSUME NEW b \in 0..(B - 1)
      PROVE  (\E r \in S : Holds(r, b)) <=> InSent(SentMappings(file), b)
  <2>1. ASSUME NEW k \in DOMAIN file.mappings, NEW i \in DOMAIN file.mappings[k].pairs
        PROVE  LET c    == CoveredBy(file, file.mappings[k], i)
                   sent == SentMappings(file)[k][i]
               IN  /\ Holds(c, b) <=> sent.service <= b /\ b < sent.service + sent.serviceLen
                   /\ Holds(c, b) => c \in S
    <3>. PICK c : c = CoveredBy(file, file.mappings[k], i)
      OBVIOUS
    <3>. PICK sent : sent = SentMappings(file)[k][i]
      OBVIOUS
    <3>1. /\ c \in Ranges(B) /\ sent.service = c.pos /\ sent.service + sent.serviceLen = c.end
          /\ GeneratedLen(file.mappings[k], i) > 0 \/ c.end = c.pos
      BY CoveredIs
    <3>2. Holds(c, b) <=> sent.service <= b /\ b < sent.service + sent.serviceLen
      BY <3>1 DEF Holds
    <3>3. ASSUME Holds(c, b) PROVE c \in S
      <4>1. c.end # c.pos
        BY <3>1, <3>3 DEF Holds, Ranges
      <4>. QED
        BY <3>1, <4>1 DEF ServiceCovered
    <3>. QED
      BY <3>2, <3>3
  <2>2. \A c \in S : \E k \in DOMAIN file.mappings : \E i \in DOMAIN file.mappings[k].pairs :
            c = CoveredBy(file, file.mappings[k], i)
    BY DEF ServiceCovered
  <2>3. /\ DOMAIN SentMappings(file) = DOMAIN file.mappings
        /\ \A k \in DOMAIN file.mappings : DOMAIN SentMappings(file)[k] = DOMAIN file.mappings[k].pairs
    BY DEF SentMappings
  <2>. QED
    BY <2>1, <2>2, <2>3 DEF InSent
<1>6. ASSUME NEW b \in 0..(B - 1)
      PROVE  (\E r \in IgnoreMappings(file) : Holds(r, b)) <=> ~InSent(SentMappings(file), b)
  BY <1>1, <1>3, <1>4, <1>5, <1>6, GapsOfMerged
<1>. QED
  BY <1>2, <1>6 DEF IgnoredOrSent

-----------------------------------------------------------------------------
(* The cache. *)

(* An entry is what some worker that has the cache generated for its key.  *)
EntryGenerated(k) ==
    cache[k] = Torn \/ \E v \in Workers, r \in Requests :
        /\ env[v].cached
        /\ k = Key(env[v], r)
        /\ cache[k] = Generated(env[v], r)

Asked(w) == at[w] # "idle" => request[w] \in Requests

Writes(w) ==
    at[w] \in {"write", "rename"} =>
        env[w].cached /\ result[w] = Generated(env[w], request[w])

(* What is returned was generated just now, or is an entry of its key.     *)
Returns(w) ==
    at[w] = "answered" =>
        \/ result[w] = Generated(env[w], request[w])
        \/ \E v \in Workers, r \in Requests :
              /\ env[v].cached
              /\ Key(env[w], request[w]) = Key(env[v], r)
              /\ result[w] = Generated(env[v], r)

CacheInv ==
    /\ machine \in Machines
    /\ DOMAIN at = Workers /\ DOMAIN request = Workers /\ DOMAIN result = Workers
    /\ \A w \in Workers : Asked(w) /\ Writes(w) /\ Returns(w)
    /\ \A k \in DOMAIN cache : EntryGenerated(k)

-----------------------------------------------------------------------------

(* There is no cache at first.                                             *)
LEMMA InitInv == Init => CacheInv
BY DEF Init, CacheInv, Asked, Writes, Returns, EntryGenerated

(* A step of one worker that leaves the cache and the other workers alone. *)
LEMMA OwnStep ==
    ASSUME CacheInv, NEW w \in Workers, UNCHANGED <<machine, env, cache>>,
           DOMAIN at' = Workers, DOMAIN request' = Workers, DOMAIN result' = Workers,
           \A v \in Workers \ {w} :
              at'[v] = at[v] /\ request'[v] = request[v] /\ result'[v] = result[v],
           Asked(w)', Writes(w)', Returns(w)'
    PROVE  CacheInv'
<1>1. Requests' = Requests
  BY DEF Requests
<1>2. ASSUME NEW v \in Workers PROVE Asked(v)' /\ Writes(v)' /\ Returns(v)'
  <2>1. CASE v = w
    BY <2>1
  <2>2. CASE v # w
    BY <1>1, <2>2 DEF CacheInv, Asked, Writes, Returns
  <2>. QED
    BY <2>1, <2>2
<1>3. \A k \in DOMAIN cache : EntryGenerated(k)'
  BY <1>1 DEF CacheInv, EntryGenerated
<1>. QED
  BY <1>2, <1>3 DEF CacheInv

(* A request is of a file on the machine.                                  *)
LEMMA CreateServiceCodeInv ==
    ASSUME CacheInv, NEW w \in Workers, CreateServiceCode(w)
    PROVE  CacheInv'
<1>1. request'[w] \in Requests /\ at'[w] \in {"read", "generate"} /\ Requests' = Requests
  BY DEF CreateServiceCode, Goto, CacheInv, Requests
<1>2. Asked(w)' /\ Writes(w)' /\ Returns(w)'
  BY <1>1 DEF Asked, Writes, Returns
<1>. QED
  BY <1>2, OwnStep DEF CreateServiceCode, Goto, CacheInv

(* What is read is an entry of the key.                                    *)
LEMMA ReadInv ==
    ASSUME CacheInv, NEW w \in Workers, Read(w)
    PROVE  CacheInv'
<1>1. Requests' = Requests /\ at[w] = "read" /\ request[w] \in Requests
  BY DEF Read, Requests, CacheInv, Asked
<1>2. CASE at'[w] = "generate"
  <2>1. Asked(w)' /\ Writes(w)' /\ Returns(w)'
    BY <1>1, <1>2 DEF Read, Asked, Writes, Returns
  <2>. QED
    BY <2>1, OwnStep DEF Read, Goto, CacheInv
<1>3. CASE Entry(w) \notin {None, Torn} /\ result' = [result EXCEPT ![w] = Entry(w)]
             /\ at' = [at EXCEPT ![w] = "answered"]
  <2>1. KeyOf(w) \in DOMAIN cache /\ Entry(w) = cache[KeyOf(w)] /\ cache[KeyOf(w)] # Torn
    BY <1>3 DEF Entry
  <2>2. PICK v \in Workers, r \in Requests :
           env[v].cached /\ KeyOf(w) = Key(env[v], r) /\ cache[KeyOf(w)] = Generated(env[v], r)
    BY <2>1 DEF CacheInv, EntryGenerated
  <2>3. at'[w] = "answered" /\ result'[w] = Generated(env[v], r)
    BY <1>3, <2>1, <2>2 DEF CacheInv
  <2>4. Asked(w)' /\ Writes(w)' /\ Returns(w)'
    BY <1>1, <2>2, <2>3 DEF Read, Asked, Writes, Returns, KeyOf
  <2>. QED
    BY <1>3, <2>4, OwnStep DEF Read, CacheInv
<1>. QED
  BY <1>2, <1>3 DEF Read, Goto, CacheInv

(* What is generated is for the request.                                   *)
LEMMA GenerateCodeInv ==
    ASSUME CacheInv, NEW w \in Workers, GenerateCode(w)
    PROVE  CacheInv'
<1>1. /\ Requests' = Requests /\ request[w] \in Requests
      /\ result'[w] = Generated(env[w], request[w])
      /\ at'[w] = (IF env[w].cached THEN "write" ELSE "answered")
  BY DEF GenerateCode, Goto, Requests, CacheInv, Asked
<1>2. Asked(w)' /\ Writes(w)' /\ Returns(w)'
  BY <1>1 DEF GenerateCode, Asked, Writes, Returns
<1>. QED
  BY <1>2, OwnStep DEF GenerateCode, Goto, CacheInv

(* writeCache up to the rename, its failure, and a kill.                   *)
LEMMA LeavesInv ==
    ASSUME CacheInv, NEW w \in Workers, WriteTemp(w) \/ WriteFails(w) \/ Kill(w)
    PROVE  CacheInv'
<1>1. Requests' = Requests /\ at[w] # "idle" /\ request[w] \in Requests
  BY DEF WriteTemp, WriteFails, Kill, Requests, CacheInv, Asked
<1>2. \/ at[w] = "write" /\ at'[w] = "rename"
      \/ at[w] \in {"write", "rename"} /\ at'[w] = "answered"
      \/ at'[w] = "dead"
  BY DEF WriteTemp, WriteFails, Kill, Goto, AfterCaught, CacheInv
<1>3. Asked(w)' /\ Writes(w)' /\ Returns(w)'
  BY <1>1, <1>2 DEF WriteTemp, WriteFails, Kill, Asked, Writes, Returns, CacheInv
<1>. QED
  BY <1>3, OwnStep DEF WriteTemp, WriteFails, Kill, Goto, CacheInv

(* What is renamed is what was generated for the key.                      *)
LEMMA RenameInv ==
    ASSUME CacheInv, NEW w \in Workers, Rename(w)
    PROVE  CacheInv'
<1>1. /\ Requests' = Requests /\ at[w] = "rename" /\ request[w] \in Requests
      /\ env[w].cached /\ result[w] = Generated(env[w], request[w])
      /\ at' = [at EXCEPT ![w] = "answered"]
  BY DEF Rename, Goto, Requests, CacheInv, Asked, Writes
<1>2. ASSUME NEW v \in Workers PROVE Asked(v)' /\ Writes(v)' /\ Returns(v)'
  BY <1>1 DEF Rename, CacheInv, Asked, Writes, Returns
<1>3. ASSUME NEW k \in DOMAIN cache' PROVE EntryGenerated(k)'
  <2>1. CASE k = KeyOf(w)
    <3>1. cache'[k] = Generated(env[w], request[w])
      BY <1>1, <1>3, <2>1 DEF Rename, Put
    <3>. QED
      BY <1>1, <2>1, <3>1 DEF Rename, EntryGenerated, KeyOf
  <2>2. CASE k # KeyOf(w)
    <3>1. k \in DOMAIN cache /\ cache'[k] = cache[k]
      BY <1>3, <2>2 DEF Rename, Put
    <3>. QED
      BY <1>1, <3>1 DEF Rename, CacheInv, EntryGenerated
  <2>. QED
    BY <2>1, <2>2
<1>. QED
  BY <1>1, <1>2, <1>3 DEF Rename, CacheInv

(* What is lost is torn.                                                   *)
LEMMA PowerLossInv ==
    ASSUME CacheInv, PowerLoss
    PROVE  CacheInv'
<1>1. Requests' = Requests
  BY DEF PowerLoss, Requests
<1>2. ASSUME NEW w \in Workers PROVE Asked(w)' /\ Writes(w)' /\ Returns(w)'
  <2>1. at'[w] \in {"idle", "answered", "dead"} /\ (at'[w] # "dead" => at'[w] = at[w])
    BY DEF PowerLoss
  <2>2. at'[w] = "dead" => at[w] # "idle"
    BY DEF PowerLoss
  <2>. QED
    BY <1>1, <2>1, <2>2 DEF PowerLoss, CacheInv, Asked, Writes, Returns
<1>3. ASSUME NEW k \in DOMAIN cache' PROVE EntryGenerated(k)'
  BY <1>1 DEF PowerLoss, CacheInv, EntryGenerated
<1>. QED
  BY <1>2, <1>3 DEF PowerLoss, CacheInv

(* Every step of any worker, and the machine's, keeps the invariant.       *)
LEMMA StepInv == CacheInv /\ [Next]_vars => CacheInv'
<1>. SUFFICES ASSUME CacheInv, [Next]_vars PROVE CacheInv'
  OBVIOUS
<1>1. ASSUME NEW w \in Workers, CreateServiceCode(w) PROVE CacheInv'
  BY <1>1, CreateServiceCodeInv
<1>2. ASSUME NEW w \in Workers, Step(w) PROVE CacheInv'
  BY <1>2, ReadInv, GenerateCodeInv, LeavesInv, RenameInv DEF Step
<1>3. ASSUME NEW w \in Workers, Kill(w) PROVE CacheInv'
  BY <1>3, LeavesInv
<1>4. CASE UNCHANGED vars
  BY <1>4 DEF vars, CacheInv, Asked, Writes, Returns, EntryGenerated, Requests
<1>. QED
  BY <1>1, <1>2, <1>3, <1>4, PowerLossInv DEF Next

-----------------------------------------------------------------------------

(* Equal keys are of one identity, one file and one contents; if all who   *)
(* share the identity run alike, of one code.                              *)
LEMMA InvMeansGenerated == CacheInv => AnswerIsGenerated
<1>. SUFFICES ASSUME CacheInv, NEW w \in Workers, Answered(w)
     PROVE  /\ result[w].fileName = request[w].fileName
            /\ result[w].source = request[w].source
            /\ Identity(result[w].options) = Identity(env[w].options)
            /\ SharesIdentity(w) => result[w] = Generated(env[w], request[w])
  BY DEF AnswerIsGenerated
<1>1. CASE result[w] = Generated(env[w], request[w])
  BY <1>1 DEF Generated
<1>2. ASSUME NEW v \in Workers, NEW r \in Requests, env[v].cached,
             Key(env[w], request[w]) = Key(env[v], r), result[w] = Generated(env[v], r)
      PROVE  /\ result[w].fileName = request[w].fileName
             /\ result[w].source = request[w].source
             /\ Identity(result[w].options) = Identity(env[w].options)
             /\ SharesIdentity(w) => result[w] = Generated(env[w], request[w])
  <2>1. /\ Identity(env[v].options) = Identity(env[w].options)
        /\ r.fileName = request[w].fileName /\ r.source = request[w].source
    BY <1>2 DEF Key
  <2>2. /\ result[w].fileName = r.fileName /\ result[w].source = r.source
        /\ result[w].options = env[v].options
    BY <1>2 DEF Generated
  <2>3. SharesIdentity(w) => env[v].release = env[w].release /\ env[v].options = env[w].options
    BY <1>2, <2>1 DEF SharesIdentity
  <2>4. SharesIdentity(w) => Generated(env[v], r) = Generated(env[w], request[w])
    BY <2>1, <2>3 DEF Generated
  <2>. QED
    BY <1>2, <2>1, <2>2, <2>4
<1>. QED
  BY <1>1, <1>2 DEF CacheInv, Returns, Answered

(* An answer of createServiceCode, cached or not, is the code of the file  *)
(* and the contents asked for, of the identity of the worker; and exactly  *)
(* what it would generate, if those who share its identity run alike.      *)
THEOREM AnswersAreGenerated == Spec => []AnswerIsGenerated
<1>. QED
  BY InitInv, StepInv, InvMeansGenerated, PTL DEF Spec

-----------------------------------------------------------------------------
(* The code of an answer is what generate makes of the contents asked for, *)
(* whichever worker it came from.                                          *)
LEMMA AnswerIsOfSource ==
    ASSUME CacheInv, NEW w \in Workers, Answered(w)
    PROVE  /\ WithinTexts(request[w].source)
           /\ result[w].code.mappings = SentMappings(request[w].source)
           /\ result[w].code.ignored = IgnoreMappings(request[w].source)
<1>1. request[w].source \in machine.sources /\ machine \in Machines
  BY DEF CacheInv, Asked, Answered, Requests
<1>2. WithinTexts(request[w].source)
  BY <1>1, SourcesAssumption
<1>3. result[w].code = Generate(request[w].source)
  <2>1. CASE result[w] = Generated(env[w], request[w])
    BY <2>1 DEF Generated
  <2>2. ASSUME NEW v \in Workers, NEW r \in Requests, Key(env[w], request[w]) = Key(env[v], r),
               result[w] = Generated(env[v], r)
        PROVE  result[w].code = Generate(request[w].source)
    <3>1. r.source = request[w].source
      BY <2>2 DEF Key
    <3>. QED
      BY <2>2, <3>1 DEF Generated
  <2>. QED
    BY <2>1, <2>2 DEF CacheInv, Returns, Answered
<1>. QED
  BY <1>2, <1>3 DEF Generate

(* So the mappings of an answer relate bytes ...                           *)
LEMMA InvMeansInBytes == CacheInv => OffsetsInBytes
<1>. SUFFICES ASSUME CacheInv, NEW w \in Workers, Answered(w),
                     WholeCharacters(request[w].source),
                     NEW k \in DOMAIN request[w].source.mappings,
                     NEW i \in DOMAIN request[w].source.mappings[k].pairs
     PROVE  LET f    == request[w].source
                p    == f.mappings[k].pairs[i]
                sent == result[w].code.mappings[k][i]
            IN  /\ sent.source = Bytes(f.source, p.source)
                /\ sent.service = Bytes(f.service, p.service)
                /\ sent.source + sent.sourceLen = Bytes(f.source, p.source + p.len)
  BY DEF OffsetsInBytes
<1>1. /\ WithinTexts(request[w].source)
      /\ result[w].code.mappings = SentMappings(request[w].source)
  BY AnswerIsOfSource
<1>2. MappedInBytes(request[w].source)
  BY <1>1, FileIsMappedInBytes
<1>. QED
  BY <1>1, <1>2 DEF MappedInBytes

(* ... and no byte is neither ignored nor mapped, or both.                 *)
LEMMA InvMeansIgnoredOrMapped == CacheInv => IgnoredOrMapped
<1>. SUFFICES ASSUME CacheInv, NEW w \in Workers, Answered(w),
                     WholeCharacters(request[w].source), SameLengths(request[w].source),
                     NEW b \in 0..(Bytes(request[w].source.service, Len(request[w].source.service)) - 1)
     PROVE  (\E r \in result[w].code.ignored : Holds(r, b)) <=> ~InSent(result[w].code.mappings, b)
  BY DEF IgnoredOrMapped
<1>1. /\ WithinTexts(request[w].source)
      /\ result[w].code.mappings = SentMappings(request[w].source)
      /\ result[w].code.ignored = IgnoreMappings(request[w].source)
  BY AnswerIsOfSource
<1>2. IgnoredOrSent(request[w].source)
  BY <1>1, FileIsIgnoredOrSent
<1>. QED
  BY <1>1, <1>2 DEF IgnoredOrSent

(* The mappings of an answer relate bytes as language-core relates UTF-16  *)
(* units, in any two texts of characters of any lengths, for any mappings, *)
(* overlapping or not, that split no pair.                                 *)
THEOREM OffsetsAreBytes == Spec => []OffsetsInBytes
<1>. QED
  BY InitInv, StepInv, InvMeansInBytes, PTL DEF Spec

(* However mappings nest, touch and overlap, sorting and merging what they *)
(* cover leaves exactly the bytes in no mapping ignored, if every mapping's*)
(* generated text is as long as its source.                                *)
THEOREM BytesAreIgnoredOrMapped == Spec => []IgnoredOrMapped
<1>. QED
  BY InitInv, StepInv, InvMeansIgnoredOrMapped, PTL DEF Spec
=============================================================================
