-------------------------- MODULE SourceMapProofs ---------------------------
(***************************************************************************)
(* Proofs about ImportedMap: the lookups in a source map are exact for any *)
(* mappings, segments, offsets and number of goroutines.                   *)
(***************************************************************************)
EXTENDS ImportedMap, SequenceTheorems, FiniteSetTheorems, TLAPS

-----------------------------------------------------------------------------
(* Mappings. *)

MappingList == Seq(Mapping(Nat, Nat))

(* The ends of a mapping of a list are natural numbers, in order. *)
LEMMA MappingEnds ==
    ASSUME NEW ms \in MappingList, NEW i \in DOMAIN ms, NEW side \in Sides
    PROVE  /\ Start(ms[i], side) \in Nat /\ Start(ms[i], Other(side)) \in Nat
           /\ Length(ms[i], side) \in Nat /\ Length(ms[i], Other(side)) \in Nat
           /\ End(ms[i], side) \in Nat
           /\ Start(ms[i], side) <= End(ms[i], side)
<1>1. ms[i] \in Mapping(Nat, Nat)
  BY DEF MappingList
<1>2. /\ ms[i].source \in Nat /\ ms[i].service \in Nat
      /\ ms[i].sourceLen \in Nat /\ ms[i].serviceLen \in Nat
  BY <1>1 DEF Mapping
<1>3. \A s \in Sides : Start(ms[i], s) \in Nat /\ Length(ms[i], s) \in Nat
  BY <1>2 DEF Sides, Start, Length
<1>. QED
  BY <1>3 DEF Sides, Other, End

(* A later offset is not translated to an earlier one. *)
LEMMA TranslateMonotone ==
    ASSUME NEW ms \in MappingList, NEW i \in DOMAIN ms, NEW side \in Sides,
           NEW a \in Nat, NEW b \in Nat, a <= b
    PROVE  Translate(ms[i], side, a) <= Translate(ms[i], side, b)
BY MappingEnds DEF Translate, Lesser

-----------------------------------------------------------------------------
(* The index of one side. *)

IndexOf(ms, m, side) ==
    /\ m.n \in Nat
    /\ m.offsets \in [0..(m.n - 1) -> Boundaries(ms, side)]
    /\ \A i, j \in 0..(m.n - 1) : i < j => m.offsets[i] < m.offsets[j]
    /\ \A x \in Boundaries(ms, side) : \E i \in 0..(m.n - 1) : m.offsets[i] = x
    /\ \A i \in 0..(m.n - 1) : m.at[i] = Bucket(ms, side, m.offsets[i])

(* A list of mappings has finitely many boundaries. *)
LEMMA BoundariesFinite ==
    ASSUME NEW ms \in MappingList, NEW side \in Sides
    PROVE  /\ Boundaries(ms, side) \subseteq Nat
           /\ Cardinality(Boundaries(ms, side)) \in Nat
<1>. DEFINE I == DOMAIN ms
            A == {Start(ms[i], side) : i \in I}
            B == {End(ms[i], side) : i \in I}
            f == [i \in I |-> Start(ms[i], side)]
            g == [i \in I |-> End(ms[i], side)]
<1>1. IsFiniteSet(I)
  <2>1. I = 1..Len(ms) /\ Len(ms) \in Nat
    BY DEF MappingList
  <2>. QED
    BY <2>1, FS_Interval
<1>2. f \in Surjection(I, A) /\ g \in Surjection(I, B)
  BY DEF Surjection
<1>3. IsFiniteSet(A) /\ IsFiniteSet(B)
  BY <1>1, <1>2, FS_Surjection
<1>4. Boundaries(ms, side) = A \cup B
  BY DEF Boundaries
<1>5. IsFiniteSet(Boundaries(ms, side))
  BY <1>3, <1>4, FS_Union
<1>6. Boundaries(ms, side) \subseteq Nat
  BY <1>4, MappingEnds
<1>. QED
  BY <1>5, <1>6, FS_CardinalityType

(* createMemo makes the index. *)
LEMMA CreatedIndex ==
    ASSUME NEW ms \in MappingList, NEW side \in Sides, NEW s \in SortedOf(Boundaries(ms, side))
    PROVE  IndexOf(ms, [n |-> Cardinality(Boundaries(ms, side)), offsets |-> s,
                        at |-> [i \in DOMAIN s |-> Bucket(ms, side, s[i])]], side)
<1>1. /\ s \in [0..(Cardinality(Boundaries(ms, side)) - 1) -> Boundaries(ms, side)]
      /\ DOMAIN s = 0..(Cardinality(Boundaries(ms, side)) - 1)
      /\ \A i, j \in DOMAIN s : i < j => s[i] < s[j]
      /\ \A x \in Boundaries(ms, side) : \E i \in DOMAIN s : s[i] = x
  BY DEF SortedOf
<1>. QED
  BY <1>1, BoundariesFinite DEF IndexOf

(* Where the bisection meets the offset, its bucket leads to every mapping *)
(* that covers the offset.                                                 *)
LEMMA FoundExactly ==
    ASSUME NEW ms, NEW side \in Sides, NEW m, IndexOf(ms, m, side), NEW mid \in 0..(m.n - 1),
           NEW k \in DOMAIN ms, Covers(ms[k], side, m.offsets[mid])
    PROVE  k \in m.at[mid]
BY DEF IndexOf, Bucket, Covers

(* Where it does not, the bucket before the offset does: whatever covers   *)
(* the offset starts at a boundary before it and ends behind it.           *)
LEMMA FoundBetween ==
    ASSUME NEW ms \in MappingList,
           NEW side \in Sides, NEW m, IndexOf(ms, m, side), NEW x \in Nat, NEW h \in Int,
           -1 <= h, h < m.n,
           \A i \in 0..(m.n - 1) : i < h + 1 => m.offsets[i] < x,
           \A i \in 0..(m.n - 1) : i > h => m.offsets[i] > x,
           NEW k \in DOMAIN ms, Covers(ms[k], side, x)
    PROVE  h >= 0 /\ k \in m.at[h]
<1>1. /\ Start(ms[k], side) \in Nat /\ End(ms[k], side) \in Nat
      /\ Start(ms[k], side) <= x /\ x <= End(ms[k], side)
  BY MappingEnds DEF Covers
<1>2. Start(ms[k], side) \in Boundaries(ms, side) /\ Boundaries(ms, side) \subseteq Nat
  BY BoundariesFinite DEF Boundaries
<1>3. PICK a \in 0..(m.n - 1) : m.offsets[a] = Start(ms[k], side)
  BY <1>2 DEF IndexOf
<1>4. m.n \in Nat /\ a <= h
  BY <1>1, <1>3 DEF IndexOf
<1>5. h \in 0..(m.n - 1) /\ m.offsets[h] \in Nat /\ m.offsets[h] < x
  BY <1>2, <1>4 DEF IndexOf
<1>6. m.offsets[a] <= m.offsets[h]
  <2>1. CASE a = h
    BY <1>1, <1>3, <2>1
  <2>2. CASE a < h
    BY <1>5, <1>3, <1>1, <2>2 DEF IndexOf
  <2>. QED
    BY <1>4, <1>5, <2>1, <2>2
<1>7. m.offsets[h] <= End(ms[k], side)
  BY <1>1, <1>5
<1>. QED
  BY <1>3, <1>5, <1>6, <1>7 DEF IndexOf, Bucket

-----------------------------------------------------------------------------
(* The inductive invariant. *)

(* Where the mappings come from. *)
ImportTyped ==
    /\ mappings \in MappingList
    /\ imported \in MappingList
    /\ current = None \/ current \in [gen : Nat, source : Nat]
    /\ importing \in {"open", "returned", "panicked"} => NothingAsked

MemosRight ==
    /\ DOMAIN memo = Sides
    /\ \A side \in Sides : memo[side] = Unset \/ IndexOf(mappings, memo[side], side)

PerThread ==
    /\ DOMAIN pc = Threads /\ DOMAIN query = Threads /\ DOMAIN phase = Threads
    /\ DOMAIN seeking = Threads /\ DOMAIN seen = Threads
    /\ DOMAIN low = Threads /\ DOMAIN high = Threads
    /\ DOMAIN starts = Threads /\ DOMAIN ranges = Threads

Asked(t) ==
    /\ pc[t] = "idle" => phase[t] = "start"
    /\ pc[t] # "idle" => query[t] \in Queries

(* The start of the range is looked for, or its end because no mapping     *)
(* that covers the start covers both.                                      *)
Seeks(t) ==
    \/ phase[t] = "start" /\ seeking[t] = query[t].pos
    \/ /\ phase[t] = "end" /\ seeking[t] = query[t].end
       /\ query[t].kind = "range" /\ query[t].fallback
       /\ starts[t] = Locations(mappings, query[t].side, query[t].pos)
       /\ DirectRanges(mappings, query[t].side, starts[t], query[t].end) = {}

Seeking(t) == pc[t] \in {"memo", "create", "search", "collect"} => Seeks(t)

Searching(t) ==
    pc[t] = "search" =>
        /\ IndexOf(mappings, seen[t], query[t].side)
        /\ low[t] \in Int /\ high[t] \in Int
        /\ 0 <= low[t] /\ low[t] <= high[t] + 1 /\ high[t] < seen[t].n /\ seen[t].n > 0
        /\ \A i \in 0..(seen[t].n - 1) :
              /\ i < low[t] => seen[t].offsets[i] < seeking[t]
              /\ i > high[t] => seen[t].offsets[i] > seeking[t]

(* The buckets found lead to every mapping that covers the offset.         *)
Collecting(t) ==
    pc[t] = "collect" =>
        /\ IndexOf(mappings, seen[t], query[t].side)
        /\ low[t]..high[t] \subseteq 0..(seen[t].n - 1)
        /\ \A k \in DOMAIN mappings :
              Covers(mappings[k], query[t].side, seeking[t]) =>
                  \E i \in low[t]..high[t] : k \in seen[t].at[i]

Answered(t) ==
    pc[t] = "done" =>
        /\ starts[t] = Locations(mappings, query[t].side, query[t].pos)
        /\ query[t].kind = "range" =>
              /\ query[t].fallback => ranges[t] = Ranges(mappings, query[t].side, query[t])
              /\ \A r \in ranges[t] : r.pos <= r.end

ThreadInv(t) == Asked(t) /\ Seeking(t) /\ Searching(t) /\ Collecting(t) /\ Answered(t)

LookupInv ==
    /\ ImportTyped /\ MemosRight /\ PerThread
    /\ \A t \in Threads : ThreadInv(t)

(* While nothing is asked the invariants of the lookups hold. *)
LEMMA NothingAskedInv ==
    ASSUME NothingAsked
    PROVE  MemosRight /\ PerThread /\ \A t \in Threads : ThreadInv(t)
BY DEF NothingAsked, MemosRight, PerThread, ThreadInv, Asked, Seeking, Searching, Collecting, Answered

-----------------------------------------------------------------------------
(* Importing. *)

(* What segments have in common has a length. *)
LEMMA SameLengthType ==
    ASSUME NEW source, NEW service, NEW n \in Int
    PROVE  SameLength(source, service, n) \in Nat
<1>. DEFINE K == {k \in 1..n : Same(source, service, k)}
<1>1. IsFiniteSet(1..n) /\ K \subseteq 1..n
  BY FS_Interval
<1>2. IsFiniteSet(K)
  BY <1>1, FS_Subset
<1>. QED
  BY <1>2, FS_CardinalityType DEF SameLength

(* What is made of the current segment is a list of mappings. *)
LEMMA WithPieceType ==
    ASSUME imported \in MappingList, current = None \/ current \in [gen : Nat, source : Nat],
           NEW gen \in Nat
    PROVE  WithPiece(gen) \in MappingList
<1>1. CASE current = None
  BY <1>1 DEF WithPiece
<1>2. CASE current # None
  <2>. DEFINE n == SameLength(current.source, current.gen, gen - current.gen)
  <2>1. current.gen \in Nat /\ current.source \in Nat
    BY <1>2
  <2>2. n \in Nat
    BY <2>1, SameLengthType
  <2>3. Piece(current, n) \in Mapping(Nat, Nat)
    BY <2>1, <2>2 DEF Piece, Mapping
  <2>4. Append(imported, Piece(current, n)) \in MappingList
    BY <2>3 DEF MappingList
  <2>5. CASE Continues(current)
    <3>. DEFINE last == Len(imported)
                grown == [imported EXCEPT ![last].sourceLen = @ + n]
    <3>1. last \in DOMAIN imported
      BY <2>5 DEF Continues, MappingList
    <3>2. imported[last] \in Mapping(Nat, Nat)
      BY <3>1 DEF MappingList
    <3>3. [imported[last] EXCEPT !.sourceLen = @ + n] \in Mapping(Nat, Nat)
      BY <3>2, <2>2 DEF Mapping
    <3>4. grown = [imported EXCEPT ![last] = [imported[last] EXCEPT !.sourceLen = @ + n]]
      OBVIOUS
    <3>5. grown \in MappingList
      BY <3>1, <3>3, <3>4 DEF MappingList
    <3>. QED
      BY <1>2, <2>5, <3>5 DEF WithPiece
  <2>. QED
    BY <1>2, <2>4, <2>5 DEF WithPiece
<1>. QED
  BY <1>1, <1>2

(* A step of the import changes the import alone. *)
LEMMA ImportInv ==
    ASSUME LookupInv, ImportStep, UNCHANGED vars
    PROVE  LookupInv'
<1>1. importing = "open" /\ NothingAsked /\ NothingAsked'
  BY DEF ImportStep, EndOfSegments, DecodeSegment, LookupInv, ImportTyped, NothingAsked, vars
<1>2. ASSUME NEW s \in Segments, DecodeSegment(s)
      PROVE  ImportTyped'
  <2>1. s.gen \in Nat /\ (s.from = None \/ s.from \in SourcePlaces)
    BY SegmentsAssumption DEF Segments
  <2>2. s.from # None => s.from.offset \in Nat
    BY <2>1, SegmentsAssumption DEF SourcePlaces
  <2>3. imported' \in MappingList
    BY <1>2, <2>1, WithPieceType DEF DecodeSegment, LookupInv, ImportTyped
  <2>4. current' = None \/ current' \in [gen : Nat, source : Nat]
    BY <1>2, <2>1, <2>2 DEF DecodeSegment, LookupInv, ImportTyped
  <2>. QED
    BY <1>1, <2>3, <2>4 DEF LookupInv, ImportTyped, vars
<1>3. ASSUME EndOfSegments PROVE ImportTyped'
  BY <1>1, <1>3 DEF EndOfSegments, LookupInv, ImportTyped, vars
<1>4. (MemosRight /\ PerThread /\ \A t \in Threads : ThreadInv(t))'
  <2>1. MemosRight' /\ PerThread'
    BY <1>1 DEF NothingAsked, MemosRight, PerThread
  <2>2. ASSUME NEW t \in Threads PROVE ThreadInv(t)'
    BY <1>1 DEF NothingAsked, ThreadInv, Asked, Seeking, Searching, Collecting, Answered
  <2>. QED
    BY <2>1, <2>2
<1>. QED
  BY <1>2, <1>3, <1>4 DEF LookupInv, ImportStep

(* Nor does the new source map disturb lookups: there are none yet.        *)
LEMMA NewSourceMapInv ==
    ASSUME LookupInv, NewSourceMap
    PROVE  LookupInv'
<1>1. NothingAsked
  BY DEF NewSourceMap, LookupInv, ImportTyped
<1>2. NothingAsked'
  BY <1>1 DEF NewSourceMap, NothingAsked
<1>3. ImportTyped'
  BY DEF NewSourceMap, LookupInv, ImportTyped, MappingList
<1>4. MemosRight' /\ PerThread'
  BY <1>2 DEF NothingAsked, MemosRight, PerThread
<1>5. ASSUME NEW t \in Threads PROVE ThreadInv(t)'
  BY <1>2 DEF NothingAsked, ThreadInv, Asked, Seeking, Searching, Collecting, Answered
<1>. QED
  BY <1>3, <1>4, <1>5 DEF LookupInv

-----------------------------------------------------------------------------
(* The lookups. *)

(* What a step leaves alone keeps its invariant. *)
LEMMA Unmoved ==
    ASSUME NEW u \in Threads, ThreadInv(u), mappings' = mappings,
           pc'[u] = pc[u], query'[u] = query[u], phase'[u] = phase[u],
           seeking'[u] = seeking[u], seen'[u] = seen[u], low'[u] = low[u],
           high'[u] = high[u], starts'[u] = starts[u], ranges'[u] = ranges[u]
    PROVE  ThreadInv(u)'
BY DEF ThreadInv, Asked, Seeking, Seeks, Searching, Collecting, Answered

(* The offsets of a query. *)
LEMMA QueryOffsets ==
    ASSUME NEW q \in Queries
    PROVE  /\ q.side \in Sides /\ q.pos \in Nat /\ q.end \in Nat
           /\ q.kind \in {"location", "range"}
           /\ q.kind = "range" => q.pos <= q.end
<1>1. CASE q \in [kind : {"location"}, side : Sides, pos : Offsets, end : {0}, fallback : {FALSE}]
  <2>1. q.kind = "location" /\ q.side \in Sides /\ q.pos \in Offsets
    BY <1>1
  <2>2. q.end \in {0}
    BY <1>1
  <2>3. q.end \in Nat
    BY <2>2
  <2>4. q.kind \in {"location", "range"} /\ q.kind # "range"
    BY <2>1
  <2>. QED
    BY <2>1, <2>3, <2>4, OffsetsAssumption
<1>2. CASE q \in [kind : {"range"}, side : Sides, pos : Offsets, end : Offsets, fallback : BOOLEAN] /\ q.pos <= q.end
  BY <1>2, OffsetsAssumption
<1>. QED
  BY <1>1, <1>2 DEF Queries

LEMMA SeekingOffset ==
    ASSUME NEW t \in Threads, ThreadInv(t), pc[t] \in {"memo", "create", "search", "collect"}
    PROVE  /\ query[t] \in Queries /\ query[t].side \in Sides
           /\ seeking[t] \in Nat /\ Seeks(t)
<1>1. query[t] \in Queries /\ Seeks(t)
  BY DEF ThreadInv, Asked, Seeking
<1>. QED
  BY <1>1, QueryOffsets DEF Seeks

(* Nothing is looked up before a query. *)
LEMMA AskInv ==
    ASSUME LookupInv, NEW t \in Threads, Ask(t)
    PROVE  \A u \in Threads : ThreadInv(u)'
<1>. SUFFICES ASSUME NEW u \in Threads PROVE ThreadInv(u)'
  OBVIOUS
<1>1. CASE u # t
  BY <1>1, Unmoved DEF LookupInv, PerThread, Ask, Goto
<1>2. CASE u = t
  <2>1. PICK q \in Queries : /\ query' = [query EXCEPT ![t] = q]
                            /\ seeking' = [seeking EXCEPT ![t] = q.pos]
    BY DEF Ask
  <2>2. /\ pc'[t] = "memo" /\ query'[t] = q /\ seeking'[t] = q.pos /\ phase'[t] = "start"
    BY <2>1 DEF Ask, Goto, LookupInv, PerThread, ThreadInv, Asked
  <2>. QED
    BY <1>2, <2>2 DEF ThreadInv, Asked, Seeking, Seeks, Searching, Collecting, Answered
<1>. QED
  BY <1>1, <1>2

(* A search begins with the whole index, and there is nothing to find in   *)
(* an empty one.                                                           *)
LEMMA StartSearchInv ==
    ASSUME LookupInv, NEW t \in Threads, pc[t] \in {"memo", "create"},
           NEW m, IndexOf(mappings, m, query[t].side), StartSearch(t, m),
           UNCHANGED <<mappings, query, phase, seeking, starts, ranges>>
    PROVE  \A u \in Threads : ThreadInv(u)'
<1>. SUFFICES ASSUME NEW u \in Threads PROVE ThreadInv(u)'
  OBVIOUS
<1>1. CASE u # t
  BY <1>1, Unmoved DEF LookupInv, PerThread, StartSearch, Goto
<1>2. CASE u = t
  <2>. DEFINE side == query[t].side
  <2>1. /\ query[t] \in Queries /\ side \in Sides /\ Seeks(t)
    BY SeekingOffset DEF LookupInv
  <2>2. /\ seen'[t] = m /\ low'[t] = 0 /\ high'[t] = m.n - 1 /\ m.n \in Nat
        /\ pc'[t] = IF m.n = 0 THEN "collect" ELSE "search"
    BY DEF StartSearch, Goto, LookupInv, PerThread, IndexOf
  <2>3. Asked(t)' /\ Seeking(t)' /\ Answered(t)'
    BY <2>1, <2>2 DEF Asked, Seeking, Seeks, Answered
  <2>4. IndexOf(mappings, seen[t], query[t].side)'
    BY <2>2
  <2>5. Searching(t)'
    BY <2>2, <2>4 DEF Searching
  <2>6. ASSUME m.n = 0, NEW k \in DOMAIN mappings PROVE FALSE
    <3>1. Start(mappings[k], side) \in Boundaries(mappings, side)
      BY DEF Boundaries
    <3>. QED
      BY <2>6, <3>1 DEF IndexOf
  <2>7. Collecting(t)'
    BY <2>2, <2>4, <2>6 DEF Collecting
  <2>. QED
    BY <1>2, <2>3, <2>5, <2>7 DEF ThreadInv
<1>. QED
  BY <1>1, <1>2

LEMMA GetMemoInv ==
    ASSUME LookupInv, NEW t \in Threads, GetMemo(t)
    PROVE  \A u \in Threads : ThreadInv(u)'
<1>. DEFINE m == memo[query[t].side]
<1>1. pc[t] = "memo" /\ query[t].side \in Sides
  BY SeekingOffset DEF GetMemo, LookupInv
<1>2. CASE m # Unset /\ StartSearch(t, m)
  <2>1. IndexOf(mappings, m, query[t].side)
    BY <1>1, <1>2 DEF LookupInv, MemosRight
  <2>. QED
    BY <1>1, <1>2, <2>1, StartSearchInv DEF GetMemo
<1>3. CASE Goto(t, "create") /\ UNCHANGED <<seen, low, high>>
  <2>. SUFFICES ASSUME NEW u \in Threads PROVE ThreadInv(u)'
    OBVIOUS
  <2>1. CASE u # t
    BY <1>3, <2>1, Unmoved DEF LookupInv, PerThread, GetMemo, Goto
  <2>2. CASE u = t
    <3>1. pc'[t] = "create" /\ Asked(t) /\ Seeks(t)
      BY <1>1, <1>3 DEF Goto, LookupInv, PerThread, ThreadInv, Seeking
    <3>. QED
      BY <1>1, <2>2, <3>1 DEF GetMemo, ThreadInv, Asked, Seeking, Seeks, Searching, Collecting, Answered
  <2>. QED
    BY <2>1, <2>2
<1>. QED
  BY <1>2, <1>3 DEF GetMemo

(* The index that is built replaces what another goroutine may have built, *)
(* which is the same.                                                      *)
LEMMA CreateMemoInv ==
    ASSUME LookupInv, NEW t \in Threads, CreateMemo(t)
    PROVE  (\A u \in Threads : ThreadInv(u)') /\ MemosRight'
<1>. DEFINE side == query[t].side
<1>1. pc[t] = "create" /\ side \in Sides /\ mappings \in MappingList
  BY SeekingOffset DEF CreateMemo, LookupInv, ImportTyped
<1>2. PICK s \in SortedOf(Boundaries(mappings, side)) :
         LET m == [n |-> Cardinality(Boundaries(mappings, side)), offsets |-> s,
                   at |-> [i \in DOMAIN s |-> Bucket(mappings, side, s[i])]]
         IN  memo' = [memo EXCEPT ![side] = m] /\ StartSearch(t, m)
  BY DEF CreateMemo
<1>. DEFINE m == [n |-> Cardinality(Boundaries(mappings, side)), offsets |-> s,
                  at |-> [i \in DOMAIN s |-> Bucket(mappings, side, s[i])]]
<1>3. IndexOf(mappings, m, side)
  BY <1>1, CreatedIndex
<1>4. \A u \in Threads : ThreadInv(u)'
  <2>. HIDE DEF m
  <2>1. StartSearch(t, m)
    BY <1>2 DEF m
  <2>. QED
    BY <1>1, <1>3, <2>1, StartSearchInv DEF CreateMemo
<1>5. MemosRight'
  <2>. HIDE DEF m
  <2>1. memo' = [memo EXCEPT ![side] = m] /\ mappings' = mappings
    BY <1>2 DEF m, CreateMemo
  <2>. QED
    BY <1>3, <2>1 DEF MemosRight, LookupInv
<1>. QED
  BY <1>4, <1>5

(* A turn of the bisection leaves out offsets on the wrong side only.      *)
LEMMA SearchStepInv ==
    ASSUME LookupInv, NEW t \in Threads, SearchStep(t)
    PROVE  \A u \in Threads : ThreadInv(u)'
<1>. SUFFICES ASSUME NEW u \in Threads PROVE ThreadInv(u)'
  OBVIOUS
<1>1. CASE u # t
  BY <1>1, Unmoved DEF LookupInv, PerThread, SearchStep, Goto
<1>2. CASE u = t
  <2>. DEFINE side == query[t].side
              m == seen[t]
              mid == (low[t] + high[t]) \div 2
  <2>1. /\ pc[t] = "search" /\ low[t] <= high[t] /\ ThreadInv(t)
        /\ query[t] \in Queries /\ side \in Sides /\ seeking[t] \in Nat /\ Seeks(t)
    BY SeekingOffset DEF SearchStep, LookupInv
  <2>2. /\ IndexOf(mappings, m, side) /\ low[t] \in Int /\ high[t] \in Int
        /\ 0 <= low[t] /\ high[t] < m.n /\ m.n > 0 /\ m.n \in Nat
        /\ \A i \in 0..(m.n - 1) : i < low[t] => m.offsets[i] < seeking[t]
        /\ \A i \in 0..(m.n - 1) : i > high[t] => m.offsets[i] > seeking[t]
    BY <2>1 DEF ThreadInv, Searching, IndexOf
  <2>3. mid \in Int /\ low[t] <= mid /\ mid <= high[t] /\ mid \in 0..(m.n - 1)
    BY <2>1, <2>2
  <2>4. \A i \in 0..(m.n - 1) : m.offsets[i] \in Nat
    BY <2>1, <2>2, BoundariesFinite DEF IndexOf, LookupInv, ImportTyped
  <2>5. \A i, j \in 0..(m.n - 1) : i < j => m.offsets[i] < m.offsets[j]
    BY <2>2 DEF IndexOf
  <2>6. /\ seen' = seen /\ query' = query /\ seeking' = seeking /\ mappings' = mappings
        /\ phase' = phase /\ starts' = starts /\ ranges' = ranges
    BY DEF SearchStep
  <2>7. IndexOf(mappings, seen[t], query[t].side)'
    BY <2>2, <2>6
  <2>8. CASE /\ m.offsets[mid] < seeking[t]
             /\ low' = [low EXCEPT ![t] = Above(mid)]
             /\ UNCHANGED <<high, pc>>
    <3>1. low'[t] = mid + 1
      BY <2>8 DEF Above, LookupInv, PerThread
    <3>2. \A i \in 0..(m.n - 1) : i < mid + 1 => m.offsets[i] < seeking[t]
      BY <2>1, <2>3, <2>4, <2>5, <2>8
    <3>3. Searching(t)'
      BY <2>2, <2>3, <2>6, <2>7, <2>8, <3>1, <3>2 DEF Searching
    <3>. QED
      BY <1>2, <2>1, <2>6, <2>8, <3>3
         DEF ThreadInv, Asked, Seeking, Seeks, Collecting, Answered
  <2>9. CASE /\ m.offsets[mid] > seeking[t]
             /\ high' = [high EXCEPT ![t] = mid - 1]
             /\ UNCHANGED <<low, pc>>
    <3>1. high'[t] = mid - 1
      BY <2>9 DEF LookupInv, PerThread
    <3>2. \A i \in 0..(m.n - 1) : i > mid - 1 => m.offsets[i] > seeking[t]
      BY <2>1, <2>3, <2>4, <2>5, <2>9
    <3>3. Searching(t)'
      BY <2>2, <2>3, <2>6, <2>7, <2>9, <3>1, <3>2 DEF Searching
    <3>. QED
      BY <1>2, <2>1, <2>6, <2>9, <3>3
         DEF ThreadInv, Asked, Seeking, Seeks, Collecting, Answered
  <2>10. CASE /\ m.offsets[mid] = seeking[t]
              /\ low' = [low EXCEPT ![t] = mid]
              /\ high' = [high EXCEPT ![t] = mid]
              /\ Goto(t, "collect")
    <3>1. low'[t] = mid /\ high'[t] = mid /\ pc'[t] = "collect"
      BY <2>10 DEF Goto, LookupInv, PerThread
    <3>2. \A k \in DOMAIN mappings : Covers(mappings[k], side, seeking[t]) => k \in m.at[mid]
      BY <2>1, <2>2, <2>3, <2>10, FoundExactly
    <3>3. Collecting(t)'
      BY <2>3, <2>6, <2>7, <3>1, <3>2 DEF Collecting
    <3>. QED
      BY <1>2, <2>1, <2>6, <3>1, <3>3
         DEF ThreadInv, Asked, Seeking, Seeks, Searching, Answered
  <2>. QED
    BY <2>8, <2>9, <2>10 DEF SearchStep
<1>. QED
  BY <1>1, <1>2

(* Where the bisection ends without the offset, the buckets around it      *)
(* are taken.                                                              *)
LEMMA SearchEndInv ==
    ASSUME LookupInv, NEW t \in Threads, SearchEnd(t)
    PROVE  \A u \in Threads : ThreadInv(u)'
<1>. SUFFICES ASSUME NEW u \in Threads PROVE ThreadInv(u)'
  OBVIOUS
<1>1. CASE u # t
  BY <1>1, Unmoved DEF LookupInv, PerThread, SearchEnd, Goto
<1>2. CASE u = t
  <2>. DEFINE side == query[t].side
              m == seen[t]
              h == high[t]
  <2>1. /\ pc[t] = "search" /\ low[t] > h /\ ThreadInv(t)
        /\ query[t] \in Queries /\ side \in Sides /\ seeking[t] \in Nat /\ Seeks(t)
    BY SeekingOffset DEF SearchEnd, LookupInv
  <2>2. /\ IndexOf(mappings, m, side) /\ h \in Int /\ low[t] = h + 1
        /\ -1 <= h /\ h < m.n /\ m.n > 0 /\ m.n \in Nat
        /\ \A i \in 0..(m.n - 1) : i < h + 1 => m.offsets[i] < seeking[t]
        /\ \A i \in 0..(m.n - 1) : i > h => m.offsets[i] > seeking[t]
    BY <2>1 DEF ThreadInv, Searching, IndexOf
  <2>3. /\ seen' = seen /\ query' = query /\ seeking' = seeking /\ mappings' = mappings
        /\ phase' = phase /\ starts' = starts /\ ranges' = ranges /\ pc'[t] = "collect"
    BY DEF SearchEnd, Goto, LookupInv, PerThread
  <2>4. /\ low'[t] = Greater(Lesser(Lesser(low[t], h), m.n - 1), 0)
        /\ high'[t] = Lesser(Greater(Greater(low[t], h), 0), m.n - 1)
    BY DEF SearchEnd, LookupInv, PerThread
  <2>5. /\ low'[t] = Greater(h, 0) /\ high'[t] = Lesser(h + 1, m.n - 1)
        /\ low'[t] \in 0..(m.n - 1) /\ high'[t] \in 0..(m.n - 1)
    BY <2>2, <2>4 DEF Greater, Lesser
  <2>6. ASSUME NEW k \in DOMAIN mappings, Covers(mappings[k], side, seeking[t])
        PROVE  \E i \in low'[t]..high'[t] : k \in m.at[i]
    <3>1. h >= 0 /\ k \in m.at[h]
      BY <2>1, <2>2, <2>6, FoundBetween DEF LookupInv, ImportTyped
    <3>2. h \in low'[t]..high'[t]
      BY <2>2, <2>5, <3>1 DEF Greater, Lesser
    <3>. QED
      BY <3>1, <3>2
  <2>7. IndexOf(mappings, seen[t], query[t].side)'
    BY <2>2, <2>3
  <2>8. Collecting(t)'
    BY <2>2, <2>3, <2>5, <2>6, <2>7 DEF Collecting
  <2>. QED
    BY <1>2, <2>1, <2>3, <2>8 DEF ThreadInv, Asked, Seeking, Seeks, Searching, Answered
<1>. QED
  BY <1>1, <1>2

(* The mappings the buckets lead to are those that cover the offset.       *)
LEMMA FoundLocations ==
    ASSUME NEW t \in Threads, ThreadInv(t), pc[t] = "collect"
    PROVE  Found(t) = Locations(mappings, query[t].side, seeking[t])
<1>. DEFINE side == query[t].side
            candidates == UNION {seen[t].at[i] : i \in low[t]..high[t]}
<1>1. /\ IndexOf(mappings, seen[t], side)
      /\ low[t]..high[t] \subseteq 0..(seen[t].n - 1)
      /\ \A k \in DOMAIN mappings :
            Covers(mappings[k], side, seeking[t]) => \E i \in low[t]..high[t] : k \in seen[t].at[i]
  BY DEF ThreadInv, Collecting
<1>2. candidates \subseteq DOMAIN mappings
  BY <1>1 DEF IndexOf, Bucket
<1>3. {k \in candidates : Covers(mappings[k], side, seeking[t])}
        = {k \in DOMAIN mappings : Covers(mappings[k], side, seeking[t])}
  BY <1>1, <1>2
<1>. QED
  BY <1>3 DEF Found, Locations

(* A range one mapping covers is in order behind it, too. *)
LEMMA DirectInOrder ==
    ASSUME NEW ms \in MappingList, NEW side \in Sides, NEW a \in Nat, NEW b \in Nat, a <= b,
           NEW r \in DirectRanges(ms, side, Locations(ms, side, a), b)
    PROVE  r.pos <= r.end
<1>1. PICK h \in Locations(ms, side, a) : r = [pos |-> h.offset, end |-> Translate(ms[h.by], side, b)]
  BY DEF DirectRanges
<1>2. PICK i \in DOMAIN ms : h = Hit(ms, side, a, i)
  BY DEF Locations
<1>3. r.pos = Translate(ms[i], side, a) /\ r.end = Translate(ms[i], side, b)
  BY <1>1, <1>2 DEF Hit
<1>. QED
  BY <1>3, TranslateMonotone

(* The start is found; the range is answered, or its end looked for. *)
LEMMA CollectStartsInv ==
    ASSUME LookupInv, NEW t \in Threads, CollectStarts(t)
    PROVE  \A u \in Threads : ThreadInv(u)'
<1>. SUFFICES ASSUME NEW u \in Threads PROVE ThreadInv(u)'
  OBVIOUS
<1>1. CASE u # t
  BY <1>1, Unmoved DEF LookupInv, PerThread, CollectStarts, Goto
<1>2. CASE u = t
  <2>. DEFINE q == query[t]
              direct == DirectRanges(mappings, q.side, Found(t), q.end)
  <2>1. /\ pc[t] = "collect" /\ phase[t] = "start" /\ ThreadInv(t) /\ mappings \in MappingList
        /\ q \in Queries /\ q.side \in Sides /\ Seeks(t)
    BY SeekingOffset DEF CollectStarts, LookupInv, ImportTyped
  <2>2. /\ q.pos \in Nat /\ q.end \in Nat /\ seeking[t] = q.pos
        /\ q.kind = "range" => q.pos <= q.end
    BY <2>1, QueryOffsets DEF Seeks
  <2>3. Found(t) = Locations(mappings, q.side, q.pos)
    BY <2>1, <2>2, FoundLocations
  <2>4. starts'[t] = Found(t) /\ query' = query /\ mappings' = mappings
    BY DEF CollectStarts, LookupInv, PerThread
  <2>5. CASE q.kind = "location" /\ Goto(t, "done") /\ UNCHANGED <<ranges, seeking, phase>>
    <3>1. pc'[t] = "done"
      BY <2>5 DEF Goto, LookupInv, PerThread
    <3>. QED
      BY <1>2, <2>1, <2>3, <2>4, <2>5, <3>1
         DEF ThreadInv, Asked, Seeking, Searching, Collecting, Answered
  <2>6. CASE /\ q.kind = "range" /\ (direct # {} \/ ~q.fallback)
             /\ ranges' = [ranges EXCEPT ![t] = direct]
             /\ Goto(t, "done") /\ UNCHANGED <<seeking, phase>>
    <3>1. pc'[t] = "done" /\ ranges'[t] = direct
      BY <2>6 DEF Goto, LookupInv, PerThread
    <3>2. \A r \in direct : r.pos <= r.end
      BY <2>1, <2>2, <2>3, <2>6, DirectInOrder
    <3>3. q.fallback => direct = Ranges(mappings, q.side, q)
      BY <2>3, <2>6 DEF Ranges
    <3>. QED
      BY <1>2, <2>1, <2>3, <2>4, <3>1, <3>2, <3>3
         DEF ThreadInv, Asked, Seeking, Searching, Collecting, Answered
  <2>7. CASE /\ q.kind = "range" /\ direct = {} /\ q.fallback
             /\ seeking' = [seeking EXCEPT ![t] = q.end]
             /\ phase' = [phase EXCEPT ![t] = "end"]
             /\ Goto(t, "memo") /\ UNCHANGED ranges
    <3>1. pc'[t] = "memo" /\ seeking'[t] = q.end /\ phase'[t] = "end"
      BY <2>7 DEF Goto, LookupInv, PerThread
    <3>2. Seeks(t)'
      BY <2>3, <2>4, <2>7, <3>1 DEF Seeks
    <3>. QED
      BY <1>2, <2>1, <2>4, <3>1, <3>2
         DEF ThreadInv, Asked, Seeking, Searching, Collecting, Answered
  <2>. QED
    BY <2>5, <2>6, <2>7 DEF CollectStarts
<1>. QED
  BY <1>1, <1>2

LEMMA CollectEndsInv ==
    ASSUME LookupInv, NEW t \in Threads, CollectEnds(t)
    PROVE  \A u \in Threads : ThreadInv(u)'
<1>. SUFFICES ASSUME NEW u \in Threads PROVE ThreadInv(u)'
  OBVIOUS
<1>1. CASE u # t
  BY <1>1, Unmoved DEF LookupInv, PerThread, CollectEnds, Goto
<1>2. CASE u = t
  <2>. DEFINE q == query[t]
  <2>1. /\ pc[t] = "collect" /\ phase[t] = "end" /\ ThreadInv(t) /\ q \in Queries /\ Seeks(t)
    BY SeekingOffset DEF CollectEnds, LookupInv
  <2>2. /\ seeking[t] = q.end /\ q.kind = "range"
        /\ starts[t] = Locations(mappings, q.side, q.pos)
        /\ DirectRanges(mappings, q.side, starts[t], q.end) = {}
    BY <2>1 DEF Seeks
  <2>3. /\ pc'[t] = "done" /\ ranges'[t] = FallbackRanges(starts[t], Found(t))
        /\ query' = query /\ mappings' = mappings /\ starts' = starts
    BY DEF CollectEnds, Goto, LookupInv, PerThread
  <2>4. ranges'[t] = Ranges(mappings, q.side, q)
    BY <2>1, <2>2, <2>3, FoundLocations DEF Ranges
  <2>5. \A r \in ranges'[t] : r.pos <= r.end
    BY <2>3 DEF FallbackRanges
  <2>. QED
    BY <1>2, <2>1, <2>2, <2>3, <2>4, <2>5
       DEF ThreadInv, Asked, Seeking, Searching, Collecting, Answered
<1>. QED
  BY <1>1, <1>2

LEMMA ReturnInv ==
    ASSUME LookupInv, NEW t \in Threads, Return(t)
    PROVE  \A u \in Threads : ThreadInv(u)'
<1>. SUFFICES ASSUME NEW u \in Threads PROVE ThreadInv(u)'
  OBVIOUS
<1>1. CASE u # t
  BY <1>1, Unmoved DEF LookupInv, PerThread, Return, Goto
<1>2. CASE u = t
  <2>1. pc'[t] = "idle" /\ phase'[t] = "start"
    BY DEF Return, Goto, LookupInv, PerThread
  <2>. QED
    BY <1>2, <2>1 DEF ThreadInv, Asked, Seeking, Searching, Collecting, Answered
<1>. QED
  BY <1>1, <1>2

(* No step of a lookup breaks the invariant. *)
LEMMA LookupStepInv ==
    ASSUME LookupInv, NEW t \in Threads, Ask(t) \/ ThreadStep(t), UNCHANGED importVars,
           importing \in {"given", "over"}
    PROVE  LookupInv'
<1>1. mappings' = mappings
  BY DEF Ask, ThreadStep, GetMemo, CreateMemo, SearchStep, SearchEnd, CollectStarts, CollectEnds, Return
<1>2. ImportTyped'
  BY <1>1 DEF LookupInv, ImportTyped, importVars
<1>3. PerThread'
  BY DEF LookupInv, PerThread, Ask, ThreadStep, GetMemo, CreateMemo, StartSearch, SearchStep,
         SearchEnd, CollectStarts, CollectEnds, Return, Goto
<1>4. CASE CreateMemo(t)
  BY <1>2, <1>3, <1>4, CreateMemoInv DEF LookupInv
<1>5. CASE ~CreateMemo(t)
  <2>1. memo' = memo
    BY <1>5 DEF Ask, ThreadStep, GetMemo, SearchStep, SearchEnd, CollectStarts, CollectEnds, Return
  <2>2. MemosRight'
    BY <1>1, <2>1 DEF LookupInv, MemosRight
  <2>3. \A u \in Threads : ThreadInv(u)'
    BY <1>5, AskInv, GetMemoInv, SearchStepInv, SearchEndInv, CollectStartsInv, CollectEndsInv, ReturnInv
       DEF ThreadStep
  <2>. QED
    BY <1>2, <1>3, <2>2, <2>3 DEF LookupInv
<1>. QED
  BY <1>4, <1>5

-----------------------------------------------------------------------------
(* Theorems. *)

LEMMA LookupInvariant == MapSpec => []LookupInv
<1>1. MapInit => LookupInv
  <2>. SUFFICES ASSUME MapInit PROVE LookupInv
    OBVIOUS
  <2>1. mappings \in MappingList
    <3>1. mappings \in MappingLists \/ mappings = <<>>
      BY DEF MapInit
    <3>2. <<>> \in MappingList
      BY DEF MappingList
    <3>3. MappingLists \subseteq MappingList
      BY MappingListsAssumption DEF MappingList
    <3>. QED
      BY <3>1, <3>2, <3>3
  <2>2. NothingAsked
    BY DEF MapInit
  <2>3. current = None /\ imported = <<>>
    BY DEF MapInit, ImportStart
  <2>4. ImportTyped
    BY <2>1, <2>2, <2>3 DEF ImportTyped, MappingList
  <2>. QED
    BY <2>2, <2>4, NothingAskedInv DEF LookupInv
<1>2. LookupInv /\ [MapNext]_allVars => LookupInv'
  <2>. SUFFICES ASSUME LookupInv, [MapNext]_allVars PROVE LookupInv'
    OBVIOUS
  <2>1. CASE ImportStep /\ UNCHANGED vars
    BY <2>1, ImportInv
  <2>2. CASE NewSourceMap
    BY <2>2, NewSourceMapInv
  <2>3. CASE importing \in {"given", "over"} /\ Next /\ UNCHANGED importVars
    BY <2>3, LookupStepInv DEF Next
  <2>4. CASE UNCHANGED allVars
    <3>1. UNCHANGED vars /\ UNCHANGED importVars
      BY <2>4 DEF allVars
    <3>2. ImportTyped' /\ MemosRight' /\ PerThread'
      BY <3>1 DEF vars, importVars, LookupInv, ImportTyped, NothingAsked, MemosRight, PerThread
    <3>3. \A u \in Threads : ThreadInv(u)'
      BY <3>1, Unmoved DEF vars, LookupInv
    <3>. QED
      BY <3>2, <3>3 DEF LookupInv
  <2>. QED
    BY <2>1, <2>2, <2>3, <2>4 DEF MapNext
<1>. QED
  BY <1>1, <1>2, PTL DEF MapSpec

(* The bisection stays within the index and closes in on the offset, for   *)
(* any mappings (BinarySearch).                                            *)
THEOREM BisectionStaysInBounds == MapSpec => []SearchInBounds
<1>1. LookupInv => SearchInBounds
  <2>. SUFFICES ASSUME LookupInv, NEW t \in Threads, pc[t] = "search"
                PROVE  /\ 0 <= low[t] /\ low[t] <= high[t] + 1 /\ high[t] < seen[t].n
                       /\ \A i \in DOMAIN seen[t].offsets :
                             /\ i < low[t] => seen[t].offsets[i] < seeking[t]
                             /\ i > high[t] => seen[t].offsets[i] > seeking[t]
    BY DEF SearchInBounds
  <2>1. ThreadInv(t)
    BY DEF LookupInv
  <2>. QED
    BY <2>1 DEF ThreadInv, Searching, IndexOf
<1>. QED
  BY <1>1, LookupInvariant, PTL

(* A lookup finds every mapping that covers the offset, for any mappings,  *)
(* given or imported, and goroutines (findMatchingOffsets).                *)
THEOREM LookupsAreExact == MapSpec => []LocationsExact
<1>1. LookupInv => LocationsExact
  BY DEF LookupInv, ThreadInv, Answered, LocationsExact
<1>. QED
  BY <1>1, LookupInvariant, PTL

(* A range lookup gives what the mappings say, never an end before its     *)
(* start (findMatchingStartEnd).                                           *)
THEOREM RangeLookupsAreExact == MapSpec => []RangesExact
<1>1. LookupInv => RangesExact
  BY DEF LookupInv, ThreadInv, Answered, RangesExact
<1>. QED
  BY <1>1, LookupInvariant, PTL

(* What a mapping of equal lengths leads to leads back through it. *)
LEMMA TranslateBack ==
    ASSUME NEW ms \in MappingList, NEW i \in DOMAIN ms, NEW side \in Sides, NEW a \in Nat,
           Covers(ms[i], side, a), Length(ms[i], "source") = Length(ms[i], "service")
    PROVE  LET b == Translate(ms[i], side, a)
           IN  Covers(ms[i], Other(side), b) /\ Translate(ms[i], Other(side), b) = a
<1>. DEFINE back == Other(side)
            b == Translate(ms[i], side, a)
<1>1. back \in Sides /\ Other(back) = side /\ Length(ms[i], side) = Length(ms[i], back)
  BY DEF Sides, Other
<1>2. /\ Start(ms[i], side) \in Nat /\ Start(ms[i], back) \in Nat
      /\ Length(ms[i], side) \in Nat /\ Length(ms[i], back) \in Nat
  BY <1>1, MappingEnds
<1>3. Start(ms[i], side) <= a /\ a <= Start(ms[i], side) + Length(ms[i], side)
  BY DEF Covers, End
<1>4. b = Start(ms[i], back) + (a - Start(ms[i], side))
  BY <1>1, <1>2, <1>3 DEF Translate, Lesser
<1>5. Covers(ms[i], back, b)
  BY <1>1, <1>2, <1>3, <1>4 DEF Covers, End
<1>6. Translate(ms[i], back, b) = a
  BY <1>1, <1>2, <1>3, <1>4 DEF Translate, Lesser
<1>. QED
  BY <1>5, <1>6

(* A position that is found and sent back is found again, for any mappings *)
(* (positionToService, positionFromService).                               *)
THEOREM LookupsComeBack == MapSpec => []LocationsComeBack
<1>1. LookupInv => LocationsComeBack
  <2>. SUFFICES ASSUME LookupInv, NEW t \in Threads, pc[t] = "done", NEW h \in starts[t],
                       Length(mappings[h.by], "source") = Length(mappings[h.by], "service")
                PROVE  [offset |-> query[t].pos, by |-> h.by]
                           \in Locations(mappings, Other(query[t].side), h.offset)
    BY DEF LocationsComeBack
  <2>. DEFINE side == query[t].side
              a == query[t].pos
  <2>1. /\ starts[t] = Locations(mappings, side, a) /\ mappings \in MappingList
        /\ side \in Sides /\ a \in Nat
    BY QueryOffsets DEF LookupInv, ImportTyped, ThreadInv, Asked, Answered
  <2>2. PICK i \in DOMAIN mappings : Covers(mappings[i], side, a) /\ h = Hit(mappings, side, a, i)
    BY <2>1 DEF Locations
  <2>3. h.by = i /\ h.offset = Translate(mappings[i], side, a)
    BY <2>2 DEF Hit
  <2>4. /\ Covers(mappings[i], Other(side), h.offset)
        /\ Translate(mappings[i], Other(side), h.offset) = a
    BY <2>1, <2>2, <2>3, TranslateBack
  <2>. QED
    BY <2>3, <2>4 DEF Locations, Hit
<1>. QED
  BY <1>1, LookupInvariant, PTL

-----------------------------------------------------------------------------
(* Imported mappings relate equal texts. *)

SameTexts(ms) ==
    \A i \in DOMAIN ms :
        /\ ms[i].serviceLen = 0
        /\ \A k \in 1..ms[i].sourceLen :
              SourceText[ms[i].source + k] = ServiceText[ms[i].service + k]

ImportedSame == SameTexts(imported) /\ (importing = "over" => SameTexts(mappings))

(* What is the same is so up to any shorter length. *)
LEMMA SameShorter ==
    ASSUME NEW source \in Nat, NEW service \in Nat, NEW j \in Nat, NEW c \in Nat,
           c <= j, Same(source, service, j)
    PROVE  Same(source, service, c)
<1>1. Len(SourceText) \in Nat /\ Len(ServiceText) \in Nat
  BY SegmentsAssumption
<1>2. source + c <= Len(SourceText) /\ service + c <= Len(ServiceText)
  BY <1>1 DEF Same
<1>3. \A k \in 1..c : k \in 1..j
  OBVIOUS
<1>. QED
  BY <1>2, <1>3 DEF Same

(* The lengths that are the same begin with one and have no gap, so that   *)
(* as many as there are is one of them.                                    *)
LEMMA SameLengthSame ==
    ASSUME NEW source \in Nat, NEW service \in Nat, NEW n \in Int,
           NEW k \in 1..SameLength(source, service, n)
    PROVE  SourceText[source + k] = ServiceText[service + k]
<1>. DEFINE K == {j \in 1..n : Same(source, service, j)}
            c == SameLength(source, service, n)
<1>1. c = Cardinality(K) /\ c \in Nat /\ c > 0
  BY SameLengthType DEF SameLength
<1>2. SUFFICES c \in K
  BY <1>1 DEF Same
<1>3. SUFFICES ASSUME c \notin K PROVE FALSE
  OBVIOUS
<1>4. ASSUME NEW j \in K PROVE j < c
  <2>1. SUFFICES ASSUME c < j PROVE FALSE
    BY <1>1, <1>3, <1>4
  <2>2. Same(source, service, j) /\ j \in 1..n
    BY <1>4
  <2>3. Same(source, service, c)
    BY <1>1, <2>1, <2>2, SameShorter
  <2>. QED
    BY <1>1, <1>3, <2>1, <2>2, <2>3
<1>5. K \subseteq 1..(c - 1)
  BY <1>1, <1>4
<1>6. IsFiniteSet(1..(c - 1)) /\ Cardinality(1..(c - 1)) = c - 1
  <2>1. c - 1 \in Int /\ 1 \in Int
    BY <1>1
  <2>2. /\ IsFiniteSet(1..(c - 1))
        /\ Cardinality(1..(c - 1)) = IF 1 > c - 1 THEN 0 ELSE (c - 1) - 1 + 1
    BY <2>1, FS_Interval
  <2>. QED
    BY <1>1, <2>2
<1>7. Cardinality(K) <= c - 1
  BY <1>5, <1>6, FS_Subset
<1>. QED
  BY <1>1, <1>7

(* A piece added to the last mapping is what the text goes on with. *)
LEMMA WithPieceSame ==
    ASSUME imported \in MappingList, SameTexts(imported),
           current = None \/ current \in [gen : Nat, source : Nat], NEW gen \in Nat
    PROVE  SameTexts(WithPiece(gen))
<1>. DEFINE n == SameLength(current.source, current.gen, gen - current.gen)
            last == Len(imported)
<1>1. CASE current = None
  BY <1>1 DEF WithPiece
<1>2. CASE current # None
  <2>1. current.gen \in Nat /\ current.source \in Nat /\ gen - current.gen \in Int
    BY <1>2
  <2>2. n \in Nat
    BY <2>1, SameLengthType
  <2>3. \A k \in 1..n : SourceText[current.source + k] = ServiceText[current.gen + k]
    BY <2>1, SameLengthSame
  <2>4. CASE n = 0
    BY <1>2, <2>4 DEF WithPiece
  <2>5. CASE n # 0 /\ Continues(current)
    <3>. DEFINE grown == [imported EXCEPT ![last].sourceLen = @ + n]
    <3>1. /\ last \in DOMAIN imported
          /\ imported[last].service + imported[last].sourceLen = current.gen
          /\ imported[last].source + imported[last].sourceLen = current.source
      BY <2>5 DEF Continues, MappingList
    <3>2. imported[last] \in Mapping(Nat, Nat)
      BY <3>1 DEF MappingList
    <3>3. /\ imported[last].source \in Nat /\ imported[last].service \in Nat
          /\ imported[last].sourceLen \in Nat
      BY <3>2 DEF Mapping
    <3>4. /\ grown[last].source = imported[last].source
          /\ grown[last].service = imported[last].service
          /\ grown[last].serviceLen = imported[last].serviceLen
          /\ grown[last].sourceLen = imported[last].sourceLen + n
      BY <3>1, <3>2 DEF Mapping
    <3>5. ASSUME NEW k \in 1..grown[last].sourceLen
          PROVE  SourceText[grown[last].source + k] = ServiceText[grown[last].service + k]
      <4>1. CASE k <= imported[last].sourceLen
        BY <3>1, <3>3, <3>4, <4>1, <2>2 DEF SameTexts
      <4>2. CASE k > imported[last].sourceLen
        <5>. DEFINE j == k - imported[last].sourceLen
        <5>1. /\ j \in 1..n
              /\ grown[last].source + k = current.source + j
              /\ grown[last].service + k = current.gen + j
          BY <2>2, <3>1, <3>3, <3>4, <4>2, SMTT(30)
        <5>. QED
          BY <2>3, <5>1
      <4>. QED
        BY <2>2, <3>3, <3>4, <4>1, <4>2
    <3>6. ASSUME NEW i \in DOMAIN imported, i # last PROVE grown[i] = imported[i]
      BY <3>6
    <3>7. DOMAIN grown = DOMAIN imported
      OBVIOUS
    <3>8. SameTexts(grown)
      <4>. HIDE DEF grown
      <4>. QED
        BY <3>1, <3>4, <3>5, <3>6, <3>7 DEF SameTexts
    <3>. QED
      BY <1>2, <2>5, <3>8 DEF WithPiece
  <2>6. CASE n # 0 /\ ~Continues(current)
    <3>. DEFINE longer == Append(imported, Piece(current, n))
    <3>1. /\ DOMAIN longer = 1..(last + 1) /\ DOMAIN imported = 1..last /\ last \in Nat
          /\ \A i \in 1..last : longer[i] = imported[i]
          /\ longer[last + 1] = Piece(current, n)
      BY DEF MappingList
    <3>2. SameTexts(longer)
      <4>. HIDE DEF longer
      <4>. QED
        BY <2>3, <3>1 DEF SameTexts, Piece
    <3>. QED
      BY <1>2, <2>6, <3>2 DEF WithPiece
  <2>. QED
    BY <2>4, <2>5, <2>6
<1>. QED
  BY <1>1, <1>2

LEMMA ImportedSameInvariant == MapSpec => []ImportedSame
<1>1. MapInit => ImportedSame
  BY DEF MapInit, ImportStart, ImportedSame, SameTexts
<1>2. LookupInv /\ ImportedSame /\ [MapNext]_allVars => ImportedSame'
  <2>. SUFFICES ASSUME LookupInv, ImportedSame, [MapNext]_allVars PROVE ImportedSame'
    OBVIOUS
  <2>1. CASE ImportStep
    <3>1. importing = "open" /\ importing' # "over"
      BY <2>1 DEF ImportStep, EndOfSegments, DecodeSegment
    <3>2. ASSUME NEW s \in Segments, DecodeSegment(s) PROVE SameTexts(imported')
      <4>1. s.gen \in Nat
        BY SegmentsAssumption DEF Segments
      <4>. QED
        BY <3>2, <4>1, WithPieceSame DEF DecodeSegment, LookupInv, ImportTyped, ImportedSame
    <3>3. ASSUME EndOfSegments PROVE SameTexts(imported')
      BY <3>3 DEF EndOfSegments, ImportedSame
    <3>. QED
      BY <2>1, <3>1, <3>2, <3>3 DEF ImportStep, ImportedSame
  <2>2. CASE NewSourceMap
    BY <2>2 DEF NewSourceMap, ImportedSame, SameTexts
  <2>3. CASE importing \in {"given", "over"} /\ Next /\ UNCHANGED importVars
    <3>1. mappings' = mappings
      BY <2>3 DEF Next, Ask, ThreadStep, GetMemo, CreateMemo, SearchStep, SearchEnd,
                  CollectStarts, CollectEnds, Return
    <3>. QED
      BY <2>3, <3>1 DEF importVars, ImportedSame
  <2>4. CASE UNCHANGED allVars
    BY <2>4 DEF allVars, vars, importVars, ImportedSame
  <2>. QED
    BY <2>1, <2>2, <2>3, <2>4 DEF MapNext
<1>. QED
  BY <1>1, <1>2, LookupInvariant, PTL DEF MapSpec

(* What is looked up in an imported map is the same text on both sides,    *)
(* for any texts and segments (sourceMapToMapping, findMatchingOffsets).   *)
THEOREM LookupsKeepText == MapSpec => []LookupSameText
<1>1. LookupInv /\ ImportedSame => LookupSameText
  <2>. SUFFICES ASSUME LookupInv, ImportedSame, importing = "over",
                       NEW t \in Threads, pc[t] = "done", NEW h \in starts[t],
                       query[t].pos < End(mappings[h.by], query[t].side)
                PROVE  Text(query[t].side)[query[t].pos + 1]
                         = Text(Other(query[t].side))[h.offset + 1]
    BY DEF LookupSameText
  <2>. DEFINE side == query[t].side
              a == query[t].pos
  <2>1. /\ starts[t] = Locations(mappings, side, a) /\ mappings \in MappingList
        /\ side \in Sides /\ a \in Nat
    BY QueryOffsets DEF LookupInv, ImportTyped, ThreadInv, Asked, Answered
  <2>2. PICK i \in DOMAIN mappings : Covers(mappings[i], side, a) /\ h = Hit(mappings, side, a, i)
    BY <2>1 DEF Locations
  <2>. DEFINE m == mappings[i]
              k == a - Start(m, side) + 1
  <2>3. h.by = i /\ h.offset = Translate(m, side, a)
    BY <2>2 DEF Hit
  <2>4. m \in Mapping(Nat, Nat)
    BY <2>1 DEF MappingList
  <2>5. /\ m.source \in Nat /\ m.service \in Nat /\ m.sourceLen \in Nat /\ m.serviceLen = 0
        /\ \A j \in 1..m.sourceLen : SourceText[m.source + j] = ServiceText[m.service + j]
    BY <2>4 DEF ImportedSame, SameTexts, Mapping
  <2>6. Length(m, side) = m.sourceLen /\ Length(m, Other(side)) = m.sourceLen
    BY <2>5 DEF Length
  <2>7. Start(m, side) <= a /\ a < Start(m, side) + m.sourceLen
    BY <2>2, <2>3, <2>6 DEF Covers, End
  <2>8. CASE side = "source"
    <3>1. Start(m, side) = m.source /\ Start(m, Other(side)) = m.service
      BY <2>8 DEF Start, Other
    <3>2. k \in 1..m.sourceLen /\ a + 1 = m.source + k /\ h.offset + 1 = m.service + k
      BY <2>1, <2>3, <2>5, <2>6, <2>7, <3>1 DEF Translate, Lesser
    <3>. QED
      BY <2>5, <2>8, <3>2 DEF Text, Other
  <2>9. CASE side = "service"
    <3>1. Start(m, side) = m.service /\ Start(m, Other(side)) = m.source
      BY <2>9 DEF Start, Other
    <3>2. k \in 1..m.sourceLen /\ a + 1 = m.service + k /\ h.offset + 1 = m.source + k
      BY <2>1, <2>3, <2>5, <2>6, <2>7, <3>1 DEF Translate, Lesser
    <3>. QED
      BY <2>5, <2>9, <3>2 DEF Text, Other
  <2>. QED
    BY <2>1, <2>8, <2>9 DEF Sides
<1>. QED
  BY <1>1, LookupInvariant, ImportedSameInvariant, PTL

-----------------------------------------------------------------------------
(* Imported mappings relate the bytes the segments relate. *)

(* A segment a mapping is made of, and the bytes it relates if the next    *)
(* one lies at gen.                                                        *)
Placed(s) == s.from # None /\ s.from.index = 0
RelatedAt(s, gen) ==
    {<<s.from.offset + k, s.gen + k>> : k \in {j \in 0..(gen - s.gen - 1) : Same(s.from.offset, s.gen, j + 1)}}

LastSegment == segments[Len(segments)]

(* What waits for its end is the last segment, if it is placed.            *)
CurrentIsLast ==
    current = IF segments # <<>> /\ Placed(LastSegment)
              THEN [gen |-> LastSegment.gen, source |-> LastSegment.from.offset] ELSE None

AllRelated == UNION {RelatedBy(imported[i]) : i \in DOMAIN imported} = Related

(* Mappings end before the next begins, and none could be one with it.     *)
Apart(ms) ==
    \A i, j \in DOMAIN ms : i < j =>
        /\ ms[i].service + ms[i].sourceLen <= ms[j].service
        /\ j = i + 1 /\ ms[i].service + ms[i].sourceLen = ms[j].service
              => ms[i].source + ms[i].sourceLen # ms[j].source

EndBy(ms, gen) == \A i \in DOMAIN ms : ms[i].service + ms[i].sourceLen <= gen

RelateInv ==
    /\ segments \in Seq(Segments)
    /\ importing = "open" => CurrentIsLast
    /\ importing \in {"open", "returned"} =>
          /\ AllRelated
          /\ segments = <<>> => imported = <<>>
          /\ InOrder => Apart(imported) /\ (segments # <<>> => EndBy(imported, LastSegment.gen))

(* A segment's places are natural numbers. *)
LEMMA SegmentTypes ==
    ASSUME NEW s \in Segments
    PROVE  s.gen \in Nat /\ (Placed(s) => s.from.offset \in Nat)
<1>1. Len(ServiceText) \in Nat /\ Len(SourceText) \in Nat
  BY SegmentsAssumption
<1>. QED
  BY <1>1 DEF Segments, SourcePlaces, Placed

(* The lengths that are the same are those up to the greatest.             *)
LEMMA SameUpTo ==
    ASSUME NEW source \in Nat, NEW service \in Nat, NEW n \in Int, NEW k \in 1..n
    PROVE  Same(source, service, k) <=> k <= SameLength(source, service, n)
<1>. DEFINE K == {j \in 1..n : Same(source, service, j)}
            c == SameLength(source, service, n)
<1>1. c = Cardinality(K) /\ c \in Nat /\ K \subseteq 1..n
  BY SameLengthType DEF SameLength
<1>2. \A j \in K : 1..j \subseteq K
  BY SameShorter
<1>3. IsFiniteSet(K)
  <2>1. IsFiniteSet(1..n) /\ K \in SUBSET (1..n)
    BY FS_Interval
  <2>. QED
    BY <2>1, FS_Subset
<1>4. ASSUME NEW j \in K PROVE j <= c
  <2>1. j \in 1..n /\ (1..j) \in SUBSET K
    BY <1>2
  <2>2. Cardinality(1..j) = j
    BY <2>1, FS_Interval
  <2>3. Cardinality(1..j) <= Cardinality(K)
    BY <1>3, <2>1, FS_Subset
  <2>. QED
    BY <1>1, <2>2, <2>3
<1>5. K \in SUBSET (1..c)
  BY <1>1, <1>4
<1>6. IsFiniteSet(1..c) /\ Cardinality(1..c) = c
  BY <1>1, FS_Interval
<1>7. K = 1..c
  BY <1>1, <1>5, <1>6, FS_Subset
<1>. QED
  BY <1>1, <1>7

(* A piece relates what its segment does. *)
LEMMA PieceRelates ==
    ASSUME NEW s \in Segments, Placed(s), NEW gen \in Nat, NEW n \in Nat,
           n = SameLength(s.from.offset, s.gen, gen - s.gen)
    PROVE  /\ RelatedAt(s, gen) = {<<s.from.offset + k, s.gen + k>> : k \in 0..(n - 1)}
           /\ s.gen <= gen => s.gen + n <= gen
<1>1. s.gen \in Nat /\ s.from.offset \in Nat
  BY SegmentTypes
<1>2. n <= gen - s.gen \/ (n = 0 /\ gen < s.gen)
  <2>. DEFINE K == {j \in 1..(gen - s.gen) : Same(s.from.offset, s.gen, j)}
  <2>. DEFINE d == gen - s.gen
  <2>0. d \in Int /\ 1 \in Int
    BY <1>1
  <2>4. K \in SUBSET (1..d)
    OBVIOUS
  <2>1. /\ IsFiniteSet(1..d)
        /\ Cardinality(1..d) = IF 1 > d THEN 0 ELSE d - 1 + 1
    <3>. HIDE DEF d
    <3>. QED
      BY <2>0, FS_Interval
  <2>2. n = Cardinality(K)
    BY DEF SameLength
  <2>3. Cardinality(K) <= Cardinality(1..(gen - s.gen))
    BY <2>1, <2>4, FS_Subset
  <2>. QED
    BY <1>1, <2>1, <2>2, <2>3
<1>3. ASSUME NEW j \in 0..(gen - s.gen - 1)
      PROVE  Same(s.from.offset, s.gen, j + 1) <=> j \in 0..(n - 1)
  <2>1. j + 1 \in 1..(gen - s.gen) /\ gen - s.gen \in Int
    BY <1>1
  <2>2. Same(s.from.offset, s.gen, j + 1) <=> j + 1 <= n
    BY <1>1, <2>1, SameUpTo
  <2>. QED
    BY <2>2
<1>4. {j \in 0..(gen - s.gen - 1) : Same(s.from.offset, s.gen, j + 1)} = 0..(n - 1)
  BY <1>1, <1>2, <1>3
<1>. QED
  BY <1>1, <1>2, <1>4 DEF RelatedAt

(* What is related when one more segment is decoded. *)
LEMMA RelatedGrows ==
    ASSUME segments \in Seq(Segments), NEW s \in Segments, segments' = Append(segments, s)
    PROVE  Related' = Related \cup
               IF segments # <<>> /\ Placed(LastSegment) THEN RelatedAt(LastSegment, s.gen) ELSE {}
<1>. DEFINE n == Len(segments)
            was(i) == RelatedAt(segments[i], segments[i + 1].gen)
            is(i) == RelatedAt(segments'[i], segments'[i + 1].gen)
            old == {i \in 1..(n - 1) : Placed(segments[i])}
            new == {i \in 1..n : Placed(segments'[i])}
<1>1. /\ n \in Nat /\ Len(segments') = n + 1
      /\ \A i \in 1..n : segments'[i] = segments[i]
      /\ segments'[n + 1] = s
      /\ segments # <<>> <=> n > 0
  OBVIOUS
<1>2. Related = UNION {was(i) : i \in old}
  BY DEF Related, RelatedAt, Placed
<1>3. Related' = UNION {is(i) : i \in new}
  <2>1. Len(segments') - 1 = n
    BY <1>1
  <2>. QED
    BY <2>1 DEF Related, RelatedAt, Placed
<1>. HIDE DEF n
<1>4. \A i \in old : i \in new /\ is(i) = was(i)
  BY <1>1
<1>5. new = old \cup {i \in {n} : n > 0 /\ Placed(segments[n])}
  BY <1>1
<1>6. n > 0 => is(n) = RelatedAt(LastSegment, s.gen)
  BY <1>1 DEF LastSegment, n
<1>7. LastSegment = segments[n]
  BY DEF LastSegment, n
<1>8. CASE n > 0 /\ Placed(segments[n])
  <2>1. new = old \cup {n}
    BY <1>5, <1>8
  <2>. HIDE DEF old, new, was, is
  <2>2. Related' = Related \cup RelatedAt(LastSegment, s.gen)
    BY <1>2, <1>3, <1>4, <1>6, <1>8, <2>1
  <2>. QED
    BY <1>1, <1>7, <1>8, <2>2
<1>9. CASE ~(n > 0 /\ Placed(segments[n]))
  <2>1. new = old
    BY <1>5, <1>9
  <2>. HIDE DEF old, new, was, is
  <2>2. Related' = Related
    BY <1>2, <1>3, <1>4, <2>1
  <2>. QED
    BY <1>1, <1>7, <1>9, <2>2
<1>. QED
  BY <1>8, <1>9

(* The generated places of the segments go up if they still do with one    *)
(* more.                                                                   *)
LEMMA OrderBefore ==
    ASSUME segments \in Seq(Segments), NEW s \in Segments, segments' = Append(segments, s), InOrder'
    PROVE  InOrder /\ (segments # <<>> => LastSegment.gen <= s.gen)
<1>. DEFINE n == Len(segments)
<1>1. /\ n \in Nat /\ Len(segments') = n + 1
      /\ \A i \in 1..n : segments'[i] = segments[i]
      /\ segments'[n + 1] = s
      /\ segments # <<>> <=> n > 0
  OBVIOUS
<1>2. \A i \in 1..n : segments'[i].gen <= segments'[i + 1].gen
  BY <1>1 DEF InOrder
<1>. QED
  BY <1>1, <1>2 DEF InOrder, LastSegment

AllOf(ms) == UNION {RelatedBy(ms[i]) : i \in DOMAIN ms}

(* The last mapping made longer. *)
LEMMA Lengthened ==
    ASSUME NEW ms \in MappingList, ms # <<>>, NEW n \in Nat, NEW ms2,
           ms2 = [ms EXCEPT ![Len(ms)].sourceLen = @ + n]
    PROVE  /\ Len(ms) \in DOMAIN ms /\ ms2 \in MappingList /\ DOMAIN ms2 = DOMAIN ms
           /\ \A i \in DOMAIN ms : i # Len(ms) => ms2[i] = ms[i]
           /\ ms2[Len(ms)].sourceLen = ms[Len(ms)].sourceLen + n
           /\ ms2[Len(ms)].source = ms[Len(ms)].source
           /\ ms2[Len(ms)].service = ms[Len(ms)].service
<1>. DEFINE last == Len(ms)
            m == [ms[last] EXCEPT !.sourceLen = @ + n]
<1>1. last \in DOMAIN ms
  BY DEF MappingList
<1>2. ms[last] \in Mapping(Nat, Nat)
  BY <1>1 DEF MappingList
<1>3. /\ m \in Mapping(Nat, Nat) /\ m.sourceLen = ms[last].sourceLen + n
      /\ m.source = ms[last].source /\ m.service = ms[last].service
  BY <1>2 DEF Mapping
<1>4. ms2 = [ms EXCEPT ![last] = m]
  OBVIOUS
<1>. HIDE DEF m
<1>. QED
  BY <1>1, <1>3, <1>4 DEF MappingList

(* So are a mapping's. *)
LEMMA MappingFields ==
    ASSUME NEW ms \in MappingList, NEW i \in DOMAIN ms
    PROVE  ms[i].source \in Nat /\ ms[i].service \in Nat /\ ms[i].sourceLen \in Nat
<1>1. ms[i] \in Mapping(Nat, Nat)
  BY DEF MappingList
<1>. QED
  BY <1>1 DEF Mapping

(* A mapping made longer relates that many bytes more. *)
LEMMA LengthenedRelates ==
    ASSUME NEW ms \in MappingList, ms # <<>>, NEW n \in Nat, NEW c \in [gen : Nat, source : Nat],
           ms[Len(ms)].service + ms[Len(ms)].sourceLen = c.gen,
           ms[Len(ms)].source + ms[Len(ms)].sourceLen = c.source
    PROVE  AllOf([ms EXCEPT ![Len(ms)].sourceLen = @ + n])
             = AllOf(ms) \cup {<<c.source + k, c.gen + k>> : k \in 0..(n - 1)}
<1>. DEFINE last == Len(ms)
            more == {<<c.source + k, c.gen + k>> : k \in 0..(n - 1)}
<1>0. PICK ms2 : ms2 = [ms EXCEPT ![last].sourceLen = @ + n]
  OBVIOUS
<1>1. /\ last \in DOMAIN ms /\ DOMAIN ms2 = DOMAIN ms
      /\ \A i \in DOMAIN ms : i # last => ms2[i] = ms[i]
      /\ ms2[last].sourceLen = ms[last].sourceLen + n
      /\ ms2[last].source = ms[last].source
      /\ ms2[last].service = ms[last].service
  BY <1>0, Lengthened
<1>2. /\ ms[last].source \in Nat /\ ms[last].service \in Nat /\ ms[last].sourceLen \in Nat
      /\ c.gen \in Nat /\ c.source \in Nat
      /\ c.source = ms[last].source + ms[last].sourceLen
      /\ c.gen = ms[last].service + ms[last].sourceLen
  BY <1>1, MappingFields
<1>. HIDE DEF last
<1>3. RelatedBy(ms2[last]) = RelatedBy(ms[last]) \cup more
  <2>. PICK len \in Nat, src \in Nat, svc \in Nat :
           /\ ms[last].sourceLen = len /\ ms[last].source = src /\ ms[last].service = svc
           /\ c.source = src + len /\ c.gen = svc + len
           /\ ms2[last].sourceLen = len + n /\ ms2[last].source = src /\ ms2[last].service = svc
    BY <1>1, <1>2
  <2>1. ASSUME NEW k \in 0..(len + n - 1)
        PROVE  <<src + k, svc + k>> \in RelatedBy(ms[last]) \cup more
    <3>1. CASE k < len
      <4>1. k \in 0..(len - 1)
        BY <3>1
      <4>. QED
        BY <4>1 DEF RelatedBy
    <3>2. CASE k >= len
      <4>0. k - len \in 0..(n - 1) /\ k = len + (k - len)
        BY <3>2
      <4>. PICK d \in 0..(n - 1) : k = len + d
        BY <4>0
      <4>1. src + k = c.source + d /\ svc + k = c.gen + d
        OBVIOUS
      <4>. QED
        BY <4>1
    <3>. QED
      BY <3>1, <3>2
  <2>2. ASSUME NEW k \in 0..(len - 1) PROVE <<src + k, svc + k>> \in RelatedBy(ms2[last])
    <3>1. k \in 0..(ms2[last].sourceLen - 1)
      OBVIOUS
    <3>. QED
      BY <3>1 DEF RelatedBy
  <2>3. ASSUME NEW k \in 0..(n - 1) PROVE <<c.source + k, c.gen + k>> \in RelatedBy(ms2[last])
    <3>1. /\ len + k \in 0..(ms2[last].sourceLen - 1)
          /\ c.source + k = src + (len + k) /\ c.gen + k = svc + (len + k)
      OBVIOUS
    <3>. QED
      BY <3>1 DEF RelatedBy
  <2>4. RelatedBy(ms2[last]) = {<<src + k, svc + k>> : k \in 0..(len + n - 1)}
    BY SMTT(30) DEF RelatedBy
  <2>5. RelatedBy(ms[last]) = {<<src + k, svc + k>> : k \in 0..(len - 1)}
    BY DEF RelatedBy
  <2>6. RelatedBy(ms2[last]) \subseteq RelatedBy(ms[last]) \cup more
    BY <2>1, <2>4
  <2>7. RelatedBy(ms[last]) \subseteq RelatedBy(ms2[last])
    BY <2>2, <2>5
  <2>8. more \subseteq RelatedBy(ms2[last])
    BY <2>3
  <2>. QED
    BY <2>6, <2>7, <2>8
<1>. HIDE DEF more
<1>4. AllOf(ms2) = AllOf(ms) \cup more
  <2>1. ASSUME NEW x \in AllOf(ms2) PROVE x \in AllOf(ms) \cup more
    <3>1. PICK i \in DOMAIN ms : x \in RelatedBy(ms2[i])
      BY <1>1 DEF AllOf
    <3>2. CASE i = last
      BY <1>1, <1>3, <3>1, <3>2 DEF AllOf
    <3>3. CASE i # last
      BY <1>1, <3>1, <3>3 DEF AllOf
    <3>. QED
      BY <3>2, <3>3
  <2>2. ASSUME NEW x \in AllOf(ms) PROVE x \in AllOf(ms2)
    <3>1. PICK i \in DOMAIN ms : x \in RelatedBy(ms[i])
      BY DEF AllOf
    <3>2. x \in RelatedBy(ms2[i])
      BY <1>1, <1>3, <3>1
    <3>. QED
      BY <1>1, <3>2 DEF AllOf
  <2>3. more \subseteq AllOf(ms2)
    BY <1>1, <1>3 DEF AllOf
  <2>. QED
    BY <2>1, <2>2, <2>3
<1>5. AllOf([ms EXCEPT ![last].sourceLen = @ + n]) = AllOf(ms) \cup more
  BY <1>0, <1>4
<1>. QED
  BY <1>5 DEF more, last

(* With a piece added the mappings relate its bytes besides. *)
LEMMA PieceAdded ==
    ASSUME imported \in MappingList, current \in [gen : Nat, source : Nat], current # None, NEW gen \in Nat
    PROVE  LET n == SameLength(current.source, current.gen, gen - current.gen)
           IN  AllOf(WithPiece(gen)) = AllOf(imported) \cup
                   {<<current.source + k, current.gen + k>> : k \in 0..(n - 1)}
<1>. DEFINE n == SameLength(current.source, current.gen, gen - current.gen)
            more == {<<current.source + k, current.gen + k>> : k \in 0..(n - 1)}
<1>1. n \in Nat
  BY SameLengthType
<1>2. CASE n = 0
  <2>1. more = {} /\ WithPiece(gen) = imported
    BY <1>2 DEF WithPiece
  <2>. QED
    BY <2>1
<1>3. CASE n # 0 /\ Continues(current)
  <2>1. WithPiece(gen) = [imported EXCEPT ![Len(imported)].sourceLen = @ + n]
    BY <1>3 DEF WithPiece
  <2>. HIDE DEF n
  <2>2. /\ imported # <<>>
        /\ imported[Len(imported)].service + imported[Len(imported)].sourceLen = current.gen
        /\ imported[Len(imported)].source + imported[Len(imported)].sourceLen = current.source
    BY <1>3 DEF Continues
  <2>3. AllOf([imported EXCEPT ![Len(imported)].sourceLen = @ + n]) = AllOf(imported) \cup more
    BY <1>1, <2>2, LengthenedRelates
  <2>. QED
    BY <2>1, <2>3 DEF n
<1>4. CASE n # 0 /\ ~Continues(current)
  <2>1. WithPiece(gen) = Append(imported, Piece(current, n))
    BY <1>4 DEF WithPiece
  <2>. HIDE DEF n
  <2>2. PICK ms2 : ms2 = Append(imported, Piece(current, n))
    OBVIOUS
  <2>3. /\ DOMAIN ms2 = DOMAIN imported \cup {Len(imported) + 1}
        /\ Len(imported) + 1 \notin DOMAIN imported
        /\ \A i \in DOMAIN imported : ms2[i] = imported[i]
        /\ ms2[Len(imported) + 1] = Piece(current, n)
    BY <2>2 DEF MappingList
  <2>4. RelatedBy(Piece(current, n)) = more
    BY DEF RelatedBy, Piece
  <2>. HIDE DEF more
  <2>5. AllOf(ms2) = AllOf(imported) \cup more
    BY <2>3, <2>4 DEF AllOf
  <2>6. AllOf(WithPiece(gen)) = AllOf(imported) \cup more
    BY <2>1, <2>2, <2>5
  <2>. QED
    BY <2>6 DEF more, n
<1>. QED
  BY <1>2, <1>3, <1>4

(* A piece added behind the others keeps them apart. *)
LEMMA PieceApart ==
    ASSUME imported \in MappingList, current \in [gen : Nat, source : Nat], current # None, NEW gen \in Nat,
           Apart(imported), EndBy(imported, current.gen),
           current.gen + SameLength(current.source, current.gen, gen - current.gen) <= gen
    PROVE  Apart(WithPiece(gen)) /\ EndBy(WithPiece(gen), gen)
<1>. DEFINE n == SameLength(current.source, current.gen, gen - current.gen)
            last == Len(imported)
<1>1. n \in Nat
  BY SameLengthType
<1>0. /\ \A i \in DOMAIN imported : imported[i].source \in Nat /\ imported[i].service \in Nat /\ imported[i].sourceLen \in Nat
      /\ current.gen + n <= gen /\ current.gen \in Nat
      /\ DOMAIN imported = 1..last /\ last \in Nat
  BY MappingFields DEF MappingList
<1>2. CASE n = 0
  <2>1. WithPiece(gen) = imported
    BY <1>2 DEF WithPiece
  <2>. HIDE DEF n
  <2>. QED
    BY <1>0, <1>2, <2>1 DEF EndBy
<1>3. CASE n # 0 /\ Continues(current)
  <2>1. WithPiece(gen) = [imported EXCEPT ![last].sourceLen = @ + n]
    BY <1>3 DEF WithPiece
  <2>. HIDE DEF n
  <2>2. PICK ms2 : ms2 = [imported EXCEPT ![last].sourceLen = @ + n]
    OBVIOUS
  <2>3. /\ last \in DOMAIN imported /\ DOMAIN ms2 = DOMAIN imported
        /\ \A i \in DOMAIN imported : i # last => ms2[i] = imported[i]
        /\ ms2[last].sourceLen = imported[last].sourceLen + n
        /\ ms2[last].source = imported[last].source
        /\ ms2[last].service = imported[last].service
    BY <1>1, <1>3, <2>2, Lengthened DEF Continues
  <2>4. imported[last].service + imported[last].sourceLen = current.gen
    BY <1>3 DEF Continues
  <2>. HIDE DEF last
  <2>5. EndBy(ms2, gen)
    <3>1. ASSUME NEW i \in DOMAIN imported PROVE ms2[i].service + ms2[i].sourceLen <= gen
      <4>1. CASE i = last
        <5>. PICK len \in Nat, svc \in Nat : imported[last].sourceLen = len /\ imported[last].service = svc
          BY <1>0, <2>3
        <5>1. ms2[last].sourceLen = len + n /\ ms2[last].service = svc /\ svc + len = current.gen
          BY <2>3, <2>4
        <5>. QED
          BY <1>0, <1>1, <4>1, <5>1
      <4>2. CASE i # last
        BY <1>0, <1>1, <2>3, <4>2 DEF EndBy
      <4>. QED
        BY <4>1, <4>2
    <3>. QED
      BY <2>3, <3>1 DEF EndBy
  <2>6. \A i, j \in DOMAIN imported : i < j => i # last
    BY <1>0 DEF last
  <2>7. Apart(ms2)
    BY <2>3, <2>6 DEF Apart
  <2>. QED
    BY <2>1, <2>2, <2>5, <2>7
<1>4. CASE n # 0 /\ ~Continues(current)
  <2>1. WithPiece(gen) = Append(imported, Piece(current, n))
    BY <1>4 DEF WithPiece
  <2>. HIDE DEF n
  <2>2. PICK ms2 : ms2 = Append(imported, Piece(current, n))
    OBVIOUS
  <2>3. /\ DOMAIN ms2 = 1..(last + 1)
        /\ \A i \in 1..last : ms2[i] = imported[i]
        /\ ms2[last + 1].service = current.gen /\ ms2[last + 1].source = current.source
        /\ ms2[last + 1].sourceLen = n
    BY <2>2 DEF MappingList, Piece
  <2>4. last > 0 => /\ imported[last].service + imported[last].sourceLen = current.gen
                       => imported[last].source + imported[last].sourceLen # current.source
    BY <1>0, <1>4 DEF Continues
  <2>. HIDE DEF last
  <2>5. EndBy(ms2, gen)
    BY <1>0, <1>1, <2>3 DEF EndBy
  <2>6. ASSUME NEW i \in DOMAIN ms2, NEW j \in DOMAIN ms2, i < j
        PROVE  /\ ms2[i].service + ms2[i].sourceLen <= ms2[j].service
               /\ j = i + 1 /\ ms2[i].service + ms2[i].sourceLen = ms2[j].service
                     => ms2[i].source + ms2[i].sourceLen # ms2[j].source
    <3>1. i \in 1..last /\ ms2[i] = imported[i]
      BY <1>0, <2>3, <2>6
    <3>2. CASE j = last + 1
      BY <1>0, <2>3, <2>4, <3>1, <3>2 DEF EndBy
    <3>3. CASE j # last + 1
      BY <1>0, <2>3, <2>6, <3>1, <3>3, SMTT(30) DEF Apart
    <3>. QED
      BY <3>2, <3>3
  <2>7. Apart(ms2)
    BY <2>6 DEF Apart
  <2>. QED
    BY <2>1, <2>2, <2>5, <2>7
<1>. QED
  BY <1>2, <1>3, <1>4

(* A segment decoded ends the one before, whose bytes are then related. *)
LEMMA RelateDecode ==
    ASSUME LookupInv, RelateInv, NEW s \in Segments, DecodeSegment(s)
    PROVE  RelateInv'
<1>1. importing = "open" /\ segments' = Append(segments, s) /\ segments \in Seq(Segments)
  BY DEF DecodeSegment, RelateInv
<1>2. segments' \in Seq(Segments) /\ segments' # <<>> /\ LastSegment' = s
  BY <1>1 DEF LastSegment
<1>3. CASE importing' = "panicked"
  BY <1>2, <1>3 DEF RelateInv
<1>4. CASE /\ ~Backwards(s.gen)
           /\ imported' = WithPiece(s.gen)
           /\ current' = IF s.from = None \/ s.from.index # 0 THEN None
                         ELSE [gen |-> s.gen, source |-> s.from.offset]
           /\ UNCHANGED importing
  <2>1. /\ imported \in MappingList /\ s.gen \in Nat
        /\ CurrentIsLast /\ AllRelated
        /\ segments = <<>> => imported = <<>>
        /\ InOrder => Apart(imported) /\ (segments # <<>> => EndBy(imported, LastSegment.gen))
    BY <1>1, SegmentTypes DEF LookupInv, ImportTyped, RelateInv
  <2>2. CurrentIsLast'
    BY <1>2, <1>4 DEF CurrentIsLast, Placed
  <2>3. Related' = Related \cup
            IF segments # <<>> /\ Placed(LastSegment) THEN RelatedAt(LastSegment, s.gen) ELSE {}
    BY <1>1, RelatedGrows
  <2>4. InOrder' => InOrder /\ (segments # <<>> => LastSegment.gen <= s.gen)
    BY <1>1, OrderBefore
  <2>5. segments # <<>> => LastSegment \in Segments
    BY <1>1 DEF LastSegment
  <2>6. CASE segments # <<>> /\ Placed(LastSegment)
    <3>. DEFINE c == LastSegment
                n == SameLength(c.from.offset, c.gen, s.gen - c.gen)
    <3>1. c \in Segments /\ c.gen \in Nat /\ c.from.offset \in Nat
      BY <2>5, <2>6, SegmentTypes
    <3>2. current = [gen |-> c.gen, source |-> c.from.offset]
      BY <2>1, <2>6 DEF CurrentIsLast
    <3>3. /\ current \in [gen : Nat, source : Nat] /\ current # None
          /\ current.gen = c.gen /\ current.source = c.from.offset
      BY <3>1, <3>2, SegmentsAssumption
    <3>4. n \in Nat /\ s.gen - c.gen \in Int
      BY <2>1, <3>1, SameLengthType
    <3>. HIDE DEF c
    <3>5. /\ RelatedAt(c, s.gen) = {<<c.from.offset + k, c.gen + k>> : k \in 0..(n - 1)}
          /\ c.gen <= s.gen => c.gen + n <= s.gen
      <4>1. Placed(c)
        BY <2>6 DEF c
      <4>. HIDE DEF n
      <4>2. PICK m \in Nat : m = n
        BY <3>4
      <4>. QED
        BY <2>1, <3>1, <4>1, <4>2, PieceRelates DEF n
    <3>6. AllOf(imported') = AllOf(imported) \cup RelatedAt(c, s.gen)
      BY <1>4, <2>1, <3>3, <3>5, PieceAdded
    <3>7. AllRelated'
      <4>1. Related' = Related \cup RelatedAt(c, s.gen)
        BY <2>3, <2>6 DEF c
      <4>2. AllOf(imported) = Related
        BY <2>1 DEF AllRelated, AllOf
      <4>. QED
        BY <3>6, <4>1, <4>2 DEF AllRelated, AllOf
    <3>8. InOrder' => Apart(imported') /\ EndBy(imported', s.gen)
      <4>. SUFFICES ASSUME InOrder' PROVE Apart(imported') /\ EndBy(imported', s.gen)
        OBVIOUS
      <4>1. Apart(imported) /\ EndBy(imported, current.gen) /\ current.gen + n <= s.gen
        BY <2>1, <2>4, <2>6, <3>3, <3>5 DEF c
      <4>. QED
        BY <1>4, <2>1, <3>3, <4>1, PieceApart
    <3>. QED
      BY <1>2, <2>2, <3>7, <3>8 DEF RelateInv
  <2>7. CASE ~(segments # <<>> /\ Placed(LastSegment))
    <3>1. current = None
      BY <2>1, <2>7 DEF CurrentIsLast
    <3>2. imported' = imported /\ Related' = Related
      BY <1>4, <2>3, <2>7, <3>1 DEF WithPiece
    <3>3. AllRelated'
      BY <2>1, <3>2 DEF AllRelated
    <3>4. InOrder' => Apart(imported) /\ EndBy(imported, s.gen)
      <4>1. CASE segments = <<>>
        BY <2>1, <2>4, <4>1 DEF EndBy
      <4>2. CASE segments # <<>>
        <5>1. LastSegment.gen \in Nat
          BY <2>5, <4>2, SegmentTypes
        <5>2. \A i \in DOMAIN imported : imported[i].service \in Nat /\ imported[i].sourceLen \in Nat
          BY <2>1, MappingFields
        <5>. QED
          BY <2>1, <2>4, <4>2, <5>1, <5>2 DEF EndBy
      <4>. QED
        BY <4>1, <4>2
    <3>. QED
      BY <1>2, <2>2, <3>2, <3>3, <3>4 DEF RelateInv
  <2>. QED
    BY <2>6, <2>7
<1>. QED
  BY <1>3, <1>4 DEF DecodeSegment

(* Every other step leaves what is related. *)
LEMMA RelateStep == LookupInv /\ RelateInv /\ [MapNext]_allVars => RelateInv'
<1>. SUFFICES ASSUME LookupInv, RelateInv, [MapNext]_allVars PROVE RelateInv'
  OBVIOUS
<1>1. ASSUME NEW s \in Segments, DecodeSegment(s) PROVE RelateInv'
  BY <1>1, RelateDecode
<1>0. segments' = segments /\ imported' = imported /\ current' = current =>
          /\ CurrentIsLast' <=> CurrentIsLast
          /\ AllRelated' <=> AllRelated
          /\ InOrder' <=> InOrder
          /\ LastSegment' = LastSegment
  <2>. SUFFICES ASSUME segments' = segments, imported' = imported, current' = current
                PROVE  /\ CurrentIsLast' <=> CurrentIsLast
                       /\ AllRelated' <=> AllRelated
                       /\ InOrder' <=> InOrder
                       /\ LastSegment' = LastSegment
    OBVIOUS
  <2>1. Related' = Related
    BY DEF Related
  <2>. QED
    BY <2>1 DEF CurrentIsLast, AllRelated, InOrder, LastSegment
<1>2. CASE EndOfSegments
  BY <1>0, <1>2 DEF EndOfSegments, RelateInv
<1>3. CASE NewSourceMap
  BY <1>3 DEF NewSourceMap, RelateInv
<1>4. CASE UNCHANGED importVars
  BY <1>0, <1>4 DEF importVars, RelateInv
<1>. QED
  BY <1>1, <1>2, <1>3, <1>4 DEF MapNext, ImportStep, allVars

(* The mappings made of a plugin's segments relate exactly the bytes the   *)
(* segments relate and, if those are in order, none twice and none that    *)
(* could be one with the next; for any texts and segments                  *)
(* (sourceMapToMapping).                                                   *)
THEOREM ImportIsExact == MapSpec => []ImportExact
<1>1. MapInit => RelateInv
  <2>. SUFFICES ASSUME MapInit PROVE RelateInv
    OBVIOUS
  <2>1. segments = <<>> /\ current = None /\ imported = <<>>
    BY DEF MapInit, ImportStart
  <2>2. Len(segments) = 0 /\ DOMAIN imported = {}
    BY <2>1
  <2>3. Related = {} /\ UNION {RelatedBy(imported[i]) : i \in DOMAIN imported} = {}
    BY <2>2 DEF Related
  <2>4. segments \in Seq(Segments)
    BY <2>1
  <2>. QED
    BY <2>1, <2>2, <2>3, <2>4 DEF RelateInv, CurrentIsLast, AllRelated, Apart
<1>2. RelateInv => ImportExact
  <2>. SUFFICES ASSUME RelateInv, importing \in {"open", "returned"} PROVE ImportExact
    BY DEF ImportExact
  <2>1. UNION {RelatedBy(imported[i]) : i \in DOMAIN imported} = Related
    BY DEF RelateInv, AllRelated
  <2>2. InOrder => Apart(imported)
    BY DEF RelateInv
  <2>. QED
    BY <2>1, <2>2 DEF ImportExact, Apart
<1>. QED
  BY <1>1, <1>2, RelateStep, LookupInvariant, PTL DEF MapSpec
=============================================================================
