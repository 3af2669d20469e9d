----------------------------- MODULE SourceMap ------------------------------
(***************************************************************************)
(* internal/mapping/mapping.go, the queries: a sorted index of offsets is  *)
(* built on first use (one per side) and searched by bisection; a range    *)
(* whose ends no single mapping covers is looked up twice.  Requests of    *)
(* the language server run concurrently and share the index without a      *)
(* lock.                                                                   *)
(***************************************************************************)
EXTENDS Mappings, Sequences, FiniteSets

CONSTANTS
    MappingLists,   \* the lists of mappings a file may have
    Offsets,        \* the offsets asked for
    Threads,        \* goroutines asking
    Unset           \* a memo that is not built

ASSUME OffsetsAssumption == Offsets \subseteq Nat
ASSUME MappingListsAssumption == MappingLists \subseteq Seq(Mapping(Nat, Nat))

VARIABLES
    mappings,   \* SourceMap.Mappings
    memo,       \* sourceCodeOffsetsMemo and serviceCodeOffsetsMemo
    pc,         \* the step each thread is at
    query,      \* what it asks for
    phase,      \* whether the start or the end of the range is looked for
    seeking,    \* the offset findMatchingOffsets looks for
    seen,       \* the memo it looks in
    low, high,  \* BinarySearch
    starts,     \* mappedStarts
    ranges      \* results

vars == <<mappings, memo, pc, query, phase, seeking, seen, low, high, starts, ranges>>

Queries ==
    [kind : {"location"}, side : Sides, pos : Offsets, end : {0}, fallback : {FALSE}]
      \cup {q \in [kind : {"range"}, side : Sides, pos : Offsets, end : Offsets, fallback : BOOLEAN] :
               q.pos <= q.end}

NothingAsked ==
    /\ memo = [side \in Sides |-> Unset]
    /\ pc = [t \in Threads |-> "idle"]
    /\ query = [t \in Threads |-> Unset]
    /\ phase = [t \in Threads |-> "start"]
    /\ seeking = [t \in Threads |-> 0]
    /\ seen = [t \in Threads |-> Unset]
    /\ low = [t \in Threads |-> 0]
    /\ high = [t \in Threads |-> 0]
    /\ starts = [t \in Threads |-> {}]
    /\ ranges = [t \in Threads |-> {}]

Goto(t, step) == pc' = [pc EXCEPT ![t] = step]

Ask(t) ==
    /\ pc[t] = "idle"
    /\ \E q \in Queries :
          /\ query' = [query EXCEPT ![t] = q]
          /\ seeking' = [seeking EXCEPT ![t] = q.pos]
    /\ Goto(t, "memo")
    /\ UNCHANGED <<mappings, memo, phase, seen, low, high, starts, ranges>>

-----------------------------------------------------------------------------
(* getMemoBasedOnRange *)

StartSearch(t, m) ==
    /\ seen' = [seen EXCEPT ![t] = m]
    /\ low' = [low EXCEPT ![t] = 0]
    /\ high' = [high EXCEPT ![t] = m.n - 1]
    /\ Goto(t, IF m.n = 0 THEN "collect" ELSE "search")

GetMemo(t) ==
    /\ pc[t] = "memo"
    /\ LET m == memo[query[t].side]
       IN  \/ m # Unset /\ StartSearch(t, m)
           \/ m = Unset /\ Goto(t, "create") /\ UNCHANGED <<seen, low, high>>
    /\ UNCHANGED <<mappings, memo, query, phase, seeking, starts, ranges>>

(* createMemo: every offset at which a mapping starts or ends, sorted; at  *)
(* each of them the mappings that start at or before and end at or after.  *)
Boundaries(ms, side) ==
    {Start(ms[i], side) : i \in DOMAIN ms} \cup {End(ms[i], side) : i \in DOMAIN ms}

SortedOf(S) ==
    {s \in [0..(Cardinality(S) - 1) -> S] :
        /\ \A i, j \in DOMAIN s : i < j => s[i] < s[j]
        /\ \A x \in S : \E i \in DOMAIN s : s[i] = x}

(* Mutant: the bucket of the mapping's end is left out. *)
BucketWithoutEnd(ms, side, offset) ==
    {i \in DOMAIN ms : Start(ms[i], side) <= offset /\ offset < End(ms[i], side)}

Bucket(ms, side, offset) ==
    {i \in DOMAIN ms : Start(ms[i], side) <= offset /\ offset <= End(ms[i], side)}

CreateMemo(t) ==
    /\ pc[t] = "create"
    /\ LET side == query[t].side
       IN  \E s \in SortedOf(Boundaries(mappings, side)) :
              LET m == [n |-> Cardinality(Boundaries(mappings, side)), offsets |-> s,
                        at |-> [i \in DOMAIN s |-> Bucket(mappings, side, s[i])]]
              IN  memo' = [memo EXCEPT ![side] = m] /\ StartSearch(t, m)
    /\ UNCHANGED <<mappings, query, phase, seeking, starts, ranges>>

-----------------------------------------------------------------------------
(* BinarySearch, one turn of its loop at a time. *)

Above(mid) == mid + 1

SearchStep(t) ==
    /\ pc[t] = "search" /\ low[t] <= high[t]
    /\ LET mid == (low[t] + high[t]) \div 2
           at  == seen[t].offsets[mid]
       IN  \/ /\ at < seeking[t]
              /\ low' = [low EXCEPT ![t] = Above(mid)]
              /\ UNCHANGED <<high, pc>>
           \/ /\ at > seeking[t]
              /\ high' = [high EXCEPT ![t] = mid - 1]
              /\ UNCHANGED <<low, pc>>
           \/ /\ at = seeking[t]
              /\ low' = [low EXCEPT ![t] = mid]
              /\ high' = [high EXCEPT ![t] = mid]
              /\ Goto(t, "collect")
    /\ UNCHANGED <<mappings, memo, query, phase, seeking, seen, starts, ranges>>

SearchEnd(t) ==         \* finalLow, finalHigh
    /\ pc[t] = "search" /\ low[t] > high[t]
    /\ LET last == seen[t].n - 1
       IN  /\ low' = [low EXCEPT ![t] = Greater(Lesser(Lesser(low[t], high[t]), last), 0)]
           /\ high' = [high EXCEPT ![t] = Lesser(Greater(Greater(low[t], high[t]), 0), last)]
    /\ Goto(t, "collect")
    /\ UNCHANGED <<mappings, memo, query, phase, seeking, seen, starts, ranges>>

-----------------------------------------------------------------------------
(* The loop of findMatchingOffsets over the buckets from low to high.      *)
Found(t) ==
    LET candidates == UNION {seen[t].at[i] : i \in low[t]..high[t]}
    IN  {Hit(mappings, query[t].side, seeking[t], i) :
            i \in {k \in candidates : Covers(mappings[k], query[t].side, seeking[t])}}

(* findMatchingStartEnd and ToSourceLocation / ToServiceLocation, once the *)
(* locations of the start are known.                                       *)
CollectStarts(t) ==
    /\ pc[t] = "collect" /\ phase[t] = "start"
    /\ starts' = [starts EXCEPT ![t] = Found(t)]
    /\ LET q == query[t]
           direct == DirectRanges(mappings, q.side, Found(t), q.end)
       IN  \/ /\ q.kind = "location"
              /\ Goto(t, "done") /\ UNCHANGED <<ranges, seeking, phase>>
           \/ /\ q.kind = "range" /\ (direct # {} \/ ~q.fallback)
              /\ ranges' = [ranges EXCEPT ![t] = direct]
              /\ Goto(t, "done") /\ UNCHANGED <<seeking, phase>>
           \/ /\ q.kind = "range" /\ direct = {} /\ q.fallback
              /\ seeking' = [seeking EXCEPT ![t] = q.end]
              /\ phase' = [phase EXCEPT ![t] = "end"]
              /\ Goto(t, "memo") /\ UNCHANGED ranges
    /\ UNCHANGED <<mappings, memo, query, seen, low, high>>

(* Every start is paired with the ends at or after it; the first pair is   *)
(* the one the callers use, in an order the map iteration decides.         *)
CollectEnds(t) ==
    /\ pc[t] = "collect" /\ phase[t] = "end"
    /\ ranges' = [ranges EXCEPT ![t] = FallbackRanges(starts[t], Found(t))]
    /\ Goto(t, "done")
    /\ UNCHANGED <<mappings, memo, query, phase, seeking, seen, low, high, starts>>

Return(t) ==
    /\ pc[t] = "done"
    /\ Goto(t, "idle")
    /\ query' = [query EXCEPT ![t] = Unset]
    /\ seen' = [seen EXCEPT ![t] = Unset]
    /\ phase' = [phase EXCEPT ![t] = "start"]
    /\ seeking' = [seeking EXCEPT ![t] = 0]
    /\ low' = [low EXCEPT ![t] = 0]
    /\ high' = [high EXCEPT ![t] = 0]
    /\ starts' = [starts EXCEPT ![t] = {}]
    /\ ranges' = [ranges EXCEPT ![t] = {}]
    /\ UNCHANGED <<mappings, memo>>

ThreadStep(t) ==
    \/ GetMemo(t) \/ CreateMemo(t) \/ SearchStep(t) \/ SearchEnd(t)
    \/ CollectStarts(t) \/ CollectEnds(t) \/ Return(t)

Next == \E t \in Threads : Ask(t) \/ ThreadStep(t)

-----------------------------------------------------------------------------
(* Properties. *)

(* The bisection looks only at elements of the index: neither end leaves   *)
(* it, whatever the offset looked for (BinarySearch, mapping.go:252-279).  *)
SearchInBounds ==
    \A t \in Threads : pc[t] = "search" =>
        /\ 0 <= low[t] /\ low[t] <= high[t] + 1 /\ high[t] < seen[t].n
        /\ \A i \in DOMAIN seen[t].offsets :
              /\ i < low[t] => seen[t].offsets[i] < seeking[t]
              /\ i > high[t] => seen[t].offsets[i] > seeking[t]

(* The buckets between which the search ends lead to every mapping that    *)
(* covers the offset, and to each translation once (findMatchingOffsets).  *)
LocationsExact ==
    \A t \in Threads : pc[t] = "done" =>
        starts[t] = Locations(mappings, query[t].side, query[t].pos)

(* A range lookup gives what the mappings say, and never an end before its *)
(* start, also when start and end come from different mappings.            *)
RangesExact ==
    \A t \in Threads : pc[t] = "done" /\ query[t].kind = "range" =>
        LET q == query[t]
        IN  /\ q.fallback => ranges[t] = Ranges(mappings, q.side, q)
            /\ \A r \in ranges[t] : r.pos <= r.end

(* What an offset maps to through a mapping of equal lengths maps back to  *)
(* it: a position found in the editor and sent back finds the same place   *)
(* (positionToService, positionFromService).                               *)
LocationsComeBack ==
    \A t \in Threads : pc[t] = "done" =>
        \A h \in starts[t] :
            Length(mappings[h.by], "source") = Length(mappings[h.by], "service") =>
                [offset |-> query[t].pos, by |-> h.by]
                    \in Locations(mappings, Other(query[t].side), h.offset)
=============================================================================
