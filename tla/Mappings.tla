------------------------------ MODULE Mappings ------------------------------
(***************************************************************************)
(* internal/mapping/mapping.go: what a source map says.  A mapping relates *)
(* a range of the .vue file (the source side) to a range of the generated  *)
(* TypeScript (the service side).                                          *)
(***************************************************************************)
EXTENDS Integers

Mapping(Offsets, Lengths) ==
    [source : Offsets, service : Offsets, sourceLen : Lengths, serviceLen : Lengths]

Sides == {"source", "service"}
Other(side) == IF side = "source" THEN "service" ELSE "source"

Lesser(a, b) == IF a < b THEN a ELSE b
Greater(a, b) == IF a > b THEN a ELSE b

Start(m, side) == IF side = "source" THEN m.source ELSE m.service

(* A service length of zero stands for the source length. *)
Length(m, side) ==
    IF side = "service" /\ m.serviceLen > 0 THEN m.serviceLen ELSE m.sourceLen

End(m, side) == Start(m, side) + Length(m, side)

(* Both ends of a mapping belong to it. *)
Covers(m, side, offset) == Start(m, side) <= offset /\ offset <= End(m, side)

(* Mutant: the distance from the start is not taken. *)
TranslateFromZero(m, side, offset) ==
    Start(m, Other(side)) + Lesser(offset, Length(m, Other(side)))

(* TranslateOffset, where it succeeds: an offset past the end of the other *)
(* range is clamped to it.                                                 *)
Translate(m, side, offset) ==
    Start(m, Other(side)) + Lesser(offset - Start(m, side), Length(m, Other(side)))

-----------------------------------------------------------------------------
(* The reference answers.  ms is a list of mappings; the Go code iterates  *)
(* over a map, so the order of the answers is not determined: a set.       *)

Hit(ms, side, offset, i) == [offset |-> Translate(ms[i], side, offset), by |-> i]

Locations(ms, side, offset) ==
    {Hit(ms, side, offset, i) : i \in {k \in DOMAIN ms : Covers(ms[k], side, offset)}}

(* One mapping covers the start and the end. *)
DirectRanges(ms, side, starts, end) ==
    {[pos |-> h.offset, end |-> Translate(ms[h.by], side, end)] :
        h \in {g \in starts : Covers(ms[g.by], side, end)}}

(* Mutant: an end before the start is not skipped. *)
FallbackRangesAnyOrder(starts, ends) ==
    {[pos |-> h.offset, end |-> g.offset] : h \in starts, g \in ends}

(* The start through one mapping, the end through another, in order. *)
FallbackRanges(starts, ends) ==
    {r \in {[pos |-> h.offset, end |-> g.offset] : h \in starts, g \in ends} : r.pos <= r.end}

(* The ranges findMatchingStartEnd may return, fallbackToAnyMatch set.     *)
Ranges(ms, side, range) ==
    LET starts == Locations(ms, side, range.pos)
        direct == DirectRanges(ms, side, starts, range.end)
    IN  IF direct # {} THEN direct
        ELSE FallbackRanges(starts, Locations(ms, side, range.end))

(* core.TextRange.ContainedBy *)
ContainedBy(range, outer) == outer.pos <= range.pos /\ range.end <= outer.end
=============================================================================
