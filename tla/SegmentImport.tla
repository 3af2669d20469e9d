--------------------------- MODULE SegmentImport ----------------------------
(***************************************************************************)
(* internal/golar/golar.go, sourceMapToMapping: a plugin that answers with *)
(* a source map (Svelte) gives segments, each where a piece of the         *)
(* generated text begins and what it was; a mapping is made of each when   *)
(* the next one is decoded, cut to where the two texts are equal.          *)
(*                                                                         *)
(* The segments are not fixed in advance: a step decodes one more.  A      *)
(* column is taken as a number of bytes; texts are sequences of bytes.     *)
(***************************************************************************)
EXTENDS Integers, Sequences, FiniteSets

CONSTANTS
    SourceText, ServiceText,
    MaxSegments,    \* bound: segments decoded
    None

ASSUME SegmentsAssumption ==
    /\ SourceText \in Seq(Int) /\ ServiceText \in Seq(Int)
    /\ MaxSegments \in Nat
    /\ None \notin [gen : Nat, source : Nat]

VARIABLES
    segments,   \* those decoded so far
    current,    \* the segment that waits for its end
    imported,   \* mappings
    importing   \* open, returned, panicked, or over

importVars == <<segments, current, imported, importing>>

(* A segment with a source of its own, in the first source, or neither.    *)
SourcePlaces == [index : {0, 1}, offset : 0..Len(SourceText)]
Segments == [gen : 0..Len(ServiceText), from : SourcePlaces \cup {None}]

ImportStart(phase) ==
    /\ segments = <<>>
    /\ current = None
    /\ imported = <<>>
    /\ importing = phase

(* The first n bytes at two places are equal and there. *)
Same(source, service, n) ==
    /\ source + n <= Len(SourceText) /\ service + n <= Len(ServiceText)
    /\ \A k \in 1..n : SourceText[source + k] = ServiceText[service + k]

(* Mutant: the common part is not looked for, only the whole is. *)
SameLengthWhole(source, service, n) == IF Same(source, service, n) THEN n ELSE 0

(* The chunks as they are, if equal; else what they have in common: the    *)
(* lengths that are the same are those up to the greatest.                 *)
SameLength(source, service, n) == Cardinality({k \in 1..n : Same(source, service, k)})

Piece(c, n) == [source |-> c.source, service |-> c.gen, sourceLen |-> n, serviceLen |-> 0]

Continues(c) ==
    imported # <<>> /\
        LET last == imported[Len(imported)]
        IN  /\ last.service + last.sourceLen = c.gen
            /\ last.source + last.sourceLen = c.source

(* The current segment ends where the next begins.                         *)
WithPiece(gen) ==
    IF current = None THEN imported
    ELSE LET n == SameLength(current.source, current.gen, gen - current.gen)
         IN  IF n = 0 THEN imported
             ELSE IF Continues(current)
                  THEN [imported EXCEPT ![Len(imported)].sourceLen = @ + n]
                  ELSE Append(imported, Piece(current, n))

(* The distance is unsigned: a segment that lies before the one it ends    *)
(* gives a length with which the generated text cannot be sliced.          *)
Backwards(gen) == current # None /\ gen < current.gen

DecodeSegment(s) ==
    /\ importing = "open" /\ Len(segments) < MaxSegments
    /\ segments' = Append(segments, s)
    /\ \/ /\ ~Backwards(s.gen)
          /\ imported' = WithPiece(s.gen)
          /\ current' = IF s.from = None \/ s.from.index # 0 THEN None
                        ELSE [gen |-> s.gen, source |-> s.from.offset]
          /\ UNCHANGED importing
       \/ /\ Backwards(s.gen)
          /\ importing' = "panicked"
          /\ UNCHANGED <<imported, current>>

EndOfSegments ==
    /\ importing = "open"
    /\ importing' = "returned"
    /\ UNCHANGED <<segments, current, imported>>

ImportStep == EndOfSegments \/ \E s \in Segments : DecodeSegment(s)

-----------------------------------------------------------------------------
(* Properties. *)

(* The bytes the segments relate: each from its place on, to the next      *)
(* segment, as far as the texts agree.  The last segment relates none.     *)
Related ==
    UNION {LET s == segments[i]
           IN  {<<s.from.offset + k, s.gen + k>> :
                   k \in {j \in 0..(segments[i + 1].gen - s.gen - 1) :
                             Same(s.from.offset, s.gen, j + 1)}} :
           i \in {j \in 1..(Len(segments) - 1) : segments[j].from # None /\ segments[j].from.index = 0}}

RelatedBy(m) == {<<m.source + k, m.service + k>> : k \in 0..(m.sourceLen - 1)}

InOrder == \A i \in 1..(Len(segments) - 1) : segments[i].gen <= segments[i + 1].gen

(* The mappings relate exactly these bytes, whatever order the segments    *)
(* are in; if it is that of the generated text, no generated byte twice,   *)
(* and never two mappings that could be one (sourceMapToMapping).          *)
ImportExact ==
    importing \in {"open", "returned"} =>
        /\ UNION {RelatedBy(imported[i]) : i \in DOMAIN imported} = Related
        /\ InOrder => \A i, j \in DOMAIN imported : i < j =>
              /\ imported[i].service + imported[i].sourceLen <= imported[j].service
              /\ j = i + 1 /\ imported[i].service + imported[i].sourceLen = imported[j].service
                    => imported[i].source + imported[i].sourceLen # imported[j].source
=============================================================================
