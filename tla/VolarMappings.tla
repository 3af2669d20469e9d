--------------------------- MODULE VolarMappings ---------------------------
(***************************************************************************)
(* packages/volar/src/index.ts, generate: what @vue/language-core says of  *)
(* a file becomes the mappings and ignored ranges of the plugin protocol.  *)
(* Volar counts UTF-16 units, the host bytes of UTF-8.                     *)
(*                                                                         *)
(* A text is the sequence of its UTF-16 units, each as the number of bytes *)
(* it takes: 1 to 3, or 4 for the first half of a pair and 0 for the       *)
(* second.  A Volar mapping is [pairs, genLens, mask]: its source and      *)
(* generated offsets and lengths, generated lengths of their own (or       *)
(* none), and the codes it must not report.                                *)
(***************************************************************************)
EXTENDS Integers, Sequences, FiniteSetsExt

(* A text, and one that decodes: halves only come in pairs (the host's     *)
(* texts are UTF-8, a half alone is a character of three bytes).           *)
IsText(text) ==
    /\ text \in Seq(0..4)
    /\ \A i \in DOMAIN text : text[i] = 4 => i < Len(text) /\ text[i + 1] = 0
    /\ \A i \in DOMAIN text : text[i] = 0 => i > 1 /\ text[i - 1] = 4

(* The first n of some numbers together.                                   *)
SumTo(v, n) ==
    LET sum[i \in 0..n] == IF i = 0 THEN 0 ELSE sum[i - 1] + v[i]
    IN  sum[n]

(* Buffer.byteLength of a slice: half a pair is replaced by a character of *)
(* three bytes.                                                            *)
UnitBytes(text, from, to, i) ==
    CASE text[i] = 4 -> IF i < to THEN 4 ELSE 3
      [] text[i] = 0 -> IF i > from + 1 THEN 0 ELSE 3
      [] OTHER -> text[i]

ByteLength(text, from, to) ==
    SumTo([i \in 1..(to - from) |-> UnitBytes(text, from, to, from + i)], to - from)

GeneratedLen(m, i) == IF m.genLens = <<>> THEN m.pairs[i].len ELSE m.genLens[i]

SourceOffsets(ms) ==
    UNION {UNION {{ms[k].pairs[i].source, ms[k].pairs[i].source + ms[k].pairs[i].len} :
                     i \in DOMAIN ms[k].pairs} : k \in DOMAIN ms}

ServiceOffsets(ms) ==
    UNION {UNION {{ms[k].pairs[i].service, ms[k].pairs[i].service + GeneratedLen(ms[k], i)} :
                     i \in DOMAIN ms[k].pairs} : k \in DOMAIN ms}

(* sourceOffsetsUtf8 and serviceOffsetsUtf8: the slices between an offset  *)
(* and the one before it in order are summed up.                           *)
OffsetBefore(offsets, y) == Max({0} \cup {z \in offsets : z < y})

Utf8(text, offsets, x) ==
    SumTo([y \in 1..x |-> IF y \in offsets THEN ByteLength(text, OffsetBefore(offsets, y), y) ELSE 0], x)

-----------------------------------------------------------------------------
(* The emitted mappings.  Their generated length has a name the protocol   *)
(* does not read (serviceLengths), so createServiceCode in packages/plugin *)
(* sends the source length in its place.                                   *)

(* Mutant: the mapping's length is not converted. *)
SentRawLength(file, m, i) ==
    LET src == Utf8(file.source, SourceOffsets(file.mappings), m.pairs[i].source)
    IN  [source |-> src,
         service |-> Utf8(file.service, ServiceOffsets(file.mappings), m.pairs[i].service),
         sourceLen |-> m.pairs[i].len, serviceLen |-> m.pairs[i].len]

Sent(file, m, i) ==
    LET src == Utf8(file.source, SourceOffsets(file.mappings), m.pairs[i].source)
        len == Utf8(file.source, SourceOffsets(file.mappings), m.pairs[i].source + m.pairs[i].len) - src
    IN  [source |-> src,
         service |-> Utf8(file.service, ServiceOffsets(file.mappings), m.pairs[i].service),
         sourceLen |-> len, serviceLen |-> len]

(* flatMap sends the lists, one for each Volar mapping, as one, and the    *)
(* masks in the same order: k and i stand for the place in it.             *)
SentMappings(file) ==
    [k \in DOMAIN file.mappings |->
        [i \in DOMAIN file.mappings[k].pairs |-> Sent(file, file.mappings[k], i)]]

SuppressedCodes(file) ==
    [k \in DOMAIN file.mappings |->
        [i \in DOMAIN file.mappings[k].pairs |-> file.mappings[k].mask]]

-----------------------------------------------------------------------------
(* What no mapping covers is ignored. *)

CoveredBy(file, m, i) ==
    [pos |-> Utf8(file.service, ServiceOffsets(file.mappings), m.pairs[i].service),
     end |-> Utf8(file.service, ServiceOffsets(file.mappings), m.pairs[i].service + GeneratedLen(m, i))]

ServiceCovered(file) ==
    UNION {{CoveredBy(file, file.mappings[k], i) :
               i \in {j \in DOMAIN file.mappings[k].pairs : GeneratedLen(file.mappings[k], j) > 0}} :
           k \in DOMAIN file.mappings}

Before(r, s) == r.pos < s.pos \/ (r.pos = s.pos /\ r.end < s.end)

(* Mutant: the end of the range inside another becomes the end of both. *)
AbsorbLastEnd(merged, r) ==
    IF merged # <<>> /\ r.pos <= merged[Len(merged)].end
    THEN [merged EXCEPT ![Len(merged)].end = r.end]
    ELSE Append(merged, r)

Absorb(merged, r) ==
    IF merged # <<>> /\ r.pos <= merged[Len(merged)].end
    THEN [merged EXCEPT ![Len(merged)].end = Max({@, r.end})]
    ELSE Append(merged, r)

InOrder(ranges) ==
    CHOOSE s \in [1..Cardinality(ranges) -> ranges] :
        \A i, j \in 1..Cardinality(ranges) : i < j => Before(s[i], s[j])

(* The first n ranges of a list merged.                                    *)
Merging(s, n) ==
    LET merged[k \in 0..n] == IF k = 0 THEN <<>> ELSE Absorb(merged[k - 1], s[k])
    IN  merged[n]

Merged(file) == Merging(InOrder(ServiceCovered(file)), Cardinality(ServiceCovered(file)))

(* The gaps before, between and, empty or not, behind the merged ranges.   *)
EndOf(merged, k) == IF k = 0 THEN 0 ELSE merged[k].end

Gaps(merged, total) ==
    {[pos |-> EndOf(merged, k - 1), end |-> merged[k].pos] :
        k \in {j \in DOMAIN merged : merged[j].pos > EndOf(merged, j - 1)}}
      \cup {[pos |-> EndOf(merged, Len(merged)), end |-> total]}

IgnoreMappings(file) == Gaps(Merged(file), ByteLength(file.service, 0, Len(file.service)))

Generate(file) ==
    [mappings |-> SentMappings(file), ignored |-> IgnoreMappings(file),
     masks |-> SuppressedCodes(file)]

-----------------------------------------------------------------------------
(* What a file is, and what its conversion should be, of a text as a whole.*)

(* Mappings begin and end inside the texts.                                *)
WithinTexts(file) ==
    /\ IsText(file.source) /\ IsText(file.service)
    /\ \A k \in DOMAIN file.mappings : \A i \in DOMAIN file.mappings[k].pairs :
          LET p == file.mappings[k].pairs[i]
              n == GeneratedLen(file.mappings[k], i)
          IN  /\ {p.source, p.service, p.len, n} \subseteq Nat
              /\ p.source + p.len <= Len(file.source)
              /\ p.service + n <= Len(file.service)

(* A byte of a range, and of a mapping as the host reads it.               *)
Holds(r, b) == r.pos <= b /\ b < r.end

InSent(sent, b) ==
    \E k \in DOMAIN sent : \E i \in DOMAIN sent[k] :
        sent[k][i].service <= b /\ b < sent[k][i].service + sent[k][i].serviceLen

Bytes(text, x) == ByteLength(text, 0, x)

SplitsPair(text, x) == x > 0 /\ x < Len(text) /\ text[x] = 4

(* No mapping begins or ends between the halves of a pair.                 *)
WholeCharacters(file) ==
    /\ \A x \in SourceOffsets(file.mappings) : ~SplitsPair(file.source, x)
    /\ \A x \in ServiceOffsets(file.mappings) : ~SplitsPair(file.service, x)

(* Every mapping's generated text is as long as its source, in bytes too.  *)
SameLengths(file) ==
    \A k \in DOMAIN file.mappings : \A i \in DOMAIN file.mappings[k].pairs :
        LET p == file.mappings[k].pairs[i]
        IN  ByteLength(file.source, p.source, p.source + p.len)
              = ByteLength(file.service, p.service, p.service + GeneratedLen(file.mappings[k], i))
=============================================================================
