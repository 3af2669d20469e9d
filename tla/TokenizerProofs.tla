--------------------------- MODULE TokenizerProofs ---------------------------
(***************************************************************************)
(* Proofs about Tokenizer, for every text that is built from the frames:   *)
(* the tokenizer's and the parser's idea of v-pre agree, v-pre is in force *)
(* exactly while its element is open, and only known panics happen.        *)
(*                                                                         *)
(* The handlers are functions of worlds, so a lemma is about the world     *)
(* after one of them.  Like, Closings and the other relations say what a   *)
(* callback leaves as it was; the Reads lemmas, one for each handler, say  *)
(* that it leads from one state of the tokenizer into another without      *)
(* losing track of the start tag that is read and of v-pre.  In the second *)
(* half the Core lemmas say what a callback makes of the tree, and the     *)
(* Lands lemmas where a handler leaves the tokenizer (Fine).               *)
(***************************************************************************)
EXTENDS Tokenizer, FiniteSetTheorems, SequenceTheorems, WellFoundedInduction, TLAPS

-----------------------------------------------------------------------------
(* Numbers. *)

(* A set of numbers that is not empty has a least one.                     *)
LEMMA LeastNat ==
    ASSUME NEW S \in SUBSET Nat, S # {}
    PROVE  \E m \in S : \A k \in S : m <= k
<1>. DEFINE R == StrictSubsetOrdering(Nat)
            T == {1..k : k \in S}
<1>1. T \subseteq FiniteSubsetsOf(Nat) /\ T # {}
  <2>1. ASSUME NEW k \in S PROVE 1..k \in FiniteSubsetsOf(Nat)
    <3>1. IsFiniteSet(1..k)
      BY FS_Interval
    <3>2. 1..k \in SUBSET Nat
      OBVIOUS
    <3>. QED
      BY <3>1, <3>2 DEF FiniteSubsetsOf
  <2>. QED
    BY <2>1
<1>2. IsWellFoundedOn(R, FiniteSubsetsOf(Nat))
  BY FS_StrictSubsetOrderingWellFounded
<1>3. PICK x \in T : \A y \in T : <<y, x>> \notin R
  <2>. HIDE DEF R, T
  <2>. QED
    BY <1>1, <1>2, WFMin
<1>4. PICK m \in S : x = 1..m
  OBVIOUS
<1>5. ASSUME NEW k \in S, k < m PROVE FALSE
  <2>1. 1..k \subseteq 1..m /\ 1..k # 1..m
    BY <1>5
  <2>2. <<1..k, 1..m>> \in R
    BY <2>1 DEF StrictSubsetOrdering
  <2>. QED
    BY <1>3, <1>4, <2>2
<1>. QED
  BY <1>5

(* Induction over numbers, of which a set holds.                           *)
LEMMA Induction ==
    ASSUME NEW n \in Nat, NEW S, \A i \in 0..n : (\A j \in 0..(i - 1) : j \in S) => i \in S
    PROVE  \A i \in 0..n : i \in S
<1>. DEFINE T == {i \in 0..n : i \notin S}
<1>1. SUFFICES ASSUME T # {} PROVE FALSE
  OBVIOUS
<1>2. T \in SUBSET Nat
  OBVIOUS
<1>3. PICK m \in T : \A k \in T : m <= k
  <2>. HIDE DEF T
  <2>. QED
    BY <1>1, <1>2, LeastNat
<1>4. ASSUME NEW j \in 0..(m - 1) PROVE j \in S
  BY <1>3
<1>. QED
  BY <1>3, <1>4

(* The least of some numbers.                                              *)
LEMMA MinIs ==
    ASSUME NEW S \in SUBSET Nat, S # {}
    PROVE  Min(S) \in S /\ \A k \in S : Min(S) <= k
BY LeastNat DEF Min

-----------------------------------------------------------------------------
(* Texts. *)

(* Sequences of anything. *)
AnySeq(s) == \E S : s \in Seq(S)

(* Its length and domain. *)
LEMMA SeqIs ==
    ASSUME NEW s, AnySeq(s)
    PROVE  Len(s) \in Nat /\ DOMAIN s = 1..Len(s) /\ (s = <<>> <=> Len(s) = 0)
BY DEF AnySeq

(* A sequence with one more at its end. *)
LEMMA SeqEnds ==
    ASSUME NEW s, AnySeq(s), NEW x
    PROVE  /\ AnySeq(<<>>) /\ AnySeq(<<x>>) /\ AnySeq(Append(s, x))
           /\ Len(Append(s, x)) = Len(s) + 1
           /\ \A i \in 1..Len(s) : Append(s, x)[i] = s[i]
           /\ Append(s, x)[Len(s) + 1] = x
<1>1. PICK S : s \in Seq(S)
  BY DEF AnySeq
<1>. DEFINE T == S \cup {x}
<1>2. s \in Seq(T)
  BY <1>1
<1>3. x \in T
  OBVIOUS
<1>. HIDE DEF T
<1>4. Append(s, x) \in Seq(T)
  BY <1>2, <1>3
<1>5. <<>> \in Seq(T) /\ <<x>> \in Seq(T)
  BY <1>3
<1>. QED
  BY <1>2, <1>3, <1>4, <1>5, AppendProperties DEF AnySeq

(* Texts one behind the other are a text.                                  *)
LEMMA TextsJoin ==
    ASSUME NEW s, IsText(s), NEW t, IsText(t)
    PROVE  IsText(s \o t)
<1>1. s \in Seq(STRING) /\ t \in Seq(STRING)
  BY DEF IsText
<1>2. s \o t \in Seq(STRING)
  BY <1>1
<1>3. /\ Len(s) \in Nat /\ Len(t) \in Nat
      /\ DOMAIN s = 1..Len(s) /\ DOMAIN t = 1..Len(t) /\ DOMAIN (s \o t) = 1..(Len(s) + Len(t))
      /\ \A i \in 1..(Len(s) + Len(t)) : (s \o t)[i] = IF i <= Len(s) THEN s[i] ELSE t[i - Len(s)]
  BY <1>1, <1>2, ConcatProperties
<1>4. ASSUME NEW i \in DOMAIN (s \o t), (s \o t)[i] = "~" PROVE i > 1 /\ (s \o t)[i - 1] = "W"
  <2>1. CASE i <= Len(s)
    <3>1. i \in DOMAIN s /\ s[i] = "~"
      BY <1>3, <1>4, <2>1
    <3>2. i > 1 /\ s[i - 1] = "W"
      BY <3>1 DEF IsText
    <3>3. i - 1 \in 1..(Len(s) + Len(t)) /\ i - 1 <= Len(s)
      BY <1>3, <2>1, <3>1, <3>2
    <3>. QED
      BY <1>3, <3>2, <3>3
  <2>2. CASE i > Len(s)
    <3>1. i - Len(s) \in DOMAIN t /\ t[i - Len(s)] = "~"
      BY <1>3, <1>4, <2>2
    <3>2. i - Len(s) > 1 /\ t[i - Len(s) - 1] = "W"
      BY <3>1 DEF IsText
    <3>3. i - 1 \in 1..(Len(s) + Len(t)) /\ ~(i - 1 <= Len(s)) /\ (i - 1) - Len(s) = i - Len(s) - 1
      BY <1>3, <2>2, <3>1, <3>2
    <3>. QED
      BY <1>3, <3>2, <3>3
  <2>. QED
    BY <1>3, <2>1, <2>2
<1>. QED
  BY <1>2, <1>4 DEF IsText

(* So are any number of them.                                              *)
LEMMA TextsFlatten ==
    ASSUME NEW n \in Nat, NEW P, \A text \in P : IsText(text), NEW s \in [1..n -> P]
    PROVE  IsText(FlattenSeq(s))
<1>1. Len(s) = n /\ s \in Seq(P)
  OBVIOUS
<1>2. CASE n = 0
  <2>1. s = <<>>
    BY <1>1, <1>2
  <2>2. FlattenSeq(s) = <<>>
    BY <2>1 DEF FlattenSeq
  <2>3. IsText(<<>>)
    BY DEF IsText
  <2>. QED
    BY <2>2, <2>3
<1>3. CASE n # 0
  <2>. DEFINE Joins(g, m) == g = [i \in 1..m |-> IF i = 1 THEN s[i] ELSE g[i - 1] \o s[i]]
              S == {m \in 0..n : \E g : Joins(g, m)}
  <2>1. ASSUME NEW m \in 0..n, \A j \in 0..(m - 1) : j \in S
        PROVE  m \in S
    <3>1. CASE m = 0
      <4>1. Joins(<<>>, 0)
        OBVIOUS
      <4>. QED
        BY <3>1, <4>1
    <3>2. CASE m # 0
      <4>1. m - 1 \in S
        <5>1. m - 1 \in 0..(m - 1)
          BY <3>2
        <5>. HIDE DEF S
        <5>. QED
          BY <2>1, <5>1
      <4>2. PICK g : Joins(g, m - 1)
        BY <4>1
      <4>. DEFINE h == [i \in 1..m |-> IF i = m THEN (IF m = 1 THEN s[m] ELSE g[m - 1] \o s[m]) ELSE g[i]]
      <4>3. ASSUME NEW i \in 1..m PROVE h[i] = IF i = 1 THEN s[i] ELSE h[i - 1] \o s[i]
        <5>1. CASE i = m
          <6>1. m # 1 => h[m - 1] = g[m - 1]
            BY <3>2
          <6>. QED
            BY <5>1, <6>1
        <5>2. CASE i # m
          <6>1. i \in 1..(m - 1) /\ h[i] = g[i]
            BY <5>2
          <6>2. g[i] = IF i = 1 THEN s[i] ELSE g[i - 1] \o s[i]
            BY <4>2, <6>1
          <6>3. i # 1 => h[i - 1] = g[i - 1]
            BY <6>1
          <6>. QED
            BY <6>1, <6>2, <6>3
        <5>. QED
          BY <5>1, <5>2
      <4>4. h = [i \in 1..m |-> h[i]]
        OBVIOUS
      <4>5. h = [i \in 1..m |-> IF i = 1 THEN s[i] ELSE h[i - 1] \o s[i]]
        <5>. HIDE DEF h
        <5>. QED
          BY <4>3, <4>4
      <4>6. Joins(h, m)
        BY <4>5
      <4>. HIDE DEF Joins, h
      <4>. QED
        BY <4>6
    <3>. QED
      BY <3>1, <3>2
  <2>2. n \in S
    <3>1. \A m \in 0..n : (\A j \in 0..(m - 1) : j \in S) => m \in S
      BY <2>1
    <3>. HIDE DEF S
    <3>. QED
      BY <3>1, Induction
  <2>. DEFINE flatten == CHOOSE g : Joins(g, n)
  <2>3. flatten = [i \in 1..n |-> IF i = 1 THEN s[i] ELSE flatten[i - 1] \o s[i]]
    BY <2>2
  <2>4. FlattenSeq(s) = flatten[n]
    BY <1>1, <1>3 DEF FlattenSeq
  <2>. DEFINE T == {m \in 0..n : m # 0 => IsText(flatten[m])}
  <2>5. ASSUME NEW m \in 0..n, \A j \in 0..(m - 1) : j \in T
        PROVE  m \in T
    <3>. SUFFICES ASSUME m # 0 PROVE IsText(flatten[m])
      OBVIOUS
    <3>1. flatten[m] = IF m = 1 THEN s[m] ELSE flatten[m - 1] \o s[m]
      <4>1. m \in 1..n
        OBVIOUS
      <4>. HIDE DEF flatten
      <4>. QED
        BY <2>3, <4>1
    <3>2. IsText(s[m])
      OBVIOUS
    <3>3. m # 1 => IsText(flatten[m - 1])
      <4>. HIDE DEF flatten
      <4>. QED
        BY <2>5
    <3>. HIDE DEF flatten
    <3>. QED
      BY <3>1, <3>2, <3>3, TextsJoin
  <2>6. n \in T
    <3>1. \A m \in 0..n : (\A j \in 0..(m - 1) : j \in T) => m \in T
      BY <2>5
    <3>. HIDE DEF T
    <3>. QED
      BY <3>1, Induction
  <2>7. IsText(flatten[n])
    <3>. HIDE DEF flatten
    <3>. QED
      BY <1>3, <2>6
  <2>. QED
    BY <2>4, <2>7
<1>. QED
  BY <1>2, <1>3

(* The .vue file is one.                                                   *)
LEMMA SourceIsText == Init => IsText(source)
<1>. SUFFICES ASSUME Init PROVE IsText(source)
  OBVIOUS
<1>1. PICK frame \in Frames : \E n \in 0..Fragments : \E chosen \in [1..n -> frame.pieces] :
         source = frame.before \o FlattenSeq(chosen) \o frame.after
  BY DEF Init
<1>2. PICK n \in 0..Fragments : \E chosen \in [1..n -> frame.pieces] :
         source = frame.before \o FlattenSeq(chosen) \o frame.after
  BY <1>1
<1>3. PICK chosen \in [1..n -> frame.pieces] : source = frame.before \o FlattenSeq(chosen) \o frame.after
  BY <1>2
<1>4. /\ IsText(frame.before) /\ IsText(frame.after) /\ \A text \in frame.pieces : IsText(text)
      /\ n \in Nat
  BY FramesAssumption
<1>5. IsText(FlattenSeq(chosen))
  BY <1>4, TextsFlatten
<1>6. IsText(frame.before \o FlattenSeq(chosen))
  BY <1>4, <1>5, TextsJoin
<1>. QED
  BY <1>3, <1>4, <1>6, TextsJoin

(* Its size, its bytes and its slices.                                     *)
LEMMA SourceIs ==
    ASSUME IsText(source)
    PROVE  /\ Size \in Nat
           /\ \A i \in 0..(Size - 1) : At(i) \in STRING
           /\ \A i \in 0..(Size - 1) : At(i) = "~" => i > 0 /\ At(i - 1) = "W"
<1>1. source \in Seq(STRING)
  BY DEF IsText
<1>2. Len(source) \in Nat /\ DOMAIN source = 1..Len(source)
  BY <1>1
<1>3. ASSUME NEW i \in 0..(Size - 1) PROVE At(i) \in STRING /\ (At(i) = "~" => i > 0 /\ At(i - 1) = "W")
  <2>1. i + 1 \in DOMAIN source /\ (i + 1) - 1 = (i - 1) + 1
    BY <1>2 DEF Size
  <2>2. source[i + 1] \in STRING
    BY <1>1, <2>1
  <2>3. source[i + 1] = "~" => i + 1 > 1 /\ source[(i + 1) - 1] = "W"
    BY <2>1 DEF IsText
  <2>. QED
    BY <1>2, <2>1, <2>2, <2>3 DEF At
<1>. QED
  BY <1>2, <1>3 DEF Size

LEMMA SliceIs ==
    ASSUME IsText(source), NEW a \in Nat, NEW b \in Nat, a <= b, b <= Size
    PROVE  /\ Slice(a, b) \in Seq(STRING)
           /\ Len(Slice(a, b)) = b - a
           /\ \A k \in 1..(b - a) : Slice(a, b)[k] = At(a + k - 1)
<1>1. source \in Seq(STRING) /\ Size \in Nat /\ Size = Len(source)
  BY SourceIs DEF IsText, Size
<1>2. a + 1 \in Int /\ \A i \in (a + 1)..b : source[i] \in STRING
  BY <1>1
<1>3. /\ SubSeq(source, a + 1, b) \in Seq(STRING)
      /\ Len(SubSeq(source, a + 1, b)) = IF a + 1 <= b THEN b - (a + 1) + 1 ELSE 0
      /\ \A k \in 1..(b - (a + 1) + 1) : SubSeq(source, a + 1, b)[k] = source[(a + 1) + k - 1]
  BY <1>2, SubSeqProperties
<1>4. b - (a + 1) + 1 = b - a /\ (a + 1 <= b \/ b - a = 0)
  OBVIOUS
<1>5. \A k \in 1..(b - a) : (a + 1) + k - 1 = (a + k - 1) + 1
  OBVIOUS
<1>. QED
  BY <1>3, <1>4, <1>5 DEF Slice, At

-----------------------------------------------------------------------------
(* What a callback does not touch. *)

TokFields ==
    {"state", "sectionStart", "index", "inRCDATA", "inVPre", "currentSequence", "sequenceIndex", "done"}
ParFields ==
    {"nodes", "stack", "openTag", "prop", "attrStart", "attrEnd", "inVPre", "vPreBoundary", "errors", "panic"}

(* A tokenizer that is reading, and a parser. *)
World(w) ==
    /\ DOMAIN w = {"tok", "par"} /\ DOMAIN w.tok = TokFields /\ DOMAIN w.par = ParFields
    /\ AnySeq(w.par.nodes) /\ AnySeq(w.par.stack)
    /\ w.tok.index \in Int /\ w.tok.index >= -1 /\ Size \in Nat
    /\ ~w.tok.done

Calm(w) == w.par.panic = "no"

(* After w came v: the same place, the same tags are open. *)
Like(w, v) ==
    /\ World(v)
    /\ Calm(v) => Calm(w)
    /\ v.tok.state = w.tok.state /\ v.tok.index = w.tok.index
    /\ v.tok.inVPre = w.tok.inVPre /\ v.par.inVPre = w.par.inVPre
    /\ v.par.vPreBoundary = w.par.vPreBoundary
    /\ v.par.openTag = w.par.openTag /\ v.par.stack = w.par.stack

(* What a sequence becomes when an entry is changed. *)
LEMMA SeqPut ==
    ASSUME NEW s, AnySeq(s), NEW t, DOMAIN t = DOMAIN s, t = [i \in DOMAIN t |-> t[i]]
    PROVE  AnySeq(t)
<1>1. Len(s) \in Nat /\ DOMAIN t = 1..Len(s)
  BY SeqIs
<1>. DEFINE S == {t[i] : i \in 1..Len(s)}
<1>2. \A i \in 1..Len(s) : t[i] \in S
  OBVIOUS
<1>3. t \in [1..Len(s) -> S]
  <2>. HIDE DEF S
  <2>. QED
    BY <1>1, <1>2
<1>4. t \in Seq(S)
  <2>. HIDE DEF S
  <2>. QED
    BY <1>1, <1>3
<1>. QED
  BY <1>4 DEF AnySeq

LEMMA LikeError ==
    ASSUME NEW w, World(w), NEW msg, NEW pos PROVE Like(w, EmitError(w, msg, pos))
BY DEF Like, World, Calm, EmitError, TokFields, ParFields

LEMMA LikePanic ==
    ASSUME NEW w, World(w), NEW where, where # "no"
    PROVE  Like(w, Panic(w, where)) /\ ~Calm(Panic(w, where))
BY DEF Like, World, Calm, Panic, TokFields, ParFields

LEMMA LikeItself == ASSUME NEW w, World(w) PROVE Like(w, w)
BY DEF Like

LEMMA LikeThen ==
    ASSUME NEW u, NEW w, NEW v, Like(u, w), Like(w, v) PROVE Like(u, v)
BY DEF Like

LEMMA LikeText ==
    ASSUME NEW w, World(w), NEW a, NEW b PROVE Like(w, Ontext(w, a, b))
<1>1. Like(w, AddNode(w, "text", a, b))
  BY SeqEnds DEF Like, World, Calm, AddNode, TokFields, ParFields
<1>2. ASSUME NEW i PROVE Like(w, [w EXCEPT !.par.nodes[i].end = b])
  <2>. DEFINE v == [w EXCEPT !.par.nodes[i].end = b]
  <2>1. DOMAIN v.par.nodes = DOMAIN w.par.nodes /\ v.par.nodes = [k \in DOMAIN v.par.nodes |-> v.par.nodes[k]]
    BY DEF World, TokFields, ParFields
  <2>2. AnySeq(v.par.nodes)
    <3>. HIDE DEF v
    <3>. QED
      BY <2>1, SeqPut DEF World
  <2>. QED
    BY <2>2 DEF Like, World, Calm, TokFields, ParFields
<1>3. Like(w, AddText(w, a, b))
  BY <1>1, <1>2 DEF AddText
<1>. QED
  BY <1>3, LikeItself, LikePanic DEF Ontext, WithSlice

LEMMA LikeInterpolation ==
    ASSUME NEW w, World(w), NEW a, NEW b PROVE Like(w, Oninterpolation(w, a, b))
<1>1. Like(w, AddNode(w, "interpolation", a, b))
  BY SeqEnds DEF Like, World, Calm, AddNode, TokFields, ParFields
<1>. QED
  BY <1>1, LikeItself, LikePanic, LikeText DEF Oninterpolation, WithSlice

LEMMA LikeComment ==
    ASSUME NEW w, World(w), NEW a, NEW b PROVE Like(w, Oncomment(w, a, b))
<1>1. Like(w, AddNode(w, "comment", a - 4, b + 3))
  BY SeqEnds DEF Like, World, Calm, AddNode, TokFields, ParFields
<1>. QED
  BY <1>1, LikeItself, LikePanic DEF Oncomment, WithSlice

LEMMA LikeCommentLike ==
    ASSUME NEW w, World(w), NEW end PROVE Like(w, EndCommentLike(w, end))
BY LikeComment, LikeError DEF EndCommentLike, Oncdata

LEMMA LikeInstruction ==
    ASSUME NEW w, World(w), NEW a, NEW b PROVE Like(w, Onprocessinginstruction(w, a, b))
BY LikeError DEF Onprocessinginstruction

LEMMA LikeAttribname ==
    ASSUME NEW w, World(w), NEW a, NEW b PROVE Like(w, Onattribname(w, a, b))
<1>1. ASSUME NEW name PROVE Like(w, [w EXCEPT !.par.prop = Prop("attribute", name, a, b)])
  BY DEF Like, World, Calm, TokFields, ParFields
<1>. QED
  BY <1>1, LikeItself, LikePanic DEF Onattribname, WithSlice

LEMMA LikeArg ==
    ASSUME NEW w, World(w), NEW a, NEW b
    PROVE  Like(w, Ondirarg(w, a, b)) /\ Like(w, Ondirmodifier(w, a, b))
<1>1. Like(w, [w EXCEPT !.par.prop.end = b])
  BY DEF Like, World, Calm, TokFields, ParFields
<1>2. Like(w, ArgOrModifier(w, a, b))
  BY <1>1, LikeItself, LikePanic DEF ArgOrModifier, WithSlice
<1>. QED
  BY <1>2, LikeItself, LikePanic DEF Ondirarg, Ondirmodifier

LEMMA LikeAttribnameend ==
    ASSUME NEW w, World(w), NEW b PROVE Like(w, Onattribnameend(w, b))
BY LikeItself, LikePanic DEF Onattribnameend, WithSlice

LEMMA LikeAttribdata ==
    ASSUME NEW w, World(w), NEW a, NEW b PROVE Like(w, Onattribdata(w, a, b))
<1>1. Like(w, [w EXCEPT !.par.attrStart = IF @ < 0 THEN a ELSE @, !.par.attrEnd = b])
  BY DEF Like, World, Calm, TokFields, ParFields
<1>. QED
  BY <1>1, LikeItself, LikePanic DEF Onattribdata, WithSlice

(* Raw text is the tokenizer's own affair. *)
LEMMA LikeRCDATA ==
    ASSUME NEW w, World(w), NEW sequence, NEW offset PROVE Like(w, EnterRCDATA(w, sequence, offset))
BY DEF Like, World, Calm, EnterRCDATA, TokFields, ParFields

LEMMA LikeSequence ==
    ASSUME NEW w, World(w), NEW x
    PROVE  /\ Like(w, [w EXCEPT !.tok.sequenceIndex = x])
           /\ Like(w, [w EXCEPT !.tok.sectionStart = x])
           /\ Like(w, [w EXCEPT !.tok.inRCDATA = x])
           /\ Like(w, [w EXCEPT !.tok.currentSequence = x])
BY DEF Like, World, Calm, TokFields, ParFields

LEMMA LikeAttribend ==
    ASSUME NEW w, World(w), NEW quote, NEW end PROVE Like(w, Onattribend(w, quote, end))
<1>1. ASSUME NEW v, Like(w, v) PROVE Like(w, [v EXCEPT !.par.attrStart = -1, !.par.attrEnd = -1])
  BY <1>1 DEF Like, World, Calm, TokFields, ParFields
<1>2. ASSUME NEW v, Like(w, v), NEW i, NEW x
      PROVE  Like(w, [v EXCEPT !.par.nodes[i].props = Append(@, x)])
  <2>. DEFINE u == [v EXCEPT !.par.nodes[i].props = Append(@, x)]
  <2>1. /\ DOMAIN u.par.nodes = DOMAIN v.par.nodes /\ AnySeq(v.par.nodes)
        /\ u.par.nodes = [k \in DOMAIN u.par.nodes |-> u.par.nodes[k]]
    BY <1>2 DEF Like, World, TokFields, ParFields
  <2>2. AnySeq(u.par.nodes)
    <3>. HIDE DEF u
    <3>. QED
      BY <2>1, SeqPut
  <2>. QED
    BY <1>2, <2>2 DEF Like, World, Calm, TokFields, ParFields
<1>3. Like(w, EnterRCDATA(w, BlockEnd(Template), 0))
  BY LikeRCDATA
<1>4. ASSUME NEW v, Like(w, v), NEW msg, NEW pos PROVE Like(w, EmitError(v, msg, pos))
  BY <1>4, LikeError, LikeThen DEF Like
<1>5. Like(w, w)
  BY LikeItself
<1>. QED
  BY <1>1, <1>2, <1>3, <1>4, <1>5 DEF Onattribend

(* A jump ahead. *)
LEMMA Jumps ==
    ASSUME NEW w, World(w), NEW c
    PROVE  LET v == FastForwardTo(w, c)
           IN  /\ Like([w EXCEPT !.tok.index = v.tok.index], v)
               /\ World([w EXCEPT !.tok.index = v.tok.index])
<1>. DEFINE to == IF Ahead(w, c) = {} THEN Size - 1 ELSE Min(Ahead(w, c))
<1>1. w.tok.index \in Int /\ w.tok.index >= -1 /\ Size \in Nat
  BY DEF World
<1>2. Ahead(w, c) \in SUBSET Nat
  BY <1>1 DEF Ahead, Here
<1>3. to \in Int /\ to >= -1
  BY <1>1, <1>2, MinIs
<1>. HIDE DEF to
<1>4. FastForwardTo(w, c) = [w EXCEPT !.tok.index = to]
  BY DEF FastForwardTo, to
<1>. QED
  BY <1>3, <1>4 DEF Like, World, Calm, TokFields, ParFields

-----------------------------------------------------------------------------
(* v-pre and the open tags. *)

Scoped(w) ==
    /\ w.tok.inVPre = w.par.inVPre
    /\ w.par.inVPre <=> w.par.vPreBoundary # None
    /\ w.par.inVPre => w.par.vPreBoundary \in {w.par.openTag} \cup Range(w.par.stack)

Good(w) == World(w) /\ (Calm(w) => Scoped(w))

(* A start tag is being read. *)
Tagged(w) == Good(w) /\ (Calm(w) => w.par.openTag # None)
(* None is. *)
Plain(w) == Good(w) /\ (Calm(w) => w.par.openTag = None)

TagStates ==
    {"BeforeAttrName", "InSelfClosingTag", "InAttrName", "InDirName", "InDirArg", "InDirDynamicArg",
     "InDirModifier", "AfterAttrName", "BeforeAttrValue", "InAttrValueDq", "InAttrValueSq", "InAttrValueNq"}

(* The states of the tokenizer in which it is. *)
Phased(w) == IF w.tok.state \in TagStates THEN Tagged(w) ELSE Plain(w)

LEMMA GoodLike ==
    ASSUME NEW w, NEW v, Like(w, v)
    PROVE  /\ Good(w) => Good(v)
           /\ Tagged(w) => Tagged(v)
           /\ Plain(w) => Plain(v)
           /\ Phased(w) => Phased(v)
<1>1. Good(w) => Good(v)
  BY DEF Good, Scoped, Like
<1>2. Tagged(w) => Tagged(v)
  BY <1>1 DEF Tagged, Like
<1>3. Plain(w) => Plain(v)
  BY <1>1 DEF Plain, Like
<1>. QED
  BY <1>1, <1>2, <1>3 DEF Phased, Like

(* The index is not among what they speak of. *)
LEMMA GoodJumps ==
    ASSUME NEW w, NEW c
    PROVE  /\ Tagged(w) => Tagged(FastForwardTo(w, c))
           /\ Plain(w) => Plain(FastForwardTo(w, c))
           /\ World(w) => FastForwardTo(w, c).tok.state = w.tok.state
<1>. SUFFICES ASSUME World(w)
     PROVE  /\ Tagged(w) => Tagged(FastForwardTo(w, c))
            /\ Plain(w) => Plain(FastForwardTo(w, c))
            /\ FastForwardTo(w, c).tok.state = w.tok.state
  BY DEF Tagged, Plain, Good
<1>. DEFINE u == [w EXCEPT !.tok.index = FastForwardTo(w, c).tok.index]
<1>1. Like(u, FastForwardTo(w, c)) /\ World(u)
  BY Jumps
<1>2. /\ u.tok.state = w.tok.state /\ u.par = w.par /\ u.tok.inVPre = w.tok.inVPre
  BY DEF World, TokFields
<1>. HIDE DEF u
<1>3. /\ Tagged(w) => Tagged(u)
      /\ Plain(w) => Plain(u)
  BY <1>1, <1>2 DEF Tagged, Plain, Good, Scoped, Calm
<1>. QED
  BY <1>1, <1>2, <1>3, GoodLike DEF Like

(* What a change of the state keeps. *)
LEMMA Goes ==
    ASSUME NEW w, NEW q, NEW start, World(w)
    PROVE  /\ Go(w, q).tok.state = q /\ GoAt(w, q, start).tok.state = q
           /\ Tagged(w) => Tagged(Go(w, q)) /\ Tagged(GoAt(w, q, start))
           /\ Plain(w) => Plain(Go(w, q)) /\ Plain(GoAt(w, q, start))
           /\ World(Go(w, q)) /\ World(GoAt(w, q, start))
           /\ Go(w, q).par = w.par /\ GoAt(w, q, start).par = w.par
           /\ Go(w, q).tok.index = w.tok.index /\ GoAt(w, q, start).tok.index = w.tok.index
<1>1. /\ Go(w, q).tok.state = q /\ GoAt(w, q, start).tok.state = q
      /\ World(Go(w, q)) /\ World(GoAt(w, q, start))
      /\ Go(w, q).par = w.par /\ GoAt(w, q, start).par = w.par
      /\ Go(w, q).tok.index = w.tok.index /\ GoAt(w, q, start).tok.index = w.tok.index
      /\ Go(w, q).tok.inVPre = w.tok.inVPre /\ GoAt(w, q, start).tok.inVPre = w.tok.inVPre
  BY DEF Go, GoAt, World, TokFields
<1>. QED
  BY <1>1 DEF Tagged, Plain, Good, Scoped, Calm

(* onopentagname: the tag that is read from now on. *)
LEMMA OpensTag ==
    ASSUME NEW w, Plain(w), NEW a, NEW b
    PROVE  LET v == Onopentagname(w, a, b) IN Tagged(v) /\ v.tok.state = w.tok.state
<1>. DEFINE new(name) ==
         [w EXCEPT !.par.nodes = Append(@, [Node("element", a - 1, b, Detached) EXCEPT !.tag = name]),
                   !.par.openTag = Len(w.par.nodes) + 1]
<1>1. World(w)
  BY DEF Plain, Good
<1>2. ASSUME NEW name PROVE Tagged(new(name)) /\ new(name).tok.state = w.tok.state
  <2>. DEFINE v == new(name)
  <2>1. /\ v.tok = w.tok /\ v.par.openTag = Len(w.par.nodes) + 1 /\ v.par.stack = w.par.stack
        /\ v.par.inVPre = w.par.inVPre /\ v.par.vPreBoundary = w.par.vPreBoundary /\ v.par.panic = w.par.panic
        /\ DOMAIN v = DOMAIN w /\ DOMAIN v.par = DOMAIN w.par
        /\ v.par.nodes = Append(w.par.nodes, [Node("element", a - 1, b, Detached) EXCEPT !.tag = name])
    BY <1>1 DEF World, TokFields, ParFields
  <2>2. AnySeq(v.par.nodes) /\ Len(w.par.nodes) \in Nat
    <3>1. AnySeq(w.par.nodes)
      BY <1>1 DEF World
    <3>2. \A x : AnySeq(Append(w.par.nodes, x))
      BY <3>1, SeqEnds
    <3>. HIDE DEF v
    <3>. QED
      BY <2>1, <3>1, <3>2, SeqIs
  <2>3. v.par.openTag # None
    <3>. HIDE DEF v
    <3>. QED
      BY <2>1, <2>2 DEF None
  <2>. HIDE DEF v
  <2>4. World(v)
    BY <1>1, <2>1, <2>2 DEF World
  <2>5. Calm(v) => Scoped(v)
    BY <2>1 DEF Plain, Good, Scoped, Calm
  <2>. QED
    BY <2>1, <2>3, <2>4, <2>5 DEF Tagged, Good, v
<1>3. Tagged(Panic(w, "onopentagname")) /\ Panic(w, "onopentagname").tok.state = w.tok.state
  BY <1>1, LikePanic DEF Tagged, Good, Like
<1>4. ~Calm(w) => Tagged(w)
  BY DEF Tagged, Plain, Good
<1>. QED
  BY <1>2, <1>3, <1>4 DEF Onopentagname, WithSlice, Calm

(* After w, v-pre is left if that element brought it. *)
Leaves(w, v, id) ==
    /\ World(v) /\ (Calm(v) => Calm(w))
    /\ v.tok.state = w.tok.state /\ v.tok.index = w.tok.index
    /\ v.par.openTag = w.par.openTag /\ v.par.stack = w.par.stack
    /\ Calm(v) =>
          IF w.par.vPreBoundary = id
          THEN v.tok.inVPre = FALSE /\ v.par.inVPre = FALSE /\ v.par.vPreBoundary = None
          ELSE /\ v.tok.inVPre = w.tok.inVPre /\ v.par.inVPre = w.par.inVPre
               /\ v.par.vPreBoundary = w.par.vPreBoundary

(* onCloseTag: v-pre is left with the element that brought it.             *)
LEMMA LeavesVPre ==
    ASSUME NEW w, World(w), NEW id, NEW end, NEW implied
    PROVE  Leaves(w, OnCloseTag(w, id, end, implied), id)
<1>. DEFINE ended ==
         [w EXCEPT !.par.nodes[id].end = IF implied THEN BackTrack(end, "<") ELSE LookAhead(end, ">") + 1,
                   !.par.nodes[id].closed = IF implied THEN "implied" ELSE "yes"]
<1>1. Like(w, ended)
  <2>1. /\ DOMAIN ended.par.nodes = DOMAIN w.par.nodes /\ AnySeq(w.par.nodes)
        /\ ended.par.nodes = [k \in DOMAIN ended.par.nodes |-> ended.par.nodes[k]]
    BY DEF World, TokFields, ParFields
  <2>2. AnySeq(ended.par.nodes)
    <3>. HIDE DEF ended
    <3>. QED
      BY <2>1, SeqPut
  <2>. QED
    BY <2>2 DEF Like, World, Calm, TokFields, ParFields
<1>2. EndRange(w, id, end, implied) =
         IF w.par.vPreBoundary # id THEN ended
         ELSE [ended EXCEPT !.tok.inVPre = FALSE, !.par.inVPre = FALSE, !.par.vPreBoundary = None]
  BY DEF EndRange
<1>. HIDE DEF ended
<1>3. Leaves(w, EndRange(w, id, end, implied), id)
  BY <1>1, <1>2 DEF Leaves, Like, World, Calm, TokFields, ParFields
<1>4. ASSUME NEW v, Leaves(w, v, id), NEW x PROVE Leaves(w, [v EXCEPT !.par.nodes[id].inner = x], id)
  <2>. DEFINE u == [v EXCEPT !.par.nodes[id].inner = x]
  <2>1. /\ DOMAIN u.par.nodes = DOMAIN v.par.nodes /\ AnySeq(v.par.nodes)
        /\ u.par.nodes = [k \in DOMAIN u.par.nodes |-> u.par.nodes[k]]
    BY <1>4 DEF Leaves, World, TokFields, ParFields
  <2>2. AnySeq(u.par.nodes)
    <3>. HIDE DEF u
    <3>. QED
      BY <2>1, SeqPut
  <2>. QED
    BY <1>4, <2>2 DEF Leaves, World, Calm, TokFields, ParFields
<1>5. ASSUME NEW where, where # "no" PROVE Leaves(w, Panic(w, where), id)
  BY <1>5, LikePanic DEF Leaves, Like
<1>. QED
  BY <1>3, <1>4, <1>5 DEF OnCloseTag

(* A sequence with one more before it, and without its first.              *)
LEMMA SeqPush ==
    ASSUME NEW s, AnySeq(s), NEW x
    PROVE  AnySeq(<<x>> \o s) /\ Range(<<x>> \o s) = {x} \cup Range(s)
<1>1. PICK S : s \in Seq(S)
  BY DEF AnySeq
<1>. DEFINE T == S \cup {x}
<1>2. s \in Seq(T) /\ <<x>> \in Seq(T)
  BY <1>1
<1>3. /\ <<x>> \o s \in Seq(T) /\ Len(s) \in Nat /\ DOMAIN s = 1..Len(s)
      /\ DOMAIN (<<x>> \o s) = 1..(1 + Len(s))
      /\ \A i \in 1..(1 + Len(s)) : (<<x>> \o s)[i] = IF i <= 1 THEN x ELSE s[i - 1]
  <2>. HIDE DEF T
  <2>. QED
    BY <1>2, ConcatProperties
<1>4. \A i \in 1..(1 + Len(s)) : (<<x>> \o s)[i] \in {x} \cup Range(s)
  BY <1>3 DEF Range
<1>5. (<<x>> \o s)[1] = x /\ 1 \in 1..(1 + Len(s))
  BY <1>3
<1>6. ASSUME NEW i \in 1..Len(s) PROVE (<<x>> \o s)[i + 1] = s[i] /\ i + 1 \in 1..(1 + Len(s))
  BY <1>3
<1>7. Range(<<x>> \o s) = {x} \cup Range(s)
  <2>1. x \in Range(<<x>> \o s)
    BY <1>3, <1>5 DEF Range
  <2>2. \A i \in 1..Len(s) : s[i] \in Range(<<x>> \o s)
    BY <1>3, <1>6 DEF Range
  <2>3. Range(s) \subseteq Range(<<x>> \o s)
    BY <1>3, <2>2 DEF Range
  <2>4. Range(<<x>> \o s) \subseteq {x} \cup Range(s)
    BY <1>3, <1>4 DEF Range
  <2>. QED
    BY <2>1, <2>3, <2>4
<1>. QED
  BY <1>3, <1>7 DEF AnySeq

LEMMA SeqPop ==
    ASSUME NEW s, AnySeq(s), s # <<>>
    PROVE  /\ AnySeq(Tail(s)) /\ Len(Tail(s)) = Len(s) - 1 /\ Len(s) \in Nat \ {0}
           /\ Range(s) = {Head(s)} \cup Range(Tail(s))
           /\ \A i \in 1..(Len(s) - 1) : Tail(s)[i] = s[i + 1]
<1>1. PICK S : s \in Seq(S)
  BY DEF AnySeq
<1>2. /\ Tail(s) \in Seq(S) /\ Len(Tail(s)) = Len(s) - 1 /\ Len(s) \in Nat \ {0} /\ Head(s) = s[1]
      /\ \A i \in 1..(Len(s) - 1) : Tail(s)[i] = s[i + 1]
      /\ DOMAIN s = 1..Len(s) /\ DOMAIN Tail(s) = 1..(Len(s) - 1)
  BY <1>1, HeadTailProperties
<1>3. ASSUME NEW i \in 1..Len(s), i # 1 PROVE s[i] = Tail(s)[i - 1] /\ i - 1 \in 1..(Len(s) - 1)
  <2>1. i - 1 \in 1..(Len(s) - 1) /\ (i - 1) + 1 = i
    BY <1>2, <1>3
  <2>. QED
    BY <1>2, <2>1
<1>4. \A i \in 1..(Len(s) - 1) : i + 1 \in 1..Len(s)
  BY <1>2
<1>5. Range(s) = {Head(s)} \cup Range(Tail(s))
  <2>1. Head(s) \in Range(s)
    BY <1>2 DEF Range
  <2>2. \A i \in 1..(Len(s) - 1) : Tail(s)[i] \in Range(s)
    BY <1>2, <1>4 DEF Range
  <2>3. Range(Tail(s)) \subseteq Range(s)
    BY <1>2, <2>2 DEF Range
  <2>4. \A i \in 1..(Len(s) - 1) : Tail(s)[i] \in Range(Tail(s))
    BY <1>2 DEF Range
  <2>5. \A i \in 1..Len(s) : s[i] \in {Head(s)} \cup Range(Tail(s))
    BY <1>2, <1>3, <2>4
  <2>6. Range(s) \subseteq {Head(s)} \cup Range(Tail(s))
    BY <1>2, <2>5 DEF Range
  <2>. QED
    BY <2>1, <2>3, <2>6
<1>. QED
  BY <1>2, <1>5 DEF AnySeq

(* The place, and the tag that is read, stay; v-pre may be left. *)
Kept(w, v) ==
    /\ Good(v) /\ (Calm(v) => Calm(w))
    /\ v.tok.state = w.tok.state /\ v.tok.index = w.tok.index
    /\ v.par.openTag = w.par.openTag

LEMMA PhasedKept ==
    ASSUME NEW w, NEW v, Kept(w, v)
    PROVE  (Tagged(w) => Tagged(v)) /\ (Plain(w) => Plain(v)) /\ (Phased(w) => Phased(v))
BY DEF Kept, Phased, Tagged, Plain

LEMMA KeptLike == ASSUME NEW w, NEW v, Good(w), Like(w, v) PROVE Kept(w, v)
BY GoodLike DEF Kept, Like

(* onopentagend: the tag becomes an open element, or is closed at once.    *)
LEMMA OpensElement ==
    ASSUME NEW w, Tagged(w), NEW end
    PROVE  LET v == Onopentagend(w, end) IN Plain(v) /\ v.tok.state = w.tok.state /\ v.tok.index = w.tok.index
<1>1. World(w)
  BY DEF Tagged, Good
<1>2. CASE ~Calm(w)
  BY <1>1, <1>2 DEF Onopentagend, Calm, Plain, Tagged, Good
<1>3. CASE Calm(w)
  <2>. DEFINE id == w.par.openTag
              added == [w EXCEPT !.par.nodes[id].parent = Top(w), !.par.nodes[id].open = end + 1]
              opened == IF w.par.nodes[id].tag \in VoidTags THEN OnCloseTag(added, id, end, FALSE)
                        ELSE [added EXCEPT !.par.stack = <<id>> \o @]
  <2>1. id # None
    BY <1>3 DEF Tagged
  <2>2. Onopentagend(w, end) = [opened EXCEPT !.par.openTag = None]
    BY <1>3, <2>1 DEF Onopentagend, Calm
  <2>3. Like(w, added)
    <3>1. /\ DOMAIN added.par.nodes = DOMAIN w.par.nodes /\ AnySeq(w.par.nodes)
          /\ added.par.nodes = [k \in DOMAIN added.par.nodes |-> added.par.nodes[k]]
      BY <1>1 DEF World, TokFields, ParFields
    <3>2. AnySeq(added.par.nodes)
      <4>. HIDE DEF added
      <4>. QED
        BY <3>1, SeqPut
    <3>. QED
      BY <1>1, <3>2 DEF Like, World, Calm, TokFields, ParFields
  <2>4. Good(added) /\ added.par.openTag = id
    <3>1. Good(w)
      BY DEF Tagged
    <3>2. added.par.openTag = id
      BY <1>1 DEF World, ParFields
    <3>. HIDE DEF added, id
    <3>. QED
      BY <2>3, <3>1, <3>2, GoodLike
  <2>. HIDE DEF added
  <2>5. CASE w.par.nodes[id].tag \in VoidTags
    <3>. DEFINE u == OnCloseTag(added, id, end, FALSE)
                v == [u EXCEPT !.par.openTag = None]
    <3>0. World(added)
      BY <2>4 DEF Good
    <3>1. Leaves(added, u, id)
      <4>. HIDE DEF id
      <4>. QED
        BY <3>0, LeavesVPre
    <3>. HIDE DEF u
    <3>2. /\ World(v) /\ v.tok = u.tok /\ v.par.openTag = None /\ v.par.panic = u.par.panic
          /\ v.par.stack = u.par.stack /\ v.par.inVPre = u.par.inVPre /\ v.par.vPreBoundary = u.par.vPreBoundary
      BY <3>1 DEF Leaves, World, ParFields
    <3>. HIDE DEF v
    <3>3. Calm(v) => Scoped(v)
      <4>. SUFFICES ASSUME Calm(v) PROVE Scoped(v)
        OBVIOUS
      <4>1. Calm(u) /\ Scoped(added)
        BY <2>4, <3>1, <3>2 DEF Leaves, Calm, Good
      <4>. QED
        BY <2>1, <2>4, <3>1, <3>2, <4>1 DEF Leaves, Scoped
    <3>4. Plain(v) /\ v.tok.state = w.tok.state /\ v.tok.index = w.tok.index
      BY <2>3, <3>1, <3>2, <3>3 DEF Leaves, Plain, Good, Like
    <3>. QED
      BY <2>2, <2>5, <3>4 DEF u, v
  <2>6. CASE w.par.nodes[id].tag \notin VoidTags
    <3>. DEFINE u == [added EXCEPT !.par.stack = <<id>> \o @]
                v == [u EXCEPT !.par.openTag = None]
    <3>1. World(added)
      BY <2>4 DEF Good
    <3>2. /\ DOMAIN v = DOMAIN added /\ DOMAIN v.par = DOMAIN added.par /\ v.tok = added.tok
          /\ v.par.nodes = added.par.nodes /\ v.par.panic = added.par.panic
          /\ v.par.openTag = None /\ v.par.stack = <<id>> \o added.par.stack
          /\ v.par.inVPre = added.par.inVPre /\ v.par.vPreBoundary = added.par.vPreBoundary
      BY <3>1 DEF World, TokFields, ParFields
    <3>. HIDE DEF v
    <3>3. AnySeq(v.par.stack) /\ Range(v.par.stack) = {id} \cup Range(added.par.stack)
      <4>1. AnySeq(added.par.stack)
        BY <3>1 DEF World
      <4>. HIDE DEF id
      <4>. QED
        BY <3>2, <4>1, SeqPush
    <3>4. World(v)
      BY <3>1, <3>2, <3>3 DEF World
    <3>5. Calm(v) => Scoped(v)
      BY <2>4, <3>2, <3>3 DEF Scoped, Calm, Good
    <3>6. Plain(v) /\ v.tok.state = w.tok.state /\ v.tok.index = w.tok.index
      BY <2>3, <3>2, <3>4, <3>5 DEF Plain, Good, Like
    <3>. QED
      BY <2>2, <2>6, <3>6 DEF v
  <2>. QED
    BY <2>5, <2>6
<1>. QED
  BY <1>2, <1>3

(* One open element is closed. *)
LEMMA ClosesTop ==
    ASSUME NEW w, Good(w), w.par.stack # <<>>, NEW end, NEW implied
    PROVE  LET v == CloseTop(w, end, implied) IN Kept(w, v) /\ v.par.stack = Tail(w.par.stack)
<1>. DEFINE u == [w EXCEPT !.par.stack = Tail(@)]
            v == OnCloseTag(u, Top(w), end, implied)
<1>1. World(w)
  BY DEF Good
<1>2. /\ u.tok = w.tok /\ u.par.stack = Tail(w.par.stack) /\ u.par.openTag = w.par.openTag
      /\ u.par.panic = w.par.panic /\ u.par.nodes = w.par.nodes
      /\ u.par.inVPre = w.par.inVPre /\ u.par.vPreBoundary = w.par.vPreBoundary
      /\ DOMAIN u = DOMAIN w /\ DOMAIN u.par = DOMAIN w.par
  BY <1>1 DEF World, ParFields
<1>. HIDE DEF u
<1>3. /\ AnySeq(u.par.stack) /\ Range(w.par.stack) = {Top(w)} \cup Range(u.par.stack)
  BY <1>1, <1>2, SeqPop DEF World, Top
<1>4. World(u)
  BY <1>1, <1>2, <1>3 DEF World
<1>5. Leaves(u, v, Top(w))
  BY <1>4, LeavesVPre
<1>6. CloseTop(w, end, implied) = v
  BY DEF CloseTop, u
<1>. HIDE DEF v
<1>7. Calm(v) => Calm(w)
  BY <1>2, <1>5 DEF Leaves, Calm
<1>8. Calm(v) => Scoped(v)
  BY <1>2, <1>3, <1>5, <1>7 DEF Leaves, Scoped, Good
<1>9. Kept(w, v) /\ v.par.stack = Tail(w.par.stack)
  BY <1>2, <1>5, <1>7, <1>8 DEF Leaves, Kept, Good
<1>. QED
  BY <1>6, <1>9

(* The worlds between the closings. *)
Closings(closed, w, n, end) ==
    /\ CloseTops(w, n, end) = closed[n]
    /\ closed[0] = IF n > 1 THEN EmitError(w, "Missing end tag", w.par.nodes[Top(w)].pos) ELSE w
    /\ \A j \in 1..n : closed[j] = CloseTop(closed[j - 1], end, j < n)

LEMMA CloseTopsIs ==
    ASSUME NEW w, NEW n \in Nat, NEW end
    PROVE  \E closed : Closings(closed, w, n, end)
<1>. DEFINE noted == IF n > 1 THEN EmitError(w, "Missing end tag", w.par.nodes[Top(w)].pos) ELSE w
            Closes(f, m) == f = [j \in 0..m |-> IF j = 0 THEN noted ELSE CloseTop(f[j - 1], end, j < n)]
            S == {m \in 0..n : \E f : Closes(f, m)}
<1>2. n \in Nat
  OBVIOUS
<1>3. ASSUME NEW m \in 0..n, \A j \in 0..(m - 1) : j \in S
      PROVE  m \in S
  <2>1. CASE m = 0
    <3>1. Closes([j \in 0..0 |-> noted], 0)
      <4>. HIDE DEF noted
      <4>. QED
        OBVIOUS
    <3>. HIDE DEF Closes
    <3>. QED
      BY <2>1, <3>1
  <2>2. CASE m # 0
    <3>1. m - 1 \in S
      <4>1. m - 1 \in 0..(m - 1)
        BY <1>2, <2>2
      <4>. HIDE DEF S
      <4>. QED
        BY <1>3, <4>1
    <3>2. PICK g : Closes(g, m - 1)
      <4>. HIDE DEF Closes
      <4>. QED
        BY <3>1
    <3>. DEFINE h == [j \in 0..m |-> IF j = m THEN CloseTop(g[m - 1], end, m < n) ELSE g[j]]
    <3>3. ASSUME NEW j \in 0..m PROVE h[j] = IF j = 0 THEN noted ELSE CloseTop(h[j - 1], end, j < n)
      <4>. HIDE DEF noted
      <4>1. CASE j = m
        <5>1. h[m - 1] = g[m - 1]
          BY <1>2, <2>2
        <5>. QED
          BY <2>2, <4>1, <5>1
      <4>2. CASE j # m
        <5>1. j \in 0..(m - 1) /\ h[j] = g[j]
          BY <1>2, <4>2
        <5>2. g[j] = IF j = 0 THEN noted ELSE CloseTop(g[j - 1], end, j < n)
          BY <3>2, <5>1
        <5>3. j # 0 => h[j - 1] = g[j - 1]
          BY <1>2, <5>1
        <5>. QED
          BY <5>1, <5>2, <5>3
      <4>. QED
        BY <4>1, <4>2
    <3>4. h = [j \in 0..m |-> h[j]]
      OBVIOUS
    <3>5. Closes(h, m)
      <4>. HIDE DEF h, noted
      <4>. QED
        BY <3>3, <3>4
    <3>. HIDE DEF h, Closes
    <3>. QED
      BY <3>5
  <2>. QED
    BY <2>1, <2>2
<1>4. n \in S
  <2>1. \A m \in 0..n : (\A j \in 0..(m - 1) : j \in S) => m \in S
    BY <1>3
  <2>2. n \in 0..n
    BY <1>2
  <2>. HIDE DEF S
  <2>. QED
    BY <1>2, <2>1, <2>2, Induction
<1>. DEFINE closed == CHOOSE f : Closes(f, n)
<1>5. closed = [j \in 0..n |-> IF j = 0 THEN noted ELSE CloseTop(closed[j - 1], end, j < n)]
  <2>1. \E f : Closes(f, n)
    <3>. HIDE DEF Closes
    <3>. QED
      BY <1>4
  <2>2. Closes(closed, n)
    <3>. HIDE DEF Closes
    <3>. QED
      BY <2>1
  <2>. HIDE DEF closed
  <2>. QED
    BY <2>2
<1>6. CloseTops(w, n, end) = closed[n]
  BY DEF CloseTops
<1>. HIDE DEF closed
<1>7. closed[0] = noted /\ \A j \in 1..n : closed[j] = CloseTop(closed[j - 1], end, j < n)
  <2>. HIDE DEF noted
  <2>. QED
    BY <1>5
<1>. QED
  BY <1>6, <1>7 DEF Closings

(* onclosetag: some open elements are closed, the last opened first.       *)
LEMMA ClosesTops ==
    ASSUME NEW w, Good(w), NEW n \in 1..Len(w.par.stack), NEW end
    PROVE  Kept(w, CloseTops(w, n, end))
<1>. DEFINE noted == IF n > 1 THEN EmitError(w, "Missing end tag", w.par.nodes[Top(w)].pos) ELSE w
<1>1. AnySeq(w.par.stack) /\ World(w) /\ Len(w.par.stack) \in Nat
  BY SeqIs DEF Good, World
<1>2. n \in Nat
  BY <1>1
<1>4. PICK closed : Closings(closed, w, n, end)
  BY <1>2, CloseTopsIs
<1>5. closed[0] = noted /\ \A j \in 1..n : closed[j] = CloseTop(closed[j - 1], end, j < n)
  BY <1>4 DEF Closings
<1>6. CloseTops(w, n, end) = closed[n]
  BY <1>4 DEF Closings
<1>7. Kept(w, noted) /\ noted.par.stack = w.par.stack
  <2>1. Like(w, noted)
    BY <1>1, LikeItself, LikeError
  <2>. HIDE DEF noted
  <2>. QED
    BY <2>1, KeptLike DEF Like
<1>. HIDE DEF noted
<1>. DEFINE Stays(v, j) ==
         /\ Kept(w, v) /\ AnySeq(v.par.stack) /\ Len(v.par.stack) = Len(w.par.stack) - j
            T == {j \in 0..n : Stays(closed[j], j)}
<1>8. ASSUME NEW m \in 0..n, \A j \in 0..(m - 1) : j \in T
      PROVE  m \in T
  <2>1. CASE m = 0
    <3>1. closed[0] = noted
      BY <1>2, <1>5
    <3>2. Stays(noted, 0)
      BY <1>1, <1>7
    <3>. HIDE DEF Stays
    <3>. QED
      BY <2>1, <3>1, <3>2
  <2>2. CASE m # 0
    <3>. DEFINE u == closed[m - 1]
    <3>1. closed[m] = CloseTop(u, end, m < n)
      BY <1>5, <2>2
    <3>2. Stays(u, m - 1)
      <4>1. m - 1 \in 0..(m - 1)
        BY <1>2, <2>2
      <4>2. m - 1 \in T
        <5>. HIDE DEF T
        <5>. QED
          BY <1>8, <4>1
      <4>. HIDE DEF Stays
      <4>. QED
        BY <4>2
    <3>. HIDE DEF u
    <3>3. Len(u.par.stack) = Len(w.par.stack) - (m - 1) /\ Len(u.par.stack) # 0 /\ u.par.stack # <<>>
      BY <1>1, <1>2, <3>2, SeqIs
    <3>4. Kept(u, CloseTop(u, end, m < n)) /\ CloseTop(u, end, m < n).par.stack = Tail(u.par.stack)
      <4>1. Good(u)
        BY <3>2 DEF Kept
      <4>. QED
        BY <3>3, <4>1, ClosesTop
    <3>. DEFINE v == CloseTop(u, end, m < n)
    <3>. HIDE DEF v
    <3>5. Kept(w, v)
      BY <3>2, <3>4 DEF Kept, v
    <3>6. AnySeq(v.par.stack) /\ Len(v.par.stack) = Len(w.par.stack) - m
      <4>1. Len(Tail(u.par.stack)) = Len(u.par.stack) - 1 /\ AnySeq(Tail(u.par.stack))
        BY <3>2, <3>3, SeqPop
      <4>2. Len(w.par.stack) - (m - 1) - 1 = Len(w.par.stack) - m
        BY <1>1, <1>2
      <4>. QED
        BY <3>3, <3>4, <4>1, <4>2 DEF v
    <3>7. Stays(v, m)
      BY <3>5, <3>6
    <3>. HIDE DEF Stays
    <3>. QED
      BY <3>1, <3>7 DEF v
  <2>. QED
    BY <2>1, <2>2
<1>9. n \in T
  <2>1. \A m \in 0..n : (\A j \in 0..(m - 1) : j \in T) => m \in T
    BY <1>8
  <2>2. n \in 0..n
    BY <1>2
  <2>. HIDE DEF T
  <2>. QED
    BY <1>2, <2>1, <2>2, Induction
<1>. QED
  BY <1>6, <1>9

LEMMA KeptClosetag ==
    ASSUME NEW w, Good(w), NEW a, NEW b PROVE Kept(w, Onclosetag(w, a, b))
<1>1. World(w)
  BY DEF Good
<1>2. ASSUME NEW name PROVE Kept(w, CloseNamed(w, name, a, b))
  <2>. DEFINE open == {i \in DOMAIN w.par.stack : ToLower(w.par.nodes[w.par.stack[i]].tag) = ToLower(name)}
  <2>1. open # {} => Min(open) \in 1..Len(w.par.stack)
    <3>1. DOMAIN w.par.stack = 1..Len(w.par.stack) /\ Len(w.par.stack) \in Nat
      BY <1>1, SeqIs DEF World
    <3>2. open \in SUBSET Nat /\ open \subseteq 1..Len(w.par.stack)
      BY <3>1
    <3>. HIDE DEF open
    <3>. QED
      BY <3>2, MinIs
  <2>2. open # {} => Kept(w, CloseTops(w, Min(open), b))
    <3>. HIDE DEF open
    <3>. QED
      BY <2>1, ClosesTops
  <2>3. Kept(w, w) /\ Kept(w, EmitError(w, "Invalid end tag", BackTrack(a, "<")))
    BY <1>1, LikeItself, LikeError, KeptLike
  <2>4. CloseNamed(w, name, a, b) =
            IF name \in VoidTags THEN w
            ELSE IF open = {} THEN EmitError(w, "Invalid end tag", BackTrack(a, "<"))
            ELSE CloseTops(w, Min(open), b)
    BY DEF CloseNamed
  <2>. HIDE DEF open
  <2>. QED
    BY <2>2, <2>3, <2>4
<1>3. Kept(w, w) /\ Kept(w, Panic(w, "onclosetag"))
  BY <1>1, LikeItself, LikePanic, KeptLike
<1>. QED
  BY <1>2, <1>3 DEF Onclosetag, WithSlice

LEMMA ClosesItself ==
    ASSUME NEW w, Tagged(w), NEW end
    PROVE  LET v == Onselfclosingtag(w, end) IN Plain(v) /\ v.tok.state = w.tok.state /\ v.tok.index = w.tok.index
<1>. DEFINE v == Onopentagend(w, end)
<1>1. Plain(v) /\ v.tok.state = w.tok.state /\ v.tok.index = w.tok.index
  BY OpensElement
<1>. HIDE DEF v
<1>2. ASSUME v.par.stack # <<>> PROVE Kept(v, CloseTop(v, end, FALSE))
  BY <1>1, <1>2, ClosesTop DEF Plain
<1>3. v.par.stack # <<>> =>
         /\ Plain(CloseTop(v, end, FALSE))
         /\ CloseTop(v, end, FALSE).tok.state = w.tok.state /\ CloseTop(v, end, FALSE).tok.index = w.tok.index
  BY <1>1, <1>2, PhasedKept DEF Kept
<1>. QED
  BY <1>1, <1>3 DEF Onselfclosingtag, v

(* ondirname: v-pre belongs to the tag that is read. *)
LEMMA EntersVPre ==
    ASSUME NEW w, Tagged(w), NEW a, NEW b
    PROVE  LET v == Ondirname(w, a, b) IN Tagged(v) /\ v.tok.state = w.tok.state /\ v.tok.index = w.tok.index
<1>1. World(w)
  BY DEF Tagged, Good
<1>. DEFINE Is(v) == Tagged(v) /\ v.tok.state = w.tok.state /\ v.tok.index = w.tok.index
<1>2. ASSUME NEW v, Like(w, v) PROVE Is(v)
  BY <1>2, GoodLike DEF Like
<1>3. ASSUME NEW v, Like(w, v), NEW prop PROVE Is([v EXCEPT !.par.prop = prop])
  <2>1. Like(v, [v EXCEPT !.par.prop = prop])
    BY <1>3 DEF Like, World, Calm, TokFields, ParFields
  <2>. QED
    BY <1>2, <1>3, <2>1, LikeThen
<1>4. ASSUME NEW prop
      PROVE  Is([w EXCEPT !.par.prop = prop, !.tok.inVPre = TRUE, !.par.inVPre = TRUE,
                          !.par.vPreBoundary = w.par.openTag])
  <2>. DEFINE v == [w EXCEPT !.par.prop = prop, !.tok.inVPre = TRUE, !.par.inVPre = TRUE,
                             !.par.vPreBoundary = w.par.openTag]
  <2>1. /\ World(v) /\ v.tok.inVPre = TRUE /\ v.par.inVPre = TRUE /\ v.par.vPreBoundary = w.par.openTag
        /\ v.par.openTag = w.par.openTag /\ v.par.stack = w.par.stack /\ v.par.panic = w.par.panic
        /\ v.tok.state = w.tok.state /\ v.tok.index = w.tok.index
    BY <1>1 DEF World, TokFields, ParFields
  <2>. HIDE DEF v
  <2>2. Is(v)
    BY <2>1 DEF Tagged, Good, Scoped, Calm
  <2>. QED
    BY <2>2 DEF v
<1>5. Like(w, w) /\ Like(w, EmitError(w, "Missing directive name", a)) /\ Like(w, Panic(w, "ondirname"))
  BY <1>1, LikeItself, LikeError, LikePanic
<1>. HIDE DEF Is
<1>6. Is(Ondirname(w, a, b))
  BY <1>2, <1>3, <1>4, <1>5 DEF Ondirname, WithSlice
<1>. QED
  BY <1>6 DEF Is

(* The worlds between the ends of the elements. *)
LEMMA OnendIs ==
    ASSUME NEW w, World(w)
    PROVE  LET stack == w.par.stack
               n == Len(stack)
           IN  \E ended :
                  /\ Onend(w) = ended[n] /\ ended[0] = EndError(w)
                  /\ \A j \in 1..n : ended[j] = EndOpen(ended[j - 1], stack[j])
<1>. DEFINE stack == w.par.stack
            n == Len(stack)
            Ends(f, m) == f = [j \in 0..m |-> IF j = 0 THEN EndError(w) ELSE EndOpen(f[j - 1], stack[j])]
            S == {m \in 0..n : \E f : Ends(f, m)}
<1>1. AnySeq(stack) /\ n \in Nat /\ DOMAIN stack = 1..n
  BY SeqIs DEF World
<1>. HIDE DEF n
<1>3. ASSUME NEW m \in 0..n, \A j \in 0..(m - 1) : j \in S
      PROVE  m \in S
  <2>1. CASE m = 0
    <3>1. Ends([j \in 0..0 |-> EndError(w)], 0)
      OBVIOUS
    <3>. HIDE DEF Ends
    <3>. QED
      BY <1>1, <2>1, <3>1
  <2>2. CASE m # 0
    <3>1. m - 1 \in S
      <4>1. m - 1 \in 0..(m - 1)
        BY <1>1, <2>2
      <4>. HIDE DEF S
      <4>. QED
        BY <1>3, <4>1
    <3>2. PICK g : Ends(g, m - 1)
      <4>. HIDE DEF Ends
      <4>. QED
        BY <3>1
    <3>. DEFINE h == [j \in 0..m |-> IF j = m THEN EndOpen(g[m - 1], stack[m]) ELSE g[j]]
    <3>. HIDE DEF stack
    <3>3. ASSUME NEW j \in 0..m PROVE h[j] = IF j = 0 THEN EndError(w) ELSE EndOpen(h[j - 1], stack[j])
      <4>1. CASE j = m
        <5>1. h[m - 1] = g[m - 1]
          BY <1>1, <2>2
        <5>. QED
          BY <2>2, <4>1, <5>1
      <4>2. CASE j # m
        <5>1. j \in 0..(m - 1) /\ h[j] = g[j]
          BY <1>1, <4>2
        <5>2. g[j] = IF j = 0 THEN EndError(w) ELSE EndOpen(g[j - 1], stack[j])
          BY <3>2, <5>1
        <5>3. j # 0 => h[j - 1] = g[j - 1]
          BY <1>1, <5>1
        <5>. QED
          BY <5>1, <5>2, <5>3
      <4>. QED
        BY <4>1, <4>2
    <3>4. h = [j \in 0..m |-> h[j]]
      OBVIOUS
    <3>5. Ends(h, m)
      <4>. HIDE DEF h
      <4>. QED
        BY <3>3, <3>4
    <3>. HIDE DEF h, Ends
    <3>. QED
      BY <3>5
  <2>. QED
    BY <2>1, <2>2
<1>4. n \in S
  <2>1. \A m \in 0..n : (\A j \in 0..(m - 1) : j \in S) => m \in S
    BY <1>3
  <2>2. n \in 0..n
    BY <1>1
  <2>. HIDE DEF S
  <2>. QED
    BY <1>1, <2>1, <2>2, Induction
<1>. DEFINE ended == CHOOSE f : Ends(f, n)
<1>5. ended = [j \in 0..n |-> IF j = 0 THEN EndError(w) ELSE EndOpen(ended[j - 1], stack[j])]
  <2>1. \E f : Ends(f, n)
    <3>. HIDE DEF Ends
    <3>. QED
      BY <1>4
  <2>2. Ends(ended, n)
    <3>. HIDE DEF Ends
    <3>. QED
      BY <2>1
  <2>. HIDE DEF ended
  <2>. QED
    BY <2>2
<1>6. Onend(w) = ended[n]
  BY DEF Onend, n
<1>. HIDE DEF ended, stack
<1>7. ended[0] = EndError(w) /\ \A j \in 1..n : ended[j] = EndOpen(ended[j - 1], stack[j])
  BY <1>1, <1>5
<1>. QED
  BY <1>6, <1>7 DEF stack, n

(* onend: the elements that are still open end with the file.              *)
LEMMA EndsOpen ==
    ASSUME NEW w, Good(w)
    PROVE  LET v == Onend(w)
           IN  /\ Kept(w, v) /\ v.par.stack = w.par.stack
               /\ Calm(v) => (v.par.inVPre => v.par.vPreBoundary \notin Range(w.par.stack))
<1>. DEFINE stack == w.par.stack
            n == Len(stack)
<1>1. AnySeq(stack) /\ World(w) /\ n \in Nat /\ DOMAIN stack = 1..n
  BY SeqIs DEF Good, World
<1>. HIDE DEF n
<1>5. PICK ended :
         /\ Onend(w) = ended[n] /\ ended[0] = EndError(w)
         /\ \A j \in 1..n : ended[j] = EndOpen(ended[j - 1], stack[j])
  BY <1>1, OnendIs DEF n
<1>6. Onend(w) = ended[n]
  BY <1>5
<1>. HIDE DEF stack
<1>7. Like(w, EndError(w))
  BY <1>1, LikeItself, LikeError DEF EndError
<1>. DEFINE Stays(v, j) ==
         /\ Kept(w, v) /\ v.par.stack = stack
         /\ Calm(v) => (v.par.inVPre => \A k \in 1..j : v.par.vPreBoundary # stack[k])
            T == {j \in 0..n : Stays(ended[j], j)}
<1>8. ASSUME NEW m \in 0..n, \A j \in 0..(m - 1) : j \in T
      PROVE  m \in T
  <2>1. CASE m = 0
    <3>1. ended[0] = EndError(w)
      BY <1>1, <1>5
    <3>2. Stays(EndError(w), 0)
      BY <1>7, KeptLike DEF Like, stack
    <3>. HIDE DEF Stays
    <3>. QED
      BY <2>1, <3>1, <3>2
  <2>2. CASE m # 0
    <3>. DEFINE u == ended[m - 1]
                x == OnCloseTag(u, stack[m], Size - 1, FALSE)
                v == EndOpen(u, stack[m])
    <3>1. ended[m] = v
      BY <1>5, <2>2
    <3>2. Stays(u, m - 1)
      <4>1. m - 1 \in 0..(m - 1)
        BY <1>1, <2>2
      <4>2. m - 1 \in T
        <5>. HIDE DEF T
        <5>. QED
          BY <1>8, <4>1
      <4>. HIDE DEF Stays
      <4>. QED
        BY <4>2
    <3>. HIDE DEF u
    <3>3. Leaves(u, x, stack[m])
      BY <3>2, LeavesVPre DEF Kept, Good
    <3>4. Like(x, v)
      BY <3>3, LikeError DEF EndOpen, Leaves
    <3>. HIDE DEF x, v
    <3>5. Calm(v) => Calm(x) /\ Calm(u)
      BY <3>3, <3>4 DEF Like, Leaves
    <3>6. Calm(x) => Scoped(x)
      <4>. SUFFICES ASSUME Calm(x) PROVE Scoped(x)
        OBVIOUS
      <4>1. Scoped(u)
        BY <3>2, <3>3 DEF Kept, Good, Leaves
      <4>. QED
        BY <3>3, <4>1 DEF Leaves, Scoped
    <3>7. Kept(w, v) /\ v.par.stack = stack
      BY <3>2, <3>3, <3>4, <3>5, <3>6, GoodLike DEF Leaves, Like, Kept, Good
    <3>8. ASSUME Calm(v), v.par.inVPre, NEW k \in 1..m PROVE v.par.vPreBoundary # stack[k]
      <4>1. /\ Calm(x) /\ Calm(u) /\ x.par.inVPre /\ x.par.vPreBoundary = v.par.vPreBoundary
        BY <3>4, <3>5, <3>8 DEF Like
      <4>2. u.par.vPreBoundary # stack[m] /\ u.par.inVPre /\ x.par.vPreBoundary = u.par.vPreBoundary
        BY <3>3, <4>1 DEF Leaves
      <4>3. k \in 1..(m - 1) \/ k = m
        BY <1>1
      <4>. QED
        BY <3>2, <4>1, <4>2, <4>3
    <3>9. Stays(v, m)
      BY <3>7, <3>8
    <3>. HIDE DEF Stays
    <3>. QED
      BY <3>1, <3>9
  <2>. QED
    BY <2>1, <2>2
<1>9. n \in T
  <2>1. \A m \in 0..n : (\A j \in 0..(m - 1) : j \in T) => m \in T
    BY <1>8
  <2>2. n \in 0..n
    BY <1>1
  <2>. HIDE DEF T
  <2>. QED
    BY <1>1, <2>1, <2>2, Induction
<1>. QED
  BY <1>1, <1>6, <1>9 DEF stack, Range

-----------------------------------------------------------------------------
(* The handlers of the tokenizer's states. *)

(* A change of the state, in a tag or out of it. *)
LEMMA GoesOut ==
    ASSUME NEW w, Plain(w), NEW q, q \notin TagStates, NEW start
    PROVE  Phased(Go(w, q)) /\ Phased(GoAt(w, q, start)) /\ Phased(GoToText(w, start))
<1>1. World(w)
  BY DEF Plain, Good
<1>2. ASSUME NEW p, p \notin TagStates PROVE Phased(Go(w, p)) /\ Phased(GoAt(w, p, start))
  BY <1>1, <1>2, Goes DEF Phased
<1>3. "InRCDATA" \notin TagStates /\ "Text" \notin TagStates
  BY DEF TagStates
<1>. QED
  BY <1>2, <1>3 DEF GoToText

LEMMA GoesIn ==
    ASSUME NEW w, Tagged(w), NEW q \in TagStates, NEW start
    PROVE  Phased(Go(w, q)) /\ Phased(GoAt(w, q, start))
BY Goes DEF Phased, Tagged, Good

LEMMA OutOfTag ==
    ASSUME NEW w, Phased(w), w.tok.state \notin TagStates PROVE Plain(w)
BY DEF Phased

LEMMA WithinTag ==
    ASSUME NEW w, Phased(w), w.tok.state \in TagStates PROVE Tagged(w)
BY DEF Phased

LEMMA IsWorld == ASSUME NEW w, Phased(w) PROVE World(w)
BY DEF Phased, Tagged, Plain, Good

LEMMA IsWorldToo == ASSUME NEW w, Plain(w) \/ Tagged(w) PROVE World(w) /\ Good(w)
BY DEF Tagged, Plain, Good

LEMMA ReadsAfterClosingTagName ==
    ASSUME NEW w, Phased(w), w.tok.state = "AfterClosingTagName", NEW c
    PROVE  Phased(StateAfterClosingTagName(w, c))
<1>1. Plain(w) /\ "Text" \notin TagStates
  BY OutOfTag DEF TagStates
<1>. QED
  BY <1>1, GoesOut DEF StateAfterClosingTagName

LEMMA ReadsInClosingTagName ==
    ASSUME NEW w, Phased(w), w.tok.state \notin TagStates, NEW c
    PROVE  Phased(StateInClosingTagName(w, c))
<1>. DEFINE u == Onclosetag(w, Start(w), Here(w))
            v == GoAt(u, "AfterClosingTagName", -1)
<1>1. Plain(w) /\ Good(w)
  BY OutOfTag, IsWorldToo
<1>2. Plain(u)
  BY <1>1, KeptClosetag, PhasedKept
<1>. HIDE DEF u
<1>3. Phased(v) /\ v.tok.state = "AfterClosingTagName"
  BY <1>2, GoesOut, Goes, IsWorldToo DEF TagStates
<1>. HIDE DEF v
<1>4. Phased(StateAfterClosingTagName(v, c))
  BY <1>3, ReadsAfterClosingTagName
<1>. QED
  BY <1>4 DEF StateInClosingTagName, v, u

LEMMA ReadsBeforeClosingTagName ==
    ASSUME NEW w, Phased(w), w.tok.state = "BeforeClosingTagName", NEW c
    PROVE  Phased(StateBeforeClosingTagName(w, c))
<1>1. Plain(w)
  BY OutOfTag DEF TagStates
<1>2. \A q \in {"Text", "InClosingTagName", "InSpecialComment"} : q \notin TagStates
  BY DEF TagStates
<1>. QED
  BY <1>1, <1>2, GoesOut DEF StateBeforeClosingTagName

(* Text is added, or none, and something begins. *)
LEMMA GoesAfterText ==
    ASSUME NEW w, Plain(w), NEW a, NEW b, NEW q, q \notin TagStates, NEW start, NEW add \in BOOLEAN
    PROVE  Phased(GoAt(IF add THEN Ontext(w, a, b) ELSE w, q, start))
<1>1. Plain(Ontext(w, a, b))
  BY LikeText, GoodLike, IsWorldToo
<1>. QED
  BY <1>1, GoesOut

LEMMA ReadsInText ==
    ASSUME NEW w, Phased(w), w.tok.state = "Text", NEW c
    PROVE  Phased(StateText(w, c))
<1>1. Plain(w)
  BY OutOfTag DEF TagStates
<1>2. Phased(Go(w, "InterpolationOpen"))
  BY <1>1, GoesOut DEF TagStates
<1>3. Phased(GoAt(IF Here(w) > Start(w) THEN Ontext(w, Start(w), Here(w)) ELSE w, "BeforeTagName", Here(w)))
  <2>1. (Here(w) > Start(w)) \in BOOLEAN /\ "BeforeTagName" \notin TagStates
    BY DEF TagStates
  <2>. QED
    BY <1>1, <2>1, GoesAfterText
<1>. QED
  BY <1>2, <1>3 DEF StateText

LEMMA ReadsFirstOfRCDATA ==
    ASSUME NEW w, Phased(w), w.tok.state = "InRCDATA", NEW c
    PROVE  Phased(FirstOfRCDATA(w, c))
<1>1. Plain(w) /\ World(w)
  BY OutOfTag, IsWorld DEF TagStates
<1>2. Phased(Go(w, "InterpolationOpen"))
  BY <1>1, GoesOut DEF TagStates
<1>3. Phased([w EXCEPT !.tok.sequenceIndex = 1])
  BY <1>1, LikeSequence, GoodLike
<1>. DEFINE v == FastForwardTo(w, "<")
<1>4. Phased(v)
  BY <1>1, GoodJumps DEF Phased, TagStates
<1>. HIDE DEF v
<1>5. Phased([v EXCEPT !.tok.sequenceIndex = 1])
  BY <1>4, LikeSequence, GoodLike, IsWorld
<1>. QED
  BY <1>2, <1>3, <1>4, <1>5 DEF FirstOfRCDATA, v

LEMMA ReadsInRCDATA ==
    ASSUME NEW w, Phased(w), w.tok.state = "InRCDATA", NEW c
    PROVE  Phased(StateInRCDATA(w, c))
<1>1. Plain(w) /\ World(w)
  BY OutOfTag, IsWorld DEF TagStates
<1>2. Phased(EndRCDATA(w, c))
  <2>. DEFINE texted == IF Start(w) < EndOfText(w) THEN Ontext(w, Start(w), EndOfText(w)) ELSE w
              opened == [texted EXCEPT !.tok.sectionStart = EndOfText(w) + 2]
              closed == StateInClosingTagName(opened, c)
  <2>1. Like(w, texted)
    BY <1>1, LikeText, LikeItself
  <2>. HIDE DEF texted
  <2>2. Like(texted, opened)
    <3>1. World(texted)
      BY <2>1 DEF Like
    <3>. QED
      BY <3>1, LikeSequence
  <2>. HIDE DEF opened
  <2>3. Phased(opened) /\ opened.tok.state = "InRCDATA"
    BY <2>1, <2>2, GoodLike DEF Like
  <2>4. Phased(closed)
    BY <2>3, ReadsInClosingTagName DEF TagStates
  <2>. HIDE DEF closed
  <2>5. Phased([closed EXCEPT !.tok.inRCDATA = FALSE])
    BY <2>4, LikeSequence, GoodLike, IsWorld
  <2>. QED
    BY <2>5 DEF EndRCDATA, closed, opened, texted
<1>3. ASSUME NEW x PROVE Phased([w EXCEPT !.tok.sequenceIndex = x]) /\ [w EXCEPT !.tok.sequenceIndex = x].tok.state = "InRCDATA"
  <2>1. Like(w, [w EXCEPT !.tok.sequenceIndex = x])
    BY <1>1, LikeSequence
  <2>. HIDE DEF Phased
  <2>. QED
    BY <2>1, GoodLike DEF Like
<1>4. Phased(FirstOfRCDATA([w EXCEPT !.tok.sequenceIndex = 0], c))
  BY <1>3, ReadsFirstOfRCDATA
<1>5. Phased(FirstOfRCDATA(w, c))
  BY ReadsFirstOfRCDATA
<1>. QED
  BY <1>2, <1>3, <1>4, <1>5 DEF StateInRCDATA

LEMMA ReadsInterpolationOpen ==
    ASSUME NEW w, Phased(w), w.tok.state = "InterpolationOpen", NEW c
    PROVE  Phased(StateInterpolationOpen(w, c))
<1>1. Plain(w) /\ World(w)
  BY OutOfTag, IsWorld DEF TagStates
<1>2. Phased(GoAt(IF Here(w) - 1 > Start(w) THEN Ontext(w, Start(w), Here(w) - 1) ELSE w, "Interpolation", Here(w) - 1))
  <2>1. (Here(w) - 1 > Start(w)) \in BOOLEAN /\ "Interpolation" \notin TagStates
    BY DEF TagStates
  <2>. QED
    BY <1>1, <2>1, GoesAfterText
<1>3. Phased(StateInRCDATA(Go(w, "InRCDATA"), c))
  BY <1>1, GoesOut, Goes, ReadsInRCDATA DEF TagStates
<1>4. Phased(StateText(Go(w, "Text"), c))
  BY <1>1, GoesOut, Goes, ReadsInText DEF TagStates
<1>. QED
  BY <1>2, <1>3, <1>4 DEF StateInterpolationOpen

LEMMA ReadsInterpolation ==
    ASSUME NEW w, Phased(w), w.tok.state = "Interpolation", NEW c
    PROVE  Phased(StateInterpolation(w, c))
BY OutOfTag, GoesOut DEF StateInterpolation, TagStates

LEMMA ReadsInterpolationClose ==
    ASSUME NEW w, Phased(w), w.tok.state = "InterpolationClose", NEW c
    PROVE  Phased(StateInterpolationClose(w, c))
<1>1. Plain(w) /\ World(w)
  BY OutOfTag, IsWorld DEF TagStates
<1>2. Plain(Oninterpolation(w, Start(w), Here(w) + 1))
  BY <1>1, LikeInterpolation, GoodLike
<1>. QED
  BY <1>1, <1>2, GoesOut DEF StateInterpolationClose, TagStates

LEMMA StartsAttr ==
    ASSUME NEW w, Tagged(w), NEW c PROVE Phased(HandleAttrStart(w, c))
<1>1. Tagged(Ondirname(w, Here(w), Here(w) + 1))
  BY EntersVPre
<1>2. "InDirName" \in TagStates /\ "InDirArg" \in TagStates /\ "InAttrName" \in TagStates
  BY DEF TagStates
<1>. QED
  BY <1>1, <1>2, GoesIn DEF HandleAttrStart

LEMMA ReadsBeforeAttrName ==
    ASSUME NEW w, Phased(w), w.tok.state = "BeforeAttrName", NEW c
    PROVE  Phased(StateBeforeAttrName(w, c))
<1>1. Tagged(w)
  BY WithinTag DEF TagStates
<1>2. Plain(Onopentagend(w, Here(w)))
  BY <1>1, OpensElement
<1>3. Phased(GoToText(Onopentagend(w, Here(w)), Here(w) + 1)) /\ Phased(GoAt(Onopentagend(w, Here(w)), "BeforeTagName", Here(w)))
  BY <1>2, GoesOut DEF TagStates
<1>4. Phased(Go(w, "InSelfClosingTag"))
  BY <1>1, GoesIn DEF TagStates
<1>5. Phased(HandleAttrStart(w, c))
  BY <1>1, StartsAttr
<1>. QED
  BY <1>3, <1>4, <1>5 DEF StateBeforeAttrName

LEMMA ReadsTagName ==
    ASSUME NEW w, Plain(w), NEW c PROVE Phased(HandleTagName(w, c))
<1>. DEFINE u == Onopentagname(w, Start(w), Here(w))
            v == GoAt(u, "BeforeAttrName", -1)
<1>1. Tagged(u)
  BY OpensTag
<1>. HIDE DEF u
<1>2. Phased(v) /\ v.tok.state = "BeforeAttrName"
  BY <1>1, GoesIn, Goes, IsWorldToo DEF TagStates
<1>. HIDE DEF v
<1>3. Phased(StateBeforeAttrName(v, c))
  BY <1>2, ReadsBeforeAttrName
<1>. QED
  BY <1>3 DEF HandleTagName, v, u

LEMMA ReadsInTagName ==
    ASSUME NEW w, Phased(w), w.tok.state = "InTagName", NEW c
    PROVE  Phased(StateInTagName(w, c))
<1>1. Plain(w)
  BY OutOfTag DEF TagStates
<1>. QED
  BY <1>1, ReadsTagName DEF StateInTagName

LEMMA ReadsInSFCRootTagName ==
    ASSUME NEW w, Phased(w), w.tok.state = "InSFCRootTagName", NEW c
    PROVE  Phased(StateInSFCRootTagName(w, c))
<1>1. Plain(w) /\ World(w)
  BY OutOfTag, IsWorld DEF TagStates
<1>2. ASSUME NEW sequence PROVE Plain(EnterRCDATA(w, sequence, 0))
  BY <1>1, LikeRCDATA, GoodLike
<1>. QED
  BY <1>1, <1>2, ReadsTagName DEF StateInSFCRootTagName

LEMMA StartsSpecial ==
    ASSUME NEW w, Plain(w), NEW sequence PROVE Phased(StartSpecial(w, sequence))
<1>1. Plain(EnterRCDATA(w, sequence, 4))
  BY LikeRCDATA, GoodLike, IsWorldToo
<1>. QED
  BY <1>1, GoesOut DEF StartSpecial, TagStates

LEMMA ReadsSpecialStartSequence ==
    ASSUME NEW w, Phased(w), w.tok.state = "SpecialStartSequence", NEW c
    PROVE  Phased(StateSpecialStartSequence(w, c))
<1>1. Plain(w) /\ World(w)
  BY OutOfTag, IsWorld DEF TagStates
<1>2. ASSUME NEW x PROVE Phased([w EXCEPT !.tok.sequenceIndex = x])
  BY <1>1, LikeSequence, GoodLike
<1>3. ASSUME NEW raw
      PROVE  LET v == [w EXCEPT !.tok.inRCDATA = raw, !.tok.sequenceIndex = 0, !.tok.state = "InTagName"]
             IN  Phased(StateInTagName(v, c))
  <2>. DEFINE u == [w EXCEPT !.tok.inRCDATA = raw]
              x == [u EXCEPT !.tok.sequenceIndex = 0]
              v == Go(x, "InTagName")
  <2>1. Like(w, u)
    BY <1>1, LikeSequence
  <2>. HIDE DEF u
  <2>2. Like(u, x)
    <3>1. World(u)
      BY <2>1 DEF Like
    <3>. QED
      BY <3>1, LikeSequence
  <2>. HIDE DEF x
  <2>3. Plain(x)
    BY <1>1, <2>1, <2>2, GoodLike
  <2>4. Phased(v) /\ v.tok.state = "InTagName"
    BY <2>3, GoesOut, Goes, IsWorldToo DEF TagStates
  <2>5. v = [w EXCEPT !.tok.inRCDATA = raw, !.tok.sequenceIndex = 0, !.tok.state = "InTagName"]
    BY DEF Go, x, u
  <2>. HIDE DEF v
  <2>6. Phased(StateInTagName(v, c))
    BY <2>4, ReadsInTagName
  <2>. QED
    BY <2>5, <2>6
<1>. QED
  BY <1>2, <1>3 DEF StateSpecialStartSequence

LEMMA ReadsBeforeSpecial ==
    ASSUME NEW w, Phased(w), w.tok.state \in {"BeforeSpecialS", "BeforeSpecialT"}, NEW c
    PROVE  Phased(StateBeforeSpecialS(w, c)) /\ Phased(StateBeforeSpecialT(w, c))
<1>1. Plain(w)
  BY OutOfTag DEF TagStates
<1>2. \A sequence : Phased(StartSpecial(w, sequence))
  BY <1>1, StartsSpecial
<1>3. Phased(StateInTagName(Go(w, "InTagName"), c))
  BY <1>1, GoesOut, Goes, IsWorldToo, ReadsInTagName DEF TagStates
<1>. QED
  BY <1>2, <1>3 DEF StateBeforeSpecialS, StateBeforeSpecialT

LEMMA ReadsBeforeTagName ==
    ASSUME NEW w, Phased(w), w.tok.state = "BeforeTagName", NEW c
    PROVE  Phased(StateBeforeTagName(w, c))
<1>1. Plain(w)
  BY OutOfTag DEF TagStates
<1>2. ASSUME NEW q \in {"BeforeDeclaration", "InProcessingInstruction", "InSFCRootTagName", "BeforeSpecialT",
                        "BeforeSpecialS", "InTagName", "BeforeClosingTagName"}, NEW start
      PROVE  Phased(Go(w, q)) /\ Phased(GoAt(w, q, start))
  <2>1. q \notin TagStates
    BY DEF TagStates
  <2>. QED
    BY <1>1, <2>1, GoesOut
<1>3. Phased(StateText(Go(w, "Text"), c))
  BY <1>1, GoesOut, Goes, IsWorldToo, ReadsInText DEF TagStates
<1>. QED
  BY <1>2, <1>3 DEF StateBeforeTagName

LEMMA ReadsInSelfClosingTag ==
    ASSUME NEW w, Phased(w), w.tok.state = "InSelfClosingTag", NEW c
    PROVE  Phased(StateInSelfClosingTag(w, c))
<1>1. Tagged(w) /\ World(w)
  BY WithinTag, IsWorld DEF TagStates
<1>2. Phased([GoAt(Onselfclosingtag(w, Here(w)), "Text", Here(w) + 1) EXCEPT !.tok.inRCDATA = FALSE])
  <2>. DEFINE v == GoAt(Onselfclosingtag(w, Here(w)), "Text", Here(w) + 1)
  <2>1. Plain(Onselfclosingtag(w, Here(w)))
    BY <1>1, ClosesItself
  <2>2. Phased(v)
    BY <2>1, GoesOut DEF TagStates
  <2>. HIDE DEF v
  <2>3. Phased([v EXCEPT !.tok.inRCDATA = FALSE])
    BY <2>2, LikeSequence, GoodLike, IsWorld
  <2>. QED
    BY <2>3 DEF v
<1>3. Phased(StateBeforeAttrName(Go(w, "BeforeAttrName"), c))
  BY <1>1, GoesIn, Goes, ReadsBeforeAttrName DEF TagStates
<1>. QED
  BY <1>2, <1>3 DEF StateInSelfClosingTag

LEMMA ReadsAfterAttrName ==
    ASSUME NEW w, Phased(w), w.tok.state = "AfterAttrName", NEW c
    PROVE  Phased(StateAfterAttrName(w, c))
<1>. DEFINE v == Onattribend(w, "novalue", Start(w))
<1>1. Tagged(w) /\ World(w)
  BY WithinTag, IsWorld DEF TagStates
<1>2. Tagged(v)
  BY <1>1, LikeAttribend, GoodLike
<1>. HIDE DEF v
<1>3. Phased(StateBeforeAttrName(GoAt(v, "BeforeAttrName", -1), c))
  BY <1>2, GoesIn, Goes, IsWorldToo, ReadsBeforeAttrName DEF TagStates
<1>4. Phased(HandleAttrStart(v, c))
  BY <1>2, StartsAttr
<1>5. Phased(Go(w, "BeforeAttrValue"))
  BY <1>1, GoesIn DEF TagStates
<1>. QED
  BY <1>3, <1>4, <1>5 DEF StateAfterAttrName, v

LEMMA EndsAttrName ==
    ASSUME NEW w, Tagged(w), NEW c PROVE Phased(HandleAttrNameEnd(w, c))
<1>. DEFINE u == GoAt(w, "AfterAttrName", Here(w))
            v == Onattribnameend(u, Here(w))
<1>1. Phased(u) /\ u.tok.state = "AfterAttrName"
  BY GoesIn, Goes, IsWorldToo DEF TagStates
<1>. HIDE DEF u
<1>2. Phased(v) /\ v.tok.state = "AfterAttrName"
  BY <1>1, LikeAttribnameend, GoodLike, IsWorld DEF Like
<1>. HIDE DEF v
<1>3. Phased(StateAfterAttrName(v, c))
  BY <1>2, ReadsAfterAttrName
<1>. QED
  BY <1>3 DEF HandleAttrNameEnd, v, u

LEMMA ReadsInAttrName ==
    ASSUME NEW w, Phased(w), w.tok.state = "InAttrName", NEW c
    PROVE  Phased(StateInAttrName(w, c))
<1>1. Tagged(w) /\ World(w)
  BY WithinTag, IsWorld DEF TagStates
<1>2. Tagged(Onattribname(w, Start(w), Here(w)))
  BY <1>1, LikeAttribname, GoodLike
<1>. QED
  BY <1>2, EndsAttrName DEF StateInAttrName

LEMMA ReadsInDirName ==
    ASSUME NEW w, Phased(w), w.tok.state = "InDirName", NEW c
    PROVE  Phased(StateInDirName(w, c))
<1>1. Tagged(w)
  BY WithinTag DEF TagStates
<1>2. Tagged(Ondirname(w, Start(w), Here(w)))
  BY <1>1, EntersVPre
<1>3. "InDirArg" \in TagStates /\ "InDirModifier" \in TagStates
  BY DEF TagStates
<1>. QED
  BY <1>2, <1>3, EndsAttrName, GoesIn DEF StateInDirName

(* In an argument or a modifier. *)
LEMMA ReadsInDir ==
    ASSUME NEW w, Phased(w), w.tok.state \in {"InDirArg", "InDirDynamicArg", "InDirModifier"}, NEW c
    PROVE  /\ Phased(StateInDirArg(w, c))
           /\ Phased(StateInDynamicDirArg(w, c))
           /\ Phased(StateInDirModifier(w, c))
<1>1. Tagged(w) /\ World(w)
  BY WithinTag, IsWorld DEF TagStates
<1>2. ASSUME NEW a, NEW b PROVE Tagged(Ondirarg(w, a, b)) /\ Tagged(Ondirmodifier(w, a, b))
  BY <1>1, LikeArg, GoodLike
<1>3. "InDirArg" \in TagStates /\ "InDirModifier" \in TagStates /\ "InDirDynamicArg" \in TagStates
  BY DEF TagStates
<1>4. Phased(StateInDirArg(w, c))
  BY <1>1, <1>2, <1>3, EndsAttrName, GoesIn DEF StateInDirArg
<1>5. Phased(StateInDynamicDirArg(w, c))
  BY <1>1, <1>2, <1>3, EndsAttrName, GoesIn DEF StateInDynamicDirArg
<1>6. Phased(StateInDirModifier(w, c))
  BY <1>1, <1>2, <1>3, EndsAttrName, GoesIn DEF StateInDirModifier
<1>. QED
  BY <1>4, <1>5, <1>6

LEMMA ReadsValue ==
    ASSUME NEW w, Phased(w), w.tok.state \in TagStates
    PROVE  /\ Tagged(AttrData(w))
           /\ \A quote, end : Tagged(Onattribend(AttrData(w), quote, end))
<1>. DEFINE u == Onattribdata(w, Start(w), Here(w))
<1>1. Tagged(w) /\ World(w)
  BY WithinTag, IsWorld
<1>2. Tagged(u)
  BY <1>1, LikeAttribdata, GoodLike
<1>. HIDE DEF u
<1>3. Tagged([u EXCEPT !.tok.sectionStart = -1])
  BY <1>2, LikeSequence, GoodLike, IsWorldToo
<1>4. Tagged(AttrData(w))
  BY <1>3 DEF AttrData, u
<1>5. ASSUME NEW quote, NEW end PROVE Tagged(Onattribend(AttrData(w), quote, end))
  BY <1>4, LikeAttribend, GoodLike, IsWorldToo
<1>. QED
  BY <1>4, <1>5

LEMMA ReadsInAttrValueNq ==
    ASSUME NEW w, Phased(w), w.tok.state = "InAttrValueNq", NEW c
    PROVE  Phased(StateInAttrValueNoQuotes(w, c))
<1>1. Tagged(Onattribend(AttrData(w), "unquoted", Here(w)))
  BY ReadsValue DEF TagStates
<1>2. Phased(StateBeforeAttrName(Go(Onattribend(AttrData(w), "unquoted", Here(w)), "BeforeAttrName"), c))
  BY <1>1, GoesIn, Goes, IsWorldToo, ReadsBeforeAttrName DEF TagStates
<1>. QED
  BY <1>2 DEF StateInAttrValueNoQuotes

LEMMA ReadsInAttrValue ==
    ASSUME NEW w, Phased(w), w.tok.state \in {"InAttrValueDq", "InAttrValueSq"}, NEW c
    PROVE  Phased(StateInAttrValueDoubleQuotes(w, c)) /\ Phased(StateInAttrValueSingleQuotes(w, c))
<1>1. Tagged(Onattribend(AttrData(w), "quoted", Here(w) + 1))
  BY ReadsValue DEF TagStates
<1>2. Phased(Go(Onattribend(AttrData(w), "quoted", Here(w) + 1), "BeforeAttrName"))
  BY <1>1, GoesIn DEF TagStates
<1>. QED
  BY <1>2 DEF StateInAttrValueDoubleQuotes, StateInAttrValueSingleQuotes, HandleInAttrValue

LEMMA ReadsBeforeAttrValue ==
    ASSUME NEW w, Phased(w), w.tok.state = "BeforeAttrValue", NEW c
    PROVE  Phased(StateBeforeAttrValue(w, c))
<1>1. Tagged(w) /\ World(w)
  BY WithinTag, IsWorld DEF TagStates
<1>2. Phased(GoAt(w, "InAttrValueDq", Here(w) + 1)) /\ Phased(GoAt(w, "InAttrValueSq", Here(w) + 1))
  BY <1>1, GoesIn DEF TagStates
<1>3. Phased(StateInAttrValueNoQuotes(GoAt(w, "InAttrValueNq", Here(w)), c))
  BY <1>1, GoesIn, Goes, ReadsInAttrValueNq DEF TagStates
<1>. QED
  BY <1>2, <1>3 DEF StateBeforeAttrValue

LEMMA SkipsAhead ==
    ASSUME NEW w, Phased(w), w.tok.state \notin TagStates, NEW c
    PROVE  /\ Plain(FastForwardTo(w, c)) /\ Phased(FastForwardTo(w, c))
           /\ FastForwardTo(w, c).tok.state = w.tok.state
BY GoodJumps, OutOfTag, IsWorld DEF Phased

LEMMA ReadsInDeclaration ==
    ASSUME NEW w, Phased(w), w.tok.state \in {"InDeclaration", "InProcessingInstruction", "InSpecialComment"}, NEW c
    PROVE  /\ Phased(StateInDeclaration(w, c))
           /\ Phased(StateInProcessingInstruction(w, c))
           /\ Phased(StateInSpecialComment(w, c))
<1>. DEFINE v == IF c = ">" THEN w ELSE FastForwardTo(w, ">")
<1>1. Plain(v) /\ World(v) /\ Phased(v) /\ "Text" \notin TagStates
  BY SkipsAhead, OutOfTag, IsWorld DEF TagStates
<1>2. StateInDeclaration(w, c) = IF c = ">" \/ Ahead(w, ">") # {} THEN GoAt(v, "Text", Here(v) + 1) ELSE v
  BY DEF StateInDeclaration
<1>3. StateInProcessingInstruction(w, c) =
         IF c = ">" \/ Ahead(w, ">") # {}
         THEN GoAt(Onprocessinginstruction(v, Start(v), Here(v)), "Text", Here(v) + 1) ELSE v
  BY DEF StateInProcessingInstruction
<1>4. StateInSpecialComment(w, c) =
         IF c = ">" \/ Ahead(w, ">") # {} THEN GoAt(Oncomment(v, Start(v), Here(v)), "Text", Here(v) + 1) ELSE v
  BY DEF StateInSpecialComment
<1>. HIDE DEF v
<1>5. Plain(Onprocessinginstruction(v, Start(v), Here(v))) /\ Plain(Oncomment(v, Start(v), Here(v)))
  BY <1>1, LikeInstruction, LikeComment, GoodLike
<1>6. /\ Phased(GoAt(v, "Text", Here(v) + 1))
      /\ Phased(GoAt(Onprocessinginstruction(v, Start(v), Here(v)), "Text", Here(v) + 1))
      /\ Phased(GoAt(Oncomment(v, Start(v), Here(v)), "Text", Here(v) + 1))
  BY <1>1, <1>5, GoesOut
<1>. QED
  BY <1>1, <1>2, <1>3, <1>4, <1>6

(* The sequence is set where the state is. *)
LEMMA GoesSequence ==
    ASSUME NEW w, Phased(w), NEW sequence, NEW x
    PROVE  /\ Phased([w EXCEPT !.tok.sequenceIndex = x])
           /\ [w EXCEPT !.tok.sequenceIndex = x].tok.state = w.tok.state
           /\ Phased([w EXCEPT !.tok.currentSequence = sequence, !.tok.sequenceIndex = x])
<1>. DEFINE u == [w EXCEPT !.tok.currentSequence = sequence]
            v == [w EXCEPT !.tok.sequenceIndex = x]
<1>1. Like(w, u) /\ Like(w, v)
  BY LikeSequence, IsWorld
<1>2. [w EXCEPT !.tok.currentSequence = sequence, !.tok.sequenceIndex = x] = [u EXCEPT !.tok.sequenceIndex = x]
  OBVIOUS
<1>. HIDE DEF u, v
<1>3. Like(u, [u EXCEPT !.tok.sequenceIndex = x])
  <2>1. World(u)
    BY <1>1 DEF Like
  <2>. QED
    BY <2>1, LikeSequence
<1>4. Phased(u) /\ Phased(v) /\ v.tok.state = w.tok.state
  BY <1>1, GoodLike DEF Like
<1>5. Phased([u EXCEPT !.tok.sequenceIndex = x])
  BY <1>3, <1>4, GoodLike
<1>. QED
  BY <1>2, <1>4, <1>5 DEF v

LEMMA ReadsBeforeDeclaration ==
    ASSUME NEW w, Phased(w), w.tok.state = "BeforeDeclaration", NEW c
    PROVE  Phased(StateBeforeDeclaration(w, c))
<1>1. Plain(w)
  BY OutOfTag DEF TagStates
<1>2. Phased(Go(w, "CDATASequence")) /\ Phased(Go(w, "BeforeComment")) /\ Phased(Go(w, "InDeclaration"))
  BY <1>1, GoesOut DEF TagStates
<1>3. Phased([Go(w, "CDATASequence") EXCEPT !.tok.sequenceIndex = 0])
  BY <1>2, GoesSequence
<1>. QED
  BY <1>2, <1>3 DEF StateBeforeDeclaration

LEMMA ReadsBeforeComment ==
    ASSUME NEW w, Phased(w), w.tok.state = "BeforeComment", NEW c
    PROVE  Phased(StateBeforeComment(w, c))
<1>1. Plain(w)
  BY OutOfTag DEF TagStates
<1>2. Phased(GoAt(w, "InCommentLike", Here(w) + 1)) /\ Phased(Go(w, "InDeclaration"))
  BY <1>1, GoesOut DEF TagStates
<1>3. Phased([GoAt(w, "InCommentLike", Here(w) + 1)
                EXCEPT !.tok.currentSequence = CommentEnd, !.tok.sequenceIndex = 2])
  BY <1>2, GoesSequence
<1>. QED
  BY <1>2, <1>3 DEF StateBeforeComment

LEMMA ReadsCDATASequence ==
    ASSUME NEW w, Phased(w), w.tok.state = "CDATASequence", NEW c
    PROVE  Phased(StateCDATASequence(w, c))
<1>1. Plain(w) /\ World(w)
  BY OutOfTag, IsWorld DEF TagStates
<1>2. Phased(GoAt(w, "InCommentLike", Here(w) + 1)) /\ Phased(Go(w, "InDeclaration"))
  BY <1>1, GoesOut DEF TagStates
<1>3. Phased([GoAt(w, "InCommentLike", Here(w) + 1)
                EXCEPT !.tok.currentSequence = CdataEnd, !.tok.sequenceIndex = 0])
  BY <1>2, GoesSequence
<1>4. \A x : Phased([w EXCEPT !.tok.sequenceIndex = x])
  BY GoesSequence
<1>. DEFINE u == Go(w, "InDeclaration")
            v == [u EXCEPT !.tok.sequenceIndex = 0]
<1>5. u.tok.state = "InDeclaration" /\ Phased(u)
  BY <1>1, <1>2, Goes
<1>. HIDE DEF u
<1>6. v.tok.state = "InDeclaration" /\ Phased(v)
  BY <1>5, GoesSequence
<1>. HIDE DEF v
<1>7. Phased(StateInDeclaration(v, c))
  BY <1>6, ReadsInDeclaration
<1>. QED
  BY <1>3, <1>4, <1>7 DEF StateCDATASequence, v, u

LEMMA ReadsInCommentLike ==
    ASSUME NEW w, Phased(w), w.tok.state = "InCommentLike", NEW c
    PROVE  Phased(StateInCommentLike(w, c))
<1>1. Plain(w) /\ World(w) /\ "Text" \notin TagStates
  BY OutOfTag, IsWorld DEF TagStates
<1>2. \A x : Phased([w EXCEPT !.tok.sequenceIndex = x])
  BY GoesSequence
<1>. DEFINE u == FastForwardTo(w, Awaited(w))
            v == EndCommentLike(w, Here(w) - 2)
            t == GoAt(v, "Text", Here(w) + 1)
<1>3. Phased(u) /\ Plain(v)
  BY <1>1, SkipsAhead, LikeCommentLike, GoodLike DEF TagStates
<1>. HIDE DEF u, v
<1>4. Phased(t)
  BY <1>1, <1>3, GoesOut
<1>. HIDE DEF t
<1>5. Phased([t EXCEPT !.tok.sequenceIndex = 0]) /\ \A x : Phased([u EXCEPT !.tok.sequenceIndex = x])
  BY <1>3, <1>4, GoesSequence
<1>. QED
  BY <1>2, <1>5 DEF StateInCommentLike, u, v, t

-----------------------------------------------------------------------------
(* The scope of v-pre. *)

Whole == [tok |-> tok, par |-> par]

(* The inductive invariant: while a file is read the tokenizer's states    *)
(* tell whether a start tag is being read; after its end nothing moves.    *)
VPreInv ==
    /\ IsText(source)
    /\ tok.index \in Nat
    /\ IF tok.done THEN tok.index >= Size /\ VPreScoped ELSE Phased(Whole)

LEMMA Begins == Init => VPreInv
<1>. SUFFICES ASSUME Init PROVE VPreInv
  OBVIOUS
<1>1. IsText(source) /\ Size \in Nat
  BY SourceIsText, SourceIs
<1>2. tok = TokenizerInit /\ par = ParserInit
  BY DEF Init
<1>3. AnySeq(<<>>)
  <2>1. <<>> \in Seq({})
    OBVIOUS
  <2>. QED
    BY <2>1 DEF AnySeq
<1>4. World(Whole)
  BY <1>1, <1>2, <1>3 DEF World, Whole, TokenizerInit, ParserInit, TokFields, ParFields
<1>5. Plain(Whole)
  BY <1>2, <1>4 DEF Plain, Good, Scoped, Whole, TokenizerInit, ParserInit, None
<1>6. Phased(Whole)
  BY <1>2, <1>5 DEF Phased, Whole, TokenizerInit, TagStates
<1>. QED
  BY <1>1, <1>2, <1>6 DEF VPreInv, TokenizerInit

(* The step of the loop after a handler. *)
LEMMA Advances ==
    ASSUME VPreInv, ~tok.done, NEW v, Phased(v), par' = v.par, UNCHANGED source,
           tok' = [v.tok EXCEPT !.index = Advance(tok.index, @)]
    PROVE  VPreInv'
<1>1. World(v)
  BY IsWorld
<1>2. Advance(tok.index, v.tok.index) \in Nat
  BY <1>1 DEF World, Advance, RuneSize, VPreInv
<1>3. /\ tok'.index \in Nat /\ ~tok'.done /\ tok'.state = v.tok.state /\ tok'.inVPre = v.tok.inVPre
      /\ DOMAIN tok' = DOMAIN v.tok
  BY <1>1, <1>2 DEF World, TokFields
<1>4. World(Whole)'
  <2>1. Whole'.tok = tok' /\ Whole'.par = v.par /\ DOMAIN Whole' = {"tok", "par"} /\ Size' = Size
    BY DEF Whole, Size
  <2>2. /\ DOMAIN v.tok = TokFields /\ DOMAIN v.par = ParFields
        /\ AnySeq(v.par.nodes) /\ AnySeq(v.par.stack) /\ Size \in Nat
    BY <1>1 DEF World
  <2>3. tok'.index \in Int /\ tok'.index >= -1
    BY <1>3
  <2>. QED
    BY <1>3, <2>1, <2>2, <2>3 DEF World
<1>5. (Calm(v) <=> Calm(Whole)') /\ (Scoped(v) <=> Scoped(Whole)')
  BY <1>3 DEF Calm, Scoped, Whole
<1>6. Tagged(v) => Tagged(Whole)'
  BY <1>4, <1>5 DEF Tagged, Good, Whole
<1>7. Plain(v) => Plain(Whole)'
  BY <1>4, <1>5 DEF Plain, Good, Whole
<1>8. Phased(Whole)'
  BY <1>3, <1>6, <1>7 DEF Phased, Whole
<1>. QED
  BY <1>3, <1>8 DEF VPreInv

LEMMA ScopedIs == VPreInv => VPreScoped
<1>1. ASSUME ~tok.done, Phased(Whole) PROVE VPreScoped
  <2>1. Calm(Whole) => Scoped(Whole)
    BY <1>1 DEF Phased, Tagged, Plain, Good
  <2>. QED
    BY <1>1, <2>1 DEF VPreScoped, Calm, Scoped, Whole
<1>. QED
  BY <1>1 DEF VPreInv

LEMMA EndsScoped ==
    ASSUME VPreInv, Finish PROVE VPreInv'
<1>. DEFINE clean == Cleanup(Whole)
            rest == HandleTrailingData(clean)
            v == Onend(rest)
<1>1. /\ tok.index >= Size /\ ~tok.done /\ par.panic = "no" /\ UNCHANGED source
      /\ tok' = [v.tok EXCEPT !.done = TRUE] /\ par' = v.par
  BY DEF Finish, Whole
<1>2. Phased(Whole) /\ World(Whole)
  BY <1>1, IsWorld DEF VPreInv
<1>3. Like(Whole, clean)
  <2>1. ASSUME NEW u, Like(Whole, u), NEW x PROVE Like(Whole, [u EXCEPT !.tok.sectionStart = x])
    <3>1. Like(u, [u EXCEPT !.tok.sectionStart = x])
      <4>1. World(u)
        BY <2>1 DEF Like
      <4>. QED
        BY <4>1, LikeSequence
    <3>. QED
      BY <2>1, <3>1, LikeThen
  <2>2. Like(Whole, Whole)
    BY <1>2, LikeItself
  <2>3. ASSUME NEW a, NEW b PROVE Like(Whole, Ontext(Whole, a, b)) /\ Like(Whole, Onattribdata(Whole, a, b))
    BY <1>2, LikeText, LikeAttribdata
  <2>. QED
    BY <2>1, <2>2, <2>3 DEF Cleanup
<1>. HIDE DEF clean
<1>4. Like(clean, rest)
  <2>1. World(clean)
    BY <1>3 DEF Like
  <2>2. /\ Like(clean, clean) /\ Like(clean, EndCommentLike(clean, Size))
        /\ Like(clean, Ontext(clean, Start(clean), Size))
    BY <2>1, LikeItself, LikeCommentLike, LikeText
  <2>. QED
    BY <2>2 DEF HandleTrailingData
<1>. HIDE DEF rest
<1>5. Good(rest)
  BY <1>2, <1>3, <1>4, GoodLike DEF Phased, Tagged, Plain
<1>6. /\ Kept(rest, v) /\ v.par.stack = rest.par.stack
      /\ Calm(v) => (v.par.inVPre => v.par.vPreBoundary \notin Range(rest.par.stack))
  BY <1>5, EndsOpen
<1>. HIDE DEF v
<1>7. v.tok.index = tok.index
  BY <1>3, <1>4, <1>6 DEF Like, Kept, Whole
<1>8. World(v)
  BY <1>6 DEF Kept, Good
<1>9. tok'.index = tok.index /\ tok'.done /\ tok'.inVPre = v.tok.inVPre
  BY <1>1, <1>7, <1>8 DEF World, TokFields
<1>10. VPreScoped'
  <2>. SUFFICES ASSUME Calm(v)
       PROVE  /\ tok'.inVPre = v.par.inVPre
              /\ v.par.inVPre <=> v.par.vPreBoundary # None
              /\ v.par.inVPre => v.par.vPreBoundary \in {v.par.openTag} \cup Range(v.par.stack)
              /\ v.par.inVPre => v.par.openTag # None
    BY <1>1 DEF VPreScoped, Calm
  <2>1. Scoped(v)
    BY <1>6 DEF Kept, Good
  <2>2. v.par.inVPre => v.par.vPreBoundary = v.par.openTag
    BY <1>6, <2>1 DEF Scoped
  <2>. QED
    BY <1>9, <2>1, <2>2 DEF Scoped
<1>. QED
  BY <1>1, <1>9, <1>10 DEF VPreInv, Size

LEMMA VPreStep == VPreInv /\ [Next]_vars => VPreInv'
<1>. SUFFICES ASSUME VPreInv, [Next]_vars PROVE VPreInv'
  OBVIOUS
<1>1. CASE UNCHANGED vars
  BY <1>1 DEF vars, VPreInv, IsText, Size, VPreScoped, Whole, Phased, Tagged, Plain, Good, World, Calm, Scoped
<1>2. Size \in Nat
  BY SourceIs DEF VPreInv
<1>3. tok.index < Size => ~tok.done /\ Phased(Whole)
  BY <1>2 DEF VPreInv
<1>4. Whole.tok = tok /\ Whole = [tok |-> tok, par |-> par]
  BY DEF Whole
<1>5. CASE ReadsText
  <2>1. CASE Reads("Text", StateText)
    BY <1>3, <1>4, <2>1, ReadsInText, Advances DEF Reads
  <2>2. CASE Reads("InRCDATA", StateInRCDATA)
    BY <1>3, <1>4, <2>2, ReadsInRCDATA, Advances DEF Reads
  <2>3. CASE Reads("InterpolationOpen", StateInterpolationOpen)
    BY <1>3, <1>4, <2>3, ReadsInterpolationOpen, Advances DEF Reads
  <2>4. CASE Reads("Interpolation", StateInterpolation)
    BY <1>3, <1>4, <2>4, ReadsInterpolation, Advances DEF Reads
  <2>5. CASE Reads("InterpolationClose", StateInterpolationClose)
    BY <1>3, <1>4, <2>5, ReadsInterpolationClose, Advances DEF Reads
  <2>. QED
    BY <1>5, <2>1, <2>2, <2>3, <2>4, <2>5 DEF ReadsText
<1>6. CASE ReadsTag
  <2>1. CASE Reads("BeforeTagName", StateBeforeTagName)
    BY <1>3, <1>4, <2>1, ReadsBeforeTagName, Advances DEF Reads
  <2>2. CASE Reads("InTagName", StateInTagName)
    BY <1>3, <1>4, <2>2, ReadsInTagName, Advances DEF Reads
  <2>3. CASE Reads("InSFCRootTagName", StateInSFCRootTagName)
    BY <1>3, <1>4, <2>3, ReadsInSFCRootTagName, Advances DEF Reads
  <2>4. CASE Reads("BeforeSpecialS", StateBeforeSpecialS)
    BY <1>3, <1>4, <2>4, ReadsBeforeSpecial, Advances DEF Reads
  <2>5. CASE Reads("BeforeSpecialT", StateBeforeSpecialT)
    BY <1>3, <1>4, <2>5, ReadsBeforeSpecial, Advances DEF Reads
  <2>6. CASE Reads("SpecialStartSequence", StateSpecialStartSequence)
    BY <1>3, <1>4, <2>6, ReadsSpecialStartSequence, Advances DEF Reads
  <2>7. CASE Reads("InSelfClosingTag", StateInSelfClosingTag)
    BY <1>3, <1>4, <2>7, ReadsInSelfClosingTag, Advances DEF Reads
  <2>8. CASE Reads("BeforeClosingTagName", StateBeforeClosingTagName)
    BY <1>3, <1>4, <2>8, ReadsBeforeClosingTagName, Advances DEF Reads
  <2>9. CASE Reads("InClosingTagName", StateInClosingTagName)
    BY <1>3, <1>4, <2>9, ReadsInClosingTagName, Advances DEF Reads, TagStates
  <2>10. CASE Reads("AfterClosingTagName", StateAfterClosingTagName)
    BY <1>3, <1>4, <2>10, ReadsAfterClosingTagName, Advances DEF Reads
  <2>. QED
    BY <1>6, <2>1, <2>2, <2>3, <2>4, <2>5, <2>6, <2>7, <2>8, <2>9, <2>10 DEF ReadsTag
<1>7. CASE ReadsAttribute
  <2>1. CASE Reads("BeforeAttrName", StateBeforeAttrName)
    BY <1>3, <1>4, <2>1, ReadsBeforeAttrName, Advances DEF Reads
  <2>2. CASE Reads("InAttrName", StateInAttrName)
    BY <1>3, <1>4, <2>2, ReadsInAttrName, Advances DEF Reads
  <2>3. CASE Reads("InDirName", StateInDirName)
    BY <1>3, <1>4, <2>3, ReadsInDirName, Advances DEF Reads
  <2>4. CASE Reads("InDirArg", StateInDirArg)
    BY <1>3, <1>4, <2>4, ReadsInDir, Advances DEF Reads
  <2>5. CASE Reads("InDirDynamicArg", StateInDynamicDirArg)
    BY <1>3, <1>4, <2>5, ReadsInDir, Advances DEF Reads
  <2>6. CASE Reads("InDirModifier", StateInDirModifier)
    BY <1>3, <1>4, <2>6, ReadsInDir, Advances DEF Reads
  <2>7. CASE Reads("AfterAttrName", StateAfterAttrName)
    BY <1>3, <1>4, <2>7, ReadsAfterAttrName, Advances DEF Reads
  <2>8. CASE Reads("BeforeAttrValue", StateBeforeAttrValue)
    BY <1>3, <1>4, <2>8, ReadsBeforeAttrValue, Advances DEF Reads
  <2>9. CASE Reads("InAttrValueDq", StateInAttrValueDoubleQuotes)
    BY <1>3, <1>4, <2>9, ReadsInAttrValue, Advances DEF Reads
  <2>10. CASE Reads("InAttrValueSq", StateInAttrValueSingleQuotes)
    BY <1>3, <1>4, <2>10, ReadsInAttrValue, Advances DEF Reads
  <2>11. CASE Reads("InAttrValueNq", StateInAttrValueNoQuotes)
    BY <1>3, <1>4, <2>11, ReadsInAttrValueNq, Advances DEF Reads
  <2>. QED
    BY <1>7, <2>1, <2>2, <2>3, <2>4, <2>5, <2>6, <2>7, <2>8, <2>9, <2>10, <2>11 DEF ReadsAttribute
<1>8. CASE ReadsDeclaration
  <2>1. CASE Reads("BeforeDeclaration", StateBeforeDeclaration)
    BY <1>3, <1>4, <2>1, ReadsBeforeDeclaration, Advances DEF Reads
  <2>2. CASE Reads("InDeclaration", StateInDeclaration)
    BY <1>3, <1>4, <2>2, ReadsInDeclaration, Advances DEF Reads
  <2>3. CASE Reads("InProcessingInstruction", StateInProcessingInstruction)
    BY <1>3, <1>4, <2>3, ReadsInDeclaration, Advances DEF Reads
  <2>4. CASE Reads("BeforeComment", StateBeforeComment)
    BY <1>3, <1>4, <2>4, ReadsBeforeComment, Advances DEF Reads
  <2>5. CASE Reads("InCommentLike", StateInCommentLike)
    BY <1>3, <1>4, <2>5, ReadsInCommentLike, Advances DEF Reads
  <2>6. CASE Reads("InSpecialComment", StateInSpecialComment)
    BY <1>3, <1>4, <2>6, ReadsInDeclaration, Advances DEF Reads
  <2>7. CASE Reads("CDATASequence", StateCDATASequence)
    BY <1>3, <1>4, <2>7, ReadsCDATASequence, Advances DEF Reads
  <2>. QED
    BY <1>8, <2>1, <2>2, <2>3, <2>4, <2>5, <2>6, <2>7 DEF ReadsDeclaration
<1>9. CASE Finish
  BY <1>9, EndsScoped
<1>. QED
  BY <1>1, <1>5, <1>6, <1>7, <1>8, <1>9 DEF Next

(* Whatever the file, the tokenizer and the parser agree on v-pre, and it  *)
(* is in force exactly as long as its element is open (onopentagend,       *)
(* onCloseTag, ondirname, onend).                                          *)
THEOREM VPreIsScoped == Spec => []VPreScoped
<1>1. Init => VPreInv
  BY Begins
<1>2. VPreInv /\ [Next]_vars => VPreInv'
  BY VPreStep
<1>3. VPreInv => VPreScoped
  BY ScopedIs
<1>. QED
  BY <1>1, <1>2, <1>3, PTL DEF Spec

-----------------------------------------------------------------------------
(* The tree. *)

NodeFields == {"kind", "pos", "end", "parent", "tag", "props", "open", "inner", "closed"}

Bottom(w) == w.par.nodes[w.par.stack[Len(w.par.stack)]]

Tree(w) ==
    LET nodes == w.par.nodes
        stack == w.par.stack
        openTag == w.par.openTag
    IN  /\ \A j \in DOMAIN nodes : DOMAIN nodes[j] = NodeFields /\ nodes[j].parent \in -1..Len(nodes)
        /\ \A k \in DOMAIN stack : stack[k] \in DOMAIN nodes
        /\ openTag \in 0..Len(nodes)
        /\ openTag # None =>
              /\ nodes[openTag].kind = "element"
              /\ \A k \in DOMAIN stack : stack[k] # openTag
              /\ ChildrenOf(w, openTag) = {}
        /\ stack # <<>> => Bottom(w).parent = 0 /\ Size > 0

(* A script block that is being closed may have been cut short. *)
CutScript(w) == w.par.stack # <<>> /\ Bottom(w).tag = Script => CutShort(Bottom(w))

(* The start tag of a script block: raw text comes. *)
ScriptOpens(w) ==
    w.par.openTag # None /\ w.par.stack = <<>> /\ w.par.nodes[w.par.openTag].tag = Script =>
        w.tok.inRCDATA /\ w.tok.currentSequence = BlockEnd(Script) /\ w.tok.sequenceIndex = 0

(* So much of the end tag stands before i.                                 *)
StandsBefore(w, i) ==
    LET text == w.tok.currentSequence.text
        n == w.tok.sequenceIndex
    IN  n <= Len(text) /\ n <= i /\ \A k \in 1..n : Lower(At(i - n + k - 1)) = text[k]

(* The raw text of a script block. *)
RawScript(w, i) ==
    /\ Len(w.par.stack) = 1 /\ ChildrenOf(w, w.par.stack[1]) = {}
    /\ w.tok.state = "InRCDATA" /\ w.tok.inRCDATA
    /\ w.tok.currentSequence = BlockEnd(Script) /\ StandsBefore(w, i)

-----------------------------------------------------------------------------
(* The place. *)

NoSection == {"BeforeAttrName", "InSelfClosingTag", "AfterClosingTagName"}

CommentOk(w, i) ==
    LET st == Start(w)
        n == w.tok.sequenceIndex
    IN  /\ n \in 0..2
        /\ \/ w.tok.currentSequence = CdataEnd
           \/ /\ w.tok.currentSequence = CommentEnd
              /\ st >= 4 /\ At(st - 4) = "<" /\ At(st - 3) = "!" /\ At(st - 2) = "-" /\ At(st - 1) = "-"
              /\ n = 1 => i >= st + 1
              /\ n = 2 => i >= st + 2 \/ i = st \/ (i = st + 1 /\ At(st) = "-")

Section(w, i) ==
    LET st == Start(w)
        q == w.tok.state
    IN  /\ q \notin NoSection => st \in 0..i
        /\ q = "BeforeTagName" => i = st + 1 /\ At(st) = "<"
        /\ q = "InterpolationOpen" => st + 1 <= i
        /\ q = "Interpolation" => st + 2 <= i
        /\ q = "InterpolationClose" => st + 3 <= i
        /\ q = "BeforeDeclaration" => i = st /\ st >= 2 /\ At(st - 2) = "<" /\ At(st - 1) = "!"
        /\ q = "BeforeComment" => i = st + 1 /\ st >= 2 /\ At(st - 2) = "<" /\ At(st - 1) = "!" /\ At(st) = "-"
        /\ q = "InCommentLike" => CommentOk(w, i)
        /\ q = "InDirName" => st + 1 <= i /\ At(st) = "v" /\ At(st + 1) = "-"
        /\ q = "InDirArg" => (i = st + 1 => At(st) # "[")
        /\ q = "InDirDynamicArg" => st + 1 <= i

Sequence(w, i) ==
    /\ w.tok.sequenceIndex \in Nat
    /\ w.tok.state \notin {"SpecialStartSequence", "CDATASequence", "InCommentLike"} => w.tok.sequenceIndex <= i
    /\ w.tok.inRCDATA => Len(w.tok.currentSequence.text) \in Nat /\ Len(w.tok.currentSequence.text) >= 2
    /\ w.tok.state = "InRCDATA" => w.tok.inRCDATA

DirStates == {"InDirArg", "InDirDynamicArg", "InDirModifier"}

(* The property whose argument is read is a directive, but in v-pre.       *)
Property(w) ==
    /\ DOMAIN w.par.prop = {"kind", "name", "pos", "end"}
    /\ w.par.inVPre /\ ~IsVPre(w.par.prop) => w.par.prop.kind = "attribute"
    /\ ~w.par.inVPre => w.par.prop.kind = "directive" \/ w.par.prop.name = <<"v", "-">>

Dir(w, i) == w.tok.state \in DirStates => w.par.prop.pos \in 0..i /\ Property(w)

InnerNames == {"InTagName", "BeforeSpecialS", "BeforeSpecialT", "SpecialStartSequence"}

Spot(w, i) ==
    /\ i \in 0..Size
    /\ w.par.openTag # None <=> w.tok.state \in TagStates
    /\ w.tok.state \in InnerNames => w.par.stack # <<>>
    /\ Section(w, i) /\ Sequence(w, i) /\ Dir(w, i)

Core(w) == World(w) /\ Calm(w) /\ Tree(w) /\ CutScript(w) /\ ScriptOpens(w)

Fine(w, i) ==
    /\ World(w) /\ Calm(w) /\ Tree(w) /\ ScriptOpens(w)
    /\ CutScript(w) \/ RawScript(w, i)
    /\ Spot(w, i)

LEMMA FineIs ==
    ASSUME NEW w, NEW i, Fine(w, i), w.tok.state # "InRCDATA" PROVE Core(w)
BY DEF Fine, Core, RawScript

LEMMA CoreFine == ASSUME NEW w, NEW i, Core(w), Spot(w, i) PROVE Fine(w, i)
BY DEF Fine, Core

-----------------------------------------------------------------------------
(* What keeps the tree. *)

Looks(n, m) ==
    /\ DOMAIN m = DOMAIN n
    /\ \A j \in DOMAIN n : /\ DOMAIN m[j] = DOMAIN n[j] /\ m[j].parent = n[j].parent /\ m[j].tag = n[j].tag
                           /\ m[j].open = n[j].open /\ m[j].kind = n[j].kind

(* The tokenizer and the open tags are as they were. *)
Even(w, v) ==
    /\ v.tok = w.tok /\ v.par.panic = w.par.panic
    /\ v.par.openTag = w.par.openTag /\ v.par.stack = w.par.stack /\ v.par.inVPre = w.par.inVPre

Same(w, v) == World(v) /\ Even(w, v) /\ Looks(w.par.nodes, v.par.nodes)

(* So are they but for v-pre. *)
Steady(w, v) ==
    /\ v.tok.state = w.tok.state /\ v.tok.sectionStart = w.tok.sectionStart /\ v.tok.index = w.tok.index
    /\ v.tok.inRCDATA = w.tok.inRCDATA /\ v.tok.currentSequence = w.tok.currentSequence
    /\ v.tok.sequenceIndex = w.tok.sequenceIndex
    /\ v.par.panic = w.par.panic /\ v.par.openTag = w.par.openTag /\ v.par.stack = w.par.stack

Near(w, v) == World(v) /\ Steady(w, v) /\ Looks(w.par.nodes, v.par.nodes)

(* One more node in the innermost element. *)
Grown(w, v) ==
    /\ World(v) /\ Even(w, v)
    /\ \E x : DOMAIN x = NodeFields /\ x.parent = Top(w) /\ v.par.nodes = Append(w.par.nodes, x)

LEMMA SameLen ==
    ASSUME NEW s, AnySeq(s), NEW t, AnySeq(t), DOMAIN s = DOMAIN t PROVE Len(s) = Len(t)
<1>1. Len(s) \in Nat /\ Len(t) \in Nat /\ 1..Len(s) = 1..Len(t)
  BY SeqIs
<1>. QED
  BY <1>1

LEMMA NodesAre ==
    ASSUME NEW w, World(w)
    PROVE  /\ AnySeq(w.par.nodes) /\ Len(w.par.nodes) \in Nat /\ DOMAIN w.par.nodes = 1..Len(w.par.nodes)
           /\ AnySeq(w.par.stack) /\ Len(w.par.stack) \in Nat /\ DOMAIN w.par.stack = 1..Len(w.par.stack)
           /\ (w.par.stack # <<>> <=> Len(w.par.stack) # 0)
           /\ w.par.stack # <<>> => Len(w.par.stack) \in DOMAIN w.par.stack
BY SeqIs DEF World

LEMMA CoreNear ==
    ASSUME NEW w, Core(w), NEW v, Near(w, v) PROVE Core(v)
<1>1. World(w) /\ World(v) /\ Steady(w, v) /\ Calm(v)
  BY DEF Core, Near, Steady, Calm
<1>2. Len(v.par.nodes) = Len(w.par.nodes) /\ DOMAIN v.par.nodes = DOMAIN w.par.nodes
  BY <1>1, SameLen, NodesAre DEF Near, Looks
<1>3. ASSUME NEW id PROVE ChildrenOf(v, id) = ChildrenOf(w, id)
  BY <1>2 DEF ChildrenOf, Near, Looks
<1>4. ASSUME w.par.stack # <<>>
      PROVE  /\ Bottom(v).parent = Bottom(w).parent /\ Bottom(v).tag = Bottom(w).tag
             /\ Bottom(v).open = Bottom(w).open /\ Bottom(v).kind = Bottom(w).kind
  <2>1. w.par.stack[Len(w.par.stack)] \in DOMAIN w.par.nodes
    BY <1>1, <1>4, NodesAre DEF Core, Tree
  <2>. QED
    BY <1>1, <2>1 DEF Bottom, Near, Looks, Steady
<1>5. Tree(v)
  <2>1. \A j \in DOMAIN v.par.nodes : DOMAIN v.par.nodes[j] = NodeFields /\ v.par.nodes[j].parent \in -1..Len(v.par.nodes)
    BY <1>2 DEF Core, Tree, Near, Looks
  <2>2. v.par.openTag # None => v.par.nodes[v.par.openTag].kind = "element"
    <3>1. w.par.openTag # None => w.par.openTag \in DOMAIN w.par.nodes
      BY <1>1, NodesAre DEF Core, Tree, None
    <3>. QED
      BY <1>1, <3>1 DEF Core, Tree, Near, Looks, Steady
  <2>. QED
    BY <1>1, <1>2, <1>3, <1>4, <2>1, <2>2 DEF Core, Tree, Steady
<1>6. CutScript(v)
  BY <1>1, <1>4 DEF Core, CutScript, CutShort, Steady
<1>7. ScriptOpens(v)
  <2>1. w.par.openTag # None => w.par.openTag \in DOMAIN w.par.nodes
    BY <1>1, NodesAre DEF Core, Tree, None
  <2>. QED
    BY <1>1, <2>1 DEF Core, ScriptOpens, Near, Looks, Steady
<1>. QED
  BY <1>1, <1>5, <1>6, <1>7 DEF Core

LEMMA CoreSame ==
    ASSUME NEW w, Core(w), NEW v, Same(w, v) PROVE Core(v)
<1>1. Near(w, v)
  BY DEF Same, Near, Even, Steady
<1>. QED
  BY <1>1, CoreNear

LEMMA CoreTok ==
    ASSUME NEW w, Core(w), NEW v, World(v), v.par = w.par,
           \/ w.par.openTag = None
           \/ /\ v.tok.inRCDATA = w.tok.inRCDATA /\ v.tok.currentSequence = w.tok.currentSequence
              /\ v.tok.sequenceIndex = w.tok.sequenceIndex
    PROVE  Core(v)
<1>1. Tree(v) /\ CutScript(v) /\ Calm(v)
  BY DEF Core, Tree, CutScript, Calm, Bottom, ChildrenOf
<1>2. ScriptOpens(v)
  BY DEF Core, ScriptOpens
<1>. QED
  BY <1>1, <1>2 DEF Core

LEMMA TreeGrown ==
    ASSUME NEW w, World(w), Tree(w), NEW v, Grown(w, v)
    PROVE  /\ Tree(v) /\ (w.par.stack # <<>> => Bottom(v) = Bottom(w))
           /\ \A j \in DOMAIN w.par.nodes : v.par.nodes[j] = w.par.nodes[j]
           /\ w.par.openTag # None => w.par.openTag \in DOMAIN w.par.nodes
           /\ ChildrenOf(v, Top(w)) = ChildrenOf(w, Top(w)) \cup {Len(w.par.nodes) + 1}
<1>. DEFINE n == w.par.nodes
            m == v.par.nodes
<1>1. World(w) /\ World(v) /\ Even(w, v)
  BY DEF Grown
<1>2. PICK x : DOMAIN x = NodeFields /\ x.parent = Top(w) /\ m = Append(n, x)
  BY DEF Grown
<1>3. /\ Len(n) \in Nat /\ Len(m) = Len(n) + 1 /\ DOMAIN n = 1..Len(n) /\ DOMAIN m = 1..Len(m)
      /\ \A j \in DOMAIN n : m[j] = n[j] /\ j \in DOMAIN m
      /\ m[Len(m)] = x
  <2>1. AnySeq(n) /\ AnySeq(m)
    BY <1>1, NodesAre
  <2>. HIDE DEF n, m
  <2>. QED
    BY <1>2, <2>1, SeqEnds, SeqIs
<1>4. Top(w) \in 0..Len(n)
  <2>1. w.par.stack # <<>> => 1 \in DOMAIN w.par.stack /\ Head(w.par.stack) = w.par.stack[1]
    <3>1. PICK S : w.par.stack \in Seq(S)
      BY <1>1, NodesAre DEF AnySeq
    <3>. QED
      BY <1>1, <3>1, NodesAre
  <2>. QED
    BY <1>3, <2>1 DEF Tree, Top
<1>5. w.par.openTag # None => Top(w) # w.par.openTag /\ w.par.openTag \in DOMAIN n
  <2>1. w.par.stack # <<>> => 1 \in DOMAIN w.par.stack /\ Head(w.par.stack) = w.par.stack[1]
    <3>1. PICK S : w.par.stack \in Seq(S)
      BY <1>1, NodesAre DEF AnySeq
    <3>. QED
      BY <1>1, <3>1, NodesAre
  <2>. QED
    BY <1>3, <2>1 DEF Tree, Top, None
<1>6. ASSUME NEW id, id # Top(w) PROVE ChildrenOf(v, id) = ChildrenOf(w, id)
  <2>1. \A j \in DOMAIN m : j \in DOMAIN n \/ j = Len(m)
    BY <1>3
  <2>. QED
    BY <1>2, <1>3, <1>6, <2>1 DEF ChildrenOf
<1>7. w.par.stack # <<>> => Bottom(v) = Bottom(w)
  <2>1. w.par.stack # <<>> => w.par.stack[Len(w.par.stack)] \in DOMAIN n
    BY <1>1, NodesAre DEF Tree
  <2>. QED
    BY <1>1, <1>3, <2>1 DEF Bottom, Even
<1>8. Tree(v)
  <2>1. ASSUME NEW j \in DOMAIN m PROVE DOMAIN m[j] = NodeFields /\ m[j].parent \in -1..Len(m)
    <3>1. CASE j \in DOMAIN n
      <4>1. DOMAIN n[j] = NodeFields /\ n[j].parent \in -1..Len(n)
        BY <3>1 DEF Tree
      <4>. HIDE DEF n, m
      <4>. QED
        BY <1>3, <3>1, <4>1
    <3>2. CASE j = Len(m)
      <4>. HIDE DEF n, m
      <4>. QED
        BY <1>2, <1>3, <1>4, <3>2
    <3>. QED
      BY <1>3, <3>1, <3>2
  <2>2. \A k \in DOMAIN v.par.stack : v.par.stack[k] \in DOMAIN m
    BY <1>1, <1>3 DEF Tree, Even
  <2>3. v.par.openTag \in 0..Len(m)
    <3>1. v.par.openTag \in 0..Len(n)
      BY <1>1 DEF Tree, Even
    <3>. HIDE DEF n, m
    <3>. QED
      BY <1>3, <3>1
  <2>4. v.par.openTag # None =>
           /\ m[v.par.openTag].kind = "element"
           /\ \A k \in DOMAIN v.par.stack : v.par.stack[k] # v.par.openTag
           /\ ChildrenOf(v, v.par.openTag) = {}
    BY <1>1, <1>3, <1>5, <1>6 DEF Tree, Even
  <2>5. v.par.stack # <<>> => Bottom(v).parent = 0 /\ Size > 0
    BY <1>1, <1>7 DEF Tree, Even
  <2>. QED
    BY <2>1, <2>2, <2>3, <2>4, <2>5 DEF Tree
<1>9. ChildrenOf(v, Top(w)) = ChildrenOf(w, Top(w)) \cup {Len(n) + 1}
  <2>1. \A j \in DOMAIN m : j \in DOMAIN n \/ j = Len(m)
    BY <1>3
  <2>2. Len(n) + 1 \in DOMAIN m /\ m[Len(n) + 1] = x
    BY <1>3
  <2>. QED
    BY <1>2, <1>3, <2>1, <2>2 DEF ChildrenOf
<1>. QED
  BY <1>3, <1>5, <1>7, <1>8, <1>9

LEMMA CoreGrown ==
    ASSUME NEW w, Core(w), NEW v, Grown(w, v) PROVE Core(v)
<1>1. World(w) /\ Tree(w) /\ World(v) /\ Even(w, v) /\ Calm(v)
  BY DEF Core, Grown, Even, Calm
<1>2. /\ Tree(v) /\ (w.par.stack # <<>> => Bottom(v) = Bottom(w))
      /\ \A j \in DOMAIN w.par.nodes : v.par.nodes[j] = w.par.nodes[j]
      /\ w.par.openTag # None => w.par.openTag \in DOMAIN w.par.nodes
  BY <1>1, TreeGrown
<1>3. CutScript(v)
  BY <1>1, <1>2 DEF Core, CutScript, Even
<1>4. ScriptOpens(v)
  BY <1>1, <1>2 DEF Core, ScriptOpens, Even
<1>. QED
  BY <1>1, <1>2, <1>3, <1>4 DEF Core

LEMMA CoreIs == ASSUME NEW w, Core(w) PROVE World(w) /\ w.par.panic = "no" /\ Calm(w)
BY DEF Core, Calm

LEMMA EvenWorld == ASSUME NEW w PROVE Even(w, w)
BY DEF Even

LEMMA CoreError ==
    ASSUME NEW w, Core(w), NEW msg, NEW pos
    PROVE  Core(EmitError(w, msg, pos)) /\ Even(w, EmitError(w, msg, pos))
<1>. DEFINE v == EmitError(w, msg, pos)
<1>1. Same(w, v)
  BY DEF Same, Looks, Even, EmitError, Core, World, TokFields, ParFields
<1>. QED
  BY <1>1, CoreSame DEF Same

(* A node is added. *)
LEMMA AddGrows ==
    ASSUME NEW w, World(w), NEW kind, NEW a, NEW b
    PROVE  Grown(w, AddNode(w, kind, a, b))
<1>. DEFINE x == Node(kind, a, b, Top(w))
            v == AddNode(w, kind, a, b)
<1>1. DOMAIN x = NodeFields /\ x.parent = Top(w)
  BY DEF Node, NodeFields
<1>. HIDE DEF x
<1>2. /\ v.par.nodes = Append(w.par.nodes, x) /\ Even(w, v)
      /\ DOMAIN v = DOMAIN w /\ DOMAIN v.par = DOMAIN w.par
  BY DEF Even, AddNode, World, TokFields, ParFields, x
<1>. HIDE DEF v
<1>3. World(w) /\ AnySeq(v.par.nodes)
  <2>1. AnySeq(w.par.nodes)
    BY NodesAre
  <2>2. AnySeq(Append(w.par.nodes, x))
    BY <2>1, SeqEnds
  <2>. QED
    BY <1>2, <2>2
<1>4. World(v)
  BY <1>2, <1>3 DEF World, Even
<1>5. Grown(w, v)
  BY <1>1, <1>2, <1>4 DEF Grown
<1>. QED
  BY <1>5 DEF v

LEMMA CoreAdds ==
    ASSUME NEW w, Core(w), NEW kind, NEW a, NEW b
    PROVE  Core(AddNode(w, kind, a, b)) /\ Even(w, AddNode(w, kind, a, b))
<1>1. Grown(w, AddNode(w, kind, a, b))
  BY CoreIs, AddGrows
<1>. QED
  BY <1>1, CoreGrown DEF Grown

LEMMA CoreText ==
    ASSUME NEW w, Core(w), NEW a \in Nat, NEW b \in Nat, a <= b, b <= Size
    PROVE  Core(Ontext(w, a, b)) /\ Even(w, Ontext(w, a, b))
<1>1. World(w) /\ Calm(w)
  BY DEF Core
<1>2. Ontext(w, a, b) = AddText(w, a, b)
  BY <1>1 DEF Ontext, WithSlice, Calm
<1>3. Core(AddNode(w, "text", a, b)) /\ Even(w, AddNode(w, "text", a, b))
  BY CoreAdds
<1>4. ASSUME NEW i PROVE Core([w EXCEPT !.par.nodes[i].end = b]) /\ Even(w, [w EXCEPT !.par.nodes[i].end = b])
  <2>. DEFINE v == [w EXCEPT !.par.nodes[i].end = b]
  <2>1. /\ DOMAIN v.par.nodes = DOMAIN w.par.nodes /\ v.par.nodes = [k \in DOMAIN v.par.nodes |-> v.par.nodes[k]]
        /\ DOMAIN v = DOMAIN w /\ DOMAIN v.par = DOMAIN w.par /\ Even(w, v)
    BY <1>1 DEF World, TokFields, ParFields, Even
  <2>2. \A j \in DOMAIN w.par.nodes :
           v.par.nodes[j] = IF j = i THEN [w.par.nodes[j] EXCEPT !.end = b] ELSE w.par.nodes[j]
    BY <1>1 DEF World, ParFields
  <2>3. \A j \in DOMAIN w.par.nodes : DOMAIN w.par.nodes[j] = NodeFields
    BY DEF Core, Tree
  <2>. HIDE DEF v
  <2>4. Looks(w.par.nodes, v.par.nodes)
    BY <2>1, <2>2, <2>3 DEF Looks, NodeFields
  <2>5. AnySeq(v.par.nodes)
    BY <1>1, <2>1, SeqPut DEF World
  <2>6. Same(w, v)
    BY <1>1, <2>1, <2>4, <2>5 DEF Same, World, Even
  <2>. QED
    BY <2>6, CoreSame DEF Same, v
<1>5. Core(AddText(w, a, b)) /\ Even(w, AddText(w, a, b))
  BY <1>3, <1>4 DEF AddText
<1>. QED
  BY <1>2, <1>5

LEMMA CoreInterpolation ==
    ASSUME NEW w, Core(w), NEW a \in Nat, NEW b \in Nat, a + 4 <= b, b <= Size
    PROVE  Core(Oninterpolation(w, a, b)) /\ Even(w, Oninterpolation(w, a, b))
<1>1. Core(AddNode(w, "interpolation", a, b)) /\ Even(w, AddNode(w, "interpolation", a, b))
  BY CoreAdds
<1>2. Core(Ontext(w, a, b)) /\ Even(w, Ontext(w, a, b))
  BY CoreText
<1>3. w.par.panic = "no" /\ 0 <= a + 2 /\ a + 2 <= b - 2 /\ b - 2 <= Size
  <2>1. Size \in Nat
    BY CoreIs DEF World
  <2>. QED
    BY <2>1, CoreIs
<1>. QED
  BY <1>1, <1>2, <1>3 DEF Oninterpolation, WithSlice

LEMMA CoreComment ==
    ASSUME NEW w, Core(w), NEW a, NEW b
    PROVE  LET v == Oncomment(w, a, b)
           IN  IF 0 <= a /\ a <= b /\ b <= Size THEN Core(v) /\ Even(w, v)
               ELSE v = Panic(w, "oncomment")
<1>1. Core(AddNode(w, "comment", a - 4, b + 3)) /\ Even(w, AddNode(w, "comment", a - 4, b + 3))
  BY CoreAdds
<1>. QED
  BY <1>1, CoreIs DEF Oncomment, WithSlice

LEMMA CoreAttribname ==
    ASSUME NEW w, Core(w), NEW a \in Nat, NEW b \in Nat, a <= b, b <= Size
    PROVE  LET v == Onattribname(w, a, b) IN Core(v) /\ Even(w, v) /\ v.par.prop.pos = a
<1>1. ASSUME NEW name
      PROVE  LET v == [w EXCEPT !.par.prop = Prop("attribute", name, a, b)]
             IN  Core(v) /\ Even(w, v) /\ v.par.prop.pos = a
  <2>. DEFINE v == [w EXCEPT !.par.prop = Prop("attribute", name, a, b)]
  <2>1. Same(w, v) /\ v.par.prop.pos = a
    BY DEF Same, Looks, Even, Core, World, TokFields, ParFields, Prop
  <2>. HIDE DEF v
  <2>2. Core(v) /\ Even(w, v) /\ v.par.prop.pos = a
    BY <2>1, CoreSame DEF Same
  <2>. QED
    BY <2>2 DEF v
<1>2. Onattribname(w, a, b) = [w EXCEPT !.par.prop = Prop("attribute", Slice(a, b), a, b)]
  BY CoreIs DEF Onattribname, WithSlice
<1>. QED
  BY <1>1, <1>2

LEMMA CoreAttribnameend ==
    ASSUME NEW w, Core(w), NEW b \in Nat, w.par.prop.pos \in 0..b, b <= Size
    PROVE  Onattribnameend(w, b) = w
BY CoreIs DEF Onattribnameend, WithSlice

LEMMA CoreAttribdata ==
    ASSUME NEW w, Core(w), NEW a \in Nat, NEW b \in Nat, a <= b, b <= Size
    PROVE  Core(Onattribdata(w, a, b)) /\ Even(w, Onattribdata(w, a, b))
<1>. DEFINE v == [w EXCEPT !.par.attrStart = IF @ < 0 THEN a ELSE @, !.par.attrEnd = b]
<1>1. Same(w, v)
  BY DEF Same, Looks, Even, Core, World, TokFields, ParFields
<1>2. Onattribdata(w, a, b) = v
  BY CoreIs DEF Onattribdata, WithSlice
<1>. QED
  BY <1>1, <1>2, CoreSame DEF Same

(* onattribend: raw text that is not a script's comes. *)
LEMMA CoreAttribend ==
    ASSUME NEW w, Core(w), NEW quote, NEW end
    PROVE  LET v == Onattribend(w, quote, end)
           IN  /\ Core(v) /\ v.par.panic = w.par.panic
               /\ v.par.openTag = w.par.openTag /\ v.par.stack = w.par.stack /\ v.par.inVPre = w.par.inVPre
               /\ v.tok = w.tok \/ v.tok = EnterRCDATA(w, BlockEnd(Template), 0).tok
<1>1. World(w)
  BY CoreIs
<1>. DEFINE Ends(v) ==
         /\ Core(v) /\ v.par.panic = w.par.panic
         /\ v.par.openTag = w.par.openTag /\ v.par.stack = w.par.stack /\ v.par.inVPre = w.par.inVPre
         /\ v.tok = w.tok \/ v.tok = EnterRCDATA(w, BlockEnd(Template), 0).tok
<1>2. ASSUME NEW v, Ends(v), NEW u, Same(v, u) PROVE Ends(u)
  BY <1>2, CoreSame DEF Same, Even
<1>3. Ends(w)
  OBVIOUS
<1>4. ASSUME w.par.nodes[w.par.openTag].tag = Template PROVE Ends(EnterRCDATA(w, BlockEnd(Template), 0))
  <2>. DEFINE v == EnterRCDATA(w, BlockEnd(Template), 0)
  <2>1. World(v) /\ v.par = w.par
    <3>1. World(v)
      BY <1>1, LikeRCDATA DEF Like
    <3>2. v.par = w.par
      BY <1>1 DEF EnterRCDATA, World
    <3>. QED
      BY <3>1, <3>2
  <2>2. Template # Script
    BY DEF Template, Script
  <2>3. Tree(v) /\ CutScript(v) /\ Calm(v)
    BY <2>1 DEF Core, Tree, CutScript, Calm, Bottom, ChildrenOf
  <2>4. ScriptOpens(v)
    BY <1>4, <2>1, <2>2 DEF ScriptOpens
  <2>. HIDE DEF v
  <2>5. Core(v)
    BY <2>1, <2>3, <2>4 DEF Core
  <2>. QED
    BY <2>1, <2>5 DEF v
<1>5. ASSUME NEW v, Ends(v), NEW msg, NEW pos PROVE Ends(EmitError(v, msg, pos))
  <2>1. Same(v, EmitError(v, msg, pos))
    BY <1>5 DEF Same, Looks, Even, EmitError, Core, World, TokFields, ParFields
  <2>. QED
    BY <1>2, <1>5, <2>1
<1>6. ASSUME NEW v, Ends(v), NEW i, NEW x PROVE Ends([v EXCEPT !.par.nodes[i].props = Append(@, x)])
  <2>. DEFINE u == [v EXCEPT !.par.nodes[i].props = Append(@, x)]
  <2>0. World(v)
    BY <1>6, CoreIs
  <2>1. /\ DOMAIN u.par.nodes = DOMAIN v.par.nodes /\ u.par.nodes = [k \in DOMAIN u.par.nodes |-> u.par.nodes[k]]
        /\ DOMAIN u = DOMAIN v /\ DOMAIN u.par = DOMAIN v.par /\ Even(v, u)
    BY <2>0 DEF World, TokFields, ParFields, Even
  <2>2. \A j \in DOMAIN v.par.nodes :
           u.par.nodes[j] = IF j = i THEN [v.par.nodes[j] EXCEPT !.props = Append(@, x)] ELSE v.par.nodes[j]
    BY <2>0 DEF World, ParFields
  <2>3. \A j \in DOMAIN v.par.nodes : DOMAIN v.par.nodes[j] = NodeFields
    BY <1>6 DEF Core, Tree
  <2>. HIDE DEF u
  <2>4. Looks(v.par.nodes, u.par.nodes)
    BY <2>1, <2>2, <2>3 DEF Looks, NodeFields
  <2>5. AnySeq(u.par.nodes)
    BY <2>0, <2>1, SeqPut DEF World
  <2>6. Same(v, u)
    BY <2>0, <2>1, <2>4, <2>5 DEF Same, World, Even
  <2>7. Ends(u)
    BY <1>2, <1>6, <2>6
  <2>. QED
    BY <2>7 DEF u
<1>7. ASSUME NEW v, Ends(v) PROVE Ends([v EXCEPT !.par.attrStart = -1, !.par.attrEnd = -1])
  <2>1. Same(v, [v EXCEPT !.par.attrStart = -1, !.par.attrEnd = -1])
    BY <1>7 DEF Same, Looks, Even, Core, World, TokFields, ParFields
  <2>. QED
    BY <1>2, <1>7, <2>1
<1>. HIDE DEF Ends
<1>. DEFINE id == w.par.openTag
            value == IF w.par.attrStart < 0 THEN <<>> ELSE Slice(w.par.attrStart, w.par.attrEnd)
            foreign == /\ quote # "novalue" /\ w.par.prop.kind = "attribute" /\ InSFCRoot(w)
                       /\ w.par.nodes[id].tag = Template /\ w.par.prop.name = Lang
                       /\ value \notin {<<>>, Html}
            raw == IF foreign THEN EnterRCDATA(w, BlockEnd(Template), 0) ELSE w
            noted == IF quote = "unquoted" /\ w.par.prop.kind = "attribute" /\ value = <<>>
                     THEN EmitError(raw, "Missing attribute value", end) ELSE raw
            added == IF IsVPre(w.par.prop) THEN noted
                     ELSE [noted EXCEPT !.par.nodes[id].props = Append(@, [pos |-> w.par.prop.pos, end |-> end])]
<1>8. Ends(raw)
  BY <1>3, <1>4
<1>9. Ends(noted)
  <2>. HIDE DEF raw, value
  <2>. QED
    BY <1>5, <1>8
<1>10. Ends(added)
  <2>. HIDE DEF noted, id
  <2>. QED
    BY <1>6, <1>9
<1>11. Onattribend(w, quote, end) =
          [(IF id = None \/ w.par.prop = NoProp THEN w ELSE added) EXCEPT !.par.attrStart = -1, !.par.attrEnd = -1]
  BY CoreIs DEF Onattribend
<1>12. Ends(Onattribend(w, quote, end))
  <2>. DEFINE base == IF id = None \/ w.par.prop = NoProp THEN w ELSE added
  <2>1. Ends(base)
    <3>. HIDE DEF added, id
    <3>. QED
      BY <1>3, <1>10
  <2>2. Onattribend(w, quote, end) = [base EXCEPT !.par.attrStart = -1, !.par.attrEnd = -1]
    BY <1>11
  <2>. HIDE DEF base
  <2>. QED
    BY <1>7, <2>1, <2>2
<1>. QED
  BY <1>12 DEF Ends

(* ondirname: a directive, or in v-pre, or without a name, an attribute.   *)
LEMMA CoreDirname ==
    ASSUME NEW w, Core(w), NEW a \in Nat, NEW b \in Nat, a <= b, b <= Size,
           \/ Slice(a, b) \in Shorthands
           \/ SubSeq(Slice(a, b), 3, Len(Slice(a, b))) = <<>> => Slice(a, b) = <<"v", "-">>
    PROVE  LET v == Ondirname(w, a, b)
           IN  Core(v) /\ Steady(w, v) /\ Property(v) /\ v.par.prop.pos = a
<1>. DEFINE Is(v) == Core(v) /\ Steady(w, v) /\ Property(v) /\ v.par.prop.pos = a
            raw == Slice(a, b)
            name == IF raw \in Shorthands THEN raw ELSE SubSeq(raw, 3, Len(raw))
            noted == IF ~w.par.inVPre /\ name = <<>> THEN EmitError(w, "Missing directive name", a) ELSE w
            v1 == [noted EXCEPT !.par.prop = Prop("attribute", raw, a, b)]
            v2 == [w EXCEPT !.par.prop = Prop("directive", name, a, b), !.tok.inVPre = TRUE,
                            !.par.inVPre = TRUE, !.par.vPreBoundary = w.par.openTag]
            v3 == [w EXCEPT !.par.prop = Prop("directive", name, a, b)]
<1>1. Ondirname(w, a, b) = IF w.par.inVPre \/ name = <<>> THEN v1 ELSE IF name = Pre THEN v2 ELSE v3
  <2>. DEFINE Named(text) ==
           LET called == IF text \in Shorthands THEN text ELSE SubSeq(text, 3, Len(text))
               missed == IF ~w.par.inVPre /\ called = <<>> THEN EmitError(w, "Missing directive name", a) ELSE w
           IN  IF w.par.inVPre \/ called = <<>>
               THEN [missed EXCEPT !.par.prop = Prop("attribute", text, a, b)]
               ELSE IF called = Pre
               THEN [w EXCEPT !.par.prop = Prop("directive", called, a, b), !.tok.inVPre = TRUE,
                              !.par.inVPre = TRUE, !.par.vPreBoundary = w.par.openTag]
               ELSE [w EXCEPT !.par.prop = Prop("directive", called, a, b)]
  <2>1. Ondirname(w, a, b) = WithSlice(w, a, b, "ondirname", Named)
    BY DEF Ondirname
  <2>2. Named(raw) = IF w.par.inVPre \/ name = <<>> THEN v1 ELSE IF name = Pre THEN v2 ELSE v3
    OBVIOUS
  <2>. HIDE DEF Named, v1, v2, v3
  <2>3. WithSlice(w, a, b, "ondirname", Named) = Named(raw)
    BY CoreIs DEF WithSlice
  <2>. QED
    BY <2>1, <2>2, <2>3
<1>2. name = <<>> => raw = <<"v", "-">>
  BY DEF Shorthands
<1>. HIDE DEF name, raw
<1>3. ASSUME w.par.inVPre \/ name = <<>> PROVE Is(v1)
  <2>1. Core(noted) /\ Even(w, noted)
    BY CoreError, EvenWorld
  <2>. HIDE DEF noted
  <2>2. Same(noted, v1) /\ v1.par.prop = Prop("attribute", raw, a, b)
    BY <2>1 DEF Same, Looks, Even, Core, World, TokFields, ParFields
  <2>3. Core(v1) /\ Even(noted, v1)
    BY <2>1, <2>2, CoreSame DEF Same
  <2>. HIDE DEF v1
  <2>4. Steady(w, v1) /\ v1.par.inVPre = w.par.inVPre
    BY <2>1, <2>3 DEF Even, Steady
  <2>5. ~w.par.inVPre => v1.par.prop.name = <<"v", "-">>
    BY <1>2, <1>3, <2>2 DEF Prop
  <2>6. v1.par.prop.pos = a /\ v1.par.prop.kind = "attribute" /\ DOMAIN v1.par.prop = {"kind", "name", "pos", "end"}
    BY <2>2 DEF Prop
  <2>. QED
    BY <2>3, <2>4, <2>5, <2>6 DEF Property
<1>4. ASSUME name = Pre PROVE Is(v2)
  <2>1. Near(w, v2) /\ v2.par.prop = Prop("directive", name, a, b) /\ v2.par.inVPre = TRUE
    BY DEF Near, Looks, Steady, Core, World, TokFields, ParFields
  <2>. HIDE DEF v2
  <2>2. Core(v2)
    BY <2>1, CoreNear
  <2>3. IsVPre(v2.par.prop) /\ v2.par.prop.pos = a /\ DOMAIN v2.par.prop = {"kind", "name", "pos", "end"}
    BY <1>4, <2>1 DEF Prop, IsVPre
  <2>. QED
    BY <2>1, <2>2, <2>3 DEF Near, Property
<1>5. ASSUME ~w.par.inVPre PROVE Is(v3)
  <2>1. Near(w, v3) /\ v3.par.prop = Prop("directive", name, a, b) /\ v3.par.inVPre = w.par.inVPre
    BY DEF Near, Looks, Steady, Core, World, TokFields, ParFields
  <2>. HIDE DEF v3
  <2>2. Core(v3)
    BY <2>1, CoreNear
  <2>3. v3.par.prop.kind = "directive" /\ v3.par.prop.pos = a /\ DOMAIN v3.par.prop = {"kind", "name", "pos", "end"}
    BY <2>1 DEF Prop
  <2>. QED
    BY <1>5, <2>1, <2>2, <2>3 DEF Near, Property
<1>. HIDE DEF Is, v1, v2, v3
<1>6. Is(Ondirname(w, a, b))
  BY <1>1, <1>3, <1>4, <1>5
<1>. QED
  BY <1>6 DEF Is

LEMMA CoreArg ==
    ASSUME NEW w, Core(w), Property(w), NEW a \in Nat, NEW b \in Nat, a <= b, b <= Size
    PROVE  LET v == ArgOrModifier(w, a, b)
           IN  \/ v = Panic(w, "AsDirective") /\ w.par.prop.name = <<"v", "-">>
               \/ Core(v) /\ Even(w, v) /\ Property(v) /\ v.par.prop.pos = w.par.prop.pos
<1>. DEFINE v == [w EXCEPT !.par.prop.end = b]
<1>1. /\ Same(w, v) /\ v.par.prop.pos = w.par.prop.pos /\ v.par.prop.kind = w.par.prop.kind
      /\ v.par.prop.name = w.par.prop.name /\ DOMAIN v.par.prop = DOMAIN w.par.prop
  BY DEF Same, Looks, Even, Core, World, TokFields, ParFields, Property
<1>2. ArgOrModifier(w, a, b) =
         IF w.par.inVPre /\ ~IsVPre(w.par.prop)
         THEN IF w.par.prop.kind = "attribute" THEN v ELSE Panic(w, "AsAttribute")
         ELSE IF w.par.prop.kind = "directive" THEN w ELSE Panic(w, "AsDirective")
  BY CoreIs DEF ArgOrModifier, WithSlice
<1>. HIDE DEF v
<1>3. Core(v) /\ Even(w, v) /\ Property(v)
  BY <1>1, CoreSame DEF Same, Property, Even, IsVPre
<1>4. CASE w.par.inVPre /\ ~IsVPre(w.par.prop)
  BY <1>1, <1>2, <1>3, <1>4 DEF Property
<1>5. CASE ~(w.par.inVPre /\ ~IsVPre(w.par.prop)) /\ w.par.prop.kind = "directive"
  BY <1>2, <1>5, EvenWorld
<1>6. CASE ~(w.par.inVPre /\ ~IsVPre(w.par.prop)) /\ w.par.prop.kind # "directive"
  BY <1>2, <1>6 DEF Property, IsVPre
<1>. QED
  BY <1>4, <1>5, <1>6

(* ondirarg: no single bracket is an argument. *)
LEMMA CoreDirarg ==
    ASSUME NEW w, Core(w), Property(w), IsText(source), NEW a \in Nat, NEW b \in Nat, a <= b, b <= Size,
           b = a + 1 => At(a) # "["
    PROVE  LET v == Ondirarg(w, a, b)
           IN  \/ v = Panic(w, "AsDirective") /\ w.par.prop.name = <<"v", "-">>
               \/ Core(v) /\ Even(w, v) /\ Property(v) /\ v.par.prop.pos = w.par.prop.pos
<1>1. Slice(a, b) # <<"[">>
  <2>1. SUFFICES ASSUME Slice(a, b) = <<"[">> PROVE FALSE
    OBVIOUS
  <2>2. Len(Slice(a, b)) = b - a /\ \A k \in 1..(b - a) : Slice(a, b)[k] = At(a + k - 1)
    BY SliceIs
  <2>3. b = a + 1
    BY <2>1, <2>2
  <2>4. Slice(a, b)[1] = At(a)
    BY <2>2, <2>3
  <2>. QED
    BY <2>1, <2>3, <2>4
<1>. QED
  BY <1>1, CoreArg, EvenWorld DEF Ondirarg

-----------------------------------------------------------------------------
(* Elements. *)

(* A sequence, and one more at its end.                                    *)
Longer(s, x, t) == t = Append(s, x)

LEMMA SeqGrows ==
    ASSUME NEW s, AnySeq(s), NEW x, NEW t, Longer(s, x, t)
    PROVE  /\ AnySeq(t) /\ Len(s) \in Nat /\ Len(t) = Len(s) + 1 /\ DOMAIN s = 1..Len(s) /\ DOMAIN t = 1..Len(t)
           /\ \A j \in DOMAIN s : t[j] = s[j] /\ j \in DOMAIN t /\ j # Len(t)
           /\ \A j \in DOMAIN t : j \in DOMAIN s \/ j = Len(t)
           /\ t[Len(t)] = x /\ Len(t) # 0
<1>1. AnySeq(t) /\ Len(t) = Len(s) + 1 /\ (\A j \in 1..Len(s) : t[j] = s[j]) /\ t[Len(s) + 1] = x
  BY SeqEnds DEF Longer
<1>2. Len(s) \in Nat /\ DOMAIN s = 1..Len(s) /\ DOMAIN t = 1..Len(t)
  BY <1>1, SeqIs
<1>. QED
  BY <1>1, <1>2

(* onopentagname: the element whose start tag is read is detached.         *)
LEMMA CoreOpentagname ==
    ASSUME NEW w, Core(w), w.par.openTag = None, NEW a \in Nat, NEW b \in Nat, a <= b, b <= Size,
           w.par.stack = <<>> /\ Slice(a, b) = Script =>
               w.tok.inRCDATA /\ w.tok.currentSequence = BlockEnd(Script) /\ w.tok.sequenceIndex = 0
    PROVE  LET v == Onopentagname(w, a, b)
           IN  /\ Core(v) /\ v.tok = w.tok /\ v.par.stack = w.par.stack /\ v.par.inVPre = w.par.inVPre
               /\ v.par.openTag # None
<1>. DEFINE born == [Node("element", a - 1, b, Detached) EXCEPT !.tag = Slice(a, b)]
            n == w.par.nodes
            v == [w EXCEPT !.par.nodes = Append(@, born), !.par.openTag = Len(w.par.nodes) + 1]
            m == v.par.nodes
<1>1. Onopentagname(w, a, b) = v
  BY CoreIs DEF Onopentagname, WithSlice
<1>2. DOMAIN born = NodeFields /\ born.parent = -1 /\ born.tag = Slice(a, b) /\ born.kind = "element"
  BY DEF Node, NodeFields, Detached
<1>3. World(w) /\ Calm(w)
  BY DEF Core
<1>. HIDE DEF born
<1>4. /\ m = Append(n, born) /\ v.tok = w.tok /\ v.par.panic = w.par.panic /\ v.par.openTag = Len(n) + 1
      /\ v.par.stack = w.par.stack /\ v.par.inVPre = w.par.inVPre
      /\ DOMAIN v = DOMAIN w /\ DOMAIN v.par = DOMAIN w.par
  BY <1>3 DEF World, TokFields, ParFields
<1>5. /\ AnySeq(m) /\ Len(n) \in Nat /\ Len(m) = Len(n) + 1 /\ DOMAIN n = 1..Len(n) /\ DOMAIN m = 1..Len(m)
      /\ \A j \in DOMAIN n : m[j] = n[j] /\ j \in DOMAIN m /\ j # Len(m)
      /\ \A j \in DOMAIN m : j \in DOMAIN n \/ j = Len(m)
      /\ m[Len(m)] = born /\ Len(m) # 0
  <2>1. AnySeq(n) /\ Longer(n, born, m)
    BY <1>3, <1>4, NodesAre DEF Longer
  <2>. HIDE DEF n, m
  <2>. QED
    BY <2>1, SeqGrows
<1>. HIDE DEF v
<1>6. World(v) /\ Calm(v)
  BY <1>3, <1>4, <1>5 DEF World, Calm
<1>7. ASSUME NEW j \in DOMAIN m PROVE DOMAIN m[j] = NodeFields /\ m[j].parent \in -1..Len(m)
  <2>1. CASE j \in DOMAIN n
    <3>1. DOMAIN n[j] = NodeFields /\ n[j].parent \in -1..Len(n)
      BY <2>1 DEF Core, Tree
    <3>. HIDE DEF n
    <3>. QED
      BY <1>5, <2>1, <3>1
  <2>2. CASE j = Len(m)
    BY <1>2, <1>5, <2>2
  <2>. QED
    BY <1>5, <2>1, <2>2
<1>8. ChildrenOf(v, Len(m)) = {}
  <2>1. SUFFICES ASSUME NEW j \in DOMAIN m, m[j].parent = Len(m) PROVE FALSE
    BY DEF ChildrenOf
  <2>2. CASE j \in DOMAIN n
    <3>1. n[j].parent \in -1..Len(n)
      BY <2>2 DEF Core, Tree
    <3>. HIDE DEF n
    <3>. QED
      BY <1>5, <2>1, <2>2, <3>1
  <2>3. CASE j = Len(m)
    BY <1>2, <1>5, <2>1, <2>3
  <2>. QED
    BY <1>5, <2>2, <2>3
<1>9. \A k \in DOMAIN v.par.stack : v.par.stack[k] \in DOMAIN n
  BY <1>4 DEF Core, Tree
<1>10. w.par.stack # <<>> => Bottom(v) = Bottom(w)
  BY <1>3, <1>4, <1>5, <1>9, NodesAre DEF Bottom
<1>11. Tree(v)
  BY <1>2, <1>4, <1>5, <1>7, <1>8, <1>9, <1>10 DEF Core, Tree
<1>12. CutScript(v)
  BY <1>4, <1>10 DEF Core, CutScript
<1>13. ScriptOpens(v)
  BY <1>2, <1>4, <1>5 DEF ScriptOpens
<1>. QED
  BY <1>1, <1>4, <1>5, <1>6, <1>11, <1>12, <1>13 DEF Core, None

(* Nodes that only end elsewhere. *)
LEMMA NodeEnds ==
    ASSUME NEW w, World(w), \A j \in DOMAIN w.par.nodes : DOMAIN w.par.nodes[j] = NodeFields, NEW id,
           NEW f \in {"end", "closed", "inner"}, NEW x, NEW v, DOMAIN v = DOMAIN w,
           v.tok = w.tok, DOMAIN v.par = DOMAIN w.par, \A g \in ParFields \ {"nodes"} : v.par[g] = w.par[g],
           v.par.nodes = [w.par.nodes EXCEPT ![id] = [@ EXCEPT ![f] = x]]
    PROVE  Near(w, v) /\ \A j \in DOMAIN v.par.nodes : DOMAIN v.par.nodes[j] = NodeFields
<1>1. /\ DOMAIN v.par.nodes = DOMAIN w.par.nodes /\ v.par.nodes = [k \in DOMAIN v.par.nodes |-> v.par.nodes[k]]
      /\ \A j \in DOMAIN w.par.nodes :
            v.par.nodes[j] = IF j = id THEN [w.par.nodes[j] EXCEPT ![f] = x] ELSE w.par.nodes[j]
  OBVIOUS
<1>2. AnySeq(v.par.nodes)
  BY <1>1, SeqPut DEF World
<1>3. /\ v.par.panic = w.par.panic /\ v.par.openTag = w.par.openTag /\ v.par.stack = w.par.stack
  BY DEF ParFields
<1>4. Looks(w.par.nodes, v.par.nodes) /\ \A j \in DOMAIN v.par.nodes : DOMAIN v.par.nodes[j] = NodeFields
  BY <1>1 DEF Looks, NodeFields
<1>5. World(v)
  BY <1>2, <1>3 DEF World
<1>. QED
  BY <1>3, <1>4, <1>5 DEF Near, Steady

LEMMA NearThen ==
    ASSUME NEW u, NEW w, NEW v, Near(u, w), Near(w, v) PROVE Near(u, v)
BY DEF Near, Steady, Looks

ScriptPanic == "script has more than 1 child"

(* onCloseTag: only a script block with other than one child panics.       *)
LEMMA ClosesTag ==
    ASSUME NEW w, World(w), Calm(w), \A j \in DOMAIN w.par.nodes : DOMAIN w.par.nodes[j] = NodeFields,
           NEW id, NEW end \in 0..Size, NEW implied
    PROVE  LET v == OnCloseTag(w, id, end, implied)
           IN  \/ Near(w, v)
               \/ /\ v = Panic(w, ScriptPanic) /\ w.par.stack = <<>> /\ w.par.nodes[id].tag = Script
                  /\ ChildrenOf(w, id) # {} /\ Cardinality(ChildrenOf(w, id)) # 1
<1>. DEFINE to == IF implied THEN BackTrack(end, "<") ELSE LookAhead(end, ">") + 1
            how == IF implied THEN "implied" ELSE "yes"
            u == [w EXCEPT !.par.nodes[id].end = to]
            ended == [w EXCEPT !.par.nodes[id].end = to, !.par.nodes[id].closed = how]
            last == w.par.nodes[Max(ChildrenOf(w, id))]
            v == EndRange(w, id, end, implied)
<1>. HIDE DEF to, how
<1>1. Near(w, u) /\ \A j \in DOMAIN u.par.nodes : DOMAIN u.par.nodes[j] = NodeFields
  <2>1. /\ DOMAIN u = DOMAIN w /\ u.tok = w.tok /\ DOMAIN u.par = DOMAIN w.par
        /\ \A g \in ParFields \ {"nodes"} : u.par[g] = w.par[g]
        /\ u.par.nodes = [w.par.nodes EXCEPT ![id] = [@ EXCEPT !["end"] = to]]
    BY DEF World, TokFields, ParFields
  <2>. HIDE DEF u
  <2>. QED
    BY <2>1, NodeEnds
<1>2. ended = [u EXCEPT !.par.nodes[id].closed = how]
  OBVIOUS
<1>. HIDE DEF u, ended
<1>3. Near(u, ended) /\ \A j \in DOMAIN ended.par.nodes : DOMAIN ended.par.nodes[j] = NodeFields
  <2>0. World(u)
    BY <1>1 DEF Near
  <2>1. /\ DOMAIN ended = DOMAIN u /\ ended.tok = u.tok /\ DOMAIN ended.par = DOMAIN u.par
        /\ \A g \in ParFields \ {"nodes"} : ended.par[g] = u.par[g]
        /\ ended.par.nodes = [u.par.nodes EXCEPT ![id] = [@ EXCEPT !["closed"] = how]]
    BY <1>2, <2>0 DEF World, TokFields, ParFields
  <2>. QED
    BY <1>1, <2>0, <2>1, NodeEnds
<1>4. v = IF w.par.vPreBoundary # id THEN ended
          ELSE [ended EXCEPT !.tok.inVPre = FALSE, !.par.inVPre = FALSE, !.par.vPreBoundary = None]
  BY DEF EndRange, ended, to, how
<1>. HIDE DEF v
<1>5. Near(w, ended)
  BY <1>1, <1>3, NearThen
<1>6. /\ Near(ended, v) /\ v.par.nodes = ended.par.nodes
  <2>1. World(ended)
    BY <1>5 DEF Near
  <2>. QED
    BY <1>4, <2>1 DEF Near, Steady, Looks, World, TokFields, ParFields
<1>7. Near(w, v) /\ \A j \in DOMAIN v.par.nodes : DOMAIN v.par.nodes[j] = NodeFields
  BY <1>3, <1>5, <1>6, NearThen
<1>8. Near(w, [v EXCEPT !.par.nodes[id].inner = last.end])
  <2>. DEFINE t == [v EXCEPT !.par.nodes[id].inner = last.end]
  <2>. HIDE DEF last
  <2>0. World(v)
    BY <1>7 DEF Near
  <2>1. /\ DOMAIN t = DOMAIN v /\ t.tok = v.tok /\ DOMAIN t.par = DOMAIN v.par
        /\ \A g \in ParFields \ {"nodes"} : t.par[g] = v.par[g]
        /\ t.par.nodes = [v.par.nodes EXCEPT ![id] = [@ EXCEPT !["inner"] = last.end]]
    BY <2>0 DEF World, TokFields, ParFields
  <2>. HIDE DEF t
  <2>2. Near(v, t)
    BY <1>7, <2>0, <2>1, NodeEnds
  <2>3. Near(w, t)
    BY <1>7, <2>2, NearThen
  <2>. QED
    BY <2>3 DEF t
<1>9. w.par.panic = "no" /\ ~(end > Size \/ end < 0)
  BY DEF Calm, World
<1>10. OnCloseTag(w, id, end, implied) =
          IF w.par.stack # <<>> \/ ChildrenOf(w, id) = {} THEN v
          ELSE IF w.par.nodes[id].tag = Script /\ Cardinality(ChildrenOf(w, id)) # 1 THEN Panic(w, ScriptPanic)
               ELSE [v EXCEPT !.par.nodes[id].inner = last.end]
  BY <1>9 DEF OnCloseTag, InSFCRoot, ScriptPanic, v
<1>. HIDE DEF last
<1>. QED
  BY <1>7, <1>8, <1>10

(* The tokenizer is where it was, whatever it thinks of v-pre.             *)
Rests(w, v) ==
    /\ v.tok.state = w.tok.state /\ v.tok.sectionStart = w.tok.sectionStart /\ v.tok.index = w.tok.index
    /\ v.tok.inRCDATA = w.tok.inRCDATA /\ v.tok.currentSequence = w.tok.currentSequence
    /\ v.tok.sequenceIndex = w.tok.sequenceIndex

(* No start tag is being read. *)
Shut(w) == World(w) /\ Calm(w) /\ Tree(w) /\ w.par.openTag = None

(* From w to v some open elements were closed, the block perhaps last.     *)
Closed(w, v) ==
    /\ Shut(v) /\ Rests(w, v)
    /\ v.par.stack # <<>> =>
          /\ w.par.stack # <<>> /\ Bottom(v).parent = Bottom(w).parent /\ Bottom(v).tag = Bottom(w).tag
          /\ Bottom(v).open = Bottom(w).open /\ Bottom(v).kind = Bottom(w).kind

(* A script block was cut short. *)
CutBefore(w) ==
    \E i \in DOMAIN w.par.nodes :
        w.par.nodes[i].tag = Script /\ w.par.nodes[i].parent = 0 /\ CutShort(w.par.nodes[i])

ScriptFails(v) == World(v) /\ v.par.panic = ScriptPanic /\ CutBefore(v)

LEMMA ClosedCore == ASSUME NEW w, CutScript(w), NEW v, Closed(w, v) PROVE Core(v)
<1>1. CutScript(v)
  BY DEF Closed, CutScript, CutShort
<1>. QED
  BY <1>1 DEF Closed, Shut, Core, ScriptOpens

LEMMA CoreShut == ASSUME NEW w, Core(w), w.par.openTag = None PROVE Shut(w) /\ Closed(w, w)
BY DEF Core, Shut, Closed, Rests

LEMMA ClosedThen == ASSUME NEW u, NEW w, NEW v, Closed(u, w), Closed(w, v) PROVE Closed(u, v)
BY DEF Closed, Rests

(* What looks the same is the same tree. *)
LEMMA ShutNear ==
    ASSUME NEW w, Shut(w), NEW v, Near(w, v) PROVE Closed(w, v) /\ v.par.stack = w.par.stack
<1>1. World(w) /\ World(v) /\ Steady(w, v) /\ Calm(v)
  BY DEF Shut, Near, Steady, Calm
<1>2. Len(v.par.nodes) = Len(w.par.nodes) /\ DOMAIN v.par.nodes = DOMAIN w.par.nodes
  BY <1>1, SameLen, NodesAre DEF Near, Looks
<1>4. ASSUME w.par.stack # <<>>
      PROVE  /\ Bottom(v).parent = Bottom(w).parent /\ Bottom(v).tag = Bottom(w).tag
             /\ Bottom(v).open = Bottom(w).open /\ Bottom(v).kind = Bottom(w).kind
  <2>1. w.par.stack[Len(w.par.stack)] \in DOMAIN w.par.nodes
    BY <1>1, <1>4, NodesAre DEF Shut, Tree
  <2>. QED
    BY <1>1, <2>1 DEF Bottom, Near, Looks, Steady
<1>5. Tree(v)
  <2>1. \A j \in DOMAIN v.par.nodes : DOMAIN v.par.nodes[j] = NodeFields /\ v.par.nodes[j].parent \in -1..Len(v.par.nodes)
    BY <1>2 DEF Shut, Tree, Near, Looks
  <2>. QED
    BY <1>1, <1>2, <1>4, <2>1 DEF Shut, Tree, Steady, None
<1>. QED
  BY <1>1, <1>4, <1>5 DEF Closed, Shut, Rests, Steady

(* One open element is closed; only a script block may fail to. *)
LEMMA ShutsTop ==
    ASSUME NEW w, Shut(w), w.par.stack # <<>>, NEW end \in 0..Size, NEW implied
    PROVE  LET v == CloseTop(w, end, implied)
           IN  \/ Closed(w, v) /\ v.par.stack = Tail(w.par.stack)
               \/ /\ v = Panic([w EXCEPT !.par.stack = Tail(@)], ScriptPanic)
                  /\ Tail(w.par.stack) = <<>> /\ w.par.nodes[Top(w)].tag = Script
                  /\ ChildrenOf(w, Top(w)) # {} /\ Cardinality(ChildrenOf(w, Top(w))) # 1
<1>. DEFINE u == [w EXCEPT !.par.stack = Tail(@)]
            v == OnCloseTag(u, Top(w), end, implied)
<1>1. World(w) /\ Calm(w)
  BY DEF Shut
<1>2. /\ u.tok = w.tok /\ u.par.stack = Tail(w.par.stack) /\ u.par.openTag = w.par.openTag
      /\ u.par.panic = w.par.panic /\ u.par.nodes = w.par.nodes
      /\ DOMAIN u = DOMAIN w /\ DOMAIN u.par = DOMAIN w.par
  BY <1>1 DEF World, ParFields
<1>6. CloseTop(w, end, implied) = v
  BY DEF CloseTop, u
<1>7. Panic([w EXCEPT !.par.stack = Tail(@)], ScriptPanic) = Panic(u, ScriptPanic)
  OBVIOUS
<1>. HIDE DEF u
<1>3. /\ AnySeq(u.par.stack) /\ Len(u.par.stack) = Len(w.par.stack) - 1
      /\ \A k \in 1..Len(u.par.stack) : u.par.stack[k] = w.par.stack[k + 1]
  BY <1>1, <1>2, SeqPop DEF World
<1>4. World(u) /\ Calm(u)
  BY <1>1, <1>2, <1>3 DEF World, Calm
<1>5. Len(u.par.stack) \in Nat /\ DOMAIN u.par.stack = 1..Len(u.par.stack) /\ Len(w.par.stack) \in Nat
      /\ DOMAIN w.par.stack = 1..Len(w.par.stack) /\ (u.par.stack # <<>> => Len(u.par.stack) # 0)
  BY <1>1, <1>4, NodesAre
<1>8. u.par.stack # <<>> => Bottom(u) = Bottom(w)
  <2>1. u.par.stack # <<>> => u.par.stack[Len(u.par.stack)] = w.par.stack[Len(w.par.stack)]
    BY <1>3, <1>5
  <2>. QED
    BY <1>2, <2>1 DEF Bottom
<1>9. \A k \in DOMAIN u.par.stack : u.par.stack[k] \in DOMAIN u.par.nodes
  <2>1. \A k \in DOMAIN u.par.stack : k + 1 \in DOMAIN w.par.stack /\ u.par.stack[k] = w.par.stack[k + 1]
    BY <1>3, <1>5
  <2>. QED
    BY <1>2, <2>1 DEF Shut, Tree
<1>10. Tree(u)
  BY <1>2, <1>8, <1>9 DEF Shut, Tree
<1>11. Shut(u) /\ Closed(w, u)
  BY <1>2, <1>4, <1>8, <1>10 DEF Shut, Closed, Rests
<1>12. \A j \in DOMAIN u.par.nodes : DOMAIN u.par.nodes[j] = NodeFields
  BY <1>10 DEF Tree
<1>13. ChildrenOf(u, Top(w)) = ChildrenOf(w, Top(w))
  BY <1>2 DEF ChildrenOf
<1>14. \/ Near(u, v)
       \/ /\ v = Panic(u, ScriptPanic) /\ u.par.stack = <<>> /\ u.par.nodes[Top(w)].tag = Script
          /\ ChildrenOf(u, Top(w)) # {} /\ Cardinality(ChildrenOf(u, Top(w))) # 1
  BY <1>4, <1>12, ClosesTag
<1>. HIDE DEF v
<1>15. Near(u, v) => Closed(w, v) /\ v.par.stack = u.par.stack
  BY <1>11, ShutNear, ClosedThen
<1>. QED
  BY <1>2, <1>6, <1>7, <1>13, <1>14, <1>15

(* The one block, named script, with more than text in it. *)
LEMMA FailsBefore ==
    ASSUME NEW w, Shut(w), CutScript(w), w.par.stack # <<>>, Tail(w.par.stack) = <<>>,
           w.par.nodes[Top(w)].tag = Script
    PROVE  ScriptFails(Panic([w EXCEPT !.par.stack = Tail(@)], ScriptPanic))
<1>. DEFINE v == Panic([w EXCEPT !.par.stack = Tail(@)], ScriptPanic)
<1>1. World(w) /\ Calm(w)
  BY DEF Shut
<1>2. /\ v.par.panic = ScriptPanic /\ v.par.nodes = w.par.nodes /\ v.tok = w.tok
      /\ v.par.stack = Tail(w.par.stack) /\ DOMAIN v = DOMAIN w /\ DOMAIN v.par = DOMAIN w.par
  BY <1>1 DEF Panic, World, Calm, ParFields
<1>. HIDE DEF v
<1>3. Len(w.par.stack) = 1 /\ DOMAIN w.par.stack = 1..Len(w.par.stack)
  <2>1. Len(Tail(w.par.stack)) = Len(w.par.stack) - 1 /\ Len(w.par.stack) \in Nat
    BY <1>1, NodesAre, SeqPop
  <2>2. Len(Tail(w.par.stack)) = 0
    <3>1. Len(<<>>) = 0
      OBVIOUS
    <3>. QED
      BY <3>1
  <2>. QED
    BY <1>1, <2>1, <2>2, NodesAre
<1>4. Top(w) = w.par.stack[1]
  BY <1>1, <1>3, SeqPop, NodesAre DEF Top
<1>5. Top(w) \in DOMAIN w.par.nodes /\ Bottom(w) = w.par.nodes[Top(w)]
  BY <1>3, <1>4 DEF Shut, Tree, Bottom
<1>6. w.par.nodes[Top(w)].parent = 0 /\ CutShort(w.par.nodes[Top(w)])
  BY <1>5 DEF Shut, Tree, CutScript
<1>7. CutBefore(v)
  BY <1>2, <1>5, <1>6 DEF CutBefore
<1>8. World(v)
  BY <1>1, <1>2, SeqPop DEF World
<1>. QED
  BY <1>2, <1>7, <1>8 DEF ScriptFails, v

(* onclosetag: some open elements are closed; a block that was not cut     *)
(* short does not fail to.                                                 *)
LEMMA ShutsTops ==
    ASSUME NEW w, Shut(w), CutScript(w), NEW n \in 1..Len(w.par.stack), NEW end \in 0..Size
    PROVE  Closed(w, CloseTops(w, n, end)) \/ ScriptFails(CloseTops(w, n, end))
<1>. DEFINE noted == IF n > 1 THEN EmitError(w, "Missing end tag", w.par.nodes[Top(w)].pos) ELSE w
<1>1. AnySeq(w.par.stack) /\ World(w) /\ Len(w.par.stack) \in Nat
  BY NodesAre DEF Shut
<1>2. n \in Nat /\ n <= Len(w.par.stack)
  BY <1>1
<1>4. PICK closed : Closings(closed, w, n, end)
  BY <1>2, CloseTopsIs
<1>5. closed[0] = noted /\ \A j \in 1..n : closed[j] = CloseTop(closed[j - 1], end, j < n)
  BY <1>4 DEF Closings
<1>6. CloseTops(w, n, end) = closed[n]
  BY <1>4 DEF Closings
<1>7. Closed(w, noted) /\ noted.par.stack = w.par.stack
  <2>1. Near(w, noted)
    BY <1>1 DEF Near, Looks, Steady, EmitError, World, ParFields
  <2>. HIDE DEF noted
  <2>. QED
    BY <2>1, ShutNear
<1>. HIDE DEF noted
<1>. DEFINE Stays(v, j) ==
         \/ Closed(w, v) /\ AnySeq(v.par.stack) /\ Len(v.par.stack) = Len(w.par.stack) - j
         \/ j = Len(w.par.stack) /\ ScriptFails(v)
            T == {j \in 0..n : Stays(closed[j], j)}
<1>8. ASSUME NEW m \in 0..n, \A j \in 0..(m - 1) : j \in T
      PROVE  m \in T
  <2>1. CASE m = 0
    <3>1. closed[0] = noted
      BY <1>2, <1>5
    <3>2. Stays(noted, 0)
      BY <1>1, <1>7
    <3>. HIDE DEF Stays
    <3>. QED
      BY <2>1, <3>1, <3>2
  <2>2. CASE m # 0
    <3>. DEFINE u == closed[m - 1]
    <3>1. closed[m] = CloseTop(u, end, m < n)
      BY <1>5, <2>2
    <3>2. Stays(u, m - 1)
      <4>1. m - 1 \in 0..(m - 1)
        BY <1>2, <2>2
      <4>2. m - 1 \in T
        <5>. HIDE DEF T
        <5>. QED
          BY <1>8, <4>1
      <4>. HIDE DEF Stays
      <4>. QED
        BY <4>2
    <3>. HIDE DEF u
    <3>3. /\ Closed(w, u) /\ AnySeq(u.par.stack) /\ Len(u.par.stack) = Len(w.par.stack) - (m - 1)
          /\ Len(u.par.stack) # 0 /\ u.par.stack # <<>>
      <4>1. m - 1 # Len(w.par.stack)
        BY <1>1, <1>2
      <4>2. Closed(w, u) /\ AnySeq(u.par.stack) /\ Len(u.par.stack) = Len(w.par.stack) - (m - 1)
        BY <3>2, <4>1
      <4>. QED
        BY <1>1, <1>2, <4>2, SeqIs
    <3>4. Shut(u) /\ CutScript(u)
      BY <3>3, ClosedCore DEF Closed, Core
    <3>. DEFINE v == CloseTop(u, end, m < n)
    <3>5. \/ Closed(u, v) /\ v.par.stack = Tail(u.par.stack)
          \/ /\ v = Panic([u EXCEPT !.par.stack = Tail(@)], ScriptPanic)
             /\ Tail(u.par.stack) = <<>> /\ u.par.nodes[Top(u)].tag = Script
      BY <3>3, <3>4, ShutsTop
    <3>. HIDE DEF v
    <3>6. Len(Tail(u.par.stack)) = Len(w.par.stack) - m /\ AnySeq(Tail(u.par.stack))
      <4>1. Len(Tail(u.par.stack)) = Len(u.par.stack) - 1 /\ AnySeq(Tail(u.par.stack))
        BY <3>3, SeqPop
      <4>2. Len(w.par.stack) - (m - 1) - 1 = Len(w.par.stack) - m
        BY <1>1, <1>2
      <4>. QED
        BY <3>3, <4>1, <4>2
    <3>7. CASE Closed(u, v) /\ v.par.stack = Tail(u.par.stack)
      <4>1. Closed(w, v)
        BY <3>3, <3>7, ClosedThen
      <4>. QED
        BY <3>1, <3>6, <3>7, <4>1 DEF v
    <3>8. CASE /\ v = Panic([u EXCEPT !.par.stack = Tail(@)], ScriptPanic)
               /\ Tail(u.par.stack) = <<>> /\ u.par.nodes[Top(u)].tag = Script
      <4>1. ScriptFails(v)
        BY <3>3, <3>4, <3>8, FailsBefore
      <4>2. Len(Tail(u.par.stack)) = 0
        BY <3>6, <3>8, SeqIs
      <4>3. m = Len(w.par.stack)
        <5>1. \A k : k = Len(w.par.stack) - m /\ k = 0 => m = Len(w.par.stack)
          BY <1>1, <1>2
        <5>. QED
          BY <3>6, <4>2, <5>1
      <4>. QED
        BY <3>1, <4>1, <4>3 DEF v
    <3>. HIDE DEF Stays
    <3>. QED
      BY <3>5, <3>7, <3>8
  <2>. QED
    BY <2>1, <2>2
<1>9. n \in T
  <2>1. \A m \in 0..n : (\A j \in 0..(m - 1) : j \in T) => m \in T
    BY <1>8
  <2>2. n \in 0..n
    BY <1>2
  <2>. HIDE DEF T
  <2>. QED
    BY <1>2, <2>1, <2>2, Induction
<1>. QED
  BY <1>6, <1>9

LEMMA OpenIs ==
    ASSUME NEW w, World(w), NEW name
    PROVE  LET open == {i \in DOMAIN w.par.stack : ToLower(w.par.nodes[w.par.stack[i]].tag) = ToLower(name)}
           IN  open # {} => Min(open) \in 1..Len(w.par.stack)
<1>. DEFINE open == {i \in DOMAIN w.par.stack : ToLower(w.par.nodes[w.par.stack[i]].tag) = ToLower(name)}
<1>1. DOMAIN w.par.stack = 1..Len(w.par.stack) /\ Len(w.par.stack) \in Nat
  BY NodesAre
<1>2. open \in SUBSET Nat /\ open \subseteq 1..Len(w.par.stack)
  BY <1>1
<1>. HIDE DEF open
<1>3. open # {} => Min(open) \in 1..Len(w.par.stack)
  BY <1>2, MinIs
<1>. QED
  BY <1>3 DEF open

LEMMA ShutsNamed ==
    ASSUME NEW w, Core(w), w.par.openTag = None, NEW name, NEW start, NEW end \in 0..Size
    PROVE  LET v == CloseNamed(w, name, start, end) IN Closed(w, v) \/ ScriptFails(v)
<1>. DEFINE open == {i \in DOMAIN w.par.stack : ToLower(w.par.nodes[w.par.stack[i]].tag) = ToLower(name)}
<1>1. Shut(w) /\ CutScript(w) /\ World(w) /\ Closed(w, w)
  BY CoreShut DEF Core
<1>2. open # {} => Min(open) \in 1..Len(w.par.stack)
  BY <1>1, OpenIs
<1>3. CloseNamed(w, name, start, end) =
          IF name \in VoidTags THEN w
          ELSE IF open = {} THEN EmitError(w, "Invalid end tag", BackTrack(start, "<"))
          ELSE CloseTops(w, Min(open), end)
  BY DEF CloseNamed
<1>. HIDE DEF open
<1>4. Closed(w, EmitError(w, "Invalid end tag", BackTrack(start, "<")))
  <2>. DEFINE v == EmitError(w, "Invalid end tag", BackTrack(start, "<"))
  <2>1. Near(w, v)
    BY <1>1 DEF Near, Looks, Steady, EmitError, World, ParFields
  <2>. HIDE DEF v
  <2>2. Closed(w, v)
    BY <1>1, <2>1, ShutNear
  <2>. QED
    BY <2>2 DEF v
<1>. QED
  BY <1>1, <1>2, <1>3, <1>4, ShutsTops

LEMMA ShutsClosetag ==
    ASSUME NEW w, Core(w), w.par.openTag = None, NEW a \in Nat, NEW b \in Nat, a <= b, b <= Size
    PROVE  LET v == Onclosetag(w, a, b) IN Closed(w, v) \/ ScriptFails(v)
<1>1. Onclosetag(w, a, b) = CloseNamed(w, Slice(a, b), a, b)
  BY CoreIs DEF Onclosetag, WithSlice
<1>2. b \in 0..Size
  BY CoreIs
<1>. QED
  BY <1>1, <1>2, ShutsNamed

-----------------------------------------------------------------------------
(* The end tag of a script block. *)

ScriptIs == Len(Script) = 3 /\ DOMAIN Script = 1..3 /\ Script[1] = "s" /\ Script[2] = "c" /\ Script[3] = "r"

LEMMA LowerIs ==
    /\ Lower("s") = "s" /\ Lower("c") = "c" /\ Lower("r") = "r" /\ Lower("<") = "<" /\ Lower("/") = "/"
    /\ ScriptIs /\ ToLower(Script) = Script
<1>1. Lower("s") = "s" /\ Lower("c") = "c" /\ Lower("r") = "r" /\ Lower("<") = "<" /\ Lower("/") = "/"
  BY DEF Lower
<1>2. ScriptIs
  BY DEF ScriptIs, Script
<1>3. \A i \in 1..3 : Lower(Script[i]) = Script[i]
  <2>1. \A i \in 1..3 : i = 1 \/ i = 2 \/ i = 3
    OBVIOUS
  <2>. QED
    BY <1>1, <1>2, <2>1 DEF ScriptIs
<1>4. Script = [i \in 1..3 |-> Script[i]]
  BY DEF Script
<1>5. ToLower(Script) = [i \in 1..3 |-> Script[i]]
  BY <1>2, <1>3 DEF ToLower, ScriptIs
<1>. QED
  BY <1>1, <1>2, <1>4, <1>5

LEMMA NamesScript ==
    ASSUME IsText(source), NEW a \in Nat, NEW b \in Nat, b = a + 3, b <= Size,
           \A k \in 1..3 : Lower(At(a + k - 1)) = Script[k]
    PROVE  ToLower(Slice(a, b)) = Script /\ Slice(a, b) \notin VoidTags
<1>1. Len(Slice(a, b)) = 3 /\ (\A k \in 1..3 : Slice(a, b)[k] = At(a + k - 1)) /\ AnySeq(Slice(a, b))
  <2>1. \A e \in Nat : a <= e /\ e <= Size =>
           /\ Slice(a, e) \in Seq(STRING) /\ Len(Slice(a, e)) = e - a
           /\ \A k \in 1..(e - a) : Slice(a, e)[k] = At(a + k - 1)
    BY SliceIs
  <2>2. a <= b /\ b - a = 3
    OBVIOUS
  <2>3. Slice(a, b) \in Seq(STRING) /\ Len(Slice(a, b)) = b - a /\ \A k \in 1..(b - a) : Slice(a, b)[k] = At(a + k - 1)
    BY <2>1, <2>2, Zenon
  <2>. QED
    BY <2>2, <2>3 DEF AnySeq
<1>2. DOMAIN Slice(a, b) = 1..3
  BY <1>1, SeqIs
<1>. DEFINE name == Slice(a, b)
<1>. HIDE DEF name
<1>3. ToLower(name) = [i \in 1..3 |-> Lower(name[i])]
  BY <1>2 DEF ToLower, name
<1>4. \A i \in 1..3 : Lower(name[i]) = Script[i]
  BY <1>1 DEF name
<1>5. Script = [i \in 1..3 |-> Script[i]]
  BY DEF Script
<1>6. ToLower(name) = Script
  BY <1>3, <1>4, <1>5
<1>7. name \notin VoidTags
  <2>1. Len(<<"b">>) = 1
    OBVIOUS
  <2>. QED
    BY <1>1, <2>1 DEF VoidTags, name
<1>. QED
  BY <1>6, <1>7 DEF name

(* A script block with a text, or with nothing, is closed. *)
LEMMA ShutsScript ==
    ASSUME IsText(source), NEW w, Shut(w), Len(w.par.stack) = 1, w.par.nodes[w.par.stack[1]].tag = Script,
           ChildrenOf(w, w.par.stack[1]) = {} \/ Cardinality(ChildrenOf(w, w.par.stack[1])) = 1,
           NEW a \in Nat, NEW b \in Nat, b = a + 3, b <= Size,
           \A k \in 1..3 : Lower(At(a + k - 1)) = Script[k]
    PROVE  Closed(w, Onclosetag(w, a, b)) /\ Onclosetag(w, a, b).par.stack = <<>>
<1>. DEFINE name == Slice(a, b)
            open == {i \in DOMAIN w.par.stack : ToLower(w.par.nodes[w.par.stack[i]].tag) = ToLower(name)}
            v == CloseTop(w, b, FALSE)
<1>1. World(w) /\ w.par.panic = "no" /\ Size \in Nat
  BY DEF Shut, Calm, World
<1>2. DOMAIN w.par.stack = 1..1 /\ w.par.stack # <<>> /\ Top(w) = w.par.stack[1] /\ Tail(w.par.stack) = <<>>
  <2>1. DOMAIN w.par.stack = 1..1 /\ w.par.stack # <<>>
    BY <1>1, NodesAre
  <2>2. Head(w.par.stack) = w.par.stack[1] /\ AnySeq(Tail(w.par.stack)) /\ Len(Tail(w.par.stack)) = 0
    BY <1>1, <2>1, SeqPop, NodesAre
  <2>. QED
    BY <2>1, <2>2, SeqIs DEF Top
<1>3. ToLower(name) = Script /\ name \notin VoidTags
  BY NamesScript
<1>4. open = {1}
  BY <1>2, <1>3, LowerIs
<1>5. Onclosetag(w, a, b) = CloseNamed(w, name, a, b)
  BY <1>1 DEF Onclosetag, WithSlice
<1>6. CloseNamed(w, name, a, b) = CloseTops(w, 1, b)
  <2>1. CloseNamed(w, name, a, b) =
          IF name \in VoidTags THEN w
          ELSE IF open = {} THEN EmitError(w, "Invalid end tag", BackTrack(a, "<"))
          ELSE CloseTops(w, Min(open), b)
    BY DEF CloseNamed
  <2>2. Min({1}) = 1
    <3>1. {1} \in SUBSET Nat /\ {1} # {}
      OBVIOUS
    <3>. QED
      BY <3>1, MinIs
  <2>. HIDE DEF open
  <2>. QED
    BY <1>3, <1>4, <2>1, <2>2
<1>7. CloseTops(w, 1, b) = v
  <2>1. PICK closed : Closings(closed, w, 1, b)
    BY CloseTopsIs
  <2>2. closed[0] = w /\ closed[1] = CloseTop(closed[0], b, 1 < 1)
    BY <2>1 DEF Closings
  <2>3. (1 < 1) = FALSE
    OBVIOUS
  <2>. QED
    BY <2>1, <2>2, <2>3 DEF Closings
<1>8. Closed(w, v) /\ v.par.stack = Tail(w.par.stack)
  <2>1. b \in 0..Size
    BY <1>1
  <2>. QED
    BY <1>2, <2>1, ShutsTop
<1>. QED
  BY <1>2, <1>5, <1>6, <1>7, <1>8

-----------------------------------------------------------------------------
(* The end of a start tag. *)

(* The element takes its place in the tree, behind its start tag. *)
Placed(w, v, end) ==
    LET id == w.par.openTag
        n == v.par.nodes[id]
    IN  /\ World(v) /\ Calm(v) /\ v.tok = w.tok /\ v.par.openTag = id /\ v.par.stack = w.par.stack
        /\ DOMAIN v.par.nodes = DOMAIN w.par.nodes
        /\ \A j \in DOMAIN w.par.nodes \ {id} : v.par.nodes[j] = w.par.nodes[j]
        /\ DOMAIN n = NodeFields /\ n.parent = Top(w) /\ n.tag = w.par.nodes[id].tag
        /\ n.kind = "element" /\ n.open = end + 1

LEMMA Places ==
    ASSUME NEW w, Core(w), w.par.openTag # None, NEW end
    PROVE  Placed(w, [w EXCEPT !.par.nodes[w.par.openTag].parent = Top(w),
                               !.par.nodes[w.par.openTag].open = end + 1], end)
<1>. DEFINE id == w.par.openTag
            x == [w.par.nodes[id] EXCEPT !.parent = Top(w), !.open = end + 1]
            v == [w EXCEPT !.par.nodes[id].parent = Top(w), !.par.nodes[id].open = end + 1]
<1>1. World(w) /\ Calm(w) /\ id \in DOMAIN w.par.nodes
  BY NodesAre DEF Core, Tree, None
<1>2. /\ v.tok = w.tok /\ v.par.openTag = id /\ v.par.stack = w.par.stack /\ v.par.panic = w.par.panic
      /\ DOMAIN v = DOMAIN w /\ DOMAIN v.par = DOMAIN w.par
      /\ v.par.nodes = [w.par.nodes EXCEPT ![id] = x]
  BY <1>1 DEF World, TokFields, ParFields
<1>3. /\ DOMAIN x = NodeFields /\ x.parent = Top(w) /\ x.tag = w.par.nodes[id].tag
      /\ x.kind = "element" /\ x.open = end + 1
  <2>1. DOMAIN w.par.nodes[id] = NodeFields /\ w.par.nodes[id].kind = "element"
    BY <1>1 DEF Core, Tree
  <2>. HIDE DEF id
  <2>. QED
    BY <2>1 DEF NodeFields
<1>. HIDE DEF v, x, id
<1>4. /\ DOMAIN v.par.nodes = DOMAIN w.par.nodes /\ v.par.nodes = [k \in DOMAIN v.par.nodes |-> v.par.nodes[k]]
      /\ v.par.nodes[id] = x /\ \A j \in DOMAIN w.par.nodes \ {id} : v.par.nodes[j] = w.par.nodes[j]
  BY <1>1, <1>2
<1>5. AnySeq(v.par.nodes)
  BY <1>1, <1>4, SeqPut DEF World
<1>6. World(v) /\ Calm(v)
  BY <1>1, <1>2, <1>5 DEF World, Calm
<1>. QED
  BY <1>2, <1>3, <1>4, <1>6 DEF Placed, v, id

LEMMA TopIs ==
    ASSUME NEW w, World(w), Tree(w)
    PROVE  /\ Top(w) \in 0..Len(w.par.nodes) /\ Len(w.par.nodes) \in Nat
           /\ (w.par.stack = <<>> => Top(w) = 0) /\ (w.par.stack # <<>> => Top(w) = w.par.stack[1])
           /\ w.par.openTag # None => Top(w) # w.par.openTag
<1>1. w.par.stack # <<>> => 1 \in DOMAIN w.par.stack /\ Head(w.par.stack) = w.par.stack[1]
  <2>1. w.par.stack # <<>> => Head(w.par.stack) = w.par.stack[1]
    BY NodesAre, SeqPop
  <2>2. w.par.stack # <<>> => 1 \in DOMAIN w.par.stack
    BY NodesAre
  <2>. QED
    BY <2>1, <2>2
<1>. QED
  BY <1>1, NodesAre DEF Tree, Top, None

(* The script block that begins has no child, and its end tag is awaited. *)
Fresh(v) ==
    /\ Len(v.par.stack) = 1 /\ ChildrenOf(v, v.par.stack[1]) = {}
    /\ v.tok.inRCDATA /\ v.tok.currentSequence = BlockEnd(Script) /\ v.tok.sequenceIndex = 0

(* onopentagend, of a tag with no content. *)
LEMMA OpensVoid ==
    ASSUME NEW w, Core(w), w.par.openTag # None, NEW end \in 0..(Size - 1),
           w.par.nodes[w.par.openTag].tag \in VoidTags
    PROVE  LET v == Onopentagend(w, end) IN Core(v) /\ Rests(w, v) /\ v.par.openTag = None /\ v.par.stack = w.par.stack
<1>. DEFINE id == w.par.openTag
            added == [w EXCEPT !.par.nodes[id].parent = Top(w), !.par.nodes[id].open = end + 1]
            shut == [added EXCEPT !.par.openTag = None]
            opened == OnCloseTag(added, id, end, FALSE)
            v == [opened EXCEPT !.par.openTag = None]
<1>1. World(w) /\ Calm(w) /\ w.par.panic = "no" /\ id # None /\ id \in DOMAIN w.par.nodes /\ Size \in Nat
  BY NodesAre DEF Core, Tree, None, Calm, World
<1>2. Onopentagend(w, end) = v
  BY <1>1 DEF Onopentagend
<1>3. Placed(w, added, end)
  BY Places
<1>. HIDE DEF added
<1>4. /\ shut.tok = added.tok /\ shut.par.nodes = added.par.nodes /\ shut.par.stack = added.par.stack
      /\ shut.par.openTag = None /\ shut.par.panic = added.par.panic
      /\ DOMAIN shut = DOMAIN added /\ DOMAIN shut.par = DOMAIN added.par
  BY <1>3 DEF Placed, World, TokFields, ParFields
<1>. HIDE DEF shut
<1>5. World(shut) /\ Calm(shut)
  BY <1>3, <1>4 DEF Placed, World, Calm
<1>6. Len(added.par.nodes) = Len(w.par.nodes)
  BY <1>1, <1>3, SameLen, NodesAre DEF Placed
<1>7. \A k \in DOMAIN w.par.stack : w.par.stack[k] \in DOMAIN w.par.nodes \ {id}
  BY <1>1 DEF Core, Tree
<1>8. w.par.stack # <<>> => Bottom(shut) = Bottom(w)
  <2>1. w.par.stack # <<>> => Len(w.par.stack) \in DOMAIN w.par.stack
    BY <1>1, NodesAre
  <2>. QED
    BY <1>3, <1>4, <1>7, <2>1 DEF Bottom, Placed
<1>9. ASSUME NEW j \in DOMAIN added.par.nodes
      PROVE  DOMAIN added.par.nodes[j] = NodeFields /\ added.par.nodes[j].parent \in -1..Len(w.par.nodes)
  <2>1. CASE j = id
    BY <1>1, <1>3, <2>1, TopIs DEF Placed, Core
  <2>2. CASE j # id
    BY <1>3, <2>2 DEF Placed, Core, Tree
  <2>. QED
    BY <2>1, <2>2
<1>10. Tree(shut)
  <2>1. shut.par.stack # <<>> => Bottom(shut).parent = 0 /\ Size > 0
    BY <1>3, <1>4, <1>8 DEF Core, Tree, Placed
  <2>2. \A k \in DOMAIN shut.par.stack : shut.par.stack[k] \in DOMAIN shut.par.nodes
    BY <1>3, <1>4, <1>7 DEF Placed
  <2>3. None \in 0..Len(shut.par.nodes)
    BY <1>1, <1>4, <1>6, NodesAre DEF None
  <2>. QED
    BY <1>4, <1>6, <1>9, <2>1, <2>2, <2>3 DEF Tree
<1>11. CutScript(shut)
  BY <1>3, <1>4, <1>8 DEF Core, CutScript, Placed
<1>12. ChildrenOf(added, id) = {}
  <2>1. SUFFICES ASSUME NEW j \in DOMAIN added.par.nodes, added.par.nodes[j].parent = id PROVE FALSE
    BY DEF ChildrenOf
  <2>2. CASE j = id
    BY <1>1, <1>3, <2>1, <2>2, TopIs DEF Placed, Core
  <2>3. CASE j # id
    <3>1. j \in ChildrenOf(w, id)
      BY <1>3, <2>1, <2>3 DEF Placed, ChildrenOf
    <3>. QED
      BY <1>1, <3>1 DEF Core, Tree
  <2>. QED
    BY <2>2, <2>3
<1>13. Near(added, opened)
  <2>1. World(added) /\ Calm(added) /\ \A j \in DOMAIN added.par.nodes : DOMAIN added.par.nodes[j] = NodeFields
    BY <1>3, <1>9 DEF Placed
  <2>2. end \in 0..Size
    BY <1>1
  <2>. HIDE DEF id
  <2>. QED
    BY <1>12, <2>1, <2>2, ClosesTag
<1>. HIDE DEF opened
<1>14. Near(shut, v)
  <2>1. /\ World(opened)
    BY <1>13 DEF Near
  <2>2. /\ v.tok = opened.tok /\ v.par.nodes = opened.par.nodes /\ v.par.stack = opened.par.stack
        /\ v.par.openTag = None /\ v.par.panic = opened.par.panic
        /\ DOMAIN v = DOMAIN opened /\ DOMAIN v.par = DOMAIN opened.par
    BY <2>1 DEF World, TokFields, ParFields
  <2>. HIDE DEF v
  <2>3. World(v)
    BY <2>1, <2>2 DEF World
  <2>. QED
    BY <1>4, <1>13, <2>2, <2>3 DEF Near, Steady, Looks
<1>. HIDE DEF v
<1>15. Shut(shut)
  BY <1>4, <1>5, <1>10 DEF Shut
<1>16. Closed(shut, v) /\ v.par.stack = shut.par.stack
  BY <1>14, <1>15, ShutNear
<1>17. Core(v)
  BY <1>11, <1>16, ClosedCore
<1>18. Rests(w, v)
  BY <1>3, <1>4, <1>16 DEF Closed, Rests, Placed
<1>. QED
  BY <1>2, <1>3, <1>4, <1>16, <1>17, <1>18 DEF Closed, Shut, Placed

(* A sequence, and one more before it. *)
Pushed(s, x, t) == t = <<x>> \o s

LEMMA SeqPushed ==
    ASSUME NEW s, AnySeq(s), NEW x, NEW t, Pushed(s, x, t)
    PROVE  /\ AnySeq(t) /\ t[1] = x /\ Len(t) = Len(s) + 1 /\ Tail(t) = s
           /\ \A k \in 1..Len(s) : t[k + 1] = s[k]
<1>1. PICK S : s \in Seq(S)
  BY DEF AnySeq
<1>. DEFINE T == S \cup {x}
<1>2. s \in Seq(T) /\ <<x>> \in Seq(T)
  BY <1>1
<1>. HIDE DEF T
<1>3. /\ t \in Seq(T) /\ Len(s) \in Nat /\ Len(t) = Len(s) + 1
      /\ \A i \in 1..(1 + Len(s)) : t[i] = IF i <= 1 THEN x ELSE s[i - 1]
  BY <1>2, ConcatProperties DEF Pushed
<1>4. t[1] = x /\ \A k \in 1..Len(s) : t[k + 1] = s[k]
  BY <1>3
<1>5. /\ Tail(t) \in Seq(T) /\ Len(Tail(t)) = Len(s)
      /\ \A k \in 1..Len(s) : Tail(t)[k] = t[k + 1]
  <2>1. t # <<>>
    BY <1>3
  <2>. QED
    BY <1>3, <2>1, HeadTailProperties
<1>6. Tail(t) = s
  BY <1>2, <1>4, <1>5, SeqEqual
<1>. QED
  BY <1>3, <1>4, <1>6 DEF AnySeq

(* onopentagend, of a tag that opens an element. *)
LEMMA OpensTagged ==
    ASSUME NEW w, Core(w), w.par.openTag # None, NEW end \in 0..(Size - 1),
           w.par.nodes[w.par.openTag].tag \notin VoidTags
    PROVE  LET v == Onopentagend(w, end)
           IN  /\ Shut(v) /\ Rests(w, v) /\ v.par.stack # <<>>
               /\ Top(v) = w.par.openTag /\ AnySeq(w.par.stack) /\ Tail(v.par.stack) = w.par.stack
               /\ ChildrenOf(v, Top(v)) = {}
               /\ v.par.nodes[Top(v)].tag = w.par.nodes[w.par.openTag].tag
               /\ CutScript(v) \/ (w.par.stack = <<>> /\ At(end) # "<" /\ Fresh(v))
<1>. DEFINE id == w.par.openTag
            added == [w EXCEPT !.par.nodes[id].parent = Top(w), !.par.nodes[id].open = end + 1]
            v == [[added EXCEPT !.par.stack = <<id>> \o @] EXCEPT !.par.openTag = None]
<1>1. World(w) /\ Calm(w) /\ w.par.panic = "no" /\ id # None /\ id \in DOMAIN w.par.nodes /\ Size \in Nat
  BY NodesAre DEF Core, Tree, None, Calm, World
<1>2. Onopentagend(w, end) = v
  BY <1>1 DEF Onopentagend
<1>3. Placed(w, added, end)
  BY Places
<1>. HIDE DEF added
<1>4. /\ v.tok = added.tok /\ v.par.nodes = added.par.nodes /\ v.par.stack = <<id>> \o w.par.stack
      /\ v.par.openTag = None /\ v.par.panic = added.par.panic
      /\ DOMAIN v = DOMAIN added /\ DOMAIN v.par = DOMAIN added.par
  BY <1>3 DEF Placed, World, TokFields, ParFields
<1>. HIDE DEF v
<1>5. /\ AnySeq(v.par.stack) /\ v.par.stack[1] = id /\ Len(v.par.stack) = Len(w.par.stack) + 1
      /\ (\A k \in 1..Len(w.par.stack) : v.par.stack[k + 1] = w.par.stack[k])
      /\ Tail(v.par.stack) = w.par.stack /\ AnySeq(w.par.stack)
  <2>1. AnySeq(w.par.stack) /\ Pushed(w.par.stack, id, v.par.stack)
    BY <1>1, <1>4, NodesAre DEF Pushed
  <2>. DEFINE s == w.par.stack
              t == v.par.stack
  <2>. HIDE DEF id, s, t
  <2>2. AnySeq(s) /\ Pushed(s, id, t)
    BY <2>1 DEF s, t
  <2>3. /\ AnySeq(t) /\ t[1] = id /\ Len(t) = Len(s) + 1 /\ Tail(t) = s
        /\ \A k \in 1..Len(s) : t[k + 1] = s[k]
    BY <2>2, SeqPushed
  <2>. QED
    BY <2>1, <2>3 DEF s, t
<1>6. /\ Len(w.par.stack) \in Nat /\ DOMAIN w.par.stack = 1..Len(w.par.stack)
      /\ DOMAIN v.par.stack = 1..Len(v.par.stack) /\ (w.par.stack = <<>> <=> Len(w.par.stack) = 0)
      /\ v.par.stack # <<>>
  BY <1>5, SeqIs
<1>7. World(v) /\ Calm(v)
  BY <1>3, <1>4, <1>5 DEF World, Calm, Placed
<1>8. Len(v.par.nodes) = Len(w.par.nodes) /\ DOMAIN v.par.nodes = DOMAIN w.par.nodes
  BY <1>1, <1>3, <1>4, <1>7, SameLen, NodesAre DEF Placed
<1>9. ASSUME NEW j \in DOMAIN v.par.nodes
      PROVE  DOMAIN v.par.nodes[j] = NodeFields /\ v.par.nodes[j].parent \in -1..Len(v.par.nodes)
  <2>1. CASE j = id
    BY <1>1, <1>3, <1>4, <1>8, <2>1, TopIs DEF Placed, Core
  <2>2. CASE j # id
    BY <1>3, <1>4, <1>8, <2>2 DEF Placed, Core, Tree
  <2>. QED
    BY <2>1, <2>2
<1>10. \A k \in DOMAIN w.par.stack : w.par.stack[k] \in DOMAIN w.par.nodes \ {id}
  BY <1>1 DEF Core, Tree
<1>11. ASSUME NEW k \in DOMAIN v.par.stack PROVE v.par.stack[k] \in DOMAIN v.par.nodes
  <2>1. CASE k = 1
    BY <1>1, <1>5, <1>8, <2>1
  <2>2. CASE k # 1
    <3>1. k - 1 \in 1..Len(w.par.stack) /\ (k - 1) + 1 = k
      BY <1>5, <1>6, <2>2
    <3>2. v.par.stack[k] = w.par.stack[k - 1]
      BY <1>5, <3>1
    <3>. QED
      BY <1>6, <1>8, <1>10, <3>1, <3>2
  <2>. QED
    BY <2>1, <2>2
<1>12. w.par.stack = <<>> => Bottom(v) = v.par.nodes[id]
  BY <1>5, <1>6 DEF Bottom
<1>13. w.par.stack # <<>> => Bottom(v) = Bottom(w)
  <2>1. SUFFICES ASSUME w.par.stack # <<>> PROVE Bottom(v) = Bottom(w)
    OBVIOUS
  <2>2. Len(w.par.stack) \in 1..Len(w.par.stack)
    BY <1>6, <2>1
  <2>3. v.par.stack[Len(v.par.stack)] = w.par.stack[Len(w.par.stack)]
    BY <1>5, <2>2
  <2>4. w.par.stack[Len(w.par.stack)] \in DOMAIN w.par.nodes \ {id}
    BY <1>6, <1>10, <2>2
  <2>. QED
    BY <1>3, <1>4, <2>3, <2>4 DEF Bottom, Placed
<1>14. w.par.stack = <<>> => /\ Bottom(v).parent = 0 /\ Bottom(v).kind = "element" /\ Bottom(v).open = end + 1
                              /\ Bottom(v).tag = w.par.nodes[id].tag
  BY <1>1, <1>3, <1>4, <1>12, TopIs DEF Placed, Core
<1>15. Tree(v)
  <2>1. Bottom(v).parent = 0 /\ Size > 0
    BY <1>1, <1>13, <1>14 DEF Core, Tree
  <2>2. None \in 0..Len(v.par.nodes)
    BY <1>7, NodesAre DEF None
  <2>. QED
    BY <1>4, <1>9, <1>11, <2>1, <2>2 DEF Tree
<1>16. Top(v) = id
  BY <1>5, <1>6, <1>7, <1>15, TopIs
<1>17. ChildrenOf(v, id) = {}
  <2>1. SUFFICES ASSUME NEW j \in DOMAIN v.par.nodes, v.par.nodes[j].parent = id PROVE FALSE
    BY DEF ChildrenOf
  <2>2. CASE j = id
    BY <1>1, <1>3, <1>4, <2>1, <2>2, TopIs DEF Placed, Core
  <2>3. CASE j # id
    <3>1. j \in ChildrenOf(w, id)
      BY <1>3, <1>4, <2>1, <2>3 DEF Placed, ChildrenOf
    <3>. QED
      BY <1>1, <3>1 DEF Core, Tree
  <2>. QED
    BY <2>2, <2>3
<1>18. CutScript(v) \/ (w.par.stack = <<>> /\ At(end) # "<" /\ Fresh(v))
  <2>1. CASE w.par.stack # <<>>
    BY <1>13, <2>1 DEF Core, CutScript
  <2>2. CASE w.par.stack = <<>> /\ At(end) = "<"
    <3>1. (end + 1) - 1 = end
      OBVIOUS
    <3>. QED
      BY <1>14, <2>2, <3>1 DEF CutScript, CutShort
  <2>3. CASE w.par.stack = <<>> /\ w.par.nodes[id].tag # Script
    BY <1>14, <2>3 DEF CutScript
  <2>4. CASE w.par.stack = <<>> /\ At(end) # "<" /\ w.par.nodes[id].tag = Script
    BY <1>1, <1>3, <1>4, <1>5, <1>6, <1>17, <2>4 DEF Core, ScriptOpens, Placed, Fresh
  <2>. QED
    BY <2>1, <2>2, <2>3, <2>4
<1>19. Shut(v) /\ Rests(w, v)
  BY <1>3, <1>4, <1>7, <1>15 DEF Shut, Rests, Placed
<1>20. v.par.nodes[id].tag = w.par.nodes[id].tag
  BY <1>3, <1>4 DEF Placed
<1>. QED
  BY <1>2, <1>5, <1>6, <1>16, <1>17, <1>18, <1>19, <1>20

(* onselfclosingtag: nothing is in the element that is closed. *)
LEMMA ShutsItself ==
    ASSUME NEW w, Core(w), w.par.openTag # None, NEW end \in 0..(Size - 1)
    PROVE  LET v == Onselfclosingtag(w, end)
           IN  Core(v) /\ Rests(w, v) /\ v.par.openTag = None
<1>. DEFINE u == Onopentagend(w, end)
            tag == w.par.nodes[w.par.openTag].tag
            closes == u.par.panic = "no" /\ u.par.stack # <<>> /\ u.par.nodes[Top(u)].tag = tag
            v == CloseTop(u, end, FALSE)
<1>1. Onselfclosingtag(w, end) = IF closes THEN v ELSE u
  BY DEF Onselfclosingtag
<1>2. end \in 0..Size
  BY CoreIs DEF World
<1>3. CASE tag \in VoidTags
  <2>1. Core(u) /\ Rests(w, u) /\ u.par.openTag = None
    BY <1>3, OpensVoid
  <2>. HIDE DEF u
  <2>2. ASSUME closes PROVE Closed(u, v)
    <3>1. u.par.nodes[Top(u)].tag # Script
      <4>1. \A x : x \in VoidTags => x # Script
        BY DEF VoidTags, Script
      <4>. HIDE DEF tag
      <4>2. tag # Script
        BY <1>3, <4>1
      <4>. QED
        BY <2>2, <4>2
    <3>2. Shut(u)
      BY <2>1, CoreShut
    <3>. QED
      BY <1>2, <2>2, <3>1, <3>2, ShutsTop
  <2>. HIDE DEF v
  <2>3. closes => Core(v)
    BY <2>1, <2>2, ClosedCore DEF Core
  <2>4. closes => Rests(w, v) /\ v.par.openTag = None
    BY <2>1, <2>2 DEF Closed, Rests, Shut
  <2>. HIDE DEF closes
  <2>. QED
    BY <1>1, <2>1, <2>3, <2>4 DEF u, v
<1>4. CASE tag \notin VoidTags
  <2>1. /\ Shut(u) /\ Rests(w, u) /\ u.par.stack # <<>>
        /\ AnySeq(w.par.stack) /\ Tail(u.par.stack) = w.par.stack
        /\ ChildrenOf(u, Top(u)) = {} /\ u.par.nodes[Top(u)].tag = tag
        /\ CutScript(u) \/ w.par.stack = <<>>
    BY <1>4, OpensTagged
  <2>. HIDE DEF u
  <2>2. closes
    BY <2>1 DEF Shut, Calm
  <2>3. Closed(u, v) /\ v.par.stack = w.par.stack
    BY <1>2, <2>1, ShutsTop
  <2>. HIDE DEF v
  <2>4. Core(v)
    <3>1. CASE CutScript(u)
      BY <2>3, <3>1, ClosedCore
    <3>2. CASE w.par.stack = <<>>
      BY <2>3, <3>2 DEF Closed, Shut, Core, CutScript, ScriptOpens
    <3>. QED
      BY <2>1, <3>1, <3>2
  <2>5. Rests(w, v) /\ v.par.openTag = None
    BY <2>1, <2>3 DEF Closed, Rests, Shut
  <2>. HIDE DEF closes
  <2>. QED
    BY <1>1, <2>2, <2>4, <2>5 DEF u, v
<1>. QED
  BY <1>3, <1>4

-----------------------------------------------------------------------------
(* Where a character leaves the tokenizer. *)

EndsBefore(text, k) == k >= Len(text) /\ Slice(k - Len(text), k) = text

ShortComment == <<"<", "!", "-", "-", ">">>
DashComment == <<"<", "!", "-", "-", "-", ">">>

(* The panics that a character is known to bring. *)
KnownAt(v, k) ==
    /\ v.par.panic \in {"oncomment", "AsDirective", ScriptPanic}
    /\ v.par.panic = "oncomment" => EndsBefore(ShortComment, k) \/ EndsBefore(DashComment, k)
    /\ v.par.panic = "AsDirective" => v.par.prop.name = <<"v", "-">>
    /\ v.par.panic = ScriptPanic => CutBefore(v)

Landed(v, k) == World(v) /\ IF Calm(v) THEN Fine(v, k) ELSE KnownAt(v, k)
Reached(v, i) == Landed(v, Advance(i, v.tok.index))

(* A world in which the character at i is read. *)
Ready(w, i) ==
    /\ IsText(source) /\ Core(w) /\ i \in 0..(Size - 1)
    /\ w.tok.sequenceIndex \in 0..i
    /\ w.tok.inRCDATA => Len(w.tok.currentSequence.text) \in Nat /\ Len(w.tok.currentSequence.text) >= 2

Poised(w, i) == Ready(w, i) /\ w.tok.index = i

(* The places behind the character at i. *)
After(i) == {k \in {i + 1, i + 2} : k <= Size /\ (k = i + 2 => At(i) = "W")}

LEMMA AdvanceIs ==
    ASSUME IsText(source), NEW i \in 0..(Size - 1)
    PROVE  Advance(i, i) \in After(i) /\ \A j : j # i => Advance(i, j) = j + 1
<1>1. Size \in Nat /\ (i + 1 \in 0..(Size - 1) /\ At(i + 1) = "~" => At((i + 1) - 1) = "W")
  BY SourceIs
<1>2. (i + 1) - 1 = i /\ i \in Int
  OBVIOUS
<1>3. CASE i + 1 < Size /\ At(i + 1) = "~"
  <2>1. RuneSize(i) = 2 /\ At(i) = "W" /\ i + 2 <= Size
    BY <1>1, <1>2, <1>3 DEF RuneSize
  <2>. QED
    BY <1>1, <2>1 DEF Advance, After
<1>4. CASE ~(i + 1 < Size /\ At(i + 1) = "~")
  <2>1. RuneSize(i) = 1 /\ i + 1 <= Size
    BY <1>1, <1>4 DEF RuneSize
  <2>. QED
    BY <1>1, <2>1 DEF Advance, After
<1>. QED
  BY <1>3, <1>4

(* What must be seen to of a world after the character at i. *)
Fits(v, i) ==
    /\ v.par.openTag # None <=> v.tok.state \in TagStates
    /\ v.tok.state \in InnerNames => v.par.stack # <<>>
    /\ v.tok.state = "InRCDATA" => v.tok.inRCDATA
    /\ \A k \in After(i) : Section(v, k) /\ Dir(v, k)

LEMMA Lands ==
    ASSUME NEW v, NEW i, Poised(v, i), Fits(v, i) PROVE Reached(v, i)
<1>. DEFINE k == Advance(i, v.tok.index)
<1>1. k \in After(i) /\ i \in Nat /\ Size \in Nat /\ IsText(source)
  BY AdvanceIs, CoreIs DEF Poised, Ready, World
<1>2. k \in 0..Size /\ k > i /\ k \in Int
  BY <1>1 DEF After
<1>. HIDE DEF k
<1>3. Section(v, k) /\ Dir(v, k)
  BY <1>1 DEF Fits
<1>4. Sequence(v, k)
  BY <1>1, <1>2 DEF Poised, Ready, Fits, Sequence
<1>5. Fine(v, k)
  BY <1>2, <1>3, <1>4, CoreFine DEF Spot, Fits, Poised, Ready
<1>. QED
  BY <1>5, CoreIs DEF Reached, Landed, Poised, Ready, k

(* The states with no more to see to than where their section starts. *)
Careful ==
    {"BeforeTagName", "InterpolationOpen", "Interpolation", "InterpolationClose", "BeforeDeclaration",
     "BeforeComment", "InCommentLike", "InDirName"} \cup DirStates

LEMMA AfterIs ==
    ASSUME NEW i \in Nat, NEW k \in After(i)
    PROVE  k \in Nat /\ k >= i + 1 /\ k <= i + 2 /\ k <= Size /\ (At(i) # "W" => k = i + 1)
BY DEF After

LEMMA LandsSimply ==
    ASSUME NEW v, NEW i, Poised(v, i), v.tok.state \notin Careful,
           v.par.openTag # None <=> v.tok.state \in TagStates,
           v.tok.state \in InnerNames => v.par.stack # <<>>,
           v.tok.state = "InRCDATA" => v.tok.inRCDATA,
           v.tok.state \notin NoSection => v.tok.sectionStart \in 0..(i + 1)
    PROVE  Reached(v, i)
<1>1. i \in Nat
  BY CoreIs DEF Poised, Ready, World
<1>2. ASSUME NEW k \in After(i) PROVE Section(v, k) /\ Dir(v, k)
  <2>1. k \in Nat /\ k >= i + 1
    BY <1>1, AfterIs
  <2>2. v.tok.state \notin NoSection => Start(v) \in 0..k
    BY <1>1, <2>1 DEF Start
  <2>. QED
    BY <2>2 DEF Section, Dir, Careful, DirStates
<1>. QED
  BY <1>2, Lands DEF Fits

(* What the callbacks, and a change of the state, leave. *)
LEMMA AtRests ==
    ASSUME NEW w, NEW i, Poised(w, i), NEW v, Core(v), Rests(w, v) PROVE Poised(v, i)
BY DEF Poised, Ready, Rests

LEMMA AtEven ==
    ASSUME NEW w, NEW i, Poised(w, i), NEW v, Core(v), Even(w, v)
    PROVE  Poised(v, i) /\ Rests(w, v) /\ v.par.openTag = w.par.openTag /\ v.par.stack = w.par.stack
BY DEF Poised, Ready, Rests, Even

LEMMA AtGoes ==
    ASSUME NEW w, NEW i, Poised(w, i), NEW q, NEW s
    PROVE  /\ Poised(GoAt(w, q, s), i) /\ Poised(Go(w, q), i)
           /\ GoAt(w, q, s).tok.state = q /\ GoAt(w, q, s).tok.sectionStart = s
           /\ Go(w, q).tok.state = q /\ Go(w, q).tok.sectionStart = w.tok.sectionStart
           /\ GoAt(w, q, s).par = w.par /\ Go(w, q).par = w.par
           /\ GoAt(w, q, s).tok.inRCDATA = w.tok.inRCDATA /\ Go(w, q).tok.inRCDATA = w.tok.inRCDATA
           /\ GoAt(w, q, s).tok.currentSequence = w.tok.currentSequence
           /\ Go(w, q).tok.currentSequence = w.tok.currentSequence
           /\ GoAt(w, q, s).tok.sequenceIndex = w.tok.sequenceIndex
           /\ Go(w, q).tok.sequenceIndex = w.tok.sequenceIndex
           /\ GoAt(w, q, s).tok.index = i /\ Go(w, q).tok.index = i
<1>1. World(w)
  BY CoreIs DEF Poised, Ready
<1>2. /\ World(GoAt(w, q, s)) /\ World(Go(w, q)) /\ GoAt(w, q, s).par = w.par /\ Go(w, q).par = w.par
  BY <1>1, Goes
<1>3. /\ GoAt(w, q, s).tok.state = q /\ GoAt(w, q, s).tok.sectionStart = s
      /\ Go(w, q).tok.state = q /\ Go(w, q).tok.sectionStart = w.tok.sectionStart
      /\ GoAt(w, q, s).tok.inRCDATA = w.tok.inRCDATA /\ Go(w, q).tok.inRCDATA = w.tok.inRCDATA
      /\ GoAt(w, q, s).tok.currentSequence = w.tok.currentSequence
      /\ Go(w, q).tok.currentSequence = w.tok.currentSequence
      /\ GoAt(w, q, s).tok.sequenceIndex = w.tok.sequenceIndex
      /\ Go(w, q).tok.sequenceIndex = w.tok.sequenceIndex
      /\ GoAt(w, q, s).tok.index = w.tok.index /\ Go(w, q).tok.index = w.tok.index
  BY <1>1 DEF GoAt, Go, World, TokFields
<1>4. Core(GoAt(w, q, s)) /\ Core(Go(w, q))
  BY <1>2, <1>3, CoreTok DEF Poised, Ready
<1>. QED
  BY <1>2, <1>3, <1>4 DEF Poised, Ready

LEMMA LandsAt ==
    ASSUME NEW w, NEW i, Poised(w, i), NEW q, NEW s, q \notin Careful,
           w.par.openTag # None <=> q \in TagStates,
           q \in InnerNames => w.par.stack # <<>>,
           q = "InRCDATA" => w.tok.inRCDATA,
           q \notin NoSection => s \in 0..(i + 1)
    PROVE  Reached(GoAt(w, q, s), i)
BY AtGoes, LandsSimply

LEMMA LandsGo ==
    ASSUME NEW w, NEW i, Poised(w, i), NEW q, q \notin Careful,
           w.par.openTag # None <=> q \in TagStates,
           q \in InnerNames => w.par.stack # <<>>,
           q = "InRCDATA" => w.tok.inRCDATA,
           q \notin NoSection => w.tok.sectionStart \in 0..(i + 1)
    PROVE  Reached(Go(w, q), i)
BY AtGoes, LandsSimply

LEMMA LandsText ==
    ASSUME NEW w, NEW i, Poised(w, i), w.par.openTag = None, NEW s \in 0..(i + 1)
    PROVE  Reached(GoToText(w, s), i)
BY LandsAt DEF GoToText, Careful, TagStates, InnerNames, NoSection, DirStates

(* The tokenizer before a character, if no script's end tag is awaited.    *)
Reading(w, i) == Poised(w, i) /\ Fine(w, i)

LEMMA ReadingIs ==
    ASSUME NEW w, NEW i, Fine(w, i), IsText(source), i < Size, w.tok.index = i,
           w.tok.state \notin {"InRCDATA", "SpecialStartSequence", "CDATASequence", "InCommentLike"}
    PROVE  Reading(w, i)
<1>1. Core(w) /\ Size \in Nat
  BY FineIs, CoreIs DEF World
<1>2. i \in 0..(Size - 1)
  BY <1>1 DEF Fine, Spot
<1>3. w.tok.sequenceIndex \in 0..i
  BY <1>2 DEF Fine, Spot, Sequence
<1>. QED
  BY <1>1, <1>2, <1>3 DEF Reading, Poised, Ready, Fine, Spot, Sequence

LEMMA ReadingFacts ==
    ASSUME NEW w, NEW i, Reading(w, i)
    PROVE  /\ Poised(w, i) /\ Core(w) /\ World(w) /\ Calm(w) /\ IsText(source)
           /\ i \in Nat /\ i < Size /\ i <= Size /\ Size \in Nat /\ w.tok.index = i /\ Here(w) = i
           /\ w.par.openTag # None <=> w.tok.state \in TagStates
           /\ w.tok.state \in InnerNames => w.par.stack # <<>>
           /\ w.tok.state \notin NoSection => w.tok.sectionStart \in 0..i
           /\ Section(w, i) /\ Dir(w, i)
<1>1. Core(w) /\ i \in 0..(Size - 1) /\ w.tok.index = i /\ IsText(source) /\ Spot(w, i)
  BY DEF Reading, Poised, Ready, Fine
<1>2. World(w) /\ Calm(w) /\ Size \in Nat
  BY <1>1, CoreIs DEF World
<1>. QED
  BY <1>1, <1>2 DEF Reading, Spot, Section, Start, Here

(* Nothing is done. *)
LEMMA Stays ==
    ASSUME NEW w, NEW i, Reading(w, i), w.tok.state \notin {"BeforeTagName", "BeforeDeclaration", "BeforeComment"},
           w.tok.state = "InDirArg" => At(i) # "[",
           w.tok.state \notin {"InRCDATA", "InCommentLike"}
    PROVE  Reached(w, i)
<1>1. /\ Poised(w, i) /\ Section(w, i) /\ Dir(w, i) /\ i \in Nat
      /\ w.par.openTag # None <=> w.tok.state \in TagStates
      /\ w.tok.state \in InnerNames => w.par.stack # <<>>
  BY ReadingFacts
<1>2. ASSUME NEW k \in After(i) PROVE Section(w, k) /\ Dir(w, k)
  <2>1. k \in Nat /\ k >= i + 1 /\ k <= i + 2
    BY <1>1, AfterIs
  <2>2. Dir(w, k)
    BY <1>1, <2>1 DEF Dir
  <2>3. Section(w, k)
    <3>1. w.tok.state = "InDirArg" => (k = Start(w) + 1 => At(Start(w)) # "[")
      <4>1. w.tok.state = "InDirArg" => Start(w) \in 0..i
        BY <1>1 DEF Section, NoSection
      <4>2. w.tok.state = "InDirArg" /\ k = Start(w) + 1 => Start(w) = i
        BY <1>1, <2>1, <4>1
      <4>. QED
        BY <4>2
    <3>2. w.tok.state \notin NoSection => Start(w) \in 0..i /\ Start(w) \in 0..k
      BY <1>1, <2>1 DEF Section
    <3>3. \A n \in 1..3 : w.tok.state \notin NoSection => (Start(w) + n <= i => Start(w) + n <= k)
      BY <1>1, <2>1, <3>2
    <3>. QED
      BY <1>1, <3>1, <3>2, <3>3 DEF Section, NoSection
  <2>. QED
    BY <2>2, <2>3
<1>. QED
  BY <1>1, <1>2, Lands DEF Fits

LEMMA AtFacts ==
    ASSUME NEW w, NEW i, Poised(w, i)
    PROVE  /\ Core(w) /\ World(w) /\ Calm(w) /\ w.par.panic = "no" /\ IsText(source) /\ Here(w) = i
           /\ i \in Nat /\ i < Size /\ i <= Size /\ i + 1 <= Size /\ Size \in Nat
           /\ i \in 0..(Size - 1) /\ i \in 0..Size /\ w.tok.index = i
           /\ w.tok.sequenceIndex \in 0..i
           /\ w.tok.inRCDATA => Len(w.tok.currentSequence.text) \in Nat /\ Len(w.tok.currentSequence.text) >= 2
<1>1. Core(w) /\ World(w) /\ Calm(w) /\ w.par.panic = "no" /\ Size \in Nat
  BY CoreIs DEF Poised, Ready, World
<1>. QED
  BY <1>1 DEF Poised, Ready, Here

(* Text, if there is any, is added. *)
LEMMA AtText ==
    ASSUME NEW w, NEW i, Poised(w, i), NEW a \in 0..i, NEW b \in 0..i
    PROVE  LET v == IF b > a THEN Ontext(w, a, b) ELSE w
           IN  Poised(v, i) /\ Even(w, v) /\ Rests(w, v)
<1>1. a \in Nat /\ b \in Nat /\ b <= Size /\ Core(w)
  BY AtFacts
<1>2. b > a => Core(Ontext(w, a, b)) /\ Even(w, Ontext(w, a, b))
  BY <1>1, CoreText
<1>. QED
  BY <1>1, <1>2, AtEven, EvenWorld

-----------------------------------------------------------------------------
(* Text and interpolations. *)

LEMMA LandsInText ==
    ASSUME NEW w, NEW i, Poised(w, i), w.tok.state = "Text", w.par.openTag = None, w.tok.sectionStart \in 0..i
    PROVE  Reached(StateText(w, At(i)), i)
<1>. DEFINE st == Start(w)
            u == IF i > st THEN Ontext(w, st, i) ELSE w
            v == GoAt(u, "BeforeTagName", i)
<1>1. Here(w) = i /\ i \in Nat /\ st \in 0..i /\ i \in 0..i
  BY AtFacts DEF Start
<1>2. Reached(v, i) \/ At(i) # "<"
  <2>1. Poised(u, i) /\ Even(w, u)
    BY <1>1, AtText
  <2>. HIDE DEF u
  <2>2. Poised(v, i) /\ v.tok.state = "BeforeTagName" /\ Start(v) = i /\ v.par.openTag = None
    BY <2>1, AtGoes DEF Even, Start
  <2>. HIDE DEF v
  <2>3. ASSUME At(i) = "<", NEW k \in After(i) PROVE Section(v, k) /\ Dir(v, k)
    BY <1>1, <2>2, <2>3, AfterIs DEF Section, Dir, DirStates
  <2>. QED
    BY <2>2, <2>3, Lands DEF Fits, TagStates, InnerNames
<1>3. Reached(Go(w, "InterpolationOpen"), i)
  <2>. DEFINE t == Go(w, "InterpolationOpen")
  <2>1. Poised(t, i) /\ t.tok.state = "InterpolationOpen" /\ Start(t) = st /\ t.par.openTag = None
    BY AtGoes DEF Start
  <2>. HIDE DEF t, st
  <2>2. ASSUME NEW k \in After(i) PROVE Section(t, k) /\ Dir(t, k)
    BY <1>1, <2>1, <2>2, AfterIs DEF Section, Dir, DirStates
  <2>3. Reached(t, i)
    BY <2>1, <2>2, Lands DEF Fits, TagStates, InnerNames
  <2>. QED
    BY <2>3 DEF t
<1>4. Reached(w, i)
  BY <1>1, LandsSimply DEF Careful, DirStates, TagStates, InnerNames
<1>. QED
  BY <1>1, <1>2, <1>3, <1>4 DEF StateText

LEMMA LandsInterpolation ==
    ASSUME NEW w, NEW i, Reading(w, i), w.tok.state = "Interpolation"
    PROVE  Reached(StateInterpolation(w, At(i)), i)
<1>1. /\ Poised(w, i) /\ w.par.openTag = None /\ i \in Nat /\ Start(w) \in Nat /\ Start(w) + 2 <= i
  BY ReadingFacts DEF TagStates, Section, NoSection
<1>2. Reached(w, i)
  BY Stays
<1>3. Reached(Go(w, "InterpolationClose"), i)
  <2>. DEFINE t == Go(w, "InterpolationClose")
  <2>1. Poised(t, i) /\ t.tok.state = "InterpolationClose" /\ Start(t) = Start(w) /\ t.par.openTag = None
    BY <1>1, AtGoes DEF Start
  <2>. HIDE DEF t
  <2>2. ASSUME NEW k \in After(i) PROVE Section(t, k) /\ Dir(t, k)
    BY <1>1, <2>1, <2>2, AfterIs DEF Section, Dir, DirStates
  <2>3. Reached(t, i)
    BY <2>1, <2>2, Lands DEF Fits, TagStates, InnerNames
  <2>. QED
    BY <2>3 DEF t
<1>. QED
  BY <1>2, <1>3 DEF StateInterpolation

LEMMA LandsInterpolationClose ==
    ASSUME NEW w, NEW i, Reading(w, i), w.tok.state = "InterpolationClose"
    PROVE  Reached(StateInterpolationClose(w, At(i)), i)
<1>1. /\ Poised(w, i) /\ w.par.openTag = None /\ i \in Nat /\ Start(w) \in Nat /\ Start(w) + 3 <= i
      /\ Here(w) = i /\ i + 1 <= Size /\ Core(w)
  BY ReadingFacts DEF TagStates, Section, NoSection
<1>2. Reached(Go(w, "Interpolation"), i)
  <2>. DEFINE t == Go(w, "Interpolation")
  <2>1. Poised(t, i) /\ t.tok.state = "Interpolation" /\ Start(t) = Start(w) /\ t.par.openTag = None
    BY <1>1, AtGoes DEF Start
  <2>. HIDE DEF t
  <2>2. ASSUME NEW k \in After(i) PROVE Section(t, k) /\ Dir(t, k)
    BY <1>1, <2>1, <2>2, AfterIs DEF Section, Dir, DirStates
  <2>3. Reached(t, i)
    BY <2>1, <2>2, Lands DEF Fits, TagStates, InnerNames
  <2>. QED
    BY <2>3 DEF t
<1>3. Reached(GoToText(Oninterpolation(w, Start(w), i + 1), i + 1), i)
  <2>1. i + 1 \in Nat /\ Start(w) + 4 <= i + 1 /\ i + 1 \in 0..(i + 1)
    BY <1>1
  <2>2. Core(Oninterpolation(w, Start(w), i + 1)) /\ Even(w, Oninterpolation(w, Start(w), i + 1))
    BY <1>1, <2>1, CoreInterpolation
  <2>3. /\ Poised(Oninterpolation(w, Start(w), i + 1), i)
        /\ Oninterpolation(w, Start(w), i + 1).par.openTag = None
    BY <1>1, <2>2, AtEven
  <2>. QED
    BY <2>1, <2>3, LandsText
<1>. QED
  BY <1>1, <1>2, <1>3 DEF StateInterpolationClose

-----------------------------------------------------------------------------
(* Closing tags. *)

LEMMA LandsAfterClosingTagName ==
    ASSUME NEW w, NEW i, Poised(w, i), w.tok.state = "AfterClosingTagName", w.par.openTag = None
    PROVE  Reached(StateAfterClosingTagName(w, At(i)), i)
<1>1. Here(w) = i /\ i \in Nat /\ i + 1 \in 0..(i + 1)
  BY AtFacts
<1>2. Reached(w, i)
  BY LandsSimply DEF Careful, DirStates, TagStates, InnerNames, NoSection
<1>3. Reached(GoAt(w, "Text", i + 1), i)
  BY <1>1, LandsAt DEF Careful, DirStates, TagStates, InnerNames
<1>. QED
  BY <1>1, <1>2, <1>3 DEF StateAfterClosingTagName

(* The state after a script block failed to close does not matter. *)
LEMMA Fails ==
    ASSUME NEW v, NEW i,
           \/ ScriptFails(v)
           \/ World(v) /\ v.par.panic = "AsDirective" /\ v.par.prop.name = <<"v", "-">>
    PROVE  Reached(v, i)
BY DEF ScriptFails, ScriptPanic, Reached, Landed, Calm, KnownAt

(* Behind a closing tag's name, or where a script block failed to close.   *)
Left(v, i) ==
    \/ ScriptFails(v)
    \/ /\ Poised(v, i) /\ v.par.openTag = None /\ v.tok.state \in {"Text", "AfterClosingTagName"}
       /\ v.tok.state = "Text" => v.tok.sectionStart = i + 1

LEMMA LandsLeft == ASSUME NEW v, NEW i, Left(v, i) PROVE Reached(v, i)
<1>1. CASE ScriptFails(v)
  BY <1>1, Fails
<1>2. CASE Poised(v, i) /\ Left(v, i) /\ ~ScriptFails(v)
  <2>1. i + 1 \in 0..(i + 1)
    BY <1>2, AtFacts
  <2>. QED
    BY <1>2, <2>1, LandsSimply DEF Left, Careful, DirStates, TagStates, InnerNames, NoSection
<1>. QED
  BY <1>1, <1>2 DEF Left

LEMMA FailsGoes ==
    ASSUME NEW v, ScriptFails(v), NEW q, NEW s PROVE ScriptFails(GoAt(v, q, s))
<1>1. World(GoAt(v, q, s)) /\ GoAt(v, q, s).par = v.par
  BY Goes DEF ScriptFails
<1>. QED
  BY <1>1 DEF ScriptFails, CutBefore

LEMMA LeavesName ==
    ASSUME NEW u, NEW i, ScriptFails(u) \/ (Poised(u, i) /\ u.par.openTag = None)
    PROVE  Left(StateAfterClosingTagName(GoAt(u, "AfterClosingTagName", -1), At(i)), i)
<1>. DEFINE v == GoAt(u, "AfterClosingTagName", -1)
<1>1. CASE ScriptFails(u)
  BY <1>1, FailsGoes DEF Left, StateAfterClosingTagName
<1>2. CASE Poised(u, i) /\ u.par.openTag = None
  <2>1. Poised(v, i) /\ v.tok.state = "AfterClosingTagName" /\ v.par.openTag = None
    BY <1>2, AtGoes
  <2>. HIDE DEF v
  <2>2. Here(v) = i
    BY <2>1, AtFacts
  <2>3. /\ Poised(GoAt(v, "Text", i + 1), i) /\ GoAt(v, "Text", i + 1).tok.state = "Text"
        /\ GoAt(v, "Text", i + 1).tok.sectionStart = i + 1 /\ GoAt(v, "Text", i + 1).par.openTag = None
    BY <2>1, AtGoes
  <2>4. Left(StateAfterClosingTagName(v, At(i)), i)
    BY <2>1, <2>2, <2>3 DEF Left, StateAfterClosingTagName
  <2>. QED
    BY <2>4 DEF v
<1>. QED
  BY <1>1, <1>2

LEMMA ClosesName ==
    ASSUME NEW w, NEW i, Poised(w, i), w.par.openTag = None, NEW a \in 0..i
    PROVE  Left(StateAfterClosingTagName(GoAt(Onclosetag(w, a, i), "AfterClosingTagName", -1), At(i)), i)
<1>. DEFINE u == Onclosetag(w, a, i)
<1>1. Core(w) /\ a \in Nat /\ i \in Nat /\ a <= i /\ i <= Size
  BY AtFacts
<1>2. Closed(w, u) \/ ScriptFails(u)
  BY <1>1, ShutsClosetag
<1>. HIDE DEF u
<1>3. Closed(w, u) => Poised(u, i) /\ u.par.openTag = None
  <2>1. Closed(w, u) => Core(u) /\ Rests(w, u) /\ u.par.openTag = None
    BY <1>1, ClosedCore DEF Core, Closed, Shut
  <2>. QED
    BY <2>1, AtRests
<1>4. Left(StateAfterClosingTagName(GoAt(u, "AfterClosingTagName", -1), At(i)), i)
  BY <1>2, <1>3, LeavesName
<1>. QED
  BY <1>4 DEF u

LEMMA LandsInClosingTagName ==
    ASSUME NEW w, NEW i, Reading(w, i), w.tok.state = "InClosingTagName"
    PROVE  Reached(StateInClosingTagName(w, At(i)), i)
<1>1. Poised(w, i) /\ w.par.openTag = None /\ Here(w) = i /\ Start(w) \in 0..i
  BY ReadingFacts DEF TagStates, NoSection, Start
<1>2. Reached(w, i)
  BY Stays
<1>3. Reached(StateAfterClosingTagName(GoAt(Onclosetag(w, Start(w), i), "AfterClosingTagName", -1), At(i)), i)
  BY <1>1, ClosesName, LandsLeft
<1>. QED
  BY <1>1, <1>2, <1>3 DEF StateInClosingTagName

LEMMA LandsBeforeClosingTagName ==
    ASSUME NEW w, NEW i, Reading(w, i), w.tok.state = "BeforeClosingTagName"
    PROVE  Reached(StateBeforeClosingTagName(w, At(i)), i)
<1>1. Poised(w, i) /\ w.par.openTag = None /\ Here(w) = i /\ i \in Nat /\ i \in 0..(i + 1) /\ i + 1 \in 0..(i + 1)
  BY ReadingFacts DEF TagStates
<1>2. Reached(w, i)
  BY Stays
<1>3. \A q \in {"Text", "InClosingTagName", "InSpecialComment"} : \A s \in {i, i + 1} : Reached(GoAt(w, q, s), i)
  BY <1>1, LandsAt DEF Careful, DirStates, TagStates, InnerNames
<1>. QED
  BY <1>1, <1>2, <1>3 DEF StateBeforeClosingTagName

-----------------------------------------------------------------------------
(* Raw text. *)

(* The raw text of a script block, and any other. *)
OfScript(w) ==
    /\ Len(w.par.stack) = 1 /\ ChildrenOf(w, w.par.stack[1]) = {} /\ w.tok.currentSequence = BlockEnd(Script)

InRaw(w, i) ==
    /\ IsText(source) /\ i \in 0..(Size - 1) /\ w.tok.index = i
    /\ World(w) /\ Calm(w) /\ Tree(w) /\ w.par.openTag = None
    /\ w.tok.state = "InRCDATA" /\ w.tok.inRCDATA /\ Start(w) \in 0..i
    /\ Len(w.tok.currentSequence.text) \in Nat /\ Len(w.tok.currentSequence.text) >= 2
    /\ CutScript(w) \/ OfScript(w)

(* But for the place in the end tag and in the text, nothing moves. *)
Kin(w, v) ==
    /\ World(v) /\ v.par = w.par /\ v.tok.state = w.tok.state /\ v.tok.sectionStart = w.tok.sectionStart
    /\ v.tok.inRCDATA = w.tok.inRCDATA /\ v.tok.currentSequence = w.tok.currentSequence

LEMMA KinSequence ==
    ASSUME NEW w, World(w), NEW x
    PROVE  LET v == [w EXCEPT !.tok.sequenceIndex = x]
           IN  Kin(w, v) /\ v.tok.sequenceIndex = x /\ v.tok.index = w.tok.index
BY DEF World, TokFields, Kin

LEMMA KinAhead ==
    ASSUME NEW w, World(w), NEW c
    PROVE  LET v == FastForwardTo(w, c) IN Kin(w, v) /\ v.tok.sequenceIndex = w.tok.sequenceIndex
<1>. DEFINE v == FastForwardTo(w, c)
            u == [w EXCEPT !.tok.index = v.tok.index]
<1>1. World(v)
  BY Jumps DEF Like
<1>2. v.tok = [w.tok EXCEPT !.index = IF Ahead(w, c) = {} THEN Size - 1 ELSE Min(Ahead(w, c))] /\ v.par = w.par
  BY DEF FastForwardTo, World
<1>. HIDE DEF v
<1>. QED
  BY <1>1, <1>2 DEF Kin, World, TokFields, v

(* Where the search for a character ends. *)
LEMMA AheadIs ==
    ASSUME NEW w, World(w), NEW i \in 0..(Size - 1), IsText(source), w.tok.index = i, NEW c
    PROVE  LET k == Advance(i, FastForwardTo(w, c).tok.index)
           IN  /\ k \in Nat /\ i + 1 <= k /\ k <= Size
               /\ Ahead(w, c) # {} => At(k - 1) = c /\ i + 2 <= k /\ FastForwardTo(w, c).tok.index = k - 1
               /\ Ahead(w, c) = {} => k = Size
<1>. DEFINE j == FastForwardTo(w, c).tok.index
            hits == Ahead(w, c)
<1>1. Size \in Nat /\ i \in Nat /\ i < Size
  BY DEF World
<1>2. j = IF hits = {} THEN Size - 1 ELSE Min(hits)
  BY DEF FastForwardTo, World, TokFields
<1>3. hits \in SUBSET Nat /\ \A x \in hits : x \in Nat /\ i + 1 <= x /\ x <= Size - 1 /\ At(x) = c
  BY <1>1 DEF Ahead, Here
<1>4. Advance(i, i) \in After(i) /\ \A x : x # i => Advance(i, x) = x + 1
  BY AdvanceIs
<1>. HIDE DEF hits, j
<1>5. CASE hits # {}
  <2>1. j \in hits
    BY <1>2, <1>3, <1>5, MinIs
  <2>2. j \in Nat /\ i + 1 <= j /\ j <= Size - 1 /\ At(j) = c
    BY <1>3, <2>1
  <2>3. Advance(i, j) = j + 1 /\ (j + 1) - 1 = j
    BY <1>1, <1>4, <2>2
  <2>. QED
    BY <1>1, <1>5, <2>2, <2>3 DEF j, hits
<1>6. CASE hits = {} /\ i = Size - 1
  <2>1. Advance(i, i) = Size
    BY <1>1, <1>4, <1>6 DEF After
  <2>. QED
    BY <1>1, <1>2, <1>6, <2>1 DEF j, hits
<1>7. CASE hits = {} /\ i # Size - 1
  <2>1. Advance(i, j) = Size
    BY <1>1, <1>2, <1>4, <1>7
  <2>. QED
    BY <1>1, <1>7, <2>1 DEF j, hits
<1>. QED
  BY <1>5, <1>6, <1>7

LEMMA LandsKin ==
    ASSUME NEW w, NEW i, InRaw(w, i), NEW v, Kin(w, v),
           Advance(i, v.tok.index) \in Nat, i + 1 <= Advance(i, v.tok.index), Advance(i, v.tok.index) <= Size,
           v.tok.sequenceIndex \in 0..Advance(i, v.tok.index),
           CutScript(w) \/ StandsBefore(v, Advance(i, v.tok.index))
    PROVE  Reached(v, i)
<1>. DEFINE k == Advance(i, v.tok.index)
<1>1. k \in Nat /\ i + 1 <= k /\ k <= Size /\ v.tok.sequenceIndex \in 0..k /\ i \in Nat /\ Size \in Nat
  BY DEF InRaw, World
<1>2. CutScript(w) \/ StandsBefore(v, k)
  OBVIOUS
<1>. HIDE DEF k
<1>3. World(v) /\ Calm(v) /\ Tree(v) /\ ScriptOpens(v) /\ (CutScript(w) => CutScript(v))
  BY DEF InRaw, Kin, Calm, Tree, ScriptOpens, CutScript, Bottom, ChildrenOf
<1>4. CutScript(w) \/ OfScript(w)
  BY DEF InRaw
<1>5. CutScript(v) \/ RawScript(v, k)
  <2>1. OfScript(w) /\ StandsBefore(v, k) => RawScript(v, k)
    BY DEF InRaw, Kin, OfScript, RawScript, ChildrenOf
  <2>. QED
    BY <1>2, <1>3, <1>4, <2>1
<1>6. Section(v, k)
  <2>1. Start(v) \in 0..i /\ v.tok.state = "InRCDATA"
    BY DEF InRaw, Kin, Start
  <2>. QED
    BY <1>1, <2>1 DEF Section
<1>7. Sequence(v, k) /\ Dir(v, k)
  BY <1>1 DEF InRaw, Kin, Sequence, Dir, DirStates
<1>8. Spot(v, k)
  BY <1>1, <1>6, <1>7 DEF InRaw, Kin, Spot, TagStates, InnerNames
<1>9. Fine(v, k)
  BY <1>3, <1>5, <1>8 DEF Fine
<1>. QED
  BY <1>3, <1>9 DEF Reached, Landed, k

LEMMA ScriptEndIs ==
    LET end == BlockEnd(Script)
    IN  /\ end.of = "block" /\ Len(end.text) = 5 /\ end.text[1] = "<" /\ end.text[2] = "/"
        /\ end.text[3] = "s" /\ end.text[4] = "c" /\ end.text[5] = "r"
BY DEF BlockEnd, Script

LEMMA InRawFacts ==
    ASSUME NEW w, NEW i, InRaw(w, i)
    PROVE  /\ IsText(source) /\ World(w) /\ Calm(w) /\ w.par.panic = "no" /\ Tree(w) /\ w.par.openTag = None
           /\ i \in Nat /\ Size \in Nat /\ i < Size /\ i \in 0..(Size - 1) /\ Here(w) = i /\ w.tok.index = i
           /\ i \in 0..i /\ Start(w) \in 0..i
           /\ Advance(i, i) \in Nat /\ i + 1 <= Advance(i, i) /\ Advance(i, i) <= Size
           /\ At(i) # "W" => Advance(i, i) = i + 1
<1>1. i \in 0..(Size - 1) /\ Size \in Nat /\ IsText(source)
  BY DEF InRaw, World
<1>2. Advance(i, i) \in After(i) /\ i \in Nat
  BY <1>1, AdvanceIs
<1>3. /\ Advance(i, i) \in Nat /\ i + 1 <= Advance(i, i) /\ Advance(i, i) <= Size
      /\ At(i) # "W" => Advance(i, i) = i + 1
  BY <1>2, AfterIs
<1>. QED
  BY <1>1, <1>3 DEF InRaw, Calm, Here

(* No script's raw text. *)
LEMMA InRawCore ==
    ASSUME NEW w, NEW i, InRaw(w, i), CutScript(w)
    PROVE  Core(w) /\ (w.tok.sequenceIndex \in 0..i => Poised(w, i))
BY DEF InRaw, Core, ScriptOpens, Poised, Ready

(* None, or the first, of the end tag's characters stands before k. *)
LEMMA StandsFirst ==
    ASSUME NEW v, v.tok.currentSequence = BlockEnd(Script), NEW k \in Nat,
           \/ v.tok.sequenceIndex = 0
           \/ v.tok.sequenceIndex = 1 /\ k >= 1 /\ At(k - 1) = "<"
    PROVE  StandsBefore(v, k)
<1>. DEFINE text == v.tok.currentSequence.text
<1>1. Len(text) = 5 /\ text[1] = "<"
  BY ScriptEndIs
<1>. HIDE DEF text
<1>2. Lower("<") = "<"
  BY LowerIs
<1>3. CASE v.tok.sequenceIndex = 0
  BY <1>1, <1>3 DEF StandsBefore, text
<1>4. CASE v.tok.sequenceIndex = 1 /\ k >= 1 /\ At(k - 1) = "<"
  <2>1. \A n \in 1..1 : Lower(At(k - 1 + n - 1)) = text[n]
    <3>1. \A n \in 1..1 : n = 1 /\ k - 1 + n - 1 = k - 1
      OBVIOUS
    <3>. QED
      BY <1>1, <1>2, <1>4, <3>1
  <2>. QED
    BY <1>1, <1>4, <2>1 DEF StandsBefore, text
<1>. QED
  BY <1>3, <1>4

(* One more. *)
OneMore(w, v, i) ==
    /\ w.tok.sequenceIndex \in Nat /\ Len(w.tok.currentSequence.text) \in Nat
    /\ w.tok.sequenceIndex < Len(w.tok.currentSequence.text)
    /\ v.tok.currentSequence = w.tok.currentSequence
    /\ v.tok.sequenceIndex = w.tok.sequenceIndex + 1
    /\ Lower(At(i)) = w.tok.currentSequence.text[w.tok.sequenceIndex + 1]

LEMMA StandsNext ==
    ASSUME NEW w, NEW i \in Nat, StandsBefore(w, i), NEW v, OneMore(w, v, i)
    PROVE  StandsBefore(v, i + 1)
<1>. DEFINE n == w.tok.sequenceIndex
            text == w.tok.currentSequence.text
<1>1. n <= i /\ \A k \in 1..n : Lower(At(i - n + k - 1)) = text[k]
  BY DEF StandsBefore
<1>2. ASSUME NEW k \in 1..(n + 1) PROVE Lower(At((i + 1) - (n + 1) + k - 1)) = text[k]
  <2>1. CASE k = n + 1
    <3>0. n \in Nat
      BY DEF OneMore
    <3>. HIDE DEF n, text
    <3>1. (i + 1) - (n + 1) + k - 1 = i
      BY <2>1, <3>0
    <3>2. Lower(At(i)) = text[n + 1]
      BY DEF n, text, OneMore
    <3>. QED
      BY <2>1, <3>1, <3>2
  <2>2. CASE k # n + 1
    <3>1. k \in 1..n /\ (i + 1) - (n + 1) + k - 1 = i - n + k - 1
      <4>1. n \in Nat
        BY DEF OneMore
      <4>. HIDE DEF n
      <4>. QED
        BY <2>2, <4>1
    <3>. QED
      BY <1>1, <3>1
  <2>. QED
    BY <2>1, <2>2
<1>3. n + 1 <= Len(text) /\ n + 1 <= i + 1
  BY <1>1 DEF OneMore
<1>. HIDE DEF n, text
<1>4. v.tok.sequenceIndex = n + 1 /\ v.tok.currentSequence.text = text
  BY DEF n, text, OneMore
<1>. QED
  BY <1>2, <1>3, <1>4 DEF StandsBefore

LEMMA LandsFirstOfRCDATA ==
    ASSUME NEW w, NEW i, InRaw(w, i), w.tok.sequenceIndex = 0
    PROVE  Reached(FirstOfRCDATA(w, At(i)), i)
<1>. DEFINE of == w.tok.currentSequence.of
            first == [w EXCEPT !.tok.sequenceIndex = 1]
            far == FastForwardTo(w, "<")
            found == [far EXCEPT !.tok.sequenceIndex = 1]
<1>1. /\ IsText(source) /\ World(w) /\ w.par.openTag = None /\ i \in Nat /\ Size \in Nat /\ i \in 0..(Size - 1)
      /\ Start(w) \in 0..i /\ w.tok.index = i /\ i \in 0..i
      /\ Advance(i, i) \in Nat /\ i + 1 <= Advance(i, i) /\ Advance(i, i) <= Size
      /\ At(i) # "W" => Advance(i, i) = i + 1
  BY InRawFacts
<1>2. CutScript(w) \/ w.tok.currentSequence = BlockEnd(Script)
  BY DEF InRaw, OfScript
<1>3. Reached(w, i)
  <2>1. Kin(w, w)
    BY <1>1 DEF Kin
  <2>2. CutScript(w) \/ StandsBefore(w, Advance(i, i))
    BY <1>1, <1>2, StandsFirst
  <2>. QED
    BY <1>1, <2>1, <2>2, LandsKin
<1>4. At(i) = Awaited(w) => Reached(first, i)
  <2>1. Kin(w, first) /\ first.tok.sequenceIndex = 1 /\ first.tok.index = i
    BY <1>1, KinSequence
  <2>. HIDE DEF first
  <2>2. 1 \in 0..Advance(i, i)
    BY <1>1
  <2>3. At(i) = Awaited(w) /\ w.tok.currentSequence = BlockEnd(Script) => StandsBefore(first, Advance(i, i))
    <3>1. SUFFICES ASSUME At(i) = Awaited(w), w.tok.currentSequence = BlockEnd(Script)
                   PROVE  StandsBefore(first, Advance(i, i))
      OBVIOUS
    <3>2. At(i) = "<"
      BY <3>1, ScriptEndIs DEF Awaited
    <3>3. Advance(i, i) = i + 1 /\ (i + 1) - 1 = i /\ i + 1 >= 1
      BY <1>1, <3>2
    <3>4. first.tok.currentSequence = BlockEnd(Script)
      BY <2>1, <3>1 DEF Kin
    <3>. QED
      BY <1>1, <2>1, <3>2, <3>3, <3>4, StandsFirst
  <2>4. At(i) = Awaited(w) => Reached(first, i)
    BY <1>1, <1>2, <2>1, <2>2, <2>3, LandsKin
  <2>. QED
    BY <2>4 DEF first
<1>5. Ahead(w, "<") = {} => Reached(far, i)
  <2>1. Kin(w, far) /\ far.tok.sequenceIndex = 0
    BY <1>1, KinAhead
  <2>2. LET k == Advance(i, far.tok.index) IN k \in Nat /\ i + 1 <= k /\ k <= Size
    BY <1>1, AheadIs
  <2>. HIDE DEF far
  <2>3. 0 \in 0..Advance(i, far.tok.index)
    BY <2>2
  <2>4. CutScript(w) \/ StandsBefore(far, Advance(i, far.tok.index))
    BY <1>2, <2>1, <2>2, StandsFirst DEF Kin
  <2>5. Reached(far, i)
    BY <2>1, <2>2, <2>3, <2>4, LandsKin
  <2>. QED
    BY <2>5 DEF far
<1>6. Ahead(w, "<") # {} => Reached(found, i)
  <2>1. Kin(w, far) /\ World(far)
    BY <1>1, KinAhead DEF Kin
  <2>2. LET k == Advance(i, far.tok.index)
        IN k \in Nat /\ i + 1 <= k /\ k <= Size /\ (Ahead(w, "<") # {} => At(k - 1) = "<")
    BY <1>1, AheadIs
  <2>. HIDE DEF far
  <2>3. Kin(far, found) /\ found.tok.sequenceIndex = 1 /\ found.tok.index = far.tok.index
    BY <2>1, KinSequence
  <2>. HIDE DEF found
  <2>4. Kin(w, found)
    BY <2>1, <2>3 DEF Kin
  <2>5. 1 \in 0..Advance(i, found.tok.index) /\ Advance(i, found.tok.index) >= 1
    BY <1>1, <2>2, <2>3
  <2>6. Ahead(w, "<") # {} => CutScript(w) \/ StandsBefore(found, Advance(i, found.tok.index))
    BY <1>2, <2>2, <2>3, <2>4, <2>5, StandsFirst DEF Kin
  <2>7. Ahead(w, "<") # {} => Reached(found, i)
    BY <2>2, <2>3, <2>4, <2>5, <2>6, LandsKin
  <2>. QED
    BY <2>7 DEF found
<1>7. of \in {"title", "textarea"} => Reached(Go(w, "InterpolationOpen"), i)
  <2>. DEFINE t == Go(w, "InterpolationOpen")
  <2>1. SUFFICES ASSUME of \in {"title", "textarea"} PROVE Reached(t, i)
    OBVIOUS
  <2>2. CutScript(w)
    BY <1>2, <2>1, ScriptEndIs
  <2>3. Poised(w, i)
    BY <1>1, <2>2, InRawCore
  <2>4. Poised(t, i) /\ t.tok.state = "InterpolationOpen" /\ Start(t) = Start(w) /\ t.par.openTag = None
    BY <1>1, <2>3, AtGoes DEF Start
  <2>. HIDE DEF t
  <2>5. ASSUME NEW k \in After(i) PROVE Section(t, k) /\ Dir(t, k)
    BY <1>1, <2>4, <2>5, AfterIs DEF Section, Dir, DirStates
  <2>. QED
    BY <2>4, <2>5, Lands DEF Fits, TagStates, InnerNames
<1>. HIDE DEF first, far, found, of
<1>8. FirstOfRCDATA(w, At(i)) =
          CASE At(i) = Awaited(w) -> first
            [] At(i) # Awaited(w) /\ (of = "title" \/ (of = "textarea" /\ ~InSFCRoot(w))) ->
                  IF At(i) = "{" /\ ~w.tok.inVPre THEN Go(w, "InterpolationOpen") ELSE w
            [] OTHER -> IF Ahead(w, "<") = {} THEN far ELSE found
  BY DEF FirstOfRCDATA, of, first, far, found
<1>. QED
  BY <1>3, <1>4, <1>5, <1>6, <1>7, <1>8

LEMMA LeftRaw ==
    ASSUME NEW v, NEW i, Left(v, i) PROVE Left([v EXCEPT !.tok.inRCDATA = FALSE], i)
<1>. DEFINE u == [v EXCEPT !.tok.inRCDATA = FALSE]
<1>1. World(v)
  BY AtFacts DEF Left, ScriptFails
<1>2. /\ World(u) /\ u.par = v.par /\ u.tok.state = v.tok.state /\ u.tok.sectionStart = v.tok.sectionStart
      /\ u.tok.index = v.tok.index /\ u.tok.sequenceIndex = v.tok.sequenceIndex /\ ~u.tok.inRCDATA
  BY <1>1 DEF World, TokFields
<1>. HIDE DEF u
<1>3. CASE ScriptFails(v)
  BY <1>2, <1>3 DEF ScriptFails, CutBefore, Left, u
<1>4. CASE Poised(v, i) /\ ~ScriptFails(v)
  <2>1. Core(u)
    BY <1>2, <1>4, CoreTok DEF Left, Poised, Ready
  <2>2. Poised(u, i)
    BY <1>2, <1>4, <2>1 DEF Poised, Ready
  <2>. QED
    BY <1>2, <1>4, <2>2 DEF Left, u
<1>. QED
  BY <1>3, <1>4 DEF Left

(* A script block's text is added to it. *)
LEMMA TextsScript ==
    ASSUME NEW w, NEW i, InRaw(w, i), OfScript(w), w.par.nodes[w.par.stack[1]].tag = Script, NEW a \in 0..i, NEW b \in 0..i
    PROVE  LET v == IF a < b THEN Ontext(w, a, b) ELSE w
           IN  /\ Shut(v) /\ Even(w, v) /\ Len(v.par.stack) = 1 /\ v.par.nodes[v.par.stack[1]].tag = Script
               /\ ChildrenOf(v, v.par.stack[1]) = {} \/ Cardinality(ChildrenOf(v, v.par.stack[1])) = 1
<1>. DEFINE id == w.par.stack[1]
            v == AddNode(w, "text", a, b)
<1>1. /\ World(w) /\ Calm(w) /\ w.par.panic = "no" /\ Tree(w) /\ w.par.openTag = None
      /\ i \in Nat /\ Size \in Nat /\ i < Size
      /\ Len(w.par.stack) = 1 /\ ChildrenOf(w, id) = {}
  BY InRawFacts DEF OfScript
<1>2. Top(w) = id /\ id \in DOMAIN w.par.nodes
  <2>1. w.par.stack # <<>> /\ DOMAIN w.par.stack = 1..1
    BY <1>1, NodesAre
  <2>. QED
    BY <1>1, <2>1, TopIs DEF Tree
<1>3. Shut(w) /\ Even(w, w)
  BY <1>1, EvenWorld DEF Shut
<1>4. a < b => Ontext(w, a, b) = AddText(w, a, b)
  BY <1>1 DEF Ontext, WithSlice
<1>5. AddText(w, a, b) = v
  BY <1>1, <1>2 DEF AddText
<1>6. Grown(w, v)
  BY <1>1, AddGrows
<1>. HIDE DEF v
<1>7. /\ Tree(v) /\ v.par.nodes[id] = w.par.nodes[id]
      /\ ChildrenOf(v, id) = {} \cup {Len(w.par.nodes) + 1}
  <2>1. /\ Tree(v) /\ \A j \in DOMAIN w.par.nodes : v.par.nodes[j] = w.par.nodes[j]
        /\ ChildrenOf(v, Top(w)) = ChildrenOf(w, Top(w)) \cup {Len(w.par.nodes) + 1}
    BY <1>1, <1>6, TreeGrown
  <2>. QED
    BY <1>1, <1>2, <2>1
<1>8. Shut(v) /\ Even(w, v)
  BY <1>1, <1>6, <1>7 DEF Shut, Grown, Even, Calm
<1>9. Cardinality(ChildrenOf(v, id)) = 1
  <2>1. Cardinality({Len(w.par.nodes) + 1}) = 1
    BY FS_Singleton
  <2>. QED
    BY <1>7, <2>1
<1>10. v.par.stack = w.par.stack
  BY <1>8 DEF Even
<1>. QED
  BY <1>1, <1>3, <1>4, <1>5, <1>7, <1>8, <1>9, <1>10

LEMMA LandsEndRCDATA ==
    ASSUME NEW w, NEW i, InRaw(w, i), SequenceDone(w), w.tok.sequenceIndex \in 0..i,
           CutScript(w) \/ StandsBefore(w, i), At(i) = ">" \/ IsWhitespace(At(i))
    PROVE  Reached(EndRCDATA(w, At(i)), i)
<1>. DEFINE e == EndOfText(w)
            texted == IF Start(w) < e THEN Ontext(w, Start(w), e) ELSE w
            opened == [texted EXCEPT !.tok.sectionStart = e + 2]
            named == Onclosetag(opened, e + 2, i)
            closed == StateInClosingTagName(opened, At(i))
<1>1. /\ IsText(source) /\ World(w) /\ Calm(w) /\ w.par.openTag = None /\ i \in Nat /\ Size \in Nat /\ i \in 0..(Size - 1)
      /\ Start(w) \in 0..i /\ w.tok.index = i /\ Here(w) = i /\ i < Size
  BY InRawFacts
<1>2. /\ e \in 0..i /\ e + 2 \in 0..i
  <2>1. /\ w.tok.sequenceIndex = Len(w.tok.currentSequence.text) /\ Len(w.tok.currentSequence.text) \in Nat
        /\ Len(w.tok.currentSequence.text) >= 2
    BY DEF SequenceDone, InRaw
  <2>2. e = i - w.tok.sequenceIndex /\ w.tok.sequenceIndex >= 2
    BY <1>1, <2>1 DEF EndOfText
  <2>. HIDE DEF e
  <2>. QED
    BY <1>1, <2>2
<1>. HIDE DEF e
<1>3. ASSUME NEW t, World(t), Rests(w, t)
      PROVE  LET o == [t EXCEPT !.tok.sectionStart = e + 2]
             IN  /\ World(o) /\ o.par = t.par /\ Start(o) = e + 2 /\ Here(o) = i
                 /\ o.tok.inRCDATA = w.tok.inRCDATA /\ o.tok.currentSequence = w.tok.currentSequence
                 /\ o.tok.sequenceIndex = w.tok.sequenceIndex /\ o.tok.index = i
                 /\ o.tok.inRCDATA = t.tok.inRCDATA /\ o.tok.currentSequence = t.tok.currentSequence
                 /\ o.tok.sequenceIndex = t.tok.sequenceIndex
  BY <1>1, <1>3 DEF World, TokFields, Rests, Start, Here
<1>4. World(texted) /\ Rests(w, texted) =>
          closed = StateAfterClosingTagName(GoAt(named, "AfterClosingTagName", -1), At(i))
  <2>. HIDE DEF texted
  <2>1. World(texted) /\ Rests(w, texted) => Start(opened) = e + 2 /\ Here(opened) = i
    BY <1>3
  <2>. HIDE DEF opened
  <2>. QED
    BY <2>1 DEF StateInClosingTagName
<1>5. EndRCDATA(w, At(i)) = [closed EXCEPT !.tok.inRCDATA = FALSE]
  BY DEF EndRCDATA, e
<1>6. ASSUME Left(closed, i) PROVE Reached(EndRCDATA(w, At(i)), i)
  <2>. HIDE DEF closed
  <2>. QED
    BY <1>5, <1>6, LeftRaw, LandsLeft
<1>. HIDE DEF closed
<1>7. CASE CutScript(w)
  <2>1. Poised(w, i)
    BY <1>7, InRawCore
  <2>2. Poised(texted, i) /\ Even(w, texted) /\ Rests(w, texted) /\ World(texted) /\ Core(texted)
    <3>1. Start(w) < e <=> e > Start(w)
      BY <1>1, <1>2
    <3>2. LET v == IF e > Start(w) THEN Ontext(w, Start(w), e) ELSE w IN Poised(v, i) /\ Even(w, v) /\ Rests(w, v)
      BY <1>1, <1>2, <2>1, AtText
    <3>3. texted = IF e > Start(w) THEN Ontext(w, Start(w), e) ELSE w
      BY <3>1
    <3>. HIDE DEF texted
    <3>4. Poised(texted, i) /\ Even(w, texted) /\ Rests(w, texted)
      BY <3>2, <3>3
    <3>. QED
      BY <3>4, AtFacts
  <2>. HIDE DEF texted
  <2>3. Poised(opened, i) /\ opened.par.openTag = None
    <3>1. /\ World(opened) /\ opened.par = texted.par /\ opened.tok.index = i
          /\ opened.tok.inRCDATA = texted.tok.inRCDATA /\ opened.tok.currentSequence = texted.tok.currentSequence
          /\ opened.tok.sequenceIndex = texted.tok.sequenceIndex
      BY <1>3, <2>2
    <3>. HIDE DEF opened
    <3>2. Core(opened)
      BY <2>2, <3>1, CoreTok
    <3>. QED
      BY <1>1, <2>2, <3>1, <3>2 DEF Poised, Ready, Even
  <2>. HIDE DEF opened
  <2>4. Left(StateAfterClosingTagName(GoAt(named, "AfterClosingTagName", -1), At(i)), i)
    BY <1>2, <2>3, ClosesName
  <2>. HIDE DEF named
  <2>. QED
    BY <1>4, <1>6, <2>2, <2>4
<1>8. CASE OfScript(w) /\ StandsBefore(w, i) /\ ~CutScript(w)
  <2>1. w.par.nodes[w.par.stack[1]].tag = Script
    BY <1>8 DEF CutScript, Bottom, OfScript
  <2>2. /\ Shut(texted) /\ Even(w, texted) /\ Len(texted.par.stack) = 1 /\ texted.par.nodes[texted.par.stack[1]].tag = Script
        /\ ChildrenOf(texted, texted.par.stack[1]) = {} \/ Cardinality(ChildrenOf(texted, texted.par.stack[1])) = 1
    BY <1>1, <1>2, <1>8, <2>1, TextsScript
  <2>. HIDE DEF texted
  <2>3. World(texted) /\ Rests(w, texted) /\ Calm(texted)
    BY <2>2 DEF Shut, Even, Rests
  <2>4. /\ World(opened) /\ opened.par = texted.par /\ opened.tok.index = i
        /\ opened.tok.inRCDATA = w.tok.inRCDATA /\ opened.tok.currentSequence = w.tok.currentSequence
        /\ opened.tok.sequenceIndex = w.tok.sequenceIndex
    BY <1>3, <2>3
  <2>. HIDE DEF opened
  <2>5. Shut(opened)
    BY <2>2, <2>4 DEF Shut, Calm, Tree, Bottom, ChildrenOf
  <2>6. e = i - 5 /\ i = (e + 2) + 3
    <3>1. e = i - Len(w.tok.currentSequence.text)
      BY <1>1 DEF e, EndOfText
    <3>2. Len(w.tok.currentSequence.text) = 5
      BY <1>8, ScriptEndIs DEF OfScript
    <3>. QED
      BY <1>1, <3>1, <3>2
  <2>7. \A k \in 1..3 : Lower(At((e + 2) + k - 1)) = Script[k]
    <3>1. /\ w.tok.sequenceIndex = 5
          /\ \A k \in 1..5 : Lower(At(i - 5 + k - 1)) = BlockEnd(Script).text[k]
      BY <1>8, ScriptEndIs DEF OfScript, SequenceDone, StandsBefore
    <3>2. \A k \in 1..3 : k + 2 \in 1..5 /\ i - 5 + (k + 2) - 1 = (e + 2) + k - 1
      BY <1>1, <2>6
    <3>3. \A k \in 1..3 : BlockEnd(Script).text[k + 2] = Script[k]
      <4>1. \A k \in 1..3 : k = 1 \/ k = 2 \/ k = 3
        OBVIOUS
      <4>2. BlockEnd(Script).text[1 + 2] = Script[1] /\ BlockEnd(Script).text[2 + 2] = Script[2] /\ BlockEnd(Script).text[3 + 2] = Script[3]
        BY ScriptEndIs, LowerIs DEF ScriptIs
      <4>. QED
        BY <4>1, <4>2
    <3>4. ASSUME NEW k \in 1..3 PROVE Lower(At((e + 2) + k - 1)) = Script[k]
      <4>1. Lower(At(i - 5 + (k + 2) - 1)) = BlockEnd(Script).text[k + 2]
        BY <3>1, <3>2
      <4>. QED
        BY <3>2, <3>3, <4>1
    <3>. QED
      BY <3>4
  <2>8. /\ Len(opened.par.stack) = 1 /\ opened.par.nodes[opened.par.stack[1]].tag = Script
        /\ ChildrenOf(opened, opened.par.stack[1]) = {} \/ Cardinality(ChildrenOf(opened, opened.par.stack[1])) = 1
    BY <2>2, <2>4 DEF ChildrenOf
  <2>9. Closed(opened, named) /\ named.par.stack = <<>>
    <3>1. e + 2 \in Nat /\ i <= Size
      BY <1>1, <1>2
    <3>. HIDE DEF named
    <3>. QED
      BY <1>1, <2>5, <2>6, <2>7, <2>8, <3>1, ShutsScript DEF named
  <2>. HIDE DEF named
  <2>10. Poised(named, i) /\ named.par.openTag = None
    <3>1. Shut(named) /\ Rests(opened, named)
      BY <2>9 DEF Closed
    <3>2. Core(named)
      BY <2>9, <3>1 DEF Shut, Core, CutScript, ScriptOpens
    <3>. QED
      BY <1>1, <2>4, <3>1, <3>2 DEF Poised, Ready, Rests, Shut, InRaw
  <2>11. Left(StateAfterClosingTagName(GoAt(named, "AfterClosingTagName", -1), At(i)), i)
    BY <2>10, LeavesName
  <2>. QED
    BY <1>4, <1>6, <2>3, <2>11
<1>. QED
  BY <1>7, <1>8 DEF InRaw

LEMMA LandsInRCDATA ==
    ASSUME NEW w, NEW i, InRaw(w, i), w.tok.sequenceIndex \in 0..i, CutScript(w) \/ StandsBefore(w, i)
    PROVE  Reached(StateInRCDATA(w, At(i)), i)
<1>. DEFINE n == w.tok.sequenceIndex
            x == IF Lower(At(i)) = Awaited(w) THEN n + 1 ELSE IF At(i) = "<" THEN 1 ELSE 0
            again == [w EXCEPT !.tok.sequenceIndex = 0]
            v == [w EXCEPT !.tok.sequenceIndex = x]
<1>1. /\ IsText(source) /\ World(w) /\ Calm(w) /\ w.par.openTag = None /\ i \in Nat /\ Size \in Nat /\ i \in 0..(Size - 1)
      /\ Start(w) \in 0..i /\ w.tok.index = i /\ n \in Nat /\ n <= i
      /\ Advance(i, i) \in Nat /\ i + 1 <= Advance(i, i) /\ Advance(i, i) <= Size
      /\ At(i) # "W" => Advance(i, i) = i + 1
  BY InRawFacts
<1>2. SequenceDone(w) /\ (At(i) = ">" \/ IsWhitespace(At(i))) => Reached(EndRCDATA(w, At(i)), i)
  BY LandsEndRCDATA
<1>3. Reached(FirstOfRCDATA(again, At(i)), i)
  <2>1. Kin(w, again) /\ again.tok.sequenceIndex = 0 /\ again.tok.index = i
    BY <1>1, KinSequence
  <2>. HIDE DEF again
  <2>2. InRaw(again, i)
    BY <2>1 DEF InRaw, Kin, Calm, Tree, CutScript, OfScript, Bottom, ChildrenOf, Start
  <2>3. Reached(FirstOfRCDATA(again, At(i)), i)
    BY <2>1, <2>2, LandsFirstOfRCDATA
  <2>. QED
    BY <2>3 DEF again
<1>4. n = 0 => Reached(FirstOfRCDATA(w, At(i)), i)
  BY LandsFirstOfRCDATA
<1>5. ~SequenceDone(w) => Reached(v, i)
  <2>. DEFINE k == Advance(i, i)
  <2>1. Kin(w, v) /\ v.tok.sequenceIndex = x /\ v.tok.index = i
    <3>. HIDE DEF x
    <3>. QED
      BY <1>1, KinSequence
  <2>2. x \in 0..k
    BY <1>1
  <2>3. ASSUME ~SequenceDone(w), ~CutScript(w) PROVE StandsBefore(v, k)
    <3>1. w.tok.currentSequence = BlockEnd(Script) /\ StandsBefore(w, i)
      BY <2>3 DEF InRaw, OfScript
    <3>2. n < Len(w.tok.currentSequence.text) /\ Len(w.tok.currentSequence.text) = 5
      BY <1>1, <2>3, <3>1, ScriptEndIs DEF StandsBefore, SequenceDone
    <3>3. v.tok.currentSequence = w.tok.currentSequence
      BY <2>1 DEF Kin
    <3>4. CASE Lower(At(i)) = Awaited(w)
      <4>1. Awaited(w) \in {"<", "/", "s", "c", "r"}
        <5>1. Awaited(w) = BlockEnd(Script).text[n + 1]
          BY <3>1 DEF Awaited
        <5>2. n + 1 \in 1..5
          BY <1>1, <3>2
        <5>3. \A m \in 1..5 : m = 1 \/ m = 2 \/ m = 3 \/ m = 4 \/ m = 5
          OBVIOUS
        <5>4. \A m \in 1..5 : BlockEnd(Script).text[m] \in {"<", "/", "s", "c", "r"}
          BY <5>3, ScriptEndIs
        <5>. HIDE DEF n
        <5>. QED
          BY <5>1, <5>2, <5>4
      <4>2. At(i) # "W"
        BY <3>4, <4>1 DEF Lower
      <4>3. k = i + 1
        BY <1>1, <4>2
      <4>4. x = n + 1 /\ Lower(At(i)) = w.tok.currentSequence.text[n + 1]
        BY <3>4 DEF Awaited
      <4>. HIDE DEF v, k, x
      <4>5. OneMore(w, v, i)
        BY <1>1, <2>1, <3>2, <3>3, <4>4 DEF OneMore
      <4>6. StandsBefore(v, i + 1)
        BY <1>1, <3>1, <4>5, StandsNext
      <4>. QED
        BY <4>3, <4>6
    <3>5. CASE Lower(At(i)) # Awaited(w) /\ At(i) = "<"
      <4>1. k = i + 1 /\ x = 1 /\ k - 1 = i /\ k \in Nat /\ k >= 1
        BY <1>1, <3>5
      <4>. HIDE DEF v, x, k
      <4>. QED
        BY <2>1, <3>1, <3>3, <3>5, <4>1, StandsFirst
    <3>6. CASE Lower(At(i)) # Awaited(w) /\ At(i) # "<"
      <4>1. x = 0 /\ k \in Nat
        BY <1>1, <3>6
      <4>. HIDE DEF v, x, k
      <4>. QED
        BY <2>1, <3>1, <3>3, <4>1, StandsFirst
    <3>. QED
      BY <3>4, <3>5, <3>6
  <2>. HIDE DEF v, x
  <2>. QED
    BY <1>1, <2>1, <2>2, <2>3, LandsKin
<1>6. StateInRCDATA(w, At(i)) =
        CASE SequenceDone(w) /\ (At(i) = ">" \/ IsWhitespace(At(i))) -> EndRCDATA(w, At(i))
          [] SequenceDone(w) /\ ~(At(i) = ">" \/ IsWhitespace(At(i))) -> FirstOfRCDATA(again, At(i))
          [] ~SequenceDone(w) /\ n = 0 -> FirstOfRCDATA(w, At(i))
          [] OTHER -> v
  BY DEF StateInRCDATA
<1>7. CASE SequenceDone(w) /\ (At(i) = ">" \/ IsWhitespace(At(i)))
  <2>. HIDE DEF again, v, n
  <2>. QED
    BY <1>2, <1>6, <1>7
<1>8. CASE SequenceDone(w) /\ ~(At(i) = ">" \/ IsWhitespace(At(i)))
  <2>. HIDE DEF again, v, n
  <2>. QED
    BY <1>3, <1>6, <1>8
<1>9. CASE ~SequenceDone(w) /\ n = 0
  <2>. HIDE DEF again, v, n
  <2>. QED
    BY <1>4, <1>6, <1>9
<1>10. CASE ~SequenceDone(w) /\ n # 0
  <2>. HIDE DEF again, v, n
  <2>. QED
    BY <1>5, <1>6, <1>10
<1>. QED
  BY <1>7, <1>8, <1>9, <1>10

(* The tokenizer in raw text. *)
LEMMA LandsRCDATA ==
    ASSUME NEW w, NEW i, Fine(w, i), IsText(source), i < Size, w.tok.index = i, w.tok.state = "InRCDATA"
    PROVE  Reached(StateInRCDATA(w, At(i)), i)
<1>1. Size \in Nat /\ i \in 0..Size
  BY DEF Fine, World, Spot
<1>2. i \in 0..(Size - 1) /\ i \in Nat
  BY <1>1
<1>3. w.par.openTag = None /\ Section(w, i) /\ Sequence(w, i)
  BY DEF Fine, Spot, TagStates
<1>4. Start(w) \in 0..i /\ w.tok.sequenceIndex \in 0..i
  BY <1>2, <1>3 DEF Section, NoSection, Sequence
<1>5. CutScript(w) \/ (OfScript(w) /\ StandsBefore(w, i))
  BY DEF Fine, RawScript, OfScript
<1>6. InRaw(w, i)
  BY <1>2, <1>3, <1>4, <1>5 DEF InRaw, Fine, Sequence
<1>. QED
  BY <1>4, <1>5, <1>6, LandsInRCDATA

LEMMA LandsInterpolationOpen ==
    ASSUME NEW w, NEW i, Reading(w, i), w.tok.state = "InterpolationOpen"
    PROVE  Reached(StateInterpolationOpen(w, At(i)), i)
<1>. DEFINE st == Start(w)
            u == IF i - 1 > st THEN Ontext(w, st, i - 1) ELSE w
            v == GoAt(u, "Interpolation", i - 1)
<1>1. /\ Poised(w, i) /\ w.par.openTag = None /\ i \in Nat /\ st \in Nat /\ st + 1 <= i /\ Here(w) = i
      /\ IsText(source) /\ World(w) /\ Core(w) /\ i \in 0..(Size - 1)
  BY ReadingFacts, AtFacts DEF TagStates, Section, NoSection
<1>2. st \in 0..i /\ i - 1 \in 0..i /\ (i - 1) + 2 = i + 1
  BY <1>1
<1>3. Reached(v, i)
  <2>1. Poised(u, i) /\ Even(w, u)
    BY <1>1, <1>2, AtText
  <2>. HIDE DEF u
  <2>2. Poised(v, i) /\ v.tok.state = "Interpolation" /\ Start(v) = i - 1 /\ v.par.openTag = None
    BY <1>1, <2>1, AtGoes DEF Even, Start
  <2>. HIDE DEF v
  <2>3. ASSUME NEW k \in After(i) PROVE Section(v, k) /\ Dir(v, k)
    <3>1. k \in Nat /\ i + 1 <= k
      BY <1>1, AfterIs
    <3>2. i - 1 \in 0..k /\ (i - 1) + 2 <= k
      BY <1>1, <1>2, <3>1
    <3>. QED
      BY <2>2, <3>2 DEF Section, Dir, DirStates
  <2>. QED
    BY <2>2, <2>3, Lands DEF Fits, TagStates, InnerNames
<1>4. w.tok.inRCDATA => Reached(StateInRCDATA(Go(w, "InRCDATA"), At(i)), i)
  <2>. DEFINE t == Go(w, "InRCDATA")
  <2>1. /\ Poised(t, i) /\ t.tok.state = "InRCDATA" /\ Start(t) = st /\ t.par.openTag = None
        /\ t.tok.inRCDATA = w.tok.inRCDATA
    BY <1>1, AtGoes DEF Start
  <2>. HIDE DEF t, st
  <2>2. w.tok.inRCDATA => InRaw(t, i) /\ CutScript(t)
    BY <1>1, <1>2, <2>1, AtFacts DEF InRaw, Core
  <2>3. t.tok.sequenceIndex \in 0..i
    BY <2>1, AtFacts
  <2>4. w.tok.inRCDATA => Reached(StateInRCDATA(t, At(i)), i)
    BY <2>2, <2>3, LandsInRCDATA
  <2>. QED
    BY <2>4 DEF t
<1>5. Reached(StateText(Go(w, "Text"), At(i)), i)
  <2>1. /\ Poised(Go(w, "Text"), i) /\ Go(w, "Text").tok.state = "Text" /\ Go(w, "Text").par.openTag = None
        /\ Go(w, "Text").tok.sectionStart \in 0..i
    BY <1>1, <1>2, AtGoes DEF Start
  <2>. QED
    BY <2>1, LandsInText
<1>. QED
  BY <1>1, <1>3, <1>4, <1>5 DEF StateInterpolationOpen

LEMMA LandsBeforeTagName ==
    ASSUME NEW w, NEW i, Reading(w, i), w.tok.state = "BeforeTagName"
    PROVE  Reached(StateBeforeTagName(w, At(i)), i)
<1>. DEFINE st == Start(w)
            v == GoAt(w, "BeforeDeclaration", i + 1)
<1>1. /\ Poised(w, i) /\ w.par.openTag = None /\ i \in Nat /\ st \in Nat /\ i = st + 1 /\ At(st) = "<" /\ Here(w) = i
  BY ReadingFacts DEF TagStates, Section, NoSection
<1>2. i \in 0..(i + 1) /\ i + 1 \in 0..(i + 1) /\ st \in 0..i /\ st \in 0..(i + 1)
  BY <1>1
<1>3. At(i) = "!" => Reached(v, i)
  <2>1. Poised(v, i) /\ v.tok.state = "BeforeDeclaration" /\ Start(v) = i + 1 /\ v.par.openTag = None
    BY <1>1, AtGoes DEF Start
  <2>. HIDE DEF v
  <2>2. ASSUME At(i) = "!", NEW k \in After(i) PROVE Section(v, k) /\ Dir(v, k)
    <3>1. k = i + 1 /\ k \in Nat
      BY <1>1, <2>2, AfterIs
    <3>2. i + 1 \in 0..k /\ i + 1 >= 2 /\ (i + 1) - 2 = st /\ (i + 1) - 1 = i
      BY <1>1, <3>1
    <3>3. At((i + 1) - 2) = "<" /\ At((i + 1) - 1) = "!"
      BY <1>1, <2>2, <3>2
    <3>. QED
      BY <2>1, <3>1, <3>2, <3>3 DEF Section, Dir, DirStates
  <2>. QED
    BY <2>1, <2>2, Lands DEF Fits, TagStates, InnerNames
<1>4. /\ Reached(GoAt(w, "InProcessingInstruction", i + 1), i)
      /\ Reached(GoAt(w, "InSFCRootTagName", i), i)
      /\ w.par.stack # <<>> => /\ Reached(GoAt(w, "InTagName", i), i)
                               /\ Reached(GoAt(w, "BeforeSpecialS", i), i)
                               /\ Reached(GoAt(w, "BeforeSpecialT", i), i)
  BY <1>1, <1>2, LandsAt DEF Careful, DirStates, TagStates, InnerNames
<1>5. Reached(Go(w, "BeforeClosingTagName"), i)
  BY <1>1, <1>2, LandsGo DEF Careful, DirStates, TagStates, InnerNames, Start
<1>6. Reached(StateText(Go(w, "Text"), At(i)), i)
  <2>1. /\ Poised(Go(w, "Text"), i) /\ Go(w, "Text").tok.state = "Text" /\ Go(w, "Text").par.openTag = None
        /\ Go(w, "Text").tok.sectionStart \in 0..i
    BY <1>1, <1>2, AtGoes DEF Start
  <2>. QED
    BY <2>1, LandsInText
<1>7. CASE At(i) = "!"
  BY <1>1, <1>3, <1>7 DEF StateBeforeTagName, Letters
<1>8. CASE At(i) \in Letters
  BY <1>1, <1>4, <1>8 DEF StateBeforeTagName, Letters, InSFCRoot
<1>. QED
  BY <1>1, <1>4, <1>5, <1>6, <1>7, <1>8 DEF StateBeforeTagName, Letters

-----------------------------------------------------------------------------
(* The end tag that a block awaits. *)

(* The characters of the first bytes. *)
ReadsRunes(of, tag) ==
    /\ Runes(tag) = of[Len(tag)] /\ of[0] = <<>>
    /\ \A j \in 1..Len(tag) : of[j] = IF tag[j] = "~" THEN of[j - 1] ELSE Append(of[j - 1], tag[j])

LEMMA RunesOf ==
    ASSUME NEW tag, Len(tag) \in Nat
    PROVE  \E of : ReadsRunes(of, tag)
<1>. DEFINE n == Len(tag)
            Extended(t, j) == IF tag[j] = "~" THEN t ELSE Append(t, tag[j])
            Builds(f, m) == f = [j \in 0..m |-> IF j = 0 THEN <<>> ELSE Extended(f[j - 1], j)]
            S == {m \in 0..n : \E f : Builds(f, m)}
<1>2. n \in Nat
  OBVIOUS
<1>3. ASSUME NEW m \in 0..n, \A j \in 0..(m - 1) : j \in S
      PROVE  m \in S
  <2>1. CASE m = 0
    <3>1. Builds([j \in 0..0 |-> <<>>], 0)
      <4>. HIDE DEF Extended
      <4>. QED
        OBVIOUS
    <3>. HIDE DEF Builds
    <3>. QED
      BY <2>1, <3>1
  <2>2. CASE m # 0
    <3>1. m - 1 \in S
      <4>1. m - 1 \in 0..(m - 1)
        BY <1>2, <2>2
      <4>. HIDE DEF S
      <4>. QED
        BY <1>3, <4>1
    <3>2. PICK g : Builds(g, m - 1)
      <4>. HIDE DEF Builds
      <4>. QED
        BY <3>1
    <3>. DEFINE h == [j \in 0..m |-> IF j = m THEN Extended(g[m - 1], m) ELSE g[j]]
    <3>3. ASSUME NEW j \in 0..m PROVE h[j] = IF j = 0 THEN <<>> ELSE Extended(h[j - 1], j)
      <4>. HIDE DEF Extended
      <4>1. CASE j = m
        <5>1. h[m - 1] = g[m - 1]
          BY <1>2, <2>2
        <5>. QED
          BY <2>2, <4>1, <5>1
      <4>2. CASE j # m
        <5>1. j \in 0..(m - 1) /\ h[j] = g[j]
          BY <1>2, <4>2
        <5>2. g[j] = IF j = 0 THEN <<>> ELSE Extended(g[j - 1], j)
          BY <3>2, <5>1
        <5>3. j # 0 => h[j - 1] = g[j - 1]
          BY <1>2, <5>1
        <5>. QED
          BY <5>1, <5>2, <5>3
      <4>. QED
        BY <4>1, <4>2
    <3>4. h = [j \in 0..m |-> h[j]]
      OBVIOUS
    <3>5. Builds(h, m)
      <4>. HIDE DEF h, Extended
      <4>. QED
        BY <3>3, <3>4
    <3>. HIDE DEF h, Builds
    <3>. QED
      BY <3>5
  <2>. QED
    BY <2>1, <2>2
<1>4. n \in S
  <2>1. \A m \in 0..n : (\A j \in 0..(m - 1) : j \in S) => m \in S
    BY <1>3
  <2>2. n \in 0..n
    BY <1>2
  <2>. HIDE DEF S
  <2>. QED
    BY <1>2, <2>1, <2>2, Induction
<1>. DEFINE of == CHOOSE f : f = [j \in 0..n |-> IF j = 0 THEN <<>> ELSE Extended(f[j - 1], j)]
<1>5. of = [j \in 0..n |-> IF j = 0 THEN <<>> ELSE Extended(of[j - 1], j)]
  <2>1. \E f : Builds(f, n)
    <3>. HIDE DEF Builds
    <3>. QED
      BY <1>4
  <2>2. Builds(of, n)
    <3>. HIDE DEF Extended
    <3>. QED
      BY <2>1
  <2>. HIDE DEF of
  <2>. QED
    BY <2>2
<1>6. Runes(tag) = of[n]
  BY DEF Runes
<1>. HIDE DEF of
<1>7. of[0] = <<>> /\ \A j \in 1..n : of[j] = Extended(of[j - 1], j)
  <2>. HIDE DEF Extended
  <2>. QED
    BY <1>5
<1>. QED
  BY <1>6, <1>7 DEF ReadsRunes

(* What a sequence of characters is whose first ones are given. *)
LEMMA ShortSeqs ==
    ASSUME NEW x, NEW y, NEW z
    PROVE  /\ Append(<<>>, x) = <<x>> /\ Append(<<x>>, y) = <<x, y>> /\ Append(<<x, y>>, z) = <<x, y, z>>
           /\ AnySeq(<<x, y>>) /\ Len(<<x, y>>) = 2 /\ AnySeq(<<x, y, z>>)
<1>. DEFINE S == {x, y, z}
<1>1. x \in S /\ y \in S /\ z \in S
  OBVIOUS
<1>. HIDE DEF S
<1>2. <<>> \in Seq(S) /\ <<x>> \in Seq(S)
  BY <1>1
<1>3. <<x, y>> \in Seq(S)
  BY <1>1
<1>4. Append(<<>>, x) = <<x>>
  BY <1>1, <1>2
<1>5. Append(<<x>>, y) = <<x, y>>
  <2>. DEFINE s == <<x>>
              t == <<x, y>>
              a == Append(s, y)
  <2>1. s \in Seq(S) /\ Len(s) = 1 /\ s[1] = x
    BY <1>2
  <2>2. t \in Seq(S) /\ Len(t) = 2 /\ t[1] = x /\ t[2] = y
    BY <1>3
  <2>. HIDE DEF s, t
  <2>3. a \in Seq(S) /\ Len(a) = 2 /\ a[1] = x /\ a[2] = y
    <3>1. /\ a \in Seq(S) /\ Len(a) = Len(s) + 1 /\ a[Len(s) + 1] = y
          /\ \A i \in 1..Len(s) : a[i] = s[i]
      <4>1. s \in Seq(S) /\ y \in S
        BY <1>1, <2>1
      <4>. QED
        BY <4>1, AppendProperties
    <3>. HIDE DEF a
    <3>2. a[1] = s[1]
      BY <2>1, <3>1
    <3>. QED
      BY <2>1, <3>1, <3>2
  <2>. HIDE DEF a
  <2>4. \A i \in 1..Len(a) : a[i] = t[i]
    BY <2>2, <2>3
  <2>5. a = t
    BY <2>2, <2>3, <2>4, SeqEqual
  <2>. QED
    BY <2>5 DEF a, s, t
<1>6. Append(<<x, y>>, z) = <<x, y, z>>
  <2>. DEFINE s == <<x, y>>
              t == <<x, y, z>>
              a == Append(s, z)
  <2>1. s \in Seq(S) /\ Len(s) = 2 /\ s[1] = x /\ s[2] = y
    BY <1>3
  <2>2. t \in Seq(S) /\ Len(t) = 3 /\ t[1] = x /\ t[2] = y /\ t[3] = z
    BY <1>1
  <2>. HIDE DEF s, t
  <2>3. a \in Seq(S) /\ Len(a) = 3 /\ a[1] = x /\ a[2] = y /\ a[3] = z
    <3>1. /\ a \in Seq(S) /\ Len(a) = Len(s) + 1 /\ a[Len(s) + 1] = z
          /\ \A i \in 1..Len(s) : a[i] = s[i]
      <4>1. s \in Seq(S) /\ z \in S
        BY <1>1, <2>1
      <4>. QED
        BY <4>1, AppendProperties
    <3>. HIDE DEF a
    <3>2. a[1] = s[1] /\ a[2] = s[2]
      BY <2>1, <3>1
    <3>. QED
      BY <2>1, <3>1, <3>2
  <2>. HIDE DEF a
  <2>4. \A i \in 1..Len(a) : a[i] = t[i]
    BY <2>2, <2>3
  <2>5. a = t
    BY <2>2, <2>3, <2>4, SeqEqual
  <2>. QED
    BY <2>5 DEF a, s, t
<1>7. <<x, y, z>> \in Seq(S)
  BY <1>1
<1>. QED
  BY <1>3, <1>4, <1>5, <1>6, <1>7 DEF AnySeq

LEMMA RunesIs ==
    /\ \A tag : AnySeq(tag) => AnySeq(Runes(tag))
    /\ Runes(Script) = Script
<1>1. ASSUME NEW tag, AnySeq(tag) PROVE AnySeq(Runes(tag))
  <2>1. Len(tag) \in Nat
    BY <1>1, SeqIs
  <2>2. PICK of : ReadsRunes(of, tag)
    BY <2>1, RunesOf
  <2>. DEFINE n == Len(tag)
              S == {j \in 0..n : AnySeq(of[j])}
  <2>3. ASSUME NEW m \in 0..n, \A j \in 0..(m - 1) : j \in S PROVE m \in S
    <3>1. CASE m = 0
      <4>1. AnySeq(<<>>)
        BY <1>1, SeqEnds
      <4>. QED
        BY <2>2, <3>1, <4>1 DEF ReadsRunes
    <3>2. CASE m # 0
      <4>1. m - 1 \in 0..(m - 1) /\ m \in 1..n
        BY <2>1, <3>2
      <4>2. AnySeq(of[m - 1])
        BY <2>3, <4>1
      <4>3. of[m] = IF tag[m] = "~" THEN of[m - 1] ELSE Append(of[m - 1], tag[m])
        BY <2>2, <4>1 DEF ReadsRunes
      <4>4. AnySeq(Append(of[m - 1], tag[m]))
        BY <4>2, SeqEnds
      <4>5. AnySeq(of[m])
        BY <4>2, <4>3, <4>4
      <4>. QED
        BY <4>5
    <3>. QED
      BY <3>1, <3>2
  <2>4. n \in S
    <3>1. \A m \in 0..n : (\A j \in 0..(m - 1) : j \in S) => m \in S
      BY <2>3
    <3>2. n \in 0..n
      BY <2>1
    <3>. HIDE DEF S
    <3>. QED
      BY <2>1, <3>1, <3>2, Induction
  <2>. QED
    BY <2>2, <2>4 DEF ReadsRunes
<1>2. Runes(Script) = Script
  <2>1. Len(Script) = 3 /\ Script[1] = "s" /\ Script[2] = "c" /\ Script[3] = "r"
    BY LowerIs DEF ScriptIs
  <2>2. PICK of : ReadsRunes(of, Script)
    BY <2>1, RunesOf
  <2>3. /\ Runes(Script) = of[3] /\ of[0] = <<>>
        /\ of[1] = Append(of[0], "s") /\ of[2] = Append(of[1], "c") /\ of[3] = Append(of[2], "r")
    <3>1. \A j \in 1..3 : of[j] = IF Script[j] = "~" THEN of[j - 1] ELSE Append(of[j - 1], Script[j])
      BY <2>1, <2>2 DEF ReadsRunes
    <3>2. 1 \in 1..3 /\ 2 \in 1..3 /\ 3 \in 1..3 /\ 1 - 1 = 0 /\ 2 - 1 = 1 /\ 3 - 1 = 2
      OBVIOUS
    <3>3. Runes(Script) = of[3] /\ of[0] = <<>>
      BY <2>1, <2>2 DEF ReadsRunes
    <3>4. of[1] = Append(of[0], "s")
      BY <2>1, <3>1, <3>2
    <3>5. of[2] = Append(of[1], "c")
      BY <2>1, <3>1, <3>2
    <3>6. of[3] = Append(of[2], "r")
      BY <2>1, <3>1, <3>2
    <3>. QED
      BY <3>3, <3>4, <3>5, <3>6
  <2>4. of[1] = <<"s">> /\ of[2] = <<"s", "c">> /\ of[3] = <<"s", "c", "r">>
    <3>1. of[1] = <<"s">>
      BY <2>3, ShortSeqs
    <3>2. of[2] = <<"s", "c">>
      BY <2>3, <3>1, ShortSeqs
    <3>. QED
      BY <2>3, <3>1, <3>2, ShortSeqs
  <2>. QED
    BY <2>3, <2>4 DEF Script
<1>. QED
  BY <1>1, <1>2

LEMMA BlockEndIs ==
    ASSUME NEW tag, AnySeq(tag)
    PROVE  Len(BlockEnd(tag).text) \in Nat /\ Len(BlockEnd(tag).text) >= 2
<1>1. PICK S : tag \in Seq(S)
  BY DEF AnySeq
<1>2. PICK T : <<"<", "/">> \in Seq(T)
  BY ShortSeqs DEF AnySeq
<1>3. tag \in Seq(S \cup T) /\ <<"<", "/">> \in Seq(S \cup T)
  BY <1>1, <1>2
<1>4. Len(<<"<", "/">> \o tag) = Len(<<"<", "/">>) + Len(tag)
  BY <1>3, ConcatProperties
<1>5. Len(tag) \in Nat /\ Len(<<"<", "/">>) = 2
  BY SeqIs, ShortSeqs
<1>. QED
  BY <1>4, <1>5 DEF BlockEnd

-----------------------------------------------------------------------------
(* Start tags. *)

LEMMA LandsAttrStart ==
    ASSUME NEW w, NEW i, Poised(w, i), w.par.openTag # None
    PROVE  Reached(HandleAttrStart(w, At(i)), i)
<1>. DEFINE u == Ondirname(w, i, i + 1)
            v == GoAt(u, "InDirArg", i + 1)
            d == GoAt(w, "InDirName", i)
<1>1. /\ IsText(source) /\ Core(w) /\ i \in Nat /\ i + 1 \in Nat /\ i <= i + 1 /\ i + 1 <= Size /\ Here(w) = i /\ Size \in Nat
      /\ i \in 0..(i + 1)
  BY AtFacts
<1>2. At(i) = "v" /\ Peek(w) = "-" => Reached(d, i)
  <2>1. Poised(d, i) /\ d.tok.state = "InDirName" /\ Start(d) = i /\ d.par.openTag # None
    BY AtGoes DEF Start
  <2>. HIDE DEF d
  <2>2. Peek(w) = "-" => At(i + 1) = "-"
    BY <1>1 DEF Peek
  <2>3. ASSUME At(i) = "v", Peek(w) = "-", NEW k \in After(i) PROVE Section(d, k) /\ Dir(d, k)
    BY <1>1, <2>1, <2>2, <2>3, AfterIs DEF Section, Dir, DirStates
  <2>. QED
    BY <2>1, <2>3, Lands DEF Fits, TagStates, InnerNames
<1>3. <<At(i)>> \in Shorthands => Reached(v, i)
  <2>1. SUFFICES ASSUME <<At(i)>> \in Shorthands PROVE Reached(v, i)
    OBVIOUS
  <2>2. Slice(i, i + 1) = <<At(i)>>
    <3>. DEFINE text == Slice(i, i + 1)
                c == At(i)
    <3>1. text \in Seq(STRING) /\ Len(text) = 1 /\ text[1] = c
      <4>1. /\ text \in Seq(STRING) /\ Len(text) = (i + 1) - i
            /\ \A k \in 1..((i + 1) - i) : text[k] = At(i + k - 1)
        BY <1>1, SliceIs
      <4>2. (i + 1) - i = 1 /\ i + 1 - 1 = i /\ 1 \in 1..1
        BY <1>1
      <4>. HIDE DEF text
      <4>. QED
        BY <4>1, <4>2
    <3>. HIDE DEF text, c
    <3>2. text = <<c>>
      BY <3>1
    <3>. QED
      BY <3>2 DEF text, c
  <2>3. Core(u) /\ Steady(w, u) /\ Property(u) /\ u.par.prop.pos = i
    BY <1>1, <2>1, <2>2, CoreDirname
  <2>. HIDE DEF u
  <2>4. Poised(u, i) /\ u.par.openTag # None
    BY <2>3, AtRests DEF Steady, Rests
  <2>5. Poised(v, i) /\ v.tok.state = "InDirArg" /\ Start(v) = i + 1 /\ v.par = u.par
    BY <2>4, AtGoes DEF Start
  <2>. HIDE DEF v
  <2>6. At(i) # "W"
    BY <2>1 DEF Shorthands
  <2>7. ASSUME NEW k \in After(i) PROVE Section(v, k) /\ Dir(v, k)
    <3>1. k = i + 1 /\ k \in Nat
      BY <1>1, <2>6, AfterIs
    <3>2. i + 1 \in 0..k /\ k # (i + 1) + 1 /\ i \in 0..k
      BY <1>1, <3>1
    <3>3. Property(v) /\ v.par.prop.pos = i
      BY <2>3, <2>5 DEF Property
    <3>. QED
      BY <2>5, <3>2, <3>3 DEF Section, Dir
  <2>. QED
    BY <2>4, <2>5, <2>7, Lands DEF Fits, TagStates, InnerNames
<1>4. Reached(GoAt(w, "InAttrName", i), i)
  BY <1>1, LandsAt DEF Careful, DirStates, TagStates, InnerNames
<1>. HIDE DEF u, v, d
<1>5. HandleAttrStart(w, At(i)) =
        CASE At(i) = "v" /\ Peek(w) = "-" -> d
          [] <<At(i)>> \in Shorthands -> v
          [] OTHER -> GoAt(w, "InAttrName", i)
  BY <1>1 DEF HandleAttrStart, d, v, u
<1>6. At(i) = "v" => <<At(i)>> \notin Shorthands
  BY DEF Shorthands
<1>. QED
  BY <1>2, <1>3, <1>4, <1>5, <1>6

LEMMA ShutCore == ASSUME NEW v, Shut(v), CutScript(v) PROVE Core(v)
BY DEF Shut, Core, ScriptOpens

(* A start tag's end: what follows is text, or a script's raw text.        *)
LEMMA EndsStartTag ==
    ASSUME NEW w, NEW i, Poised(w, i), w.par.openTag # None
    PROVE  LET u == Onopentagend(w, i)
           IN  /\ World(u) /\ Calm(u) /\ Tree(u) /\ u.par.openTag = None /\ Rests(w, u)
               /\ Poised(u, i) \/ (At(i) # "<" /\ Fresh(u))
<1>. DEFINE u == Onopentagend(w, i)
<1>1. Core(w) /\ i \in 0..(Size - 1)
  BY AtFacts
<1>2. CASE w.par.nodes[w.par.openTag].tag \in VoidTags
  <2>1. Core(u) /\ Rests(w, u) /\ u.par.openTag = None
    BY <1>1, <1>2, OpensVoid
  <2>. HIDE DEF u
  <2>2. Poised(u, i) /\ World(u) /\ Calm(u) /\ Tree(u)
    BY <2>1, AtRests DEF Core
  <2>. QED
    BY <2>1, <2>2 DEF u
<1>3. CASE w.par.nodes[w.par.openTag].tag \notin VoidTags
  <2>1. Shut(u) /\ Rests(w, u) /\ (CutScript(u) \/ (At(i) # "<" /\ Fresh(u)))
    BY <1>1, <1>3, OpensTagged
  <2>. HIDE DEF u
  <2>2. CutScript(u) => Poised(u, i)
    BY <2>1, ShutCore, AtRests
  <2>. QED
    BY <2>1, <2>2 DEF u, Shut
<1>. QED
  BY <1>2, <1>3

(* The raw text of a script begins. *)
LEMMA LandsFresh ==
    ASSUME NEW w, NEW i, Poised(w, i), NEW u, World(u), Calm(u), Tree(u), u.par.openTag = None,
           Rests(w, u), Fresh(u)
    PROVE  Reached(GoToText(u, i + 1), i)
<1>. DEFINE v == GoAt(u, "InRCDATA", i + 1)
            k == Advance(i, i)
<1>1. /\ IsText(source) /\ i \in Nat /\ Size \in Nat /\ i \in 0..(Size - 1) /\ w.tok.index = i
      /\ w.tok.inRCDATA => Len(w.tok.currentSequence.text) \in Nat /\ Len(w.tok.currentSequence.text) >= 2
  BY AtFacts
<1>2. k \in Nat /\ i + 1 <= k /\ k <= Size
  <2>1. k \in After(i)
    BY <1>1, AdvanceIs
  <2>. HIDE DEF k
  <2>. QED
    BY <1>1, <2>1, AfterIs
<1>3. /\ World(v) /\ v.par = u.par /\ v.tok.state = "InRCDATA" /\ v.tok.sectionStart = i + 1
      /\ v.tok.inRCDATA = u.tok.inRCDATA /\ v.tok.currentSequence = u.tok.currentSequence
      /\ v.tok.sequenceIndex = u.tok.sequenceIndex /\ v.tok.index = u.tok.index
  <2>1. World(v) /\ v.par = u.par
    BY Goes
  <2>. QED
    BY <2>1 DEF GoAt, World, TokFields
<1>4. GoToText(u, i + 1) = v
  BY DEF GoToText, Fresh
<1>. HIDE DEF v, k
<1>5. /\ v.tok.index = i /\ v.tok.inRCDATA /\ v.tok.sequenceIndex = 0
      /\ v.tok.currentSequence = BlockEnd(Script) /\ Start(v) = i + 1
      /\ Len(v.tok.currentSequence.text) \in Nat /\ Len(v.tok.currentSequence.text) >= 2
  BY <1>1, <1>3 DEF Rests, Fresh, Start
<1>6. Calm(v) /\ Tree(v) /\ ScriptOpens(v) /\ v.par.openTag = None
  BY <1>3 DEF Calm, Tree, ScriptOpens, Bottom, ChildrenOf
<1>7. RawScript(v, k)
  <2>1. StandsBefore(v, k)
    BY <1>2, <1>5, StandsFirst
  <2>. QED
    BY <1>3, <1>5, <2>1 DEF RawScript, Fresh, ChildrenOf
<1>8. Spot(v, k)
  <2>1. k \in 0..Size /\ i + 1 \in 0..k /\ 0 <= k
    BY <1>1, <1>2
  <2>2. Section(v, k) /\ Dir(v, k)
    BY <1>3, <1>5, <2>1 DEF Section, Dir, DirStates
  <2>3. Sequence(v, k)
    BY <1>3, <1>5, <2>1 DEF Sequence
  <2>. QED
    BY <1>3, <1>6, <2>1, <2>2, <2>3 DEF Spot, TagStates, InnerNames
<1>9. Fine(v, k)
  BY <1>3, <1>6, <1>7, <1>8 DEF Fine
<1>. QED
  BY <1>3, <1>4, <1>5, <1>6, <1>9 DEF Reached, Landed, k

LEMMA LandsAttrName ==
    ASSUME NEW w, NEW i, Poised(w, i), w.par.openTag # None, w.tok.state = "BeforeAttrName"
    PROVE  Reached(StateBeforeAttrName(w, At(i)), i)
<1>. DEFINE u == Onopentagend(w, i)
            v == GoAt(u, "BeforeTagName", i)
<1>1. Here(w) = i /\ i \in Nat /\ i \in 0..i /\ i + 1 \in 0..(i + 1)
  BY AtFacts
<1>2. /\ World(u) /\ Calm(u) /\ Tree(u) /\ u.par.openTag = None /\ Rests(w, u)
      /\ Poised(u, i) \/ (At(i) # "<" /\ Fresh(u))
  BY EndsStartTag
<1>. HIDE DEF u
<1>3. Reached(GoToText(u, i + 1), i)
  <2>1. CASE Poised(u, i)
    BY <1>1, <1>2, <2>1, LandsText
  <2>2. CASE Fresh(u)
    BY <1>2, <2>2, LandsFresh
  <2>. QED
    BY <1>2, <2>1, <2>2
<1>4. At(i) = "<" => Reached(v, i)
  <2>1. SUFFICES ASSUME At(i) = "<" PROVE Reached(v, i)
    OBVIOUS
  <2>2. Poised(u, i)
    BY <1>2, <2>1
  <2>3. Poised(v, i) /\ v.tok.state = "BeforeTagName" /\ Start(v) = i /\ v.par.openTag = None
    BY <1>2, <2>2, AtGoes DEF Start
  <2>. HIDE DEF v
  <2>4. ASSUME NEW k \in After(i) PROVE Section(v, k) /\ Dir(v, k)
    BY <1>1, <2>1, <2>3, AfterIs DEF Section, Dir, DirStates
  <2>. QED
    BY <2>3, <2>4, Lands DEF Fits, TagStates, InnerNames
<1>5. Reached(Go(w, "InSelfClosingTag"), i)
  BY LandsGo DEF Careful, DirStates, TagStates, InnerNames, NoSection
<1>6. Reached(w, i)
  BY LandsSimply DEF Careful, DirStates, TagStates, InnerNames, NoSection
<1>7. Reached(HandleAttrStart(w, At(i)), i)
  BY LandsAttrStart
<1>. HIDE DEF v
<1>8. StateBeforeAttrName(w, At(i)) =
        CASE At(i) = ">" -> GoToText(u, i + 1)
          [] At(i) = "/" -> Go(w, "InSelfClosingTag")
          [] At(i) = "<" /\ Peek(w) = "/" -> v
          [] IsWhitespace(At(i)) -> w
          [] OTHER -> HandleAttrStart(w, At(i))
  BY <1>1 DEF StateBeforeAttrName, u, v
<1>. QED
  BY <1>3, <1>4, <1>5, <1>6, <1>7, <1>8 DEF IsWhitespace

-----------------------------------------------------------------------------
(* The names of start tags. *)

LEMMA LandsTagName ==
    ASSUME NEW w, NEW i, Poised(w, i), w.par.openTag = None, w.tok.sectionStart \in 0..i,
           w.par.stack = <<>> /\ Slice(w.tok.sectionStart, i) = Script =>
               w.tok.inRCDATA /\ w.tok.currentSequence = BlockEnd(Script) /\ w.tok.sequenceIndex = 0
    PROVE  Reached(HandleTagName(w, At(i)), i)
<1>. DEFINE u == Onopentagname(w, w.tok.sectionStart, i)
            v == GoAt(u, "BeforeAttrName", -1)
<1>1. Core(w) /\ Here(w) = i /\ i \in Nat /\ i <= Size /\ w.tok.sectionStart \in Nat /\ w.tok.sectionStart <= i
  BY AtFacts
<1>2. Core(u) /\ u.tok = w.tok /\ u.par.openTag # None
  BY <1>1, CoreOpentagname
<1>. HIDE DEF u
<1>3. Poised(u, i)
  BY <1>2 DEF Poised, Ready
<1>4. Poised(v, i) /\ v.par.openTag # None /\ v.tok.state = "BeforeAttrName"
  BY <1>2, <1>3, AtGoes
<1>. HIDE DEF v
<1>5. Reached(StateBeforeAttrName(v, At(i)), i)
  BY <1>4, LandsAttrName
<1>. QED
  BY <1>1, <1>5 DEF HandleTagName, Start, u, v

LEMMA LandsInTagName ==
    ASSUME NEW w, NEW i, Poised(w, i), w.tok.state = "InTagName", w.par.openTag = None, w.par.stack # <<>>,
           w.tok.sectionStart \in 0..i
    PROVE  Reached(StateInTagName(w, At(i)), i)
<1>1. Reached(HandleTagName(w, At(i)), i)
  BY LandsTagName
<1>2. w.tok.sectionStart \in 0..(i + 1)
  BY AtFacts
<1>3. Reached(w, i)
  BY <1>2, LandsSimply DEF Careful, DirStates, TagStates, InnerNames
<1>. QED
  BY <1>1, <1>3 DEF StateInTagName

(* The tokenizer awaits an end tag from now on. *)
LEMMA Enters ==
    ASSUME NEW w, World(w), NEW sequence, NEW offset
    PROVE  LET v == EnterRCDATA(w, sequence, offset)
           IN  /\ World(v) /\ v.par = w.par /\ v.tok.state = w.tok.state /\ v.tok.sectionStart = w.tok.sectionStart
               /\ v.tok.index = w.tok.index /\ v.tok.inRCDATA /\ v.tok.currentSequence = sequence
               /\ v.tok.sequenceIndex = offset
BY DEF EnterRCDATA, World, TokFields

LEMMA LandsInSFCRootTagName ==
    ASSUME NEW w, NEW i, Reading(w, i), w.tok.state = "InSFCRootTagName"
    PROVE  Reached(StateInSFCRootTagName(w, At(i)), i)
<1>. DEFINE st == w.tok.sectionStart
            tag == Slice(st, i)
            v == EnterRCDATA(w, BlockEnd(Runes(tag)), 0)
<1>1. /\ Poised(w, i) /\ Core(w) /\ World(w) /\ IsText(source) /\ w.par.openTag = None /\ i \in Nat /\ i <= Size
      /\ Here(w) = i /\ Start(w) = st /\ st \in 0..i /\ st \in Nat /\ st <= i
  BY ReadingFacts DEF TagStates, NoSection, Start
<1>2. Reached(w, i)
  BY Stays
<1>3. tag = Template => Reached(HandleTagName(w, At(i)), i)
  <2>1. Template # Script
    <3>1. Template[1] = "t" /\ Script[1] = "s"
      BY DEF Template, Script
    <3>. QED
      BY <3>1
  <2>. QED
    BY <1>1, <2>1, LandsTagName
<1>4. Reached(HandleTagName(v, At(i)), i)
  <2>1. AnySeq(tag)
    BY <1>1, SliceIs DEF AnySeq
  <2>. HIDE DEF tag
  <2>2. Len(BlockEnd(Runes(tag)).text) \in Nat /\ Len(BlockEnd(Runes(tag)).text) >= 2
    BY <2>1, RunesIs, BlockEndIs
  <2>3. /\ World(v) /\ v.par = w.par /\ v.tok.sectionStart = st /\ v.tok.index = i /\ v.tok.inRCDATA
        /\ v.tok.currentSequence = BlockEnd(Runes(tag)) /\ v.tok.sequenceIndex = 0
    BY <1>1, Enters DEF Poised
  <2>. HIDE DEF v, st
  <2>4. Core(v)
    BY <1>1, <2>3, CoreTok
  <2>5. Poised(v, i)
    BY <1>1, <2>2, <2>3, <2>4 DEF Poised, Ready
  <2>6. tag = Script => v.tok.currentSequence = BlockEnd(Script)
    BY <2>3, RunesIs
  <2>. QED
    BY <1>1, <2>3, <2>5, <2>6, LandsTagName DEF tag
<1>. HIDE DEF v
<1>. QED
  BY <1>1, <1>2, <1>3, <1>4 DEF StateInSFCRootTagName, v

(* Names with an end tag of their own, inside another element.             *)
LEMMA LandsSpecial ==
    ASSUME IsText(source), NEW w, Core(w), w.par.openTag = None, w.par.stack # <<>>, NEW i \in 0..(Size - 1),
           NEW v, World(v), v.par = w.par, v.tok.state = "SpecialStartSequence", v.tok.sectionStart \in 0..i,
           v.tok.index = i, v.tok.sequenceIndex \in Nat,
           v.tok.inRCDATA => Len(v.tok.currentSequence.text) \in Nat /\ Len(v.tok.currentSequence.text) >= 2
    PROVE  Reached(v, i)
<1>. DEFINE k == Advance(i, i)
<1>1. i \in Nat /\ Size \in Nat
  BY DEF World
<1>2. k \in Nat /\ i + 1 <= k /\ k <= Size
  <2>1. k \in After(i)
    BY AdvanceIs
  <2>. HIDE DEF k
  <2>. QED
    BY <1>1, <2>1, AfterIs
<1>. HIDE DEF k
<1>3. Core(v)
  BY CoreTok
<1>4. v.tok.sectionStart \in 0..k /\ k \in 0..Size
  BY <1>1, <1>2
<1>5. Section(v, k) /\ Dir(v, k) /\ Sequence(v, k)
  BY <1>4 DEF Section, Dir, Sequence, DirStates, Start
<1>6. Fine(v, k)
  BY <1>3, <1>4, <1>5, CoreFine DEF Spot, TagStates, InnerNames
<1>. QED
  BY <1>3, <1>6, CoreIs DEF Reached, Landed, k

LEMMA LandsStartSpecial ==
    ASSUME NEW w, NEW i, Reading(w, i), w.tok.state \in {"BeforeSpecialS", "BeforeSpecialT"}, NEW sequence,
           Len(sequence.text) \in Nat, Len(sequence.text) >= 2
    PROVE  Reached(StartSpecial(w, sequence), i)
<1>. DEFINE u == EnterRCDATA(w, sequence, 4)
            v == Go(u, "SpecialStartSequence")
<1>1. /\ IsText(source) /\ Core(w) /\ World(w) /\ w.par.openTag = None /\ w.par.stack # <<>>
      /\ i \in 0..(Size - 1) /\ w.tok.index = i /\ w.tok.sectionStart \in 0..i
  BY ReadingFacts, AtFacts DEF TagStates, InnerNames, NoSection
<1>2. /\ World(u) /\ u.par = w.par /\ u.tok.sectionStart = w.tok.sectionStart /\ u.tok.index = i
      /\ u.tok.currentSequence = sequence /\ u.tok.sequenceIndex = 4
  BY <1>1, Enters
<1>. HIDE DEF u
<1>3. /\ World(v) /\ v.par = w.par /\ v.tok.state = "SpecialStartSequence" /\ v.tok.sectionStart \in 0..i
      /\ v.tok.index = i /\ v.tok.sequenceIndex \in Nat /\ v.tok.currentSequence = sequence
  <2>1. World(v) /\ v.par = u.par
    BY <1>2, Goes
  <2>. QED
    BY <1>1, <1>2, <2>1 DEF Go, World, TokFields
<1>. HIDE DEF v
<1>4. Reached(v, i)
  BY <1>1, <1>3, LandsSpecial
<1>. QED
  BY <1>4 DEF v, u, StartSpecial

LEMMA EndTagsAre ==
    \A sequence \in {ScriptEnd, StyleEnd, TitleEnd, TextareaEnd} :
        Len(sequence.text) \in Nat /\ Len(sequence.text) >= 2
<1>1. Len(ScriptEnd.text) = 5 /\ Len(StyleEnd.text) = 5 /\ Len(TitleEnd.text) = 5 /\ Len(TextareaEnd.text) = 5
  BY DEF ScriptEnd, StyleEnd, TitleEnd, TextareaEnd
<1>. QED
  BY <1>1

LEMMA LandsBeforeSpecial ==
    ASSUME NEW w, NEW i, Reading(w, i)
    PROVE  /\ w.tok.state = "BeforeSpecialS" => Reached(StateBeforeSpecialS(w, At(i)), i)
           /\ w.tok.state = "BeforeSpecialT" => Reached(StateBeforeSpecialT(w, At(i)), i)
<1>. SUFFICES ASSUME w.tok.state \in {"BeforeSpecialS", "BeforeSpecialT"}
              PROVE  Reached(StateBeforeSpecialS(w, At(i)), i) /\ Reached(StateBeforeSpecialT(w, At(i)), i)
  OBVIOUS
<1>. DEFINE v == Go(w, "InTagName")
<1>1. \A sequence \in {ScriptEnd, StyleEnd, TitleEnd, TextareaEnd} : Reached(StartSpecial(w, sequence), i)
  BY EndTagsAre, LandsStartSpecial
<1>2. Poised(w, i) /\ w.par.openTag = None /\ w.par.stack # <<>> /\ w.tok.sectionStart \in 0..i
  BY ReadingFacts DEF TagStates, InnerNames, NoSection
<1>3. Reached(StateInTagName(v, At(i)), i)
  <2>1. /\ Poised(v, i) /\ v.tok.state = "InTagName" /\ v.par.openTag = None /\ v.par.stack # <<>>
        /\ v.tok.sectionStart \in 0..i
    BY <1>2, AtGoes
  <2>. HIDE DEF v
  <2>. QED
    BY <2>1, LandsInTagName
<1>. HIDE DEF v
<1>. QED
  BY <1>1, <1>3 DEF StateBeforeSpecialS, StateBeforeSpecialT, v

LEMMA LandsSpecialStartSequence ==
    ASSUME NEW w, NEW i, Fine(w, i), IsText(source), i < Size, w.tok.index = i,
           w.tok.state = "SpecialStartSequence"
    PROVE  Reached(StateSpecialStartSequence(w, At(i)), i)
<1>. DEFINE more == [w EXCEPT !.tok.sequenceIndex = @ + 1]
            u(b) == [w EXCEPT !.tok.inRCDATA = @ /\ b, !.tok.sequenceIndex = 0, !.tok.state = "InTagName"]
<1>1. /\ Core(w) /\ World(w) /\ w.par.openTag = None /\ w.par.stack # <<>> /\ Size \in Nat
      /\ i \in 0..(Size - 1) /\ w.tok.sectionStart \in 0..i /\ w.tok.sequenceIndex \in Nat
      /\ w.tok.inRCDATA => Len(w.tok.currentSequence.text) \in Nat /\ Len(w.tok.currentSequence.text) >= 2
  <2>1. Core(w) /\ World(w) /\ Size \in Nat
    BY FineIs, CoreIs DEF World
  <2>. QED
    BY <2>1 DEF Fine, Spot, Section, Sequence, TagStates, InnerNames, NoSection, Start
<1>2. Reached(more, i)
  <2>1. /\ World(more) /\ more.par = w.par /\ more.tok.state = w.tok.state
        /\ more.tok.sectionStart = w.tok.sectionStart /\ more.tok.index = i
        /\ more.tok.sequenceIndex = w.tok.sequenceIndex + 1 /\ more.tok.inRCDATA = w.tok.inRCDATA
        /\ more.tok.currentSequence = w.tok.currentSequence
    BY <1>1 DEF World, TokFields
  <2>. HIDE DEF more
  <2>2. more.tok.sequenceIndex \in Nat
    BY <1>1, <2>1
  <2>. QED
    BY <1>1, <2>1, <2>2, LandsSpecial
<1>3. ASSUME NEW b PROVE Reached(StateInTagName(u(b), At(i)), i)
  <2>. DEFINE v == u(b)
  <2>1. /\ World(v) /\ v.par = w.par /\ v.tok.state = "InTagName"
        /\ v.tok.sectionStart = w.tok.sectionStart /\ v.tok.index = i
        /\ v.tok.sequenceIndex = 0 /\ (v.tok.inRCDATA => w.tok.inRCDATA)
        /\ v.tok.currentSequence = w.tok.currentSequence
    BY <1>1 DEF World, TokFields
  <2>. HIDE DEF v
  <2>2. Core(v)
    BY <1>1, <2>1, CoreTok
  <2>3. 0 \in 0..i
    BY <1>1
  <2>4. Poised(v, i)
    BY <1>1, <2>1, <2>2, <2>3 DEF Poised, Ready
  <2>5. Reached(StateInTagName(v, At(i)), i)
    BY <1>1, <2>1, <2>4, LandsInTagName
  <2>. QED
    BY <2>5 DEF v
<1>. HIDE DEF more
<1>. QED
  BY <1>2, <1>3 DEF StateSpecialStartSequence, more

LEMMA LandsInSelfClosingTag ==
    ASSUME NEW w, NEW i, Reading(w, i), w.tok.state = "InSelfClosingTag"
    PROVE  Reached(StateInSelfClosingTag(w, At(i)), i)
<1>. DEFINE u == Onselfclosingtag(w, i)
            t == GoAt(u, "Text", i + 1)
            v == [t EXCEPT !.tok.inRCDATA = FALSE]
            g == Go(w, "BeforeAttrName")
<1>1. Poised(w, i) /\ Core(w) /\ w.par.openTag # None /\ i \in Nat /\ i \in 0..(Size - 1) /\ Here(w) = i
  BY ReadingFacts, AtFacts DEF TagStates
<1>2. Core(u) /\ Rests(w, u) /\ u.par.openTag = None
  BY <1>1, ShutsItself
<1>. HIDE DEF u
<1>3. Poised(t, i) /\ t.tok.state = "Text" /\ t.tok.sectionStart = i + 1 /\ t.par.openTag = None
  BY <1>1, <1>2, AtRests, AtGoes
<1>. HIDE DEF t
<1>4. World(t)
  BY <1>3, AtFacts
<1>5. /\ World(v) /\ v.par = t.par /\ v.tok.state = "Text" /\ v.tok.sectionStart = i + 1 /\ v.tok.index = t.tok.index
      /\ v.tok.sequenceIndex = t.tok.sequenceIndex /\ ~v.tok.inRCDATA
  BY <1>3, <1>4 DEF World, TokFields
<1>. HIDE DEF v
<1>6. Core(v)
  BY <1>3, <1>5, AtFacts, CoreTok
<1>7. Poised(v, i)
  BY <1>3, <1>5, <1>6 DEF Poised, Ready
<1>8. Reached(v, i)
  BY <1>1, <1>3, <1>5, <1>7, LandsSimply DEF Careful, DirStates, TagStates, InnerNames
<1>9. Reached(w, i)
  BY Stays
<1>10. Reached(StateBeforeAttrName(g, At(i)), i)
  <2>1. Poised(g, i) /\ g.par.openTag # None /\ g.tok.state = "BeforeAttrName"
    BY <1>1, AtGoes
  <2>. HIDE DEF g
  <2>. QED
    BY <2>1, LandsAttrName
<1>. HIDE DEF g
<1>. QED
  BY <1>1, <1>8, <1>9, <1>10 DEF StateInSelfClosingTag, v, t, u, g

-----------------------------------------------------------------------------
(* Attributes. *)

LEMMA AtAttribend ==
    ASSUME NEW w, NEW i, Poised(w, i), NEW quote, NEW end
    PROVE  LET v == Onattribend(w, quote, end)
           IN  Poised(v, i) /\ v.par.openTag = w.par.openTag
<1>. DEFINE v == Onattribend(w, quote, end)
            e == EnterRCDATA(w, BlockEnd(Template), 0)
<1>1. Core(w) /\ World(w) /\ i \in Nat
  BY AtFacts
<1>2. Core(v) /\ v.par.openTag = w.par.openTag /\ (v.tok = w.tok \/ v.tok = e.tok)
  BY <1>1, CoreAttribend
<1>. HIDE DEF v
<1>3. e.tok.index = w.tok.index /\ e.tok.sequenceIndex = 0 /\ e.tok.currentSequence = BlockEnd(Template)
  BY <1>1, Enters
<1>4. Len(BlockEnd(Template).text) \in Nat /\ Len(BlockEnd(Template).text) >= 2
  <2>1. AnySeq(Template)
    BY ShortSeqs DEF Template
  <2>. QED
    BY <2>1, BlockEndIs
<1>. HIDE DEF e
<1>5. CASE v.tok = w.tok
  BY <1>2, <1>5 DEF Poised, Ready, v
<1>6. CASE v.tok = e.tok
  BY <1>1, <1>2, <1>3, <1>4, <1>6 DEF Poised, Ready, v
<1>. QED
  BY <1>2, <1>5, <1>6 DEF v

LEMMA LandsAfterAttrName ==
    ASSUME NEW w, NEW i, Poised(w, i), w.tok.state = "AfterAttrName", w.par.openTag # None,
           w.tok.sectionStart \in 0..i
    PROVE  Reached(StateAfterAttrName(w, At(i)), i)
<1>. DEFINE u == Onattribend(w, "novalue", Start(w))
            v == GoAt(u, "BeforeAttrName", -1)
<1>1. i \in Nat /\ w.tok.sectionStart \in 0..(i + 1)
  BY AtFacts
<1>2. Reached(Go(w, "BeforeAttrValue"), i)
  BY <1>1, LandsGo DEF Careful, DirStates, TagStates, InnerNames
<1>3. Poised(u, i) /\ u.par.openTag # None
  BY AtAttribend
<1>. HIDE DEF u
<1>4. Poised(v, i) /\ v.par.openTag # None /\ v.tok.state = "BeforeAttrName"
  BY <1>3, AtGoes
<1>. HIDE DEF v
<1>5. Reached(StateBeforeAttrName(v, At(i)), i)
  BY <1>4, LandsAttrName
<1>6. Reached(w, i)
  BY <1>1, LandsSimply DEF Careful, DirStates, TagStates, InnerNames
<1>7. Reached(HandleAttrStart(u, At(i)), i)
  BY <1>3, LandsAttrStart
<1>. QED
  BY <1>2, <1>5, <1>6, <1>7 DEF StateAfterAttrName, IsWhitespace, u, v

LEMMA LandsAttrNameEnd ==
    ASSUME NEW w, NEW i, Poised(w, i), w.par.openTag # None, w.par.prop.pos \in 0..i
    PROVE  Reached(HandleAttrNameEnd(w, At(i)), i)
<1>. DEFINE v == GoAt(w, "AfterAttrName", i)
<1>1. Here(w) = i /\ i \in Nat /\ i <= Size /\ i \in 0..i
  BY AtFacts
<1>2. Poised(v, i) /\ v.tok.state = "AfterAttrName" /\ v.tok.sectionStart = i /\ v.par = w.par
  BY AtGoes
<1>. HIDE DEF v
<1>3. Onattribnameend(v, i) = v
  BY <1>1, <1>2, AtFacts, CoreAttribnameend
<1>4. Reached(StateAfterAttrName(v, At(i)), i)
  BY <1>1, <1>2, LandsAfterAttrName
<1>. QED
  BY <1>1, <1>3, <1>4 DEF HandleAttrNameEnd, v

(* After a panic the callbacks change nothing. *)
Stuck(w, v) == World(v) /\ v.par = w.par

LEMMA StuckGoes ==
    ASSUME NEW w, World(w), NEW q, NEW s
    PROVE  Stuck(w, GoAt(w, q, s)) /\ Stuck(w, Go(w, q)) /\ Stuck(w, GoToText(w, s)) /\ Stuck(w, w)
BY Goes DEF Stuck, GoToText

LEMMA StuckThen ==
    ASSUME NEW u, NEW w, NEW v, Stuck(u, w), Stuck(w, v) PROVE Stuck(u, v)
BY DEF Stuck

LEMMA StuckAttrStart ==
    ASSUME NEW w, World(w), ~Calm(w), NEW c PROVE Stuck(w, HandleAttrStart(w, c))
<1>1. Ondirname(w, Here(w), Here(w) + 1) = w
  BY DEF Ondirname, WithSlice, Calm
<1>. QED
  BY <1>1, StuckGoes DEF HandleAttrStart

LEMMA StuckAttrName ==
    ASSUME NEW w, World(w), ~Calm(w), NEW c PROVE Stuck(w, StateBeforeAttrName(w, c))
<1>1. Onopentagend(w, Here(w)) = w
  BY DEF Onopentagend, Calm
<1>. QED
  BY <1>1, StuckGoes, StuckAttrStart DEF StateBeforeAttrName, IsWhitespace

LEMMA StuckAttrNameEnd ==
    ASSUME NEW w, World(w), ~Calm(w), NEW c PROVE Stuck(w, HandleAttrNameEnd(w, c))
<1>. DEFINE u == GoAt(w, "AfterAttrName", Here(w))
            v == GoAt(u, "BeforeAttrName", -1)
<1>1. Stuck(w, u)
  BY StuckGoes
<1>2. World(u) /\ ~Calm(u)
  BY <1>1 DEF Stuck, Calm
<1>. HIDE DEF u
<1>3. Onattribnameend(u, Here(w)) = u /\ \A x : Onattribend(u, "novalue", x) = u
  BY <1>2 DEF Onattribnameend, WithSlice, Onattribend, Calm
<1>4. Stuck(u, v)
  BY <1>2, StuckGoes
<1>. HIDE DEF v
<1>5. Stuck(u, StateBeforeAttrName(v, c))
  BY <1>2, <1>4, StuckAttrName, StuckThen DEF Stuck, Calm
<1>6. Stuck(u, HandleAttrStart(u, c)) /\ Stuck(u, Go(u, "BeforeAttrValue")) /\ Stuck(u, u)
  BY <1>2, StuckAttrStart, StuckGoes
<1>7. Stuck(u, StateAfterAttrName(u, c))
  BY <1>3, <1>5, <1>6 DEF StateAfterAttrName, IsWhitespace, v
<1>. QED
  BY <1>1, <1>3, <1>7, StuckThen DEF HandleAttrNameEnd, u

LEMMA LandsInAttrName ==
    ASSUME NEW w, NEW i, Reading(w, i), w.tok.state = "InAttrName"
    PROVE  Reached(StateInAttrName(w, At(i)), i)
<1>. DEFINE st == w.tok.sectionStart
            v == Onattribname(w, st, i)
<1>1. /\ Poised(w, i) /\ Core(w) /\ w.par.openTag # None /\ i \in Nat /\ i <= Size /\ Here(w) = i
      /\ st \in 0..i /\ st \in Nat /\ st <= i
  BY ReadingFacts DEF TagStates, NoSection
<1>2. Reached(w, i)
  BY Stays
<1>3. Core(v) /\ Even(w, v) /\ v.par.prop.pos = st
  BY <1>1, CoreAttribname
<1>. HIDE DEF v
<1>4. Poised(v, i) /\ v.par.openTag # None
  BY <1>1, <1>3, AtEven
<1>5. Reached(HandleAttrNameEnd(v, At(i)), i)
  BY <1>1, <1>3, <1>4, LandsAttrNameEnd
<1>. QED
  BY <1>1, <1>2, <1>5 DEF StateInAttrName, Start, v

-----------------------------------------------------------------------------
(* Directives. *)

(* A part of a directive was read, or no directive was found. *)
PartRead(w, v) ==
    \/ v = Panic(w, "AsDirective") /\ w.par.prop.name = <<"v", "-">>
    \/ Core(v) /\ Rests(w, v) /\ v.par.openTag = w.par.openTag /\ Property(v)
       /\ v.par.prop.pos \in 0..w.tok.index

LEMMA LandsPart ==
    ASSUME NEW w, NEW i, Poised(w, i), w.par.openTag # None, NEW v, PartRead(w, v)
    PROVE  /\ Reached(HandleAttrNameEnd(v, At(i)), i)
           /\ At(i) = "." => Reached(GoAt(v, "InDirModifier", i + 1), i)
           /\ At(i) = ":" => Reached(GoAt(v, "InDirArg", i + 1), i)
<1>1. World(w) /\ w.par.panic = "no" /\ w.tok.index = i /\ i \in Nat
  BY AtFacts
<1>2. CASE v = Panic(w, "AsDirective") /\ w.par.prop.name = <<"v", "-">>
  <2>1. World(v) /\ ~Calm(v)
    BY <1>1, <1>2, LikePanic DEF Like
  <2>2. v.par.panic = "AsDirective" /\ v.par.prop.name = <<"v", "-">>
    BY <1>1, <1>2 DEF Panic, World, ParFields
  <2>3. ASSUME NEW t, Stuck(v, t) PROVE Reached(t, i)
    BY <2>2, <2>3, Fails DEF Stuck
  <2>4. /\ Stuck(v, HandleAttrNameEnd(v, At(i)))
        /\ Stuck(v, GoAt(v, "InDirModifier", i + 1)) /\ Stuck(v, GoAt(v, "InDirArg", i + 1))
    BY <2>1, StuckAttrNameEnd, StuckGoes
  <2>. QED
    BY <2>3, <2>4
<1>3. CASE /\ Core(v) /\ Rests(w, v) /\ v.par.openTag = w.par.openTag /\ Property(v)
           /\ v.par.prop.pos \in 0..w.tok.index
  <2>1. Poised(v, i) /\ v.par.openTag # None /\ v.par.prop.pos \in 0..i
    BY <1>1, <1>3, AtRests
  <2>2. ASSUME NEW q \in {"InDirModifier", "InDirArg"}, At(i) # "W" PROVE Reached(GoAt(v, q, i + 1), i)
    <3>. DEFINE t == GoAt(v, q, i + 1)
    <3>1. Poised(t, i) /\ t.tok.state = q /\ t.tok.sectionStart = i + 1 /\ t.par = v.par
      BY <2>1, AtGoes
    <3>. HIDE DEF t
    <3>2. ASSUME NEW k \in After(i) PROVE Section(t, k) /\ Dir(t, k)
      <4>1. k = i + 1 /\ k \in Nat
        BY <1>1, <2>2, AfterIs
      <4>2. i + 1 \in 0..k /\ k # (i + 1) + 1 /\ t.par.prop.pos \in 0..k
        BY <1>1, <2>1, <3>1, <4>1
      <4>3. Property(t)
        BY <1>3, <3>1 DEF Property
      <4>. QED
        BY <2>2, <3>1, <4>2, <4>3 DEF Section, Dir, Start
    <3>3. Reached(t, i)
      BY <2>1, <2>2, <3>1, <3>2, Lands DEF Fits, TagStates, InnerNames
    <3>. QED
      BY <3>3 DEF t
  <2>. QED
    BY <2>1, <2>2, LandsAttrNameEnd
<1>. QED
  BY <1>2, <1>3 DEF PartRead

LEMMA RestsEven == ASSUME NEW w, NEW v, Even(w, v) PROVE Rests(w, v) /\ v.par.openTag = w.par.openTag
BY DEF Even, Rests

(* Two characters. *)
LEMMA TwoAre ==
    ASSUME NEW text \in Seq(STRING), Len(text) = 2, NEW x, text[1] = x, NEW y, text[2] = y
    PROVE  text = <<x, y>>
<1>. DEFINE S == STRING \cup {x, y}
            pair == <<x, y>>
<1>1. text \in Seq(S)
  OBVIOUS
<1>2. x \in S /\ y \in S
  OBVIOUS
<1>. HIDE DEF S
<1>3. pair \in Seq(S) /\ Len(pair) = 2 /\ pair[1] = x /\ pair[2] = y
  BY <1>2
<1>. HIDE DEF pair
<1>4. \A k \in 1..Len(text) : text[k] = pair[k]
  BY <1>3
<1>5. text = pair
  BY <1>1, <1>3, <1>4, SeqEqual
<1>. QED
  BY <1>5 DEF pair

(* The name of a directive without one. *)
LEMMA BareIs ==
    ASSUME NEW text \in Seq(STRING), Len(text) >= 2, text[1] = "v", text[2] = "-"
    PROVE  SubSeq(text, 3, Len(text)) = <<>> => text = <<"v", "-">>
<1>. DEFINE n == Len(text)
            rest == SubSeq(text, 3, n)
<1>1. n \in Nat /\ \A k \in 3..n : text[k] \in STRING
  OBVIOUS
<1>2. Len(rest) = IF 3 <= n THEN n - 3 + 1 ELSE 0
  BY <1>1, SubSeqProperties
<1>3. Len(<<>>) = 0
  OBVIOUS
<1>4. n \in Nat /\ n >= 2
  BY <1>1
<1>. HIDE DEF rest, n
<1>5. rest = <<>> => Len(rest) = 0
  BY <1>3
<1>6. Len(rest) = 0 => n = 2
  BY <1>2, <1>4
<1>. QED
  BY <1>5, <1>6, TwoAre DEF rest, n

LEMMA LandsInDirName ==
    ASSUME NEW w, NEW i, Reading(w, i), w.tok.state = "InDirName"
    PROVE  Reached(StateInDirName(w, At(i)), i)
<1>. DEFINE st == w.tok.sectionStart
            text == Slice(st, i)
            v == Ondirname(w, st, i)
<1>1. /\ Poised(w, i) /\ Core(w) /\ IsText(source) /\ w.par.openTag # None /\ i \in Nat /\ i <= Size /\ Here(w) = i
      /\ st \in Nat /\ st + 1 <= i /\ At(st) = "v" /\ At(st + 1) = "-" /\ w.tok.index = i
  BY ReadingFacts DEF TagStates, Section, NoSection, Start
<1>2. Reached(w, i)
  BY Stays
<1>3. CASE i = st + 1
  BY <1>1, <1>2, <1>3 DEF StateInDirName, AttrNameEnds, IsEndOfTagSection, IsWhitespace
<1>4. CASE i >= st + 2
  <2>1. text \in Seq(STRING) /\ Len(text) = i - st /\ text[1] = "v" /\ text[2] = "-"
    <3>1. /\ text \in Seq(STRING) /\ Len(text) = i - st
          /\ \A k \in 1..(i - st) : text[k] = At(st + k - 1)
      <4>1. st <= i
        BY <1>1
      <4>. HIDE DEF st
      <4>. QED
        BY <1>1, <4>1, SliceIs
    <3>2. 1 \in 1..(i - st) /\ 2 \in 1..(i - st) /\ st + 1 - 1 = st /\ st + 2 - 1 = st + 1
      BY <1>1, <1>4
    <3>. HIDE DEF text, st
    <3>. QED
      BY <1>1, <3>1, <3>2
  <2>2. SubSeq(text, 3, Len(text)) = <<>> => text = <<"v", "-">>
    <3>. HIDE DEF text, st
    <3>1. Len(text) \in Nat /\ Len(text) >= 2
      BY <1>1, <1>4, <2>1
    <3>. QED
      BY <2>1, <3>1, BareIs
  <2>3. Core(v) /\ Steady(w, v) /\ Property(v) /\ v.par.prop.pos = st
    BY <1>1, <2>2, CoreDirname
  <2>. HIDE DEF v
  <2>4. PartRead(w, v)
    BY <1>1, <2>3 DEF PartRead, Steady, Rests
  <2>5. /\ Reached(HandleAttrNameEnd(v, At(i)), i)
        /\ At(i) = "." => Reached(GoAt(v, "InDirModifier", i + 1), i)
        /\ At(i) = ":" => Reached(GoAt(v, "InDirArg", i + 1), i)
    BY <1>1, <2>4, LandsPart
  <2>. QED
    BY <1>1, <1>2, <2>5 DEF StateInDirName, Start, v
<1>. QED
  BY <1>1, <1>3, <1>4

LEMMA InDir ==
    ASSUME NEW w, NEW i, Reading(w, i), w.tok.state \in DirStates
    PROVE  /\ Poised(w, i) /\ Core(w) /\ IsText(source) /\ w.par.openTag # None /\ i \in Nat /\ i <= Size /\ i + 1 <= Size
           /\ Here(w) = i /\ w.tok.index = i /\ w.tok.sectionStart \in Nat /\ w.tok.sectionStart <= i
           /\ w.par.prop.pos \in 0..i /\ Property(w)
BY ReadingFacts DEF TagStates, DirStates, Dir, NoSection

LEMMA PartIs ==
    ASSUME NEW w, NEW i, Reading(w, i), w.tok.state \in DirStates, NEW v,
           \/ v = Panic(w, "AsDirective") /\ w.par.prop.name = <<"v", "-">>
           \/ Core(v) /\ Even(w, v) /\ Property(v) /\ v.par.prop.pos = w.par.prop.pos
    PROVE  /\ Reached(HandleAttrNameEnd(v, At(i)), i)
           /\ At(i) = "." => Reached(GoAt(v, "InDirModifier", i + 1), i)
<1>1. Poised(w, i) /\ w.par.openTag # None /\ w.tok.index = i /\ w.par.prop.pos \in 0..i
  BY InDir
<1>2. PartRead(w, v)
  BY <1>1, RestsEven DEF PartRead
<1>. QED
  BY <1>1, <1>2, LandsPart

(* From an argument to one in brackets and back. *)
LEMMA LandsBracket ==
    ASSUME NEW w, NEW i, Reading(w, i), w.tok.state \in DirStates, NEW q \in {"InDirArg", "InDirDynamicArg"},
           q = "InDirArg" => w.tok.sectionStart + 1 <= i
    PROVE  Reached(Go(w, q), i)
<1>. DEFINE st == w.tok.sectionStart
            v == Go(w, q)
<1>1. /\ Poised(w, i) /\ w.par.openTag # None /\ i \in Nat /\ st \in Nat /\ st <= i
      /\ w.par.prop.pos \in 0..i /\ Property(w)
  BY InDir
<1>2. Poised(v, i) /\ v.tok.state = q /\ v.tok.sectionStart = st /\ v.par = w.par
  BY <1>1, AtGoes
<1>. HIDE DEF v
<1>3. ASSUME NEW k \in After(i) PROVE Section(v, k) /\ Dir(v, k)
  <2>1. k \in Nat /\ i + 1 <= k
    BY <1>1, AfterIs
  <2>2. st \in 0..k /\ st + 1 <= k /\ v.par.prop.pos \in 0..k /\ (q = "InDirArg" => k # st + 1)
    BY <1>1, <1>2, <2>1
  <2>3. Property(v)
    BY <1>1, <1>2 DEF Property
  <2>. QED
    BY <1>2, <2>2, <2>3 DEF Section, Dir, Start
<1>4. Reached(v, i)
  BY <1>1, <1>2, <1>3, Lands DEF Fits, TagStates, InnerNames
<1>. QED
  BY <1>4 DEF v

LEMMA LandsInDirArg ==
    ASSUME NEW w, NEW i, Reading(w, i), w.tok.state = "InDirArg"
    PROVE  Reached(StateInDirArg(w, At(i)), i)
<1>. DEFINE st == w.tok.sectionStart
            v == Ondirarg(w, st, i)
<1>1. /\ Core(w) /\ Property(w) /\ IsText(source) /\ i \in Nat /\ i <= Size /\ Here(w) = i
      /\ st \in Nat /\ st <= i /\ (i = st + 1 => At(st) # "[") /\ w.tok.state \in DirStates
  BY ReadingFacts, InDir DEF DirStates, Section, Start
<1>2. At(i) # "[" => Reached(w, i)
  BY Stays
<1>3. \/ v = Panic(w, "AsDirective") /\ w.par.prop.name = <<"v", "-">>
      \/ Core(v) /\ Even(w, v) /\ Property(v) /\ v.par.prop.pos = w.par.prop.pos
  BY <1>1, CoreDirarg
<1>. HIDE DEF v
<1>4. Reached(HandleAttrNameEnd(v, At(i)), i) /\ (At(i) = "." => Reached(GoAt(v, "InDirModifier", i + 1), i))
  BY <1>1, <1>3, PartIs
<1>5. Reached(Go(w, "InDirDynamicArg"), i)
  BY <1>1, LandsBracket
<1>. QED
  BY <1>1, <1>2, <1>4, <1>5 DEF StateInDirArg, Start, AttrNameEnds, IsEndOfTagSection, IsWhitespace, v

LEMMA LandsInDynamicDirArg ==
    ASSUME NEW w, NEW i, Reading(w, i), w.tok.state = "InDirDynamicArg"
    PROVE  Reached(StateInDynamicDirArg(w, At(i)), i)
<1>. DEFINE st == w.tok.sectionStart
            v == Ondirarg(w, st, i + 1)
<1>1. /\ Core(w) /\ Property(w) /\ IsText(source) /\ i \in Nat /\ i + 1 <= Size /\ Here(w) = i
      /\ st \in Nat /\ st + 1 <= i /\ w.tok.state \in DirStates
  BY ReadingFacts, InDir DEF DirStates, Section, Start
<1>2. Reached(w, i)
  BY Stays
<1>3. \/ v = Panic(w, "AsDirective") /\ w.par.prop.name = <<"v", "-">>
      \/ Core(v) /\ Even(w, v) /\ Property(v) /\ v.par.prop.pos = w.par.prop.pos
  <2>1. i + 1 \in Nat /\ st <= i + 1 /\ i + 1 # st + 1
    BY <1>1
  <2>. QED
    BY <1>1, <2>1, CoreDirarg
<1>. HIDE DEF v
<1>4. Reached(HandleAttrNameEnd(v, At(i)), i)
  BY <1>1, <1>3, PartIs
<1>5. Reached(Go(w, "InDirArg"), i)
  BY <1>1, LandsBracket
<1>. QED
  BY <1>1, <1>2, <1>4, <1>5 DEF StateInDynamicDirArg, Start, AttrNameEnds, IsEndOfTagSection, IsWhitespace, v

LEMMA LandsInDirModifier ==
    ASSUME NEW w, NEW i, Reading(w, i), w.tok.state = "InDirModifier"
    PROVE  Reached(StateInDirModifier(w, At(i)), i)
<1>. DEFINE st == w.tok.sectionStart
            v == ArgOrModifier(w, st, i)
<1>1. /\ Core(w) /\ Property(w) /\ i \in Nat /\ i <= Size /\ Here(w) = i
      /\ st \in Nat /\ st <= i /\ w.tok.state \in DirStates
  BY InDir DEF DirStates
<1>2. Reached(w, i)
  BY Stays
<1>3. \/ v = Panic(w, "AsDirective") /\ w.par.prop.name = <<"v", "-">>
      \/ Core(v) /\ Even(w, v) /\ Property(v) /\ v.par.prop.pos = w.par.prop.pos
  BY <1>1, CoreArg
<1>. HIDE DEF v
<1>4. Reached(HandleAttrNameEnd(v, At(i)), i) /\ (At(i) = "." => Reached(GoAt(v, "InDirModifier", i + 1), i))
  BY <1>1, <1>3, PartIs
<1>. QED
  BY <1>1, <1>2, <1>4 DEF StateInDirModifier, Ondirmodifier, Start, AttrNameEnds, IsEndOfTagSection, IsWhitespace, v

-----------------------------------------------------------------------------
(* Values. *)

LEMMA AtData ==
    ASSUME NEW w, NEW i, Poised(w, i), w.tok.sectionStart \in 0..i
    PROVE  Poised(AttrData(w), i) /\ AttrData(w).par.openTag = w.par.openTag
<1>. DEFINE u == Onattribdata(w, w.tok.sectionStart, i)
            v == [u EXCEPT !.tok.sectionStart = -1]
<1>1. Core(w) /\ Here(w) = i /\ i \in Nat /\ i <= Size /\ w.tok.sectionStart \in Nat /\ w.tok.sectionStart <= i
  BY AtFacts
<1>2. Core(u) /\ Even(w, u)
  BY <1>1, CoreAttribdata
<1>3. AttrData(w) = v
  BY <1>1 DEF AttrData, Start
<1>. HIDE DEF u
<1>4. Poised(u, i) /\ u.par.openTag = w.par.openTag /\ World(u)
  BY <1>2, AtEven, CoreIs
<1>5. /\ World(v) /\ v.par = u.par /\ v.tok.index = u.tok.index /\ v.tok.inRCDATA = u.tok.inRCDATA
      /\ v.tok.currentSequence = u.tok.currentSequence /\ v.tok.sequenceIndex = u.tok.sequenceIndex
  BY <1>4 DEF World, TokFields
<1>. HIDE DEF v
<1>6. Core(v)
  BY <1>2, <1>5, CoreTok
<1>7. Poised(v, i)
  BY <1>4, <1>5, <1>6 DEF Poised, Ready
<1>. QED
  BY <1>3, <1>4, <1>5, <1>7

LEMMA LandsNoQuotes ==
    ASSUME NEW w, NEW i, Poised(w, i), w.tok.state = "InAttrValueNq", w.par.openTag # None,
           w.tok.sectionStart \in 0..i
    PROVE  Reached(StateInAttrValueNoQuotes(w, At(i)), i)
<1>. DEFINE d == AttrData(w)
            u == Onattribend(d, "unquoted", Here(w))
            v == Go(u, "BeforeAttrName")
<1>1. Poised(d, i) /\ d.par.openTag # None
  BY AtData
<1>. HIDE DEF d
<1>2. Poised(u, i) /\ u.par.openTag # None
  BY <1>1, AtAttribend
<1>. HIDE DEF u
<1>3. Poised(v, i) /\ v.par.openTag # None /\ v.tok.state = "BeforeAttrName"
  BY <1>2, AtGoes
<1>. HIDE DEF v
<1>4. Reached(StateBeforeAttrName(v, At(i)), i)
  BY <1>3, LandsAttrName
<1>5. w.tok.sectionStart \in 0..(i + 1)
  BY AtFacts
<1>6. Reached(w, i)
  BY <1>5, LandsSimply DEF Careful, DirStates, TagStates, InnerNames
<1>. QED
  BY <1>4, <1>6 DEF StateInAttrValueNoQuotes, v, u, d

LEMMA LandsInAttrValue ==
    ASSUME NEW w, NEW i, Reading(w, i)
    PROVE  /\ w.tok.state = "InAttrValueDq" => Reached(StateInAttrValueDoubleQuotes(w, At(i)), i)
           /\ w.tok.state = "InAttrValueSq" => Reached(StateInAttrValueSingleQuotes(w, At(i)), i)
           /\ w.tok.state = "InAttrValueNq" => Reached(StateInAttrValueNoQuotes(w, At(i)), i)
<1>. SUFFICES ASSUME w.tok.state \in AttrValues
              PROVE  /\ \A q : Reached(HandleInAttrValue(w, At(i), q), i)
                     /\ w.tok.state = "InAttrValueNq" => Reached(StateInAttrValueNoQuotes(w, At(i)), i)
  BY DEF AttrValues, StateInAttrValueDoubleQuotes, StateInAttrValueSingleQuotes
<1>. DEFINE d == AttrData(w)
            u == Onattribend(d, "quoted", Here(w) + 1)
<1>1. Poised(w, i) /\ w.par.openTag # None /\ w.tok.sectionStart \in 0..i
  BY ReadingFacts DEF TagStates, AttrValues, NoSection
<1>2. Reached(w, i)
  BY Stays DEF AttrValues
<1>3. Poised(d, i) /\ d.par.openTag # None
  BY <1>1, AtData
<1>. HIDE DEF d
<1>4. Poised(u, i) /\ u.par.openTag # None
  BY <1>3, AtAttribend
<1>. HIDE DEF u
<1>5. Reached(Go(u, "BeforeAttrName"), i)
  BY <1>4, LandsGo DEF Careful, DirStates, TagStates, InnerNames, NoSection
<1>6. \A q : Reached(HandleInAttrValue(w, At(i), q), i)
  BY <1>2, <1>5 DEF HandleInAttrValue, u, d
<1>. QED
  BY <1>1, <1>6, LandsNoQuotes

LEMMA LandsBeforeAttrValue ==
    ASSUME NEW w, NEW i, Reading(w, i), w.tok.state = "BeforeAttrValue"
    PROVE  Reached(StateBeforeAttrValue(w, At(i)), i)
<1>. DEFINE v == GoAt(w, "InAttrValueNq", i)
<1>1. Poised(w, i) /\ w.par.openTag # None /\ i \in Nat /\ Here(w) = i /\ i \in 0..i /\ i + 1 \in 0..(i + 1)
  BY ReadingFacts DEF TagStates
<1>2. Reached(w, i)
  BY Stays
<1>3. Reached(GoAt(w, "InAttrValueDq", i + 1), i) /\ Reached(GoAt(w, "InAttrValueSq", i + 1), i)
  BY <1>1, LandsAt DEF Careful, DirStates, TagStates, InnerNames
<1>4. Reached(StateInAttrValueNoQuotes(v, At(i)), i)
  <2>1. Poised(v, i) /\ v.tok.state = "InAttrValueNq" /\ v.tok.sectionStart = i /\ v.par.openTag # None
    BY <1>1, AtGoes
  <2>. HIDE DEF v
  <2>. QED
    BY <1>1, <2>1, LandsNoQuotes
<1>. HIDE DEF v
<1>. QED
  BY <1>1, <1>2, <1>3, <1>4 DEF StateBeforeAttrValue, v

-----------------------------------------------------------------------------
(* Declarations. *)

(* The index may have moved on. *)
LEMMA LandsOn ==
    ASSUME NEW v, NEW i \in Nat, Core(v), v.par.openTag = None,
           v.tok.state \notin TagStates \cup DirStates \cup {"InRCDATA"},
           v.tok.state \in InnerNames => v.par.stack # <<>>,
           v.tok.sequenceIndex \in Nat,
           v.tok.state \notin {"SpecialStartSequence", "CDATASequence", "InCommentLike"} => v.tok.sequenceIndex <= i,
           v.tok.inRCDATA => Len(v.tok.currentSequence.text) \in Nat /\ Len(v.tok.currentSequence.text) >= 2,
           Advance(i, v.tok.index) \in Nat, i + 1 <= Advance(i, v.tok.index), Advance(i, v.tok.index) <= Size,
           Section(v, Advance(i, v.tok.index))
    PROVE  Reached(v, i)
<1>. DEFINE k == Advance(i, v.tok.index)
<1>1. k \in Nat /\ i + 1 <= k /\ k <= Size /\ Section(v, k) /\ Size \in Nat
  BY CoreIs DEF World
<1>. HIDE DEF k
<1>2. k \in 0..Size /\ (v.tok.sequenceIndex <= i => v.tok.sequenceIndex <= k)
  BY <1>1
<1>3. Sequence(v, k) /\ Dir(v, k)
  BY <1>2 DEF Sequence, Dir
<1>4. Fine(v, k)
  BY <1>1, <1>2, <1>3, CoreFine DEF Spot
<1>. QED
  BY <1>4, CoreIs DEF Reached, Landed, k

(* The character that ends a declaration is where the index is. *)
Found(v, i) ==
    /\ Core(v) /\ v.par.openTag = None /\ i \in Nat
    /\ v.tok.index \in i..(Size - 1) /\ Advance(i, v.tok.index) = v.tok.index + 1
    /\ v.tok.sequenceIndex \in 0..i
    /\ v.tok.inRCDATA => Len(v.tok.currentSequence.text) \in Nat /\ Len(v.tok.currentSequence.text) >= 2

LEMMA LandsFound ==
    ASSUME NEW v, NEW i, Found(v, i) PROVE Reached(GoAt(v, "Text", Here(v) + 1), i)
<1>. DEFINE t == GoAt(v, "Text", Here(v) + 1)
            j == v.tok.index
<1>1. World(v) /\ Size \in Nat /\ Core(v) /\ v.par.openTag = None
  BY CoreIs DEF Found, World
<1>2. /\ World(t) /\ t.par = v.par /\ t.tok.state = "Text" /\ Start(t) = j + 1 /\ t.tok.index = j
      /\ t.tok.sequenceIndex = v.tok.sequenceIndex /\ t.tok.inRCDATA = v.tok.inRCDATA
      /\ t.tok.currentSequence = v.tok.currentSequence
  <2>1. World(t) /\ t.par = v.par
    BY <1>1, Goes
  <2>. QED
    BY <1>1, <2>1 DEF GoAt, Here, Start, World, TokFields
<1>. HIDE DEF t
<1>3. Core(t)
  BY <1>1, <1>2, CoreTok
<1>4. Advance(i, t.tok.index) = j + 1 /\ i \in Nat /\ j \in i..(Size - 1) /\ t.tok.sequenceIndex \in 0..i
  BY <1>2 DEF Found
<1>. HIDE DEF j
<1>5. /\ Advance(i, t.tok.index) \in Nat /\ i + 1 <= Advance(i, t.tok.index) /\ Advance(i, t.tok.index) <= Size
      /\ Start(t) \in 0..Advance(i, t.tok.index) /\ t.tok.sequenceIndex \in Nat /\ t.tok.sequenceIndex <= i
  BY <1>1, <1>2, <1>4
<1>6. Section(t, Advance(i, t.tok.index))
  BY <1>2, <1>5 DEF Section
<1>7. Reached(t, i)
  BY <1>1, <1>2, <1>3, <1>4, <1>5, <1>6, LandsOn DEF Found, TagStates, DirStates, InnerNames
<1>. QED
  BY <1>7 DEF t

LEMMA FoundEven ==
    ASSUME NEW w, NEW i, Found(w, i), NEW v, Core(v), Even(w, v) PROVE Found(v, i)
BY DEF Found, Even

Declarations == {"InDeclaration", "InProcessingInstruction", "InSpecialComment"}

(* The search for the end of a declaration. *)
LEMMA FindsEnd ==
    ASSUME NEW w, NEW i, Poised(w, i), w.par.openTag = None, w.tok.sectionStart \in 0..i,
           w.tok.state \in Declarations
    PROVE  LET v == IF At(i) = ">" THEN w ELSE FastForwardTo(w, ">")
           IN  IF At(i) = ">" \/ Ahead(w, ">") # {}
               THEN Found(v, i) /\ Start(v) \in Nat /\ Start(v) <= Here(v) /\ Here(v) <= Size /\ Here(v) \in Nat
               ELSE Reached(v, i)
<1>. DEFINE v == FastForwardTo(w, ">")
            k == Advance(i, v.tok.index)
            st == w.tok.sectionStart
<1>1. /\ World(w) /\ Core(w) /\ IsText(source) /\ i \in Nat /\ i \in 0..(Size - 1) /\ Size \in Nat /\ w.tok.index = i
      /\ w.tok.sequenceIndex \in 0..i /\ st \in 0..i
  BY AtFacts
<1>2. At(i) = ">" =>
        /\ Found(w, i) /\ Start(w) \in Nat /\ Start(w) <= Here(w) /\ Here(w) <= Size /\ Here(w) \in Nat
  <2>1. SUFFICES ASSUME At(i) = ">"
                 PROVE  Found(w, i) /\ Start(w) \in Nat /\ Start(w) <= Here(w) /\ Here(w) <= Size /\ Here(w) \in Nat
    OBVIOUS
  <2>2. Advance(i, i) = i + 1
    BY <1>1, <2>1, AdvanceIs, AfterIs
  <2>3. i \in i..(Size - 1)
    BY <1>1
  <2>. QED
    BY <1>1, <2>2, <2>3, AtFacts DEF Found, Start, Here
<1>3. Kin(w, v) /\ v.tok.sequenceIndex = w.tok.sequenceIndex
  BY <1>1, KinAhead
<1>4. /\ k \in Nat /\ i + 1 <= k /\ k <= Size
      /\ Ahead(w, ">") # {} => i + 2 <= k /\ v.tok.index = k - 1
  BY <1>1, AheadIs
<1>. HIDE DEF v
<1>5. /\ World(v) /\ v.par = w.par /\ v.tok.state = w.tok.state /\ v.tok.sectionStart = st
      /\ v.tok.inRCDATA = w.tok.inRCDATA /\ v.tok.currentSequence = w.tok.currentSequence
  BY <1>3 DEF Kin
<1>6. Core(v) /\ v.par.openTag = None
  BY <1>1, <1>5, CoreTok
<1>7. v.tok.inRCDATA => Len(v.tok.currentSequence.text) \in Nat /\ Len(v.tok.currentSequence.text) >= 2
  BY <1>5, AtFacts
<1>. HIDE DEF st
<1>8. Ahead(w, ">") # {} =>
        /\ Found(v, i) /\ Start(v) \in Nat /\ Start(v) <= Here(v) /\ Here(v) <= Size /\ Here(v) \in Nat
  <2>1. SUFFICES ASSUME Ahead(w, ">") # {}
                 PROVE  Found(v, i) /\ Start(v) \in Nat /\ Start(v) <= Here(v) /\ Here(v) <= Size /\ Here(v) \in Nat
    OBVIOUS
  <2>2. v.tok.index = k - 1
    BY <1>4, <2>1
  <2>3. Advance(i, v.tok.index) = k /\ k = (k - 1) + 1 /\ k - 1 \in i..(Size - 1) /\ st <= k - 1 /\ k - 1 \in Nat
    BY <1>1, <1>4, <2>1
  <2>. HIDE DEF k
  <2>4. Advance(i, v.tok.index) = v.tok.index + 1
    BY <2>2, <2>3
  <2>. QED
    BY <1>1, <1>3, <1>5, <1>6, <1>7, <2>2, <2>3, <2>4 DEF Found, Start, Here
<1>9. Reached(v, i)
  <2>1. Section(v, k)
    <3>1. st \in 0..k
      BY <1>1, <1>4
    <3>. HIDE DEF k
    <3>. QED
      BY <1>5, <3>1 DEF Section, Declarations, Start
  <2>2. v.tok.sequenceIndex \in Nat /\ v.tok.sequenceIndex <= i
    BY <1>1, <1>3
  <2>. QED
    BY <1>1, <1>4, <1>5, <1>6, <1>7, <2>1, <2>2, LandsOn DEF Declarations, TagStates, DirStates, InnerNames
<1>. QED
  BY <1>2, <1>8, <1>9 DEF v

LEMMA LandsInDeclaration ==
    ASSUME NEW w, NEW i, Poised(w, i), w.par.openTag = None, w.tok.sectionStart \in 0..i
    PROVE  /\ w.tok.state = "InDeclaration" => Reached(StateInDeclaration(w, At(i)), i)
           /\ w.tok.state = "InProcessingInstruction" => Reached(StateInProcessingInstruction(w, At(i)), i)
           /\ w.tok.state = "InSpecialComment" => Reached(StateInSpecialComment(w, At(i)), i)
<1>. SUFFICES ASSUME w.tok.state \in Declarations
              PROVE  /\ Reached(StateInDeclaration(w, At(i)), i) /\ Reached(StateInProcessingInstruction(w, At(i)), i)
                     /\ Reached(StateInSpecialComment(w, At(i)), i)
  BY DEF Declarations
<1>. DEFINE found == At(i) = ">" \/ Ahead(w, ">") # {}
            v == IF At(i) = ">" THEN w ELSE FastForwardTo(w, ">")
            e == Onprocessinginstruction(v, Start(v), Here(v))
            d == Oncomment(v, Start(v), Here(v))
<1>1. IF found
      THEN Found(v, i) /\ Start(v) \in Nat /\ Start(v) <= Here(v) /\ Here(v) <= Size /\ Here(v) \in Nat
      ELSE Reached(v, i)
  BY FindsEnd
<1>. HIDE DEF v
<1>2. found => Found(e, i) /\ Here(e) = Here(v)
  <2>1. found => Core(e) /\ Even(v, e)
    BY <1>1, CoreError DEF Found, Onprocessinginstruction
  <2>. HIDE DEF e
  <2>. QED
    BY <1>1, <2>1, FoundEven DEF Even, Here
<1>3. found => Found(d, i) /\ Here(d) = Here(v)
  <2>1. found => 0 <= Start(v)
    BY <1>1
  <2>2. found => Core(d) /\ Even(v, d)
    BY <1>1, <2>1, CoreComment DEF Found
  <2>. HIDE DEF d
  <2>. QED
    BY <1>1, <2>2, FoundEven DEF Even, Here
<1>. HIDE DEF e, d
<1>4. found => /\ Reached(GoAt(v, "Text", Here(v) + 1), i) /\ Reached(GoAt(e, "Text", Here(v) + 1), i)
               /\ Reached(GoAt(d, "Text", Here(v) + 1), i)
  <2>. HIDE DEF found
  <2>. QED
    BY <1>1, <1>2, <1>3, LandsFound
<1>. QED
  BY <1>1, <1>4 DEF StateInDeclaration, StateInProcessingInstruction, StateInSpecialComment, e, d, v

LEMMA LandsBeforeDeclaration ==
    ASSUME NEW w, NEW i, Reading(w, i), w.tok.state = "BeforeDeclaration"
    PROVE  Reached(StateBeforeDeclaration(w, At(i)), i)
<1>. DEFINE g == Go(w, "CDATASequence")
            v == [g EXCEPT !.tok.sequenceIndex = 0]
            d == Go(w, "BeforeComment")
            st == w.tok.sectionStart
<1>1. /\ Poised(w, i) /\ Core(w) /\ w.par.openTag = None /\ i \in Nat /\ st \in 0..i /\ st \in 0..(i + 1) /\ 0 \in 0..i
      /\ i = st /\ st >= 2 /\ At(st - 2) = "<" /\ At(st - 1) = "!"
  BY ReadingFacts DEF TagStates, Section, NoSection, Start
<1>2. Reached(v, i)
  <2>1. Poised(g, i) /\ g.tok.state = "CDATASequence" /\ g.tok.sectionStart = st /\ g.par = w.par
    BY <1>1, AtGoes
  <2>. HIDE DEF g
  <2>2. World(g) /\ Core(g)
    BY <2>1, AtFacts
  <2>3. /\ World(v) /\ v.par = g.par /\ v.tok.state = g.tok.state /\ v.tok.sectionStart = g.tok.sectionStart
        /\ v.tok.index = g.tok.index /\ v.tok.inRCDATA = g.tok.inRCDATA
        /\ v.tok.currentSequence = g.tok.currentSequence /\ v.tok.sequenceIndex = 0
    BY <2>2 DEF World, TokFields
  <2>. HIDE DEF v
  <2>4. Core(v)
    BY <1>1, <2>1, <2>2, <2>3, CoreTok
  <2>5. Poised(v, i)
    BY <1>1, <2>1, <2>3, <2>4 DEF Poised, Ready
  <2>. QED
    BY <1>1, <2>1, <2>3, <2>5, LandsSimply DEF Careful, DirStates, TagStates, InnerNames
<1>3. At(i) = "-" => Reached(d, i)
  <2>1. SUFFICES ASSUME At(i) = "-" PROVE Reached(d, i)
    OBVIOUS
  <2>2. Poised(d, i) /\ d.tok.state = "BeforeComment" /\ Start(d) = st /\ d.par.openTag = None
    BY <1>1, AtGoes DEF Start
  <2>. HIDE DEF d
  <2>3. ASSUME NEW k \in After(i) PROVE Section(d, k) /\ Dir(d, k)
    <3>1. k = i + 1 /\ k \in Nat
      BY <1>1, <2>1, AfterIs
    <3>2. st \in 0..k /\ k = st + 1 /\ At(st) = "-"
      BY <1>1, <2>1, <3>1
    <3>. QED
      BY <1>1, <2>2, <3>2 DEF Section, Dir, DirStates
  <2>. QED
    BY <2>2, <2>3, Lands DEF Fits, TagStates, InnerNames
<1>4. Reached(Go(w, "InDeclaration"), i)
  BY <1>1, LandsGo DEF Careful, DirStates, TagStates, InnerNames
<1>. HIDE DEF v, d
<1>. QED
  BY <1>2, <1>3, <1>4 DEF StateBeforeDeclaration, v, g, d

LEMMA EndsAre ==
    /\ CommentEnd.of = "commentEnd" /\ Len(CommentEnd.text) = 3
    /\ CommentEnd.text[1] = "-" /\ CommentEnd.text[2] = "-" /\ CommentEnd.text[3] = ">"
    /\ CdataEnd.of = "cdataEnd" /\ Len(CdataEnd.text) = 3
    /\ CdataEnd.text[1] = "]" /\ CdataEnd.text[2] = "]" /\ CdataEnd.text[3] = ">"
BY DEF CommentEnd, CdataEnd

LEMMA LandsBeforeComment ==
    ASSUME NEW w, NEW i, Reading(w, i), w.tok.state = "BeforeComment"
    PROVE  Reached(StateBeforeComment(w, At(i)), i)
<1>. DEFINE g == GoAt(w, "InCommentLike", i + 1)
            v == [g EXCEPT !.tok.currentSequence = CommentEnd, !.tok.sequenceIndex = 2]
            st == w.tok.sectionStart
<1>1. /\ Poised(w, i) /\ Core(w) /\ w.par.openTag = None /\ i \in Nat /\ st \in 0..i /\ st \in 0..(i + 1) /\ Here(w) = i
      /\ st \in Nat /\ i = st + 1 /\ st >= 2 /\ At(st - 2) = "<" /\ At(st - 1) = "!" /\ At(st) = "-"
  BY ReadingFacts DEF TagStates, Section, NoSection, Start
<1>2. At(i) = "-" => Reached(v, i)
  <2>1. SUFFICES ASSUME At(i) = "-" PROVE Reached(v, i)
    OBVIOUS
  <2>2. Poised(g, i) /\ g.tok.state = "InCommentLike" /\ g.tok.sectionStart = i + 1 /\ g.par = w.par
    BY <1>1, AtGoes
  <2>. HIDE DEF g
  <2>3. World(g) /\ Core(g)
    BY <2>2, AtFacts
  <2>4. /\ World(v) /\ v.par = g.par /\ v.tok.state = g.tok.state /\ Start(v) = i + 1
        /\ v.tok.index = g.tok.index /\ v.tok.inRCDATA = g.tok.inRCDATA
        /\ v.tok.currentSequence = CommentEnd /\ v.tok.sequenceIndex = 2
    BY <2>2, <2>3 DEF World, TokFields, Start
  <2>. HIDE DEF v
  <2>5. Core(v)
    BY <1>1, <2>2, <2>3, <2>4, CoreTok
  <2>6. 2 \in 0..i
    BY <1>1
  <2>7. Poised(v, i)
    BY <2>2, <2>4, <2>5, <2>6, EndsAre DEF Poised, Ready
  <2>8. ASSUME NEW k \in After(i) PROVE Section(v, k) /\ Dir(v, k)
    <3>1. k = i + 1 /\ k \in Nat /\ i + 1 \in 0..k
      BY <1>1, <2>1, AfterIs
    <3>2. /\ i + 1 >= 4 /\ (i + 1) - 4 = st - 2 /\ (i + 1) - 3 = st - 1 /\ (i + 1) - 2 = st /\ (i + 1) - 1 = i
      BY <1>1
    <3>3. At((i + 1) - 4) = "<" /\ At((i + 1) - 3) = "!" /\ At((i + 1) - 2) = "-" /\ At((i + 1) - 1) = "-"
      BY <1>1, <2>1, <3>2
    <3>4. CommentOk(v, k)
      BY <2>4, <3>1, <3>2, <3>3 DEF CommentOk
    <3>. QED
      BY <2>2, <2>4, <3>1, <3>4 DEF Section, Dir, DirStates
  <2>. QED
    BY <1>1, <2>2, <2>4, <2>7, <2>8, Lands DEF Fits, TagStates, InnerNames
<1>3. Reached(Go(w, "InDeclaration"), i)
  BY <1>1, LandsGo DEF Careful, DirStates, TagStates, InnerNames
<1>. HIDE DEF v
<1>. QED
  BY <1>1, <1>2, <1>3 DEF StateBeforeComment, v, g

LEMMA LandsCDATASequence ==
    ASSUME NEW w, NEW i, Fine(w, i), IsText(source), i < Size, w.tok.index = i, w.tok.state = "CDATASequence"
    PROVE  Reached(StateCDATASequence(w, At(i)), i)
<1>. DEFINE st == w.tok.sectionStart
            g == Go(w, "InDeclaration")
            u == [g EXCEPT !.tok.sequenceIndex = 0]
            more == [w EXCEPT !.tok.sequenceIndex = @ + 1]
            h == GoAt(w, "InCommentLike", i + 1)
            v == [h EXCEPT !.tok.currentSequence = CdataEnd, !.tok.sequenceIndex = 0]
<1>1. /\ Core(w) /\ World(w) /\ w.par.openTag = None /\ Size \in Nat /\ i \in Nat
      /\ i \in 0..(Size - 1) /\ st \in 0..i /\ w.tok.sequenceIndex \in Nat /\ Here(w) = i /\ 0 \in 0..i
      /\ w.tok.inRCDATA => Len(w.tok.currentSequence.text) \in Nat /\ Len(w.tok.currentSequence.text) >= 2
  <2>1. Core(w) /\ World(w) /\ Size \in Nat
    BY FineIs, CoreIs DEF World
  <2>. QED
    BY <2>1 DEF Fine, Spot, Section, Sequence, TagStates, NoSection, Start, Here
<1>2. /\ Advance(i, i) \in After(i) /\ Advance(i, i) \in Nat /\ i + 1 <= Advance(i, i) /\ Advance(i, i) <= Size
  BY <1>1, AdvanceIs, AfterIs
<1>3. Reached(StateInDeclaration(u, At(i)), i)
  <2>1. /\ World(u) /\ u.par = w.par /\ u.tok.state = "InDeclaration" /\ u.tok.sectionStart = st
        /\ u.tok.index = i /\ u.tok.inRCDATA = w.tok.inRCDATA
        /\ u.tok.currentSequence = w.tok.currentSequence /\ u.tok.sequenceIndex = 0
    BY <1>1 DEF Go, World, TokFields
  <2>. HIDE DEF u
  <2>2. Core(u)
    BY <1>1, <2>1, CoreTok
  <2>3. Poised(u, i)
    BY <1>1, <2>1, <2>2 DEF Poised, Ready
  <2>. QED
    BY <1>1, <2>1, <2>3, LandsInDeclaration
<1>4. Reached(more, i)
  <2>1. /\ World(more) /\ more.par = w.par /\ more.tok.state = w.tok.state /\ Start(more) = st
        /\ more.tok.index = i /\ more.tok.inRCDATA = w.tok.inRCDATA
        /\ more.tok.currentSequence = w.tok.currentSequence /\ more.tok.sequenceIndex = w.tok.sequenceIndex + 1
    BY <1>1 DEF World, TokFields, Start
  <2>. HIDE DEF more
  <2>2. Core(more)
    BY <1>1, <2>1, CoreTok
  <2>3. st \in 0..Advance(i, i) /\ more.tok.sequenceIndex \in Nat
    BY <1>1, <1>2, <2>1
  <2>4. Section(more, Advance(i, i))
    BY <2>1, <2>3 DEF Section
  <2>. QED
    BY <1>1, <1>2, <2>1, <2>2, <2>3, <2>4, LandsOn DEF TagStates, DirStates, InnerNames
<1>5. Reached(v, i)
  <2>1. /\ World(v) /\ v.par = w.par /\ v.tok.state = "InCommentLike" /\ Start(v) = i + 1
        /\ v.tok.index = i /\ v.tok.currentSequence = CdataEnd /\ v.tok.sequenceIndex = 0
    BY <1>1 DEF GoAt, World, TokFields, Start
  <2>. HIDE DEF v
  <2>2. Core(v)
    BY <1>1, <2>1, CoreTok
  <2>3. i + 1 \in 0..Advance(i, i)
    BY <1>1, <1>2
  <2>4. CommentOk(v, Advance(i, i))
    BY <2>1 DEF CommentOk
  <2>5. Section(v, Advance(i, i))
    BY <2>1, <2>3, <2>4 DEF Section
  <2>6. /\ Len(v.tok.currentSequence.text) \in Nat /\ Len(v.tok.currentSequence.text) >= 2
        /\ v.tok.sequenceIndex \in Nat /\ v.par.openTag = None
    BY <1>1, <2>1, EndsAre
  <2>. QED
    BY <1>1, <1>2, <2>1, <2>2, <2>5, <2>6, LandsOn DEF TagStates, DirStates, InnerNames
<1>. HIDE DEF u, more, v
<1>. QED
  BY <1>1, <1>3, <1>4, <1>5 DEF StateCDATASequence, u, g, more, v, h

-----------------------------------------------------------------------------
(* Comments. *)

LEMMA EndsIs ==
    ASSUME IsText(source), NEW text, AnySeq(text), NEW k \in Nat, k <= Size, k >= Len(text),
           \A j \in 1..Len(text) : At(k - Len(text) + j - 1) = text[j]
    PROVE  EndsBefore(text, k)
<1>. DEFINE n == Len(text)
            a == k - n
            s == Slice(a, k)
<1>1. n \in Nat /\ a \in Nat /\ a <= k /\ k - a = n
  <2>1. n \in Nat /\ k >= n
    BY SeqIs
  <2>. HIDE DEF n
  <2>. QED
    BY <2>1
<1>2. s \in Seq(STRING) /\ Len(s) = k - a /\ \A j \in 1..(k - a) : s[j] = At(a + j - 1)
  <2>. HIDE DEF a
  <2>. QED
    BY <1>1, SliceIs
<1>3. \A j \in 1..n : At(a + j - 1) = text[j]
  OBVIOUS
<1>. HIDE DEF s, a, n
<1>4. Len(s) = n /\ \A j \in 1..n : s[j] = text[j]
  BY <1>1, <1>2, <1>3
<1>5. s = text
  <2>1. PICK S : text \in Seq(S)
    BY DEF AnySeq
  <2>2. \A j \in 1..n : text[j] \in S
    BY <1>1, <2>1 DEF n
  <2>3. s \in Seq(S)
    <3>1. \A j \in 1..Len(s) : s[j] \in S
      BY <1>4, <2>2
    <3>. QED
      BY <1>2, <3>1
  <2>. QED
    BY <1>4, <2>1, <2>3, SeqEqual DEF n
<1>. QED
  BY <1>5 DEF EndsBefore, s, a, n

LEMMA CommentsAre ==
    /\ AnySeq(ShortComment) /\ Len(ShortComment) = 5
    /\ ShortComment[1] = "<" /\ ShortComment[2] = "!" /\ ShortComment[3] = "-" /\ ShortComment[4] = "-"
    /\ ShortComment[5] = ">"
    /\ AnySeq(DashComment) /\ Len(DashComment) = 6
    /\ DashComment[1] = "<" /\ DashComment[2] = "!" /\ DashComment[3] = "-" /\ DashComment[4] = "-"
    /\ DashComment[5] = "-" /\ DashComment[6] = ">"
<1>1. AnySeq(ShortComment)
  <2>1. ShortComment \in Seq({"<", "!", "-", ">"})
    BY DEF ShortComment
  <2>. QED
    BY <2>1 DEF AnySeq
<1>2. /\ Len(ShortComment) = 5
      /\ ShortComment[1] = "<" /\ ShortComment[2] = "!" /\ ShortComment[3] = "-" /\ ShortComment[4] = "-"
      /\ ShortComment[5] = ">"
  BY DEF ShortComment
<1>3. AnySeq(DashComment)
  <2>1. DashComment \in Seq({"<", "!", "-", ">"})
    BY DEF DashComment
  <2>. QED
    BY <2>1 DEF AnySeq
<1>4. /\ Len(DashComment) = 6
      /\ DashComment[1] = "<" /\ DashComment[2] = "!" /\ DashComment[3] = "-" /\ DashComment[4] = "-"
      /\ DashComment[5] = "-" /\ DashComment[6] = ">"
  BY DEF DashComment
<1>. QED
  BY <1>1, <1>2, <1>3, <1>4

(* The comment that begins at st is too short. *)
LEMMA ShortEnds ==
    ASSUME IsText(source), NEW st \in Nat, st >= 4, NEW i \in Nat, i < Size, At(i) = ">",
           At(st - 4) = "<", At(st - 3) = "!", At(st - 2) = "-", At(st - 1) = "-",
           i = st \/ (i = st + 1 /\ At(st) = "-")
    PROVE  EndsBefore(ShortComment, i + 1) \/ EndsBefore(DashComment, i + 1)
<1>1. i + 1 \in Nat /\ i + 1 <= Size
  BY SourceIs
<1>2. CASE i = st
  <2>1. \A j \in 1..5 : j = 1 \/ j = 2 \/ j = 3 \/ j = 4 \/ j = 5
    OBVIOUS
  <2>2. i + 1 >= 5 /\ \A j \in 1..5 : (i + 1) - 5 + j - 1 = st + j - 5
    BY <1>2
  <2>3. st + 1 - 5 = st - 4 /\ st + 2 - 5 = st - 3 /\ st + 3 - 5 = st - 2 /\ st + 4 - 5 = st - 1 /\ st + 5 - 5 = st
    OBVIOUS
  <2>4. \A j \in 1..5 : At(st + j - 5) = ShortComment[j]
    BY <1>2, <2>1, <2>3, CommentsAre
  <2>5. \A j \in 1..5 : At((i + 1) - 5 + j - 1) = ShortComment[j]
    BY <2>2, <2>4
  <2>6. EndsBefore(ShortComment, i + 1)
    BY <1>1, <2>2, <2>5, CommentsAre, EndsIs
  <2>. QED
    BY <2>6
<1>3. CASE i = st + 1 /\ At(st) = "-"
  <2>1. \A j \in 1..6 : j = 1 \/ j = 2 \/ j = 3 \/ j = 4 \/ j = 5 \/ j = 6
    OBVIOUS
  <2>2. i + 1 >= 6 /\ \A j \in 1..6 : (i + 1) - 6 + j - 1 = st + j - 5
    BY <1>3
  <2>3. /\ st + 1 - 5 = st - 4 /\ st + 2 - 5 = st - 3 /\ st + 3 - 5 = st - 2 /\ st + 4 - 5 = st - 1
        /\ st + 5 - 5 = st /\ st + 6 - 5 = st + 1
    OBVIOUS
  <2>4. \A j \in 1..6 : At(st + j - 5) = DashComment[j]
    BY <1>3, <2>1, <2>3, CommentsAre
  <2>5. \A j \in 1..6 : At((i + 1) - 6 + j - 1) = DashComment[j]
    BY <2>2, <2>4
  <2>6. EndsBefore(DashComment, i + 1)
    BY <1>1, <2>2, <2>5, CommentsAre, EndsIs
  <2>. QED
    BY <2>6
<1>. QED
  BY <1>2, <1>3

InComment(w, i) ==
    /\ IsText(source) /\ Core(w) /\ w.par.openTag = None /\ i \in 0..(Size - 1) /\ w.tok.index = i
    /\ w.tok.state = "InCommentLike" /\ Start(w) \in 0..i /\ CommentOk(w, i)

LEMMA InCommentFacts ==
    ASSUME NEW w, NEW i, InComment(w, i)
    PROVE  /\ IsText(source) /\ Core(w) /\ World(w) /\ w.par.panic = "no" /\ w.par.openTag = None
           /\ Size \in Nat /\ i \in Nat /\ i < Size /\ i <= Size /\ Here(w) = i /\ w.tok.index = i
           /\ Start(w) \in Nat /\ Start(w) <= i /\ w.tok.sequenceIndex \in 0..2
           /\ w.tok.currentSequence \in {CommentEnd, CdataEnd}
           /\ Len(w.tok.currentSequence.text) = 3
           /\ Advance(i, i) \in Nat /\ i + 1 <= Advance(i, i) /\ Advance(i, i) <= Size
           /\ (At(i) # "W" => Advance(i, i) = i + 1)
<1>1. /\ IsText(source) /\ Core(w) /\ World(w) /\ w.par.panic = "no" /\ Size \in Nat /\ i \in 0..(Size - 1)
  BY CoreIs DEF InComment, World
<1>2. i \in Nat /\ Advance(i, i) \in After(i)
  BY <1>1, AdvanceIs
<1>3. /\ Advance(i, i) \in Nat /\ i + 1 <= Advance(i, i) /\ Advance(i, i) <= Size
      /\ (At(i) # "W" => Advance(i, i) = i + 1)
  BY <1>2, AfterIs
<1>. QED
  BY <1>1, <1>2, <1>3, EndsAre DEF InComment, CommentOk, Here

(* The place in the end of the comment moves. *)
LEMMA LandsComment ==
    ASSUME NEW w, NEW i, InComment(w, i), NEW v, Kin(w, v), v.tok.sequenceIndex \in Nat,
           Advance(i, v.tok.index) \in Nat, i + 1 <= Advance(i, v.tok.index), Advance(i, v.tok.index) <= Size,
           CommentOk(v, Advance(i, v.tok.index))
    PROVE  Reached(v, i)
<1>. DEFINE k == Advance(i, v.tok.index)
<1>1. Core(w) /\ w.par.openTag = None /\ i \in Nat /\ Start(w) \in Nat /\ Start(w) <= i
  BY InCommentFacts
<1>2. Core(v) /\ v.par.openTag = None
  BY <1>1, CoreTok DEF Kin
<1>3. Start(v) \in 0..k
  <2>1. k \in Nat /\ i + 1 <= k /\ Start(v) = Start(w)
    BY DEF Kin, Start
  <2>. HIDE DEF k
  <2>. QED
    BY <1>1, <2>1
<1>. HIDE DEF k
<1>4. v.tok.state = "InCommentLike"
  BY DEF Kin, InComment
<1>5. Section(v, k)
  BY <1>3, <1>4 DEF Section, k
<1>6. Len(v.tok.currentSequence.text) \in Nat /\ Len(v.tok.currentSequence.text) >= 2
  <2>1. Len(w.tok.currentSequence.text) = 3
    BY InCommentFacts
  <2>2. v.tok.currentSequence = w.tok.currentSequence
    BY DEF Kin
  <2>3. Len(v.tok.currentSequence.text) = 3
    BY <2>1, <2>2
  <2>. DEFINE n == Len(v.tok.currentSequence.text)
  <2>4. n = 3
    BY <2>3
  <2>. HIDE DEF n
  <2>5. n \in Nat /\ n >= 2
    BY <2>4
  <2>. QED
    BY <2>5 DEF n
<1>. QED
  BY <1>1, <1>2, <1>4, <1>5, <1>6, LandsOn DEF k, TagStates, DirStates, InnerNames

(* The comment ends, or is too short to. *)
LEMMA LandsEndComment ==
    ASSUME NEW w, NEW i, InComment(w, i), At(i) = ">", w.tok.sequenceIndex = 2
    PROVE  Reached([GoAt(EndCommentLike(w, i - 2), "Text", i + 1) EXCEPT !.tok.sequenceIndex = 0], i)
<1>. DEFINE st == Start(w)
            t == EndCommentLike(w, i - 2)
            g == GoAt(t, "Text", i + 1)
            v == [g EXCEPT !.tok.sequenceIndex = 0]
<1>1. /\ IsText(source) /\ Core(w) /\ World(w) /\ w.par.panic = "no" /\ w.par.openTag = None
      /\ i \in Nat /\ i < Size /\ Size \in Nat /\ w.tok.index = i /\ st \in Nat /\ st <= i
      /\ w.tok.currentSequence \in {CommentEnd, CdataEnd} /\ Advance(i, i) = i + 1
      /\ Len(w.tok.currentSequence.text) = 3
  BY InCommentFacts
<1>2. ASSUME NEW u, World(u)
      PROVE  LET x == [GoAt(u, "Text", i + 1) EXCEPT !.tok.sequenceIndex = 0]
             IN  /\ World(x) /\ x.par = u.par /\ x.tok.state = "Text" /\ x.tok.sectionStart = i + 1
                 /\ x.tok.index = u.tok.index /\ x.tok.inRCDATA = u.tok.inRCDATA
                 /\ x.tok.currentSequence = u.tok.currentSequence /\ x.tok.sequenceIndex = 0
  BY <1>2 DEF GoAt, World, TokFields
<1>3. ASSUME Core(t), Even(w, t) PROVE Reached(v, i)
  <2>1. World(t)
    BY <1>3, CoreIs
  <2>2. /\ World(v) /\ v.par = t.par /\ v.tok.state = "Text" /\ v.tok.sectionStart = i + 1
        /\ v.tok.index = t.tok.index /\ v.tok.inRCDATA = t.tok.inRCDATA
        /\ v.tok.currentSequence = t.tok.currentSequence /\ v.tok.sequenceIndex = 0
    <3>. HIDE DEF t
    <3>. QED
      BY <1>2, <2>1
  <2>. HIDE DEF v, t
  <2>3. Core(v) /\ v.par.openTag = None
    BY <1>1, <1>3, <2>2, CoreTok DEF Even
  <2>4. i \in 0..(Size - 1) /\ 0 \in 0..i /\ i + 1 \in 0..(i + 1)
    BY <1>1
  <2>5. Poised(v, i)
    <3>1. v.tok.currentSequence = w.tok.currentSequence /\ v.tok.index = i
      BY <1>1, <1>3, <2>2 DEF Even
    <3>2. Len(v.tok.currentSequence.text) \in Nat /\ Len(v.tok.currentSequence.text) >= 2
      <4>. DEFINE n == Len(v.tok.currentSequence.text)
      <4>1. n = 3
        BY <1>1, <3>1
      <4>. HIDE DEF n
      <4>2. n \in Nat /\ n >= 2
        BY <4>1
      <4>. QED
        BY <4>2 DEF n
    <3>. QED
      BY <1>1, <2>2, <2>3, <2>4, <3>1, <3>2 DEF Poised, Ready
  <2>. QED
    BY <2>2, <2>3, <2>4, <2>5, LandsSimply DEF Careful, DirStates, TagStates, InnerNames
<1>4. CASE w.tok.currentSequence = CdataEnd
  <2>1. t = EmitError(w, "cdata", st - 9)
    BY <1>4, EndsAre DEF EndCommentLike, Oncdata
  <2>2. Core(t) /\ Even(w, t)
    BY <1>1, <2>1, CoreError
  <2>. QED
    BY <1>3, <2>2
<1>5. CASE w.tok.currentSequence = CommentEnd
  <2>1. t = Oncomment(w, st, i - 2)
    BY <1>5, EndsAre DEF EndCommentLike
  <2>2. IF 0 <= st /\ st <= i - 2 /\ i - 2 <= Size THEN Core(t) /\ Even(w, t) ELSE t = Panic(w, "oncomment")
    BY <1>1, <2>1, CoreComment
  <2>3. CASE st <= i - 2
    <3>1. 0 <= st /\ i - 2 <= Size
      BY <1>1
    <3>. QED
      BY <1>3, <2>2, <2>3, <3>1
  <2>4. CASE ~(st <= i - 2)
    <3>1. t = Panic(w, "oncomment")
      BY <2>2, <2>4
    <3>2. World(t) /\ t.par.panic = "oncomment" /\ t.tok.index = i
      <4>1. World(t) /\ t.tok.index = i
        BY <1>1, <3>1, LikePanic DEF Like
      <4>. QED
        BY <1>1, <3>1, <4>1 DEF Panic, World, ParFields
    <3>3. World(v) /\ v.par = t.par /\ v.tok.index = i
      <4>. HIDE DEF t
      <4>. QED
        BY <1>2, <3>2
    <3>4. CommentOk(w, i)
      BY DEF InComment
    <3>5. CommentEnd # CdataEnd
      BY EndsAre
    <3>6. /\ st >= 4 /\ At(st - 4) = "<" /\ At(st - 3) = "!" /\ At(st - 2) = "-" /\ At(st - 1) = "-"
          /\ i >= st + 2 \/ i = st \/ (i = st + 1 /\ At(st) = "-")
      BY <1>5, <3>4, <3>5 DEF CommentOk
    <3>7. i = st \/ (i = st + 1 /\ At(st) = "-")
      BY <1>1, <2>4, <3>6
    <3>8. EndsBefore(ShortComment, i + 1) \/ EndsBefore(DashComment, i + 1)
      <4>. HIDE DEF st
      <4>. QED
        BY <1>1, <3>6, <3>7, ShortEnds
    <3>. HIDE DEF v, t
    <3>9. KnownAt(v, i + 1) /\ ~Calm(v)
      BY <3>2, <3>3, <3>8 DEF KnownAt, Calm, ScriptPanic
    <3>. QED
      BY <1>1, <3>3, <3>9 DEF Reached, Landed, v, t
  <2>. QED
    BY <2>3, <2>4
<1>. QED
  BY <1>1, <1>4, <1>5

LEMMA LandsInComment ==
    ASSUME NEW w, NEW i, InComment(w, i)
    PROVE  Reached(StateInCommentLike(w, At(i)), i)
<1>. DEFINE st == Start(w)
            n == w.tok.sequenceIndex
            put(x) == [w EXCEPT !.tok.sequenceIndex = x]
            ff == FastForwardTo(w, Awaited(w))
            ahead == [ff EXCEPT !.tok.sequenceIndex = IF Ahead(w, Awaited(w)) = {} THEN 0 ELSE 1]
<1>1. /\ IsText(source) /\ Core(w) /\ World(w)
      /\ i \in Nat /\ i < Size /\ Size \in Nat /\ w.tok.index = i /\ Here(w) = i /\ st \in Nat /\ st <= i
      /\ n \in 0..2 /\ w.tok.currentSequence \in {CommentEnd, CdataEnd}
      /\ Advance(i, i) \in Nat /\ i + 1 <= Advance(i, i) /\ Advance(i, i) <= Size
      /\ (At(i) # "W" => Advance(i, i) = i + 1)
      /\ CommentOk(w, i)
  BY InCommentFacts DEF InComment
<1>2. CommentEnd # CdataEnd
  BY EndsAre
(* What CommentOk needs when the sequence and its start stay. *)
<1>3. ASSUME NEW v, Kin(w, v), v.tok.sequenceIndex \in 0..2, NEW k \in Nat, i + 1 <= k,
             v.tok.sequenceIndex = 2 /\ w.tok.currentSequence = CommentEnd => k >= st + 2 \/ (k = st + 1 /\ At(st) = "-")
      PROVE  CommentOk(v, k)
  <2>1. Start(v) = st /\ v.tok.currentSequence = w.tok.currentSequence
    BY <1>3 DEF Kin, Start
  <2>2. k >= st + 1
    BY <1>1, <1>3
  <2>. QED
    BY <1>1, <1>2, <1>3, <2>1, <2>2 DEF CommentOk
<1>4. ASSUME NEW x \in 0..2,
             x = 2 /\ w.tok.currentSequence = CommentEnd =>
                 Advance(i, i) >= st + 2 \/ (Advance(i, i) = st + 1 /\ At(st) = "-")
      PROVE  Reached(put(x), i)
  <2>. DEFINE v == put(x)
  <2>1. Kin(w, v) /\ v.tok.sequenceIndex = x /\ v.tok.index = i
    BY <1>1, KinSequence
  <2>. HIDE DEF v
  <2>2. CommentOk(v, Advance(i, i))
    BY <1>1, <1>3, <1>4, <2>1
  <2>3. Reached(v, i)
    BY <1>1, <2>1, <2>2, LandsComment
  <2>. QED
    BY <2>3 DEF v
<1>5. /\ n = 0 \/ n = 1 \/ n = 2
      /\ n < 2 => Awaited(w) \in {"-", "]"}
      /\ n = 2 => Awaited(w) = ">" /\ Matched(w) \in {"-", "]"}
  BY <1>1, EndsAre DEF Awaited, Matched
<1>6. CASE At(i) = Awaited(w) /\ n < 2
  <2>1. n + 1 \in 0..2 /\ At(i) # "W"
    BY <1>1, <1>5, <1>6
  <2>2. n + 1 = 2 /\ w.tok.currentSequence = CommentEnd => i >= st + 1
    BY <1>1, <1>2 DEF CommentOk
  <2>3. n + 1 = 2 /\ w.tok.currentSequence = CommentEnd => Advance(i, i) >= st + 2
    BY <1>1, <2>1, <2>2
  <2>4. Reached(put(n + 1), i)
    BY <1>4, <2>1, <2>3
  <2>. QED
    BY <1>6, <2>4 DEF StateInCommentLike
<1>7. CASE At(i) = Awaited(w) /\ n = 2
  <2>1. Reached([GoAt(EndCommentLike(w, i - 2), "Text", i + 1) EXCEPT !.tok.sequenceIndex = 0], i)
    BY <1>5, <1>7, LandsEndComment
  <2>. QED
    BY <1>1, <1>7, <2>1 DEF StateInCommentLike
<1>8. CASE At(i) # Awaited(w) /\ n = 0
  <2>. DEFINE k == Advance(i, ff.tok.index)
              x == IF Ahead(w, Awaited(w)) = {} THEN 0 ELSE 1
  <2>1. Kin(w, ff)
    BY <1>1, KinAhead
  <2>2. k \in Nat /\ i + 1 <= k /\ k <= Size
    <3>1. i \in 0..(Size - 1)
      BY <1>1
    <3>. QED
      BY <1>1, <3>1, AheadIs
  <2>. HIDE DEF ff
  <2>3. Kin(ff, ahead) /\ ahead.tok.sequenceIndex = x /\ ahead.tok.index = ff.tok.index
    <3>1. World(ff)
      BY <2>1 DEF Kin
    <3>. QED
      BY <3>1, KinSequence
  <2>. HIDE DEF ahead
  <2>4. Kin(w, ahead) /\ x \in 0..2 /\ x # 2
    BY <2>1, <2>3 DEF Kin
  <2>5. CommentOk(ahead, k)
    BY <1>3, <2>2, <2>3, <2>4
  <2>6. Reached(ahead, i)
    BY <2>2, <2>3, <2>4, <2>5, LandsComment
  <2>. QED
    BY <1>8, <2>6 DEF StateInCommentLike, ahead, ff
<1>9. CASE At(i) # Awaited(w) /\ n # 0
  <2>1. Reached(put(0), i)
    BY <1>4
  <2>2. ASSUME At(i) = Matched(w) PROVE Reached(put(n), i)
    <3>1. CASE n = 2 /\ w.tok.currentSequence = CommentEnd
      <4>1. Matched(w) = "-"
        BY <3>1, EndsAre DEF Matched
      <4>2. Advance(i, i) = i + 1 /\ At(i) = "-"
        BY <1>1, <2>2, <4>1
      <4>3. i >= st + 2 \/ i = st \/ (i = st + 1 /\ At(st) = "-")
        BY <1>1, <1>2, <3>1 DEF CommentOk
      <4>4. Advance(i, i) >= st + 2 \/ (Advance(i, i) = st + 1 /\ At(st) = "-")
        BY <1>1, <4>2, <4>3
      <4>. QED
        BY <1>1, <1>4, <4>4
    <3>2. CASE ~(n = 2 /\ w.tok.currentSequence = CommentEnd)
      BY <1>1, <1>4, <3>2
    <3>. QED
      BY <3>1, <3>2
  <2>. QED
    BY <1>9, <2>1, <2>2 DEF StateInCommentLike
<1>. QED
  BY <1>5, <1>6, <1>7, <1>8, <1>9

LEMMA LandsInCommentLike ==
    ASSUME NEW w, NEW i, Fine(w, i), IsText(source), i < Size, w.tok.index = i, w.tok.state = "InCommentLike"
    PROVE  Reached(StateInCommentLike(w, At(i)), i)
<1>1. Core(w) /\ World(w) /\ Size \in Nat
  BY FineIs, CoreIs DEF World
<1>2. InComment(w, i)
  BY <1>1 DEF Fine, Spot, Section, TagStates, NoSection, InComment
<1>. QED
  BY <1>2, LandsInComment

-----------------------------------------------------------------------------
(* The end of the file. *)

(* Neither the state nor the open elements change, and nothing panics.     *)
Level(w, v) ==
    /\ World(v) /\ v.par.panic = w.par.panic /\ v.par.stack = w.par.stack
    /\ v.tok.state = w.tok.state /\ v.tok.index = w.tok.index

LEMMA LevelLike ==
    ASSUME NEW w, Calm(w), NEW v, Like(w, v), Calm(v) PROVE Level(w, v)
BY DEF Like, Level, Calm

LEMMA LevelThen ==
    ASSUME NEW u, NEW w, NEW v, Level(u, w), Level(w, v) PROVE Level(u, v)
BY DEF Level

LEMMA LevelError ==
    ASSUME NEW w, World(w), NEW msg, NEW pos PROVE Level(w, EmitError(w, msg, pos))
BY DEF Level, World, EmitError, TokFields, ParFields

LEMMA CalmText ==
    ASSUME NEW w, World(w), Calm(w), NEW a \in Nat, NEW b \in Nat, a <= b, b <= Size
    PROVE  Level(w, Ontext(w, a, b))
<1>1. Calm(AddText(w, a, b))
  BY DEF AddText, AddNode, Calm, World, TokFields, ParFields
<1>2. Ontext(w, a, b) = AddText(w, a, b)
  BY DEF Ontext, WithSlice, Calm
<1>. QED
  BY <1>1, <1>2, LikeText, LevelLike

LEMMA CalmAttribdata ==
    ASSUME NEW w, World(w), Calm(w), NEW a \in Nat, NEW b \in Nat, a <= b, b <= Size
    PROVE  Level(w, Onattribdata(w, a, b))
<1>. DEFINE v == [w EXCEPT !.par.attrStart = IF @ < 0 THEN a ELSE @, !.par.attrEnd = b]
<1>1. Onattribdata(w, a, b) = v
  BY DEF Onattribdata, WithSlice, Calm
<1>2. Calm(v)
  BY DEF Calm, World, TokFields, ParFields
<1>. HIDE DEF v
<1>3. Calm(Onattribdata(w, a, b))
  BY <1>1, <1>2
<1>. QED
  BY <1>3, LikeAttribdata, LevelLike

LEMMA CalmCommentLike ==
    ASSUME NEW w, World(w), Calm(w), NEW b \in Nat, Start(w) \in 0..b, b <= Size
    PROVE  Level(w, EndCommentLike(w, b))
<1>1. Calm(Oncomment(w, Start(w), b))
  BY DEF Oncomment, WithSlice, AddNode, Calm, World, TokFields, ParFields
<1>2. Calm(Oncdata(w, Start(w), b))
  BY LevelError DEF Oncdata, Level, Calm
<1>3. Calm(EndCommentLike(w, b))
  BY <1>1, <1>2 DEF EndCommentLike
<1>. QED
  BY <1>3, LikeCommentLike, LevelLike

(* onCloseTag at the end of the file, of an element that stays open.       *)
LEMMA LevelOpen ==
    ASSUME NEW w, World(w), w.par.stack # <<>>, Size > 0, NEW id
    PROVE  Level(w, EndOpen(w, id))
<1>. DEFINE v == OnCloseTag(w, id, Size - 1, FALSE)
<1>1. Leaves(w, v, id)
  BY LeavesVPre
<1>2. v.par.panic = w.par.panic
  <2>1. EndRange(w, id, Size - 1, FALSE).par.panic = w.par.panic
    BY DEF EndRange, World, TokFields, ParFields
  <2>2. Panic(w, "lookAhead").par.panic = w.par.panic \/ Calm(w)
    BY DEF Panic, World, TokFields, ParFields, Calm
  <2>3. ~(Size - 1 > Size) /\ ~(Size - 1 < 0)
    BY DEF World
  <2>4. Calm(w) => v = EndRange(w, id, Size - 1, FALSE)
    BY <2>3 DEF OnCloseTag, InSFCRoot, Calm
  <2>5. ~Calm(w) => v = Panic(w, "lookAhead")
    BY DEF OnCloseTag, Calm
  <2>. QED
    BY <2>1, <2>2, <2>4, <2>5
<1>3. Level(w, v)
  BY <1>1, <1>2 DEF Leaves, Level
<1>. HIDE DEF v
<1>4. \A pos : Level(v, EmitError(v, "Missing end tag", pos))
  BY <1>3, LevelError DEF Level
<1>5. EndOpen(w, id) = EmitError(v, "Missing end tag", w.par.nodes[id].pos)
  BY DEF EndOpen, v
<1>6. Level(v, EndOpen(w, id))
  BY <1>4, <1>5
<1>. QED
  BY <1>3, <1>6, LevelThen

LEMMA LevelEnd ==
    ASSUME NEW w, World(w), w.par.stack # <<>> => Size > 0
    PROVE  Level(w, Onend(w))
<1>. DEFINE stack == w.par.stack
            n == Len(stack)
<1>1. AnySeq(stack) /\ n \in Nat /\ DOMAIN stack = 1..n /\ (stack = <<>> => n = 0)
  BY SeqIs DEF World
<1>. HIDE DEF n
<1>2. PICK ended :
         /\ Onend(w) = ended[n] /\ ended[0] = EndError(w)
         /\ \A j \in 1..n : ended[j] = EndOpen(ended[j - 1], stack[j])
  BY OnendIs DEF n
<1>3. Level(w, EndError(w))
  <2>1. Level(w, w)
    BY DEF Level
  <2>. QED
    BY <2>1, LevelError DEF EndError
<1>. DEFINE T == {j \in 0..n : Level(w, ended[j])}
<1>4. ASSUME NEW m \in 0..n, \A j \in 0..(m - 1) : j \in T
      PROVE  m \in T
  <2>1. CASE m = 0
    BY <1>2, <1>3, <2>1
  <2>2. CASE m # 0
    <3>1. m - 1 \in 0..(m - 1) /\ m \in 1..n
      BY <1>1, <2>2
    <3>2. Level(w, ended[m - 1])
      <4>1. m - 1 \in T
        <5>. HIDE DEF T
        <5>. QED
          BY <1>4, <3>1
      <4>. QED
        BY <4>1
    <3>3. stack # <<>>
      BY <1>1, <3>1
    <3>4. Level(ended[m - 1], ended[m])
      BY <1>2, <3>1, <3>2, <3>3, LevelOpen DEF Level
    <3>. QED
      BY <3>2, <3>4, LevelThen
  <2>. QED
    BY <2>1, <2>2
<1>5. n \in T
  <2>1. \A m \in 0..n : (\A j \in 0..(m - 1) : j \in T) => m \in T
    BY <1>4
  <2>2. n \in 0..n
    BY <1>1
  <2>. HIDE DEF T
  <2>. QED
    BY <1>1, <2>1, <2>2, Induction
<1>. QED
  BY <1>2, <1>5

(* Only an end in a closing or self-closing tag panics. *)
Trailing == {"AfterClosingTagName", "InSelfClosingTag"}

LEMMA LevelCleanup ==
    ASSUME NEW w, Fine(w, Size), w.tok.index = Size
    PROVE  LET v == Cleanup(w)
           IN  Level(w, v) /\ (w.tok.state \notin NoSection => Start(v) \in 0..Size)
<1>1. World(w) /\ Calm(w) /\ Size \in Nat /\ Here(w) = Size
  BY DEF Fine, World, Here
<1>2. w.tok.state \notin NoSection => Start(w) \in 0..Size
  BY DEF Fine, Spot, Section
<1>3. ASSUME NEW u, Level(w, u)
      PROVE  LET v == [u EXCEPT !.tok.sectionStart = Size]
             IN  Level(w, v) /\ Start(v) = Size
  <2>. DEFINE v == [u EXCEPT !.tok.sectionStart = Size]
  <2>1. Like(u, v) /\ v.par = u.par
    BY <1>3, LikeSequence DEF Level, World
  <2>2. Start(v) = Size
    BY <1>3 DEF Level, World, TokFields, Start
  <2>. HIDE DEF v
  <2>3. Level(w, v)
    BY <1>3, <2>1 DEF Level, Like
  <2>. QED
    BY <2>2, <2>3 DEF v
<1>4. ASSUME w.tok.state \notin NoSection
      PROVE  Level(w, Ontext(w, Start(w), Size)) /\ Level(w, Onattribdata(w, Start(w), Size))
  BY <1>1, <1>2, <1>4, CalmText, CalmAttribdata
<1>5. Level(w, w)
  BY <1>1 DEF Level
<1>6. Size \in 0..Size
  BY <1>1
<1>7. /\ w.tok.state = "Text" => w.tok.state \notin NoSection
      /\ w.tok.state = "InRCDATA" => w.tok.state \notin NoSection
      /\ w.tok.state \in AttrValues => w.tok.state \notin NoSection
  BY DEF NoSection, AttrValues
<1>. QED
  BY <1>1, <1>2, <1>3, <1>4, <1>5, <1>6, <1>7 DEF Cleanup

LEMMA EndsKnown ==
    ASSUME NEW w, Fine(w, Size), w.tok.index = Size
    PROVE  LET v == Onend(HandleTrailingData(Cleanup(w)))
           IN  /\ World(v) /\ v.tok.state = w.tok.state /\ v.tok.index = w.tok.index
               /\ Calm(v) \/ (v.par.panic = "ontext" /\ v.tok.state \in Trailing)
<1>. DEFINE u == Cleanup(w)
            x == HandleTrailingData(u)
            v == Onend(x)
<1>1. World(w) /\ Calm(w) /\ Size \in Nat /\ Tree(w)
  BY DEF Fine, World
<1>2. Level(w, u) /\ (w.tok.state \notin NoSection => Start(u) \in 0..Size)
  BY LevelCleanup
<1>. HIDE DEF u
<1>3. World(u) /\ Calm(u) /\ u.tok.state = w.tok.state
  BY <1>1, <1>2 DEF Level, Calm
<1>4. Like(u, x)
  <2>1. /\ Like(u, u) /\ Like(u, EndCommentLike(u, Size)) /\ Like(u, Ontext(u, Start(u), Size))
    BY <1>3, LikeItself, LikeCommentLike, LikeText
  <2>. QED
    BY <2>1 DEF HandleTrailingData
<1>5. Calm(x) \/ (x.par.panic = "ontext" /\ w.tok.state \in Trailing)
  <2>1. CASE x = u
    BY <1>3, <2>1
  <2>2. CASE x = EndCommentLike(u, Size) /\ u.tok.state = "InCommentLike"
    <3>1. Start(u) \in 0..Size
      BY <1>2, <1>3, <2>2 DEF NoSection
    <3>2. Level(u, EndCommentLike(u, Size))
      BY <1>1, <1>3, <3>1, CalmCommentLike
    <3>. QED
      BY <1>3, <2>2, <3>2 DEF Level, Calm
  <2>3. CASE x = Ontext(u, Start(u), Size) /\ u.tok.state \notin InTag
    <3>1. CASE w.tok.state \in NoSection
      <4>1. w.tok.state \in Trailing
        BY <1>3, <2>3, <3>1 DEF NoSection, InTag, Trailing
      <4>2. Calm(x) \/ x = Panic(u, "ontext")
        <5>1. Calm(AddText(u, Start(u), Size))
          BY <1>3 DEF AddText, AddNode, Calm, World, TokFields, ParFields
        <5>. QED
          BY <1>3, <2>3, <5>1 DEF Ontext, WithSlice
      <4>3. Panic(u, "ontext").par.panic = "ontext"
        BY <1>3 DEF Panic, Calm, World, TokFields, ParFields
      <4>. QED
        BY <4>1, <4>2, <4>3
    <3>2. CASE w.tok.state \notin NoSection
      <4>1. Start(u) \in Nat /\ Start(u) <= Size
        BY <1>1, <1>2, <3>2
      <4>2. Level(u, Ontext(u, Start(u), Size))
        BY <1>1, <1>3, <4>1, CalmText
      <4>. QED
        BY <1>3, <2>3, <4>2 DEF Level, Calm
    <3>. QED
      BY <3>1, <3>2
  <2>. QED
    BY <2>1, <2>2, <2>3 DEF HandleTrailingData
<1>. HIDE DEF x
<1>6. World(x) /\ x.par.stack = w.par.stack /\ x.tok.state = w.tok.state /\ x.tok.index = w.tok.index
  BY <1>2, <1>4 DEF Like, Level
<1>7. Level(x, v)
  BY <1>1, <1>6, LevelEnd DEF Tree
<1>. HIDE DEF v
<1>8. World(v) /\ v.par.panic = x.par.panic /\ v.tok.state = w.tok.state /\ v.tok.index = w.tok.index
  BY <1>6, <1>7 DEF Level
<1>9. Calm(v) \/ (v.par.panic = "ontext" /\ v.tok.state \in Trailing)
  BY <1>5, <1>8 DEF Calm
<1>. QED
  BY <1>8, <1>9 DEF v, x, u

-----------------------------------------------------------------------------
(* The panics. *)

(* The inductive invariant: while a file is read it is at a place where    *)
(* the next character brings no panic but a known one.                     *)
KnownInv ==
    /\ IsText(source)
    /\ IF tok.done THEN tok.index = Size /\ KnownPanics
       ELSE tok.index \in Nat /\ Landed(Whole, tok.index)

LEMMA KnownIs == KnownInv => KnownPanics
<1>. SUFFICES ASSUME KnownInv, ~tok.done PROVE KnownPanics
  BY DEF KnownInv
<1>1. Landed(Whole, tok.index)
  BY DEF KnownInv
<1>2. CASE par.panic = "no"
  BY <1>2 DEF KnownPanics
<1>3. CASE par.panic # "no"
  <2>1. KnownAt(Whole, tok.index)
    BY <1>1, <1>3 DEF Landed, Calm, Whole
  <2>2. CutBefore(Whole) =>
           \E i \in InTree : par.nodes[i].tag = Script /\ par.nodes[i].parent = 0 /\ CutShort(par.nodes[i])
    BY DEF CutBefore, Whole, InTree, Detached
  <2>3. par.panic = "oncomment" => EndsWith(ShortComment) \/ EndsWith(DashComment)
    BY <2>1 DEF KnownAt, EndsBefore, EndsWith, Whole
  <2>. QED
    BY <2>1, <2>2, <2>3 DEF KnownAt, KnownPanics, Whole, ScriptPanic, ShortComment, DashComment
<1>. QED
  BY <1>2, <1>3

LEMMA BeginsKnown == Init => KnownInv
<1>. SUFFICES ASSUME Init PROVE KnownInv
  OBVIOUS
<1>1. IsText(source) /\ Size \in Nat
  BY SourceIsText, SourceIs
<1>2. tok = TokenizerInit /\ par = ParserInit
  BY DEF Init
<1>3. AnySeq(<<>>)
  <2>1. <<>> \in Seq({})
    OBVIOUS
  <2>. QED
    BY <2>1 DEF AnySeq
<1>4. World(Whole)
  BY <1>1, <1>2, <1>3 DEF World, Whole, TokenizerInit, ParserInit, TokFields, ParFields
<1>5. Calm(Whole) /\ Tree(Whole) /\ CutScript(Whole) /\ ScriptOpens(Whole)
  BY <1>2 DEF Calm, Tree, CutScript, ScriptOpens, Whole, ParserInit, None
<1>6. Spot(Whole, 0)
  BY <1>1, <1>2 DEF Spot, Section, Start, Sequence, Dir, Whole, TokenizerInit, ParserInit, TagStates, InnerNames,
                    DirStates, NoSection, None
<1>7. Landed(Whole, 0)
  BY <1>4, <1>5, <1>6, CoreFine DEF Core, Landed
<1>. QED
  BY <1>1, <1>2, <1>7 DEF KnownInv, TokenizerInit

(* What was so of a world is so in the next state. *)
Carries(v, k) ==
    /\ source' = source /\ par' = v.par
    /\ DOMAIN tok' = TokFields /\ tok'.index = k /\ ~tok'.done
    /\ tok'.state = v.tok.state /\ tok'.sectionStart = v.tok.sectionStart /\ tok'.inRCDATA = v.tok.inRCDATA
    /\ tok'.currentSequence = v.tok.currentSequence /\ tok'.sequenceIndex = v.tok.sequenceIndex

LEMMA Carried ==
    ASSUME IsText(source), NEW v, NEW k \in Nat, Landed(v, k), Carries(v, k)
    PROVE  KnownInv'
<1>1. IsText(source)'
  BY DEF IsText, Carries
<1>2. World(v)
  BY DEF Landed
<1>3. World(Whole)'
  <2>1. Whole'.tok = tok' /\ Whole'.par = v.par /\ DOMAIN Whole' = {"tok", "par"} /\ Size' = Size
    BY DEF Whole, Size, Carries
  <2>2. /\ DOMAIN v.par = ParFields /\ AnySeq(v.par.nodes) /\ AnySeq(v.par.stack) /\ Size \in Nat
    BY <1>2 DEF World
  <2>3. DOMAIN tok' = TokFields /\ ~tok'.done /\ tok'.index \in Int /\ tok'.index >= -1
    BY DEF Carries
  <2>. QED
    BY <2>1, <2>2, <2>3 DEF World
<1>4. Calm(Whole)' <=> Calm(v)
  BY DEF Calm, Whole, Carries
<1>5. ASSUME Fine(v, k) PROVE Fine(Whole, tok.index)'
  <2>1. Tree(v) => Tree(Whole)'
    BY DEF Tree, Bottom, ChildrenOf, Whole, Size, Carries
  <2>2. CutScript(v) => CutScript(Whole)'
    BY DEF CutScript, Bottom, CutShort, At, Whole, Carries
  <2>3. ScriptOpens(v) => ScriptOpens(Whole)'
    BY DEF ScriptOpens, Whole, Carries
  <2>4. RawScript(v, k) => RawScript(Whole, tok.index)'
    BY DEF RawScript, StandsBefore, ChildrenOf, At, Whole, Carries
  <2>5. Section(v, k) => Section(Whole, tok.index)'
    BY DEF Section, CommentOk, Start, At, Whole, Carries
  <2>6. Sequence(v, k) => Sequence(Whole, tok.index)'
    BY DEF Sequence, Whole, Carries
  <2>7. Dir(v, k) => Dir(Whole, tok.index)'
    BY DEF Dir, Property, Whole, Carries
  <2>8. Spot(v, k) => Spot(Whole, tok.index)'
    BY <2>5, <2>6, <2>7 DEF Spot, Whole, Size, Carries
  <2>. QED
    BY <1>3, <1>4, <1>5, <2>1, <2>2, <2>3, <2>4, <2>8 DEF Fine
<1>6. ASSUME KnownAt(v, k) PROVE KnownAt(Whole, tok.index)'
  <2>1. CutBefore(v) => CutBefore(Whole)'
    BY DEF CutBefore, CutShort, At, Whole, Carries
  <2>2. \A text : EndsBefore(text, k) => EndsBefore(text, tok.index)'
    BY DEF EndsBefore, Slice, Carries
  <2>. QED
    BY <1>6, <2>1, <2>2 DEF KnownAt, Whole, Carries
<1>7. Landed(Whole, tok.index)'
  BY <1>3, <1>4, <1>5, <1>6 DEF Landed
<1>. QED
  BY <1>1, <1>7 DEF KnownInv, Carries

(* The step of the loop after a handler. *)
LEMMA Advanced ==
    ASSUME KnownInv, tok.index \in Nat, NEW v, Reached(v, tok.index), par' = v.par, UNCHANGED source,
           tok' = [v.tok EXCEPT !.index = Advance(tok.index, @)]
    PROVE  KnownInv'
<1>. DEFINE k == Advance(tok.index, v.tok.index)
<1>1. World(v) /\ Landed(v, k)
  BY DEF Reached, Landed
<1>2. k \in Int /\ k >= 0
  BY <1>1 DEF World, Advance, RuneSize
<1>3. k \in Nat
  <2>. HIDE DEF k
  <2>. QED
    BY <1>2
<1>4. Carries(v, k)
  BY <1>1 DEF Carries, World, TokFields
<1>. HIDE DEF k
<1>. QED
  BY <1>1, <1>3, <1>4, Carried DEF KnownInv

(* Between two characters, in most states. *)
LEMMA BetweenIs ==
    ASSUME NEW w, NEW i, Fine(w, i), IsText(source), i < Size, w.tok.index = i,
           w.tok.state \notin {"InRCDATA", "SpecialStartSequence", "CDATASequence", "InCommentLike"}
    PROVE  /\ Reading(w, i) /\ Poised(w, i)
           /\ w.tok.state \in {"BeforeAttrName", "AfterAttrName", "InAttrValueNq"} => w.par.openTag # None
           /\ w.tok.state \in {"Text", "InTagName", "AfterClosingTagName", "InDeclaration",
                               "InProcessingInstruction", "InSpecialComment"} => w.par.openTag = None
           /\ w.tok.state = "InTagName" => w.par.stack # <<>>
           /\ w.tok.state \in {"Text", "InTagName", "InDeclaration", "InProcessingInstruction", "InSpecialComment",
                               "AfterAttrName", "InAttrValueNq"} => w.tok.sectionStart \in 0..i
BY ReadingIs, ReadingFacts DEF TagStates, InnerNames, NoSection

LEMMA EndsKnownly ==
    ASSUME KnownInv, Finish PROVE KnownInv'
<1>. DEFINE v == Onend(HandleTrailingData(Cleanup(Whole)))
<1>1. /\ tok.index >= Size /\ ~tok.done /\ par.panic = "no" /\ UNCHANGED source
      /\ tok' = [v.tok EXCEPT !.done = TRUE] /\ par' = v.par
  BY DEF Finish, Whole
<1>2. Fine(Whole, tok.index) /\ IsText(source) /\ Size \in Nat /\ tok.index \in Nat
  BY <1>1, SourceIs DEF KnownInv, Landed, Calm, Whole
<1>3. tok.index = Size
  <2>1. tok.index \in 0..Size
    BY <1>2 DEF Fine, Spot
  <2>. QED
    BY <1>1, <1>2, <2>1
<1>4. Whole.tok.index = Size /\ Fine(Whole, Size)
  BY <1>2, <1>3 DEF Whole
<1>5. /\ World(v) /\ v.tok.state = Whole.tok.state /\ v.tok.index = Whole.tok.index
      /\ Calm(v) \/ (v.par.panic = "ontext" /\ v.tok.state \in Trailing)
  BY <1>4, EndsKnown
<1>. HIDE DEF v
<1>6. tok'.done /\ tok'.index = Size /\ tok'.state = v.tok.state
  BY <1>1, <1>4, <1>5 DEF World, TokFields
<1>7. KnownPanics'
  BY <1>1, <1>5, <1>6 DEF KnownPanics, Calm, Trailing
<1>. QED
  BY <1>1, <1>2, <1>6, <1>7 DEF KnownInv, IsText, Size

LEMMA KnownStep == KnownInv /\ [Next]_vars => KnownInv'
<1>. SUFFICES ASSUME KnownInv, [Next]_vars PROVE KnownInv'
  OBVIOUS
<1>1. CASE UNCHANGED vars
  <2>1. CASE tok.done
    <3>1. KnownPanics'
      BY <1>1, <2>1 DEF vars, KnownInv, KnownPanics, EndsWith, Slice, InTree, CutShort, At
    <3>. QED
      BY <1>1, <2>1, <3>1 DEF vars, KnownInv, IsText, Size
  <2>2. CASE ~tok.done
    <3>1. Landed(Whole, tok.index) /\ tok.index \in Nat /\ IsText(source)
      BY <2>2 DEF KnownInv
    <3>2. Carries(Whole, tok.index)
      BY <1>1, <2>2, <3>1 DEF Carries, vars, Whole, Landed, World
    <3>. QED
      BY <3>1, <3>2, Carried
  <2>. QED
    BY <2>1, <2>2
<1>2. Size \in Nat /\ IsText(source)
  BY SourceIs DEF KnownInv
<1>3. tok.index < Size /\ par.panic = "no" =>
         Fine(Whole, tok.index) /\ tok.index \in Nat /\ Whole.tok.index = tok.index
  BY <1>2 DEF KnownInv, Landed, Calm, Whole
<1>4. IsText(source) /\ Whole.tok = tok /\ Whole = [tok |-> tok, par |-> par]
  BY <1>2 DEF Whole
<1>5. CASE ReadsText
  <2>1. CASE Reads("Text", StateText)
    BY <1>3, <1>4, <2>1, BetweenIs, LandsInText, Advanced DEF Reads, Whole
  <2>2. CASE Reads("InRCDATA", StateInRCDATA)
    BY <1>3, <1>4, <2>2, LandsRCDATA, Advanced DEF Reads, Whole
  <2>3. CASE Reads("InterpolationOpen", StateInterpolationOpen)
    BY <1>3, <1>4, <2>3, BetweenIs, LandsInterpolationOpen, Advanced DEF Reads, Whole
  <2>4. CASE Reads("Interpolation", StateInterpolation)
    BY <1>3, <1>4, <2>4, BetweenIs, LandsInterpolation, Advanced DEF Reads, Whole
  <2>5. CASE Reads("InterpolationClose", StateInterpolationClose)
    BY <1>3, <1>4, <2>5, BetweenIs, LandsInterpolationClose, Advanced DEF Reads, Whole
  <2>. QED
    BY <1>5, <2>1, <2>2, <2>3, <2>4, <2>5 DEF ReadsText
<1>6. CASE ReadsTag
  <2>1. CASE Reads("BeforeTagName", StateBeforeTagName)
    BY <1>3, <1>4, <2>1, BetweenIs, LandsBeforeTagName, Advanced DEF Reads, Whole
  <2>2. CASE Reads("InTagName", StateInTagName)
    BY <1>3, <1>4, <2>2, BetweenIs, LandsInTagName, Advanced DEF Reads, Whole
  <2>3. CASE Reads("InSFCRootTagName", StateInSFCRootTagName)
    BY <1>3, <1>4, <2>3, BetweenIs, LandsInSFCRootTagName, Advanced DEF Reads, Whole
  <2>4. CASE Reads("BeforeSpecialS", StateBeforeSpecialS)
    BY <1>3, <1>4, <2>4, BetweenIs, LandsBeforeSpecial, Advanced DEF Reads, Whole
  <2>5. CASE Reads("BeforeSpecialT", StateBeforeSpecialT)
    BY <1>3, <1>4, <2>5, BetweenIs, LandsBeforeSpecial, Advanced DEF Reads, Whole
  <2>6. CASE Reads("SpecialStartSequence", StateSpecialStartSequence)
    BY <1>3, <1>4, <2>6, LandsSpecialStartSequence, Advanced DEF Reads, Whole
  <2>7. CASE Reads("InSelfClosingTag", StateInSelfClosingTag)
    BY <1>3, <1>4, <2>7, BetweenIs, LandsInSelfClosingTag, Advanced DEF Reads, Whole
  <2>8. CASE Reads("BeforeClosingTagName", StateBeforeClosingTagName)
    BY <1>3, <1>4, <2>8, BetweenIs, LandsBeforeClosingTagName, Advanced DEF Reads, Whole
  <2>9. CASE Reads("InClosingTagName", StateInClosingTagName)
    BY <1>3, <1>4, <2>9, BetweenIs, LandsInClosingTagName, Advanced DEF Reads, Whole
  <2>10. CASE Reads("AfterClosingTagName", StateAfterClosingTagName)
    BY <1>3, <1>4, <2>10, BetweenIs, LandsAfterClosingTagName, Advanced DEF Reads, Whole
  <2>. QED
    BY <1>6, <2>1, <2>2, <2>3, <2>4, <2>5, <2>6, <2>7, <2>8, <2>9, <2>10 DEF ReadsTag
<1>7. CASE ReadsAttribute
  <2>1. CASE Reads("BeforeAttrName", StateBeforeAttrName)
    BY <1>3, <1>4, <2>1, BetweenIs, LandsAttrName, Advanced DEF Reads, Whole
  <2>2. CASE Reads("InAttrName", StateInAttrName)
    BY <1>3, <1>4, <2>2, BetweenIs, LandsInAttrName, Advanced DEF Reads, Whole
  <2>3. CASE Reads("InDirName", StateInDirName)
    BY <1>3, <1>4, <2>3, BetweenIs, LandsInDirName, Advanced DEF Reads, Whole
  <2>4. CASE Reads("InDirArg", StateInDirArg)
    BY <1>3, <1>4, <2>4, BetweenIs, LandsInDirArg, Advanced DEF Reads, Whole
  <2>5. CASE Reads("InDirDynamicArg", StateInDynamicDirArg)
    BY <1>3, <1>4, <2>5, BetweenIs, LandsInDynamicDirArg, Advanced DEF Reads, Whole
  <2>6. CASE Reads("InDirModifier", StateInDirModifier)
    BY <1>3, <1>4, <2>6, BetweenIs, LandsInDirModifier, Advanced DEF Reads, Whole
  <2>7. CASE Reads("AfterAttrName", StateAfterAttrName)
    BY <1>3, <1>4, <2>7, BetweenIs, LandsAfterAttrName, Advanced DEF Reads, Whole
  <2>8. CASE Reads("BeforeAttrValue", StateBeforeAttrValue)
    BY <1>3, <1>4, <2>8, BetweenIs, LandsBeforeAttrValue, Advanced DEF Reads, Whole
  <2>9. CASE Reads("InAttrValueDq", StateInAttrValueDoubleQuotes)
    BY <1>3, <1>4, <2>9, BetweenIs, LandsInAttrValue, Advanced DEF Reads, Whole
  <2>10. CASE Reads("InAttrValueSq", StateInAttrValueSingleQuotes)
    BY <1>3, <1>4, <2>10, BetweenIs, LandsInAttrValue, Advanced DEF Reads, Whole
  <2>11. CASE Reads("InAttrValueNq", StateInAttrValueNoQuotes)
    BY <1>3, <1>4, <2>11, BetweenIs, LandsNoQuotes, Advanced DEF Reads, Whole
  <2>. QED
    BY <1>7, <2>1, <2>2, <2>3, <2>4, <2>5, <2>6, <2>7, <2>8, <2>9, <2>10, <2>11 DEF ReadsAttribute
<1>8. CASE ReadsDeclaration
  <2>1. CASE Reads("BeforeDeclaration", StateBeforeDeclaration)
    BY <1>3, <1>4, <2>1, BetweenIs, LandsBeforeDeclaration, Advanced DEF Reads, Whole
  <2>2. CASE Reads("InDeclaration", StateInDeclaration)
    BY <1>3, <1>4, <2>2, BetweenIs, LandsInDeclaration, Advanced DEF Reads, Whole
  <2>3. CASE Reads("InProcessingInstruction", StateInProcessingInstruction)
    BY <1>3, <1>4, <2>3, BetweenIs, LandsInDeclaration, Advanced DEF Reads, Whole
  <2>4. CASE Reads("BeforeComment", StateBeforeComment)
    BY <1>3, <1>4, <2>4, BetweenIs, LandsBeforeComment, Advanced DEF Reads, Whole
  <2>5. CASE Reads("InCommentLike", StateInCommentLike)
    BY <1>3, <1>4, <2>5, LandsInCommentLike, Advanced DEF Reads, Whole
  <2>6. CASE Reads("InSpecialComment", StateInSpecialComment)
    BY <1>3, <1>4, <2>6, BetweenIs, LandsInDeclaration, Advanced DEF Reads, Whole
  <2>7. CASE Reads("CDATASequence", StateCDATASequence)
    BY <1>3, <1>4, <2>7, LandsCDATASequence, Advanced DEF Reads, Whole
  <2>. QED
    BY <1>8, <2>1, <2>2, <2>3, <2>4, <2>5, <2>6, <2>7 DEF ReadsDeclaration
<1>9. CASE Finish
  BY <1>9, EndsKnownly
<1>. QED
  BY <1>1, <1>5, <1>6, <1>7, <1>8, <1>9 DEF Next

(* Whatever the file, the parse panics only at a comment of one or two     *)
(* dashes, at an end in a closing or self-closing tag, at a nameless       *)
(* directive, or at a script that another tag cuts short (oncomment,       *)
(* ontext, ondirarg, ondirmodifier, onCloseTag).                           *)
THEOREM PanicsAreKnown == Spec => []KnownPanics
<1>1. Init => KnownInv
  BY BeginsKnown
<1>2. KnownInv /\ [Next]_vars => KnownInv'
  BY KnownStep
<1>3. KnownInv => KnownPanics
  BY KnownIs
<1>. QED
  BY <1>1, <1>2, <1>3, PTL DEF Spec
====
