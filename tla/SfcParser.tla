----------------------------- MODULE SfcParser ------------------------------
(***************************************************************************)
(* internal/vue/parser/parser.go: what the tokenizer's callbacks do to the *)
(* tree of a .vue file.  Every operator takes the world w, a record of the *)
(* tokenizer and the parser, and gives the world after the call.  Offsets  *)
(* count bytes from 0, as in the code.  The long names of tags and         *)
(* directives are cut to three letters or one; "W", "~" are the two bytes  *)
(* of one character.                                                       *)
(***************************************************************************)
EXTENDS Integers, SequencesExt

VARIABLE source     \* the text of the .vue file

None == 0           \* nil
Size == Len(source)
At(i) == source[i + 1]
Slice(a, b) == SubSeq(source, a + 1, b)

Template == <<"t", "e", "m">>
Script == <<"s", "c", "r">>
Pre == <<"p">>
Lang == <<"l">>
Html == <<"h">>
VoidTags == {<<"b">>}

Lower(c) ==
    CASE c = "S" -> "s" [] c = "C" -> "c" [] c = "R" -> "r" [] c = "T" -> "t"
      [] c = "E" -> "e" [] c = "M" -> "m" [] c = "A" -> "a" [] OTHER -> c
ToLower(s) == [i \in DOMAIN s |-> Lower(s[i])]

Prop(kind, name, pos, end) == [kind |-> kind, name |-> name, pos |-> pos, end |-> end]
NoProp == Prop("none", <<>>, 0, 0)

ParserInit ==
    [nodes |-> <<>>, stack |-> <<>>, openTag |-> None, prop |-> NoProp,
     attrStart |-> -1, attrEnd |-> -1, inVPre |-> FALSE, vPreBoundary |-> None,
     errors |-> {}, panic |-> "no"]

(* A slice with its ends out of bounds or in the wrong order panics, and   *)
(* so do an assertion and a wrong type.                                    *)
Panic(w, where) == [w EXCEPT !.par.panic = IF @ = "no" THEN where ELSE @]

WithSlice(w, a, b, where, Then(_)) ==
    IF w.par.panic # "no" THEN w
    ELSE IF 0 <= a /\ a <= b /\ b <= Size THEN Then(Slice(a, b))
    ELSE Panic(w, where)

EmitError(w, msg, pos) == [w EXCEPT !.par.errors = @ \cup {[msg |-> msg, pos |-> pos]}]

-----------------------------------------------------------------------------
(* The tree: a node is known by its place in nodes; 0 is the root, and an  *)
(* element whose start tag is not finished is detached.                    *)

Detached == -1

(* An element's start tag ends before open; its inner range ends at inner. *)
Node(kind, pos, end, parent) ==
    [kind |-> kind, pos |-> pos, end |-> end, parent |-> parent,
     tag |-> <<>>, props |-> <<>>, open |-> pos, inner |-> None, closed |-> "no"]

Top(w) == IF w.par.stack = <<>> THEN 0 ELSE Head(w.par.stack)
ChildrenOf(w, id) == {i \in DOMAIN w.par.nodes : w.par.nodes[i].parent = id}
AddNode(w, kind, pos, end) == [w EXCEPT !.par.nodes = Append(@, Node(kind, pos, end, Top(w)))]

InSFCRoot(w) == w.par.stack = <<>>

(* onText: text that follows text is merged with it. *)
AddText(w, start, end) ==
    LET kids == ChildrenOf(w, Top(w))
        last == Max(kids)
    IN  IF kids # {} /\ w.par.nodes[last].kind = "text"
        THEN [w EXCEPT !.par.nodes[last].end = end]
        ELSE AddNode(w, "text", start, end)

Ontext(w, start, end) == WithSlice(w, start, end, "ontext", LAMBDA text : AddText(w, start, end))

Oninterpolation(w, start, end) ==
    IF w.par.inVPre THEN Ontext(w, start, end)
    ELSE WithSlice(w, start + 2, end - 2, "oninterpolation",
                   LAMBDA exp : AddNode(w, "interpolation", start, end))

Oncomment(w, start, end) ==
    WithSlice(w, start, end, "oncomment", LAMBDA text : AddNode(w, "comment", start - 4, end + 3))

(* No element has another namespace than HTML. *)
Oncdata(w, start, end) == EmitError(w, "cdata", start - 9)
Onprocessinginstruction(w, start, end) == EmitError(w, "questionmark", start - 1)

-----------------------------------------------------------------------------
(* Elements *)

LookAhead(index, c) ==
    LET hits == {i \in index..(Size - 1) : At(i) = c} IN IF hits = {} THEN Size - 1 ELSE Min(hits)

BackTrack(index, c) ==
    LET hits == {i \in 0..index : i < Size /\ At(i) = c} IN IF hits = {} THEN 0 ELSE Max(hits)

Onopentagname(w, start, end) ==
    WithSlice(w, start, end, "onopentagname", LAMBDA name :
        [w EXCEPT !.par.nodes = Append(@, [Node("element", start - 1, end, Detached) EXCEPT !.tag = name]),
                  !.par.openTag = Len(w.par.nodes) + 1])

(* Mutant: v-pre is not left with its element.                             *)
EndRangeOnly(w, id, end, implied) ==
    [w EXCEPT !.par.nodes[id].end = IF implied THEN BackTrack(end, "<") ELSE LookAhead(end, ">") + 1,
              !.par.nodes[id].closed = IF implied THEN "implied" ELSE "yes"]

EndRange(w, id, end, implied) ==
    LET ended == [w EXCEPT
            !.par.nodes[id].end = IF implied THEN BackTrack(end, "<") ELSE LookAhead(end, ">") + 1,
            !.par.nodes[id].closed = IF implied THEN "implied" ELSE "yes"]
    IN  IF w.par.vPreBoundary # id THEN ended
        ELSE [ended EXCEPT !.tok.inVPre = FALSE, !.par.inVPre = FALSE, !.par.vPreBoundary = None]

(* onCloseTag: of a block, the inner range ends with the last child, and a *)
(* script must have no other.                                              *)
OnCloseTag(w, id, end, implied) ==
    LET ended == EndRange(w, id, end, implied)
        kids == ChildrenOf(w, id)
        last == w.par.nodes[Max(kids)]
    IN  IF w.par.panic # "no" \/ end > Size \/ end < 0 THEN Panic(w, "lookAhead")
        ELSE IF ~InSFCRoot(w) \/ kids = {} THEN ended
        ELSE IF w.par.nodes[id].tag = Script /\ Cardinality(kids) # 1
             THEN Panic(w, "script has more than 1 child")
             ELSE [ended EXCEPT !.par.nodes[id].inner = last.end]

Onopentagend(w, end) ==
    LET id == w.par.openTag
        added == [w EXCEPT !.par.nodes[id].parent = Top(w), !.par.nodes[id].open = end + 1]
        opened == IF w.par.nodes[id].tag \in VoidTags THEN OnCloseTag(added, id, end, FALSE)
                  ELSE [added EXCEPT !.par.stack = <<id>> \o @]
    IN  IF w.par.panic # "no" THEN w
        ELSE IF id = None THEN Panic(w, "onopentagend")
        ELSE [opened EXCEPT !.par.openTag = None]

CloseTop(w, end, implied) ==
    LET id == Top(w) IN OnCloseTag([w EXCEPT !.par.stack = Tail(@)], id, end, implied)

CloseTops(w, n, end) ==
    LET noted == IF n > 1 THEN EmitError(w, "Missing end tag", w.par.nodes[Top(w)].pos) ELSE w
        closed[j \in 0..n] == IF j = 0 THEN noted ELSE CloseTop(closed[j - 1], end, j < n)
    IN  closed[n]

(* The nearest open element of that name is closed, and those in it. *)
CloseNamed(w, name, start, end) ==
    LET open == {i \in DOMAIN w.par.stack : ToLower(w.par.nodes[w.par.stack[i]].tag) = ToLower(name)}
    IN  IF name \in VoidTags THEN w
        ELSE IF open = {} THEN EmitError(w, "Invalid end tag", BackTrack(start, "<"))
        ELSE CloseTops(w, Min(open), end)

Onclosetag(w, start, end) ==
    WithSlice(w, start, end, "onclosetag", LAMBDA name : CloseNamed(w, name, start, end))

Onselfclosingtag(w, end) ==
    LET v == Onopentagend(w, end)
    IN  IF v.par.panic = "no" /\ v.par.stack # <<>> /\ v.par.nodes[Top(v)].tag = w.par.nodes[w.par.openTag].tag
        THEN CloseTop(v, end, FALSE) ELSE v

-----------------------------------------------------------------------------
(* Attributes and directives *)

Onattribname(w, start, end) ==
    WithSlice(w, start, end, "onattribname", LAMBDA name :
        [w EXCEPT !.par.prop = Prop("attribute", name, start, end)])

Shorthands == {<<".">>, <<":">>, <<"@">>, <<"#">>}

Ondirname(w, start, end) ==
    WithSlice(w, start, end, "ondirname", LAMBDA raw :
        LET name == IF raw \in Shorthands THEN raw ELSE SubSeq(raw, 3, Len(raw))
            noted == IF ~w.par.inVPre /\ name = <<>> THEN EmitError(w, "Missing directive name", start) ELSE w
        IN  IF w.par.inVPre \/ name = <<>>
            THEN [noted EXCEPT !.par.prop = Prop("attribute", raw, start, end)]
            ELSE IF name = Pre
            THEN [w EXCEPT !.par.prop = Prop("directive", name, start, end), !.tok.inVPre = TRUE,
                           !.par.inVPre = TRUE, !.par.vPreBoundary = w.par.openTag]
            ELSE [w EXCEPT !.par.prop = Prop("directive", name, start, end)])

IsVPre(prop) == prop.kind = "directive" /\ prop.name = Pre

(* In v-pre the argument belongs to the attribute's name; elsewhere the    *)
(* property must be a directive.                                           *)
ArgOrModifier(w, start, end) ==
    WithSlice(w, start, end, "ondirarg", LAMBDA text :
        IF w.par.inVPre /\ ~IsVPre(w.par.prop)
        THEN IF w.par.prop.kind = "attribute" THEN [w EXCEPT !.par.prop.end = end] ELSE Panic(w, "AsAttribute")
        ELSE IF w.par.prop.kind = "directive" THEN w ELSE Panic(w, "AsDirective"))

(* Brackets around the argument are taken off. *)
Ondirarg(w, start, end) ==
    IF start = end THEN w
    ELSE IF w.par.prop.kind = "directive" /\ Slice(start, end) = <<"[">> THEN Panic(w, "ondirarg")
    ELSE ArgOrModifier(w, start, end)

Ondirmodifier(w, start, end) == ArgOrModifier(w, start, end)

Onattribnameend(w, end) ==
    WithSlice(w, w.par.prop.pos, end, "onattribnameend", LAMBDA name : w)

Onattribdata(w, start, end) ==
    WithSlice(w, start, end, "onattribdata", LAMBDA text :
        [w EXCEPT !.par.attrStart = IF @ < 0 THEN start ELSE @, !.par.attrEnd = end])

(* A template block in another language is raw text from its end tag on.   *)
EnterRCDATA(w, sequence, offset) ==
    [w EXCEPT !.tok.inRCDATA = TRUE, !.tok.currentSequence = sequence, !.tok.sequenceIndex = offset]

BlockEnd(tag) == [of |-> "block", text |-> <<"<", "/">> \o tag]

Onattribend(w, quote, end) ==
    LET id == w.par.openTag
        value == IF w.par.attrStart < 0 THEN <<>> ELSE Slice(w.par.attrStart, w.par.attrEnd)
        foreign == /\ quote # "novalue" /\ w.par.prop.kind = "attribute" /\ InSFCRoot(w)
                   /\ w.par.nodes[id].tag = Template /\ w.par.prop.name = Lang
                   /\ value \notin {<<>>, Html}
        raw == IF foreign THEN EnterRCDATA(w, BlockEnd(Template), 0) ELSE w
        noted == IF quote = "unquoted" /\ w.par.prop.kind = "attribute" /\ value = <<>>
                 THEN EmitError(raw, "Missing attribute value", end) ELSE raw
        added == IF IsVPre(w.par.prop) THEN noted
                 ELSE [noted EXCEPT !.par.nodes[id].props = Append(@, [pos |-> w.par.prop.pos, end |-> end])]
    IN  IF w.par.panic # "no" THEN w
        ELSE [(IF id = None \/ w.par.prop = NoProp THEN w ELSE added)
                EXCEPT !.par.attrStart = -1, !.par.attrEnd = -1]

-----------------------------------------------------------------------------
(* The end of the input; a case of a Go switch does not fall through, so   *)
(* most states have no error of their own.                                 *)

EndError(w) ==
    CASE w.tok.state = "BeforeClosingTagName" -> EmitError(w, "EOF before tag name", Size)
      [] w.tok.state = "InterpolationClose" -> EmitError(w, "Missing interpolation end", w.tok.sectionStart)
      [] w.tok.state = "InCommentLike" ->
            EmitError(w, IF w.tok.currentSequence.of = "cdataEnd" THEN "EOF in cdata" ELSE "EOF in comment", Size)
      [] w.tok.state = "InAttrValueNq" -> EmitError(w, "EOF in tag", Size)
      [] OTHER -> w

EndOpen(w, id) ==
    EmitError(OnCloseTag(w, id, Size - 1, FALSE), "Missing end tag", w.par.nodes[id].pos)

Onend(w) ==
    LET stack == w.par.stack
        ended[j \in 0..Len(stack)] == IF j = 0 THEN EndError(w) ELSE EndOpen(ended[j - 1], stack[j])
    IN  ended[Len(stack)]
=============================================================================
