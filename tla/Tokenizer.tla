----------------------------- MODULE Tokenizer ------------------------------
(***************************************************************************)
(* internal/vue/parser/tokenizer.go: one character of the .vue file per    *)
(* step, read by the handler of the tokenizer's state, and the parser's    *)
(* callbacks within the step.  A handler takes the world w and the         *)
(* character c and gives the world after it.  delimiterIndex is left out:  *)
(* between two characters it is 1 in the states that read it.              *)
(***************************************************************************)
EXTENDS SfcParser

(* A file is up to Fragments pieces of a frame, between what comes before  *)
(* and after them.                                                         *)
CONSTANTS Frames, Fragments

(* The second byte of a character follows the first.                       *)
IsText(text) ==
    /\ text \in Seq(STRING)
    /\ \A i \in DOMAIN text : text[i] = "~" => i > 1 /\ text[i - 1] = "W"

ASSUME FramesAssumption ==
    /\ Fragments \in Nat
    /\ \A frame \in Frames : \A text \in frame.pieces \cup {frame.before, frame.after} : IsText(text)

VARIABLES tok, par
vars == <<source, tok, par>>

Letters == {"a", "b", "c", "e", "h", "i", "l", "m", "p", "r", "s", "t", "v", "x", "y", "S", "C", "R", "T", "E", "M", "A"}
IsWhitespace(c) == c = " "
IsEndOfTagSection(c) == c \in {"/", ">"} \/ IsWhitespace(c)

NoSequence == [of |-> "none", text |-> <<>>]
CdataEnd == [of |-> "cdataEnd", text |-> <<"]", "]", ">">>]
CommentEnd == [of |-> "commentEnd", text |-> <<"-", "-", ">">>]
ScriptEnd == [of |-> "script", text |-> <<"<", "/", "s", "c", "r">>]
StyleEnd == [of |-> "style", text |-> <<"<", "/", "s", "t", "y">>]
TitleEnd == [of |-> "title", text |-> <<"<", "/", "t", "i", "t">>]
TextareaEnd == [of |-> "textarea", text |-> <<"<", "/", "t", "e", "x">>]

\* SequenceCdata, cut like the names.
Cdata == <<"C", "A", "[">>

TokenizerInit ==
    [state |-> "Text", sectionStart |-> 0, index |-> 0, inRCDATA |-> FALSE, inVPre |-> FALSE,
     currentSequence |-> NoSequence, sequenceIndex |-> 0, done |-> FALSE]

Here(w) == w.tok.index
Start(w) == w.tok.sectionStart
Go(w, state) == [w EXCEPT !.tok.state = state]
GoAt(w, state, start) == [w EXCEPT !.tok.state = state, !.tok.sectionStart = start]
GoToText(w, start) == GoAt(w, IF w.tok.inRCDATA THEN "InRCDATA" ELSE "Text", start)

Peek(w) == IF Here(w) + 1 < Size THEN At(Here(w) + 1) ELSE "none"

(* The character of the sequence that is awaited, and the one before it. *)
Awaited(w) == w.tok.currentSequence.text[w.tok.sequenceIndex + 1]
Matched(w) == w.tok.currentSequence.text[w.tok.sequenceIndex]
SequenceDone(w) == w.tok.sequenceIndex = Len(w.tok.currentSequence.text)

Ahead(w, c) == {i \in (Here(w) + 1)..(Size - 1) : At(i) = c}
FastForwardTo(w, c) ==
    [w EXCEPT !.tok.index = IF Ahead(w, c) = {} THEN Size - 1 ELSE Min(Ahead(w, c))]

-----------------------------------------------------------------------------
(* Closing tags *)

StateAfterClosingTagName(w, c) == IF c = ">" THEN GoAt(w, "Text", Here(w) + 1) ELSE w

StateInClosingTagName(w, c) ==
    IF c = ">" \/ IsWhitespace(c)
    THEN StateAfterClosingTagName(GoAt(Onclosetag(w, Start(w), Here(w)), "AfterClosingTagName", -1), c)
    ELSE w

StateBeforeClosingTagName(w, c) ==
    CASE IsWhitespace(c) -> w
      [] c = ">" -> GoAt(w, "Text", Here(w) + 1)
      [] OTHER -> GoAt(w, IF c \in Letters THEN "InClosingTagName" ELSE "InSpecialComment", Here(w))

-----------------------------------------------------------------------------
(* Text and interpolations *)

StateText(w, c) ==
    CASE c = "<" -> GoAt(IF Here(w) > Start(w) THEN Ontext(w, Start(w), Here(w)) ELSE w, "BeforeTagName", Here(w))
      [] c = "{" /\ ~w.tok.inVPre -> Go(w, "InterpolationOpen")
      [] OTHER -> w

EndOfText(w) == Here(w) - Len(w.tok.currentSequence.text)

EndRCDATA(w, c) ==
    LET texted == IF Start(w) < EndOfText(w) THEN Ontext(w, Start(w), EndOfText(w)) ELSE w
        closed == StateInClosingTagName([texted EXCEPT !.tok.sectionStart = EndOfText(w) + 2], c)
    IN  [closed EXCEPT !.tok.inRCDATA = FALSE]

(* Only title and textarea have interpolations; other raw text is skipped  *)
(* to the next "<".                                                        *)
FirstOfRCDATA(w, c) ==
    LET of == w.tok.currentSequence.of
    IN  CASE c = Awaited(w) -> [w EXCEPT !.tok.sequenceIndex = 1]
          [] c # Awaited(w) /\ (of = "title" \/ (of = "textarea" /\ ~InSFCRoot(w))) ->
                IF c = "{" /\ ~w.tok.inVPre THEN Go(w, "InterpolationOpen") ELSE w
          [] OTHER ->
                IF Ahead(w, "<") = {} THEN FastForwardTo(w, "<")
                ELSE [FastForwardTo(w, "<") EXCEPT !.tok.sequenceIndex = 1]

StateInRCDATA(w, c) ==
    CASE SequenceDone(w) /\ (c = ">" \/ IsWhitespace(c)) -> EndRCDATA(w, c)
      [] SequenceDone(w) /\ ~(c = ">" \/ IsWhitespace(c)) ->
            FirstOfRCDATA([w EXCEPT !.tok.sequenceIndex = 0], c)
      [] ~SequenceDone(w) /\ w.tok.sequenceIndex = 0 -> FirstOfRCDATA(w, c)
      [] OTHER ->
            [w EXCEPT !.tok.sequenceIndex =
                IF Lower(c) = Awaited(w) THEN @ + 1 ELSE IF c = "<" THEN 1 ELSE 0]

StateInterpolationOpen(w, c) ==
    LET start == Here(w) - 1
    IN  CASE c = "{" -> GoAt(IF start > Start(w) THEN Ontext(w, Start(w), start) ELSE w, "Interpolation", start)
          [] c # "{" /\ w.tok.inRCDATA -> StateInRCDATA(Go(w, "InRCDATA"), c)
          [] OTHER -> StateText(Go(w, "Text"), c)

StateInterpolation(w, c) == IF c = "}" THEN Go(w, "InterpolationClose") ELSE w

(* Mutant: what follows begins with the last brace. *)
InterpolationCloseEarly(w, c) ==
    IF c = "}" THEN GoToText(Oninterpolation(w, Start(w), Here(w) + 1), Here(w))
    ELSE Go(w, "Interpolation")

StateInterpolationClose(w, c) ==
    IF c = "}" THEN GoToText(Oninterpolation(w, Start(w), Here(w) + 1), Here(w) + 1)
    ELSE Go(w, "Interpolation")

-----------------------------------------------------------------------------
(* Start tags *)

HandleAttrStart(w, c) ==
    CASE c = "v" /\ Peek(w) = "-" -> GoAt(w, "InDirName", Here(w))
      [] <<c>> \in Shorthands -> GoAt(Ondirname(w, Here(w), Here(w) + 1), "InDirArg", Here(w) + 1)
      [] OTHER -> GoAt(w, "InAttrName", Here(w))

(* "</" in a start tag ends it. *)
StateBeforeAttrName(w, c) ==
    CASE c = ">" -> GoToText(Onopentagend(w, Here(w)), Here(w) + 1)
      [] c = "/" -> Go(w, "InSelfClosingTag")
      [] c = "<" /\ Peek(w) = "/" -> GoAt(Onopentagend(w, Here(w)), "BeforeTagName", Here(w))
      [] IsWhitespace(c) -> w
      [] OTHER -> HandleAttrStart(w, c)

HandleTagName(w, c) ==
    StateBeforeAttrName(GoAt(Onopentagname(w, Start(w), Here(w)), "BeforeAttrName", -1), c)

StateInTagName(w, c) == IF IsEndOfTagSection(c) THEN HandleTagName(w, c) ELSE w

(* toCharCodes: a character of the sequence may stand for two bytes. *)
Runes(tag) ==
    LET of[i \in 0..Len(tag)] ==
            IF i = 0 THEN <<>> ELSE IF tag[i] = "~" THEN of[i - 1] ELSE Append(of[i - 1], tag[i])
    IN  of[Len(tag)]

StateInSFCRootTagName(w, c) ==
    LET tag == Slice(Start(w), Here(w))
    IN  IF IsEndOfTagSection(c)
        THEN HandleTagName(IF tag = Template THEN w ELSE EnterRCDATA(w, BlockEnd(Runes(tag)), 0), c)
        ELSE w

StartSpecial(w, sequence) == Go(EnterRCDATA(w, sequence, 4), "SpecialStartSequence")

StateSpecialStartSequence(w, c) ==
    LET isMatch == IF SequenceDone(w) THEN IsEndOfTagSection(c) ELSE Lower(c) = Awaited(w)
    IN  IF isMatch /\ ~SequenceDone(w) THEN [w EXCEPT !.tok.sequenceIndex = @ + 1]
        ELSE StateInTagName([w EXCEPT !.tok.inRCDATA = @ /\ isMatch, !.tok.sequenceIndex = 0,
                                      !.tok.state = "InTagName"], c)

StateBeforeSpecialS(w, c) ==
    CASE c = ScriptEnd.text[4] -> StartSpecial(w, ScriptEnd)
      [] c = StyleEnd.text[4] -> StartSpecial(w, StyleEnd)
      [] OTHER -> StateInTagName(Go(w, "InTagName"), c)

StateBeforeSpecialT(w, c) ==
    CASE c = TitleEnd.text[4] -> StartSpecial(w, TitleEnd)
      [] c = TextareaEnd.text[4] -> StartSpecial(w, TextareaEnd)
      [] OTHER -> StateInTagName(Go(w, "InTagName"), c)

StateBeforeTagName(w, c) ==
    CASE c = "!" -> GoAt(w, "BeforeDeclaration", Here(w) + 1)
      [] c = "?" -> GoAt(w, "InProcessingInstruction", Here(w) + 1)
      [] c \in Letters ->
            GoAt(w, CASE InSFCRoot(w) -> "InSFCRootTagName"
                      [] c = "t" /\ ~InSFCRoot(w) -> "BeforeSpecialT"
                      [] c = "s" /\ ~InSFCRoot(w) -> "BeforeSpecialS"
                      [] OTHER -> "InTagName", Here(w))
      [] c = "/" -> Go(w, "BeforeClosingTagName")
      [] OTHER -> StateText(Go(w, "Text"), c)

StateInSelfClosingTag(w, c) ==
    CASE c = ">" -> [GoAt(Onselfclosingtag(w, Here(w)), "Text", Here(w) + 1) EXCEPT !.tok.inRCDATA = FALSE]
      [] IsWhitespace(c) -> w
      [] OTHER -> StateBeforeAttrName(Go(w, "BeforeAttrName"), c)

-----------------------------------------------------------------------------
(* Attributes *)

StateAfterAttrName(w, c) ==
    CASE c = "=" -> Go(w, "BeforeAttrValue")
      [] c \in {"/", ">"} ->
            StateBeforeAttrName(GoAt(Onattribend(w, "novalue", Start(w)), "BeforeAttrName", -1), c)
      [] IsWhitespace(c) -> w
      [] OTHER -> HandleAttrStart(Onattribend(w, "novalue", Start(w)), c)

HandleAttrNameEnd(w, c) ==
    StateAfterAttrName(Onattribnameend(GoAt(w, "AfterAttrName", Here(w)), Here(w)), c)

AttrNameEnds(c) == c = "=" \/ IsEndOfTagSection(c)

StateInAttrName(w, c) ==
    IF AttrNameEnds(c) THEN HandleAttrNameEnd(Onattribname(w, Start(w), Here(w)), c) ELSE w

StateInDirName(w, c) ==
    LET named == Ondirname(w, Start(w), Here(w))
    IN  CASE AttrNameEnds(c) -> HandleAttrNameEnd(named, c)
          [] c = ":" -> GoAt(named, "InDirArg", Here(w) + 1)
          [] c = "." -> GoAt(named, "InDirModifier", Here(w) + 1)
          [] OTHER -> w

StateInDirArg(w, c) ==
    CASE AttrNameEnds(c) -> HandleAttrNameEnd(Ondirarg(w, Start(w), Here(w)), c)
      [] c = "[" -> Go(w, "InDirDynamicArg")
      [] c = "." -> GoAt(Ondirarg(w, Start(w), Here(w)), "InDirModifier", Here(w) + 1)
      [] OTHER -> w

StateInDynamicDirArg(w, c) ==
    CASE c = "]" -> Go(w, "InDirArg")
      [] AttrNameEnds(c) -> HandleAttrNameEnd(Ondirarg(w, Start(w), Here(w) + 1), c)
      [] OTHER -> w

StateInDirModifier(w, c) ==
    CASE AttrNameEnds(c) -> HandleAttrNameEnd(Ondirmodifier(w, Start(w), Here(w)), c)
      [] c = "." -> GoAt(Ondirmodifier(w, Start(w), Here(w)), "InDirModifier", Here(w) + 1)
      [] OTHER -> w

AttrData(w) == [Onattribdata(w, Start(w), Here(w)) EXCEPT !.tok.sectionStart = -1]

StateInAttrValueNoQuotes(w, c) ==
    IF IsWhitespace(c) \/ c = ">"
    THEN StateBeforeAttrName(Go(Onattribend(AttrData(w), "unquoted", Here(w)), "BeforeAttrName"), c)
    ELSE w

HandleInAttrValue(w, c, quote) ==
    IF c = quote THEN Go(Onattribend(AttrData(w), "quoted", Here(w) + 1), "BeforeAttrName") ELSE w

StateInAttrValueDoubleQuotes(w, c) == HandleInAttrValue(w, c, "\"")
StateInAttrValueSingleQuotes(w, c) == HandleInAttrValue(w, c, "'")

StateBeforeAttrValue(w, c) ==
    CASE c = "\"" -> GoAt(w, "InAttrValueDq", Here(w) + 1)
      [] c = "'" -> GoAt(w, "InAttrValueSq", Here(w) + 1)
      [] IsWhitespace(c) -> w
      [] OTHER -> StateInAttrValueNoQuotes(GoAt(w, "InAttrValueNq", Here(w)), c)

-----------------------------------------------------------------------------
(* Declarations and comments *)

StateInDeclaration(w, c) ==
    LET v == IF c = ">" THEN w ELSE FastForwardTo(w, ">")
    IN  IF c = ">" \/ Ahead(w, ">") # {} THEN GoAt(v, "Text", Here(v) + 1) ELSE v

StateInProcessingInstruction(w, c) ==
    LET v == IF c = ">" THEN w ELSE FastForwardTo(w, ">")
    IN  IF c = ">" \/ Ahead(w, ">") # {}
        THEN GoAt(Onprocessinginstruction(v, Start(v), Here(v)), "Text", Here(v) + 1) ELSE v

StateInSpecialComment(w, c) ==
    LET v == IF c = ">" THEN w ELSE FastForwardTo(w, ">")
    IN  IF c = ">" \/ Ahead(w, ">") # {} THEN GoAt(Oncomment(v, Start(v), Here(v)), "Text", Here(v) + 1) ELSE v

StateBeforeDeclaration(w, c) ==
    CASE c = "[" -> [Go(w, "CDATASequence") EXCEPT !.tok.sequenceIndex = 0]
      [] c = "-" -> Go(w, "BeforeComment")
      [] OTHER -> Go(w, "InDeclaration")

StateBeforeComment(w, c) ==
    IF c = "-"
    THEN [GoAt(w, "InCommentLike", Here(w) + 1)
            EXCEPT !.tok.currentSequence = CommentEnd, !.tok.sequenceIndex = 2]
    ELSE Go(w, "InDeclaration")

StateCDATASequence(w, c) ==
    CASE c # Cdata[w.tok.sequenceIndex + 1] ->
            StateInDeclaration([Go(w, "InDeclaration") EXCEPT !.tok.sequenceIndex = 0], c)
      [] c = Cdata[w.tok.sequenceIndex + 1] /\ w.tok.sequenceIndex + 1 < Len(Cdata) ->
            [w EXCEPT !.tok.sequenceIndex = @ + 1]
      [] OTHER -> [GoAt(w, "InCommentLike", Here(w) + 1)
                     EXCEPT !.tok.currentSequence = CdataEnd, !.tok.sequenceIndex = 0]

EndCommentLike(w, end) ==
    IF w.tok.currentSequence.of = "cdataEnd" THEN Oncdata(w, Start(w), end) ELSE Oncomment(w, Start(w), end)

(* More dashes, or brackets, than two may come before the ">". *)
StateInCommentLike(w, c) ==
    CASE c = Awaited(w) /\ w.tok.sequenceIndex < 2 -> [w EXCEPT !.tok.sequenceIndex = @ + 1]
      [] c = Awaited(w) /\ w.tok.sequenceIndex = 2 ->
            [GoAt(EndCommentLike(w, Here(w) - 2), "Text", Here(w) + 1) EXCEPT !.tok.sequenceIndex = 0]
      [] c # Awaited(w) /\ w.tok.sequenceIndex = 0 ->
            [FastForwardTo(w, Awaited(w)) EXCEPT !.tok.sequenceIndex = IF Ahead(w, Awaited(w)) = {} THEN 0 ELSE 1]
      [] OTHER -> [w EXCEPT !.tok.sequenceIndex = IF c = Matched(w) THEN @ ELSE 0]

-----------------------------------------------------------------------------
(* The loop of parse *)

RuneSize(i) == IF i + 1 < Size /\ At(i + 1) = "~" THEN 2 ELSE 1

(* Mutant: always by the size of the character that was read. *)
AdvanceByRune(from, to) == to + RuneSize(from)

(* After a handler that moved the index to a delimiter: one byte. *)
Advance(from, to) == IF to = from THEN to + RuneSize(from) ELSE to + 1

Reads(state, Handler(_, _)) ==
    LET w == Handler([tok |-> tok, par |-> par], At(tok.index))
    IN  /\ tok.state = state /\ tok.index < Size /\ par.panic = "no"
        /\ tok' = [w.tok EXCEPT !.index = Advance(tok.index, @)]
        /\ par' = w.par
        /\ UNCHANGED source

AttrValues == {"InAttrValueDq", "InAttrValueSq", "InAttrValueNq"}

Cleanup(w) ==
    LET consumed(v) == [v EXCEPT !.tok.sectionStart = Here(w)]
    IN  CASE Start(w) = Here(w) -> w
          [] Start(w) # Here(w) /\ (w.tok.state = "Text" \/ (w.tok.state = "InRCDATA" /\ w.tok.sequenceIndex = 0)) ->
                consumed(Ontext(w, Start(w), Here(w)))
          [] Start(w) # Here(w) /\ w.tok.state \in AttrValues -> consumed(Onattribdata(w, Start(w), Here(w)))
          [] OTHER -> w

(* Mutant: not between two attributes. *)
InTagOfName == AttrValues \cup
    {"InTagName", "BeforeAttrValue", "AfterAttrName", "InAttrName", "InDirName",
     "InDirArg", "InDirDynamicArg", "InDirModifier", "InClosingTagName"}

InTag == AttrValues \cup
    {"InTagName", "BeforeAttrName", "BeforeAttrValue", "AfterAttrName", "InAttrName", "InDirName",
     "InDirArg", "InDirDynamicArg", "InDirModifier", "InClosingTagName"}

HandleTrailingData(w) ==
    IF Start(w) >= Size THEN w
    ELSE CASE w.tok.state = "InCommentLike" -> EndCommentLike(w, Size)
           [] w.tok.state \in InTag -> w
           [] OTHER -> Ontext(w, Start(w), Size)

Finish ==
    LET w == Onend(HandleTrailingData(Cleanup([tok |-> tok, par |-> par])))
    IN  /\ tok.index >= Size /\ ~tok.done /\ par.panic = "no"
        /\ tok' = [w.tok EXCEPT !.done = TRUE]
        /\ par' = w.par
        /\ UNCHANGED source

Init ==
    /\ \E frame \in Frames : \E n \in 0..Fragments : \E chosen \in [1..n -> frame.pieces] :
          source = frame.before \o FlattenSeq(chosen) \o frame.after
    /\ tok = TokenizerInit /\ par = ParserInit

ReadsText ==
    \/ Reads("Text", StateText)
    \/ Reads("InRCDATA", StateInRCDATA)
    \/ Reads("InterpolationOpen", StateInterpolationOpen)
    \/ Reads("Interpolation", StateInterpolation)
    \/ Reads("InterpolationClose", StateInterpolationClose)

ReadsTag ==
    \/ Reads("BeforeTagName", StateBeforeTagName)
    \/ Reads("InTagName", StateInTagName)
    \/ Reads("InSFCRootTagName", StateInSFCRootTagName)
    \/ Reads("BeforeSpecialS", StateBeforeSpecialS)
    \/ Reads("BeforeSpecialT", StateBeforeSpecialT)
    \/ Reads("SpecialStartSequence", StateSpecialStartSequence)
    \/ Reads("InSelfClosingTag", StateInSelfClosingTag)
    \/ Reads("BeforeClosingTagName", StateBeforeClosingTagName)
    \/ Reads("InClosingTagName", StateInClosingTagName)
    \/ Reads("AfterClosingTagName", StateAfterClosingTagName)

ReadsAttribute ==
    \/ Reads("BeforeAttrName", StateBeforeAttrName)
    \/ Reads("InAttrName", StateInAttrName)
    \/ Reads("InDirName", StateInDirName)
    \/ Reads("InDirArg", StateInDirArg)
    \/ Reads("InDirDynamicArg", StateInDynamicDirArg)
    \/ Reads("InDirModifier", StateInDirModifier)
    \/ Reads("AfterAttrName", StateAfterAttrName)
    \/ Reads("BeforeAttrValue", StateBeforeAttrValue)
    \/ Reads("InAttrValueDq", StateInAttrValueDoubleQuotes)
    \/ Reads("InAttrValueSq", StateInAttrValueSingleQuotes)
    \/ Reads("InAttrValueNq", StateInAttrValueNoQuotes)

ReadsDeclaration ==
    \/ Reads("BeforeDeclaration", StateBeforeDeclaration)
    \/ Reads("InDeclaration", StateInDeclaration)
    \/ Reads("InProcessingInstruction", StateInProcessingInstruction)
    \/ Reads("BeforeComment", StateBeforeComment)
    \/ Reads("InCommentLike", StateInCommentLike)
    \/ Reads("InSpecialComment", StateInSpecialComment)
    \/ Reads("CDATASequence", StateCDATASequence)

Next == ReadsText \/ ReadsTag \/ ReadsAttribute \/ ReadsDeclaration \/ Finish

Spec == Init /\ [][Next]_vars

-----------------------------------------------------------------------------
(* Properties *)

Ended == tok.done /\ par.panic = "no"

InTree == {i \in DOMAIN par.nodes : par.nodes[i].parent # Detached}
Children(id) == ChildrenOf([par |-> par], id)

(* A start tag that "</" ended: the inner range begins behind that "<". *)
CutShort(n) == n.kind = "element" /\ At(n.open - 1) = "<"
OpensAt(n) == IF CutShort(n) THEN n.open - 1 ELSE n.open

(* What a node holds of the text: of a comment its content; a void element *)
(* cut short, to the "</", though its range takes in the tag there.        *)
From(n) == IF n.kind = "comment" THEN n.pos + 4 ELSE n.pos
To(n) == CASE n.kind = "comment" -> n.end - 3
           [] n.tag \in VoidTags /\ CutShort(n) -> OpensAt(n)
           [] OTHER -> n.end
Behind(n) == IF n.kind = "comment" THEN LookAhead(To(n), ">") + 1 ELSE To(n)
EndOf(id) == IF id = 0 THEN Size ELSE par.nodes[id].end

(* Only tags and declarations are passed over at that place. *)
Resumes(at, parent) ==
    \/ at >= EndOf(parent) \/ At(at) = "<"
    \/ \E j \in Children(parent) : par.nodes[j].pos = at

(* A block in whose name a character has several bytes: its text takes in  *)
(* the "<" of its end tag, as EndOfText subtracts characters from bytes.   *)
WideName(id) == id # 0 /\ par.nodes[id].parent = 0 /\ "~" \in Range(par.nodes[id].tag)

(* In the tree of a parsed file a node lies within its parent, siblings    *)
(* follow one another without an overlap, and no text between them is      *)
(* lost, whatever is missing or left over in the file: the ranges that     *)
(* onText, oncomment, onopentagend and onCloseTag leave.                   *)
TreeNested ==
    Ended =>
        \A i \in InTree :
            LET n == par.nodes[i]
            IN  /\ From(n) <= To(n) /\ To(n) <= Size
                /\ n.parent # 0 => OpensAt(par.nodes[n.parent]) <= From(n) /\ To(n) <= EndOf(n.parent)
                /\ \A j \in Children(n.parent) : j > i => To(n) <= From(par.nodes[j])
                /\ WideName(n.parent) \/ Resumes(Behind(n), n.parent)
                /\ n.kind = "element" =>
                    /\ n.pos < OpensAt(n) /\ OpensAt(n) <= n.end
                    /\ n.tag \in VoidTags \/ Resumes(OpensAt(n), i)

(* As long as no panic has ended the parse, the tokenizer and the parser   *)
(* agree on being in v-pre, and are in it exactly as long as the element   *)
(* that brought it is open, however that is closed: ondirname, onCloseTag. *)
VPreScoped ==
    par.panic = "no" =>
        /\ tok.inVPre = par.inVPre
        /\ par.inVPre <=> par.vPreBoundary # None
        /\ par.inVPre => par.vPreBoundary \in {par.openTag} \cup Range(par.stack)
        /\ tok.done => (par.inVPre => par.openTag # None)

(* The first place from there on where a text stands, else the end.        *)
FirstAt(from, Stands(_)) ==
    LET places == {i \in from..(Size - 1) : Stands(i)} IN IF places = {} THEN Size ELSE Min(places)

EndTagAt(tag, i) ==
    LET end == i + 2 + Len(tag)
    IN  end < Size /\ ToLower(Slice(i, end)) = <<"<", "/">> \o tag /\ At(end) \in {">", " "}

CommentEndAt(i) == i + 3 <= Size /\ Slice(i, i + 3) = CommentEnd.text

(* Raw text goes to the first end tag; no text, if that comes at once.     *)
RawToEndTag(i) ==
    LET n == par.nodes[i]
        to == FirstAt(n.open, LAMBDA k : EndTagAt(n.tag, k))
    IN  IF n.open = to THEN Children(i) = {}
        ELSE \E k \in Children(i) :
                /\ Children(i) = {k} /\ par.nodes[k].kind = "text"
                /\ par.nodes[k].pos = n.open /\ par.nodes[k].end = to

(* A block with raw text: a root element that is not a template and has a  *)
(* content.  After half an end tag only its first character starts another *)
(* match: stateInRCDATA, so a name with a "<" may be overlooked.           *)
RawBlocks ==
    {i \in InTree :
        LET n == par.nodes[i]
        IN  /\ n.kind = "element" /\ n.parent = 0 /\ n.tag \notin VoidTags \cup {Template}
            /\ At(n.open - 1) = ">" /\ n.end # n.open /\ "<" \notin Range(n.tag)}

(* A raw block with a name of single bytes holds one text, exactly to its  *)
(* first end tag, and a comment goes to its first "-->": the tokenizer     *)
(* finds them wherever they begin, after half a match and after characters *)
(* of several bytes: stateInRCDATA, stateInCommentLike, fastForwardTo,     *)
(* parse.                                                                  *)
RawWhole ==
    Ended =>
        /\ \A i \in RawBlocks : WideName(i) \/ RawToEndTag(i)
        /\ \A i \in InTree :
              LET n == par.nodes[i]
              IN  n.kind = "comment" /\ n.pos >= 0 /\ At(n.pos) = "<" /\ At(n.pos + 1) = "!"
                  => To(n) = FirstAt(From(n), CommentEndAt)

EndsWith(text) == tok.index >= Len(text) /\ Slice(tok.index - Len(text), tok.index) = text

(* The parser panics on no file but those with a comment of one or two     *)
(* dashes, an end in a closing or self-closing tag, a nameless directive,  *)
(* or a script whose start tag another tag cuts short.                     *)
KnownPanics ==
    /\ par.panic \in {"no", "oncomment", "ontext", "AsDirective", "script has more than 1 child"}
    /\ par.panic = "oncomment" =>
          EndsWith(<<"<", "!", "-", "-", ">">>) \/ EndsWith(<<"<", "!", "-", "-", "-", ">">>)
    /\ par.panic = "ontext" => tok.done /\ tok.state \in {"AfterClosingTagName", "InSelfClosingTag"}
    /\ par.panic = "AsDirective" => par.prop.name = <<"v", "-">>
    /\ par.panic = "script has more than 1 child" =>
          \E i \in InTree : par.nodes[i].tag = Script /\ par.nodes[i].parent = 0 /\ CutShort(par.nodes[i])
=============================================================================
