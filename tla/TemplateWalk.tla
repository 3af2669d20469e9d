---------------------------- MODULE TemplateWalk ----------------------------
(***************************************************************************)
(* internal/vue/codegen/template.go: the walk over a template that writes  *)
(* the service code.  v-if chains become if statements, v-for and v-slot   *)
(* become blocks with scopes of their own, a handler of several statements *)
(* begins with guards that repeat the conditions around it, a comment      *)
(* @vue-ignore or @vue-expect-error marks the code of what follows it.     *)
(*                                                                         *)
(* The template is not fixed in advance: a step visits one more node, or   *)
(* leaves the innermost element, so every template of at most MaxNodes     *)
(* nodes is walked.  The service text is a sequence of tokens.             *)
(***************************************************************************)
EXTENDS Integers, Sequences, FiniteSets

CONSTANTS
    Catalogues,     \* sets of leaves and elements a template is made of
    MaxNodes,
    None

ASSUME MaxNodesAssumption == MaxNodes \in Nat

(* Conditional directives are no others than these three. *)
ASSUME CataloguesAssumption ==
    \A n \in UNION Catalogues :
        /\ n.kind \in {"comment", "text", "interpolation", "element"}
        /\ n.kind = "comment" => n.directive \in {"none", "ignore", "expect"}
        /\ n.kind = "element" /\ n.conds # <<>> => n.conds[1].dir \in {"if", "else-if", "else"}

VARIABLES
    catalogue,      \* the one this template uses
    nodes,          \* the nodes visited so far, in document order
    open,           \* the calls of visit that are under way
    condChain,      \* none, valid or broken
    conds,          \* blockConditions
    saved,          \* blockConditionsChainSaveLen
    scopes,
    parentCtx,      \* whether parentComponentVar is set
    ignoring,       \* the comment behind ignoreError, or 0
    expecting,      \* the comment behind expectError, or 0
    out,            \* serviceText
    marks,          \* ignoreDirectives and expectErrorDirectives
    done

vars == <<catalogue, nodes, open, condChain, conds, saved, scopes, parentCtx,
          ignoring, expecting, out, marks, done>>

Init ==
    /\ catalogue \in Catalogues
    /\ nodes = <<>>
    /\ open = <<>>
    /\ condChain = "none"
    /\ conds = <<>>
    /\ saved = 0
    /\ scopes = <<>>
    /\ parentCtx = FALSE
    /\ ignoring = 0 /\ expecting = 0
    /\ out = <<>>
    /\ marks = {}
    /\ done = FALSE

Last(s) == s[Len(s)]
AllButLast(s) == SubSeq(s, 1, Len(s) - 1)

Parent == IF open = <<>> THEN 0 ELSE Last(open).node
This == Len(nodes) + 1
Grow(n) == nodes' = Append(nodes, [parent |-> Parent, is |-> n])
MoreNodes == ~done /\ Len(nodes) < MaxNodes

-----------------------------------------------------------------------------
(* What is written.                                                        *)

Token(t) == [t |-> t, node |-> 0]

(* A name in an expression: bare, or a property of __VLS_ctx.              *)
Use(scs, name, i, part) ==
    IF name = None THEN <<>>
    ELSE <<[t |-> "use", node |-> i, part |-> part, name |-> name,
            bare |-> \E k \in DOMAIN scs : name \in scs[k]]>>

(* declareScopeVar *)
Declare(scs, name) ==
    IF name = None \/ scs = <<>> THEN scs
    ELSE [scs EXCEPT ![Len(scs)] = @ \cup {name}]

Declaration(name, i, part) ==
    IF name = None THEN <<>>
    ELSE <<[t |-> "declare", node |-> i, part |-> part, name |-> name]>>

(* An expression reads a name, a function in it declares a variable, and   *)
(* behind the function it reads one more.  The variable goes into the      *)
(* innermost scope of the template, and stays there.                       *)
MapExpression(x, scs, i, part) ==
    IF x = None THEN <<>>
    ELSE Use(scs, x.uses, i, part) \o Declaration(x.declares, i, part)
           \o Use(Declare(scs, x.declares), x.then, i, part)

ScopesAfter(x, scs) == IF x = None THEN scs ELSE Declare(scs, x.declares)

(* exitScope *)
ExitScope(scs) == IF scs = <<>> THEN scs ELSE AllButLast(scs)

(* generateEventExpression: the guards are for handlers that are more than *)
(* one function or name; $event has a scope of its own, in which a         *)
(* variable of such a handler is declared.                                 *)
Handler(on, scs, cs, i) ==
    CASE on = None -> <<>>
      [] on # None /\ on.compound ->
            <<[t |-> "guards", node |-> i, guards |-> cs]>>
              \o MapExpression(on.code, Append(scs, {"$event"}), i, "event")
      [] OTHER -> MapExpression(on.code, scs, i, "on")

ScopesAfterHandler(on, scs) ==
    IF on = None \/ on.compound THEN scs ELSE ScopesAfter(on.code, scs)

(* mapIgnoreDirective, mapExpectErrorDirective.  Tokens from + 1 to to.    *)
Mark(kind, comment, from, to) == [kind |-> kind, comment |-> comment, from |-> from, to |-> to]

MarksOf(from, to) ==
    IF ignoring # 0 THEN {Mark("ignore", ignoring, from, to)}
    ELSE IF expecting # 0 THEN {Mark("expect", expecting, from, to)}
    ELSE {}

(* A directive with nothing to mark gets an empty range at the beginning.  *)
UnusedMark == IF expecting # 0 THEN {Mark("expect", expecting, 0, 0)} ELSE {}

(* Mutant: the flags stay set. *)
KeepFlags == UNCHANGED <<ignoring, expecting>>

ClearFlags == ignoring' = 0 /\ expecting' = 0

-----------------------------------------------------------------------------
(* Leaves.                                                                 *)

VisitComment ==
    /\ MoreNodes
    /\ \E n \in catalogue :
          /\ n.kind = "comment"
          /\ Grow(n)
          /\ marks' = marks \cup UnusedMark
          /\ ignoring' = IF n.directive = "ignore" THEN This ELSE 0
          /\ expecting' = IF n.directive = "expect" THEN This ELSE 0
    /\ UNCHANGED <<catalogue, open, condChain, conds, saved, scopes, parentCtx, out, done>>

(* Text of blanks only changes nothing and is not a node here.             *)
VisitText ==
    /\ MoreNodes
    /\ \E n \in catalogue : n.kind = "text" /\ Grow(n)
    /\ marks' = marks \cup UnusedMark
    /\ ClearFlags
    /\ UNCHANGED <<catalogue, open, condChain, conds, saved, scopes, parentCtx, out, done>>

VisitInterpolation ==
    /\ MoreNodes
    /\ \E n \in catalogue :
          /\ n.kind = "interpolation"
          /\ Grow(n)
          /\ out' = out \o <<Token("text")>> \o MapExpression(n.code, scopes, This, "text")
          /\ scopes' = ScopesAfter(n.code, scopes)
    /\ marks' = marks \cup MarksOf(Len(out), Len(out'))
    /\ ClearFlags
    /\ UNCHANGED <<catalogue, open, condChain, conds, saved, parentCtx, done>>

-----------------------------------------------------------------------------
(* Elements: v-if, v-else-if and v-else.                                   *)

(* Of several on one element the first counts, the others are reported.    *)
FirstDirective(e) == IF e.conds = <<>> THEN "none" ELSE e.conds[1].dir

(* conditionalDirective *)
Effective(e) ==
    LET d == FirstDirective(e)
    IN  IF d = "if" \/ (d \in {"else-if", "else"} /\ condChain = "valid") THEN d ELSE "none"

(* Mutant: an element without a directive does not end the chain. *)
ChainGoesOn(e) ==
    CASE FirstDirective(e) = "if" -> "valid"
      [] FirstDirective(e) = "else-if" /\ condChain = "none" -> "broken"
      [] FirstDirective(e) = "else" /\ condChain = "valid" -> "none"
      [] OTHER -> condChain

ChainAfter(e) ==
    CASE FirstDirective(e) = "if" -> "valid"
      [] FirstDirective(e) = "else-if" /\ condChain = "none" -> "broken"
      [] FirstDirective(e) = "else" /\ condChain = "valid" -> "none"
      [] FirstDirective(e) = "none" -> "none"
      [] OTHER -> condChain

(* Conditions are held as the node they are of and whether they are negated. *)
NegateLast(cs) == IF cs = <<>> THEN cs ELSE [cs EXCEPT ![Len(cs)].neg = ~@]
Condition(i) == [of |-> i, neg |-> FALSE]

(* A chain that was left open ends where the next begins. *)
Restored == IF condChain = "valid" THEN SubSeq(conds, 1, saved) ELSE conds

(* Mutant: the length is saved before the chain before is cut off. *)
ChainStartBeforeCut == Len(conds)

ChainStart == Len(Restored)

(* Mutant: the last condition is not negated. *)
CondsAfterUnnegated(e) ==
    CASE Effective(e) = "if" -> Append(Restored, Condition(This))
      [] Effective(e) = "else-if" -> Append(conds, Condition(This))
      [] FirstDirective(e) = "none" -> Restored
      [] OTHER -> conds

CondsAfter(e) ==
    CASE Effective(e) = "if" -> Append(Restored, Condition(This))
      [] Effective(e) = "else-if" -> Append(NegateLast(conds), Condition(This))
      [] Effective(e) = "else" -> NegateLast(conds)
      [] FirstDirective(e) = "none" -> Restored
      [] OTHER -> conds

(* A v-else has no condition, and one that is not followed writes none.    *)
Tested(e) == IF Effective(e) \in {"if", "else-if"} THEN e.conds[1].code ELSE None

BranchHead(e) ==
    IF Effective(e) = "none" THEN <<>>
    ELSE <<[t |-> Effective(e), node |-> This]>> \o MapExpression(Tested(e), scopes, This, "cond")

CondScopes(e) == ScopesAfter(Tested(e), scopes)

-----------------------------------------------------------------------------
(* Elements: v-for, the element itself, v-slot.                            *)

(* The variables of the loop are declared before its source is written.    *)
LoopScopes(e) == Append(CondScopes(e), {e.for.binds})

ForHead(e) ==
    IF e.for = None THEN <<>>
    ELSE <<[t |-> "for", node |-> This]>> \o MapExpression(e.for.source, LoopScopes(e), This, "source")

ForScopes(e) == IF e.for = None THEN CondScopes(e) ELSE ScopesAfter(e.for.source, LoopScopes(e))

(* A native element has its handlers before what it binds.  What is bound  *)
(* on a component is written twice, for its constructor and for the call,  *)
(* and its handlers follow.                                                *)
Own(e, scs, cs) ==
    LET own     == <<[t |-> "own", node |-> This]>>
        bound   == ScopesAfter(e.prop, scs)
        handled == ScopesAfterHandler(e.on, scs)
    IN  CASE e.tag = "native" ->
                own \o Handler(e.on, scs, cs, This) \o MapExpression(e.prop, handled, This, "prop")
          [] e.tag = "component" ->
                own \o MapExpression(e.prop, scs, This, "prop") \o MapExpression(e.prop, bound, This, "prop")
                  \o Handler(e.on, ScopesAfter(e.prop, bound), cs, This)
          [] OTHER -> <<>>

OwnScopes(e, scs) ==
    CASE e.tag = "native" -> ScopesAfter(e.prop, ScopesAfterHandler(e.on, scs))
      [] e.tag = "component" -> ScopesAfterHandler(e.on, ScopesAfter(e.prop, ScopesAfter(e.prop, scs)))
      [] OTHER -> scs

HasCtx(e) == e.tag = "component"
Bound(e) == e.slot # None /\ e.slot.binds # None

(* A slot whose parent is a component, and that binds something.           *)
OpensSlot(e) == Bound(e) /\ (HasCtx(e) \/ parentCtx)

SlotHead(e) == IF OpensSlot(e) THEN <<[t |-> "slot", node |-> This]>> ELSE <<>>

OpenElement ==
    /\ MoreNodes
    /\ \E e \in catalogue :
          /\ e.kind = "element"
          /\ Grow(e)
          /\ LET cs  == CondsAfter(e)
                 own == OwnScopes(e, ForScopes(e))
             IN  /\ conds' = cs
                 /\ saved' = IF Effective(e) = "if" THEN ChainStart ELSE saved
                 /\ scopes' = IF OpensSlot(e) THEN Append(own, {e.slot.binds}) ELSE own
                 /\ out' = out \o BranchHead(e) \o ForHead(e) \o Own(e, ForScopes(e), cs) \o SlotHead(e)
          /\ open' = Append(open, [node |-> This, chain |-> ChainAfter(e), ctx |-> parentCtx,
                                   branch |-> Effective(e)])
          /\ parentCtx' = HasCtx(e)
    /\ condChain' = "none"
    /\ marks' = marks \cup MarksOf(Len(out), Len(out'))
    /\ UNCHANGED <<catalogue, ignoring, expecting, done>>

(* Behind the children. *)
Closes(e, branch) ==
    LET one(b) == IF b THEN <<Token("}")>> ELSE <<>>
    IN  one(Bound(e)) \o one(e.for # None) \o one(branch # "none")

(* Mutant: the scope of a slot is not left. *)
ScopesLeftOnce(e) == IF e.for # None \/ Bound(e) THEN ExitScope(scopes) ELSE scopes

ScopesLeft(e) ==
    LET inner == IF Bound(e) THEN ExitScope(scopes) ELSE scopes
    IN  IF e.for # None THEN ExitScope(inner) ELSE inner

CloseElement ==
    /\ open # <<>>
    /\ LET call == Last(open)
           e    == nodes[call.node].is
       IN  /\ conds' = IF call.branch = "else" THEN SubSeq(Restored, 1, saved) ELSE Restored
           /\ condChain' = call.chain
           /\ parentCtx' = call.ctx
           /\ scopes' = ScopesLeft(e)
           /\ out' = out \o Closes(e, call.branch)
    /\ open' = AllButLast(open)
    /\ ClearFlags
    /\ UNCHANGED <<catalogue, nodes, saved, marks, done>>

(* generateTemplate, behind the last root. *)
Finish ==
    /\ ~done /\ open = <<>>
    /\ done' = TRUE
    /\ conds' = Restored
    /\ UNCHANGED <<catalogue, nodes, open, condChain, saved, scopes, parentCtx,
                   ignoring, expecting, out, marks>>

Next ==
    \/ VisitComment \/ VisitText \/ VisitInterpolation
    \/ OpenElement \/ CloseElement \/ Finish

Spec == Init /\ [][Next]_vars

-----------------------------------------------------------------------------
(* What the template means, from its nodes alone.                          *)

Nodes == DOMAIN nodes
Elements == {i \in Nodes : nodes[i].is.kind = "element"}

(* The elements a node is in; 0 stands for the template itself.            *)
Above[i \in 0..Len(nodes)] ==
    IF i = 0 THEN {} ELSE {nodes[i].parent} \cup Above[nodes[i].parent]

ElementsAbove(i) == Above[i] \ {0}

(* The sibling element before a node.                                      *)
ElementBefore(i) ==
    LET before == {j \in Elements : j < i /\ nodes[j].parent = nodes[i].parent}
    IN  IF before = {} THEN 0 ELSE CHOOSE j \in before : \A k \in before : k <= j

(* What an element's own branch of its chain says: the branches before it  *)
(* were not taken, it is.  No branch: nothing.                             *)
Branch[i \in 0..Len(nodes)] ==
    IF i = 0 THEN <<>>
    ELSE LET d == FirstDirective(nodes[i].is)
             b == ElementBefore(i)
             goesOn == b # 0 /\ FirstDirective(nodes[b].is) \in {"if", "else-if"} /\ Branch[b] # <<>>
         IN  CASE d = "if" -> <<Condition(i)>>
               [] d = "else-if" /\ goesOn -> Append(NegateLast(Branch[b]), Condition(i))
               [] d = "else" /\ goesOn -> NegateLast(Branch[b])
               [] OTHER -> <<>>

InForce[i \in 0..Len(nodes)] ==
    IF i = 0 THEN <<>> ELSE InForce[nodes[i].parent] \o Branch[i]

(* The scopes a part of a node stands in, in the order they were entered:  *)
(* those of the loops and slots around it; that of its own loop, unless it *)
(* is the condition; that of $event.                                       *)
LoopScope(i)  == [at |-> 3 * i, names |-> {nodes[i].is.for.binds}]
SlotScope(i)  == [at |-> 3 * i + 1, names |-> {nodes[i].is.slot.binds}]
EventScope(i) == [at |-> 3 * i + 2, names |-> {"$event"}]

InLoop == {"source", "on", "event", "prop"}

ScopesAround(i, part) ==
    {LoopScope(j) : j \in {j \in ElementsAbove(i) : nodes[j].is.for # None}}
      \cup {SlotScope(j) : j \in {j \in ElementsAbove(i) : Bound(nodes[j].is)}}
      \cup (IF part \in InLoop /\ nodes[i].is.for # None THEN {LoopScope(i)} ELSE {})
      \cup (IF part = "event" THEN {EventScope(i)} ELSE {})

Innermost(scope, i, part) ==
    scope \in ScopesAround(i, part) /\ \A s \in ScopesAround(i, part) : s.at <= scope.at

StraySlot(i) ==
    /\ i \in Elements
    /\ Bound(nodes[i].is)
    /\ ~HasCtx(nodes[i].is)
    /\ nodes[i].parent = 0 \/ ~HasCtx(nodes[nodes[i].parent].is)

(* A chain whose branch has a chain inside, and which a later node is not in. *)
NestedChainBefore(i) ==
    \E b \in Elements : b < i /\ b \notin Above[i] /\ Branch[b] # <<>>
        /\ \E k \in Elements : b \in Above[k] /\ Branch[k] # <<>>

-----------------------------------------------------------------------------
(* Properties. *)

Tokens(t) == {k \in DOMAIN out : out[k].t = t}

(* Cutting the conditions back to the saved length never lengthens them:   *)
(* in Go the slice would show conditions dropped before, or panic.         *)
SavedFits == saved <= Len(conds)

(* The guards of a handler are the conditions it stands under: those of    *)
(* the branches around it, each after the negations of the branches before *)
(* it (generateEventExpression).                                           *)
GuardsInForce ==
    \A k \in Tokens("guards") : out[k].guards = InForce[out[k].node]

(* So they are unless a branch that was left had a chain inside: the inner *)
(* chain overwrites the length the outer one saved.                        *)
GuardsUnlessNested ==
    \A k \in Tokens("guards") :
        out[k].guards = InForce[out[k].node] \/ NestedChainBefore(out[k].node)

(* What was declared in a scope before the k-th token: by whatever         *)
(* expression the scope was the innermost of.                              *)
DeclaredIn(scope, k) ==
    {out[l].name : l \in {l \in Tokens("declare") : l < k /\ Innermost(scope, out[l].node, out[l].part)}}

(* A name is bare exactly where a loop or a slot around it binds it, a     *)
(* handler has it as $event, or a function of an expression before it      *)
(* declared it in one of the scopes around it: a scope holds nothing of an *)
(* element that was left, and loses nothing before its own is left (so the *)
(* variable of a function is bare behind the function too).  Not so        *)
(* everything behind a slot that belongs to no component, which is         *)
(* reported.                                                               *)
BareIffBound ==
    \A k \in Tokens("use") :
        LET u == out[k]
        IN  \/ u.bare <=> \E s \in ScopesAround(u.node, u.part) : u.name \in s.names \cup DeclaredIn(s, k)
            \/ \E j \in Nodes : j < u.node /\ StraySlot(j)

(* The blocks of the service text as a stack; a brace without a block      *)
(* stays on it.                                                            *)
Opening == {"if", "else-if", "else", "for", "slot"}

Blocks[k \in 0..Len(out)] ==
    IF k = 0 THEN <<>>
    ELSE LET s == Blocks[k - 1]
         IN  CASE out[k].t \in Opening -> Append(s, out[k])
               [] out[k].t = "}" -> IF s # <<>> /\ Last(s).t # "}" THEN AllButLast(s)
                                    ELSE Append(s, out[k])
               [] OTHER -> s

(* Every brace closes a block, every block of a finished element is        *)
(* closed, and an else stands directly behind the block it belongs to.     *)
(* Not so: text between two branches, and a slot that belongs to no        *)
(* component.                                                              *)
ElseBehindIf ==
    \A k \in Tokens("else-if") \cup Tokens("else") :
        /\ k > 1 /\ out[k - 1].t = "}"
        /\ Blocks[k - 2] # <<>>
        /\ LET closed == Last(Blocks[k - 2])
           IN  closed.t \in {"if", "else-if"} /\ closed.node = ElementBefore(out[k].node)

TextBetweenBranches ==
    \E i \in Elements : FirstDirective(nodes[i].is) \in {"else-if", "else"} /\
        \E j \in Nodes : /\ nodes[j].is.kind = "interpolation"
                         /\ nodes[j].parent = nodes[i].parent
                         /\ ElementBefore(i) < j /\ j < i

BlocksMatch ==
    \/ \E i \in Nodes : StraySlot(i)
    \/ /\ LET blocks == Blocks[Len(out)]
          IN  \A i \in DOMAIN blocks :
                 blocks[i].t # "}" /\ \E k \in DOMAIN open : blocks[i].node = open[k].node
       /\ ElseBehindIf \/ TextBetweenBranches

(* A comment marks the code of the sibling behind it.  The element it      *)
(* marks hands it on to its first child, so that what an expect-error      *)
(* comment expects is expected there once more.                            *)
Follower(c) ==
    LET after == {j \in Nodes : j > c /\ nodes[j].parent = nodes[c].parent}
    IN  IF after = {} THEN 0 ELSE CHOOSE j \in after : \A k \in after : j <= k

Heirs[c \in Nodes] ==     \* the sibling, its first child, and so on
    LET f == IF nodes[c].is.kind = "element"
             THEN (IF c + 1 \in Nodes /\ nodes[c + 1].parent = c THEN c + 1 ELSE 0)
             ELSE Follower(c)
    IN  IF f = 0 THEN {}
        ELSE {f} \cup (IF nodes[f].is.kind = "element" THEN Heirs[f] ELSE {})

CodeOf(i) == {k \in DOMAIN out : out[k].node = i /\ out[k].t # "}"}

MarksWhatFollows ==
    \A c \in {i \in Nodes : nodes[i].is.kind = "comment" /\ nodes[i].is.directive # "none"} :
        LET mine == {m \in marks : m.comment = c}
        IN  /\ \A f \in Heirs[c] :
                  nodes[f].is.kind = "element" => \E m \in mine : \A k \in CodeOf(f) : m.from < k /\ k <= m.to
            /\ \A m \in mine : \A k \in (m.from + 1)..m.to :
                  \E f \in Heirs[c] : k \in CodeOf(f) \/ out[k].t = "text"
            /\ nodes[c].is.directive = "expect" /\ Heirs[c] # {} => mine # {}
=============================================================================
