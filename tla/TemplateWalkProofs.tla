------------------------- MODULE TemplateWalkProofs -------------------------
(***************************************************************************)
(* Proofs about TemplateWalk, for any template of any size: the conditions *)
(* of v-if chains are never cut to more than there are, a name is bare     *)
(* exactly where a scope around it binds it or has had it declared by a    *)
(* function, the blocks of the service text are opened and closed in step  *)
(* with the elements, the guards of a handler are the conditions its       *)
(* element stands under, and a comment marks the code of what follows it.  *)
(***************************************************************************)
EXTENDS TemplateWalk, SequenceTheorems, FiniteSetTheorems, WellFoundedInduction, TLAPS

Conditions == [of : Nat, neg : BOOLEAN]
Chains == {"none", "valid", "broken"}
VisitedNodes == [parent : Nat, is : UNION Catalogues]
Visits == [node : Nat, chain : Chains, ctx : BOOLEAN, branch : {"none", "if", "else-if", "else"}]

WalkTyped ==
    /\ catalogue \in Catalogues
    /\ nodes \in Seq(VisitedNodes)
    /\ open \in Seq(Visits)
    /\ condChain \in Chains
    /\ parentCtx \in BOOLEAN

(* The conditions are at least as many as were saved.                      *)
ChainInv ==
    /\ WalkTyped
    /\ conds \in Seq(Conditions)
    /\ saved \in Nat
    /\ saved <= Len(conds)

(* Cutting keeps what is saved. *)
LEMMA RestoredKeeps ==
    ASSUME ChainInv
    PROVE  Restored \in Seq(Conditions) /\ saved <= Len(Restored)
<1>1. CASE condChain = "valid"
  <2>1. SubSeq(conds, 1, saved) \in Seq(Conditions) /\ Len(SubSeq(conds, 1, saved)) = saved
    BY SubSeqProperties DEF ChainInv
  <2>. QED
    BY <1>1, <2>1 DEF Restored, ChainInv
<1>2. CASE condChain # "valid"
  BY <1>2 DEF Restored, ChainInv
<1>. QED
  BY <1>1, <1>2

(* Negating the last condition keeps their number. *)
LEMMA NegateLastKeeps ==
    ASSUME NEW cs \in Seq(Conditions)
    PROVE  NegateLast(cs) \in Seq(Conditions) /\ Len(NegateLast(cs)) = Len(cs)
<1>1. CASE cs = <<>>
  BY <1>1 DEF NegateLast
<1>2. CASE cs # <<>>
  <2>. DEFINE last == Len(cs)
  <2>1. last \in DOMAIN cs /\ cs[last] \in Conditions
    BY <1>2
  <2>2. [cs[last] EXCEPT !.neg = ~@] \in Conditions
    BY <2>1, Zenon DEF Conditions
  <2>3. NegateLast(cs) = [cs EXCEPT ![last] = [cs[last] EXCEPT !.neg = ~@]]
    BY <1>2 DEF NegateLast
  <2>. QED
    BY <2>1, <2>2, <2>3
<1>. QED
  BY <1>1, <1>2

(* The branches of an element's chain. *)
LEMMA BranchType ==
    ASSUME NEW e, ChainInv
    PROVE  Effective(e) \in {"none", "if", "else-if", "else"} /\ ChainAfter(e) \in Chains
BY DEF Effective, ChainAfter, ChainInv, WalkTyped, Chains

(* Whatever an element does to the conditions, those saved stay.           *)
LEMMA CondsAfterKeep ==
    ASSUME NEW e, ChainInv
    PROVE  /\ CondsAfter(e) \in Seq(Conditions)
           /\ Effective(e) = "if" => ChainStart <= Len(CondsAfter(e))
           /\ Effective(e) # "if" => saved <= Len(CondsAfter(e))
<1>1. Restored \in Seq(Conditions) /\ saved <= Len(Restored) /\ Len(Restored) \in Nat
  BY RestoredKeeps
<1>2. conds \in Seq(Conditions) /\ Len(conds) \in Nat /\ saved \in Nat /\ saved <= Len(conds)
  BY DEF ChainInv
<1>3. Condition(This) \in Conditions
  <2>1. This \in Nat
    BY DEF This, ChainInv, WalkTyped
  <2>. QED
    BY <2>1 DEF Condition, Conditions
<1>4. CASE Effective(e) = "if"
  BY <1>1, <1>3, <1>4 DEF CondsAfter, ChainStart
<1>5. CASE Effective(e) = "else-if"
  <2>1. CondsAfter(e) = Append(NegateLast(conds), Condition(This))
    BY <1>5 DEF CondsAfter, Effective
  <2>2. NegateLast(conds) \in Seq(Conditions) /\ Len(NegateLast(conds)) = Len(conds)
    BY <1>2, NegateLastKeeps
  <2>. QED
    BY <1>2, <1>3, <1>5, <2>1, <2>2
<1>6. CASE Effective(e) = "else"
  <2>1. CondsAfter(e) = NegateLast(conds)
    BY <1>6 DEF CondsAfter, Effective
  <2>2. NegateLast(conds) \in Seq(Conditions) /\ Len(NegateLast(conds)) = Len(conds)
    BY <1>2, NegateLastKeeps
  <2>. QED
    BY <1>2, <1>6, <2>1, <2>2
<1>7. CASE Effective(e) = "none"
  <2>1. CondsAfter(e) = Restored \/ CondsAfter(e) = conds
    BY <1>7 DEF CondsAfter
  <2>. QED
    BY <1>1, <1>2, <1>7, <2>1
<1>. QED
  BY <1>4, <1>5, <1>6, <1>7, BranchType

(* A node in no element has the parent 0. *)
LEMMA ParentType ==
    ASSUME ChainInv
    PROVE  Parent \in Nat /\ This \in Nat
<1>1. This \in Nat
  BY DEF This, ChainInv, WalkTyped
<1>2. CASE open = <<>>
  BY <1>1, <1>2 DEF Parent
<1>3. CASE open # <<>>
  <2>1. open[Len(open)] \in Visits
    BY <1>3 DEF ChainInv, WalkTyped
  <2>. QED
    BY <1>1, <1>3, <2>1 DEF Parent, Last, Visits
<1>. QED
  BY <1>1, <1>2, <1>3

(* The nodes stay a sequence of nodes. *)
LEMMA GrowType ==
    ASSUME ChainInv, NEW n \in catalogue, Grow(n)
    PROVE  nodes' \in Seq(VisitedNodes)
<1>1. n \in UNION Catalogues
  BY DEF ChainInv, WalkTyped
<1>2. [parent |-> Parent, is |-> n] \in VisitedNodes
  BY <1>1, ParentType DEF VisitedNodes
<1>. QED
  BY <1>2 DEF Grow, ChainInv, WalkTyped

(* Leaves leave the chain alone. *)
LEMMA LeafInv ==
    ASSUME ChainInv, VisitComment \/ VisitText \/ VisitInterpolation
    PROVE  ChainInv'
<1>1. /\ UNCHANGED <<catalogue, open, condChain, conds, saved, parentCtx>>
      /\ \E n \in catalogue : Grow(n)
  BY DEF VisitComment, VisitText, VisitInterpolation
<1>. QED
  BY <1>1, GrowType DEF ChainInv, WalkTyped

(* An element before its children. *)
LEMMA OpenElementInv ==
    ASSUME ChainInv, OpenElement
    PROVE  ChainInv'
<1>1. PICK e \in catalogue :
         /\ Grow(e)
         /\ conds' = CondsAfter(e)
         /\ saved' = IF Effective(e) = "if" THEN ChainStart ELSE saved
         /\ open' = Append(open, [node |-> This, chain |-> ChainAfter(e), ctx |-> parentCtx,
                                  branch |-> Effective(e)])
         /\ parentCtx' = HasCtx(e)
  BY Zenon DEF OpenElement
<1>2. nodes' \in Seq(VisitedNodes)
  BY <1>1, GrowType
<1>3. [node |-> This, chain |-> ChainAfter(e), ctx |-> parentCtx, branch |-> Effective(e)] \in Visits
  BY BranchType, ParentType DEF Visits, ChainInv, WalkTyped
<1>4. open' \in Seq(Visits)
  BY <1>1, <1>3 DEF ChainInv, WalkTyped
<1>5. WalkTyped'
  BY <1>1, <1>2, <1>4 DEF OpenElement, HasCtx, ChainInv, WalkTyped, Chains
<1>6. ChainStart \in Nat
  BY RestoredKeeps DEF ChainStart
<1>7. conds' \in Seq(Conditions) /\ saved' \in Nat /\ saved' <= Len(conds')
  BY <1>1, <1>6, CondsAfterKeep DEF ChainInv
<1>. QED
  BY <1>5, <1>7 DEF ChainInv

(* An element behind its children. *)
LEMMA CloseElementInv ==
    ASSUME ChainInv, CloseElement
    PROVE  ChainInv'
<1>. DEFINE call == open[Len(open)]
<1>1. /\ open # <<>>
      /\ conds' = (IF call.branch = "else" THEN SubSeq(Restored, 1, saved) ELSE Restored)
      /\ condChain' = call.chain /\ parentCtx' = call.ctx
      /\ open' = SubSeq(open, 1, Len(open) - 1)
      /\ UNCHANGED <<catalogue, nodes, saved>>
  BY DEF CloseElement, Last, AllButLast
<1>2. call \in Visits
  BY <1>1 DEF ChainInv, WalkTyped
<1>3. open' \in Seq(Visits)
  BY <1>1, SubSeqProperties DEF ChainInv, WalkTyped
<1>4. WalkTyped'
  BY <1>1, <1>2, <1>3 DEF ChainInv, WalkTyped, Visits
<1>5. Restored \in Seq(Conditions) /\ saved <= Len(Restored) /\ saved \in Nat
  BY RestoredKeeps DEF ChainInv
<1>6. SubSeq(Restored, 1, saved) \in Seq(Conditions) /\ Len(SubSeq(Restored, 1, saved)) = saved
  BY <1>5, SubSeqProperties
<1>7. conds' \in Seq(Conditions) /\ saved' <= Len(conds')
  BY <1>1, <1>5, <1>6
<1>. QED
  BY <1>1, <1>4, <1>5, <1>7 DEF ChainInv

(* Before the first node. *)
LEMMA ChainInit == Init => ChainInv
<1>. SUFFICES ASSUME Init PROVE ChainInv
  OBVIOUS
<1>1. <<>> \in Seq(Conditions) /\ <<>> \in Seq(VisitedNodes) /\ <<>> \in Seq(Visits)
  OBVIOUS
<1>2. WalkTyped
  BY <1>1 DEF Init, WalkTyped, Chains
<1>. QED
  BY <1>1, <1>2 DEF Init, ChainInv

(* Hence it holds in every state. *)
LEMMA ChainInvariant == Spec => []ChainInv
<1>1. Init => ChainInv
  BY ChainInit
<1>2. ChainInv /\ [Next]_vars => ChainInv'
  <2>. SUFFICES ASSUME ChainInv, [Next]_vars PROVE ChainInv'
    OBVIOUS
  <2>1. CASE VisitComment \/ VisitText \/ VisitInterpolation
    BY <2>1, LeafInv
  <2>2. CASE OpenElement
    BY <2>2, OpenElementInv
  <2>3. CASE CloseElement
    BY <2>3, CloseElementInv
  <2>4. CASE Finish
    BY <2>4, RestoredKeeps DEF Finish, ChainInv, WalkTyped
  <2>5. CASE UNCHANGED vars
    BY <2>5 DEF vars, ChainInv, WalkTyped
  <2>. QED
    BY <2>1, <2>2, <2>3, <2>4, <2>5 DEF Next
<1>. QED
  BY <1>1, <1>2, PTL DEF Spec

(* However v-if chains are nested, broken, ended or left open, the slice   *)
(* blockConditions[:blockConditionsChainSaveLen] is a prefix of what is    *)
(* there: it never panics, nor brings back conditions that were dropped.   *)
THEOREM ChainCutsFit == Spec => []SavedFits
<1>1. ChainInv => SavedFits
  BY DEF ChainInv, SavedFits
<1>. QED
  BY <1>1, ChainInvariant, PTL

-----------------------------------------------------------------------------
(* Numbers: the least of a set, induction, and functions whose values are  *)
(* computed from earlier ones.                                             *)

(* A set of numbers that is not empty has a least one. *)
LEMMA LeastNat ==
    ASSUME NEW S \in SUBSET Nat, S # {}
    PROVE  \E m \in S : \A k \in S : m <= k
<1>. DEFINE R == StrictSubsetOrdering(Nat)
            T == {1..k : k \in S}
<1>1. T \subseteq FiniteSubsetsOf(Nat) /\ T # {}
  <2>1. ASSUME NEW k \in S PROVE 1..k \in FiniteSubsetsOf(Nat)
    <3>1. IsFiniteSet(1..k)
      BY FS_Interval
    <3>2. 1..k \in SUBSET Nat
      OBVIOUS
    <3>. QED
      BY <3>1, <3>2 DEF FiniteSubsetsOf
  <2>. QED
    BY <2>1
<1>2. IsWellFoundedOn(R, FiniteSubsetsOf(Nat))
  BY FS_StrictSubsetOrderingWellFounded
<1>3. PICK x \in T : \A y \in T : <<y, x>> \notin R
  <2>. HIDE DEF R, T
  <2>. QED
    BY <1>1, <1>2, WFMin
<1>4. PICK m \in S : x = 1..m
  OBVIOUS
<1>5. ASSUME NEW k \in S, k < m PROVE FALSE
  <2>1. 1..k \subseteq 1..m /\ 1..k # 1..m
    BY <1>5
  <2>2. <<1..k, 1..m>> \in R
    BY <2>1 DEF StrictSubsetOrdering
  <2>. QED
    BY <1>3, <1>4, <2>2
<1>. QED
  BY <1>5

-----------------------------------------------------------------------------
(* The template as a tree: a node's parent comes before it, the calls      *)
(* under way are of the elements around the next node, outermost first.    *)

TreeInv ==
    /\ WalkTyped
    /\ \A i \in Nodes : nodes[i].parent \in 0..(i - 1)
    /\ \A k \in DOMAIN open :
          /\ open[k].node \in Elements
          /\ nodes[open[k].node].parent = IF k = 1 THEN 0 ELSE open[k - 1].node
    /\ \A j, k \in DOMAIN open : j < k => open[j].node < open[k].node

(* Nodes are numbered from 1, each is one a catalogue has. *)
LEMMA NodesAre ==
    ASSUME WalkTyped
    PROVE  /\ Len(nodes) \in Nat /\ Nodes = 1..Len(nodes)
           /\ \A i \in Nodes : nodes[i].is \in UNION Catalogues
           /\ Len(open) \in Nat /\ DOMAIN open = 1..Len(open)
           /\ \A k \in DOMAIN open : open[k] \in Visits
<1>1. nodes \in Seq(VisitedNodes) /\ open \in Seq(Visits)
  BY DEF WalkTyped
<1>2. /\ Len(nodes) \in Nat /\ DOMAIN nodes = 1..Len(nodes)
      /\ \A i \in DOMAIN nodes : nodes[i] \in VisitedNodes
      /\ Len(open) \in Nat /\ DOMAIN open = 1..Len(open)
      /\ \A k \in DOMAIN open : open[k] \in Visits
  BY <1>1
<1>3. \A v \in VisitedNodes : v.is \in UNION Catalogues
  BY Zenon DEF VisitedNodes
<1>. QED
  BY <1>2, <1>3 DEF Nodes

(* The node a step visits is the last, below the innermost call; those     *)
(* before it are as they were.                                             *)
LEMMA Grown ==
    ASSUME WalkTyped, NEW n, Grow(n)
    PROVE  /\ Len(nodes') = This /\ This = Len(nodes) + 1 /\ This \in Nat
           /\ nodes'[This] = [parent |-> Parent, is |-> n]
           /\ \A i \in Nodes : nodes'[i] = nodes[i]
           /\ Nodes' = Nodes \cup {This} /\ This \notin Nodes
           /\ DOMAIN nodes' = 1..This
<1>1. nodes \in Seq(VisitedNodes) /\ Len(nodes) \in Nat
  BY DEF WalkTyped
<1>2. nodes' = Append(nodes, [parent |-> Parent, is |-> n])
  BY DEF Grow
<1>. QED
  BY <1>1, <1>2 DEF This, Nodes

(* The node visited next is below the innermost call. *)
LEMMA ParentIs ==
    ASSUME TreeInv
    PROVE  /\ Parent = (IF open = <<>> THEN 0 ELSE open[Len(open)].node)
           /\ Parent \in 0..Len(nodes)
           /\ open # <<>> => Parent \in Elements
           /\ \A k \in DOMAIN open : open[k].node <= Parent
<1>1. Len(open) \in Nat /\ DOMAIN open = 1..Len(open) /\ Len(nodes) \in Nat /\ Nodes = 1..Len(nodes)
  BY NodesAre DEF TreeInv
<1>2. Parent = (IF open = <<>> THEN 0 ELSE open[Len(open)].node)
  BY DEF Parent, Last
<1>3. CASE open = <<>>
  BY <1>1, <1>2, <1>3
<1>4. CASE open # <<>>
  <2>1. Len(open) \in DOMAIN open
    BY <1>1, <1>4 DEF TreeInv, WalkTyped
  <2>2. open[Len(open)].node \in Elements
    BY <2>1 DEF TreeInv
  <2>3. \A k \in DOMAIN open : open[k].node \in 1..Len(nodes)
    BY <1>1 DEF TreeInv, Elements
  <2>4. ASSUME NEW k \in DOMAIN open PROVE open[k].node <= open[Len(open)].node
    BY <1>1, <2>1, <2>3, SMTT(30) DEF TreeInv
  <2>. QED
    BY <1>1, <1>2, <1>4, <2>2, <2>3, <2>4 DEF Elements
<1>. QED
  BY <1>3, <1>4

(* A leaf keeps the tree. *)
LEMMA TreeLeaf ==
    ASSUME TreeInv, WalkTyped', NEW n, Grow(n), UNCHANGED open
    PROVE  TreeInv'
<1>1. Len(nodes) \in Nat /\ Nodes = 1..Len(nodes)
  BY NodesAre DEF TreeInv
<1>2. /\ This = Len(nodes) + 1
      /\ nodes'[This].parent = Parent
      /\ \A i \in Nodes : nodes'[i] = nodes[i]
      /\ Nodes' = Nodes \cup {This}
  <2>1. WalkTyped
    BY DEF TreeInv
  <2>2. nodes'[This] = [parent |-> Parent, is |-> n]
    BY <2>1, Grown
  <2>. QED
    BY <2>1, <2>2, Grown
<1>3. \A i \in Nodes' : nodes'[i].parent \in 0..(i - 1)
  BY <1>1, <1>2, ParentIs DEF TreeInv
<1>4. Elements \subseteq Elements' /\ Elements \subseteq Nodes
  BY <1>2 DEF Elements
<1>5. \A k \in DOMAIN open :
        /\ open[k].node \in Elements'
        /\ nodes'[open[k].node].parent = IF k = 1 THEN 0 ELSE open[k - 1].node
  BY <1>2, <1>4 DEF TreeInv
<1>6. open' = open
  OBVIOUS
<1>7. \A j, k \in DOMAIN open' : j < k => open'[j].node < open'[k].node
  BY <1>6 DEF TreeInv
<1>. QED
  BY <1>3, <1>5, <1>6, <1>7 DEF TreeInv

(* An element, and the call for it, keep the tree. *)
LEMMA TreeOpen ==
    ASSUME TreeInv, WalkTyped', NEW e, e.kind = "element", Grow(e), NEW call, call.node = This,
           open' = Append(open, call), call \in Visits
    PROVE  TreeInv'
<1>1. /\ Len(nodes) \in Nat /\ Nodes = 1..Len(nodes)
      /\ Len(open) \in Nat /\ DOMAIN open = 1..Len(open)
  BY NodesAre DEF TreeInv
<1>2. /\ This = Len(nodes) + 1
      /\ nodes'[This].parent = Parent /\ nodes'[This].is = e
      /\ \A i \in Nodes : nodes'[i] = nodes[i]
      /\ Nodes' = Nodes \cup {This}
  <2>1. WalkTyped
    BY DEF TreeInv
  <2>2. nodes'[This] = [parent |-> Parent, is |-> e]
    BY <2>1, Grown
  <2>. QED
    BY <2>1, <2>2, Grown
<1>3. \A i \in Nodes' : nodes'[i].parent \in 0..(i - 1)
  BY <1>1, <1>2, ParentIs DEF TreeInv
<1>4. Elements \subseteq Elements' /\ This \in Elements' /\ Elements \subseteq Nodes
  BY <1>2 DEF Elements
<1>5. /\ DOMAIN open' = 1..(Len(open) + 1) /\ open'[Len(open) + 1] = call
      /\ \A k \in DOMAIN open : open'[k] = open[k]
  <2>1. open \in Seq(Visits)
    BY DEF TreeInv, WalkTyped
  <2>. QED
    BY <1>1, <2>1, AppendProperties
<1>6. open = <<>> <=> Len(open) = 0
  BY DEF TreeInv, WalkTyped
<1>7. ASSUME NEW k \in DOMAIN open'
      PROVE  /\ open'[k].node \in Elements'
             /\ nodes'[open'[k].node].parent = IF k = 1 THEN 0 ELSE open'[k - 1].node
  <2>1. CASE k = Len(open) + 1
    <3>1. nodes'[open'[k].node].parent = Parent
      BY <1>2, <1>5, <2>1
    <3>2. Parent = IF k = 1 THEN 0 ELSE open'[k - 1].node
      <4>1. Parent = IF open = <<>> THEN 0 ELSE open[Len(open)].node
        BY ParentIs
      <4>2. CASE open = <<>>
        BY <1>6, <2>1, <4>1, <4>2
      <4>3. CASE open # <<>>
        <5>1. Len(open) \in DOMAIN open /\ k # 1 /\ k - 1 = Len(open)
          BY <1>1, <1>6, <2>1, <4>3
        <5>. QED
          BY <1>5, <4>1, <4>3, <5>1
      <4>. QED
        BY <4>2, <4>3
    <3>. QED
      BY <1>4, <1>5, <2>1, <3>1, <3>2
  <2>2. CASE k # Len(open) + 1
    <3>1. k \in DOMAIN open /\ open'[k] = open[k] /\ (k # 1 => open'[k - 1] = open[k - 1])
      BY <1>1, <1>5, <2>2
    <3>2. open[k].node \in Elements /\ nodes[open[k].node].parent = IF k = 1 THEN 0 ELSE open[k - 1].node
      BY <3>1 DEF TreeInv
    <3>3. nodes'[open[k].node] = nodes[open[k].node]
      BY <1>2, <1>4, <3>2
    <3>. QED
      BY <1>4, <3>1, <3>2, <3>3
  <2>. QED
    BY <2>1, <2>2
<1>8. \A j, k \in DOMAIN open' : j < k => open'[j].node < open'[k].node
  <2>1. ASSUME NEW j \in DOMAIN open PROVE open[j].node < This
    <3>1. open[j].node \in 1..Len(nodes)
      BY <1>1, <1>4 DEF TreeInv
    <3>. QED
      BY <1>1, <1>2, <3>1
  <2>. QED
    BY <1>1, <1>5, <2>1 DEF TreeInv
<1>. QED
  BY <1>3, <1>7, <1>8 DEF TreeInv

(* The end of a call keeps the tree, and the calls around it. *)
LEMMA TreeClose ==
    ASSUME TreeInv, WalkTyped', open # <<>>, open' = AllButLast(open), UNCHANGED nodes
    PROVE  /\ TreeInv'
           /\ Len(open') = Len(open) - 1 /\ DOMAIN open' = 1..(Len(open) - 1)
           /\ \A k \in DOMAIN open' : open'[k] = open[k]
<1>1. Len(open) \in Nat \ {0} /\ DOMAIN open = 1..Len(open)
  BY DEF TreeInv, WalkTyped
<1>2. /\ Len(open') = Len(open) - 1 /\ DOMAIN open' = 1..(Len(open) - 1)
      /\ \A k \in DOMAIN open' : open'[k] = open[k]
  BY <1>1, SubSeqProperties DEF AllButLast, TreeInv, WalkTyped
<1>. QED
  BY <1>1, <1>2 DEF TreeInv, Elements, Nodes

-----------------------------------------------------------------------------
(* Induction over numbers, of which a set holds; and what it says about    *)
(* functions each of whose values is computed from one before it.          *)
LEMMA Induction ==
    ASSUME NEW n \in Nat, NEW S, \A i \in 0..n : (\A j \in 0..(i - 1) : j \in S) => i \in S
    PROVE  \A i \in 0..n : i \in S
<1>. DEFINE T == {i \in 0..n : i \notin S}
<1>1. SUFFICES ASSUME T # {} PROVE FALSE
  OBVIOUS
<1>2. T \in SUBSET Nat
  OBVIOUS
<1>3. PICK m \in T : \A k \in T : m <= k
  <2>. HIDE DEF T
  <2>. QED
    BY <1>1, <1>2, LeastNat
<1>4. ASSUME NEW j \in 0..(m - 1) PROVE j \in S
  BY <1>3
<1>. QED
  BY <1>3, <1>4

SameSoFar(n, g, h, p) ==
    /\ n \in Nat /\ g[0] = h[0]
    /\ \A i \in 1..n : p[i] \in 0..(i - 1) /\ (g[p[i]] = h[p[i]] => g[i] = h[i])

(* Two functions that agree at 0, and at a number when they agree at the   *)
(* one before it that its value is computed from, agree.                   *)
LEMMA Agree ==
    ASSUME NEW n, NEW g, NEW h, NEW p, SameSoFar(n, g, h, p)
    PROVE  \A i \in 0..n : g[i] = h[i]
<1>. /\ n \in Nat /\ g[0] = h[0]
     /\ \A i \in 1..n : p[i] \in 0..(i - 1) /\ (g[p[i]] = h[p[i]] => g[i] = h[i])
  BY DEF SameSoFar
<1>. DEFINE S == {i \in 0..n : g[i] = h[i]}
<1>1. ASSUME NEW i \in 0..n, \A j \in 0..(i - 1) : j \in S
      PROVE  i \in S
  <2>1. CASE i = 0
    BY <2>1
  <2>2. CASE i # 0
    <3>1. i \in 1..n
      BY <2>2
    <3>. QED
      BY <1>1, <3>1
  <2>. QED
    BY <2>1, <2>2
<1>2. \A i \in 0..n : i \in S
  <2>. HIDE DEF S
  <2>. QED
    BY <1>1, Induction
<1>. QED
  BY <1>2

(* Value i is G[i] of value p[i], and all are in V. *)
FromEarlier(n, V, v, p, G) ==
    /\ n \in Nat /\ v \in V
    /\ \A i \in 1..n : p[i] \in 0..(i - 1) /\ \A a \in V : G[i][a] \in V

(* A function computed from earlier values exists. *)
LEMMA Recursion ==
    ASSUME NEW n, NEW V, NEW v, NEW p, NEW G, FromEarlier(n, V, v, p, G)
    PROVE  \E g \in [0..n -> V] : g[0] = v /\ \A i \in 1..n : g[i] = G[i][g[p[i]]]
<1>. n \in Nat /\ v \in V /\ \A i \in 1..n : p[i] \in 0..(i - 1) /\ \A a \in V : G[i][a] \in V
  BY DEF FromEarlier
<1>. DEFINE Solves(g, m) == g \in [0..m -> V] /\ g[0] = v /\ \A i \in 1..m : g[i] = G[i][g[p[i]]]
            S == {m \in 0..n : \E g : Solves(g, m)}
<1>1. ASSUME NEW m \in 0..n, \A j \in 0..(m - 1) : j \in S
      PROVE  \E g : Solves(g, m)
  <2>1. CASE m = 0
    <3>. DEFINE z == [i \in 0..0 |-> v]
    <3>1. Solves(z, 0)
      OBVIOUS
    <3>. HIDE DEF Solves, z
    <3>. QED
      BY <2>1, <3>1
  <2>2. CASE m # 0
    <3>1. m - 1 \in S /\ m \in 1..n
      <4>1. m \in 1..n /\ m - 1 \in 0..(m - 1)
        BY <2>2
      <4>. HIDE DEF S
      <4>. QED
        BY <1>1, <4>1
    <3>2. PICK g : Solves(g, m - 1)
      <4>. HIDE DEF Solves
      <4>. QED
        BY <3>1
    <3>3. g \in [0..(m - 1) -> V] /\ g[0] = v /\ \A i \in 1..(m - 1) : g[i] = G[i][g[p[i]]]
      BY <3>2
    <3>. DEFINE h == [i \in 0..m |-> IF i = m THEN G[m][g[p[m]]] ELSE g[i]]
    <3>4. p[m] \in 0..(m - 1)
      BY <3>1
    <3>5. g[p[m]] \in V
      BY <3>3, <3>4
    <3>7. G[m][g[p[m]]] \in V
      BY <3>1, <3>5
    <3>8. \A i \in 0..(m - 1) : g[i] \in V
      BY <3>3
    <3>9. h \in [0..m -> V]
      BY <3>1, <3>7, <3>8
    <3>10. ASSUME NEW i \in 1..m PROVE h[i] = G[i][h[p[i]]]
      <4>1. p[i] \in 0..(i - 1)
        BY <3>1
      <4>2. p[i] \in 0..m /\ p[i] # m
        BY <3>1, <4>1
      <4>3. h[p[i]] = g[p[i]]
        BY <4>2
      <4>4. i # m => h[i] = g[i] /\ i \in 1..(m - 1)
        BY <3>1
      <4>5. i = m => h[i] = G[m][g[p[m]]]
        OBVIOUS
      <4>. HIDE DEF h
      <4>. QED
        BY <3>3, <4>3, <4>4, <4>5
    <3>11. h[0] = v
      BY <3>1, <3>3
    <3>12. Solves(h, m)
      BY <3>9, <3>10, <3>11
    <3>. HIDE DEF Solves, h
    <3>. QED
      BY <3>12
  <2>. QED
    BY <2>1, <2>2
<1>2. \A m \in 0..n : (\A j \in 0..(m - 1) : j \in S) => m \in S
  <2>. HIDE DEF Solves
  <2>. QED
    BY <1>1
<1>3. \A m \in 0..n : m \in S
  <2>. HIDE DEF S
  <2>. QED
    BY <1>2, Induction
<1>4. \E g : Solves(g, n)
  BY <1>3
<1>. QED
  BY <1>4

(* The elements above a node: 0, its parent and those above that.          *)
AboveSolved ==
    /\ Above[0] = {}
    /\ \A i \in Nodes : Above[i] = {nodes[i].parent} \cup Above[nodes[i].parent]

(* Above is what its definition says at every node. *)
LEMMA AboveIs == TreeInv => AboveSolved
<1>. SUFFICES ASSUME TreeInv PROVE AboveSolved
  OBVIOUS
<1>. DEFINE n == Len(nodes)
            V == SUBSET Nat
            p == [i \in 1..n |-> nodes[i].parent]
            G == [i \in 1..n |-> [a \in V |-> {p[i]} \cup a]]
            Rec(g) == g = [i \in 0..n |-> IF i = 0 THEN {} ELSE {nodes[i].parent} \cup g[nodes[i].parent]]
<1>1. n \in Nat /\ Nodes = 1..n /\ \A i \in 1..n : nodes[i].parent \in 0..(i - 1)
  BY NodesAre DEF TreeInv
<1>2. \A i \in 1..n : p[i] \in 0..(i - 1)
  BY <1>1
<1>3. \A i \in 1..n : \A a \in V : G[i][a] \in V
  <2>1. ASSUME NEW i \in 1..n, NEW a \in V PROVE {p[i]} \cup a \in V
    <3>1. p[i] \in Nat
      BY <1>1, <1>2
    <3>. HIDE DEF p
    <3>. QED
      BY <3>1
  <2>. HIDE DEF V, p
  <2>. QED
    BY <2>1
<1>4. PICK g \in [0..n -> V] : g[0] = {} /\ \A i \in 1..n : g[i] = G[i][g[p[i]]]
  <2>1. n \in Nat /\ {} \in V
    BY <1>1
  <2>. HIDE DEF G, p, V, n, Rec
  <2>2. FromEarlier(n, V, {}, p, G)
    BY <1>2, <1>3, <2>1 DEF FromEarlier
  <2>. QED
    BY <2>2, Recursion
<1>5. ASSUME NEW i \in 1..n PROVE g[i] = {nodes[i].parent} \cup g[nodes[i].parent]
  <2>1. nodes[i].parent \in 0..n /\ g[nodes[i].parent] \in V
    BY <1>1
  <2>. QED
    BY <1>4, <2>1
<1>6. g = [i \in 0..n |-> g[i]]
  OBVIOUS
<1>7. \A i \in 0..n : g[i] = IF i = 0 THEN {} ELSE {nodes[i].parent} \cup g[nodes[i].parent]
  BY <1>4, <1>5
<1>8. Rec(g)
  <2>. HIDE DEF n
  <2>. QED
    BY <1>6, <1>7
<1>9. Above = CHOOSE f : Rec(f)
  BY DEF Above
<1>10. Rec(Above)
  <2>. HIDE DEF Rec
  <2>. QED
    BY <1>8, <1>9
<1>. QED
  BY <1>1, <1>10 DEF AboveSolved

(* So it is in the next state. *)
LEMMA AboveIsThen == TreeInv' => AboveSolved'
BY AboveIs, PTL

(* Growth leaves what is above the nodes there are as it is.               *)
LEMMA AboveGrown ==
    ASSUME TreeInv, TreeInv', NEW n, Grow(n)
    PROVE  /\ \A i \in 0..Len(nodes) : Above'[i] = Above[i]
           /\ Above'[This] = {Parent} \cup Above[Parent]
<1>. DEFINE N == Len(nodes)
            p == [i \in 1..N |-> nodes[i].parent]
<1>1. N \in Nat /\ Nodes = 1..N /\ \A i \in 1..N : nodes[i].parent \in 0..(i - 1)
  BY NodesAre DEF TreeInv
<1>2. /\ This = N + 1 /\ nodes'[This].parent = Parent
      /\ \A i \in Nodes : nodes'[i] = nodes[i]
      /\ Nodes' = Nodes \cup {This}
  <2>1. WalkTyped
    BY DEF TreeInv
  <2>2. nodes'[This] = [parent |-> Parent, is |-> n]
    BY <2>1, Grown
  <2>. QED
    BY <2>1, <2>2, Grown
<1>3. AboveSolved /\ AboveSolved'
  BY AboveIs, AboveIsThen
<1>4. SameSoFar(N, Above', Above, p)
  <2>1. Above'[0] = Above[0]
    BY <1>3 DEF AboveSolved
  <2>2. ASSUME NEW i \in 1..N, Above'[p[i]] = Above[p[i]]
        PROVE  Above'[i] = Above[i]
    <3>1. i \in Nodes /\ i \in Nodes' /\ nodes'[i] = nodes[i]
      BY <1>1, <1>2
    <3>2. Above[i] = {nodes[i].parent} \cup Above[nodes[i].parent]
      BY <1>3, <3>1 DEF AboveSolved
    <3>3. Above'[i] = {nodes'[i].parent} \cup Above'[nodes'[i].parent]
      BY <1>3, <3>1 DEF AboveSolved
    <3>4. p[i] = nodes[i].parent
      OBVIOUS
    <3>. QED
      BY <2>2, <3>1, <3>2, <3>3, <3>4
  <2>. QED
    BY <1>1, <2>1, <2>2 DEF SameSoFar
<1>5. \A i \in 0..N : Above'[i] = Above[i]
  <2>. HIDE DEF N, p
  <2>. QED
    BY <1>4, Agree
<1>6. Above'[This] = {Parent} \cup Above'[Parent]
  BY <1>2, <1>3 DEF AboveSolved
<1>. QED
  BY <1>1, <1>5, <1>6, ParentIs

(* What is above a node comes before it. *)
LEMMA AboveBefore ==
    ASSUME TreeInv
    PROVE  \A i \in 0..Len(nodes) : Above[i] \subseteq 0..(i - 1)
<1>. DEFINE N == Len(nodes)
            S == {i \in 0..N : Above[i] \subseteq 0..(i - 1)}
<1>1. N \in Nat /\ Nodes = 1..N /\ \A i \in 1..N : nodes[i].parent \in 0..(i - 1)
  BY NodesAre DEF TreeInv
<1>2. Above[0] = {} /\ \A i \in 1..N : Above[i] = {nodes[i].parent} \cup Above[nodes[i].parent]
  BY <1>1, AboveIs DEF AboveSolved
<1>3. ASSUME NEW i \in 0..N, \A j \in 0..(i - 1) : j \in S
      PROVE  i \in S
  <2>1. CASE i = 0
    BY <1>2, <2>1
  <2>2. CASE i # 0
    <3>1. i \in 1..N /\ nodes[i].parent \in 0..(i - 1)
      BY <1>1, <2>2
    <3>2. Above[nodes[i].parent] \subseteq 0..(nodes[i].parent - 1)
      BY <1>3, <3>1
    <3>. QED
      BY <1>2, <3>1, <3>2
  <2>. QED
    BY <2>1, <2>2
<1>4. \A i \in 0..N : i \in S
  <2>. HIDE DEF S, N
  <2>. QED
    BY <1>1, <1>3, Induction
<1>. QED
  BY <1>4

(* What is above an open element, and above the next node.                 *)
Around(k) == {0} \cup {open[j].node : j \in 1..k}
AboveOpen == \A k \in DOMAIN open : Above[open[k].node] = Around(k - 1)

(* Above the next node are the elements of the calls, and 0. *)
LEMMA AboveNext ==
    ASSUME TreeInv, AboveOpen
    PROVE  {Parent} \cup Above[Parent] = Around(Len(open))
<1>1. Len(open) \in Nat /\ DOMAIN open = 1..Len(open) /\ (open = <<>> <=> Len(open) = 0)
  BY NodesAre DEF TreeInv, WalkTyped
<1>2. CASE open = <<>>
  <2>1. Parent = 0 /\ Above[0] = {}
    BY <1>2, AboveIs DEF AboveSolved, Parent
  <2>2. Around(Len(open)) = {0}
    BY <1>1, <1>2 DEF Around
  <2>. QED
    BY <2>1, <2>2
<1>3. CASE open # <<>>
  <2>1. Len(open) \in 1..Len(open) /\ Parent = open[Len(open)].node
    BY <1>1, <1>3, ParentIs
  <2>2. Above[Parent] = Around(Len(open) - 1)
    BY <1>1, <2>1 DEF AboveOpen
  <2>3. 1..Len(open) = (1..(Len(open) - 1)) \cup {Len(open)}
    BY <1>1, <2>1
  <2>. QED
    BY <2>1, <2>2, <2>3 DEF Around
<1>. QED
  BY <1>2, <1>3

WalkTree == ChainInv /\ TreeInv /\ AboveOpen

(* A leaf leaves the calls as they are. *)
LEMMA WalkTreeLeaf ==
    ASSUME WalkTree, ChainInv', VisitComment \/ VisitText \/ VisitInterpolation
    PROVE  WalkTree'
<1>1. PICK n \in catalogue : Grow(n)
  BY DEF VisitComment, VisitText, VisitInterpolation
<1>2. UNCHANGED open
  BY DEF VisitComment, VisitText, VisitInterpolation
<1>3. TreeInv'
  BY <1>1, <1>2, TreeLeaf DEF WalkTree, ChainInv
<1>4. \A i \in 0..Len(nodes) : Above'[i] = Above[i]
  BY <1>1, <1>3, AboveGrown DEF WalkTree
<1>5. \A k \in DOMAIN open : open[k].node \in 0..Len(nodes)
  BY NodesAre DEF WalkTree, TreeInv, Elements
<1>6. AboveOpen'
  <2>1. \A k : Around(k)' = Around(k)
    BY <1>2 DEF Around
  <2>. QED
    BY <1>2, <1>4, <1>5, <2>1 DEF AboveOpen, WalkTree
<1>. QED
  BY <1>3, <1>6 DEF WalkTree

(* The call for an element is the innermost. *)
LEMMA WalkTreeOpen ==
    ASSUME WalkTree, ChainInv', OpenElement
    PROVE  WalkTree'
<1>1. PICK e \in catalogue :
         /\ e.kind = "element"
         /\ Grow(e)
         /\ open' = Append(open, [node |-> This, chain |-> ChainAfter(e), ctx |-> parentCtx,
                                  branch |-> Effective(e)])
  BY Zenon DEF OpenElement
<1>. DEFINE call == [node |-> This, chain |-> ChainAfter(e), ctx |-> parentCtx, branch |-> Effective(e)]
<1>2. call \in Visits /\ call.node = This
  BY BranchType, ParentType DEF Visits, WalkTree, ChainInv, WalkTyped
<1>3. TreeInv'
  <2>. HIDE DEF call
  <2>1. open' = Append(open, call)
    BY <1>1 DEF call
  <2>. QED
    BY <1>1, <1>2, <2>1, TreeOpen DEF WalkTree, ChainInv
<1>4. /\ \A i \in 0..Len(nodes) : Above'[i] = Above[i]
      /\ Above'[This] = {Parent} \cup Above[Parent]
  BY <1>1, <1>3, AboveGrown DEF WalkTree
<1>5. \A k \in DOMAIN open : open[k].node \in 0..Len(nodes)
  BY NodesAre DEF WalkTree, TreeInv, Elements
<1>6. /\ Len(open) \in Nat /\ DOMAIN open = 1..Len(open)
      /\ DOMAIN open' = 1..(Len(open) + 1) /\ open'[Len(open) + 1] = call
      /\ \A k \in DOMAIN open : open'[k] = open[k]
  <2>1. open \in Seq(Visits)
    BY DEF WalkTree, TreeInv, WalkTyped
  <2>. HIDE DEF call
  <2>2. open' = Append(open, call)
    BY <1>1 DEF call
  <2>. QED
    BY <1>2, <2>1, <2>2, AppendProperties
<1>7. \A k \in 0..Len(open) : Around(k)' = Around(k)
  BY <1>6 DEF Around
<1>8. ASSUME NEW k \in DOMAIN open' PROVE Above'[open'[k].node] = Around(k - 1)'
  <2>1. CASE k = Len(open) + 1
    <3>1. open'[k].node = This
      BY <1>2, <1>6, <2>1
    <3>2. Above'[This] = Around(Len(open))
      BY <1>4, AboveNext DEF WalkTree
    <3>. QED
      BY <1>6, <1>7, <2>1, <3>1, <3>2
  <2>2. CASE k # Len(open) + 1
    <3>1. k \in DOMAIN open /\ k - 1 \in 0..Len(open) /\ open'[k] = open[k]
      BY <1>6, <2>2
    <3>2. Above[open[k].node] = Around(k - 1)
      BY <3>1 DEF WalkTree, AboveOpen
    <3>. QED
      BY <1>4, <1>5, <1>7, <3>1, <3>2
  <2>. QED
    BY <2>1, <2>2
<1>9. AboveOpen'
  BY <1>8 DEF AboveOpen
<1>. QED
  BY <1>3, <1>9 DEF WalkTree

(* The end of a call leaves those around it. *)
LEMMA WalkTreeClose ==
    ASSUME WalkTree, ChainInv', CloseElement
    PROVE  WalkTree'
<1>1. open # <<>> /\ open' = AllButLast(open) /\ UNCHANGED nodes
  BY DEF CloseElement
<1>2. /\ TreeInv'
      /\ DOMAIN open' = 1..(Len(open) - 1)
      /\ \A k \in DOMAIN open' : open'[k] = open[k]
  BY <1>1, TreeClose DEF WalkTree, ChainInv
<1>3. Len(open) \in Nat /\ DOMAIN open = 1..Len(open)
  BY NodesAre DEF WalkTree, TreeInv
<1>4. \A k \in DOMAIN open' : Around(k - 1)' = Around(k - 1)
  BY <1>2, <1>3 DEF Around
<1>5. Above' = Above
  BY <1>1 DEF Above
<1>6. \A k \in DOMAIN open' : k \in DOMAIN open
  BY <1>2, <1>3
<1>7. AboveOpen'
  BY <1>2, <1>4, <1>5, <1>6 DEF AboveOpen, WalkTree
<1>. QED
  BY <1>2, <1>7 DEF WalkTree

(* In every state of the walk the calls are the elements around the next   *)
(* node (visit calls itself for the children of an element).               *)
LEMMA WalkTreeInvariant == Spec => [](ChainInv /\ WalkTree)
<1>1. Init => WalkTree
  <2>. SUFFICES ASSUME Init PROVE WalkTree
    OBVIOUS
  <2>1. ChainInv
    BY ChainInit
  <2>2. TreeInv /\ AboveOpen
    BY <2>1 DEF ChainInv, TreeInv, AboveOpen, Init, Nodes
  <2>. QED
    BY <2>1, <2>2 DEF WalkTree
<1>2. WalkTree /\ ChainInv' /\ [Next]_vars => WalkTree'
  <2>. SUFFICES ASSUME WalkTree, ChainInv', [Next]_vars PROVE WalkTree'
    OBVIOUS
  <2>1. CASE VisitComment \/ VisitText \/ VisitInterpolation
    BY <2>1, WalkTreeLeaf
  <2>2. CASE OpenElement
    BY <2>2, WalkTreeOpen
  <2>3. CASE CloseElement
    BY <2>3, WalkTreeClose
  <2>4. CASE Finish \/ UNCHANGED vars
    <3>1. UNCHANGED <<nodes, open>>
      BY <2>4 DEF Finish, vars
    <3>2. Above' = Above
      BY <3>1 DEF Above
    <3>3. WalkTyped'
      BY DEF ChainInv
    <3>4. Nodes' = Nodes /\ Elements' = Elements
      BY <3>1 DEF Nodes, Elements
    <3>5. TreeInv'
      BY <3>1, <3>3, <3>4 DEF WalkTree, TreeInv
    <3>6. \A k : Around(k)' = Around(k)
      BY <3>1 DEF Around
    <3>7. AboveOpen'
      BY <3>1, <3>2, <3>6 DEF WalkTree, AboveOpen
    <3>. QED
      BY <3>5, <3>7 DEF WalkTree
  <2>. QED
    BY <2>1, <2>2, <2>3, <2>4 DEF Next
<1>. QED
  BY <1>1, <1>2, ChainInvariant, PTL DEF Spec

(* Sequences of anything. *)
AnySeq(s) == \E S : s \in Seq(S)
Elems(s) == {s[i] : i \in DOMAIN s}

(* Its length and domain. *)
LEMMA SeqIs ==
    ASSUME NEW s, AnySeq(s)
    PROVE  Len(s) \in Nat /\ DOMAIN s = 1..Len(s) /\ (s = <<>> <=> Len(s) = 0)
BY DEF AnySeq

(* A sequence with one more at its end. *)
LEMMA SeqEnds ==
    ASSUME NEW s, AnySeq(s), NEW x
    PROVE  /\ AnySeq(<<>>) /\ AnySeq(<<x>>) /\ AnySeq(Append(s, x))
           /\ Len(Append(s, x)) = Len(s) + 1
           /\ \A i \in 1..Len(s) : Append(s, x)[i] = s[i]
           /\ Append(s, x)[Len(s) + 1] = x
<1>1. PICK S : s \in Seq(S)
  BY DEF AnySeq
<1>. DEFINE T == S \cup {x}
<1>2. s \in Seq(T)
  BY <1>1
<1>3. x \in T
  OBVIOUS
<1>. HIDE DEF T
<1>4. Append(s, x) \in Seq(T)
  BY <1>2, <1>3
<1>5. <<>> \in Seq(T) /\ <<x>> \in Seq(T)
  BY <1>3
<1>. QED
  BY <1>2, <1>3, <1>4, <1>5, AppendProperties DEF AnySeq

(* Sequences of none and of one. *)
LEMMA ShortSeqs ==
    /\ AnySeq(<<>>) /\ \A x : AnySeq(<<x>>)
    /\ Elems(<<>>) = {} /\ \A x : Elems(<<x>>) = {x}
<1>1. AnySeq(<<>>)
  <2>1. <<>> \in Seq({})
    OBVIOUS
  <2>. QED
    BY <2>1 DEF AnySeq
<1>2. ASSUME NEW x PROVE AnySeq(<<x>>)
  <2>1. <<x>> \in Seq({x})
    OBVIOUS
  <2>. QED
    BY <2>1 DEF AnySeq
<1>3. Elems(<<>>) = {} /\ \A x : Elems(<<x>>) = {x}
  BY DEF Elems
<1>. QED
  BY <1>1, <1>2, <1>3

(* One behind another. *)
LEMMA SeqConcat ==
    ASSUME NEW s, AnySeq(s), NEW t, AnySeq(t)
    PROVE  /\ AnySeq(s \o t)
           /\ Len(s \o t) = Len(s) + Len(t)
           /\ \A i \in 1..Len(s) : (s \o t)[i] = s[i]
           /\ \A i \in 1..Len(t) : (s \o t)[Len(s) + i] = t[i]
           /\ Elems(s \o t) = Elems(s) \cup Elems(t)
<1>1. PICK S : s \in Seq(S)
  BY DEF AnySeq
<1>2. PICK R : t \in Seq(R)
  BY DEF AnySeq
<1>. DEFINE T == S \cup R
<1>3. s \in Seq(T) /\ t \in Seq(T)
  BY <1>1, <1>2
<1>. HIDE DEF T
<1>4. s \o t \in Seq(T)
  BY <1>3
<1>5. /\ Len(s) \in Nat /\ Len(t) \in Nat
      /\ Len(s \o t) = Len(s) + Len(t)
      /\ \A i \in 1..Len(s) : (s \o t)[i] = s[i]
      /\ DOMAIN s = 1..Len(s) /\ DOMAIN t = 1..Len(t) /\ DOMAIN (s \o t) = 1..(Len(s) + Len(t))
  BY <1>3, <1>4, ConcatProperties
<1>6. \A i \in 1..Len(t) : (s \o t)[Len(s) + i] = t[i]
  <2>1. \A i \in 1..(Len(s) + Len(t)) : (s \o t)[i] = IF i <= Len(s) THEN s[i] ELSE t[i - Len(s)]
    BY <1>3, ConcatProperties
  <2>. QED
    BY <1>5, <2>1
<1>7. Elems(s \o t) = Elems(s) \cup Elems(t)
  <2>1. ASSUME NEW i \in 1..(Len(s) + Len(t)) PROVE (s \o t)[i] \in Elems(s) \cup Elems(t)
    <3>1. CASE i <= Len(s)
      BY <1>5, <3>1 DEF Elems
    <3>2. CASE i > Len(s)
      <4>1. i - Len(s) \in 1..Len(t) /\ i = Len(s) + (i - Len(s))
        BY <1>5, <3>2
      <4>2. (s \o t)[i] = t[i - Len(s)]
        BY <1>6, <4>1
      <4>. QED
        BY <1>5, <4>1, <4>2 DEF Elems
    <3>. QED
      BY <1>5, <3>1, <3>2
  <2>2. ASSUME NEW i \in 1..Len(s) PROVE s[i] \in Elems(s \o t)
    BY <1>5 DEF Elems
  <2>3. ASSUME NEW i \in 1..Len(t) PROVE t[i] \in Elems(s \o t)
    <3>1. Len(s) + i \in DOMAIN (s \o t)
      BY <1>5
    <3>. QED
      BY <1>6, <3>1 DEF Elems
  <2>. QED
    BY <1>5, <2>1, <2>2, <2>3 DEF Elems
<1>. QED
  BY <1>4, <1>5, <1>6, <1>7 DEF AnySeq

(* A sequence without its last. *)
LEMMA SeqShorter ==
    ASSUME NEW s, AnySeq(s), s # <<>>
    PROVE  /\ AnySeq(AllButLast(s))
           /\ Len(AllButLast(s)) = Len(s) - 1
           /\ \A i \in 1..(Len(s) - 1) : AllButLast(s)[i] = s[i]
<1>1. PICK S : s \in Seq(S)
  BY DEF AnySeq
<1>2. Len(s) \in Nat \ {0}
  BY <1>1
<1>. DEFINE b == SubSeq(s, 1, Len(s) - 1)
<1>3. /\ b \in Seq(S) /\ Len(b) = Len(s) - 1
      /\ \A i \in 1..(Len(s) - 1) : b[i] = s[i]
  <2>1. Len(s) - 1 \in Int /\ \A i \in 1..(Len(s) - 1) : s[i] \in S
    BY <1>1, <1>2
  <2>2. /\ b \in Seq(S)
        /\ Len(b) = IF 1 <= Len(s) - 1 THEN Len(s) - 1 - 1 + 1 ELSE 0
        /\ \A i \in 1..(Len(s) - 1 - 1 + 1) : b[i] = s[1 + i - 1]
    BY <2>1, SubSeqProperties
  <2>3. Len(s) - 1 - 1 + 1 = Len(s) - 1
    BY <1>2
  <2>. QED
    BY <1>2, <2>2, <2>3
<1>5. AllButLast(s) = b
  BY DEF AllButLast
<1>. HIDE DEF b
<1>. QED
  BY <1>3, <1>5 DEF AnySeq

(* It does not matter which of three are joined first. *)
LEMMA SeqAssociative ==
    ASSUME NEW s, AnySeq(s), NEW t, AnySeq(t), NEW u, AnySeq(u)
    PROVE  (s \o t) \o u = s \o (t \o u)
<1>1. PICK A : s \in Seq(A)
  BY DEF AnySeq
<1>2. PICK B : t \in Seq(B)
  BY DEF AnySeq
<1>3. PICK C : u \in Seq(C)
  BY DEF AnySeq
<1>. DEFINE T == A \cup B \cup C
<1>4. s \in Seq(T) /\ t \in Seq(T) /\ u \in Seq(T)
  BY <1>1, <1>2, <1>3
<1>. HIDE DEF T
<1>. QED
  BY <1>4, ConcatAssociative

AnySeqs(s, a, b, c, d) == AnySeq(s) /\ AnySeq(a) /\ AnySeq(b) /\ AnySeq(c) /\ AnySeq(d)

(* Nor of five. *)
LEMMA SeqAssociative5 ==
    ASSUME NEW s, NEW a, NEW b, NEW c, NEW d, AnySeqs(s, a, b, c, d)
    PROVE  s \o a \o b \o c \o d = s \o (a \o (b \o (c \o d)))
<1>. AnySeq(s) /\ AnySeq(a) /\ AnySeq(b) /\ AnySeq(c) /\ AnySeq(d)
  BY DEF AnySeqs
<1>. DEFINE sa == s \o a
            sab == sa \o b
            cd == c \o d
            bcd == b \o cd
<1>1. AnySeq(sa) /\ AnySeq(cd)
  BY SeqConcat
<1>. HIDE DEF sa, cd
<1>2. AnySeq(sab) /\ AnySeq(bcd)
  BY <1>1, SeqConcat
<1>. HIDE DEF sab, bcd
<1>3. ASSUME NEW x, AnySeq(x) PROVE (x \o c) \o d = x \o cd
  BY <1>3, SeqAssociative DEF cd
<1>4. ASSUME NEW x, AnySeq(x) PROVE (x \o b) \o cd = x \o bcd
  BY <1>1, <1>4, SeqAssociative, SMTT(30) DEF bcd
<1>5. ASSUME NEW x, AnySeq(x) PROVE (s \o a) \o x = s \o (a \o x)
  BY <1>5, SeqAssociative, SMTT(30)
<1>6. (sab \o c) \o d = sab \o cd
  BY <1>2, <1>3
<1>7. sab \o cd = sa \o bcd
  BY <1>1, <1>4 DEF sab
<1>8. sa \o bcd = s \o (a \o bcd)
  BY <1>2, <1>5 DEF sa
<1>. QED
  BY <1>6, <1>7, <1>8 DEF sab, sa, bcd, cd

-----------------------------------------------------------------------------
(* Texts and scopes, by themselves.  S is what ScopesAround says of every  *)
(* part of every node; fr the scopes that are entered, in their order; scs *)
(* what the code holds for them; w a text.                                 *)

Parts == {"text", "cond", "source", "on", "event", "prop"}

(* What stands in the k-th scope is what the scope binds and what was      *)
(* declared while it was the innermost.                                    *)
Inner(S, sc, t) == sc \in S[t.node][t.part] /\ \A s \in S[t.node][t.part] : s.at <= sc.at
Put(S, w, k, sc, x) == \E l \in 1..k : w[l].t = "declare" /\ w[l].name = x /\ Inner(S, sc, w[l])

Ordered(fr) ==
    /\ AnySeq(fr)
    /\ \A i \in 1..Len(fr) : fr[i].at \in Nat
    /\ \A i, j \in 1..Len(fr) : i < j => fr[i].at < fr[j].at

Fits(S, fr, scs, w) ==
    /\ Len(fr) = Len(scs)
    /\ \A i \in 1..Len(scs) : \A x : x \in scs[i] <=> (x \in fr[i].names \/ Put(S, w, Len(w), fr[i], x))

UseRight(S, w, k) ==
    w[k].bare <=> \E sc \in S[w[k].node][w[k].part] : w[k].name \in sc.names \/ Put(S, w, k - 1, sc, w[k].name)

UsesRight(S, w) == \A k \in 1..Len(w) : w[k].t = "use" => UseRight(S, w, k)

(* Scopes that nothing was written in so far. *)
Free(S, w, F) == \A sc \in F : \A l \in 1..Len(w) : w[l].t = "declare" => sc \notin S[w[l].node][w[l].part]

Good(S, F, fr, scs, w) ==
    /\ AnySeq(scs) /\ AnySeq(w) /\ Ordered(fr)
    /\ Fits(S, fr, scs, w) /\ UsesRight(S, w) /\ Free(S, w, F)

UseToken(scs, name, i, part) ==
    [t |-> "use", node |-> i, part |-> part, name |-> name, bare |-> \E k \in DOMAIN scs : name \in scs[k]]
DeclareToken(name, i, part) == [t |-> "declare", node |-> i, part |-> part, name |-> name]

(* A text and one token more. *)
More(w, t, v) ==
    /\ AnySeq(v) /\ Len(w) \in Nat /\ Len(v) = Len(w) + 1
    /\ \A l \in 1..Len(w) : v[l] = w[l]
    /\ v[Len(w) + 1] = t

LEMMA OneMore ==
    ASSUME NEW w, AnySeq(w), NEW t
    PROVE  More(w, t, w \o <<t>>)
<1>. PICK v : v = w \o <<t>>
  OBVIOUS
<1>. DEFINE o == <<t>>
<1>1. AnySeq(o) /\ Len(o) = 1 /\ o[1] = t
  BY ShortSeqs
<1>. HIDE DEF o
<1>2. v = w \o o
  BY DEF o
<1>3. PICK R : w \in Seq(R)
  BY DEF AnySeq
<1>4. PICK Q : o \in Seq(Q)
  BY <1>1 DEF AnySeq
<1>. DEFINE T == R \cup Q
<1>5. w \in Seq(T) /\ o \in Seq(T)
  BY <1>3, <1>4
<1>. HIDE DEF T
<1>6. /\ v \in Seq(T) /\ Len(w) \in Nat /\ Len(v) = Len(w) + 1
      /\ \A i \in 1..(Len(w) + 1) : v[i] = IF i <= Len(w) THEN w[i] ELSE o[i - Len(w)]
  BY <1>1, <1>2, <1>5, ConcatProperties
<1>7. v[Len(w) + 1] = o[1] /\ \A l \in 1..Len(w) : v[l] = w[l]
  BY <1>6
<1>. QED
  BY <1>1, <1>6, <1>7 DEF AnySeq, More

(* What holds of a text's uses holds of them in a longer one. *)
LEMMA UsesKept ==
    ASSUME NEW S, NEW w, AnySeq(w), NEW v, \A l \in 1..Len(w) : v[l] = w[l],
           UsesRight(S, w), NEW k \in 1..Len(w), v[k].t = "use"
    PROVE  UseRight(S, v, k)
<1>1. Len(w) \in Nat /\ k - 1 \in 0..Len(w) /\ v[k] = w[k]
  BY SeqIs
<1>2. \A l \in 1..(k - 1) : v[l] = w[l]
  BY <1>1
<1>3. \A sc, x : Put(S, v, k - 1, sc, x) <=> Put(S, w, k - 1, sc, x)
  BY <1>2 DEF Put
<1>. QED
  BY <1>1, <1>3 DEF UsesRight, UseRight

(* Tokens that are neither a use nor a declaration. *)
LEMMA GoodPlain ==
    ASSUME NEW S, NEW F, NEW fr, NEW scs, NEW w, Good(S, F, fr, scs, w),
           NEW t, t.t \notin {"use", "declare"}, NEW v, v = w \o <<t>>
    PROVE  Good(S, F, fr, scs, v)
<1>1. /\ AnySeq(scs) /\ AnySeq(w) /\ Ordered(fr)
      /\ Fits(S, fr, scs, w) /\ UsesRight(S, w) /\ Free(S, w, F)
  BY DEF Good
<1>2. /\ AnySeq(v) /\ Len(w) \in Nat /\ Len(v) = Len(w) + 1
      /\ \A l \in 1..Len(w) : v[l] = w[l]
      /\ v[Len(w) + 1] = t
  <2>1. v = w \o <<t>>
    OBVIOUS
  <2>2. More(w, t, v)
    BY <1>1, <2>1, OneMore
  <2>. QED
    BY <2>2 DEF More
<1>3. \A sc, x : Put(S, v, Len(v), sc, x) <=> Put(S, w, Len(w), sc, x)
  <2>1. \A sc, x : Put(S, v, Len(w), sc, x) <=> Put(S, w, Len(w), sc, x)
    BY <1>2 DEF Put
  <2>2. 1..Len(v) = (1..Len(w)) \cup {Len(w) + 1}
    BY <1>2
  <2>3. \A sc, x : Put(S, v, Len(v), sc, x) <=> Put(S, v, Len(w), sc, x)
    BY <1>2, <2>2 DEF Put
  <2>. QED
    BY <2>1, <2>3
<1>4. Fits(S, fr, scs, v)
  BY <1>1, <1>3 DEF Fits
<1>5. UsesRight(S, v)
  <2>1. ASSUME NEW k \in 1..Len(v), v[k].t = "use" PROVE UseRight(S, v, k)
    <3>1. k \in 1..Len(w)
      BY <1>2, <2>1
    <3>. QED
      BY <1>1, <1>2, <2>1, <3>1, UsesKept
  <2>. QED
    BY <2>1 DEF UsesRight
<1>6. Free(S, v, F)
  <2>1. ASSUME NEW sc \in F, NEW l \in 1..Len(v), v[l].t = "declare"
        PROVE  sc \notin S[v[l].node][v[l].part]
    <3>1. l \in 1..Len(w) /\ v[l] = w[l]
      BY <1>2, <2>1
    <3>. QED
      BY <1>1, <2>1, <3>1 DEF Free
  <2>. QED
    BY <2>1 DEF Free
<1>. QED
  BY <1>1, <1>2, <1>4, <1>5, <1>6 DEF Good

(* A use, where the scopes entered are those around it. *)
LEMMA GoodUse ==
    ASSUME NEW S, NEW F, NEW fr, NEW scs, NEW w, Good(S, F, fr, scs, w),
           NEW i, NEW part, Elems(fr) = S[i][part],
           NEW name, NEW v, v = w \o <<UseToken(scs, name, i, part)>>
    PROVE  Good(S, F, fr, scs, v)
<1>. PICK t : t = UseToken(scs, name, i, part)
  OBVIOUS
<1>1. /\ AnySeq(scs) /\ AnySeq(w) /\ Ordered(fr)
      /\ Fits(S, fr, scs, w) /\ UsesRight(S, w) /\ Free(S, w, F)
  BY DEF Good
<1>2. /\ AnySeq(v) /\ Len(w) \in Nat /\ Len(v) = Len(w) + 1
      /\ \A l \in 1..Len(w) : v[l] = w[l]
      /\ v[Len(w) + 1] = t
  <2>1. v = w \o <<t>>
    OBVIOUS
  <2>2. More(w, t, v)
    BY <1>1, <2>1, OneMore
  <2>. QED
    BY <2>2 DEF More
<1>20. /\ t.t = "use" /\ t.node = i /\ t.part = part /\ t.name = name
       /\ t.bare = \E k \in DOMAIN scs : name \in scs[k]
  BY DEF UseToken
<1>3. \A sc, x : Put(S, v, Len(w), sc, x) <=> Put(S, w, Len(w), sc, x)
  BY <1>2 DEF Put
<1>30. \A sc, x : Put(S, v, Len(v), sc, x) <=> Put(S, v, Len(w), sc, x)
  <2>2. 1..Len(v) = (1..Len(w)) \cup {Len(w) + 1}
    BY <1>2
  <2>. QED
    BY <1>2, <1>20, <2>2 DEF Put
<1>4. Fits(S, fr, scs, v)
  BY <1>1, <1>3, <1>30 DEF Fits
<1>5. UsesRight(S, v)
  <2>1. ASSUME NEW k \in 1..Len(v), v[k].t = "use", k # Len(w) + 1 PROVE UseRight(S, v, k)
    <3>1. k \in 1..Len(w)
      BY <1>2, <2>1
    <3>. QED
      BY <1>1, <1>2, <2>1, <3>1, UsesKept
  <2>2. ASSUME NEW k, k = Len(w) + 1 PROVE UseRight(S, v, k)
    <3>1. DOMAIN scs = 1..Len(scs) /\ DOMAIN fr = 1..Len(fr) /\ Len(fr) = Len(scs)
      BY <1>1, SeqIs DEF Fits, Ordered
    <3>2. (\E j \in DOMAIN scs : name \in scs[j])
             <=> \E j \in DOMAIN fr : name \in fr[j].names \/ Put(S, w, Len(w), fr[j], name)
      BY <1>1, <3>1 DEF Fits
    <3>3. (\E j \in DOMAIN fr : name \in fr[j].names \/ Put(S, w, Len(w), fr[j], name))
             <=> \E sc \in Elems(fr) : name \in sc.names \/ Put(S, w, Len(w), sc, name)
      BY DEF Elems
    <3>4. v[k] = t /\ k - 1 = Len(w)
      BY <1>2, <2>2
    <3>5. UseRight(S, v, k) <=>
             (t.bare <=> \E sc \in S[t.node][t.part] : t.name \in sc.names \/ Put(S, v, Len(w), sc, t.name))
      BY <3>4, Zenon DEF UseRight
    <3>6. t.bare <=> \E sc \in Elems(fr) : name \in sc.names \/ Put(S, w, Len(w), sc, name)
      BY <1>20, <3>2, <3>3, Zenon
    <3>7. S[t.node][t.part] = Elems(fr) /\ t.name = name
      BY <1>20
    <3>. QED
      BY <1>3, <3>5, <3>6, <3>7, Zenon
  <2>. QED
    BY <2>1, <2>2 DEF UsesRight
<1>6. Free(S, v, F)
  <2>1. ASSUME NEW sc \in F, NEW l \in 1..Len(v), v[l].t = "declare"
        PROVE  sc \notin S[v[l].node][v[l].part]
    <3>1. l \in 1..Len(w) /\ v[l] = w[l]
      BY <1>2, <1>20, <2>1
    <3>. QED
      BY <1>1, <2>1, <3>1 DEF Free
  <2>. QED
    BY <2>1 DEF Free
<1>. QED
  BY <1>1, <1>2, <1>4, <1>5, <1>6 DEF Good

(* declareScopeVar changes the last scope. *)
LEMMA DeclareIs ==
    ASSUME NEW scs, AnySeq(scs), NEW name, name # None
    PROVE  /\ AnySeq(Declare(scs, name)) /\ Len(Declare(scs, name)) = Len(scs)
           /\ \A i \in 1..Len(scs) : \A x :
                 x \in Declare(scs, name)[i] <=> (x \in scs[i] \/ (i = Len(scs) /\ x = name))
<1>1. CASE scs = <<>>
  BY <1>1 DEF Declare
<1>2. CASE scs # <<>>
  <2>. DEFINE L == Len(scs)
              v == scs[L] \cup {name}
              after == [scs EXCEPT ![L] = v]
  <2>1. Declare(scs, name) = after
    BY <1>2 DEF Declare
  <2>2. PICK R : scs \in Seq(R)
    BY DEF AnySeq
  <2>3. L \in 1..L /\ DOMAIN scs = 1..L /\ L \in Nat
    BY <1>2, <2>2
  <2>. DEFINE T == R \cup {v}
  <2>4. scs \in Seq(T) /\ v \in T
    BY <2>2
  <2>. HIDE DEF T, v
  <2>5. after \in Seq(T) /\ Len(after) = L
    BY <2>3, <2>4
  <2>6. \A i \in 1..L : after[i] = IF i = L THEN v ELSE scs[i]
    BY <2>2, <2>3
  <2>. HIDE DEF after
  <2>7. ASSUME NEW i \in 1..L, NEW x
        PROVE  x \in after[i] <=> (x \in scs[i] \/ (i = L /\ x = name))
    BY <2>6 DEF v
  <2>. QED
    BY <2>1, <2>5, <2>7 DEF AnySeq
<1>. QED
  BY <1>1, <1>2

(* A declaration, where the scopes entered are those around it. *)
LEMMA GoodDeclare ==
    ASSUME NEW S, NEW F, NEW fr, NEW scs, NEW w, Good(S, F, fr, scs, w),
           NEW i, NEW part, Elems(fr) = S[i][part], F \cap S[i][part] = {},
           NEW name, name # None, NEW v, v = w \o <<DeclareToken(name, i, part)>>
    PROVE  Good(S, F, fr, Declare(scs, name), v)
<1>. PICK t : t = DeclareToken(name, i, part)
  OBVIOUS
<1>. PICK scs2 : scs2 = Declare(scs, name)
  OBVIOUS
<1>1. /\ AnySeq(scs) /\ AnySeq(w) /\ Ordered(fr)
      /\ Fits(S, fr, scs, w) /\ UsesRight(S, w) /\ Free(S, w, F)
  BY DEF Good
<1>2. /\ AnySeq(v) /\ Len(w) \in Nat /\ Len(v) = Len(w) + 1
      /\ \A l \in 1..Len(w) : v[l] = w[l]
      /\ v[Len(w) + 1] = t
  <2>1. v = w \o <<t>>
    OBVIOUS
  <2>2. More(w, t, v)
    BY <1>1, <2>1, OneMore
  <2>. QED
    BY <2>2 DEF More
<1>20. t.t = "declare" /\ t.node = i /\ t.part = part /\ t.name = name
  BY DEF DeclareToken
<1>21. /\ AnySeq(scs2) /\ Len(scs2) = Len(scs)
       /\ \A j \in 1..Len(scs) : \A x : x \in scs2[j] <=> (x \in scs[j] \/ (j = Len(scs) /\ x = name))
  BY <1>1, DeclareIs
<1>3. \A sc, x : Put(S, v, Len(w), sc, x) <=> Put(S, w, Len(w), sc, x)
  BY <1>2 DEF Put
<1>30. \A sc, x : Put(S, v, Len(v), sc, x) <=> (Put(S, v, Len(w), sc, x) \/ (x = name /\ Inner(S, sc, t)))
  <2>2. 1..Len(v) = (1..Len(w)) \cup {Len(w) + 1}
    BY <1>2
  <2>. QED
    BY <1>2, <1>20, <2>2 DEF Put
<1>31. Len(scs) \in Nat /\ DOMAIN fr = 1..Len(fr) /\ Len(fr) = Len(scs)
  BY <1>1, SeqIs DEF Fits, Ordered
<1>32. ASSUME NEW j \in 1..Len(scs) PROVE Inner(S, fr[j], t) <=> j = Len(scs)
  <2>1. fr[j] \in S[t.node][t.part] /\ fr[Len(scs)] \in S[t.node][t.part] /\ Len(scs) \in 1..Len(scs)
    BY <1>20, <1>31 DEF Elems
  <2>2. \A k \in 1..Len(scs) : fr[k].at \in Nat
    BY <1>1, <1>31 DEF Ordered
  <2>3. ASSUME NEW k \in 1..Len(scs), k # Len(scs) PROVE fr[k].at < fr[Len(scs)].at
    <3>1. k < Len(scs) /\ k \in 1..Len(fr) /\ Len(scs) \in 1..Len(fr)
      <4>1. Len(scs) \in Nat /\ Len(fr) = Len(scs)
        BY <1>31
      <4>. QED
        BY <2>1, <2>3, <4>1
    <3>. QED
      BY <1>1, <3>1 DEF Ordered
  <2>4. \A s \in S[t.node][t.part] : \E k \in 1..Len(scs) : s = fr[k]
    BY <1>20, <1>31 DEF Elems
  <2>5. ASSUME NEW s \in S[t.node][t.part] PROVE s.at <= fr[Len(scs)].at
    <3>1. PICK k \in 1..Len(scs) : s = fr[k]
      BY <2>4
    <3>2. fr[k].at \in Nat /\ fr[Len(scs)].at \in Nat /\ (k = Len(scs) \/ fr[k].at < fr[Len(scs)].at)
      BY <2>1, <2>2, <2>3
    <3>. QED
      BY <3>1, <3>2
  <2>6. j # Len(scs) => ~(fr[Len(scs)].at <= fr[j].at)
    BY <2>1, <2>2, <2>3
  <2>. QED
    BY <2>1, <2>5, <2>6 DEF Inner
<1>4. Fits(S, fr, scs2, v)
  <2>1. ASSUME NEW j \in 1..Len(scs2), NEW x
        PROVE  x \in scs2[j] <=> (x \in fr[j].names \/ Put(S, v, Len(v), fr[j], x))
    <3>1. j \in 1..Len(scs)
      BY <1>21
    <3>2. x \in scs[j] <=> (x \in fr[j].names \/ Put(S, w, Len(w), fr[j], x))
      BY <1>1, <3>1 DEF Fits
    <3>3. Put(S, v, Len(v), fr[j], x) <=> (Put(S, w, Len(w), fr[j], x) \/ (x = name /\ j = Len(scs)))
      BY <1>3, <1>30, <1>32, <3>1
    <3>. QED
      BY <1>21, <3>1, <3>2, <3>3
  <2>. QED
    BY <1>21, <1>31, <2>1 DEF Fits
<1>5. UsesRight(S, v)
  <2>1. ASSUME NEW k \in 1..Len(v), v[k].t = "use" PROVE UseRight(S, v, k)
    <3>1. k \in 1..Len(w)
      BY <1>2, <1>20, <2>1
    <3>. QED
      BY <1>1, <1>2, <2>1, <3>1, UsesKept
  <2>. QED
    BY <2>1 DEF UsesRight
<1>6. Free(S, v, F)
  <2>1. ASSUME NEW sc \in F, NEW l \in 1..Len(v), v[l].t = "declare"
        PROVE  sc \notin S[v[l].node][v[l].part]
    <3>1. CASE l \in 1..Len(w)
      BY <1>1, <1>2, <2>1, <3>1 DEF Free
    <3>2. CASE l = Len(w) + 1
      BY <1>2, <1>20, <2>1, <3>2
    <3>. QED
      BY <1>2, <2>1, <3>1, <3>2
  <2>. QED
    BY <2>1 DEF Free
<1>. QED
  BY <1>1, <1>2, <1>21, <1>4, <1>5, <1>6 DEF Good

(* Nothing more. *)
LEMMA NoMore ==
    ASSUME NEW w, AnySeq(w)
    PROVE  w \o <<>> = w
<1>1. PICK R : w \in Seq(R)
  BY DEF AnySeq
<1>. QED
  BY <1>1, ConcatEmptySeq

(* An expression is the use before its function, what the function         *)
(* declares, and the use behind it.                                        *)
LEMMA GoodExpression ==
    ASSUME NEW S, NEW F, NEW fr, NEW scs, NEW w, Good(S, F, fr, scs, w),
           NEW i, NEW part, Elems(fr) = S[i][part], F \cap S[i][part] = {}, NEW x
    PROVE  Good(S, F, fr, ScopesAfter(x, scs), w \o MapExpression(x, scs, i, part))
<1>1. ASSUME NEW name, NEW sc, NEW v, Good(S, F, fr, sc, v)
      PROVE  Good(S, F, fr, sc, v \o Use(sc, name, i, part)) /\ AnySeq(Use(sc, name, i, part))
  <2>1. CASE name = None
    <3>1. Use(sc, name, i, part) = <<>>
      BY <2>1 DEF Use
    <3>2. v \o <<>> = v
      BY <1>1, NoMore DEF Good
    <3>. QED
      BY <1>1, <3>1, <3>2, ShortSeqs
  <2>2. CASE name # None
    <3>1. Use(sc, name, i, part) = <<UseToken(sc, name, i, part)>>
      BY <2>2 DEF Use, UseToken
    <3>2. Good(S, F, fr, sc, v \o <<UseToken(sc, name, i, part)>>)
      BY <1>1, GoodUse
    <3>. QED
      BY <3>1, <3>2, ShortSeqs
  <2>. QED
    BY <2>1, <2>2
<1>2. ASSUME NEW name, NEW sc, NEW v, Good(S, F, fr, sc, v)
      PROVE  Good(S, F, fr, Declare(sc, name), v \o Declaration(name, i, part)) /\ AnySeq(Declaration(name, i, part))
  <2>1. CASE name = None
    <3>1. Declaration(name, i, part) = <<>> /\ Declare(sc, name) = sc
      BY <2>1 DEF Declaration, Declare
    <3>2. v \o <<>> = v
      BY <1>2, NoMore DEF Good
    <3>. QED
      BY <1>2, <3>1, <3>2, ShortSeqs
  <2>2. CASE name # None
    <3>1. Declaration(name, i, part) = <<DeclareToken(name, i, part)>>
      BY <2>2 DEF Declaration, DeclareToken
    <3>2. Good(S, F, fr, Declare(sc, name), v \o <<DeclareToken(name, i, part)>>)
      BY <1>2, <2>2, GoodDeclare
    <3>. QED
      BY <3>1, <3>2, ShortSeqs
  <2>. QED
    BY <2>1, <2>2
<1>3. AnySeq(w)
  BY DEF Good
<1>4. CASE x = None
  <2>1. MapExpression(x, scs, i, part) = <<>> /\ ScopesAfter(x, scs) = scs
    BY <1>4 DEF MapExpression, ScopesAfter
  <2>. QED
    BY <1>3, <2>1, NoMore
<1>5. CASE x # None
  <2>. PICK after : after = Declare(scs, x.declares)
    OBVIOUS
  <2>. PICK a : a = Use(scs, x.uses, i, part)
    OBVIOUS
  <2>. PICK b : b = Declaration(x.declares, i, part)
    OBVIOUS
  <2>. PICK c : c = Use(after, x.then, i, part)
    OBVIOUS
  <2>1. Good(S, F, fr, scs, w \o a) /\ AnySeq(a)
    BY <1>1
  <2>2. Good(S, F, fr, after, (w \o a) \o b) /\ AnySeq(b)
    BY <1>2, <2>1
  <2>3. Good(S, F, fr, after, ((w \o a) \o b) \o c) /\ AnySeq(c)
    BY <1>1, <2>2
  <2>4. ((w \o a) \o b) \o c = w \o ((a \o b) \o c)
    <3>1. (w \o a) \o b = w \o (a \o b)
      BY <1>3, <2>1, <2>2, SeqAssociative
    <3>2. AnySeq(a \o b)
      BY <2>1, <2>2, SeqConcat
    <3>3. (w \o (a \o b)) \o c = w \o ((a \o b) \o c)
      BY <1>3, <2>3, <3>2, SeqAssociative
    <3>. QED
      BY <3>1, <3>3
  <2>5. MapExpression(x, scs, i, part) = (a \o b) \o c /\ ScopesAfter(x, scs) = after
    BY <1>5 DEF MapExpression, ScopesAfter
  <2>. QED
    BY <2>3, <2>4, <2>5
<1>. QED
  BY <1>4, <1>5

(* The tokens of an expression. *)
IsExpr(t, i) == t.t \in {"use", "declare"} /\ t.node = i /\ t.part \in Parts

LEMMA ExpressionTokens ==
    ASSUME NEW x, NEW scs, NEW i, NEW part, part \in Parts
    PROVE  /\ AnySeq(MapExpression(x, scs, i, part))
           /\ \A t \in Elems(MapExpression(x, scs, i, part)) : IsExpr(t, i)
<1>1. ASSUME NEW name, NEW sc
      PROVE  AnySeq(Use(sc, name, i, part)) /\ \A t \in Elems(Use(sc, name, i, part)) : IsExpr(t, i)
  <2>1. Use(sc, name, i, part) = <<>> \/ Use(sc, name, i, part) = <<UseToken(sc, name, i, part)>>
    BY DEF Use, UseToken
  <2>2. IsExpr(UseToken(sc, name, i, part), i)
    BY DEF UseToken, IsExpr
  <2>. QED
    BY <2>1, <2>2, ShortSeqs
<1>2. ASSUME NEW name
      PROVE  AnySeq(Declaration(name, i, part)) /\ \A t \in Elems(Declaration(name, i, part)) : IsExpr(t, i)
  <2>1. Declaration(name, i, part) = <<>> \/ Declaration(name, i, part) = <<DeclareToken(name, i, part)>>
    BY DEF Declaration, DeclareToken
  <2>2. IsExpr(DeclareToken(name, i, part), i)
    BY DEF DeclareToken, IsExpr
  <2>. QED
    BY <2>1, <2>2, ShortSeqs
<1>3. CASE x = None
  BY <1>3, ShortSeqs DEF MapExpression
<1>4. CASE x # None
  <2>. PICK a : a = Use(scs, x.uses, i, part)
    OBVIOUS
  <2>. PICK b : b = Declaration(x.declares, i, part)
    OBVIOUS
  <2>. PICK c : c = Use(Declare(scs, x.declares), x.then, i, part)
    OBVIOUS
  <2>1. AnySeq(a) /\ AnySeq(b) /\ AnySeq(c) /\ \A t \in Elems(a) \cup Elems(b) \cup Elems(c) : IsExpr(t, i)
    BY <1>1, <1>2
  <2>2. MapExpression(x, scs, i, part) = (a \o b) \o c
    BY <1>4 DEF MapExpression
  <2>3. AnySeq(a \o b) /\ Elems(a \o b) = Elems(a) \cup Elems(b)
    BY <2>1, SeqConcat
  <2>4. AnySeq((a \o b) \o c) /\ Elems((a \o b) \o c) = Elems(a \o b) \cup Elems(c)
    BY <2>1, <2>3, SeqConcat
  <2>. QED
    BY <2>1, <2>2, <2>3, <2>4
<1>. QED
  BY <1>3, <1>4

(* A scope is entered behind those there are. *)
Adds(s, x, t) == t = Append(s, x)
Enters(F, fr, sc) == sc \in F /\ sc.at \in Nat /\ \A s \in Elems(fr) : s.at < sc.at

LEMMA GoodEnter ==
    ASSUME NEW S, NEW F, NEW fr, NEW scs, NEW w, Good(S, F, fr, scs, w),
           NEW sc, Enters(F, fr, sc), NEW fr2, Adds(fr, sc, fr2), NEW scs2, Adds(scs, sc.names, scs2)
    PROVE  Good(S, F, fr2, scs2, w) /\ Elems(fr2) = Elems(fr) \cup {sc}
<1>. PICK X : X = sc.names
  OBVIOUS
<1>1. /\ AnySeq(scs) /\ AnySeq(w) /\ Ordered(fr) /\ AnySeq(fr)
      /\ Fits(S, fr, scs, w) /\ UsesRight(S, w) /\ Free(S, w, F)
      /\ Len(fr) = Len(scs)
      /\ sc \in F /\ sc.at \in Nat /\ (\A s \in Elems(fr) : s.at < sc.at)
      /\ fr2 = Append(fr, sc) /\ scs2 = Append(scs, X)
  BY DEF Good, Ordered, Fits, Enters, Adds
<1>2. DOMAIN fr = 1..Len(fr) /\ Len(fr) \in Nat
  BY <1>1, SeqIs
<1>3. /\ AnySeq(fr2) /\ Len(fr2) = Len(fr) + 1
      /\ \A j \in 1..Len(fr) : fr2[j] = fr[j]
      /\ fr2[Len(fr) + 1] = sc
  BY <1>1, SeqEnds
<1>4. /\ AnySeq(scs2) /\ Len(scs2) = Len(fr) + 1
      /\ \A j \in 1..Len(fr) : scs2[j] = scs[j]
      /\ scs2[Len(fr) + 1] = X
  <2>1. /\ AnySeq(scs2) /\ Len(scs2) = Len(scs) + 1
        /\ \A j \in 1..Len(scs) : scs2[j] = scs[j]
        /\ scs2[Len(scs) + 1] = X
    BY <1>1, SeqEnds
  <2>. QED
    BY <1>1, <2>1
<1>5. DOMAIN fr2 = 1..(Len(fr) + 1) /\ \A j \in 1..(Len(fr) + 1) : j \in 1..Len(fr) \/ j = Len(fr) + 1
  BY <1>2, <1>3, SeqIs
<1>6. Elems(fr2) = Elems(fr) \cup {sc}
  BY <1>2, <1>3, <1>5 DEF Elems
<1>7. Ordered(fr2)
  <2>1. \A j \in 1..Len(fr) : fr[j] \in Elems(fr) /\ fr[j].at \in Nat
    BY <1>1, <1>2 DEF Elems, Ordered
  <2>2. \A j \in 1..Len(fr2) : fr2[j].at \in Nat
    BY <1>1, <1>3, <1>5, <2>1
  <2>3. ASSUME NEW j \in 1..Len(fr2), NEW k \in 1..Len(fr2), j < k PROVE fr2[j].at < fr2[k].at
    <3>1. j \in 1..Len(fr) /\ (k \in 1..Len(fr) \/ k = Len(fr) + 1)
      BY <1>2, <1>3, <2>3
    <3>2. CASE k \in 1..Len(fr)
      BY <1>1, <1>3, <2>3, <3>1, <3>2 DEF Ordered
    <3>3. CASE k = Len(fr) + 1
      BY <1>1, <1>3, <2>1, <3>1, <3>3
    <3>. QED
      BY <3>1, <3>2, <3>3
  <2>. QED
    BY <1>3, <2>2, <2>3 DEF Ordered
<1>8. Fits(S, fr2, scs2, w)
  <2>1. \A x : ~Put(S, w, Len(w), sc, x)
    BY <1>1 DEF Put, Free, Inner
  <2>2. ASSUME NEW j \in 1..Len(scs2), NEW x
        PROVE  x \in scs2[j] <=> (x \in fr2[j].names \/ Put(S, w, Len(w), fr2[j], x))
    <3>1. CASE j \in 1..Len(fr)
      BY <1>1, <1>3, <1>4, <3>1 DEF Fits
    <3>2. CASE j = Len(fr) + 1
      BY <1>3, <1>4, <2>1, <3>2
    <3>. QED
      BY <1>4, <1>5, <3>1, <3>2
  <2>. QED
    BY <1>3, <1>4, <2>2 DEF Fits
<1>9. Good(S, F, fr2, scs2, w)
  BY <1>1, <1>4, <1>7, <1>8 DEF Good
<1>. QED
  BY <1>6, <1>9

(* The last scopes are left: fr and scs are what comes before them. *)
LEMMA GoodLeave ==
    ASSUME NEW S, NEW F, NEW fr2, NEW scs2, NEW w, Good(S, F, fr2, scs2, w),
           NEW fr, NEW scs, AnySeq(fr), AnySeq(scs), Len(fr) = Len(scs), Len(fr) <= Len(fr2),
           \A j \in 1..Len(fr) : fr[j] = fr2[j],
           \A j \in 1..Len(fr) : \A x : x \in scs[j] <=> x \in scs2[j]
    PROVE  Good(S, F, fr, scs, w)
<1>1. /\ AnySeq(scs2) /\ AnySeq(w) /\ Ordered(fr2) /\ AnySeq(fr2)
      /\ Fits(S, fr2, scs2, w) /\ UsesRight(S, w) /\ Free(S, w, F)
      /\ Len(fr2) = Len(scs2)
  BY DEF Good, Ordered, Fits
<1>2. Len(fr) \in Nat /\ Len(fr2) \in Nat
  BY <1>1, SeqIs
<1>3. \A j \in 1..Len(fr) : j \in 1..Len(fr2)
  BY <1>2
<1>4. Ordered(fr)
  BY <1>1, <1>3 DEF Ordered
<1>5. Fits(S, fr, scs, w)
  BY <1>1, <1>3 DEF Fits
<1>. QED
  BY <1>1, <1>4, <1>5 DEF Good

(* A tree that grows leaves what is written right. *)
LEMMA GoodGrows ==
    ASSUME NEW S, NEW fr, NEW scs, NEW w, Good(S, {}, fr, scs, w), NEW R,
           \A l \in 1..Len(w) : w[l].t \in {"use", "declare"} =>
              R[w[l].node][w[l].part] = S[w[l].node][w[l].part],
           NEW F, Free(R, w, F)
    PROVE  Good(R, F, fr, scs, w)
<1>1. /\ AnySeq(scs) /\ AnySeq(w) /\ Ordered(fr)
      /\ Fits(S, fr, scs, w) /\ UsesRight(S, w)
  BY DEF Good
<1>2. \A l \in 1..Len(w) : w[l].t = "declare" => \A sc : Inner(R, sc, w[l]) <=> Inner(S, sc, w[l])
  BY DEF Inner
<1>3. ASSUME NEW k \in 0..Len(w), NEW sc, NEW x PROVE Put(R, w, k, sc, x) <=> Put(S, w, k, sc, x)
  <2>1. Len(w) \in Nat /\ \A l \in 1..k : l \in 1..Len(w)
    BY <1>1, SeqIs
  <2>. QED
    BY <1>2, <2>1 DEF Put
<1>4. Len(w) \in 0..Len(w) /\ \A k \in 1..Len(w) : k - 1 \in 0..Len(w)
  BY <1>1, SeqIs
<1>5. Fits(R, fr, scs, w)
  BY <1>1, <1>3, <1>4 DEF Fits
<1>6. UsesRight(R, w)
  <2>1. ASSUME NEW k \in 1..Len(w), w[k].t = "use" PROVE UseRight(R, w, k)
    <3>1. UseRight(S, w, k)
      BY <1>1, <2>1 DEF UsesRight
    <3>2. R[w[k].node][w[k].part] = S[w[k].node][w[k].part]
      BY <2>1
    <3>3. \A sc, x : Put(R, w, k - 1, sc, x) <=> Put(S, w, k - 1, sc, x)
      BY <1>3, <1>4
    <3>. QED
      BY <3>1, <3>2, <3>3 DEF UseRight
  <2>. QED
    BY <2>1 DEF UsesRight
<1>. QED
  BY <1>1, <1>5, <1>6 DEF Good


(* Fewer scopes to be entered. *)
LEMMA GoodFewer ==
    ASSUME NEW S, NEW F, NEW fr, NEW scs, NEW w, Good(S, F, fr, scs, w), NEW G, G \subseteq F
    PROVE  Good(S, G, fr, scs, w)
BY DEF Good, Free

(* Where the parts of an element stand: base are the scopes around it. *)
LoopOf(e, i)  == [at |-> 3 * i, names |-> {e.for.binds}]
SlotOf(e, i)  == [at |-> 3 * i + 1, names |-> {e.slot.binds}]
EventOf(i)    == [at |-> 3 * i + 2, names |-> {"$event"}]
Inside(e, i, base) == base \cup (IF e.for # None THEN {LoopOf(e, i)} ELSE {})

Stands(R, e, i, base) ==
    /\ i \in Nat /\ \A s \in base : s.at \in Nat /\ s.at < 3 * i
    /\ R[i]["cond"] = base
    /\ R[i]["source"] = Inside(e, i, base)
    /\ R[i]["on"] = Inside(e, i, base)
    /\ R[i]["prop"] = Inside(e, i, base)
    /\ R[i]["event"] = Inside(e, i, base) \cup {EventOf(i)}

(* A token and an expression behind it. *)
LEMMA GoodHead ==
    ASSUME NEW S, NEW F, NEW fr, NEW scs, NEW w, Good(S, F, fr, scs, w),
           NEW t, t.t \notin {"use", "declare"},
           NEW i, NEW part, part \in Parts, Elems(fr) = S[i][part], F \cap S[i][part] = {}, NEW x
    PROVE  Good(S, F, fr, ScopesAfter(x, scs), w \o (<<t>> \o MapExpression(x, scs, i, part)))
<1>. PICK head : head = <<t>>
  OBVIOUS
<1>. PICK ex : ex = MapExpression(x, scs, i, part)
  OBVIOUS
<1>1. Good(S, F, fr, scs, w \o head)
  BY GoodPlain
<1>2. Good(S, F, fr, ScopesAfter(x, scs), (w \o head) \o ex)
  BY <1>1, GoodExpression
<1>3. AnySeq(w) /\ AnySeq(head) /\ AnySeq(ex)
  BY ShortSeqs, ExpressionTokens DEF Good
<1>4. (w \o head) \o ex = w \o (head \o ex)
  BY <1>3, SeqAssociative
<1>5. Good(S, F, fr, ScopesAfter(x, scs), w \o (head \o ex))
  BY <1>2, <1>4
<1>. QED
  BY <1>5

(* A condition is read in the scopes around the element. *)
LEMMA GoodBranch ==
    ASSUME NEW e, Effective(e) \in {"none", "if", "else-if", "else"},
           NEW R, NEW base, Stands(R, e, This, base),
           NEW F, F \cap base = {}, NEW fr, Elems(fr) = base, Good(R, F, fr, scopes, out)
    PROVE  Good(R, F, fr, CondScopes(e), out \o BranchHead(e))
<1>1. CASE Effective(e) = "none"
  <2>1. BranchHead(e) = <<>> /\ CondScopes(e) = scopes
    BY <1>1 DEF BranchHead, CondScopes, Tested, ScopesAfter
  <2>. QED
    BY <2>1, NoMore DEF Good
<1>2. CASE Effective(e) # "none"
  <2>. PICK i : i = This
    OBVIOUS
  <2>. PICK t : t = [t |-> Effective(e), node |-> i]
    OBVIOUS
  <2>. PICK x : x = Tested(e)
    OBVIOUS
  <2>1. t.t \notin {"use", "declare"}
    OBVIOUS
  <2>2. R[i]["cond"] = base
    BY DEF Stands
  <2>3. "cond" \in Parts
    BY DEF Parts
  <2>4. Good(R, F, fr, ScopesAfter(x, scopes), out \o (<<t>> \o MapExpression(x, scopes, i, "cond")))
    BY <2>1, <2>2, <2>3, GoodHead
  <2>5. BranchHead(e) = <<t>> \o MapExpression(x, scopes, i, "cond") /\ CondScopes(e) = ScopesAfter(x, scopes)
    BY <1>2 DEF BranchHead, CondScopes
  <2>. QED
    BY <2>4, <2>5
<1>. QED
  BY <1>1, <1>2

(* The source of a loop is read in the scope of the loop. *)
LEMMA GoodFor ==
    ASSUME NEW e, NEW i, i = This, NEW R, NEW base, Stands(R, e, i, base),
           NEW F, F = {LoopOf(e, i), SlotOf(e, i), EventOf(i)},
           NEW G, G = {SlotOf(e, i), EventOf(i)},
           NEW fr, Elems(fr) = base, NEW w, Good(R, F, fr, CondScopes(e), w)
    PROVE  \E fr2 : Elems(fr2) = Inside(e, i, base) /\ Good(R, G, fr2, ForScopes(e), w \o ForHead(e))
<1>. PICK loop : loop = LoopOf(e, i)
  OBVIOUS
<1>1. /\ G \subseteq F /\ loop \in F
      /\ i \in Nat /\ (\A s \in base : s.at \in Nat /\ s.at < 3 * i) /\ R[i]["source"] = Inside(e, i, base)
      /\ loop.at = 3 * i /\ loop.names = {e.for.binds}
  BY DEF Stands, LoopOf
<1>2. Good(R, G, fr, CondScopes(e), w)
  BY <1>1, GoodFewer
<1>3. CASE e.for = None
  <2>1. ForHead(e) = <<>> /\ ForScopes(e) = CondScopes(e) /\ Inside(e, i, base) = base
    BY <1>3 DEF ForHead, ForScopes, Inside
  <2>2. w \o <<>> = w
    BY NoMore DEF Good
  <2>. QED
    BY <1>2, <2>1, <2>2
<1>4. CASE e.for # None
  <2>. PICK fr2 : fr2 = Append(fr, loop)
    OBVIOUS
  <2>. PICK scs : scs = CondScopes(e)
    OBVIOUS
  <2>. PICK scs2 : scs2 = LoopScopes(e)
    OBVIOUS
  <2>. PICK x : x = e.for.source
    OBVIOUS
  <2>. PICK t : t = [t |-> "for", node |-> i]
    OBVIOUS
  <2>1. scs2 = Append(scs, {e.for.binds})
    BY DEF LoopScopes
  <2>2. loop.at \in Nat /\ \A s \in Elems(fr) : s.at < loop.at
    BY <1>1
  <2>3. Good(R, F, fr2, scs2, w) /\ Elems(fr2) = Elems(fr) \cup {loop}
    <3>1. Good(R, F, fr, scs, w) /\ Enters(F, fr, loop)
          /\ Adds(fr, loop, fr2) /\ Adds(scs, loop.names, scs2)
      BY <1>1, <2>1, <2>2 DEF Enters, Adds
    <3>. QED
      BY <3>1, GoodEnter
  <2>4. Elems(fr2) = Inside(e, i, base)
    BY <1>4, <2>3 DEF Inside
  <2>5. Good(R, G, fr2, scs2, w)
    BY <1>1, <2>3, GoodFewer
  <2>6. G \cap R[i]["source"] = {}
    <3>1. \A s \in G : s.at \in {3 * i + 1, 3 * i + 2}
      BY DEF SlotOf, EventOf
    <3>2. \A s \in Inside(e, i, base) : s.at \in Nat /\ (s.at < 3 * i \/ s.at = 3 * i)
      BY <1>1, <1>4 DEF Inside, LoopOf
    <3>3. \A a, b \in Int : a < b => ~(b + 1 = a) /\ ~(b + 2 = a)
      OBVIOUS
    <3>4. 3 * i \in Nat
      BY <1>1
    <3>5. \A a \in Nat : a < 3 * i \/ a = 3 * i => a \notin {3 * i + 1, 3 * i + 2}
      BY <3>4
    <3>. QED
      BY <1>1, <3>1, <3>2, <3>5
  <2>7. t.t \notin {"use", "declare"} /\ "source" \in Parts
    BY DEF Parts
  <2>8. Good(R, G, fr2, ScopesAfter(x, scs2), w \o (<<t>> \o MapExpression(x, scs2, i, "source")))
    BY <1>1, <2>4, <2>5, <2>6, <2>7, GoodHead
  <2>9. ForHead(e) = <<t>> \o MapExpression(x, scs2, i, "source") /\ ForScopes(e) = ScopesAfter(x, scs2)
    BY <1>4 DEF ForHead, ForScopes
  <2>. QED
    BY <2>4, <2>8, <2>9
<1>. QED
  BY <1>3, <1>4

(* The scopes an element may enter are none of those before. *)
LEMMA Apart ==
    ASSUME NEW R, NEW e, NEW i, NEW base, Stands(R, e, i, base)
    PROVE  /\ {LoopOf(e, i), SlotOf(e, i), EventOf(i)} \cap base = {}
           /\ {SlotOf(e, i), EventOf(i)} \cap Inside(e, i, base) = {}
           /\ SlotOf(e, i) # EventOf(i)
           /\ SlotOf(e, i).at \in Nat /\ EventOf(i).at \in Nat
           /\ \A s \in Inside(e, i, base) : s.at < SlotOf(e, i).at /\ s.at < EventOf(i).at
<1>. PICK n : n = 3 * i
  OBVIOUS
<1>. PICK loop : loop = LoopOf(e, i)
  OBVIOUS
<1>. PICK slot : slot = SlotOf(e, i)
  OBVIOUS
<1>. PICK event : event = EventOf(i)
  OBVIOUS
<1>1. n \in Nat /\ loop.at = n /\ slot.at = n + 1 /\ event.at = n + 2
  BY DEF Stands, LoopOf, SlotOf, EventOf
<1>2. \A s \in base : s.at \in Nat /\ s.at < n
  BY DEF Stands
<1>3. \A s \in Inside(e, i, base) : s \in base \/ s = loop
  BY DEF Inside
<1>4. \A s \in Inside(e, i, base) : s.at \in Nat /\ s.at <= n
  BY <1>1, <1>2, <1>3
<1>5. loop \notin base /\ slot \notin base /\ event \notin base
  BY <1>1, <1>2
<1>6. slot \notin Inside(e, i, base) /\ event \notin Inside(e, i, base) /\ slot # event
  BY <1>1, <1>4
<1>7. \A s \in Inside(e, i, base) : s.at < slot.at /\ s.at < event.at
  BY <1>1, <1>4
<1>. QED
  BY <1>1, <1>5, <1>6, <1>7

(* An expression changes the innermost scope only. *)
LEMMA ScopesAfterIs ==
    ASSUME NEW x, NEW scs, AnySeq(scs)
    PROVE  /\ AnySeq(ScopesAfter(x, scs)) /\ Len(ScopesAfter(x, scs)) = Len(scs)
           /\ \A j \in 1..Len(scs) : j # Len(scs) => \A y : y \in ScopesAfter(x, scs)[j] <=> y \in scs[j]
<1>1. CASE ScopesAfter(x, scs) = scs
  BY <1>1
<1>2. CASE ScopesAfter(x, scs) # scs
  <2>1. ScopesAfter(x, scs) = Declare(scs, x.declares) /\ x.declares # None
    BY <1>2 DEF ScopesAfter, Declare
  <2>. PICK name : name = x.declares
    OBVIOUS
  <2>2. /\ AnySeq(Declare(scs, name)) /\ Len(Declare(scs, name)) = Len(scs)
        /\ \A j \in 1..Len(scs) : \A y :
              y \in Declare(scs, name)[j] <=> (y \in scs[j] \/ (j = Len(scs) /\ y = name))
    BY <2>1, DeclareIs
  <2>. QED
    BY <2>1, <2>2
<1>. QED
  BY <1>1, <1>2

(* A handler is read inside the loop of its element; the scope of $event   *)
(* is left behind it.                                                      *)
LEMMA GoodHandler ==
    ASSUME NEW R, NEW e, NEW i, NEW base, Stands(R, e, i, base),
           NEW F, F = {SlotOf(e, i), EventOf(i)}, NEW G, G = {SlotOf(e, i)},
           NEW fr, Elems(fr) = Inside(e, i, base), NEW scs, NEW w, Good(R, F, fr, scs, w), NEW on, NEW cs
    PROVE  Good(R, G, fr, ScopesAfterHandler(on, scs), w \o Handler(on, scs, cs, i))
<1>. PICK slot : slot = SlotOf(e, i)
  OBVIOUS
<1>. PICK event : event = EventOf(i)
  OBVIOUS
<1>. PICK inside : inside = Inside(e, i, base)
  OBVIOUS
<1>1. /\ G \subseteq F /\ event \in F /\ event \notin G /\ slot # event
      /\ slot \notin inside /\ event \notin inside /\ event.at \in Nat
      /\ \A s \in inside : s.at < event.at
  BY Apart
<1>2. R[i]["on"] = inside /\ R[i]["event"] = inside \cup {event} /\ event.names = {"$event"}
  BY DEF Stands, EventOf
<1>20. G \cap R[i]["on"] = {} /\ G \cap R[i]["event"] = {}
  BY <1>1, <1>2
<1>3. Good(R, G, fr, scs, w)
  BY <1>1, GoodFewer
<1>4. CASE on = None
  <2>1. Handler(on, scs, cs, i) = <<>> /\ ScopesAfterHandler(on, scs) = scs
    BY <1>4 DEF Handler, ScopesAfterHandler
  <2>. QED
    BY <1>3, <2>1, NoMore DEF Good
<1>5. CASE on # None /\ ~on.compound
  <2>. PICK x : x = on.code
    OBVIOUS
  <2>1. Handler(on, scs, cs, i) = MapExpression(x, scs, i, "on") /\ ScopesAfterHandler(on, scs) = ScopesAfter(x, scs)
    BY <1>5 DEF Handler, ScopesAfterHandler
  <2>. QED
    BY <1>2, <1>20, <1>3, <2>1, GoodExpression
<1>6. CASE on # None /\ on.compound
  <2>. PICK x : x = on.code
    OBVIOUS
  <2>14. PICK scs2 : scs2 = Append(scs, {"$event"})
    OBVIOUS
  <2>15. PICK fr2 : fr2 = Append(fr, event)
    OBVIOUS
  <2>2. Adds(fr, event, fr2) /\ Adds(scs, event.names, scs2) /\ Enters(F, fr, event)
    BY <1>1, <1>2, <2>14, <2>15 DEF Adds, Enters
  <2>3. Good(R, F, fr2, scs2, w) /\ Elems(fr2) = inside \cup {event}
    <3>1. Good(R, F, fr2, scs2, w) /\ Elems(fr2) = Elems(fr) \cup {event}
      BY <2>2, GoodEnter
    <3>. QED
      BY <3>1
  <2>4. Good(R, G, fr2, scs2, w)
    BY <1>1, <2>3, GoodFewer
  <2>. PICK t : t = [t |-> "guards", node |-> i, guards |-> cs]
    OBVIOUS
  <2>. PICK after : after = ScopesAfter(x, scs2)
    OBVIOUS
  <2>. PICK v : v = w \o (<<t>> \o MapExpression(x, scs2, i, "event"))
    OBVIOUS
  <2>1. Handler(on, scs, cs, i) = <<t>> \o MapExpression(x, scs2, i, "event") /\ ScopesAfterHandler(on, scs) = scs
    BY <1>6, <2>14 DEF Handler, ScopesAfterHandler
  <2>5. t.t \notin {"use", "declare"} /\ "event" \in Parts
    BY DEF Parts
  <2>6. Good(R, G, fr2, after, v)
    BY <1>2, <1>20, <2>3, <2>4, <2>5, GoodHead
  <2>7. AnySeq(fr) /\ AnySeq(scs) /\ Len(fr) = Len(scs)
    BY DEF Good, Ordered, Fits
  <2>8. /\ Len(fr) \in Nat /\ Len(fr2) = Len(fr) + 1
        /\ \A j \in 1..Len(fr) : fr2[j] = fr[j]
    BY <2>7, <2>15, SeqIs, SeqEnds
  <2>9. AnySeq(scs2) /\ Len(scs2) = Len(scs) + 1 /\ \A j \in 1..Len(scs) : scs2[j] = scs[j]
    BY <2>7, <2>14, SeqEnds
  <2>10. \A j \in 1..Len(scs2) : j # Len(scs2) => \A y : y \in after[j] <=> y \in scs2[j]
    BY <2>9, ScopesAfterIs
  <2>11. \A j \in 1..Len(fr) : \A y : y \in scs[j] <=> y \in after[j]
    <3>1. \A j \in 1..Len(fr) : j \in 1..Len(scs2) /\ j # Len(scs2)
      BY <2>7, <2>8, <2>9
    <3>. QED
      BY <2>7, <2>9, <2>10, <3>1
  <2>12. Len(fr) <= Len(fr2) /\ \A j \in 1..Len(fr) : fr[j] = fr2[j]
    BY <2>8
  <2>13. Good(R, G, fr, scs, v)
    BY <2>6, <2>7, <2>11, <2>12, GoodLeave
  <2>. QED
    BY <2>1, <2>13
<1>. QED
  BY <1>4, <1>5, <1>6

(* Three put behind a text one by one. *)
OneByOne(s, a, b, c) == ((s \o a) \o b) \o c = s \o ((a \o b) \o c)

LEMMA SeqAssociative3 ==
    ASSUME NEW s, AnySeq(s), NEW a, AnySeq(a), NEW b, AnySeq(b), NEW c, AnySeq(c)
    PROVE  OneByOne(s, a, b, c)
<1>1. PICK ab : ab = a \o b
  OBVIOUS
<1>2. AnySeq(ab)
  BY <1>1, SeqConcat
<1>3. (s \o a) \o b = s \o ab
  BY <1>1, SeqAssociative
<1>4. (s \o ab) \o c = s \o (ab \o c)
  BY <1>2, SeqAssociative
<1>. QED
  BY <1>1, <1>3, <1>4 DEF OneByOne

(* The text of a handler. *)
HandlerToken(on, cs, i, t) ==
    \/ on # None /\ t = [t |-> "guards", node |-> i, guards |-> cs]
    \/ IsExpr(t, i)

LEMMA HandlerIsSeq ==
    ASSUME NEW on, NEW scs, NEW cs, NEW i
    PROVE  /\ AnySeq(Handler(on, scs, cs, i))
           /\ \A t \in Elems(Handler(on, scs, cs, i)) : HandlerToken(on, cs, i, t)
<1>1. "on" \in Parts /\ "event" \in Parts
  BY DEF Parts
<1>2. CASE on = None
  BY <1>2, ShortSeqs DEF Handler
<1>3. CASE on # None /\ ~on.compound
  <2>. PICK ex : ex = MapExpression(on.code, scs, i, "on")
    OBVIOUS
  <2>1. Handler(on, scs, cs, i) = ex
    BY <1>3 DEF Handler
  <2>2. AnySeq(ex) /\ \A t \in Elems(ex) : IsExpr(t, i)
    BY <1>1, ExpressionTokens
  <2>. QED
    BY <2>1, <2>2 DEF HandlerToken
<1>4. CASE on # None /\ on.compound
  <2>. PICK scs2 : scs2 = Append(scs, {"$event"})
    OBVIOUS
  <2>. PICK ex : ex = MapExpression(on.code, scs2, i, "event")
    OBVIOUS
  <2>. PICK head : head = <<[t |-> "guards", node |-> i, guards |-> cs]>>
    OBVIOUS
  <2>1. Handler(on, scs, cs, i) = head \o ex
    BY <1>4 DEF Handler
  <2>2. AnySeq(ex) /\ \A t \in Elems(ex) : IsExpr(t, i)
    BY <1>1, ExpressionTokens
  <2>3. AnySeq(head) /\ \A t \in Elems(head) : HandlerToken(on, cs, i, t)
    BY <1>4, ShortSeqs DEF HandlerToken
  <2>4. AnySeq(head \o ex) /\ Elems(head \o ex) = Elems(head) \cup Elems(ex)
    BY <2>2, <2>3, SeqConcat
  <2>. QED
    BY <2>1, <2>2, <2>3, <2>4 DEF HandlerToken
<1>. QED
  BY <1>2, <1>3, <1>4

(* What is bound, and the handler. *)
LEMMA GoodOwn ==
    ASSUME NEW R, NEW e, NEW i, i = This, NEW base, Stands(R, e, i, base),
           NEW F, F = {SlotOf(e, i), EventOf(i)}, NEW G, G = {SlotOf(e, i)},
           NEW fr, Elems(fr) = Inside(e, i, base), NEW scs, NEW w, Good(R, F, fr, scs, w), NEW cs
    PROVE  Good(R, G, fr, OwnScopes(e, scs), w \o Own(e, scs, cs))
<1>. PICK x : x = e.prop
  OBVIOUS
<1>. PICK head : head = <<[t |-> "own", node |-> i]>>
  OBVIOUS
<1>1. G \subseteq F /\ F \cap R[i]["prop"] = {} /\ G \cap R[i]["prop"] = {} /\ Elems(fr) = R[i]["prop"]
  <2>1. {SlotOf(e, i), EventOf(i)} \cap Inside(e, i, base) = {} /\ R[i]["prop"] = Inside(e, i, base)
    BY Apart DEF Stands
  <2>. QED
    BY <2>1
<1>2. AnySeq(w) /\ AnySeq(head) /\ "prop" \in Parts
  BY ShortSeqs DEF Good, Parts
<1>3. Good(R, F, fr, scs, w \o head)
  <2>. PICK t : t = [t |-> "own", node |-> i]
    OBVIOUS
  <2>1. t.t \notin {"use", "declare"} /\ head = <<t>>
    OBVIOUS
  <2>. QED
    BY <2>1, GoodPlain
<1>4. CASE e.tag = "native"
  <2>. PICK h : h = Handler(e.on, scs, cs, i)
    OBVIOUS
  <2>. PICK handled : handled = ScopesAfterHandler(e.on, scs)
    OBVIOUS
  <2>. PICK p : p = MapExpression(x, handled, i, "prop")
    OBVIOUS
  <2>1. Good(R, G, fr, handled, (w \o head) \o h)
    BY <1>3, GoodHandler
  <2>2. Good(R, G, fr, ScopesAfter(x, handled), ((w \o head) \o h) \o p)
    BY <1>1, <2>1, GoodExpression
  <2>3. OwnScopes(e, scs) = ScopesAfter(x, handled) /\ Own(e, scs, cs) = (head \o h) \o p
    BY <1>4 DEF OwnScopes, Own
  <2>4. AnySeq(h) /\ AnySeq(p)
    BY <1>2, HandlerIsSeq, ExpressionTokens
  <2>5. ((w \o head) \o h) \o p = w \o ((head \o h) \o p)
    <3>1. OneByOne(w, head, h, p)
      BY <1>2, <2>4, SeqAssociative3
    <3>. QED
      BY <3>1 DEF OneByOne
  <2>6. Good(R, G, fr, ScopesAfter(x, handled), w \o ((head \o h) \o p))
    BY <2>2, <2>5
  <2>. QED
    BY <2>3, <2>6
<1>5. CASE e.tag = "component"
  <2>. PICK p : p = MapExpression(x, scs, i, "prop")
    OBVIOUS
  <2>. PICK bound : bound = ScopesAfter(x, scs)
    OBVIOUS
  <2>. PICK q : q = MapExpression(x, bound, i, "prop")
    OBVIOUS
  <2>. PICK twice : twice = ScopesAfter(x, bound)
    OBVIOUS
  <2>. PICK h : h = Handler(e.on, twice, cs, i)
    OBVIOUS
  <2>1. Good(R, F, fr, bound, (w \o head) \o p)
    BY <1>1, <1>3, GoodExpression
  <2>2. Good(R, F, fr, twice, ((w \o head) \o p) \o q)
    BY <1>1, <2>1, GoodExpression
  <2>3. Good(R, G, fr, ScopesAfterHandler(e.on, twice), (((w \o head) \o p) \o q) \o h)
    BY <2>2, GoodHandler
  <2>4. OwnScopes(e, scs) = ScopesAfterHandler(e.on, twice) /\ Own(e, scs, cs) = ((head \o p) \o q) \o h
    BY <1>5 DEF OwnScopes, Own
  <2>5. AnySeq(h) /\ AnySeq(p) /\ AnySeq(q)
    BY <1>2, HandlerIsSeq, ExpressionTokens
  <2>6. ((w \o head) \o p) \o q = w \o ((head \o p) \o q)
    <3>1. OneByOne(w, head, p, q)
      BY <1>2, <2>5, SeqAssociative3
    <3>. QED
      BY <3>1 DEF OneByOne
  <2>7. AnySeq((head \o p) \o q)
    BY <1>2, <2>5, SeqConcat
  <2>8. (w \o ((head \o p) \o q)) \o h = w \o (((head \o p) \o q) \o h)
    BY <1>2, <2>5, <2>7, SeqAssociative
  <2>9. Good(R, G, fr, ScopesAfterHandler(e.on, twice), w \o (((head \o p) \o q) \o h))
    BY <2>3, <2>6, <2>8
  <2>. QED
    BY <2>4, <2>9
<1>6. CASE e.tag \notin {"native", "component"}
  <2>1. OwnScopes(e, scs) = scs /\ Own(e, scs, cs) = <<>>
    BY <1>6 DEF OwnScopes, Own
  <2>2. w \o <<>> = w
    BY <1>2, NoMore
  <2>3. Good(R, G, fr, scs, w)
    BY <1>1, GoodFewer
  <2>. QED
    BY <2>1, <2>2, <2>3
<1>. QED
  BY <1>4, <1>5, <1>6

-----------------------------------------------------------------------------
(* The text of an element before its children. *)

Written(e) ==
    BranchHead(e) \o (ForHead(e) \o (Own(e, ForScopes(e), CondsAfter(e)) \o SlotHead(e)))

OwnToken(e, t) ==
    \/ t = [t |-> "own", node |-> This]
    \/ e.on # None /\ t = [t |-> "guards", node |-> This, guards |-> CondsAfter(e)]
    \/ IsExpr(t, This)

TokenOf(e, t) ==
    \/ Effective(e) # "none" /\ t = [t |-> Effective(e), node |-> This]
    \/ t = [t |-> "for", node |-> This]
    \/ OwnToken(e, t)
    \/ t = [t |-> "slot", node |-> This]

(* The tokens of a v-if, v-else-if or v-else. *)
LEMMA BranchTokens ==
    ASSUME NEW e
    PROVE  AnySeq(BranchHead(e)) /\ \A t \in Elems(BranchHead(e)) : TokenOf(e, t)
<1>1. CASE Effective(e) = "none"
  BY <1>1, ShortSeqs DEF BranchHead
<1>2. CASE Effective(e) # "none"
  <2>. PICK i : i = This
    OBVIOUS
  <2>. DEFINE head == <<[t |-> Effective(e), node |-> This]>>
              x == Tested(e)
              code == MapExpression(x, scopes, i, "cond")
  <2>1. AnySeq(head) /\ \A t \in Elems(head) : TokenOf(e, t)
    BY <1>2, ShortSeqs DEF TokenOf
  <2>2. BranchHead(e) = head \o code
    BY <1>2 DEF BranchHead
  <2>. HIDE DEF x
  <2>3. AnySeq(code) /\ \A t \in Elems(code) : IsExpr(t, i)
    BY ExpressionTokens DEF Parts
  <2>4. \A t \in Elems(code) : TokenOf(e, t)
    BY <2>3 DEF TokenOf, OwnToken
  <2>. HIDE DEF head, code
  <2>. QED
    BY <2>1, <2>2, <2>3, <2>4, SeqConcat
<1>. QED
  BY <1>1, <1>2

(* The tokens of a v-for. *)
LEMMA ForTokens ==
    ASSUME NEW e
    PROVE  AnySeq(ForHead(e)) /\ \A t \in Elems(ForHead(e)) : TokenOf(e, t)
<1>1. CASE e.for = None
  BY <1>1, ShortSeqs DEF ForHead
<1>2. CASE e.for # None
  <2>. PICK i : i = This
    OBVIOUS
  <2>. DEFINE head == <<[t |-> "for", node |-> This]>>
              scs == LoopScopes(e)
              code == MapExpression(e.for.source, scs, i, "source")
  <2>1. AnySeq(head) /\ \A t \in Elems(head) : TokenOf(e, t)
    BY ShortSeqs DEF TokenOf
  <2>2. ForHead(e) = head \o code
    BY <1>2 DEF ForHead
  <2>. HIDE DEF scs
  <2>3. AnySeq(code) /\ \A t \in Elems(code) : IsExpr(t, i)
    BY ExpressionTokens DEF Parts
  <2>4. \A t \in Elems(code) : TokenOf(e, t)
    BY <2>3 DEF TokenOf, OwnToken
  <2>. HIDE DEF head, code
  <2>. QED
    BY <2>1, <2>2, <2>3, <2>4, SeqConcat
<1>. QED
  BY <1>1, <1>2

(* The tokens of the element itself, what it binds and its handler. *)
LEMMA OwnTokens ==
    ASSUME NEW e
    PROVE  /\ AnySeq(Own(e, ForScopes(e), CondsAfter(e)))
           /\ \A t \in Elems(Own(e, ForScopes(e), CondsAfter(e))) : OwnToken(e, t)
<1>. PICK i : i = This
  OBVIOUS
<1>. PICK scs : scs = ForScopes(e)
  OBVIOUS
<1>. PICK cs : cs = CondsAfter(e)
  OBVIOUS
<1>. DEFINE own == <<[t |-> "own", node |-> This]>>
<1>1. AnySeq(own) /\ \A t \in Elems(own) : OwnToken(e, t)
  BY ShortSeqs DEF OwnToken
<1>2. ASSUME NEW sc PROVE AnySeq(Handler(e.on, sc, cs, i)) /\ \A t \in Elems(Handler(e.on, sc, cs, i)) : OwnToken(e, t)
  <2>1. AnySeq(Handler(e.on, sc, cs, i)) /\ \A t \in Elems(Handler(e.on, sc, cs, i)) : HandlerToken(e.on, cs, i, t)
    BY HandlerIsSeq
  <2>. QED
    BY <2>1 DEF HandlerToken, OwnToken
<1>3. ASSUME NEW sc
      PROVE  /\ AnySeq(MapExpression(e.prop, sc, i, "prop"))
             /\ \A t \in Elems(MapExpression(e.prop, sc, i, "prop")) : OwnToken(e, t)
  <2>1. /\ AnySeq(MapExpression(e.prop, sc, i, "prop"))
        /\ \A t \in Elems(MapExpression(e.prop, sc, i, "prop")) : IsExpr(t, i)
    BY ExpressionTokens DEF Parts
  <2>. QED
    BY <2>1 DEF OwnToken
<1>4. ASSUME NEW a, NEW b, AnySeq(a), AnySeq(b), \A t \in Elems(a) \cup Elems(b) : OwnToken(e, t)
      PROVE  AnySeq(a \o b) /\ \A t \in Elems(a \o b) : OwnToken(e, t)
  BY <1>4, SeqConcat
<1>5. CASE e.tag = "native"
  <2>. PICK h : h = Handler(e.on, scs, cs, i)
    OBVIOUS
  <2>. PICK p : p = MapExpression(e.prop, ScopesAfterHandler(e.on, scs), i, "prop")
    OBVIOUS
  <2>1. Own(e, scs, cs) = (own \o h) \o p
    BY <1>5 DEF Own
  <2>. HIDE DEF own
  <2>2. AnySeq(own \o h) /\ \A t \in Elems(own \o h) : OwnToken(e, t)
    BY <1>1, <1>2, <1>4
  <2>3. AnySeq((own \o h) \o p) /\ \A t \in Elems((own \o h) \o p) : OwnToken(e, t)
    BY <1>3, <1>4, <2>2
  <2>. QED
    BY <2>1, <2>3
<1>6. CASE e.tag = "component"
  <2>. PICK bound : bound = ScopesAfter(e.prop, scs)
    OBVIOUS
  <2>. PICK p : p = MapExpression(e.prop, scs, i, "prop")
    OBVIOUS
  <2>. PICK q : q = MapExpression(e.prop, bound, i, "prop")
    OBVIOUS
  <2>. PICK h : h = Handler(e.on, ScopesAfter(e.prop, bound), cs, i)
    OBVIOUS
  <2>1. Own(e, scs, cs) = ((own \o p) \o q) \o h
    BY <1>6 DEF Own
  <2>. HIDE DEF own
  <2>2. AnySeq(own \o p) /\ \A t \in Elems(own \o p) : OwnToken(e, t)
    BY <1>1, <1>3, <1>4
  <2>3. AnySeq((own \o p) \o q) /\ \A t \in Elems((own \o p) \o q) : OwnToken(e, t)
    BY <1>3, <1>4, <2>2
  <2>4. AnySeq(((own \o p) \o q) \o h) /\ \A t \in Elems(((own \o p) \o q) \o h) : OwnToken(e, t)
    BY <1>2, <1>4, <2>3
  <2>. QED
    BY <2>1, <2>4
<1>7. CASE e.tag \notin {"native", "component"}
  BY <1>7, ShortSeqs DEF Own
<1>. QED
  BY <1>5, <1>6, <1>7

(* The tokens of a v-slot. *)
LEMMA SlotTokens ==
    ASSUME NEW e
    PROVE  AnySeq(SlotHead(e)) /\ \A t \in Elems(SlotHead(e)) : TokenOf(e, t)
BY ShortSeqs DEF SlotHead, TokenOf

(* All tokens an element writes before its children. *)
LEMMA ElementTokens ==
    ASSUME NEW e
    PROVE  AnySeq(Written(e)) /\ \A t \in Elems(Written(e)) : TokenOf(e, t)
<1>. DEFINE own == Own(e, ForScopes(e), CondsAfter(e))
<1>1. AnySeq(own) /\ \A t \in Elems(own) : TokenOf(e, t)
  BY OwnTokens DEF TokenOf
<1>. HIDE DEF own
<1>2. AnySeq(own \o SlotHead(e)) /\ \A t \in Elems(own \o SlotHead(e)) : TokenOf(e, t)
  BY <1>1, SlotTokens, SeqConcat
<1>3. /\ AnySeq(ForHead(e) \o (own \o SlotHead(e)))
      /\ \A t \in Elems(ForHead(e) \o (own \o SlotHead(e))) : TokenOf(e, t)
  BY <1>2, ForTokens, SeqConcat
<1>. QED
  BY <1>3, BranchTokens, SeqConcat DEF Written, own

(* The text an element adds. *)
LEMMA WrittenIs ==
    ASSUME NEW e, AnySeq(out)
    PROVE  out \o BranchHead(e) \o ForHead(e) \o Own(e, ForScopes(e), CondsAfter(e)) \o SlotHead(e)
             = out \o Written(e)
<1>. DEFINE A == BranchHead(e)
            B == ForHead(e)
            C == Own(e, ForScopes(e), CondsAfter(e))
            D == SlotHead(e)
<1>1. AnySeq(A) /\ AnySeq(B) /\ AnySeq(C) /\ AnySeq(D)
  BY BranchTokens, ForTokens, OwnTokens, SlotTokens
<1>2. Written(e) = A \o (B \o (C \o D))
  BY DEF Written
<1>. HIDE DEF A, B, C, D
<1>3. AnySeqs(out, A, B, C, D)
  BY <1>1 DEF AnySeqs
<1>4. out \o A \o B \o C \o D = out \o (A \o (B \o (C \o D)))
  BY <1>3, SeqAssociative5
<1>. QED
  BY <1>2, <1>4 DEF A, B, C, D

(* The scopes of an element's children. *)
ChildScopes(e) ==
    IF OpensSlot(e) THEN Append(OwnScopes(e, ForScopes(e)), {e.slot.binds}) ELSE OwnScopes(e, ForScopes(e))

ScopesIn(e, i, base) == Inside(e, i, base) \cup (IF OpensSlot(e) THEN {SlotOf(e, i)} ELSE {})

(* The scope of a slot is entered last. *)
LEMMA GoodSlot ==
    ASSUME NEW e, NEW i, i = This, NEW R, NEW base, Stands(R, e, i, base),
           NEW G, G = {SlotOf(e, i)},
           NEW fr, Elems(fr) = Inside(e, i, base), NEW w, Good(R, G, fr, OwnScopes(e, ForScopes(e)), w)
    PROVE  \E fr2 : Elems(fr2) = ScopesIn(e, i, base) /\ Good(R, G, fr2, ChildScopes(e), w \o SlotHead(e))
<1>1. CASE ~OpensSlot(e)
  <2>1. SlotHead(e) = <<>> /\ ChildScopes(e) = OwnScopes(e, ForScopes(e)) /\ ScopesIn(e, i, base) = Inside(e, i, base)
    BY <1>1 DEF SlotHead, ChildScopes, ScopesIn
  <2>2. w \o <<>> = w
    BY NoMore DEF Good
  <2>. QED
    BY <2>1, <2>2
<1>2. CASE OpensSlot(e)
  <2>. PICK slot : slot = SlotOf(e, i)
    OBVIOUS
  <2>. PICK scs : scs = OwnScopes(e, ForScopes(e))
    OBVIOUS
  <2>1. PICK fr2 : fr2 = Append(fr, slot)
    OBVIOUS
  <2>2. Enters(G, fr, slot) /\ slot.names = {e.slot.binds}
    <3>1. slot.at \in Nat /\ \A s \in Inside(e, i, base) : s.at < slot.at
      BY Apart
    <3>. QED
      BY <3>1 DEF Enters, SlotOf
  <2>3. ChildScopes(e) = Append(scs, {e.slot.binds})
    BY <1>2 DEF ChildScopes
  <2>4. Adds(fr, slot, fr2) /\ Adds(scs, slot.names, ChildScopes(e))
    BY <2>1, <2>2, <2>3 DEF Adds
  <2>5. Good(R, G, fr2, ChildScopes(e), w) /\ Elems(fr2) = Elems(fr) \cup {slot}
    BY <2>2, <2>4, GoodEnter
  <2>6. Elems(fr2) = ScopesIn(e, i, base)
    BY <1>2, <2>5 DEF ScopesIn
  <2>7. Good(R, G, fr2, ChildScopes(e), w \o SlotHead(e))
    <3>. PICK t : t = [t |-> "slot", node |-> i]
      OBVIOUS
    <3>1. t.t \notin {"use", "declare"} /\ SlotHead(e) = <<t>>
      BY <1>2 DEF SlotHead
    <3>2. Good(R, G, fr2, ChildScopes(e), w \o <<t>>)
      BY <2>5, <3>1, GoodPlain
    <3>. QED
      BY <3>1, <3>2
  <2>. QED
    BY <2>6, <2>7
<1>. QED
  BY <1>1, <1>2

(* An element writes its names right, and stands in its children's scopes. *)
LEMMA GoodElement ==
    ASSUME NEW e, Effective(e) \in {"none", "if", "else-if", "else"},
           NEW i, i = This, NEW R, NEW base, Stands(R, e, i, base),
           NEW F, F = {LoopOf(e, i), SlotOf(e, i), EventOf(i)},
           NEW fr, Elems(fr) = base, Good(R, F, fr, scopes, out)
    PROVE  \E fr2 : Elems(fr2) = ScopesIn(e, i, base) /\ Good(R, {}, fr2, ChildScopes(e), out \o Written(e))
<1>. PICK G : G = {SlotOf(e, i), EventOf(i)}
  OBVIOUS
<1>. PICK H : H = {SlotOf(e, i)}
  OBVIOUS
<1>. PICK A : A = BranchHead(e)
  OBVIOUS
<1>. PICK B : B = ForHead(e)
  OBVIOUS
<1>. PICK C : C = Own(e, ForScopes(e), CondsAfter(e))
  OBVIOUS
<1>. PICK D : D = SlotHead(e)
  OBVIOUS
<1>1. AnySeq(out) /\ AnySeq(A) /\ AnySeq(B) /\ AnySeq(C) /\ AnySeq(D)
  BY BranchTokens, ForTokens, OwnTokens, SlotTokens DEF Good
<1>2. Good(R, F, fr, CondScopes(e), out \o A)
  <2>1. F \cap base = {}
    BY Apart
  <2>. QED
    BY <2>1, GoodBranch
<1>3. PICK fr2 : Elems(fr2) = Inside(e, i, base) /\ Good(R, G, fr2, ForScopes(e), (out \o A) \o B)
  BY <1>2, GoodFor
<1>4. Good(R, H, fr2, OwnScopes(e, ForScopes(e)), ((out \o A) \o B) \o C)
  BY <1>3, GoodOwn
<1>5. PICK fr3 : /\ Elems(fr3) = ScopesIn(e, i, base)
                 /\ Good(R, H, fr3, ChildScopes(e), (((out \o A) \o B) \o C) \o D)
  BY <1>3, <1>4, GoodSlot
<1>6. Good(R, {}, fr3, ChildScopes(e), (((out \o A) \o B) \o C) \o D)
  BY <1>5, GoodFewer
<1>7. (((out \o A) \o B) \o C) \o D = out \o Written(e)
  BY <1>1, WrittenIs
<1>. QED
  BY <1>5, <1>6, <1>7

-----------------------------------------------------------------------------
(* Scopes that are left, and nodes that follow. *)

(* The stack is of base, with sc, which is above them all. *)
Topped(fr, base, sc) == Elems(fr) = base \cup {sc} /\ \A s \in base : s.at < sc.at

(* The last scope entered is left first. *)
LEMMA GoodExit ==
    ASSUME NEW S, NEW F, NEW fr, NEW scs, NEW w, Good(S, F, fr, scs, w),
           NEW base, NEW sc, Topped(fr, base, sc)
    PROVE  \E fr2 : Elems(fr2) = base /\ Good(S, F, fr2, ExitScope(scs), w)
<1>0. Elems(fr) = base \cup {sc} /\ \A s \in base : s.at < sc.at
  BY DEF Topped
<1>. PICK L : L = Len(fr)
  OBVIOUS
<1>1. AnySeq(fr) /\ AnySeq(scs) /\ Ordered(fr) /\ Len(scs) = L
  BY DEF Good, Ordered, Fits
<1>2. L \in Nat /\ DOMAIN fr = 1..L /\ (fr = <<>> <=> L = 0) /\ (scs = <<>> <=> L = 0)
  BY <1>1, SeqIs
<1>3. (\A j \in 1..L : fr[j].at \in Nat) /\ \A j, k \in 1..L : j < k => fr[j].at < fr[k].at
  BY <1>1 DEF Ordered
<1>4. \A s : s \in base \/ s = sc <=> \E j \in 1..L : s = fr[j]
  BY <1>0, <1>2 DEF Elems
<1>5. PICK k \in 1..L : sc = fr[k]
  BY <1>4
<1>6. L \in 1..L /\ fr # <<>> /\ scs # <<>>
  BY <1>2, <1>5
<1>7. k = L
  <2>1. CASE fr[L] = sc
    BY <1>3, <1>5, <1>6, <2>1
  <2>2. CASE fr[L] \in base
    BY <1>0, <1>3, <1>5, <1>6, <2>2
  <2>. QED
    BY <1>4, <1>6, <2>1, <2>2
<1>8. PICK fr2 : fr2 = AllButLast(fr)
  OBVIOUS
<1>9. PICK scs2 : scs2 = AllButLast(scs)
  OBVIOUS
<1>10. /\ AnySeq(fr2) /\ Len(fr2) = L - 1
       /\ \A i \in 1..(L - 1) : fr2[i] = fr[i]
  BY <1>1, <1>6, <1>8, SeqShorter
<1>11. /\ AnySeq(scs2) /\ Len(scs2) = L - 1
       /\ \A i \in 1..(L - 1) : scs2[i] = scs[i]
  BY <1>1, <1>6, <1>9, SeqShorter
<1>12. DOMAIN fr2 = 1..(L - 1)
  BY <1>10, SeqIs
<1>13. Elems(fr2) = base
  <2>1. ASSUME NEW j \in 1..(L - 1) PROVE fr[j] \in base
    <3>1. j \in 1..L /\ fr[j].at < fr[L].at /\ fr[L].at \in Nat
      BY <1>2, <1>3, <1>6
    <3>2. fr[j] # sc
      BY <1>0, <1>3, <1>5, <1>7, <3>1
    <3>. QED
      BY <1>4, <3>1, <3>2
  <2>2. ASSUME NEW s \in base PROVE \E j \in 1..(L - 1) : s = fr[j]
    <3>1. PICK j \in 1..L : s = fr[j]
      BY <1>4
    <3>2. j # L
      BY <1>0, <1>3, <1>5, <1>7, <3>1
    <3>. QED
      BY <1>2, <3>1, <3>2
  <2>3. Elems(fr2) = {fr2[j] : j \in 1..(L - 1)}
    BY <1>12 DEF Elems
  <2>4. \A s : s \in Elems(fr2) <=> \E j \in 1..(L - 1) : s = fr[j]
    BY <1>10, <2>3
  <2>5. \A s : s \in Elems(fr2) <=> s \in base
    BY <2>1, <2>2, <2>4
  <2>. QED
    BY <2>5
<1>14. Len(fr2) = Len(scs2) /\ Len(fr2) <= Len(fr)
  BY <1>2, <1>10, <1>11
<1>15. \A j \in 1..Len(fr2) : fr2[j] = fr[j] /\ \A x : x \in scs2[j] <=> x \in scs[j]
  BY <1>10, <1>11
<1>16. Good(S, F, fr2, scs2, w)
  BY <1>10, <1>11, <1>14, <1>15, GoodLeave
<1>17. ExitScope(scs) = scs2
  BY <1>6, <1>9 DEF ExitScope
<1>. QED
  BY <1>13, <1>16, <1>17

(* A brace is of no node, and says nothing of names. *)
LEMMA BraceIs ==
    ASSUME NEW t, t = Token("}")
    PROVE  t.t = "}" /\ t.node = 0
BY DEF Token

(* Behind the children there are braces only. *)
LEMMA ClosesAre ==
    ASSUME NEW e, NEW branch
    PROVE  AnySeq(Closes(e, branch)) /\ \A t \in Elems(Closes(e, branch)) : t.t = "}" /\ t.node = 0
<1>. DEFINE brace == Token("}")
            one(b) == IF b THEN <<brace>> ELSE <<>>
<1>1. Closes(e, branch) = one(Bound(e)) \o one(e.for # None) \o one(branch # "none")
  BY DEF Closes
<1>. HIDE DEF brace
<1>2. ASSUME NEW b PROVE AnySeq(one(b)) /\ \A t \in Elems(one(b)) : t = brace
  <2>1. AnySeq(<<brace>>) /\ Elems(<<brace>>) = {brace}
    BY ShortSeqs
  <2>2. one(b) = <<brace>> \/ one(b) = <<>>
    OBVIOUS
  <2>. HIDE DEF one
  <2>. QED
    BY <2>1, <2>2, ShortSeqs
<1>. HIDE DEF one
<1>3. AnySeq(Closes(e, branch)) /\ \A t \in Elems(Closes(e, branch)) : t = brace
  <2>. DEFINE x == one(Bound(e))
              y == one(e.for # None)
              z == one(branch # "none")
  <2>1. AnySeq(x) /\ AnySeq(y) /\ AnySeq(z) /\ \A t \in Elems(x) \cup Elems(y) \cup Elems(z) : t = brace
    BY <1>2
  <2>2. Closes(e, branch) = x \o y \o z
    BY <1>1
  <2>. HIDE DEF x, y, z
  <2>3. AnySeq(x \o y) /\ Elems(x \o y) = Elems(x) \cup Elems(y)
    BY <2>1, SeqConcat
  <2>4. AnySeq((x \o y) \o z) /\ Elems((x \o y) \o z) = Elems(x \o y) \cup Elems(z)
    BY <2>1, <2>3, SeqConcat
  <2>. QED
    BY <2>1, <2>2, <2>3, <2>4
<1>. QED
  BY <1>3, BraceIs DEF brace

Brace(b) == IF b THEN <<Token("}")>> ELSE <<>>

LEMMA GoodCloses ==
    ASSUME NEW S, NEW F, NEW fr, NEW scs, NEW w, Good(S, F, fr, scs, w), NEW e, NEW branch
    PROVE  Good(S, F, fr, scs, w \o Closes(e, branch))
<1>1. ASSUME NEW b, NEW v, Good(S, F, fr, scs, v) PROVE Good(S, F, fr, scs, v \o Brace(b)) /\ AnySeq(Brace(b))
  <2>1. CASE b
    <3>. PICK t : t = Token("}")
      OBVIOUS
    <3>1. t.t \notin {"use", "declare"}
      BY BraceIs
    <3>2. Good(S, F, fr, scs, v \o <<t>>)
      BY <1>1, <3>1, GoodPlain
    <3>. QED
      BY <2>1, <3>2, ShortSeqs DEF Brace
  <2>2. CASE ~b
    <3>1. v \o <<>> = v
      BY <1>1, NoMore DEF Good
    <3>. QED
      BY <1>1, <2>2, <3>1, ShortSeqs DEF Brace
  <2>. QED
    BY <2>1, <2>2
<1>2. Closes(e, branch) = (Brace(Bound(e)) \o Brace(e.for # None)) \o Brace(branch # "none")
  BY DEF Closes, Brace
<1>9. PICK x : x = Brace(Bound(e))
  OBVIOUS
<1>10. PICK y : y = Brace(e.for # None)
  OBVIOUS
<1>11. PICK z : z = Brace(branch # "none")
  OBVIOUS
<1>3. AnySeq(w)
  BY DEF Good
<1>4. Good(S, F, fr, scs, w \o x) /\ AnySeq(x)
  BY <1>1, <1>9
<1>5. Good(S, F, fr, scs, (w \o x) \o y) /\ AnySeq(y)
  BY <1>1, <1>4, <1>10
<1>6. Good(S, F, fr, scs, ((w \o x) \o y) \o z) /\ AnySeq(z)
  BY <1>1, <1>5, <1>11
<1>7. ((w \o x) \o y) \o z = w \o ((x \o y) \o z)
  <2>1. OneByOne(w, x, y, z)
    BY <1>3, <1>4, <1>5, <1>6, SeqAssociative3
  <2>. QED
    BY <2>1 DEF OneByOne
<1>8. Good(S, F, fr, scs, w \o ((x \o y) \o z))
  BY <1>6, <1>7
<1>. QED
  BY <1>2, <1>8, <1>9, <1>10, <1>11

(* A use stays right in a longer text, whatever nodes follow. *)
LEMMA UseGrows ==
    ASSUME NEW S, NEW w, AnySeq(w), NEW v, \A l \in 1..Len(w) : v[l] = w[l],
           NEW R, \A l \in 1..Len(w) : w[l].t \in {"use", "declare"} =>
                     R[w[l].node][w[l].part] = S[w[l].node][w[l].part],
           NEW k \in 1..Len(w), w[k].t = "use", UseRight(S, w, k)
    PROVE  UseRight(R, v, k)
<1>1. Len(w) \in Nat /\ v[k] = w[k] /\ \A l \in 1..(k - 1) : l \in 1..Len(w) /\ v[l] = w[l]
  BY SeqIs
<1>2. \A l \in 1..(k - 1) : w[l].t = "declare" => \A sc : Inner(R, sc, v[l]) <=> Inner(S, sc, w[l])
  BY <1>1 DEF Inner
<1>3. \A sc, x : Put(R, v, k - 1, sc, x) <=> Put(S, w, k - 1, sc, x)
  BY <1>1, <1>2 DEF Put
<1>4. R[v[k].node][v[k].part] = S[w[k].node][w[k].part]
  BY <1>1
<1>. QED
  BY <1>1, <1>3, <1>4 DEF UseRight

-----------------------------------------------------------------------------
(* The scopes of the template as it is walked. *)

(* The element of an open call. *)
El(k) == nodes[open[k].node].is
Straying == \E j \in Nodes : StraySlot(j)

CtxInv ==
    /\ parentCtx = (open # <<>> /\ HasCtx(El(Len(open))))
    /\ \A k \in DOMAIN open : open[k].ctx = (k # 1 /\ HasCtx(El(k - 1)))

(* What each part of each node stands in, and the next node.               *)
Map == [i \in Nodes |-> [p \in Parts |-> ScopesAround(i, p)]]
Occupied ==
    {LoopScope(open[k].node) : k \in {k \in DOMAIN open : El(k).for # None}}
      \cup {SlotScope(open[k].node) : k \in {k \in DOMAIN open : Bound(El(k))}}

(* What the nodes there are say stays. *)
LEMMA FactsStay ==
    ASSUME WalkTree, NEW n, Grow(n)
    PROVE  /\ \A j \in Nodes : StraySlot(j) => StraySlot(j)'
           /\ Straying => Straying'
           /\ \A k \in DOMAIN open : nodes'[open[k].node] = nodes[open[k].node]
<1>1. /\ \A j \in Nodes : nodes'[j] = nodes[j]
      /\ Nodes' = Nodes \cup {This}
      /\ Nodes = 1..Len(nodes) /\ Len(nodes) \in Nat
  BY NodesAre, Grown DEF WalkTree, TreeInv
<1>2. \A j \in Elements : j \in Elements' /\ j \in Nodes
  BY <1>1 DEF Elements
<1>3. \A j \in Nodes : nodes[j].parent = 0 \/ nodes[j].parent \in Nodes
  BY <1>1 DEF WalkTree, TreeInv
<1>4. \A j \in Nodes : StraySlot(j) => StraySlot(j)'
  BY <1>1, <1>2, <1>3 DEF StraySlot
<1>5. Straying => Straying'
  BY <1>1, <1>4 DEF Straying
<1>7. \A k \in DOMAIN open : nodes'[open[k].node] = nodes[open[k].node]
  BY <1>1, <1>2 DEF WalkTree, TreeInv
<1>. QED
  BY <1>4, <1>5, <1>7

(* The scopes around the parts of a node stay. *)
LEMMA MapStays ==
    ASSUME WalkTree, WalkTree', NEW n, Grow(n), NEW j \in Nodes
    PROVE  /\ j \in Nodes' /\ \A p : ScopesAround(j, p)' = ScopesAround(j, p)
           /\ \A p : \A s \in ScopesAround(j, p) : s.at \in Nat /\ s.at < 3 * This
<1>1. /\ \A l \in Nodes : nodes'[l] = nodes[l]
      /\ Nodes' = Nodes \cup {This} /\ Nodes = 1..Len(nodes) /\ Len(nodes) \in Nat /\ This = Len(nodes) + 1
  BY NodesAre, Grown DEF WalkTree, TreeInv
<1>2. ElementsAbove(j)' = ElementsAbove(j)
  BY <1>1, AboveGrown DEF WalkTree, ElementsAbove
<1>3. \A l \in ElementsAbove(j) : l \in 1..(j - 1)
  <2>1. j \in 0..Len(nodes) /\ Above[j] \subseteq 0..(j - 1) /\ j \in Nat
    BY <1>1, AboveBefore DEF WalkTree
  <2>. QED
    BY <1>1, <2>1 DEF ElementsAbove
<1>4. ElementsAbove(j) \subseteq Nodes
  BY <1>1, <1>3
<1>5. /\ \A l \in Nodes : LoopScope(l)' = LoopScope(l) /\ SlotScope(l)' = SlotScope(l)
      /\ EventScope(j)' = EventScope(j)
  BY <1>1 DEF LoopScope, SlotScope, EventScope
<1>6. ASSUME NEW p PROVE ScopesAround(j, p)' = ScopesAround(j, p)
  <2>. PICK A : A = ElementsAbove(j)
    OBVIOUS
  <2>1. /\ \A l \in A : /\ nodes'[l] = nodes[l]
                        /\ LoopScope(l)' = LoopScope(l) /\ SlotScope(l)' = SlotScope(l)
        /\ nodes'[j] = nodes[j] /\ LoopScope(j)' = LoopScope(j) /\ EventScope(j)' = EventScope(j)
    BY <1>1, <1>4, <1>5
  <2>2. ElementsAbove(j)' = A
    BY <1>2
  <2>. QED
    BY <2>1, <2>2 DEF ScopesAround
<1>7. ASSUME NEW p, NEW s \in ScopesAround(j, p) PROVE s.at \in Nat /\ s.at < 3 * This
  <2>1. \/ \E l \in ElementsAbove(j) : s = LoopScope(l) \/ s = SlotScope(l)
        \/ s = LoopScope(j) \/ s = EventScope(j)
    BY <1>7 DEF ScopesAround
  <2>2. \E l \in 1..j : s.at = 3 * l \/ s.at = 3 * l + 1 \/ s.at = 3 * l + 2
    BY <1>1, <1>3, <2>1 DEF LoopScope, SlotScope, EventScope
  <2>3. PICK l \in 1..j : s.at = 3 * l \/ s.at = 3 * l + 1 \/ s.at = 3 * l + 2
    BY <2>2
  <2>4. l \in Nat /\ j \in Nat /\ l <= j /\ j + 1 <= This /\ This \in Nat
    BY <1>1
  <2>. QED
    BY <2>3, <2>4
<1>. QED
  BY <1>1, <1>6, <1>7

(* The next node is inside the calls under way. *)
LEMMA MapNext ==
    ASSUME WalkTree, WalkTree', NEW n, Grow(n), NEW i, i = This
    PROVE  /\ i \in Nat /\ i \in Nodes' /\ i \notin Nodes
           /\ \A p : ScopesAround(i, p)' = Occupied
                        \cup (IF p \in InLoop /\ n.for # None THEN {LoopOf(n, i)} ELSE {})
                        \cup (IF p = "event" THEN {EventOf(i)} ELSE {})
           /\ \A s \in Occupied : s.at \in Nat /\ s.at < 3 * i
           /\ \A k \in DOMAIN open : open[k].node \in Nodes
<1>1. /\ \A j \in Nodes : nodes'[j] = nodes[j]
      /\ Nodes' = Nodes \cup {i} /\ i \notin Nodes
      /\ Nodes = 1..Len(nodes) /\ Len(nodes) \in Nat /\ i = Len(nodes) + 1 /\ DOMAIN open = 1..Len(open)
  BY NodesAre, Grown DEF WalkTree, TreeInv
<1>2. nodes'[i].is = n
  <2>1. nodes'[i] = [parent |-> Parent, is |-> n]
    BY Grown DEF WalkTree, TreeInv
  <2>. QED
    BY <2>1
<1>3. Above'[This] = Around(Len(open))
  BY AboveGrown, AboveNext DEF WalkTree
<1>4. \A k \in DOMAIN open : open[k].node \in Nodes /\ open[k].node # 0
  BY <1>1 DEF WalkTree, TreeInv, Elements
<1>5. ElementsAbove(i)' = {open[k].node : k \in DOMAIN open}
  BY <1>1, <1>3, <1>4 DEF ElementsAbove, Around
<1>6. \A j \in Nodes : LoopScope(j)' = LoopScope(j) /\ SlotScope(j)' = SlotScope(j)
  BY <1>1 DEF LoopScope, SlotScope
<1>7. LoopScope(i)' = LoopOf(n, i) /\ EventScope(i)' = EventOf(i)
  BY <1>2 DEF LoopScope, LoopOf, EventScope, EventOf
<1>8. {LoopScope(j)' : j \in {j \in ElementsAbove(i)' : nodes'[j].is.for # None}}
        = {LoopScope(open[k].node) : k \in {k \in DOMAIN open : El(k).for # None}}
  BY <1>1, <1>4, <1>5, <1>6 DEF El
<1>9. {SlotScope(j)' : j \in {j \in ElementsAbove(i)' : Bound(nodes'[j].is)}}
        = {SlotScope(open[k].node) : k \in {k \in DOMAIN open : Bound(El(k))}}
  BY <1>1, <1>4, <1>5, <1>6 DEF El
<1>10. ASSUME NEW p
       PROVE  ScopesAround(i, p)' = Occupied
                \cup (IF p \in InLoop /\ n.for # None THEN {LoopOf(n, i)} ELSE {})
                \cup (IF p = "event" THEN {EventOf(i)} ELSE {})
  <2>1. ScopesAround(i, p)' =
           {LoopScope(j)' : j \in {j \in ElementsAbove(i)' : nodes'[j].is.for # None}}
             \cup {SlotScope(j)' : j \in {j \in ElementsAbove(i)' : Bound(nodes'[j].is)}}
             \cup (IF p \in InLoop /\ nodes'[i].is.for # None THEN {LoopScope(i)'} ELSE {})
             \cup (IF p = "event" THEN {EventScope(i)'} ELSE {})
    BY DEF ScopesAround
  <2>. PICK A : A = {LoopScope(open[k].node) : k \in {k \in DOMAIN open : El(k).for # None}}
    OBVIOUS
  <2>. PICK B : B = {SlotScope(open[k].node) : k \in {k \in DOMAIN open : Bound(El(k))}}
    OBVIOUS
  <2>2. ScopesAround(i, p)' = A \cup B \cup (IF p \in InLoop /\ n.for # None THEN {LoopOf(n, i)} ELSE {})
                                 \cup (IF p = "event" THEN {EventOf(i)} ELSE {})
    BY <1>2, <1>7, <1>8, <1>9, <2>1
  <2>3. Occupied = A \cup B
    BY DEF Occupied
  <2>. QED
    BY <2>2, <2>3
<1>11. ASSUME NEW s \in Occupied PROVE s.at \in Nat /\ s.at < 3 * i
  <2>1. PICK k \in DOMAIN open : s = LoopScope(open[k].node) \/ s = SlotScope(open[k].node)
    BY <1>11 DEF Occupied
  <2>2. s.at = 3 * open[k].node \/ s.at = 3 * open[k].node + 1
    BY <2>1 DEF LoopScope, SlotScope
  <2>3. open[k].node \in Nat /\ open[k].node + 1 <= i
    BY <1>1, <1>4
  <2>. QED
    BY <1>1, <2>2, <2>3
<1>. QED
  BY <1>1, <1>4, <1>10, <1>11

-----------------------------------------------------------------------------
(* Names are bare if they are bound. *)

(* Uses and declarations are of nodes there are, and a use is right or     *)
(* behind a slot that strays.                                              *)
Placed(w) == \A k \in 1..Len(w) : w[k].t \in {"use", "declare"} => w[k].node \in Nodes /\ w[k].part \in Parts
BehindStray(t) == \E j \in Nodes : j < t.node /\ StraySlot(j)

UsesInv ==
    /\ AnySeq(out) /\ AnySeq(scopes) /\ Placed(out)
    /\ \A k \in 1..Len(out) : out[k].t = "use" => UseRight(Map, out, k) \/ BehindStray(out[k])

BareInv ==
    /\ UsesInv /\ CtxInv
    /\ Straying \/ \E fr : Elems(fr) = Occupied /\ Good(Map, {}, fr, scopes, out)

(* What the nodes say, part by part. *)
LEMMA MapIs ==
    ASSUME NEW i \in Nodes, NEW p \in Parts
    PROVE  Map[i][p] = ScopesAround(i, p)
BY DEF Map

LEMMA MapIsThen ==
    ASSUME NEW i \in Nodes', NEW p \in Parts
    PROVE  Map'[i][p] = ScopesAround(i, p)'
BY DEF Map

(* The nodes there are stay, with what is around them. *)
Kept ==
    \A j \in Nodes : /\ j \in Nodes' /\ (StraySlot(j) => StraySlot(j)')
                     /\ \A p : ScopesAround(j, p)' = ScopesAround(j, p)

LEMMA KeptGrown ==
    ASSUME WalkTree, WalkTree', NEW n, Grow(n)
    PROVE  Kept
BY MapStays, FactsStay DEF Kept

LEMMA KeptSame ==
    ASSUME UNCHANGED nodes
    PROVE  /\ Kept /\ Map' = Map /\ Nodes' = Nodes /\ Straying' = Straying
           /\ \A i : LoopScope(i)' = LoopScope(i) /\ SlotScope(i)' = SlotScope(i)
<1>1. Nodes' = Nodes /\ Elements' = Elements /\ Above' = Above
  BY DEF Nodes, Elements, Above
<1>2. \A j : /\ StraySlot(j)' = StraySlot(j) /\ ElementsAbove(j)' = ElementsAbove(j)
             /\ LoopScope(j)' = LoopScope(j) /\ SlotScope(j)' = SlotScope(j) /\ EventScope(j)' = EventScope(j)
  BY <1>1 DEF StraySlot, ElementsAbove, LoopScope, SlotScope, EventScope
<1>3. \A j, p : ScopesAround(j, p)' = ScopesAround(j, p)
  BY <1>2 DEF ScopesAround
<1>4. Map' = Map
  BY <1>1, <1>3 DEF Map
<1>5. Straying' = Straying
  BY <1>1, <1>2 DEF Straying
<1>. QED
  BY <1>1, <1>2, <1>3, <1>4, <1>5 DEF Kept

(* What was written stays in place. *)
LEMMA MapAgrees ==
    ASSUME Kept, NEW w, Placed(w)
    PROVE  \A l \in 1..Len(w) : w[l].t \in {"use", "declare"} =>
              Map'[w[l].node][w[l].part] = Map[w[l].node][w[l].part]
<1>1. ASSUME NEW l \in 1..Len(w), w[l].t \in {"use", "declare"}
      PROVE  Map'[w[l].node][w[l].part] = Map[w[l].node][w[l].part]
  <2>. PICK i : i = w[l].node
    OBVIOUS
  <2>. PICK p : p = w[l].part
    OBVIOUS
  <2>1. i \in Nodes /\ p \in Parts
    BY <1>1 DEF Placed
  <2>2. i \in Nodes' /\ ScopesAround(i, p)' = ScopesAround(i, p)
    BY <2>1 DEF Kept
  <2>3. Map[i][p] = ScopesAround(i, p)
    BY <2>1, MapIs
  <2>4. Map'[i][p] = ScopesAround(i, p)'
    BY <2>1, <2>2, MapIsThen
  <2>. QED
    BY <2>2, <2>3, <2>4
<1>. QED
  BY <1>1

(* More text keeps the uses right if those in it are, or are behind a slot *)
(* that strays.                                                            *)
LEMMA UsesMore ==
    ASSUME Kept, UsesInv, NEW s, AnySeq(s), out' = out \o s, AnySeq(scopes'),
           \A t \in Elems(s) : t.t \in {"use", "declare"} => t.node \in Nodes' /\ t.part \in Parts,
           \/ UsesRight(Map', out')
           \/ \A t \in Elems(s) : t.t = "use" => BehindStray(t)'
    PROVE  UsesInv'
<1>1. AnySeq(out) /\ Placed(out) /\ \A k \in 1..Len(out) : out[k].t = "use" => UseRight(Map, out, k) \/ BehindStray(out[k])
  BY DEF UsesInv
<1>. PICK w : w = out
  OBVIOUS
<1>. PICK v : v = w \o s
  OBVIOUS
<1>2. /\ AnySeq(v) /\ Len(v) = Len(w) + Len(s) /\ Len(w) \in Nat /\ Len(s) \in Nat
      /\ \A l \in 1..Len(w) : v[l] = w[l]
      /\ \A l \in 1..Len(s) : v[Len(w) + l] = s[l]
  BY <1>1, SeqConcat, SeqIs
<1>3. DOMAIN s = 1..Len(s)
  BY SeqIs
<1>4. ASSUME NEW k \in 1..Len(v), ~(k \in 1..Len(w)) PROVE v[k] \in Elems(s)
  <2>1. k - Len(w) \in 1..Len(s) /\ Len(w) + (k - Len(w)) = k
    BY <1>2, <1>4
  <2>2. v[k] = s[k - Len(w)]
    BY <1>2, <2>1
  <2>. QED
    BY <1>3, <2>1, <2>2 DEF Elems
<1>5. Placed(v)'
  <2>1. ASSUME NEW k \in 1..Len(v), v[k].t \in {"use", "declare"} PROVE v[k].node \in Nodes' /\ v[k].part \in Parts
    <3>1. CASE k \in 1..Len(w)
      BY <1>1, <1>2, <2>1, <3>1 DEF Placed, Kept
    <3>2. CASE ~(k \in 1..Len(w))
      BY <1>4, <2>1, <3>2
    <3>. QED
      BY <3>1, <3>2
  <2>. QED
    BY <2>1 DEF Placed
<1>6. ASSUME NEW k \in 1..Len(w), v[k].t = "use" PROVE UseRight(Map', v, k) \/ BehindStray(v[k])'
  <2>1. v[k] = w[k] /\ w[k].t = "use"
    BY <1>2, <1>6
  <2>2. CASE UseRight(Map, w, k)
    <3>1. \A l \in 1..Len(w) : w[l].t \in {"use", "declare"} =>
              Map'[w[l].node][w[l].part] = Map[w[l].node][w[l].part]
      BY <1>1, MapAgrees
    <3>2. AnySeq(w)
      BY <1>1
    <3>. QED
      BY <1>2, <2>1, <2>2, <3>1, <3>2, UseGrows
  <2>3. CASE BehindStray(w[k])
    BY <2>1, <2>3 DEF BehindStray, Kept
  <2>. QED
    BY <1>1, <2>1, <2>2, <2>3
<1>7. ASSUME NEW k \in 1..Len(v), v[k].t = "use" PROVE UseRight(Map', v, k) \/ BehindStray(v[k])'
  <2>1. CASE k \in 1..Len(w)
    BY <1>6, <1>7, <2>1
  <2>2. CASE ~(k \in 1..Len(w))
    <3>1. v[k] \in Elems(s)
      BY <1>4, <2>2
    <3>2. CASE UsesRight(Map', out')
      BY <1>7, <3>2 DEF UsesRight
    <3>. QED
      BY <1>7, <3>1, <3>2
  <2>. QED
    BY <2>1, <2>2
<1>8. out' = v
  OBVIOUS
<1>. QED
  BY <1>2, <1>5, <1>7, <1>8 DEF UsesInv

(* Before the next node is written, nothing was in its scopes. *)
LEMMA GoodNext ==
    ASSUME WalkTree, WalkTree', UsesInv, NEW n, Grow(n), NEW i, i = This,
           NEW fr, Good(Map, {}, fr, scopes, out)
    PROVE  Good(Map', {LoopOf(n, i), SlotOf(n, i), EventOf(i)}, fr, scopes, out)
<1>. PICK F : F = {LoopOf(n, i), SlotOf(n, i), EventOf(i)}
  OBVIOUS
<1>. PICK w : w = out
  OBVIOUS
<1>1. Kept /\ Placed(w)
  BY KeptGrown DEF UsesInv
<1>2. \A l \in 1..Len(w) : w[l].t \in {"use", "declare"} =>
              Map'[w[l].node][w[l].part] = Map[w[l].node][w[l].part]
  BY <1>1, MapAgrees
<1>3. i \in Nat
  BY MapNext
<1>4. \A sc \in F : sc.at \in {3 * i, 3 * i + 1, 3 * i + 2}
  BY DEF LoopOf, SlotOf, EventOf
<1>5. ASSUME NEW sc \in F, NEW l \in 1..Len(w), w[l].t = "declare"
      PROVE  sc \notin Map'[w[l].node][w[l].part]
  <2>. PICK j : j = w[l].node
    OBVIOUS
  <2>. PICK p : p = w[l].part
    OBVIOUS
  <2>1. j \in Nodes /\ p \in Parts
    BY <1>1, <1>5 DEF Placed
  <2>2. Map'[j][p] = Map[j][p] /\ Map[j][p] = ScopesAround(j, p)
    BY <1>2, <1>5, <2>1, MapIs
  <2>3. \A s \in ScopesAround(j, p) : s.at \in Nat /\ s.at < 3 * i
    BY <2>1, MapStays
  <2>. QED
    BY <1>3, <1>4, <2>2, <2>3
<1>6. Free(Map', w, F)
  BY <1>5 DEF Free
<1>. QED
  BY <1>2, <1>6, GoodGrows

(* Comments, texts and interpolations. *)
LEMMA BareLeaf ==
    ASSUME WalkTree, WalkTree', BareInv, VisitComment \/ VisitText \/ VisitInterpolation
    PROVE  BareInv'
<1>1. PICK n \in catalogue :
        /\ Grow(n) /\ UNCHANGED <<open, parentCtx>>
        /\ \/ out' = out /\ scopes' = scopes
           \/ /\ out' = out \o <<Token("text")>> \o MapExpression(n.code, scopes, This, "text")
              /\ scopes' = ScopesAfter(n.code, scopes)
  BY DEF VisitComment, VisitText, VisitInterpolation
<1>2. CtxInv'
  BY <1>1, FactsStay DEF BareInv, CtxInv, El, WalkTree, TreeInv, Elements
<1>3. UsesInv /\ AnySeq(out) /\ AnySeq(scopes) /\ Kept
  BY <1>1, KeptGrown DEF BareInv, UsesInv
<1>. PICK i : i = This
  OBVIOUS
<1>. PICK x : x = n.code
  OBVIOUS
<1>4. PICK head : head = <<Token("text")>>
  OBVIOUS
<1>5. PICK code : code = MapExpression(x, scopes, i, "text")
  OBVIOUS
<1>6. AnySeq(head) /\ AnySeq(code) /\ \A t \in Elems(code) : IsExpr(t, i)
  BY <1>4, <1>5, ShortSeqs, ExpressionTokens DEF Parts
<1>7. Elems(head) = {Token("text")}
  BY <1>4, ShortSeqs
<1>8. PICK s : AnySeq(s) /\ out' = out \o s
               /\ \A t \in Elems(s) : t.t \in {"use", "declare"} => t.node = i /\ t.part \in Parts
  <2>1. CASE out' = out
    <3>. PICK none : none = <<>>
      OBVIOUS
    <3>1. AnySeq(none) /\ Elems(none) = {}
      BY ShortSeqs
    <3>2. out' = out \o none
      BY <1>3, <2>1, NoMore
    <3>. QED
      BY <3>1, <3>2
  <2>2. CASE out' = out \o <<Token("text")>> \o MapExpression(n.code, scopes, This, "text")
    <3>1. out' = (out \o head) \o code
      BY <1>4, <1>5, <2>2
    <3>2. (out \o head) \o code = out \o (head \o code)
      BY <1>3, <1>6, SeqAssociative
    <3>3. AnySeq(head \o code) /\ Elems(head \o code) = Elems(head) \cup Elems(code)
      BY <1>6, SeqConcat
    <3>4. \A t \in Elems(head \o code) : t.t \in {"use", "declare"} => t.node = i /\ t.part \in Parts
      BY <1>6, <1>7, <3>3 DEF IsExpr, Token
    <3>5. out' = out \o (head \o code)
      BY <3>1, <3>2
    <3>. QED
      BY <3>3, <3>4, <3>5
  <2>. QED
    BY <1>1, <2>1, <2>2
<1>9. AnySeq(scopes')
  BY <1>1, <1>3, ScopesAfterIs
<1>10. i \in Nodes' /\ \A j \in Nodes : j < i /\ j \in Nodes'
  <2>1. Nodes' = Nodes \cup {i} /\ i = Len(nodes) + 1 /\ Nodes = 1..Len(nodes) /\ Len(nodes) \in Nat
    BY <1>1, Grown, NodesAre DEF WalkTree, TreeInv
  <2>. QED
    BY <2>1
<1>11. \A t \in Elems(s) : t.t \in {"use", "declare"} => t.node \in Nodes' /\ t.part \in Parts
  BY <1>8, <1>10
<1>12. CASE Straying
  <2>1. Straying'
    BY <1>1, <1>12, FactsStay
  <2>2. \A t \in Elems(s) : t.t = "use" => BehindStray(t)'
    BY <1>8, <1>10, <1>12, <1>1, FactsStay DEF BehindStray, Straying
  <2>3. UsesInv'
    BY <1>3, <1>8, <1>9, <1>11, <2>2, UsesMore
  <2>. QED
    BY <1>2, <2>1, <2>3 DEF BareInv
<1>13. ASSUME NEW fr, Elems(fr) = Occupied, Good(Map, {}, fr, scopes, out) PROVE BareInv'
  <2>. PICK F : F = {LoopOf(n, i), SlotOf(n, i), EventOf(i)}
    OBVIOUS
  <2>. PICK R : R = Map'
    OBVIOUS
  <2>1. Good(R, F, fr, scopes, out)
    BY <1>1, <1>3, <1>13, GoodNext
  <2>2. Good(R, {}, fr, scopes, out)
    BY <2>1, GoodFewer
  <2>3. Good(R, {}, fr, scopes', out')
    <3>1. CASE out' = out /\ scopes' = scopes
      BY <2>2, <3>1
    <3>2. CASE /\ out' = out \o <<Token("text")>> \o MapExpression(n.code, scopes, This, "text")
               /\ scopes' = ScopesAfter(n.code, scopes)
      <4>1. "text" \in Parts /\ "text" \notin InLoop /\ i \in Nodes'
        BY <1>10 DEF Parts, InLoop
      <4>2. R[i]["text"] = ScopesAround(i, "text")'
        BY <4>1, MapIsThen
      <4>3. ScopesAround(i, "text")' = Occupied
                        \cup (IF "text" \in InLoop /\ n.for # None THEN {LoopOf(n, i)} ELSE {})
                        \cup (IF "text" = "event" THEN {EventOf(i)} ELSE {})
        BY <1>1, MapNext
      <4>4. Elems(fr) = R[i]["text"]
        BY <1>13, <4>1, <4>2, <4>3
      <4>. PICK t : t = Token("text")
        OBVIOUS
      <4>5. t.t \notin {"use", "declare"}
        BY DEF Token
      <4>6. Good(R, {}, fr, scopes, out \o <<t>>)
        BY <2>2, <4>5, GoodPlain
      <4>7. Good(R, {}, fr, ScopesAfter(x, scopes), (out \o <<t>>) \o MapExpression(x, scopes, i, "text"))
        BY <4>4, <4>6, GoodExpression
      <4>. QED
        BY <3>2, <4>7
    <3>. QED
      BY <1>1, <3>1, <3>2
  <2>4. UsesRight(Map', out')
    BY <2>3 DEF Good
  <2>5. UsesInv'
    BY <1>3, <1>8, <1>9, <1>11, <2>4, UsesMore
  <2>6. Occupied' = Occupied
    <3>1. \A k \in DOMAIN open : nodes'[open[k].node] = nodes[open[k].node]
      BY <1>1, FactsStay
    <3>2. \A k \in DOMAIN open : /\ El(k)' = El(k) /\ LoopScope(open[k].node)' = LoopScope(open[k].node)
                                 /\ SlotScope(open[k].node)' = SlotScope(open[k].node)
      BY <1>1, <3>1 DEF El, LoopScope, SlotScope
    <3>3. open' = open
      BY <1>1
    <3>. QED
      BY <3>2, <3>3 DEF Occupied
  <2>. QED
    BY <1>2, <1>13, <2>3, <2>5, <2>6 DEF BareInv
<1>. QED
  BY <1>12, <1>13 DEF BareInv

(* A step that visits an element. *)
Opens(e) ==
    /\ e \in catalogue /\ e.kind = "element"
    /\ Grow(e)
    /\ conds' = CondsAfter(e)
    /\ saved' = (IF Effective(e) = "if" THEN ChainStart ELSE saved)
    /\ scopes' = ChildScopes(e)
    /\ out' = out \o BranchHead(e) \o ForHead(e) \o Own(e, ForScopes(e), CondsAfter(e)) \o SlotHead(e)
    /\ open' = Append(open, [node |-> This, chain |-> ChainAfter(e), ctx |-> parentCtx,
                             branch |-> Effective(e)])
    /\ parentCtx' = HasCtx(e)
    /\ condChain' = "none"
    /\ marks' = marks \cup MarksOf(Len(out), Len(out'))
    /\ UNCHANGED <<catalogue, ignoring, expecting, done>>

(* What a visit of an element does, by parts. *)
LEMMA OpenElementIs == OpenElement => \E e : Opens(e)
BY Zenon DEF OpenElement, Opens, ChildScopes

(* The call it begins. *)
LEMMA CallOpened ==
    ASSUME WalkTree, NEW e, Opens(e), NEW i, i = This
    PROVE  /\ Len(open) \in Nat /\ DOMAIN open = 1..Len(open)
           /\ Len(open') = Len(open) + 1 /\ DOMAIN open' = 1..(Len(open) + 1)
           /\ \A k \in 1..Len(open) : open'[k] = open[k]
           /\ open'[Len(open) + 1] = [node |-> i, chain |-> ChainAfter(e), ctx |-> parentCtx,
                                      branch |-> Effective(e)]
           /\ open' = Append(open, open'[Len(open) + 1])
           /\ open'[Len(open) + 1] \in Visits
<1>. DEFINE call == [node |-> i, chain |-> ChainAfter(e), ctx |-> parentCtx, branch |-> Effective(e)]
<1>1. call \in Visits
  BY BranchType, ParentType DEF Visits, WalkTree, ChainInv, WalkTyped
<1>2. open \in Seq(Visits) /\ open' = Append(open, call)
  BY DEF WalkTree, TreeInv, WalkTyped, Opens
<1>. HIDE DEF call
<1>. QED
  BY <1>1, <1>2, AppendProperties DEF call

(* Without a slot that belongs to no component, a block is opened for each *)
(* slot that binds something.                                              *)
LEMMA SlotOpens ==
    ASSUME WalkTree, CtxInv, ~Straying', NEW e, e.kind = "element", Grow(e)
    PROVE  OpensSlot(e) <=> Bound(e)
<1>1. /\ \A j \in Nodes : nodes'[j] = nodes[j]
      /\ nodes'[This].parent = Parent /\ nodes'[This].is = e
      /\ Nodes' = Nodes \cup {This} /\ Nodes = 1..Len(nodes) /\ Len(nodes) \in Nat /\ This = Len(nodes) + 1
  <2>1. nodes'[This] = [parent |-> Parent, is |-> e]
    BY Grown DEF WalkTree, TreeInv
  <2>. QED
    BY <2>1, NodesAre, Grown DEF WalkTree, TreeInv
<1>2. ASSUME NEW i, i = This, Bound(e), ~HasCtx(e) PROVE parentCtx
  <2>1. i \in Nodes' /\ i \in Elements' /\ ~StraySlot(i)'
    BY <1>1, <1>2 DEF Straying, Elements
  <2>2. Parent # 0 /\ HasCtx(nodes'[Parent].is)
    BY <1>1, <1>2, <2>1 DEF StraySlot
  <2>3. open # <<>> /\ Parent = open[Len(open)].node /\ Parent \in Nodes
    BY <1>1, <2>2, ParentIs DEF WalkTree, Elements
  <2>. QED
    BY <1>1, <2>2, <2>3 DEF CtxInv, El
<1>. QED
  BY <1>2 DEF OpensSlot

(* Inside the element the scopes are one or two more. *)
LEMMA OccupiedOpen ==
    ASSUME WalkTree, WalkTree', CtxInv, ~Straying', NEW e, Opens(e), NEW i, i = This
    PROVE  Occupied' = ScopesIn(e, i, Occupied)
<1>. PICK L : L = Len(open)
  OBVIOUS
<1>1. /\ L \in Nat /\ DOMAIN open = 1..L /\ DOMAIN open' = 1..(L + 1)
      /\ \A k \in 1..L : open'[k] = open[k]
      /\ open'[L + 1].node = i
  <2>. PICK call : call = [node |-> i, chain |-> ChainAfter(e), ctx |-> parentCtx, branch |-> Effective(e)]
    OBVIOUS
  <2>1. open'[L + 1] = call
    BY CallOpened
  <2>2. call.node = i
    OBVIOUS
  <2>. QED
    BY <2>1, <2>2, CallOpened
<1>2. Grow(e) /\ e.kind = "element" /\ nodes'[i].is = e
  <2>1. Grow(e) /\ e.kind = "element"
    BY DEF Opens
  <2>2. nodes'[This] = [parent |-> Parent, is |-> e]
    BY <2>1, Grown DEF WalkTree, TreeInv
  <2>. QED
    BY <2>1, <2>2
<1>3. OpensSlot(e) <=> Bound(e)
  BY <1>2, SlotOpens
<1>4. \A k \in 1..L : nodes'[open[k].node] = nodes[open[k].node]
  BY <1>1, <1>2, FactsStay
<1>5. \A k \in 1..L : /\ El(k)' = El(k)
                      /\ LoopScope(open[k].node)' = LoopScope(open[k].node)
                      /\ SlotScope(open[k].node)' = SlotScope(open[k].node)
  BY <1>1, <1>4 DEF El, LoopScope, SlotScope
<1>6. /\ El(L + 1)' = e
      /\ LoopScope(open[L + 1].node)' = LoopOf(e, i)
      /\ SlotScope(open[L + 1].node)' = SlotOf(e, i)
  BY <1>1, <1>2 DEF El, LoopScope, LoopOf, SlotScope, SlotOf
<1>7. 1..(L + 1) = (1..L) \cup {L + 1}
  BY <1>1
<1>8. ASSUME NEW s
      PROVE  s \in Occupied' <=> \/ s \in Occupied
                                 \/ e.for # None /\ s = LoopOf(e, i)
                                 \/ Bound(e) /\ s = SlotOf(e, i)
  <2>1. s \in Occupied' <=> \E k \in 1..(L + 1) :
                               \/ El(k)'.for # None /\ s = LoopScope(open[k].node)'
                               \/ Bound(El(k)') /\ s = SlotScope(open[k].node)'
    BY <1>1 DEF Occupied
  <2>2. s \in Occupied <=> \E k \in 1..L : \/ El(k).for # None /\ s = LoopScope(open[k].node)
                                           \/ Bound(El(k)) /\ s = SlotScope(open[k].node)
    BY <1>1 DEF Occupied
  <2>. QED
    BY <1>1, <1>5, <1>6, <1>7, <2>1, <2>2
<1>. QED
  BY <1>3, <1>8 DEF ScopesIn, Inside

(* The scopes inside the element are a sequence, whatever strays. *)
LEMMA ChildScopesSeq ==
    ASSUME NEW e, AnySeq(scopes)
    PROVE  AnySeq(ChildScopes(e))
<1>1. ASSUME NEW x, NEW scs, AnySeq(scs) PROVE AnySeq(ScopesAfter(x, scs))
  BY <1>1, ScopesAfterIs
<1>2. ASSUME NEW scs, NEW X, AnySeq(scs) PROVE AnySeq(Append(scs, X))
  BY <1>2, SeqEnds
<1>3. AnySeq(ForScopes(e))
  <2>1. AnySeq(CondScopes(e))
    BY <1>1 DEF CondScopes
  <2>2. AnySeq(LoopScopes(e))
    BY <1>2, <2>1 DEF LoopScopes
  <2>. QED
    BY <1>1, <2>1, <2>2 DEF ForScopes
<1>4. ASSUME NEW on, NEW scs, AnySeq(scs) PROVE AnySeq(ScopesAfterHandler(on, scs))
  BY <1>1, <1>4 DEF ScopesAfterHandler
<1>5. AnySeq(OwnScopes(e, ForScopes(e)))
  <2>. PICK scs : scs = ForScopes(e)
    OBVIOUS
  <2>1. AnySeq(scs)
    BY <1>3
  <2>2. AnySeq(ScopesAfter(e.prop, ScopesAfterHandler(e.on, scs)))
    BY <1>1, <1>4, <2>1
  <2>3. AnySeq(ScopesAfterHandler(e.on, ScopesAfter(e.prop, ScopesAfter(e.prop, scs))))
    BY <1>1, <1>4, <2>1
  <2>. QED
    BY <2>1, <2>2, <2>3 DEF OwnScopes
<1>. QED
  BY <1>2, <1>5 DEF ChildScopes

(* Which parts of an element stand in its loop. *)
LEMMA StandsNext ==
    ASSUME WalkTree, WalkTree', NEW e, Grow(e), NEW i, i = This
    PROVE  Stands(Map', e, i, Occupied)
<1>1. /\ i \in Nat /\ i \in Nodes'
      /\ \A p : ScopesAround(i, p)' = Occupied
                        \cup (IF p \in InLoop /\ e.for # None THEN {LoopOf(e, i)} ELSE {})
                        \cup (IF p = "event" THEN {EventOf(i)} ELSE {})
      /\ \A s \in Occupied : s.at \in Nat /\ s.at < 3 * i
  BY MapNext
<1>2. \A p \in Parts : Map'[i][p] = ScopesAround(i, p)'
  BY <1>1, MapIsThen
<1>3. ASSUME NEW p \in {"source", "on", "prop"} PROVE Map'[i][p] = Inside(e, i, Occupied)
  <2>1. p \in Parts /\ p \in InLoop /\ p # "event"
    BY DEF Parts, InLoop
  <2>. QED
    BY <1>1, <1>2, <2>1 DEF Inside
<1>4. Map'[i]["cond"] = Occupied
  <2>1. "cond" \in Parts /\ "cond" \notin InLoop
    BY DEF Parts, InLoop
  <2>. QED
    BY <1>1, <1>2, <2>1
<1>5. Map'[i]["event"] = Inside(e, i, Occupied) \cup {EventOf(i)}
  <2>1. "event" \in Parts /\ "event" \in InLoop
    BY DEF Parts, InLoop
  <2>. QED
    BY <1>1, <1>2, <2>1 DEF Inside
<1>. QED
  BY <1>1, <1>3, <1>4, <1>5 DEF Stands

(* Each token of an element is of its node. *)
LEMMA WrittenPlaced ==
    ASSUME NEW e, Effective(e) \in {"none", "if", "else-if", "else"}, NEW t \in Elems(Written(e))
    PROVE  /\ t.node = This
           /\ t.t \in {"use", "declare"} => t.part \in Parts
<1>1. TokenOf(e, t)
  BY ElementTokens
<1>2. CASE IsExpr(t, This)
  BY <1>2 DEF IsExpr
<1>3. CASE t = [t |-> Effective(e), node |-> This]
  BY <1>3
<1>4. CASE \/ t = [t |-> "for", node |-> This] \/ t = [t |-> "own", node |-> This]
           \/ t = [t |-> "guards", node |-> This, guards |-> CondsAfter(e)]
           \/ t = [t |-> "slot", node |-> This]
  BY <1>4
<1>. QED
  BY <1>1, <1>2, <1>3, <1>4 DEF TokenOf, OwnToken

(* An element before its children. *)
LEMMA BareOpen ==
    ASSUME WalkTree, WalkTree', BareInv, OpenElement
    PROVE  BareInv'
<1>1. PICK e : Opens(e)
  BY OpenElementIs
<1>. PICK L : L = Len(open)
  OBVIOUS
<1>2. PICK i : i = This
  OBVIOUS
<1>3. /\ L \in Nat /\ DOMAIN open = 1..L
      /\ Len(open') = L + 1 /\ DOMAIN open' = 1..(L + 1)
      /\ \A k \in 1..L : open'[k] = open[k]
      /\ open'[L + 1].node = This /\ open'[L + 1].ctx = parentCtx
      /\ open' = Append(open, open'[L + 1]) /\ open'[L + 1] \in Visits
  <2>1. open'[L + 1] = [node |-> i, chain |-> ChainAfter(e), ctx |-> parentCtx, branch |-> Effective(e)]
    BY <1>1, <1>2, CallOpened
  <2>2. open'[L + 1].node = This /\ open'[L + 1].ctx = parentCtx
    BY <1>2, <2>1
  <2>. QED
    BY <1>1, <1>2, <2>2, CallOpened
<1>30. (open = <<>> <=> L = 0) /\ open' # <<>>
  BY <1>3 DEF WalkTree, TreeInv, WalkTyped
<1>4. nodes'[This].is = e
  <2>1. nodes'[This] = [parent |-> Parent, is |-> e]
    BY <1>1, Grown DEF WalkTree, TreeInv, Opens
  <2>. QED
    BY <2>1
<1>5. \A k \in 1..L : El(k)' = El(k)
  BY <1>1, <1>3, FactsStay DEF El, Opens
<1>6. CtxInv'
  <2>1. El(L + 1)' = e
    BY <1>1, <1>3, <1>4 DEF El
  <2>2. parentCtx' = HasCtx(e)
    BY <1>1 DEF Opens
  <2>3. parentCtx' = (open' # <<>> /\ HasCtx(El(Len(open))'))
    BY <1>3, <1>30, <2>1, <2>2 DEF HasCtx
  <2>4. ASSUME NEW k \in 1..(L + 1) PROVE open'[k].ctx = (k # 1 /\ HasCtx(El(k - 1)'))
    <3>1. CASE k = L + 1
      <4>1. k # 1 => L \in 1..L /\ k - 1 = L /\ El(L)' = El(L)
        BY <1>3, <1>5, <3>1
      <4>2. parentCtx = (open # <<>> /\ HasCtx(El(L)))
        BY DEF BareInv, CtxInv
      <4>. QED
        BY <1>3, <1>30, <3>1, <4>1, <4>2
    <3>2. CASE k # L + 1
      <4>1. k \in 1..L /\ open'[k] = open[k] /\ (k # 1 => El(k - 1)' = El(k - 1))
        BY <1>3, <1>5, <3>2
      <4>2. open[k].ctx = (k # 1 /\ HasCtx(El(k - 1)))
        BY <1>3, <4>1 DEF BareInv, CtxInv
      <4>. QED
        BY <4>1, <4>2
    <3>. QED
      BY <3>1, <3>2
  <2>. QED
    BY <1>3, <2>3, <2>4 DEF CtxInv
<1>7. Grow(e) /\ e.kind = "element" /\ scopes' = ChildScopes(e)
  BY <1>1 DEF Opens
<1>8. UsesInv /\ CtxInv /\ AnySeq(scopes) /\ AnySeq(out) /\ Kept
  BY <1>7, KeptGrown DEF BareInv, UsesInv
<1>9. AnySeq(scopes')
  BY <1>7, <1>8, ChildScopesSeq
<1>10. out' = out \o Written(e)
  BY <1>1, <1>8, WrittenIs DEF Opens
<1>11. Effective(e) \in {"none", "if", "else-if", "else"}
  BY BranchType DEF WalkTree
<1>12. PICK s : s = Written(e)
  OBVIOUS
<1>13. AnySeq(s) /\ out' = out \o s /\ \A t \in Elems(s) : t.node = i /\ (t.t \in {"use", "declare"} => t.part \in Parts)
  BY <1>2, <1>10, <1>11, <1>12, ElementTokens, WrittenPlaced
<1>14. i \in Nodes' /\ \A j \in Nodes : j < i /\ j \in Nodes'
  <2>1. Nodes' = Nodes \cup {i} /\ i = Len(nodes) + 1 /\ Nodes = 1..Len(nodes) /\ Len(nodes) \in Nat
    BY <1>2, <1>7, Grown, NodesAre DEF WalkTree, TreeInv
  <2>. QED
    BY <2>1
<1>15. \A t \in Elems(s) : t.t \in {"use", "declare"} => t.node \in Nodes' /\ t.part \in Parts
  BY <1>13, <1>14
<1>16. CASE Straying
  <2>1. Straying' /\ \A j \in Nodes : StraySlot(j) => StraySlot(j)'
    BY <1>7, <1>16, FactsStay
  <2>2. \A t \in Elems(s) : t.t = "use" => BehindStray(t)'
    BY <1>13, <1>14, <1>16, <2>1 DEF BehindStray, Straying
  <2>3. UsesInv'
    BY <1>8, <1>9, <1>13, <1>15, <2>2, UsesMore
  <2>. QED
    BY <1>6, <2>1, <2>3 DEF BareInv
<1>17. ASSUME NEW fr, Elems(fr) = Occupied, Good(Map, {}, fr, scopes, out) PROVE BareInv'
  <2>. PICK R : R = Map'
    OBVIOUS
  <2>1. Good(R, {LoopOf(e, i), SlotOf(e, i), EventOf(i)}, fr, scopes, out)
    BY <1>2, <1>7, <1>8, <1>17, GoodNext
  <2>2. Stands(R, e, i, Occupied)
    BY <1>2, <1>7, StandsNext
  <2>3. PICK fr2 : /\ Elems(fr2) = ScopesIn(e, i, Occupied)
                   /\ Good(R, {}, fr2, ChildScopes(e), out \o Written(e))
    BY <1>2, <1>11, <1>17, <2>1, <2>2, GoodElement
  <2>4. Good(R, {}, fr2, scopes', out')
    BY <1>7, <1>10, <2>3
  <2>5. UsesRight(Map', out')
    BY <2>4 DEF Good
  <2>6. UsesInv'
    BY <1>8, <1>9, <1>13, <1>15, <2>5, UsesMore
  <2>7. ~Straying' => Elems(fr2) = Occupied'
    BY <1>1, <1>2, <1>8, <2>3, OccupiedOpen
  <2>. QED
    BY <1>6, <2>4, <2>6, <2>7 DEF BareInv
<1>. QED
  BY <1>16, <1>17 DEF BareInv

(* The scopes of the innermost call are the last that were entered. *)
LEMMA OccupiedClose ==
    ASSUME WalkTree, open # <<>>, open' = AllButLast(open), UNCHANGED nodes,
           NEW m, m = open[Len(open)].node, NEW e, e = El(Len(open))
    PROVE  /\ m \in Nat
           /\ Occupied = Inside(e, m, Occupied') \cup (IF Bound(e) THEN {SlotOf(e, m)} ELSE {})
           /\ \A s \in Occupied' : s.at \in Nat /\ s.at < 3 * m
<1>. PICK L : L = Len(open)
  OBVIOUS
<1>1. /\ L \in Nat \ {0} /\ DOMAIN open = 1..L
      /\ DOMAIN open' = 1..(L - 1)
      /\ \A k \in 1..(L - 1) : open'[k] = open[k]
  <2>1. open \in Seq(Visits)
    BY DEF WalkTree, TreeInv, WalkTyped
  <2>2. L \in Nat \ {0} /\ DOMAIN open = 1..L /\ AnySeq(open)
    BY <2>1 DEF AnySeq
  <2>3. AnySeq(open') /\ Len(open') = L - 1 /\ \A k \in 1..(L - 1) : open'[k] = open[k]
    BY <2>2, SeqShorter
  <2>4. DOMAIN open' = 1..(L - 1)
    BY <2>3, SeqIs
  <2>. QED
    BY <2>2, <2>3, <2>4
<1>2. /\ \A k \in 1..L : open[k].node \in Nat
      /\ \A j, k \in 1..L : j < k => open[j].node < open[k].node
  <2>1. Nodes = 1..Len(nodes) /\ Elements \subseteq Nodes
    BY NodesAre DEF WalkTree, TreeInv, Elements
  <2>2. \A k \in 1..L : open[k].node \in Elements
    BY <1>1 DEF WalkTree, TreeInv
  <2>3. ASSUME NEW k \in 1..L PROVE open[k].node \in Nat
    <3>1. Len(nodes) \in Nat /\ open[k].node \in 1..Len(nodes)
      BY <2>1, <2>2, NodesAre DEF WalkTree, TreeInv
    <3>. QED
      BY <3>1
  <2>4. \A j, k \in 1..L : j < k => open[j].node < open[k].node
    BY <1>1 DEF WalkTree, TreeInv
  <2>. QED
    BY <2>3, <2>4
<1>3. /\ \A i : LoopScope(i)' = LoopScope(i) /\ SlotScope(i)' = SlotScope(i)
  BY KeptSame
<1>4. \A k \in 1..(L - 1) : /\ El(k)' = El(k)
                            /\ LoopScope(open[k].node)' = LoopScope(open[k].node)
                            /\ SlotScope(open[k].node)' = SlotScope(open[k].node)
  BY <1>1 DEF El, LoopScope, SlotScope
<1>5. El(L) = e /\ LoopScope(open[L].node) = LoopOf(e, m) /\ SlotScope(open[L].node) = SlotOf(e, m)
  BY DEF El, LoopScope, LoopOf, SlotScope, SlotOf
<1>6. 1..L = (1..(L - 1)) \cup {L}
  BY <1>1
<1>7. ASSUME NEW s
      PROVE  s \in Occupied' <=> \E k \in 1..(L - 1) :
                                    \/ El(k).for # None /\ s = LoopScope(open[k].node)
                                    \/ Bound(El(k)) /\ s = SlotScope(open[k].node)
  <2>1. s \in Occupied' <=> \E k \in 1..(L - 1) :
                               \/ El(k)'.for # None /\ s = LoopScope(open[k].node)'
                               \/ Bound(El(k)') /\ s = SlotScope(open[k].node)'
    BY <1>1 DEF Occupied
  <2>. QED
    BY <1>4, <2>1
<1>8. ASSUME NEW s
      PROVE  s \in Occupied <=> \/ s \in Occupied'
                                \/ e.for # None /\ s = LoopOf(e, m)
                                \/ Bound(e) /\ s = SlotOf(e, m)
  <2>1. s \in Occupied <=> \E k \in 1..L : \/ El(k).for # None /\ s = LoopScope(open[k].node)
                                           \/ Bound(El(k)) /\ s = SlotScope(open[k].node)
    BY <1>1 DEF Occupied
  <2>. QED
    BY <1>5, <1>6, <1>7, <2>1
<1>9. ASSUME NEW s \in Occupied' PROVE s.at \in Nat /\ s.at < 3 * m
  <2>1. PICK k \in 1..(L - 1) : s = LoopScope(open[k].node) \/ s = SlotScope(open[k].node)
    BY <1>7
  <2>2. s.at = 3 * open[k].node \/ s.at = 3 * open[k].node + 1
    BY <2>1 DEF LoopScope, SlotScope
  <2>3. open[k].node \in Nat /\ m \in Nat /\ open[k].node < m
    BY <1>1, <1>2
  <2>. QED
    BY <2>2, <2>3
<1>10. m \in Nat
  BY <1>1, <1>2
<1>. QED
  BY <1>8, <1>9, <1>10 DEF Inside

(* The stack is of base, with the scopes of the element. *)
Entered(fr, base, e, m) ==
    /\ m \in Nat /\ \A s \in base : s.at \in Nat /\ s.at < 3 * m
    /\ Elems(fr) = Inside(e, m, base) \cup (IF Bound(e) THEN {SlotOf(e, m)} ELSE {})

(* The scopes of a call are left behind its children. *)
LEMMA GoodLeft ==
    ASSUME NEW S, NEW e, NEW m, NEW base, NEW fr, Entered(fr, base, e, m),
           NEW w, Good(S, {}, fr, scopes, w)
    PROVE  \E fr2 : Elems(fr2) = base /\ Good(S, {}, fr2, ScopesLeft(e), w)
<1>0. /\ m \in Nat /\ \A s \in base : s.at \in Nat /\ s.at < 3 * m
      /\ Elems(fr) = Inside(e, m, base) \cup (IF Bound(e) THEN {SlotOf(e, m)} ELSE {})
  BY DEF Entered
<1>. PICK loop : loop = LoopOf(e, m)
  OBVIOUS
<1>. PICK slot : slot = SlotOf(e, m)
  OBVIOUS
<1>1. loop.at = 3 * m /\ slot.at = 3 * m + 1 /\ 3 * m \in Nat
  BY <1>0 DEF LoopOf, SlotOf
<1>2. \A s \in Inside(e, m, base) : s.at < slot.at
  <2>1. \A s \in Inside(e, m, base) : s \in base \/ s = loop
    BY DEF Inside
  <2>. QED
    BY <1>0, <1>1, <2>1
<1>3. PICK inner : inner = IF Bound(e) THEN ExitScope(scopes) ELSE scopes
  OBVIOUS
<1>4. PICK fr1 : Elems(fr1) = Inside(e, m, base) /\ Good(S, {}, fr1, inner, w)
  <2>1. CASE Bound(e)
    <3>1. Topped(fr, Inside(e, m, base), slot)
      BY <1>0, <1>2, <2>1 DEF Topped
    <3>2. \E fr2 : Elems(fr2) = Inside(e, m, base) /\ Good(S, {}, fr2, ExitScope(scopes), w)
      BY <3>1, GoodExit
    <3>. QED
      BY <1>3, <2>1, <3>2
  <2>2. CASE ~Bound(e)
    BY <1>0, <1>3, <2>2
  <2>. QED
    BY <2>1, <2>2
<1>5. ScopesLeft(e) = IF e.for # None THEN ExitScope(inner) ELSE inner
  BY <1>3 DEF ScopesLeft
<1>6. CASE e.for = None
  BY <1>4, <1>5, <1>6 DEF Inside
<1>7. CASE e.for # None
  <2>1. Elems(fr1) = base \cup {loop}
    BY <1>4, <1>7 DEF Inside
  <2>2. Topped(fr1, base, loop)
    BY <1>0, <1>1, <2>1 DEF Topped
  <2>3. \E fr2 : Elems(fr2) = base /\ Good(S, {}, fr2, ExitScope(inner), w)
    BY <1>4, <2>2, GoodExit
  <2>. QED
    BY <1>5, <1>7, <2>3
<1>. QED
  BY <1>6, <1>7

(* An element behind its children. *)
LEMMA BareClose ==
    ASSUME WalkTree, WalkTree', BareInv, CloseElement
    PROVE  BareInv'
<1>. PICK L : L = Len(open)
  OBVIOUS
<1>1. /\ open # <<>> /\ open' = AllButLast(open) /\ UNCHANGED nodes
      /\ parentCtx' = open[L].ctx
      /\ scopes' = ScopesLeft(El(Len(open)))
      /\ out' = out \o Closes(El(Len(open)), open[L].branch)
  BY DEF CloseElement, Last, El
<1>2. /\ L \in Nat \ {0} /\ DOMAIN open = 1..L
      /\ Len(open') = L - 1 /\ DOMAIN open' = 1..(L - 1)
      /\ \A k \in 1..(L - 1) : open'[k] = open[k]
      /\ (open' # <<>> <=> L # 1)
  BY <1>1, TreeClose DEF WalkTree, TreeInv, WalkTyped
<1>3. \A k \in 1..(L - 1) : El(k)' = El(k)
  BY <1>1, <1>2 DEF El
<1>4. CtxInv'
  <2>1. \A k \in 1..L : open[k].ctx = (k # 1 /\ HasCtx(El(k - 1)))
    BY <1>2 DEF BareInv, CtxInv
  <2>2. L # 1 => L - 1 \in 1..(L - 1)
    BY <1>2
  <2>3. parentCtx' = (open' # <<>> /\ HasCtx(El(L - 1)'))
    BY <1>1, <1>2, <1>3, <2>1, <2>2
  <2>4. \A k \in 1..(L - 1) : k \in 1..L /\ (k # 1 => k - 1 \in 1..(L - 1))
    BY <1>2
  <2>5. \A k \in 1..(L - 1) : open'[k].ctx = (k # 1 /\ HasCtx(El(k - 1)'))
    BY <1>2, <1>3, <2>1, <2>4
  <2>. QED
    BY <1>2, <2>3, <2>5 DEF CtxInv
<1>. PICK e : e = El(Len(open))
  OBVIOUS
<1>. PICK m : m = open[Len(open)].node
  OBVIOUS
<1>5. PICK s : s = Closes(e, open[L].branch)
  OBVIOUS
<1>6. AnySeq(s) /\ (\A t \in Elems(s) : t.t \notin {"use", "declare"}) /\ out' = out \o s
  BY <1>1, <1>5, ClosesAre
<1>7. Kept /\ Map' = Map /\ Straying' = Straying /\ UsesInv /\ AnySeq(scopes)
  BY <1>1, KeptSame DEF BareInv, UsesInv
<1>8. AnySeq(scopes')
  <2>1. \A q : AnySeq(q) => AnySeq(ExitScope(q))
    BY SeqShorter DEF ExitScope
  <2>. QED
    BY <1>1, <1>7, <2>1 DEF ScopesLeft
<1>9. UsesInv'
  <2>1. \A t \in Elems(s) : t.t \in {"use", "declare"} => t.node \in Nodes' /\ t.part \in Parts
    BY <1>6
  <2>2. \A t \in Elems(s) : t.t = "use" => BehindStray(t)'
    BY <1>6
  <2>. QED
    BY <1>6, <1>7, <1>8, <2>1, <2>2, UsesMore
<1>10. ASSUME NEW fr, Elems(fr) = Occupied, Good(Map, {}, fr, scopes, out)
       PROVE  \E fr2 : Elems(fr2) = Occupied' /\ Good(Map', {}, fr2, scopes', out')
  <2>. PICK base : base = Occupied'
    OBVIOUS
  <2>. PICK S : S = Map
    OBVIOUS
  <2>1. /\ m \in Nat
        /\ Occupied = Inside(e, m, base) \cup (IF Bound(e) THEN {SlotOf(e, m)} ELSE {})
        /\ \A q \in base : q.at \in Nat /\ q.at < 3 * m
    BY <1>1, OccupiedClose
  <2>2. Good(S, {}, fr, scopes, out \o s)
    BY <1>5, <1>10, GoodCloses
  <2>3. Entered(fr, base, e, m)
    BY <1>10, <2>1 DEF Entered
  <2>4. \E fr2 : Elems(fr2) = base /\ Good(S, {}, fr2, ScopesLeft(e), out \o s)
    BY <2>2, <2>3, GoodLeft
  <2>. QED
    BY <1>1, <1>6, <1>7, <2>4
<1>. QED
  BY <1>4, <1>7, <1>9, <1>10 DEF BareInv

(* Before the first node. *)
LEMMA BareInit == Init => BareInv
<1>. SUFFICES ASSUME Init PROVE BareInv
  OBVIOUS
<1>1. out = <<>> /\ scopes = <<>> /\ open = <<>> /\ parentCtx = FALSE
  BY DEF Init
<1>. PICK none : none = <<>>
  OBVIOUS
<1>2. AnySeq(none) /\ Len(none) = 0 /\ Elems(none) = {} /\ DOMAIN none = {}
  BY ShortSeqs
<1>3. out = none /\ scopes = none /\ open = none
  BY <1>1
<1>4. UsesInv
  BY <1>2, <1>3 DEF UsesInv, Placed
<1>5. CtxInv
  <2>1. parentCtx = (open # <<>> /\ HasCtx(El(Len(open))))
    BY <1>1
  <2>. QED
    BY <1>2, <1>3, <2>1 DEF CtxInv
<1>6. Occupied = {}
  BY <1>2, <1>3 DEF Occupied
<1>7. Good(Map, {}, none, scopes, out)
  BY <1>2, <1>3 DEF Good, Ordered, Fits, UsesRight, Free
<1>. QED
  BY <1>2, <1>4, <1>5, <1>6, <1>7 DEF BareInv

(* Every step keeps it. *)
LEMMA BareStep == WalkTree /\ WalkTree' /\ BareInv /\ [Next]_vars => BareInv'
<1>. SUFFICES ASSUME WalkTree, WalkTree', BareInv, [Next]_vars PROVE BareInv'
  OBVIOUS
<1>1. CASE VisitComment \/ VisitText \/ VisitInterpolation
  BY <1>1, BareLeaf
<1>2. CASE OpenElement
  BY <1>2, BareOpen
<1>3. CASE CloseElement
  BY <1>3, BareClose
<1>4. CASE Finish \/ UNCHANGED vars
  <2>1. UNCHANGED <<nodes, open, scopes, parentCtx, out>>
    BY <1>4 DEF Finish, vars
  <2>2. /\ Map' = Map /\ Nodes' = Nodes /\ Straying' = Straying
        /\ (\A j \in Nodes : StraySlot(j) => StraySlot(j)')
        /\ \A j : LoopScope(j)' = LoopScope(j) /\ SlotScope(j)' = SlotScope(j)
    BY <2>1, KeptSame DEF Kept
  <2>3. \A k : El(k)' = El(k)
    BY <2>1 DEF El
  <2>4. CtxInv'
    BY <2>1, <2>3 DEF BareInv, CtxInv
  <2>5. \A t : BehindStray(t) => BehindStray(t)'
    BY <2>2 DEF BehindStray
  <2>6. UsesInv'
    BY <2>1, <2>2, <2>5 DEF BareInv, UsesInv, Placed
  <2>7. Occupied' = Occupied
    BY <2>1, <2>3 DEF Occupied, LoopScope, SlotScope
  <2>. QED
    BY <2>1, <2>2, <2>4, <2>6, <2>7 DEF BareInv
<1>. QED
  BY <1>1, <1>2, <1>3, <1>4 DEF Next

(* Hence it holds in every state. *)
LEMMA BareInvariant == Spec => []BareInv
BY WalkTreeInvariant, BareInit, BareStep, PTL DEF Spec

(* What was put into a scope is what was declared in it. *)
LEMMA PutIs ==
    ASSUME UsesInv, NEW k \in 1..Len(out), NEW sc, NEW x
    PROVE  Put(Map, out, k - 1, sc, x) <=> x \in DeclaredIn(sc, k)
<1>1. Len(out) \in Nat /\ DOMAIN out = 1..Len(out)
  BY SeqIs DEF UsesInv
<1>2. \A l : l \in 1..(k - 1) <=> l \in DOMAIN out /\ l < k
  BY <1>1
<1>3. ASSUME NEW l \in 1..Len(out), out[l].t = "declare"
      PROVE  Inner(Map, sc, out[l]) <=> Innermost(sc, out[l].node, out[l].part)
  <2>1. out[l].node \in Nodes /\ out[l].part \in Parts
    BY <1>3 DEF UsesInv, Placed
  <2>2. Map[out[l].node][out[l].part] = ScopesAround(out[l].node, out[l].part)
    BY <2>1, MapIs
  <2>. QED
    BY <2>2 DEF Inner, Innermost
<1>4. x \in DeclaredIn(sc, k)
        <=> \E l \in DOMAIN out : /\ out[l].t = "declare" /\ l < k
                                  /\ Innermost(sc, out[l].node, out[l].part) /\ x = out[l].name
  BY DEF DeclaredIn, Tokens
<1>. QED
  BY <1>1, <1>2, <1>3, <1>4 DEF Put

(* A name in an expression of the template is written bare exactly where   *)
(* it stands in a scope of a v-for, a v-slot or a $event around it: that   *)
(* binds it, or a function of an expression before, of which the scope was *)
(* the innermost, declares it (declareScopeVar).  Elsewhere it is a        *)
(* property of __VLS_ctx.  So it is for templates of any size: scopes are  *)
(* entered and left in step with the elements, but behind a slot that      *)
(* belongs to no component.                                                *)
THEOREM NamesAreBareIfBound == Spec => []BareIffBound
<1>1. ASSUME BareInv PROVE BareIffBound
  <2>1. ASSUME NEW k \in Tokens("use")
        PROVE  \/ out[k].bare <=> \E s \in ScopesAround(out[k].node, out[k].part) :
                                     out[k].name \in s.names \cup DeclaredIn(s, k)
               \/ \E j \in Nodes : j < out[k].node /\ StraySlot(j)
    <3>1. k \in 1..Len(out) /\ out[k].t = "use"
      BY <1>1, SeqIs DEF Tokens, BareInv, UsesInv
    <3>2. UsesInv /\ (UseRight(Map, out, k) \/ BehindStray(out[k])) /\ Placed(out)
      BY <1>1, <3>1 DEF BareInv, UsesInv
    <3>3. Map[out[k].node][out[k].part] = ScopesAround(out[k].node, out[k].part)
      BY <3>1, <3>2, MapIs DEF Placed
    <3>4. \A s : Put(Map, out, k - 1, s, out[k].name) <=> out[k].name \in DeclaredIn(s, k)
      BY <3>1, <3>2, PutIs
    <3>5. UseRight(Map, out, k) => (out[k].bare <=> \E s \in ScopesAround(out[k].node, out[k].part) :
                                     out[k].name \in s.names \cup DeclaredIn(s, k))
      BY <3>3, <3>4 DEF UseRight
    <3>. QED
      BY <3>2, <3>5 DEF BehindStray
  <2>. QED
    BY <2>1 DEF BareIffBound
<1>. QED
  BY <1>1, BareInvariant, PTL

(* One token more on the stack of blocks. *)
Push(s, tok) ==
    CASE tok.t \in Opening -> Append(s, tok)
      [] tok.t = "}" -> IF s # <<>> /\ Last(s).t # "}" THEN AllButLast(s) ELSE Append(s, tok)
      [] OTHER -> s

BlocksSolved ==
    /\ Blocks[0] = <<>>
    /\ \A k \in 1..Len(out) : Blocks[k] = Push(Blocks[k - 1], out[k])
    /\ \A k \in 0..Len(out) : AnySeq(Blocks[k])

(* Push adds the token or nothing. *)
LEMMA PushType ==
    ASSUME NEW S, NEW s \in Seq(S), NEW tok \in S
    PROVE  Push(s, tok) \in Seq(S)
<1>1. Append(s, tok) \in Seq(S)
  OBVIOUS
<1>2. s # <<>> => AllButLast(s) \in Seq(S)
  <2>1. s # <<>> => Len(s) - 1 \in Int /\ \A i \in 1..(Len(s) - 1) : s[i] \in S
    OBVIOUS
  <2>. QED
    BY <2>1, SubSeqProperties DEF AllButLast
<1>. QED
  BY <1>1, <1>2 DEF Push

(* Blocks is what its definition says after every token. *)
LEMMA BlocksAre == AnySeq(out) => BlocksSolved
<1>. SUFFICES ASSUME AnySeq(out) PROVE BlocksSolved
  OBVIOUS
<1>. DEFINE n == Len(out)
            V == Seq(Elems(out))
            p == [i \in 1..n |-> i - 1]
            G == [i \in 1..n |-> [a \in V |-> Push(a, out[i])]]
            Rec(g) == g = [k \in 0..n |->
                IF k = 0 THEN <<>>
                ELSE LET s == g[k - 1]
                     IN  CASE out[k].t \in Opening -> Append(s, out[k])
                           [] out[k].t = "}" -> IF s # <<>> /\ Last(s).t # "}" THEN AllButLast(s)
                                                ELSE Append(s, out[k])
                           [] OTHER -> s]
            Pushes(g) == g = [k \in 0..n |-> IF k = 0 THEN <<>> ELSE Push(g[k - 1], out[k])]
<1>1. n \in Nat /\ DOMAIN out = 1..n
  BY SeqIs
<1>2. \A i \in 1..n : p[i] = i - 1 /\ p[i] \in 0..(i - 1)
  BY <1>1
<1>3. \A i \in 1..n : \A a \in V : G[i][a] = Push(a, out[i]) /\ G[i][a] \in V
  <2>1. \A i \in 1..n : out[i] \in Elems(out)
    BY <1>1 DEF Elems
  <2>2. ASSUME NEW i \in 1..n, NEW a \in V PROVE Push(a, out[i]) \in V
    BY <2>1, PushType
  <2>. HIDE DEF V, n
  <2>. QED
    BY <2>2
<1>4. PICK g \in [0..n -> V] : g[0] = <<>> /\ \A i \in 1..n : g[i] = G[i][g[p[i]]]
  <2>1. n \in Nat /\ <<>> \in V
    BY <1>1
  <2>. HIDE DEF G, p, V, n, Rec, Pushes
  <2>2. FromEarlier(n, V, <<>>, p, G)
    BY <1>2, <1>3, <2>1 DEF FromEarlier
  <2>. QED
    BY <2>2, Recursion
<1>. HIDE DEF G, p, V, n
<1>5. \A i \in 1..n : g[i] = Push(g[i - 1], out[i])
  <2>1. \A i \in 1..n : i - 1 \in 0..n /\ g[i - 1] \in V
    BY <1>1
  <2>. QED
    BY <1>2, <1>3, <1>4, <2>1
<1>6. g = [k \in 0..n |-> g[k]]
  OBVIOUS
<1>7. \A k \in 0..n : g[k] = IF k = 0 THEN <<>> ELSE Push(g[k - 1], out[k])
  <2>1. \A k \in 0..n : k # 0 => k \in 1..n
    BY <1>1
  <2>. QED
    BY <1>4, <1>5, <2>1
<1>8. Pushes(g)
  BY <1>6, <1>7
<1>9. Rec(g)
  BY <1>8 DEF Push
<1>10. Blocks = CHOOSE f : Rec(f)
  BY DEF Blocks, n
<1>11. Rec(Blocks)
  <2>. HIDE DEF Rec
  <2>. QED
    BY <1>9, <1>10
<1>12. Pushes(Blocks)
  BY <1>11 DEF Push
<1>13. /\ Blocks[0] = <<>>
       /\ \A k \in 1..n : Blocks[k] = Push(Blocks[k - 1], out[k])
  BY <1>1, <1>12
<1>14. \A k \in 0..n : Blocks[k] = g[k]
  <2>1. SameSoFar(n, Blocks, g, p)
    BY <1>1, <1>2, <1>4, <1>5, <1>13 DEF SameSoFar
  <2>. QED
    BY <2>1, Agree, ZenonT(40)
<1>15. \A k \in 0..n : AnySeq(Blocks[k])
  BY <1>4, <1>14 DEF AnySeq, V
<1>. QED
  BY <1>13, <1>15 DEF BlocksSolved, n

(* So it is in the next state. *)
LEMMA BlocksAreThen == AnySeq(out)' => BlocksSolved'
BY BlocksAre, PTL

(* The blocks of what was written before stay. *)
LEMMA BlocksGrown ==
    ASSUME AnySeq(out), AnySeq(out'), Len(out) <= Len(out'), \A k \in 1..Len(out) : out'[k] = out[k]
    PROVE  \A k \in 0..Len(out) : Blocks'[k] = Blocks[k]
<1>. DEFINE n == Len(out)
            p == [i \in 1..n |-> i - 1]
<1>1. n \in Nat /\ Len(out') \in Nat
  BY SeqIs
<1>2. BlocksSolved /\ BlocksSolved'
  BY BlocksAre, BlocksAreThen
<1>3. \A i \in 1..n : p[i] = i - 1 /\ p[i] \in 0..(i - 1) /\ i \in 1..Len(out')
  BY <1>1
<1>4. ASSUME NEW i \in 1..n, Blocks'[p[i]] = Blocks[p[i]] PROVE Blocks'[i] = Blocks[i]
  BY <1>2, <1>3, <1>4 DEF BlocksSolved
<1>5. Blocks'[0] = Blocks[0]
  BY <1>2 DEF BlocksSolved
<1>6. SameSoFar(n, Blocks', Blocks, p)
  <2>. HIDE DEF p, n
  <2>. QED
    BY <1>1, <1>3, <1>4, <1>5 DEF SameSoFar
<1>. HIDE DEF n, p
<1>. QED
  BY <1>6, Agree DEF n

-----------------------------------------------------------------------------
(* What tokens do to a stack, wherever they stand. *)
Neutral(tok) == tok.t \notin Opening /\ tok.t # "}"

Neutrals(B, o, n, m) ==
    /\ n \in Nat /\ m \in Nat /\ n <= m
    /\ \A k \in (n + 1)..m : B[k] = Push(B[k - 1], o[k]) /\ Neutral(o[k])

(* Tokens that neither open nor close leave the stack as it is. *)
LEMMA NeutralTokens ==
    ASSUME NEW B, NEW o, NEW n, NEW m, Neutrals(B, o, n, m)
    PROVE  B[m] = B[n]
<1>. n \in Nat /\ m \in Nat /\ n <= m /\ \A k \in (n + 1)..m : B[k] = Push(B[k - 1], o[k]) /\ Neutral(o[k])
  BY DEF Neutrals
<1>. DEFINE S == {i \in 0..(m - n) : B[n + i] = B[n]}
<1>1. ASSUME NEW i \in 0..(m - n), \A j \in 0..(i - 1) : j \in S
      PROVE  i \in S
  <2>1. CASE i = 0
    BY <2>1
  <2>2. CASE i # 0
    <3>1. i - 1 \in 0..(i - 1) /\ n + i \in (n + 1)..m /\ (n + i) - 1 = n + (i - 1)
      BY <2>2
    <3>2. B[n + (i - 1)] = B[n]
      BY <1>1, <3>1
    <3>3. B[n + i] = Push(B[n + (i - 1)], o[n + i]) /\ Neutral(o[n + i])
      BY <3>1
    <3>4. B[n + i] = B[n + (i - 1)]
      BY <3>3 DEF Push, Neutral
    <3>. QED
      BY <3>2, <3>4
  <2>. QED
    BY <2>1, <2>2
<1>2. m - n \in Nat
  OBVIOUS
<1>3. \A i \in 0..(m - n) : i \in S
  <2>. HIDE DEF S
  <2>. QED
    BY <1>1, <1>2, Induction
<1>4. m - n \in S
  BY <1>2, <1>3
<1>5. n + (m - n) = m
  OBVIOUS
<1>. QED
  BY <1>4, <1>5

(* r is five sequences one behind another. *)
Joined(r, s, a, b, c, d) == AnySeqs(s, a, b, c, d) /\ r = s \o (a \o (b \o (c \o d)))

(* Where each of five joined sequences stands. *)
LEMMA Parts5 ==
    ASSUME NEW r, NEW s, NEW a, NEW b, NEW c, NEW d, Joined(r, s, a, b, c, d)
    PROVE  /\ AnySeq(r) /\ Len(r) = Len(s) + Len(a) + Len(b) + Len(c) + Len(d)
           /\ Len(s) \in Nat /\ Len(a) \in Nat /\ Len(b) \in Nat /\ Len(c) \in Nat /\ Len(d) \in Nat
           /\ \A i \in 1..Len(s) : r[i] = s[i]
           /\ \A i \in 1..Len(a) : r[Len(s) + i] = a[i]
           /\ \A i \in 1..Len(b) : r[Len(s) + Len(a) + i] = b[i]
           /\ \A i \in 1..Len(c) : r[Len(s) + Len(a) + Len(b) + i] = c[i]
           /\ \A i \in 1..Len(d) : r[Len(s) + Len(a) + Len(b) + Len(c) + i] = d[i]
<1>. DEFINE cd == c \o d
            bcd == b \o cd
            abcd == a \o bcd
<1>. AnySeqs(s, a, b, c, d) /\ r = s \o (a \o (b \o (c \o d)))
  BY DEF Joined
<1>1. AnySeq(s) /\ AnySeq(a) /\ AnySeq(b) /\ AnySeq(c) /\ AnySeq(d)
  BY DEF AnySeqs
<1>2. Len(s) \in Nat /\ Len(a) \in Nat /\ Len(b) \in Nat /\ Len(c) \in Nat /\ Len(d) \in Nat
  BY <1>1, SeqIs
<1>20. AnySeq(a)
  BY <1>1
<1>21. AnySeq(b)
  BY <1>1
<1>22. AnySeq(s)
  BY <1>1
<1>3. /\ AnySeq(cd) /\ Len(cd) = Len(c) + Len(d)
      /\ \A i \in 1..Len(c) : cd[i] = c[i]
      /\ \A i \in 1..Len(d) : cd[Len(c) + i] = d[i]
  BY <1>1, SeqConcat
<1>. HIDE DEF cd
<1>4. /\ AnySeq(bcd) /\ Len(bcd) = Len(b) + Len(cd)
      /\ \A i \in 1..Len(b) : bcd[i] = b[i]
      /\ \A i \in 1..Len(cd) : bcd[Len(b) + i] = cd[i]
  <2>1. AnySeq(cd)
    BY <1>3
  <2>. QED
    BY <1>21, <2>1, SeqConcat
<1>. HIDE DEF bcd
<1>5. /\ AnySeq(abcd) /\ Len(abcd) = Len(a) + Len(bcd)
      /\ \A i \in 1..Len(a) : abcd[i] = a[i]
      /\ \A i \in 1..Len(bcd) : abcd[Len(a) + i] = bcd[i]
  <2>1. AnySeq(bcd)
    BY <1>4
  <2>. QED
    BY <1>20, <2>1, SeqConcat
<1>. HIDE DEF abcd
<1>6. /\ AnySeq(r) /\ Len(r) = Len(s) + Len(abcd)
      /\ \A i \in 1..Len(s) : r[i] = s[i]
      /\ \A i \in 1..Len(abcd) : r[Len(s) + i] = abcd[i]
  <2>1. AnySeq(abcd)
    BY <1>5
  <2>2. r = s \o abcd
    BY DEF abcd, bcd, cd
  <2>. QED
    BY <1>22, <2>1, <2>2, SeqConcat
<1>7. ASSUME NEW i \in 1..Len(a) PROVE r[Len(s) + i] = a[i]
  <2>1. i \in 1..Len(abcd)
    BY <1>2, <1>3, <1>4, <1>5
  <2>. QED
    BY <1>5, <1>6, <2>1
<1>8. ASSUME NEW i \in 1..Len(bcd) PROVE r[Len(s) + Len(a) + i] = bcd[i]
  <2>1. Len(a) + i \in 1..Len(abcd) /\ Len(s) + (Len(a) + i) = Len(s) + Len(a) + i
    BY <1>2, <1>3, <1>4, <1>5
  <2>. QED
    BY <1>5, <1>6, <2>1
<1>9. ASSUME NEW i \in 1..Len(b) PROVE r[Len(s) + Len(a) + i] = b[i]
  <2>1. i \in 1..Len(bcd)
    BY <1>2, <1>3, <1>4
  <2>. QED
    BY <1>4, <1>8, <2>1
<1>10. ASSUME NEW i \in 1..Len(cd) PROVE r[Len(s) + Len(a) + Len(b) + i] = cd[i]
  <2>1. Len(b) + i \in 1..Len(bcd) /\ Len(s) + Len(a) + (Len(b) + i) = Len(s) + Len(a) + Len(b) + i
    BY <1>2, <1>3, <1>4
  <2>. QED
    BY <1>4, <1>8, <2>1
<1>11. ASSUME NEW i \in 1..Len(c) PROVE r[Len(s) + Len(a) + Len(b) + i] = c[i]
  <2>1. i \in 1..Len(cd)
    BY <1>2, <1>3
  <2>. QED
    BY <1>3, <1>10, <2>1
<1>12. ASSUME NEW i \in 1..Len(d) PROVE r[Len(s) + Len(a) + Len(b) + Len(c) + i] = d[i]
  <2>1. Len(c) + i \in 1..Len(cd) /\ Len(s) + Len(a) + Len(b) + (Len(c) + i) = Len(s) + Len(a) + Len(b) + Len(c) + i
    BY <1>2, <1>3
  <2>. QED
    BY <1>3, <1>10, <2>1
<1>13. Len(r) = Len(s) + Len(a) + Len(b) + Len(c) + Len(d)
  BY <1>2, <1>3, <1>4, <1>5, <1>6
<1>. QED
  BY <1>2, <1>6, <1>7, <1>9, <1>11, <1>12, <1>13

(* An expression is written in names, which open and close nothing. *)
IsCode(u) == AnySeq(u) /\ \A t \in Elems(u) : t.t \in {"use", "declare"}

(* The scopes an element enters. *)
ScopeWidth(e) == (IF e.for = None THEN 0 ELSE 1) + (IF Bound(e) THEN 1 ELSE 0)

(* A head is a token that opens a block, and what follows it is neutral.   *)
HeadOf(s, h) == Len(s) >= 1 /\ s[1] = h /\ \A i \in 2..Len(s) : Neutral(s[i])

(* A block that opens and an expression in its head. *)
LEMMA HeadThenUse ==
    ASSUME NEW h, NEW u, IsCode(u), NEW s, s = <<h>> \o u
    PROVE  HeadOf(s, h)
<1>0. AnySeq(u) /\ \A t \in Elems(u) : t.t \in {"use", "declare"}
  BY DEF IsCode
<1>. DEFINE k == <<h>>
<1>1. AnySeq(k) /\ Len(k) = 1 /\ k[1] = h
  BY ShortSeqs
<1>. HIDE DEF k
<1>2. /\ Len(s) = 1 + Len(u)
      /\ s[1] = h
      /\ \A i \in 1..Len(u) : s[1 + i] = u[i]
  BY <1>0, <1>1, SeqConcat DEF k
<1>3. Len(u) \in Nat /\ DOMAIN u = 1..Len(u)
  BY <1>0, SeqIs
<1>4. ASSUME NEW i \in 2..Len(s) PROVE Neutral(s[i])
  <2>1. i - 1 \in 1..Len(u) /\ 1 + (i - 1) = i
    BY <1>2, <1>3
  <2>2. s[i] = u[i - 1] /\ u[i - 1] \in Elems(u)
    BY <1>2, <1>3, <2>1 DEF Elems
  <2>3. s[i].t \in {"use", "declare"}
    BY <1>0, <2>2
  <2>. QED
    BY <2>3 DEF Neutral, Opening
<1>. QED
  BY <1>2, <1>3, <1>4 DEF HeadOf

(* So is every expression. *)
LEMMA ExpressionIsCode ==
    ASSUME NEW x, NEW scs, NEW i, NEW part, part \in Parts
    PROVE  IsCode(MapExpression(x, scs, i, part))
BY ExpressionTokens DEF IsCode, IsExpr

(* The heads of the blocks an element opens. *)
LEMMA HeadsAre ==
    ASSUME NEW e
    PROVE  /\ IF Effective(e) = "none" THEN BranchHead(e) = <<>>
              ELSE HeadOf(BranchHead(e), [t |-> Effective(e), node |-> This])
           /\ IF e.for = None THEN ForHead(e) = <<>>
              ELSE HeadOf(ForHead(e), [t |-> "for", node |-> This])
           /\ \A i \in 1..Len(Own(e, ForScopes(e), CondsAfter(e))) : Neutral(Own(e, ForScopes(e), CondsAfter(e))[i])
           /\ IF OpensSlot(e) THEN HeadOf(SlotHead(e), [t |-> "slot", node |-> This])
              ELSE SlotHead(e) = <<>>
<1>1. ASSUME Effective(e) # "none"
      PROVE  HeadOf(BranchHead(e), [t |-> Effective(e), node |-> This])
  <2>. DEFINE h == [t |-> Effective(e), node |-> This]
              x == Tested(e)
              u == MapExpression(x, scopes, This, "cond")
  <2>. HIDE DEF x
  <2>1. IsCode(u)
    BY ExpressionIsCode DEF Parts
  <2>2. BranchHead(e) = <<h>> \o u
    BY <1>1 DEF BranchHead, x
  <2>. HIDE DEF h, u
  <2>3. HeadOf(BranchHead(e), h)
    BY <2>1, <2>2, HeadThenUse
  <2>. QED
    BY <2>3 DEF h
<1>2. ASSUME e.for # None
      PROVE  HeadOf(ForHead(e), [t |-> "for", node |-> This])
  <2>. DEFINE h == [t |-> "for", node |-> This]
              scs == LoopScopes(e)
              u == MapExpression(e.for.source, scs, This, "source")
  <2>. HIDE DEF scs
  <2>1. IsCode(u)
    BY ExpressionIsCode DEF Parts
  <2>2. ForHead(e) = <<h>> \o u
    BY <1>2 DEF ForHead, scs
  <2>. HIDE DEF h, u
  <2>3. HeadOf(ForHead(e), h)
    BY <2>1, <2>2, HeadThenUse
  <2>. QED
    BY <2>3 DEF h
<1>3. ASSUME NEW i \in 1..Len(Own(e, ForScopes(e), CondsAfter(e)))
      PROVE  Neutral(Own(e, ForScopes(e), CondsAfter(e))[i])
  <2>. DEFINE own == Own(e, ForScopes(e), CondsAfter(e))
  <2>1. AnySeq(own) /\ \A t \in Elems(own) : OwnToken(e, t)
    BY OwnTokens
  <2>. HIDE DEF own
  <2>2. OwnToken(e, own[i])
    BY <2>1, SeqIs DEF Elems, own
  <2>3. own[i].t \in {"own", "guards", "use", "declare"}
    BY <2>2 DEF OwnToken, IsExpr
  <2>. QED
    BY <2>3 DEF Neutral, Opening, own
<1>4. ASSUME OpensSlot(e)
      PROVE  HeadOf(SlotHead(e), [t |-> "slot", node |-> This])
  BY <1>4 DEF SlotHead, HeadOf
<1>. QED
  BY <1>1, <1>2, <1>3, <1>4 DEF BranchHead, ForHead, SlotHead

(* A segment of the text stands behind the first n tokens. *)
Segment(B, o, n, s) ==
    /\ n \in Nat /\ Len(s) \in Nat
    /\ \A i \in 1..Len(s) : o[n + i] = s[i] /\ B[n + i] = Push(B[n + i - 1], o[n + i])

Quiet(s) == \A i \in 1..Len(s) : Neutral(s[i])

(* A segment without braces leaves the stack. *)
LEMMA SegmentNeutral ==
    ASSUME NEW B, NEW o, NEW n, NEW s, Segment(B, o, n, s), Quiet(s)
    PROVE  B[n + Len(s)] = B[n]
<1>. /\ n \in Nat /\ Len(s) \in Nat
     /\ \A i \in 1..Len(s) : o[n + i] = s[i] /\ B[n + i] = Push(B[n + i - 1], o[n + i])
  BY DEF Segment
<1>. \A i \in 1..Len(s) : Neutral(s[i])
  BY DEF Quiet
<1>1. ASSUME NEW k \in (n + 1)..(n + Len(s)) PROVE B[k] = Push(B[k - 1], o[k]) /\ Neutral(o[k])
  <2>. DEFINE i == k - n
  <2>1. i \in 1..Len(s) /\ n + i = k
    OBVIOUS
  <2>. HIDE DEF i
  <2>2. o[n + i] = s[i] /\ B[n + i] = Push(B[n + i - 1], o[n + i])
    BY <2>1
  <2>3. n + i - 1 = k - 1
    BY <2>1
  <2>. QED
    BY <2>1, <2>2, <2>3, Zenon
<1>2. Neutrals(B, o, n, n + Len(s))
  BY <1>1 DEF Neutrals
<1>. QED
  BY <1>2, NeutralTokens

(* A block that opens goes on top. *)
LEMMA PushOpening ==
    ASSUME NEW s, NEW h, h.t \in Opening
    PROVE  Push(s, h) = Append(s, h)
BY DEF Push, Opening

(* A segment with a head puts it on the stack. *)
LEMMA SegmentHead ==
    ASSUME NEW B, NEW o, NEW n, NEW s, Segment(B, o, n, s), NEW h, HeadOf(s, h), h.t \in Opening
    PROVE  B[n + Len(s)] = Append(B[n], h)
<1>. /\ n \in Nat /\ Len(s) \in Nat
     /\ \A i \in 1..Len(s) : o[n + i] = s[i] /\ B[n + i] = Push(B[n + i - 1], o[n + i])
     /\ Len(s) >= 1 /\ s[1] = h /\ \A i \in 2..Len(s) : Neutral(s[i])
  BY DEF Segment, HeadOf
<1>1. ASSUME NEW k \in (n + 1 + 1)..(n + Len(s)) PROVE B[k] = Push(B[k - 1], o[k]) /\ Neutral(o[k])
  <2>. DEFINE i == k - n
  <2>1. i \in 1..Len(s) /\ i \in 2..Len(s) /\ n + i = k
    OBVIOUS
  <2>. HIDE DEF i
  <2>2. o[n + i] = s[i] /\ B[n + i] = Push(B[n + i - 1], o[n + i])
    BY <2>1
  <2>3. n + i - 1 = k - 1
    BY <2>1
  <2>. QED
    BY <2>1, <2>2, <2>3, Zenon
<1>2. Neutrals(B, o, n + 1, n + Len(s))
  BY <1>1 DEF Neutrals
<1>3. B[n + Len(s)] = B[n + 1]
  BY <1>2, NeutralTokens
<1>4. o[n + 1] = h /\ B[n + 1] = Push(B[n], o[n + 1])
  <2>1. 1 \in 1..Len(s) /\ n + 1 - 1 = n
    OBVIOUS
  <2>. QED
    BY <2>1
<1>5. Push(B[n], h) = Append(B[n], h)
  BY PushOpening
<1>. QED
  BY <1>3, <1>4, <1>5

(* What an element does to the blocks, and where its branch begins.        *)
BranchBlock(e, s, i) == IF Effective(e) = "none" THEN s ELSE Append(s, [t |-> Effective(e), node |-> i])
ForBlock(e, s, i) == IF e.for = None THEN s ELSE Append(s, [t |-> "for", node |-> i])
SlotBlock(e, s, i) == IF OpensSlot(e) THEN Append(s, [t |-> "slot", node |-> i]) ELSE s

Writes(e, i) ==
    /\ AnySeq(out)
    /\ Effective(e) \in {"none", "if", "else-if", "else"}
    /\ out' = out \o Written(e)
    /\ i = This

Opened(e, s, i) == SlotBlock(e, ForBlock(e, BranchBlock(e, s, i), i), i)

(* Its blocks are opened, and an else or else-if is its first token.       *)
BlocksOpened(e, i) ==
    /\ Blocks'[Len(out')] = Opened(e, Blocks[Len(out)], i)
    /\ AnySeq(out') /\ Len(out) \in Nat /\ Len(out') \in Nat /\ Len(out) <= Len(out')
    /\ \A k \in 1..Len(out) : out'[k] = out[k]
    /\ \A k \in 0..Len(out) : Blocks'[k] = Blocks[k]
    /\ \A k \in (Len(out) + 1)..Len(out') :
          out'[k].t \in {"else-if", "else"}
             => k = Len(out) + 1 /\ out'[k] = [t |-> Effective(e), node |-> i]

(* What an element writes before its children opens its blocks, and an     *)
(* else or else-if is the first token of it.                               *)
LEMMA StackWritten ==
    ASSUME NEW e, NEW i, Writes(e, i)
    PROVE  BlocksOpened(e, i)
<1>. /\ AnySeq(out)
     /\ Effective(e) \in {"none", "if", "else-if", "else"}
     /\ out' = out \o Written(e)
     /\ i = This
  BY DEF Writes
<1>. DEFINE A == BranchHead(e)
            B == ForHead(e)
            C == Own(e, ForScopes(e), CondsAfter(e))
            D == SlotHead(e)
            hA == [t |-> Effective(e), node |-> i]
            hB == [t |-> "for", node |-> i]
            hD == [t |-> "slot", node |-> i]
            o == out'
            S == Blocks'
            n0 == Len(out)
            n1 == n0 + Len(A)
            n2 == n1 + Len(B)
            n3 == n2 + Len(C)
            n4 == n3 + Len(D)
<1>1. AnySeqs(out, A, B, C, D)
  BY BranchTokens, ForTokens, OwnTokens, SlotTokens DEF AnySeqs
<1>2. /\ IF Effective(e) = "none" THEN A = <<>> ELSE HeadOf(A, hA) /\ hA.t \in Opening
      /\ IF e.for = None THEN B = <<>> ELSE HeadOf(B, hB) /\ hB.t \in Opening
      /\ \A k \in 1..Len(C) : Neutral(C[k])
      /\ IF OpensSlot(e) THEN HeadOf(D, hD) /\ hD.t \in Opening ELSE D = <<>>
  BY HeadsAre DEF Opening
<1>3. o = out \o (A \o (B \o (C \o D)))
  BY DEF Written
<1>. HIDE DEF A, B, C, D, o
<1>40. /\ AnySeq(o) /\ Len(o) = Len(out) + Len(A) + Len(B) + Len(C) + Len(D)
       /\ Len(out) \in Nat /\ Len(A) \in Nat /\ Len(B) \in Nat /\ Len(C) \in Nat /\ Len(D) \in Nat
       /\ \A k \in 1..Len(out) : o[k] = out[k]
       /\ \A k \in 1..Len(A) : o[Len(out) + k] = A[k]
       /\ \A k \in 1..Len(B) : o[Len(out) + Len(A) + k] = B[k]
       /\ \A k \in 1..Len(C) : o[Len(out) + Len(A) + Len(B) + k] = C[k]
       /\ \A k \in 1..Len(D) : o[Len(out) + Len(A) + Len(B) + Len(C) + k] = D[k]
  <2>1. Joined(o, out, A, B, C, D)
    BY <1>1, <1>3 DEF Joined
  <2>. HIDE DEF n0, n1, n2, n3, n4
  <2>. QED
    BY <2>1, Parts5
<1>4. /\ AnySeq(o) /\ Len(o) = n4
      /\ n0 \in Nat /\ Len(A) \in Nat /\ Len(B) \in Nat /\ Len(C) \in Nat /\ Len(D) \in Nat
      /\ \A k \in 1..n0 : o[k] = out[k]
      /\ \A k \in 1..Len(A) : o[n0 + k] = A[k]
      /\ \A k \in 1..Len(B) : o[n1 + k] = B[k]
      /\ \A k \in 1..Len(C) : o[n2 + k] = C[k]
      /\ \A k \in 1..Len(D) : o[n3 + k] = D[k]
  BY <1>40
<1>5. \A k \in 0..n0 : S[k] = Blocks[k]
  BY <1>4, BlocksGrown DEF o
<1>6. \A k \in 1..n4 : S[k] = Push(S[k - 1], o[k])
  BY <1>4, BlocksAreThen DEF BlocksSolved, o
<1>. HIDE DEF S
<1>. HIDE DEF hA, hB, hD
<1>7. S[n1] = BranchBlock(e, S[n0], i)
  <2>1. Segment(S, o, n0, A)
    <3>1. \A k \in 1..Len(A) : n0 + k \in 1..n4
      BY <1>4
    <3>2. n0 \in Nat /\ n1 = n0 + Len(A)
      BY <1>4
    <3>. HIDE DEF n0, n1, n2, n3, n4
    <3>. QED
      BY <1>4, <1>6, <3>1, <3>2 DEF Segment
  <2>2. CASE Effective(e) = "none"
    BY <1>2, <1>4, <2>2 DEF BranchBlock
  <2>3. CASE Effective(e) # "none"
    BY <1>2, <2>1, <2>3, SegmentHead DEF BranchBlock, hA
  <2>. QED
    BY <2>2, <2>3
<1>8. S[n2] = ForBlock(e, S[n1], i)
  <2>1. Segment(S, o, n1, B)
    <3>1. \A k \in 1..Len(B) : n1 + k \in 1..n4
      BY <1>4
    <3>2. n1 \in Nat /\ n2 = n1 + Len(B)
      BY <1>4
    <3>. HIDE DEF n0, n1, n2, n3, n4
    <3>. QED
      BY <1>4, <1>6, <3>1, <3>2 DEF Segment
  <2>2. CASE e.for = None
    BY <1>2, <1>4, <2>2 DEF ForBlock
  <2>3. CASE e.for # None
    BY <1>2, <2>1, <2>3, SegmentHead DEF ForBlock, hB
  <2>. QED
    BY <2>2, <2>3
<1>9. S[n3] = S[n2]
  <2>1. Segment(S, o, n2, C)
    <3>1. \A k \in 1..Len(C) : n2 + k \in 1..n4
      BY <1>4
    <3>2. n2 \in Nat /\ n3 = n2 + Len(C)
      BY <1>4
    <3>. HIDE DEF n0, n1, n2, n3, n4
    <3>. QED
      BY <1>4, <1>6, <3>1, <3>2 DEF Segment
  <2>2. Quiet(C)
    BY <1>2 DEF Quiet
  <2>. QED
    BY <2>1, <2>2, SegmentNeutral
<1>10. S[n4] = SlotBlock(e, S[n3], i)
  <2>1. Segment(S, o, n3, D)
    <3>1. \A k \in 1..Len(D) : n3 + k \in 1..n4
      BY <1>4
    <3>2. n3 \in Nat /\ n4 = n3 + Len(D)
      BY <1>4
    <3>. HIDE DEF n0, n1, n2, n3, n4
    <3>. QED
      BY <1>4, <1>6, <3>1, <3>2 DEF Segment
  <2>2. CASE ~OpensSlot(e)
    BY <1>2, <1>4, <2>2 DEF SlotBlock
  <2>3. CASE OpensSlot(e)
    BY <1>2, <2>1, <2>3, SegmentHead DEF SlotBlock, hD
  <2>. QED
    BY <2>2, <2>3
<1>11. ASSUME NEW k \in (n0 + 1)..n4, o[k].t \in {"else-if", "else"}
       PROVE  k = n0 + 1 /\ o[k] = hA
  <2>1. ASSUME NEW x, Neutral(x) PROVE x.t \notin {"else-if", "else"}
    BY <2>1 DEF Neutral, Opening
  <2>2. CASE k \in (n0 + 1)..n1
    <3>1. k - n0 \in 1..Len(A) /\ n0 + (k - n0) = k
      BY <1>4, <2>2
    <3>2. Effective(e) # "none"
      BY <1>2, <3>1
    <3>3. k - n0 # 1 => Neutral(A[k - n0])
      BY <1>2, <1>4, <3>1, <3>2 DEF HeadOf
    <3>4. k = n0 + 1
      BY <1>4, <1>11, <2>1, <3>1, <3>3
    <3>. QED
      BY <1>2, <1>4, <3>1, <3>2, <3>4 DEF HeadOf
  <2>3. CASE k \in (n1 + 1)..n2
    <3>1. k - n1 \in 1..Len(B) /\ n1 + (k - n1) = k
      BY <1>4, <2>3
    <3>2. e.for # None
      BY <1>2, <3>1
    <3>3. k - n1 # 1 => Neutral(B[k - n1])
      <4>. HIDE DEF n1
      <4>1. k - n1 # 1 => k - n1 \in 2..Len(B)
        BY <1>4, <3>1
      <4>. QED
        BY <1>2, <3>2, <4>1 DEF HeadOf
    <3>4. B[1].t = "for"
      BY <1>2, <3>2 DEF HeadOf, hB
    <3>. QED
      BY <1>4, <1>11, <2>1, <3>1, <3>3, <3>4
  <2>4. CASE k \in (n2 + 1)..n3
    <3>1. k - n2 \in 1..Len(C) /\ n2 + (k - n2) = k
      BY <1>4, <2>4
    <3>. QED
      BY <1>2, <1>4, <1>11, <2>1, <3>1
  <2>5. CASE k \in (n3 + 1)..n4
    <3>1. k - n3 \in 1..Len(D) /\ n3 + (k - n3) = k
      BY <1>4, <2>5
    <3>2. OpensSlot(e)
      BY <1>2, <3>1
    <3>3. k - n3 # 1 => Neutral(D[k - n3])
      <4>. HIDE DEF n3
      <4>1. k - n3 # 1 => k - n3 \in 2..Len(D)
        BY <1>4, <3>1
      <4>. QED
        BY <1>2, <3>2, <4>1 DEF HeadOf
    <3>4. D[1].t = "slot"
      BY <1>2, <3>2 DEF HeadOf, hD
    <3>. QED
      BY <1>4, <1>11, <2>1, <3>1, <3>3, <3>4
  <2>. QED
    BY <1>4, <2>2, <2>3, <2>4, <2>5
<1>12. S[n0] = Blocks[n0]
  <2>1. n0 \in 0..n0
    BY <1>4
  <2>. QED
    BY <1>5, <2>1
<1>13. n0 <= n4 /\ n4 \in Nat
  BY <1>4
<1>. HIDE DEF n0, n1, n2, n3, n4
<1>14. S[n4] = SlotBlock(e, ForBlock(e, BranchBlock(e, Blocks[n0], i), i), i)
  BY <1>7, <1>8, <1>9, <1>10, <1>12
<1>. QED
  BY <1>4, <1>5, <1>11, <1>13, <1>14 DEF o, S, hA, n0, BlocksOpened, Opened

(* Text added at the end leaves what was there, and its blocks. *)
LEMMA TextGrown ==
    ASSUME AnySeq(out), NEW s, AnySeq(s), out' = out \o s
    PROVE  /\ AnySeq(out') /\ Len(out') = Len(out) + Len(s) /\ Len(out) \in Nat /\ Len(s) \in Nat
           /\ \A k \in 1..Len(out) : out'[k] = out[k]
           /\ \A k \in 0..Len(out) : Blocks'[k] = Blocks[k]
           /\ \A k \in 1..Len(s) : out'[Len(out) + k] = s[k]
           /\ Segment(Blocks', out', Len(out), s)
<1>1. /\ AnySeq(out') /\ Len(out') = Len(out) + Len(s) /\ Len(out) \in Nat /\ Len(s) \in Nat
      /\ \A k \in 1..Len(out) : out'[k] = out[k]
      /\ \A k \in 1..Len(s) : out'[Len(out) + k] = s[k]
  BY SeqConcat, SeqIs
<1>2. \A k \in 0..Len(out) : Blocks'[k] = Blocks[k]
  BY <1>1, BlocksGrown
<1>3. \A k \in 1..Len(out') : Blocks'[k] = Blocks'[k - 1] \/ Blocks'[k] = Push(Blocks'[k - 1], out'[k])
  BY <1>1, BlocksAreThen DEF BlocksSolved
<1>4. Segment(Blocks', out', Len(out), s)
  <2>1. \A k \in 1..Len(out') : Blocks'[k] = Push(Blocks'[k - 1], out'[k])
    BY <1>1, BlocksAreThen DEF BlocksSolved
  <2>2. \A k \in 1..Len(s) : Len(out) + k \in 1..Len(out')
    BY <1>1
  <2>. QED
    BY <1>1, <2>1, <2>2 DEF Segment
<1>. QED
  BY <1>1, <1>2, <1>4

(* A brace takes the last block away, if there is one.                     *)
IsBrace(b) == b.t = "}"

(* A brace takes the top block away. *)
LEMMA PushBrace ==
    ASSUME NEW s, AnySeq(s), s # <<>>, ~IsBrace(s[Len(s)]), NEW b, IsBrace(b)
    PROVE  Push(s, b) = AllButLast(s)
BY DEF Push, Last, Opening, IsBrace

(* The first n of s are what is left. *)
LeftOf(t, s, n) == AnySeq(t) /\ Len(t) = n /\ \A j \in 1..n : t[j] = s[j]

(* One brace leaves one block fewer. *)
LEMMA PopStep ==
    ASSUME NEW s, NEW t, NEW n \in Nat, LeftOf(t, s, n + 1), ~IsBrace(s[n + 1]), NEW b, IsBrace(b)
    PROVE  LeftOf(Push(t, b), s, n)
<1>1. AnySeq(t) /\ Len(t) = n + 1 /\ \A j \in 1..(n + 1) : t[j] = s[j]
  BY DEF LeftOf
<1>2. t # <<>> /\ n + 1 \in 1..(n + 1)
  BY <1>1, SeqIs
<1>3. ~IsBrace(t[Len(t)])
  BY <1>1, <1>2
<1>4. Push(t, b) = AllButLast(t)
  BY <1>1, <1>2, <1>3, PushBrace
<1>5. /\ AnySeq(AllButLast(t)) /\ Len(AllButLast(t)) = Len(t) - 1
      /\ \A j \in 1..(Len(t) - 1) : AllButLast(t)[j] = t[j]
  BY <1>1, <1>2, SeqShorter
<1>6. \A j \in 1..n : j \in 1..(n + 1)
  OBVIOUS
<1>. QED
  BY <1>1, <1>4, <1>5, <1>6 DEF LeftOf

(* B[n + i] for i from 0 to m. *)
Pops(B, n, m) ==
    /\ n \in Nat /\ m \in Nat /\ AnySeq(B[n]) /\ m <= Len(B[n])
    /\ \A i \in 1..m : \E b : IsBrace(b) /\ B[n + i] = Push(B[n + (i - 1)], b)
    /\ \A i \in 1..m : ~IsBrace(B[n][Len(B[n]) - i + 1])

(* As many braces leave as many fewer. *)
LEMMA PopsDo ==
    ASSUME NEW B, NEW n, NEW m, Pops(B, n, m)
    PROVE  \A i \in 0..m : LeftOf(B[n + i], B[n], Len(B[n]) - i)
<1>. PICK N : N = Len(B[n])
  OBVIOUS
<1>. PICK r : r = B[n]
  OBVIOUS
<1>1. N \in Nat /\ n \in Nat /\ m \in Nat /\ m <= N
  BY SeqIs DEF Pops
<1>2. ASSUME NEW i \in 1..m, NEW t, LeftOf(t, r, N - (i - 1)), NEW b, IsBrace(b)
      PROVE  LeftOf(Push(t, b), r, N - i)
  <2>1. N - i \in Nat /\ (N - i) + 1 = N - (i - 1)
    BY <1>1
  <2>2. ~IsBrace(r[(N - i) + 1])
    BY DEF Pops
  <2>. QED
    BY <1>2, <2>1, <2>2, PopStep
<1>. DEFINE S == {i \in 0..m : LeftOf(B[n + i], r, N - i)}
<1>3. 0 \in S
  <2>1. n + 0 = n /\ N - 0 = N /\ 0 \in 0..m
    BY <1>1
  <2>2. LeftOf(r, r, N)
    BY DEF LeftOf, Pops
  <2>. QED
    BY <2>1, <2>2
<1>4. ASSUME NEW i \in 1..m, i - 1 \in S PROVE i \in S
  <2>1. LeftOf(B[n + (i - 1)], r, N - (i - 1))
    BY <1>4
  <2>2. PICK b : IsBrace(b) /\ B[n + i] = Push(B[n + (i - 1)], b)
    BY DEF Pops
  <2>3. LeftOf(B[n + i], r, N - i)
    BY <1>2, <2>1, <2>2
  <2>4. i \in 0..m
    BY <1>1
  <2>. QED
    BY <2>3, <2>4
<1>5. \A i \in 0..m : i \in S
  <2>. HIDE DEF S
  <2>1. ASSUME NEW i \in 0..m, \A j \in 0..(i - 1) : j \in S PROVE i \in S
    <3>1. i = 0 \/ (i \in 1..m /\ i - 1 \in 0..(i - 1))
      BY <1>1
    <3>. QED
      BY <1>3, <1>4, <2>1, <3>1
  <2>. QED
    BY <1>1, <2>1, Induction
<1>. QED
  BY <1>5

(* A segment of braces, and blocks for them to close.                      *)
Braces(B, o, n, s) ==
    /\ Segment(B, o, n, s) /\ \A i \in 1..Len(s) : IsBrace(s[i])
    /\ AnySeq(B[n]) /\ Len(s) <= Len(B[n])
    /\ \A i \in 1..Len(s) : ~IsBrace(B[n][Len(B[n]) - i + 1])

(* A segment of braces closes as many blocks as it has. *)
LEMMA SegmentBraces ==
    ASSUME NEW B, NEW o, NEW n, NEW s, Braces(B, o, n, s)
    PROVE  \A i \in 0..Len(s) : LeftOf(B[n + i], B[n], Len(B[n]) - i)
<1>0. /\ n \in Nat /\ Len(s) \in Nat
      /\ \A i \in 1..Len(s) : o[n + i] = s[i] /\ B[n + i] = Push(B[n + i - 1], o[n + i])
  BY DEF Segment, Braces
<1>1. ASSUME NEW i \in 1..Len(s) PROVE \E b : IsBrace(b) /\ B[n + i] = Push(B[n + (i - 1)], b)
  <2>1. n + i - 1 = n + (i - 1)
    BY <1>0
  <2>2. IsBrace(o[n + i]) /\ B[n + i] = Push(B[n + i - 1], o[n + i])
    BY <1>0 DEF Braces
  <2>. QED
    BY <2>1, <2>2, Zenon
<1>2. Pops(B, n, Len(s))
  BY <1>0, <1>1 DEF Pops, Braces
<1>. QED
  BY <1>2, PopsDo

(* The stack with one block more. *)
LEMMA PushedBlock ==
    ASSUME NEW s, AnySeq(s), NEW t, NEW i, t \in Opening
    PROVE  LET r == Append(s, [t |-> t, node |-> i])
           IN  /\ AnySeq(r) /\ Len(r) = Len(s) + 1
               /\ \A j \in 1..Len(s) : r[j] = s[j]
               /\ r[Len(s) + 1].t = t /\ r[Len(s) + 1].node = i
<1>. DEFINE b == [t |-> t, node |-> i]
<1>1. b.t = t /\ b.node = i
  OBVIOUS
<1>. HIDE DEF b
<1>2. /\ AnySeq(Append(s, b)) /\ Len(Append(s, b)) = Len(s) + 1
      /\ \A j \in 1..Len(s) : Append(s, b)[j] = s[j]
      /\ Append(s, b)[Len(s) + 1] = b
  BY SeqEnds, ZenonT(40)
<1>. QED
  BY <1>1, <1>2 DEF b

(* The stack with the blocks of an element: as many as it has scopes, and  *)
(* one for its branch.                                                     *)
LEMMA BlocksAdded ==
    ASSUME NEW s, AnySeq(s), NEW e, NEW i, Effective(e) \in {"none", "if", "else-if", "else"},
           OpensSlot(e) <=> Bound(e), NEW w, w = (IF Effective(e) = "none" THEN 0 ELSE 1) + ScopeWidth(e)
    PROVE  /\ AnySeq(Opened(e, s, i)) /\ Len(Opened(e, s, i)) = Len(s) + w
           /\ Len(s) \in Nat /\ w \in Nat
           /\ \A j \in 1..Len(s) : Opened(e, s, i)[j] = s[j]
           /\ \A j \in (Len(s) + 1)..(Len(s) + w) : Opened(e, s, i)[j].t \in Opening /\ Opened(e, s, i)[j].node = i
           /\ Effective(e) # "none" => Opened(e, s, i)[Len(s) + 1].t = Effective(e)
<1>. DEFINE a == BranchBlock(e, s, i)
            b == ForBlock(e, a, i)
            c == SlotBlock(e, b, i)
            N == Len(s)
            wa == IF Effective(e) = "none" THEN 0 ELSE 1
            wb == IF e.for = None THEN 0 ELSE 1
            wc == IF Bound(e) THEN 1 ELSE 0
<1>1. N \in Nat /\ wa \in {0, 1} /\ wb \in {0, 1} /\ wc \in {0, 1} /\ w = wa + wb + wc
  BY SeqIs DEF ScopeWidth
<1>. HIDE DEF N
<1>2. /\ AnySeq(a) /\ Len(a) = N + wa /\ \A j \in 1..N : a[j] = s[j]
      /\ wa = 1 => a[N + 1].t \in Opening /\ a[N + 1].node = i /\ a[N + 1].t = Effective(e)
  <2>1. CASE Effective(e) = "none"
    BY <1>1, <2>1 DEF BranchBlock, N
  <2>2. CASE Effective(e) # "none"
    <3>1. Effective(e) \in Opening
      BY <2>2 DEF Opening
    <3>2. a = Append(s, [t |-> Effective(e), node |-> i])
      BY <2>2 DEF BranchBlock
    <3>3. wa = 1
      BY <2>2
    <3>. HIDE DEF a, wa
    <3>. QED
      BY <3>1, <3>2, <3>3, PushedBlock DEF N
  <2>. QED
    BY <2>1, <2>2
<1>. HIDE DEF a
<1>3. /\ AnySeq(b) /\ Len(b) = Len(a) + wb /\ \A j \in 1..Len(a) : b[j] = a[j]
      /\ wb = 1 => b[Len(a) + 1].t \in Opening /\ b[Len(a) + 1].node = i
  <2>1. CASE e.for = None
    <3>1. b = a /\ wb = 0 /\ Len(a) \in Nat
      BY <1>2, <2>1, SeqIs DEF ForBlock
    <3>. HIDE DEF b, wb
    <3>. QED
      BY <1>2, <3>1
  <2>2. CASE e.for # None
    <3>1. "for" \in Opening
      BY DEF Opening
    <3>2. b = Append(a, [t |-> "for", node |-> i]) /\ wb = 1
      BY <2>2 DEF ForBlock
    <3>. HIDE DEF b, wb
    <3>. QED
      BY <1>2, <3>1, <3>2, PushedBlock
  <2>. QED
    BY <2>1, <2>2
<1>. HIDE DEF b
<1>4. /\ AnySeq(c) /\ Len(c) = Len(b) + wc /\ \A j \in 1..Len(b) : c[j] = b[j]
      /\ wc = 1 => c[Len(b) + 1].t \in Opening /\ c[Len(b) + 1].node = i
  <2>1. CASE ~Bound(e)
    <3>1. c = b /\ wc = 0 /\ Len(b) \in Nat
      BY <1>3, <2>1, SeqIs DEF SlotBlock
    <3>. HIDE DEF c, wc
    <3>. QED
      BY <1>3, <3>1
  <2>2. CASE Bound(e)
    <3>1. "slot" \in Opening
      BY DEF Opening
    <3>2. c = Append(b, [t |-> "slot", node |-> i]) /\ wc = 1
      BY <2>2 DEF SlotBlock
    <3>. HIDE DEF c, wc
    <3>. QED
      BY <1>3, <3>1, <3>2, PushedBlock
  <2>. QED
    BY <2>1, <2>2
<1>5. Opened(e, s, i) = c
  BY DEF Opened, b, a
<1>. HIDE DEF c
<1>6. Effective(e) # "none" <=> wa = 1
  OBVIOUS
<1>. HIDE DEF wa, wb, wc
<1>7. Len(a) = N + wa /\ Len(b) = N + wa + wb /\ Len(c) = N + w
  BY <1>1, <1>2, <1>3, <1>4
<1>8. \A j \in 1..Len(a) : j \in 1..Len(b) /\ c[j] = a[j]
  <2>1. \A j \in 1..Len(a) : j \in 1..Len(b)
    BY <1>1, <1>7
  <2>. QED
    BY <1>3, <1>4, <2>1
<1>9. \A j \in 1..N : c[j] = s[j]
  <2>1. \A j \in 1..N : j \in 1..Len(a)
    BY <1>1, <1>7
  <2>. QED
    BY <1>2, <1>8, <2>1
<1>10. wa = 1 => c[N + 1].t \in Opening /\ c[N + 1].node = i /\ c[N + 1].t = Effective(e)
  <2>1. wa = 1 => N + 1 \in 1..Len(a)
    BY <1>1, <1>7
  <2>. QED
    BY <1>2, <1>8, <2>1
<1>11. wb = 1 => c[N + wa + 1].t \in Opening /\ c[N + wa + 1].node = i
  <2>1. wb = 1 => N + wa + 1 \in 1..Len(b) /\ Len(a) + 1 = N + wa + 1
    BY <1>1, <1>7
  <2>. QED
    BY <1>3, <1>4, <2>1
<1>12. wc = 1 => c[N + wa + wb + 1].t \in Opening /\ c[N + wa + wb + 1].node = i
  <2>1. Len(b) + 1 = N + wa + wb + 1
    BY <1>7
  <2>. QED
    BY <1>4, <2>1
<1>13. ASSUME NEW j \in (N + 1)..(N + w) PROVE c[j].t \in Opening /\ c[j].node = i
  <2>1. \/ wa = 1 /\ j = N + 1
        \/ wb = 1 /\ j = N + wa + 1
        \/ wc = 1 /\ j = N + wa + wb + 1
    BY <1>1
  <2>. QED
    BY <1>10, <1>11, <1>12, <2>1
<1>. QED
  BY <1>1, <1>4, <1>5, <1>6, <1>7, <1>9, <1>10, <1>13 DEF N

-----------------------------------------------------------------------------
(* The open blocks are those of the calls. *)

(* The stack of blocks in the calls: those from c[k - 1] + 1 to c[k] are   *)
(* the ones call k opened, that of its branch first.                       *)
Stack == Blocks[Len(out)]

CallWidth(k) == (IF open[k].branch = "none" THEN 0 ELSE 1) + ScopeWidth(El(k))

IsOpening(b) == b.t \in Opening

BlocksOf(c, k) ==
    /\ c[k] = c[k - 1] + CallWidth(k)
    /\ \A i \in (c[k - 1] + 1)..c[k] : IsOpening(Stack[i]) /\ Stack[i].node = open[k].node
    /\ open[k].branch # "none" => Stack[c[k - 1] + 1].t = open[k].branch

Stacked(c) ==
    /\ c \in [0..Len(open) -> Nat]
    /\ c[0] = 0 /\ c[Len(open)] = Len(Stack)
    /\ \A j, k \in 0..Len(open) : j <= k => c[j] <= c[k]
    /\ \A k \in DOMAIN open : BlocksOf(c, k)

(* A leaf leaves the blocks with their calls. *)
LEMMA StackLeaf ==
    ASSUME WalkTree, NEW n, Grow(n), UNCHANGED open, Stack' = Stack, NEW c, Stacked(c)
    PROVE  Stacked(c)'
<1>1. ASSUME NEW k \in DOMAIN open, BlocksOf(c, k) PROVE BlocksOf(c, k)'
  <2>1. El(k)' = El(k)
    BY FactsStay DEF El
  <2>2. CallWidth(k)' = CallWidth(k)
    BY <2>1 DEF CallWidth
  <2>. QED
    BY <1>1, <2>2 DEF BlocksOf
<1>. QED
  BY <1>1 DEF Stacked

(* A stack whose first n blocks are those of the calls 1..L is theirs.     *)
LEMMA StackOpen ==
    ASSUME WalkTree, WalkTree', AnySeq(out), CtxInv, ~Straying', NEW e, Opens(e), NEW c, Stacked(c)
    PROVE  \E d : Stacked(d)'
<1>. PICK L : L = Len(open)
  OBVIOUS
<1>. PICK i : i = This
  OBVIOUS
<1>. PICK w : w = (IF Effective(e) = "none" THEN 0 ELSE 1) + ScopeWidth(e)
  OBVIOUS
<1>. PICK S : S = Stack
  OBVIOUS
<1>. PICK T : T = Stack'
  OBVIOUS
<1>1. /\ L \in Nat /\ DOMAIN open = 1..L
      /\ Len(open') = L + 1 /\ DOMAIN open' = 1..(L + 1)
      /\ \A k \in 1..L : open'[k] = open[k]
      /\ open'[L + 1].node = i /\ open'[L + 1].branch = Effective(e)
  <2>1. open'[L + 1] = [node |-> i, chain |-> ChainAfter(e), ctx |-> parentCtx, branch |-> Effective(e)]
    BY CallOpened
  <2>2. open'[L + 1].node = i /\ open'[L + 1].branch = Effective(e)
    BY <2>1
  <2>. QED
    BY <2>2, CallOpened
<1>2. /\ c \in [0..L -> Nat] /\ c[0] = 0 /\ c[L] = Len(S)
      /\ \A j, k \in 0..L : j <= k => c[j] <= c[k]
      /\ \A k \in 1..L : BlocksOf(c, k)
  BY <1>1 DEF Stacked
<1>3. Effective(e) \in {"none", "if", "else-if", "else"}
  BY BranchType DEF WalkTree
<1>4. OpensSlot(e) <=> Bound(e)
  BY SlotOpens DEF Opens
<1>5. AnySeq(S)
  BY BlocksAre, SeqIs DEF BlocksSolved, Stack
<1>6. T = Opened(e, S, i)
  <2>1. out' = out \o Written(e)
    BY WrittenIs DEF Opens
  <2>2. Writes(e, i)
    BY <1>3, <2>1 DEF Writes
  <2>3. BlocksOpened(e, i)
    BY <2>2, StackWritten
  <2>. QED
    BY <2>3 DEF Stack, BlocksOpened
<1>7. /\ Len(T) = c[L] + w
      /\ c[L] \in Nat /\ w \in Nat
      /\ \A j \in 1..c[L] : T[j] = S[j]
      /\ \A j \in (c[L] + 1)..(c[L] + w) : IsOpening(T[j]) /\ T[j].node = i
      /\ Effective(e) # "none" => T[c[L] + 1].t = Effective(e)
  BY <1>2, <1>3, <1>4, <1>5, <1>6, BlocksAdded DEF IsOpening
<1>8. PICK d : d = [j \in 0..(L + 1) |-> IF j = L + 1 THEN c[L] + w ELSE c[j]]
  OBVIOUS
<1>9. /\ d \in [0..(L + 1) -> Nat] /\ d[0] = 0 /\ d[L + 1] = c[L] + w
      /\ \A j \in 0..L : d[j] = c[j] /\ c[j] \in Nat /\ c[j] <= c[L]
  <2>1. \A j \in 0..L : c[j] \in Nat /\ c[j] <= c[L]
    BY <1>1, <1>2
  <2>2. c[L] + w \in Nat
    BY <1>7
  <2>3. \A j \in 0..L : j \in 0..(L + 1) /\ j # L + 1
    BY <1>1
  <2>4. 0 \in 0..L /\ L + 1 \in 0..(L + 1)
    BY <1>1
  <2>5. \A j \in 0..(L + 1) : j = L + 1 \/ j \in 0..L
    BY <1>1
  <2>. QED
    BY <1>2, <1>8, <2>1, <2>2, <2>3, <2>4, <2>5
<1>10. ASSUME NEW k \in 1..L PROVE BlocksOf(d, k)'
  <2>1. El(k)' = El(k)
    BY <1>1, FactsStay DEF El, Opens
  <2>2. CallWidth(k)' = CallWidth(k)
    BY <1>1, <2>1 DEF CallWidth
  <2>3. d[k] = c[k] /\ d[k - 1] = c[k - 1] /\ c[k] \in Nat /\ c[k - 1] \in Nat /\ c[k] <= c[L]
    BY <1>1, <1>9
  <2>4. BlocksOf(c, k)
    BY <1>2
  <2>5. \A j \in (c[k - 1] + 1)..c[k] : T[j] = S[j]
    BY <1>7, <2>3
  <2>6. open[k].branch # "none" => c[k - 1] + 1 \in (c[k - 1] + 1)..c[k]
    <3>1. ScopeWidth(El(k)) \in Nat
      BY DEF ScopeWidth
    <3>. QED
      BY <2>3, <2>4, <3>1 DEF BlocksOf, CallWidth
  <2>7. \A j \in (c[k - 1] + 1)..c[k] : IsOpening(T[j]) /\ T[j].node = open[k].node
    BY <2>4, <2>5 DEF BlocksOf
  <2>8. open[k].branch # "none" => T[c[k - 1] + 1].t = open[k].branch
    BY <2>4, <2>5, <2>6 DEF BlocksOf
  <2>9. c[k] = c[k - 1] + CallWidth(k)
    BY <2>4 DEF BlocksOf
  <2>. QED
    BY <1>1, <2>2, <2>3, <2>7, <2>8, <2>9 DEF BlocksOf
<1>11. ASSUME NEW k, k = L + 1 PROVE BlocksOf(d, k)'
  <2>1. El(k)' = e
    <3>1. nodes'[This] = [parent |-> Parent, is |-> e]
      BY Grown DEF WalkTree, TreeInv, Opens
    <3>. QED
      BY <1>1, <1>11, <3>1 DEF El
  <2>2. CallWidth(k)' = w
    BY <1>1, <1>11, <2>1 DEF CallWidth
  <2>3. d[k] = c[L] + w /\ d[k - 1] = c[L]
    BY <1>1, <1>9, <1>11
  <2>. QED
    BY <1>1, <1>7, <1>11, <2>2, <2>3 DEF BlocksOf
<1>12. \A k \in 1..(L + 1) : BlocksOf(d, k)'
  BY <1>1, <1>10, <1>11
<1>13. ASSUME NEW j \in 0..(L + 1), NEW k \in 0..(L + 1), j <= k PROVE d[j] <= d[k]
  <2>1. CASE k \in 0..L
    <3>1. j \in 0..L
      BY <1>1, <1>13, <2>1
    <3>. QED
      BY <1>2, <1>9, <1>13, <2>1, <3>1
  <2>2. CASE k = L + 1
    <3>1. d[k] = c[L] + w /\ (j \in 0..L \/ j = k)
      BY <1>1, <1>9, <2>2
    <3>. QED
      BY <1>7, <1>9, <3>1
  <2>. QED
    BY <1>1, <2>1, <2>2
<1>14. Stacked(d)'
  BY <1>1, <1>7, <1>9, <1>12, <1>13 DEF Stacked
<1>. QED
  BY <1>14

(* As many braces as the element opened blocks. *)
LEMMA ClosesMany ==
    ASSUME NEW e, NEW branch
    PROVE  /\ Len(Closes(e, branch)) = ScopeWidth(e) + (IF branch = "none" THEN 0 ELSE 1)
           /\ AnySeq(Closes(e, branch)) /\ Len(Closes(e, branch)) \in Nat
           /\ \A i \in 1..Len(Closes(e, branch)) : IsBrace(Closes(e, branch)[i])
<1>. DEFINE brace == Token("}")
            one(b) == IF b THEN <<brace>> ELSE <<>>
            x == one(Bound(e))
            y == one(e.for # None)
            z == one(branch # "none")
            s == Closes(e, branch)
<1>1. Closes(e, branch) = x \o y \o z
  BY DEF Closes
<1>. HIDE DEF brace
<1>2. /\ AnySeq(x) /\ Len(x) = IF Bound(e) THEN 1 ELSE 0
      /\ AnySeq(y) /\ Len(y) = IF e.for = None THEN 0 ELSE 1
      /\ AnySeq(z) /\ Len(z) = IF branch = "none" THEN 0 ELSE 1
  <2>1. AnySeq(<<brace>>) /\ Len(<<brace>>) = 1 /\ AnySeq(<<>>) /\ Len(<<>>) = 0
    BY ShortSeqs
  <2>. QED
    BY <2>1
<1>. HIDE DEF x, y, z
<1>3. AnySeq(x \o y) /\ Len(x \o y) = Len(x) + Len(y)
  BY <1>2, SeqConcat
<1>4. Len((x \o y) \o z) = Len(x \o y) + Len(z)
  BY <1>2, <1>3, SeqConcat
<1>5. AnySeq(s) /\ \A t \in Elems(s) : t.t = "}"
  BY ClosesAre
<1>6. Len(s) = ScopeWidth(e) + (IF branch = "none" THEN 0 ELSE 1)
  BY <1>1, <1>2, <1>3, <1>4 DEF ScopeWidth
<1>. HIDE DEF s
<1>7. Len(s) \in Nat /\ DOMAIN s = 1..Len(s)
  BY <1>5, SeqIs
<1>8. \A i \in 1..Len(s) : IsBrace(s[i])
  BY <1>5, <1>7 DEF Elems, IsBrace
<1>. QED
  BY <1>5, <1>6, <1>7, <1>8 DEF s

(* The calls that remain when one ends. *)
LEMMA CallsClose ==
    ASSUME WalkTree, WalkTree', open # <<>>, open' = AllButLast(open), UNCHANGED nodes,
           NEW L, L = Len(open)
    PROVE  /\ L \in Nat \ {0} /\ DOMAIN open = 1..L
           /\ Len(open') = L - 1 /\ DOMAIN open' = 1..(L - 1)
           /\ \A k \in 1..(L - 1) : open'[k] = open[k]
<1>1. WalkTyped /\ WalkTyped' /\ TreeInv
  BY DEF WalkTree, ChainInv
<1>2. L \in Nat /\ DOMAIN open = 1..L
  BY <1>1, NodesAre
<1>3. L # 0
  BY <1>1 DEF WalkTyped
<1>4. /\ Len(open') = L - 1 /\ DOMAIN open' = 1..(L - 1)
      /\ \A k \in DOMAIN open' : open'[k] = open[k]
  BY <1>1, TreeClose
<1>. QED
  BY <1>2, <1>3, <1>4

(* Behind its children the blocks of an element are closed, that of its    *)
(* branch last.                                                            *)
LEMMA StackClose ==
    ASSUME WalkTree, WalkTree', AnySeq(out), CloseElement, NEW c, Stacked(c), NEW L, L = Len(open)
    PROVE  /\ \E d : Stacked(d)'
           /\ open[L].branch # "none" =>
                /\ Len(out') > 0 /\ IsBrace(out'[Len(out')])
                /\ Blocks'[Len(out') - 1] # <<>>
                /\ Last(Blocks'[Len(out') - 1]).t = open[L].branch
                /\ Last(Blocks'[Len(out') - 1]).node = open[L].node
<1>. PICK s : s = Closes(El(L), open[L].branch)
  OBVIOUS
<1>. PICK w : w = CallWidth(L)
  OBVIOUS
<1>. PICK n : n = Len(out)
  OBVIOUS
<1>. PICK S : S = Stack
  OBVIOUS
<1>1. /\ open # <<>> /\ open' = AllButLast(open) /\ UNCHANGED nodes
      /\ out' = out \o s
  BY DEF CloseElement, Last, El
<1>2. /\ L \in Nat \ {0} /\ DOMAIN open = 1..L
      /\ Len(open') = L - 1 /\ DOMAIN open' = 1..(L - 1)
      /\ \A k \in 1..(L - 1) : open'[k] = open[k]
  BY <1>1, CallsClose
<1>3. /\ c \in [0..L -> Nat] /\ c[0] = 0 /\ c[L] = Len(S)
      /\ \A j, k \in 0..L : j <= k => c[j] <= c[k]
      /\ \A k \in 1..L : BlocksOf(c, k)
  BY <1>2 DEF Stacked
<1>4. AnySeq(s) /\ Len(s) = w /\ w \in Nat /\ \A j \in 1..Len(s) : IsBrace(s[j])
  BY ClosesMany DEF CallWidth, ScopeWidth
<1>5. /\ AnySeq(out') /\ Len(out') = n + w /\ n \in Nat
      /\ \A k \in 1..w : out'[n + k] = s[k]
      /\ Blocks'[n] = S /\ AnySeq(S)
      /\ Segment(Blocks', out', n, s)
  <2>1. /\ AnySeq(out') /\ Len(out') = n + w /\ n \in Nat
        /\ \A k \in 1..w : out'[n + k] = s[k]
        /\ \A k \in 0..n : Blocks'[k] = Blocks[k]
        /\ Segment(Blocks', out', n, s)
    BY <1>1, <1>4, TextGrown, ZenonT(40)
  <2>2. n \in 0..n
    BY <2>1
  <2>3. AnySeq(Blocks[n])
    BY <2>2, BlocksAre DEF BlocksSolved
  <2>. QED
    BY <2>1, <2>2, <2>3 DEF Stack
<1>6. /\ c[L] = c[L - 1] + w /\ c[L - 1] \in Nat
      /\ \A j \in (c[L - 1] + 1)..c[L] : IsOpening(S[j]) /\ S[j].node = open[L].node
      /\ open[L].branch # "none" => S[c[L - 1] + 1].t = open[L].branch
  <2>1. L \in 1..L /\ L - 1 \in 0..L
    BY <1>2
  <2>. QED
    BY <1>3, <2>1 DEF BlocksOf
<1>7. ASSUME NEW j \in 1..w PROVE ~IsBrace(S[Len(S) - j + 1])
  <2>1. Len(S) - j + 1 \in (c[L - 1] + 1)..c[L]
    BY <1>3, <1>4, <1>6
  <2>2. IsOpening(S[Len(S) - j + 1])
    BY <1>6, <2>1
  <2>. QED
    BY <2>2 DEF IsOpening, IsBrace, Opening
<1>8. \A j \in 0..w : LeftOf(Blocks'[n + j], S, Len(S) - j)
  <2>1. w <= Len(S)
    BY <1>3, <1>4, <1>6
  <2>2. Braces(Blocks', out', n, s)
    BY <1>4, <1>5, <1>7, <2>1 DEF Braces
  <2>3. \A j \in 0..Len(s) : LeftOf(Blocks'[n + j], Blocks'[n], Len(Blocks'[n]) - j)
    BY <2>2, SegmentBraces
  <2>. QED
    BY <1>4, <1>5, <2>3
<1>9. LeftOf(Stack', S, c[L - 1])
  <2>1. w \in 0..w /\ Len(S) - w = c[L - 1]
    BY <1>3, <1>4, <1>6
  <2>2. Stack' = Blocks'[n + w]
    BY <1>5 DEF Stack
  <2>. QED
    BY <1>8, <2>1, <2>2
<1>10. ASSUME open[L].branch # "none"
       PROVE  /\ Len(out') > 0 /\ IsBrace(out'[Len(out')])
              /\ Blocks'[Len(out') - 1] # <<>>
              /\ Last(Blocks'[Len(out') - 1]).t = open[L].branch
              /\ Last(Blocks'[Len(out') - 1]).node = open[L].node
  <2>. PICK B : B = Blocks'[Len(out') - 1]
    OBVIOUS
  <2>. PICK p : p = c[L - 1] + 1
    OBVIOUS
  <2>1. w >= 1
    <3>1. ScopeWidth(El(L)) \in Nat
      BY DEF ScopeWidth
    <3>. QED
      BY <1>10, <3>1 DEF CallWidth
  <2>2. w - 1 \in 0..w /\ n + w - 1 = n + (w - 1) /\ Len(S) - (w - 1) = p /\ w \in 1..w
    <3>1. w \in Nat /\ n \in Nat /\ c[L - 1] \in Nat /\ Len(S) = c[L - 1] + w
      BY <1>3, <1>4, <1>5, <1>6
    <3>. QED
      BY <2>1, <3>1
  <2>20. Len(out') - 1 = n + (w - 1)
    BY <1>5, <2>2
  <2>3. LeftOf(B, S, p)
    BY <1>8, <2>2, <2>20
  <2>4. p \in 1..p /\ p \in (c[L - 1] + 1)..c[L] /\ p \in Nat
    BY <1>4, <1>6, <2>1
  <2>5. AnySeq(B) /\ Len(B) = p /\ B[p] = S[p]
    BY <2>3, <2>4 DEF LeftOf
  <2>6. B # <<>>
    BY <2>4, <2>5, SeqIs
  <2>7. Last(B) = S[p]
    BY <2>5 DEF Last
  <2>8. S[p].t = open[L].branch /\ S[p].node = open[L].node
    BY <1>6, <1>10, <2>4
  <2>9. Len(out') > 0 /\ IsBrace(out'[Len(out')])
    <3>1. Len(out') = n + w /\ out'[n + w] = s[w] /\ IsBrace(s[w])
      BY <1>4, <1>5, <2>2
    <3>2. n + w > 0
      BY <1>4, <1>5, <2>1
    <3>. QED
      BY <3>1, <3>2
  <2>. QED
    BY <2>6, <2>7, <2>8, <2>9
<1>. PICK d : d = [j \in 0..(L - 1) |-> c[j]]
  OBVIOUS
<1>11. /\ d \in [0..(L - 1) -> Nat] /\ d[0] = 0
       /\ \A j \in 0..(L - 1) : d[j] = c[j] /\ j \in 0..L /\ c[j] \in Nat /\ c[j] <= c[L - 1]
  <2>1. \A j \in 0..(L - 1) : j \in 0..L /\ j <= L - 1
    BY <1>2
  <2>2. 0 \in 0..(L - 1) /\ L - 1 \in 0..L
    BY <1>2
  <2>3. \A j \in 0..(L - 1) : c[j] \in Nat
    BY <1>3, <2>1
  <2>4. \A j \in 0..(L - 1) : c[j] <= c[L - 1]
    BY <1>3, <2>1, <2>2
  <2>5. \A j \in 0..(L - 1) : d[j] = c[j]
    OBVIOUS
  <2>6. d \in [0..(L - 1) -> Nat]
    BY <2>3
  <2>. QED
    BY <1>3, <2>1, <2>2, <2>3, <2>4, <2>5, <2>6
<1>12. AnySeq(Stack') /\ Len(Stack') = c[L - 1] /\ \A j \in 1..c[L - 1] : Stack'[j] = S[j]
  BY <1>9 DEF LeftOf
<1>13. ASSUME NEW k \in 1..(L - 1) PROVE BlocksOf(d, k)'
  <2>1. El(k)' = El(k)
    BY <1>1, <1>2 DEF El
  <2>2. CallWidth(k)' = CallWidth(k)
    BY <1>2, <2>1 DEF CallWidth
  <2>3. d[k] = c[k] /\ d[k - 1] = c[k - 1] /\ c[k] \in Nat /\ c[k - 1] \in Nat /\ c[k] <= c[L - 1]
    <3>1. k \in 0..(L - 1) /\ k - 1 \in 0..(L - 1)
      BY <1>2
    <3>. QED
      BY <1>11, <3>1
  <2>4. BlocksOf(c, k)
    BY <1>2, <1>3
  <2>5. \A j \in (c[k - 1] + 1)..c[k] : Stack'[j] = S[j]
    <3>1. \A j \in (c[k - 1] + 1)..c[k] : j \in 1..c[L - 1]
      BY <1>6, <2>3
    <3>. QED
      BY <1>12, <3>1
  <2>6. open[k].branch # "none" => c[k - 1] + 1 \in (c[k - 1] + 1)..c[k]
    <3>1. ScopeWidth(El(k)) \in Nat
      BY DEF ScopeWidth
    <3>. QED
      BY <2>3, <2>4, <3>1 DEF BlocksOf, CallWidth
  <2>7. \A j \in (c[k - 1] + 1)..c[k] : IsOpening(Stack'[j]) /\ Stack'[j].node = open[k].node
    BY <2>4, <2>5 DEF BlocksOf
  <2>8. open[k].branch # "none" => Stack'[c[k - 1] + 1].t = open[k].branch
    BY <2>4, <2>5, <2>6 DEF BlocksOf
  <2>9. c[k] = c[k - 1] + CallWidth(k)
    BY <2>4 DEF BlocksOf
  <2>. QED
    BY <1>2, <2>2, <2>3, <2>7, <2>8, <2>9 DEF BlocksOf
<1>14. \A j, k \in 0..(L - 1) : j <= k => d[j] <= d[k]
  BY <1>3, <1>11
<1>15. d[L - 1] = Len(Stack')
  <2>1. L - 1 \in 0..(L - 1)
    BY <1>2
  <2>. QED
    BY <1>11, <1>12, <2>1
<1>16. Stacked(d)'
  BY <1>2, <1>11, <1>13, <1>14, <1>15 DEF Stacked
<1>. QED
  BY <1>10, <1>16

(* The blocks that are open belong to calls under way.                     *)
LEMMA StackThere ==
    ASSUME WalkTree, AnySeq(out), NEW c, Stacked(c), NEW i \in DOMAIN Stack
    PROVE  IsOpening(Stack[i]) /\ \E k \in DOMAIN open : Stack[i].node = open[k].node
<1>. PICK L : L = Len(open)
  OBVIOUS
<1>1. L \in Nat /\ DOMAIN open = 1..L
  BY NodesAre DEF WalkTree, TreeInv
<1>2. /\ c \in [0..L -> Nat]
      /\ c[0] = 0 /\ c[L] = Len(Stack)
      /\ \A k \in 1..L : BlocksOf(c, k)
  BY <1>1 DEF Stacked
<1>3. i \in 1..Len(Stack)
  <2>1. AnySeq(Stack)
    BY BlocksAre, SeqIs DEF BlocksSolved, Stack
  <2>. QED
    BY <2>1, SeqIs
<1>. DEFINE S == {k \in 0..L : i <= c[k]}
<1>4. S \in SUBSET Nat /\ L \in S
  BY <1>1, <1>2, <1>3
<1>5. PICK k \in S : \A j \in S : k <= j
  <2>. HIDE DEF S
  <2>. QED
    BY <1>4, LeastNat
<1>6. k # 0
  BY <1>2, <1>3, <1>5
<1>7. k \in 1..L /\ k - 1 \in 0..L /\ k - 1 \notin S
  BY <1>1, <1>5, <1>6
<1>8. i \in (c[k - 1] + 1)..c[k]
  BY <1>1, <1>2, <1>3, <1>5, <1>7
<1>9. IsOpening(Stack[i]) /\ Stack[i].node = open[k].node
  BY <1>2, <1>7, <1>8 DEF BlocksOf
<1>. QED
  BY <1>1, <1>7, <1>9

(* Growth leaves the elements before others as they were.                  *)
LEMMA BeforeStays ==
    ASSUME WalkTree, NEW n, Grow(n), NEW i \in Nodes
    PROVE  ElementBefore(i)' = ElementBefore(i)
<1>1. /\ \A j \in Nodes : nodes'[j] = nodes[j]
      /\ Nodes' = Nodes \cup {This}
      /\ Nodes = 1..Len(nodes) /\ Len(nodes) \in Nat /\ This = Len(nodes) + 1
  BY NodesAre, Grown DEF WalkTree, TreeInv
<1>2. \A j : j \in Elements' /\ j < i <=> j \in Elements /\ j < i
  BY <1>1 DEF Elements
<1>3. \A j \in Elements : j \in Nodes
  BY DEF Elements
<1>4. {j \in Elements' : j < i /\ nodes'[j].parent = nodes'[i].parent}
        = {j \in Elements : j < i /\ nodes[j].parent = nodes[i].parent}
  BY <1>1, <1>2, <1>3
<1>. DEFINE S == {j \in Elements' : j < i /\ nodes'[j].parent = nodes'[i].parent}
            T == {j \in Elements : j < i /\ nodes[j].parent = nodes[i].parent}
<1>5. ElementBefore(i)' = IF S = {} THEN 0 ELSE CHOOSE j \in S : \A k \in S : k <= j
  BY DEF ElementBefore
<1>6. ElementBefore(i) = IF T = {} THEN 0 ELSE CHOOSE j \in T : \A k \in T : k <= j
  BY DEF ElementBefore
<1>7. S = T
  BY <1>4
<1>. HIDE DEF S, T
<1>. QED
  BY <1>5, <1>6, <1>7

(* The last element so far beside the next node, or 0.                     *)
Sibling(b) ==
    /\ b \in Elements \cup {0}
    /\ b # 0 => nodes[b].parent = Parent
    /\ \A j \in Elements : nodes[j].parent = Parent => j <= b

(* There always is one, if only 0. *)
LEMMA SiblingExists ==
    ASSUME WalkTree
    PROVE  \E b : Sibling(b)
<1>. DEFINE S == {m \in Nat : \A j \in Elements : nodes[j].parent = Parent => j <= m}
<1>1. /\ Nodes = 1..Len(nodes) /\ Len(nodes) \in Nat
  BY NodesAre DEF WalkTree, TreeInv
<1>2. Elements \subseteq 1..Len(nodes)
  BY <1>1 DEF Elements
<1>3. S \in SUBSET Nat /\ Len(nodes) \in S
  BY <1>1, <1>2
<1>4. PICK b \in S : \A m \in S : b <= m
  <2>. HIDE DEF S
  <2>. QED
    BY <1>3, LeastNat
<1>5. CASE b = 0
  BY <1>4, <1>5 DEF Sibling
<1>6. CASE b # 0
  <2>1. b - 1 \in Nat /\ b - 1 \notin S
    BY <1>4, <1>6
  <2>2. PICK j \in Elements : nodes[j].parent = Parent /\ ~(j <= b - 1)
    BY <2>1
  <2>3. j = b
    BY <1>2, <1>4, <2>1, <2>2
  <2>. QED
    BY <1>4, <2>2, <2>3 DEF Sibling
<1>. QED
  BY <1>5, <1>6

(* It is the element before the next node. *)
LEMMA SiblingIsBefore ==
    ASSUME WalkTree, NEW n, Grow(n), NEW i, i = This, NEW b, Sibling(b)
    PROVE  ElementBefore(i)' = b
<1>1. /\ \A j \in Nodes : nodes'[j] = nodes[j]
      /\ nodes'[i].parent = Parent
      /\ Nodes' = Nodes \cup {i}
      /\ Nodes = 1..Len(nodes) /\ Len(nodes) \in Nat /\ i = Len(nodes) + 1
  <2>1. nodes'[This] = [parent |-> Parent, is |-> n]
    BY Grown DEF WalkTree, TreeInv
  <2>. QED
    BY <2>1, NodesAre, Grown DEF WalkTree, TreeInv
<1>. DEFINE S == {j \in Elements' : j < i /\ nodes'[j].parent = nodes'[i].parent}
<1>2. \A j : j \in Elements' /\ j < i <=> j \in Elements
  BY <1>1 DEF Elements
<1>3. \A j \in Elements : j \in Nodes /\ j # 0
  BY <1>1 DEF Elements
<1>4. S = {j \in Elements : nodes[j].parent = Parent}
  BY <1>1, <1>2, <1>3
<1>5. ElementBefore(i)' = IF S = {} THEN 0 ELSE CHOOSE j \in S : \A k \in S : k <= j
  BY DEF ElementBefore
<1>. HIDE DEF S
<1>6. \A j \in S : j \in 1..Len(nodes) /\ j <= b
  BY <1>1, <1>3, <1>4 DEF Sibling
<1>7. CASE b = 0
  <2>1. S = {}
    BY <1>1, <1>6, <1>7
  <2>. QED
    BY <1>5, <1>7, <2>1
<1>8. CASE b # 0
  <2>1. b \in S /\ b \in 1..Len(nodes)
    BY <1>4, <1>6, <1>8 DEF Sibling
  <2>2. \A j \in S : (\A k \in S : k <= j) => j = b
    BY <1>1, <1>6, <2>1
  <2>3. (CHOOSE j \in S : \A k \in S : k <= j) = b
    BY <1>6, <2>1, <2>2
  <2>. QED
    BY <1>5, <2>1, <2>3
<1>. QED
  BY <1>7, <1>8

-----------------------------------------------------------------------------
(* An else behind the if it belongs to. *)

IsElse(b) == b.t \in {"else-if", "else"}
IsIf(b) == b.t \in {"if", "else-if"}

(* The block before an else is that of the element before.                 *)
ClosedBefore(k, b) ==
    /\ k > 0 /\ IsBrace(out[k])
    /\ Blocks[k - 1] # <<>>
    /\ IsIf(Last(Blocks[k - 1])) /\ Last(Blocks[k - 1]).node = b

ElseOk(k) == IsElse(out[k]) => ClosedBefore(k - 1, ElementBefore(out[k].node))
ElseNodes == \A k \in DOMAIN out : IsElse(out[k]) => out[k].node \in Nodes

(* ElseBehindIf, token by token. *)
LEMMA ElseBehindIfIs ==
    ASSUME AnySeq(out)
    PROVE  ElseBehindIf <=> \A k \in DOMAIN out : ElseOk(k)
<1>1. Len(out) \in Nat /\ DOMAIN out = 1..Len(out)
  BY SeqIs
<1>2. \A k \in DOMAIN out : k \in Nat /\ (k > 1 <=> k - 1 > 0) /\ (k - 1) - 1 = k - 2
  BY <1>1
<1>. QED
  BY <1>2 DEF ElseBehindIf, ElseOk, ClosedBefore, IsElse, IsBrace, IsIf, Tokens

(* What is written later does not change what was closed. *)
LEMMA ClosedStays ==
    ASSUME AnySeq(out), \A j \in 1..Len(out) : out'[j] = out[j],
           \A j \in 0..Len(out) : Blocks'[j] = Blocks[j],
           NEW k \in 0..Len(out), NEW b, ClosedBefore(k, b)
    PROVE  ClosedBefore(k, b)'
<1>1. Len(out) \in Nat
  BY SeqIs
<1>2. k \in 1..Len(out) /\ k - 1 \in 0..Len(out)
  BY <1>1 DEF ClosedBefore
<1>3. out'[k] = out[k] /\ Blocks'[k - 1] = Blocks[k - 1]
  BY <1>2
<1>. QED
  BY <1>3 DEF ClosedBefore

(* An else that stands behind its if goes on doing so. *)
LEMMA ElseStays ==
    ASSUME AnySeq(out), \A j \in 1..Len(out) : out'[j] = out[j],
           \A j \in 0..Len(out) : Blocks'[j] = Blocks[j],
           \A i \in Nodes : ElementBefore(i)' = ElementBefore(i),
           ElseNodes, NEW k \in DOMAIN out, ElseOk(k)
    PROVE  ElseOk(k)'
<1>1. Len(out) \in Nat /\ DOMAIN out = 1..Len(out)
  BY SeqIs
<1>2. out'[k] = out[k] /\ k - 1 \in 0..Len(out)
  BY <1>1
<1>3. CASE ~IsElse(out[k])
  BY <1>2, <1>3 DEF ElseOk
<1>4. CASE IsElse(out[k])
  <2>1. out[k].node \in Nodes
    BY <1>4 DEF ElseNodes
  <2>. PICK b : b = ElementBefore(out[k].node)
    OBVIOUS
  <2>2. ClosedBefore(k - 1, b)
    BY <1>4 DEF ElseOk
  <2>3. ClosedBefore(k - 1, b)'
    BY <1>2, <2>2, ClosedStays
  <2>4. ElementBefore(out[k].node)' = b
    BY <1>2, <2>1
  <2>. QED
    BY <2>3, <2>4 DEF ElseOk
<1>. QED
  BY <1>3, <1>4

TextSince(b) ==
    \E j \in Nodes : nodes[j].is.kind = "interpolation" /\ nodes[j].parent = Parent /\ b < j

(* Text between branches stays there. *)
LEMMA TextStays ==
    ASSUME WalkTree, NEW n, Grow(n), TextBetweenBranches
    PROVE  TextBetweenBranches'
<1>1. /\ \A j \in Nodes : nodes'[j] = nodes[j]
      /\ Nodes' = Nodes \cup {This}
  BY NodesAre, Grown DEF WalkTree, TreeInv
<1>2. PICK i \in Elements :
        /\ FirstDirective(nodes[i].is) \in {"else-if", "else"}
        /\ \E j \in Nodes : /\ nodes[j].is.kind = "interpolation"
                            /\ nodes[j].parent = nodes[i].parent
                            /\ ElementBefore(i) < j /\ j < i
  BY DEF TextBetweenBranches
<1>3. PICK j \in Nodes : /\ nodes[j].is.kind = "interpolation"
                         /\ nodes[j].parent = nodes[i].parent
                         /\ ElementBefore(i) < j /\ j < i
  BY <1>2
<1>4. i \in Nodes /\ i \in Elements' /\ nodes'[i] = nodes[i] /\ nodes'[j] = nodes[j] /\ j \in Nodes'
  BY <1>1 DEF Elements
<1>5. ElementBefore(i)' = ElementBefore(i)
  BY <1>4, BeforeStays
<1>6. FirstDirective(nodes'[i].is) \in {"else-if", "else"}
  BY <1>2, <1>4
<1>. QED
  BY <1>3, <1>4, <1>5, <1>6 DEF TextBetweenBranches

(* Text written since a branch is text before the next one.                *)
LEMMA TextBefore ==
    ASSUME WalkTree, NEW e, e.kind = "element", Grow(e), FirstDirective(e) \in {"else-if", "else"},
           NEW b, Sibling(b), TextSince(b)
    PROVE  TextBetweenBranches'
<1>. PICK i : i = This
  OBVIOUS
<1>1. /\ \A j \in Nodes : nodes'[j] = nodes[j]
      /\ nodes'[i].parent = Parent /\ nodes'[i].is = e
      /\ Nodes' = Nodes \cup {i}
      /\ Nodes = 1..Len(nodes) /\ Len(nodes) \in Nat /\ i = Len(nodes) + 1
  <2>1. nodes'[This] = [parent |-> Parent, is |-> e]
    BY Grown DEF WalkTree, TreeInv
  <2>. QED
    BY <2>1, NodesAre, Grown DEF WalkTree, TreeInv
<1>2. PICK j \in Nodes : nodes[j].is.kind = "interpolation" /\ nodes[j].parent = Parent /\ b < j
  BY DEF TextSince
<1>3. ElementBefore(i)' = b
  BY SiblingIsBefore
<1>4. i \in Elements'
  BY <1>1 DEF Elements
<1>5. j \in Nodes' /\ nodes'[j] = nodes[j] /\ j < i
  BY <1>1
<1>. QED
  BY <1>1, <1>2, <1>3, <1>4, <1>5 DEF TextBetweenBranches

(* A chain that goes on behind an element goes on from its branch.         *)
GoesOnFromBranch(call) == call.chain = "valid" => call.branch \in {"if", "else-if"}
BranchesGoOn == \A k \in DOMAIN open : GoesOnFromBranch(open[k])

(* Nodes behind one under way are inside it.                               *)
InsideLast ==
    \A k \in DOMAIN open : \A j \in Nodes : j > open[k].node => nodes[j].parent >= open[k].node

(* While a chain goes on, the text ends with the block of its last branch, *)
(* unless text was written since.                                          *)
ChainClosed ==
    condChain = "valid" => \A b : Sibling(b) => ClosedBefore(Len(out), b) \/ TextSince(b)

BlocksInv ==
    /\ BranchesGoOn /\ InsideLast /\ ElseNodes
    /\ Straying \/ /\ \E c : Stacked(c)
                   /\ (\A k \in DOMAIN out : ElseOk(k)) \/ TextBetweenBranches
                   /\ ChainClosed

(* The node visited next is inside every call, so that the nodes behind an *)
(* element under way stay inside it.                                       *)
LEMMA InsideLastGrows ==
    ASSUME WalkTree, InsideLast, NEW n, Grow(n),
           \A k \in DOMAIN open' : open'[k].node = This \/ (k \in DOMAIN open /\ open'[k] = open[k])
    PROVE  InsideLast'
<1>. PICK i : i = This
  OBVIOUS
<1>1. /\ \A j \in Nodes : nodes'[j] = nodes[j]
      /\ nodes'[i].parent = Parent
      /\ Nodes' = Nodes \cup {i}
      /\ Nodes = 1..Len(nodes) /\ Len(nodes) \in Nat /\ i = Len(nodes) + 1
  <2>1. nodes'[This] = [parent |-> Parent, is |-> n]
    BY Grown DEF WalkTree, TreeInv
  <2>. QED
    BY <2>1, NodesAre, Grown DEF WalkTree, TreeInv
<1>2. ASSUME NEW k \in DOMAIN open', NEW j \in Nodes', j > open'[k].node
      PROVE  nodes'[j].parent >= open'[k].node
  <2>1. CASE open'[k].node = i
    <3>1. j \in 1..i
      BY <1>1
    <3>. QED
      BY <1>1, <1>2, <2>1, <3>1
  <2>2. CASE k \in DOMAIN open /\ open'[k] = open[k]
    <3>1. CASE j = i
      <4>1. open[k].node <= Parent /\ Parent \in Nat /\ open[k].node \in 1..Len(nodes)
        BY <1>1, <2>2, ParentIs DEF WalkTree, TreeInv, Elements
      <4>. QED
        BY <1>1, <2>2, <3>1, <4>1
    <3>2. CASE j # i
      BY <1>1, <1>2, <2>2, <3>2 DEF InsideLast
    <3>. QED
      BY <3>1, <3>2
  <2>. QED
    BY <2>1, <2>2
<1>. QED
  BY <1>2 DEF InsideLast

(* Of an effective directive the chain goes on from this element.          *)
LEMMA GoesOn ==
    ASSUME ChainInv, NEW e \in UNION Catalogues, e.kind = "element"
    PROVE  ChainAfter(e) = "valid" => Effective(e) \in {"if", "else-if"}
<1>1. FirstDirective(e) \in {"none", "if", "else-if", "else"}
  BY CataloguesAssumption DEF FirstDirective
<1>2. condChain \in {"none", "valid", "broken"}
  BY DEF ChainInv, WalkTyped, Chains
<1>3. CASE FirstDirective(e) = "none"
  BY <1>3 DEF ChainAfter
<1>4. CASE FirstDirective(e) = "if"
  BY <1>4 DEF Effective
<1>5. CASE FirstDirective(e) = "else-if"
  <2>1. ChainAfter(e) = IF condChain = "none" THEN "broken" ELSE condChain
    BY <1>2, <1>5 DEF ChainAfter
  <2>. QED
    BY <1>5, <2>1 DEF Effective
<1>6. CASE FirstDirective(e) = "else"
  <2>1. ChainAfter(e) # "valid"
    BY <1>2, <1>6 DEF ChainAfter
  <2>. QED
    BY <2>1
<1>. QED
  BY <1>1, <1>3, <1>4, <1>5, <1>6

(* What a leaf writes: nothing, or text that opens and closes nothing.     *)
LeafText(s) == AnySeq(s) /\ Quiet(s) /\ \A k \in 1..Len(s) : s[k].t # "guards"

(* The text of an interpolation is no block. *)
LEMMA TextIsNeutral == Neutral(Token("text")) /\ Token("text").t # "guards"
BY DEF Token, Neutral, Opening

(* What leaves do to calls, chain and text. *)
LEMMA LeafIs ==
    ASSUME AnySeq(out), VisitComment \/ VisitText \/ VisitInterpolation
    PROVE  \E n \in catalogue :
             /\ Grow(n) /\ n.kind # "element"
             /\ UNCHANGED <<open, condChain>>
             /\ \/ n.kind = "interpolation" /\ \E s : LeafText(s) /\ out' = out \o s
                \/ out' = out
<1>1. CASE VisitComment \/ VisitText
  BY <1>1 DEF VisitComment, VisitText
<1>2. CASE VisitInterpolation
  <2>1. PICK n \in catalogue :
          /\ n.kind = "interpolation" /\ Grow(n)
          /\ out' = out \o <<Token("text")>> \o MapExpression(n.code, scopes, This, "text")
    BY <1>2 DEF VisitInterpolation
  <2>2. UNCHANGED <<open, condChain>>
    BY <1>2 DEF VisitInterpolation
  <2>. DEFINE head == <<Token("text")>>
              use == MapExpression(n.code, scopes, This, "text")
              s == head \o use
  <2>3. AnySeq(head) /\ \A t \in Elems(head) : Neutral(t) /\ t.t # "guards"
    BY ShortSeqs, TextIsNeutral
  <2>4. AnySeq(use) /\ \A t \in Elems(use) : Neutral(t) /\ t.t # "guards"
    <3>1. IsCode(use)
      BY ExpressionIsCode DEF Parts
    <3>. HIDE DEF use
    <3>. QED
      BY <3>1 DEF IsCode, Neutral, Opening
  <2>. HIDE DEF head, use
  <2>5. AnySeq(s) /\ \A t \in Elems(s) : Neutral(t) /\ t.t # "guards"
    BY <2>3, <2>4, SeqConcat
  <2>6. out' = out \o s
    BY <2>1, <2>3, <2>4, SeqAssociative DEF head, use
  <2>. HIDE DEF s
  <2>7. LeafText(s)
    BY <2>5, SeqIs DEF LeafText, Elems, Quiet
  <2>. QED
    BY <2>1, <2>2, <2>6, <2>7
<1>. QED
  BY <1>1, <1>2

(* Leaves leave the stack, and what they write closes nothing.             *)
LEMMA LeafStack ==
    ASSUME AnySeq(out), (\E s : LeafText(s) /\ out' = out \o s) \/ out' = out
    PROVE  /\ AnySeq(out') /\ Len(out) \in Nat /\ Len(out') \in Nat /\ Len(out) <= Len(out')
           /\ \A k \in 1..Len(out) : out'[k] = out[k]
           /\ \A k \in 0..Len(out) : Blocks'[k] = Blocks[k]
           /\ Stack' = Stack
           /\ \A k \in (Len(out) + 1)..Len(out') : ~IsElse(out'[k])
<1>1. CASE out' = out
  <2>1. Blocks' = Blocks /\ Len(out) \in Nat
    BY <1>1, SeqIs DEF Blocks
  <2>. QED
    BY <1>1, <2>1 DEF Stack
<1>2. ASSUME NEW s, LeafText(s), out' = out \o s
      PROVE  /\ AnySeq(out') /\ Len(out) \in Nat /\ Len(out') \in Nat /\ Len(out) <= Len(out')
             /\ \A k \in 1..Len(out) : out'[k] = out[k]
             /\ \A k \in 0..Len(out) : Blocks'[k] = Blocks[k]
             /\ Stack' = Stack
             /\ \A k \in (Len(out) + 1)..Len(out') : ~IsElse(out'[k])
  <2>. PICK n : n = Len(out)
    OBVIOUS
  <2>. PICK m : m = Len(s)
    OBVIOUS
  <2>1. AnySeq(s) /\ Quiet(s) /\ \A k \in 1..m : Neutral(s[k])
    BY <1>2 DEF LeafText, Quiet
  <2>2. /\ AnySeq(out') /\ Len(out') = n + m /\ n \in Nat /\ m \in Nat
        /\ \A k \in 1..n : out'[k] = out[k]
        /\ \A k \in 0..n : Blocks'[k] = Blocks[k]
        /\ \A k \in 1..m : out'[n + k] = s[k]
        /\ Segment(Blocks', out', n, s)
    BY <1>2, <2>1, TextGrown
  <2>3. Blocks'[n + m] = Blocks'[n]
    <3>1. AnySeq(s) /\ Segment(Blocks', out', n, s) /\ Quiet(s)
      BY <2>1, <2>2
    <3>2. Blocks'[n + Len(s)] = Blocks'[n]
      BY <2>2, <3>1, SegmentNeutral
    <3>. QED
      BY <3>2, Zenon
  <2>4. Blocks'[n] = Blocks[n]
    BY <2>2
  <2>5. Stack' = Stack
    BY <2>2, <2>3, <2>4 DEF Stack
  <2>6. ASSUME NEW k \in (n + 1)..(n + m) PROVE ~IsElse(out'[k])
    <3>. PICK j : j = k - n
      OBVIOUS
    <3>1. j \in 1..m /\ n + j = k
      BY <2>2
    <3>2. out'[k] = s[j] /\ Neutral(s[j])
      BY <2>1, <2>2, <3>1
    <3>. QED
      BY <3>2 DEF Neutral, Opening, IsElse
  <2>7. n + m \in Nat /\ n <= n + m
    BY <2>2
  <2>. QED
    BY <2>2, <2>5, <2>6, <2>7
<1>. QED
  BY <1>1, <1>2

(* The text grows at its end, and so do the blocks.                        *)
TextGrows ==
    /\ AnySeq(out) /\ AnySeq(out')
    /\ Len(out) \in Nat /\ Len(out') \in Nat /\ Len(out) <= Len(out')
    /\ \A k \in 1..Len(out) : out'[k] = out[k]
    /\ \A k \in 0..Len(out) : Blocks'[k] = Blocks[k]

(* Nodes are added at most, and none becomes the element before an old one. *)
NodesGrow ==
    /\ Nodes \subseteq Nodes'
    /\ \A i \in Nodes : nodes'[i] = nodes[i] /\ ElementBefore(i)' = ElementBefore(i)

NewTokens == (Len(out) + 1)..Len(out')

(* The else tokens are of nodes if the new ones are. *)
LEMMA ElseNodesStay ==
    ASSUME TextGrows, NodesGrow, ElseNodes,
           \A k \in NewTokens : IsElse(out'[k]) => out'[k].node \in Nodes'
    PROVE  ElseNodes'
<1>1. ASSUME NEW k \in DOMAIN out', IsElse(out'[k]) PROVE out'[k].node \in Nodes'
  <2>1. k \in 1..Len(out')
    BY SeqIs DEF TextGrows
  <2>2. CASE k \in 1..Len(out)
    <3>1. k \in DOMAIN out /\ out'[k] = out[k]
      BY <2>2, SeqIs DEF TextGrows
    <3>. QED
      BY <1>1, <3>1 DEF ElseNodes, NodesGrow
  <2>3. CASE k \in NewTokens
    BY <1>1, <2>3
  <2>. QED
    BY <2>1, <2>2, <2>3 DEF NewTokens, TextGrows
<1>. QED
  BY <1>1 DEF ElseNodes

(* They stand behind their ifs if the new ones do. *)
LEMMA ElsesStay ==
    ASSUME TextGrows, NodesGrow, ElseNodes, \A k \in DOMAIN out : ElseOk(k),
           \A k \in NewTokens : ElseOk(k)'
    PROVE  \A k \in DOMAIN out' : ElseOk(k)'
<1>1. ASSUME NEW k \in DOMAIN out' PROVE ElseOk(k)'
  <2>1. k \in 1..Len(out')
    BY SeqIs DEF TextGrows
  <2>2. CASE k \in 1..Len(out)
    <3>1. k \in DOMAIN out
      BY <2>2, SeqIs DEF TextGrows
    <3>2. ElseOk(k)
      BY <3>1
    <3>. QED
      BY <3>1, <3>2, ElseStays DEF TextGrows, NodesGrow
  <2>3. CASE k \in NewTokens
    BY <2>3
  <2>. QED
    BY <2>1, <2>2, <2>3 DEF NewTokens, TextGrows
<1>. QED
  BY <1>1

(* A visit adds a node, and an element if it is one. *)
LEMMA NodesGrowOne ==
    ASSUME WalkTree, NEW n, Grow(n)
    PROVE  /\ NodesGrow /\ Nodes' = Nodes \cup {This} /\ This \in Nat /\ This \notin Nodes
           /\ nodes'[This] = [parent |-> Parent, is |-> n]
           /\ Elements' = IF n.kind = "element" THEN Elements \cup {This} ELSE Elements
<1>1. /\ \A j \in Nodes : nodes'[j] = nodes[j]
      /\ nodes'[This] = [parent |-> Parent, is |-> n]
      /\ Nodes' = Nodes \cup {This} /\ This \in Nat /\ This \notin Nodes
  BY NodesAre, Grown DEF WalkTree, TreeInv
<1>2. nodes'[This].is = n
  BY <1>1
<1>3. Elements' = IF n.kind = "element" THEN Elements \cup {This} ELSE Elements
  BY <1>1, <1>2 DEF Elements
<1>. QED
  BY <1>1, <1>3, BeforeStays DEF NodesGrow

(* A leaf leaves the chain, and the text behind it if it writes some.      *)
LEMMA ChainLeaf ==
    ASSUME WalkTree, NEW n, Grow(n), n.kind # "element", UNCHANGED <<open, condChain>>,
           TextGrows, n.kind = "interpolation" \/ out' = out, ChainClosed
    PROVE  ChainClosed'
<1>1. /\ NodesGrow /\ Nodes' = Nodes \cup {This} /\ Elements' = Elements
      /\ nodes'[This] = [parent |-> Parent, is |-> n]
      /\ Nodes = 1..Len(nodes) /\ Len(nodes) \in Nat /\ This = Len(nodes) + 1
  BY NodesGrowOne, NodesAre, Grown DEF WalkTree, TreeInv
<1>2. Parent' = Parent
  BY DEF Parent, Last
<1>3. \A b \in Elements : b \in Nodes /\ nodes'[b] = nodes[b]
  BY <1>1 DEF Elements, NodesGrow
<1>4. ASSUME condChain' = "valid", NEW b, Sibling(b)'
      PROVE  ClosedBefore(Len(out), b)' \/ TextSince(b)'
  <2>1. Sibling(b)
    BY <1>1, <1>2, <1>3, <1>4 DEF Sibling
  <2>2. CASE n.kind = "interpolation"
    <3>1. This \in Nodes' /\ nodes'[This].is.kind = "interpolation" /\ nodes'[This].parent = Parent'
      BY <1>1, <1>2, <2>2
    <3>2. b < This
      BY <1>1, <2>1 DEF Sibling, Elements
    <3>. QED
      BY <3>1, <3>2 DEF TextSince
  <2>3. CASE out' = out
    <3>1. ClosedBefore(Len(out), b) \/ TextSince(b)
      BY <1>4, <2>1 DEF ChainClosed
    <3>2. CASE TextSince(b)
      <4>1. \A j \in Nodes : j \in Nodes' /\ nodes'[j] = nodes[j]
        BY <1>1 DEF NodesGrow
      <4>. QED
        BY <1>2, <3>2, <4>1 DEF TextSince
    <3>3. CASE ClosedBefore(Len(out), b)
      <4>1. Blocks' = Blocks
        BY <2>3 DEF Blocks
      <4>2. ClosedBefore(Len(out), b)' <=> ClosedBefore(Len(out), b)
        BY <2>3, <4>1 DEF ClosedBefore
      <4>. QED
        BY <3>3, <4>2
    <3>. QED
      BY <3>1, <3>2, <3>3
  <2>. QED
    BY <2>2, <2>3
<1>. QED
  BY <1>4 DEF ChainClosed

(* Comments, texts and interpolations keep the blocks. *)
LEMMA BlocksLeaf ==
    ASSUME WalkTree, WalkTree', BareInv, BlocksInv, VisitComment \/ VisitText \/ VisitInterpolation
    PROVE  BlocksInv'
<1>1. AnySeq(out)
  BY DEF BareInv, UsesInv
<1>2. PICK n \in catalogue :
        /\ Grow(n) /\ n.kind # "element"
        /\ UNCHANGED <<open, condChain>>
        /\ \/ n.kind = "interpolation" /\ \E s : LeafText(s) /\ out' = out \o s
           \/ out' = out
  BY <1>1, LeafIs
<1>3. /\ TextGrows /\ Stack' = Stack
      /\ \A k \in NewTokens : ~IsElse(out'[k])
  BY <1>1, <1>2, LeafStack DEF TextGrows, NewTokens
<1>4. NodesGrow
  BY <1>2, NodesGrowOne
<1>5. BranchesGoOn'
  BY <1>2 DEF BlocksInv, BranchesGoOn, GoesOnFromBranch
<1>6. InsideLast'
  BY <1>2, InsideLastGrows DEF BlocksInv
<1>7. ElseNodes'
  BY <1>3, <1>4, ElseNodesStay DEF BlocksInv
<1>8. ASSUME ~Straying'
      PROVE  /\ \E c : Stacked(c)'
             /\ (\A k \in DOMAIN out' : ElseOk(k)') \/ TextBetweenBranches'
             /\ ChainClosed'
  <2>1. ~Straying
    BY <1>2, <1>8, FactsStay
  <2>2. /\ \E c : Stacked(c)
        /\ (\A k \in DOMAIN out : ElseOk(k)) \/ TextBetweenBranches
        /\ ChainClosed /\ ElseNodes
    BY <2>1 DEF BlocksInv
  <2>3. \E c : Stacked(c)'
    BY <1>2, <1>3, <2>2, StackLeaf
  <2>4. (\A k \in DOMAIN out' : ElseOk(k)') \/ TextBetweenBranches'
    <3>1. \A k \in NewTokens : ElseOk(k)'
      BY <1>3 DEF ElseOk
    <3>. QED
      BY <1>2, <1>3, <1>4, <2>2, <3>1, ElsesStay, TextStays
  <2>5. ChainClosed'
    BY <1>2, <1>3, <2>2, ChainLeaf
  <2>. QED
    BY <2>3, <2>4, <2>5
<1>. QED
  BY <1>5, <1>6, <1>7, <1>8 DEF BlocksInv

(* An else written now stands behind the branch before, but for text.      *)
LEMMA NewElse ==
    ASSUME WalkTree, NEW e, Opens(e), TextGrows, NEW i, i = This, BlocksOpened(e, i), ChainClosed,
           NEW k \in NewTokens, IsElse(out'[k])
    PROVE  ElseOk(k)' \/ TextBetweenBranches'
<1>1. k = Len(out) + 1 /\ out'[k] = [t |-> Effective(e), node |-> i]
  BY DEF BlocksOpened, IsElse, NewTokens
<1>2. IsElse(out'[k]) /\ out'[k].t = Effective(e) /\ out'[k].node = i
  BY <1>1
<1>3. Effective(e) \in {"else-if", "else"}
  BY <1>2 DEF IsElse
<1>4. FirstDirective(e) \in {"else-if", "else"} /\ condChain = "valid"
  BY <1>3 DEF Effective
<1>5. PICK b : Sibling(b)
  BY SiblingExists
<1>6. ClosedBefore(Len(out), b) \/ TextSince(b)
  BY <1>4, <1>5 DEF ChainClosed
<1>7. CASE ClosedBefore(Len(out), b)
  <2>1. k - 1 \in 0..Len(out) /\ k - 1 = Len(out)
    BY <1>1 DEF TextGrows
  <2>2. ClosedBefore(k - 1, b)'
    <3>1. ClosedBefore(k - 1, b)
      BY <1>7, <2>1
    <3>. QED
      BY <2>1, <3>1, ClosedStays DEF TextGrows
  <2>3. ElementBefore(i)' = b
    BY <1>5, SiblingIsBefore DEF Opens
  <2>. QED
    BY <1>2, <2>1, <2>2, <2>3 DEF ElseOk
<1>8. CASE TextSince(b)
  BY <1>4, <1>5, <1>8, TextBefore DEF Opens
<1>. QED
  BY <1>6, <1>7, <1>8

(* An element before its children. *)
LEMMA BlocksOpen ==
    ASSUME WalkTree, WalkTree', BareInv, BlocksInv, OpenElement
    PROVE  BlocksInv'
<1>. PICK L : L = Len(open)
  OBVIOUS
<1>. PICK i : i = This
  OBVIOUS
<1>1. AnySeq(out) /\ CtxInv
  BY DEF BareInv, UsesInv
<1>2. PICK e : Opens(e)
  BY OpenElementIs
<1>3. e \in UNION Catalogues /\ e.kind = "element" /\ Grow(e)
  BY <1>2 DEF Opens, WalkTree, ChainInv, WalkTyped
<1>4. condChain' = "none"
  BY DEF OpenElement
<1>5. /\ L \in Nat /\ DOMAIN open = 1..L /\ DOMAIN open' = 1..(L + 1)
      /\ \A k \in 1..L : open'[k] = open[k]
      /\ open'[L + 1].node = i /\ open'[L + 1].branch = Effective(e)
      /\ open'[L + 1].chain = ChainAfter(e)
  <2>1. /\ L \in Nat /\ DOMAIN open = 1..L /\ DOMAIN open' = 1..(L + 1)
        /\ \A k \in 1..L : open'[k] = open[k]
        /\ open'[L + 1] = [node |-> i, chain |-> ChainAfter(e), ctx |-> parentCtx,
                           branch |-> Effective(e)]
    BY <1>2, CallOpened
  <2>. QED
    BY <2>1
<1>6. Effective(e) \in {"none", "if", "else-if", "else"}
  BY <1>3, BranchType DEF WalkTree
<1>7. BlocksOpened(e, i)
  <2>1. out' = out \o Written(e)
    BY <1>1, <1>2, WrittenIs DEF Opens
  <2>. QED
    BY <1>1, <1>6, <2>1, StackWritten DEF Writes
<1>8. TextGrows
  BY <1>1, <1>7 DEF TextGrows, BlocksOpened
<1>9. NodesGrow /\ Nodes' = Nodes \cup {i}
  BY <1>3, NodesGrowOne
<1>10. BranchesGoOn'
  <2>1. GoesOnFromBranch(open'[L + 1])
    BY <1>3, <1>5, GoesOn DEF GoesOnFromBranch, WalkTree
  <2>2. \A k \in 1..L : GoesOnFromBranch(open'[k])
    BY <1>5 DEF BlocksInv, BranchesGoOn
  <2>3. \A k \in DOMAIN open' : k \in 1..L \/ k = L + 1
    BY <1>5
  <2>. QED
    BY <2>1, <2>2, <2>3 DEF BranchesGoOn
<1>11. InsideLast'
  <2>1. \A k \in DOMAIN open' : open'[k].node = This \/ (k \in DOMAIN open /\ open'[k] = open[k])
    BY <1>5
  <2>. QED
    BY <1>3, <2>1, InsideLastGrows DEF BlocksInv
<1>12. ElseNodes'
  <2>1. ASSUME NEW k \in NewTokens, IsElse(out'[k]) PROVE out'[k].node = i
    <3>1. out'[k] = [t |-> Effective(e), node |-> i]
      BY <1>7, <2>1 DEF BlocksOpened, IsElse, NewTokens
    <3>. QED
      BY <3>1
  <2>. QED
    BY <1>8, <1>9, <2>1, ElseNodesStay DEF BlocksInv
<1>13. ChainClosed'
  BY <1>4 DEF ChainClosed
<1>14. ASSUME ~Straying'
       PROVE  /\ \E c : Stacked(c)'
              /\ (\A k \in DOMAIN out' : ElseOk(k)') \/ TextBetweenBranches'
  <2>1. ~Straying
    BY <1>3, <1>14, FactsStay
  <2>2. /\ \E c : Stacked(c)
        /\ (\A k \in DOMAIN out : ElseOk(k)) \/ TextBetweenBranches
        /\ ChainClosed /\ ElseNodes
    BY <2>1 DEF BlocksInv
  <2>3. \E c : Stacked(c)'
    BY <1>1, <1>2, <1>14, <2>2, StackOpen
  <2>4. ASSUME TextBetweenBranches PROVE TextBetweenBranches'
    BY <1>3, <2>4, TextStays
  <2>5. ASSUME \A k \in DOMAIN out : ElseOk(k)
        PROVE  (\A k \in DOMAIN out' : ElseOk(k)') \/ TextBetweenBranches'
    <3>1. ASSUME \A k \in NewTokens : ElseOk(k)'
          PROVE  \A k \in DOMAIN out' : ElseOk(k)'
      BY <1>8, <1>9, <2>2, <2>5, <3>1, ElsesStay
    <3>2. ASSUME \E k \in NewTokens : ~ElseOk(k)'
          PROVE  TextBetweenBranches'
      <4>1. PICK k \in NewTokens : ~ElseOk(k)'
        BY <3>2
      <4>2. IsElse(out'[k])
        BY <4>1 DEF ElseOk
      <4>. QED
        BY <1>2, <1>7, <1>8, <2>2, <4>1, <4>2, NewElse
    <3>. QED
      BY <3>1, <3>2
  <2>. QED
    BY <2>2, <2>3, <2>4, <2>5
<1>. QED
  BY <1>10, <1>11, <1>12, <1>13, <1>14 DEF BlocksInv

(* Behind an element it is the last beside the next node.                  *)
LEMMA SiblingClosed ==
    ASSUME WalkTree, WalkTree', InsideLast, open # <<>>, open' = AllButLast(open), UNCHANGED nodes,
           NEW b, Sibling(b)'
    PROVE  b = open[Len(open)].node
<1>. PICK L : L = Len(open)
  OBVIOUS
<1>. PICK m : m = open[L].node
  OBVIOUS
<1>1. /\ L \in Nat \ {0} /\ DOMAIN open = 1..L
      /\ Len(open') = L - 1 /\ DOMAIN open' = 1..(L - 1)
      /\ \A k \in 1..(L - 1) : open'[k] = open[k]
  BY CallsClose
<1>2. Elements' = Elements
  BY DEF Elements, Nodes
<1>3. /\ m \in Elements /\ nodes[m].parent = (IF L = 1 THEN 0 ELSE open[L - 1].node)
      /\ \A j \in Nodes : nodes[j].parent \in 0..(j - 1)
      /\ Elements \subseteq Nodes /\ Nodes \subseteq Nat \ {0}
  <2>1. Nodes = 1..Len(nodes) /\ Len(nodes) \in Nat
    BY NodesAre DEF WalkTree, TreeInv
  <2>. QED
    BY <1>1, <2>1, SMTT(30) DEF WalkTree, TreeInv, Elements
<1>4. Parent' = nodes[m].parent
  <2>1. AnySeq(open')
    BY DEF AnySeq, WalkTree, TreeInv, WalkTyped
  <2>2. open' = <<>> <=> L = 1
    BY <1>1, <2>1, SeqIs
  <2>3. Parent' = IF open' = <<>> THEN 0 ELSE open'[L - 1].node
    BY <1>1 DEF Parent, Last
  <2>4. L # 1 => L - 1 \in 1..(L - 1)
    BY <1>1
  <2>. QED
    BY <1>1, <1>3, <2>2, <2>3, <2>4
<1>5. /\ b \in Elements \cup {0}
      /\ b # 0 => nodes[b].parent = Parent'
      /\ \A j \in Elements : nodes[j].parent = Parent' => j <= b
  BY <1>2 DEF Sibling
<1>6. m <= b /\ b # 0 /\ b \in Elements /\ nodes[b].parent = Parent'
  BY <1>3, <1>4, <1>5
<1>7. ~(b > m)
  <2>1. SUFFICES ASSUME b > m PROVE FALSE
    OBVIOUS
  <2>2. nodes[b].parent >= m
    <3>1. L \in DOMAIN open /\ b \in Nodes /\ b > open[L].node
      BY <1>1, <1>3, <1>6, <2>1
    <3>. QED
      BY <3>1 DEF InsideLast
  <2>3. nodes[m].parent \in 0..(m - 1) /\ m \in Nat
    BY <1>3
  <2>. QED
    BY <1>4, <1>6, <2>2, <2>3
<1>8. m \in Nat /\ b \in Nat
  BY <1>3, <1>6
<1>9. m = b
  BY <1>6, <1>7, <1>8
<1>. QED
  BY <1>9, Zenon

(* An element behind its children. *)
LEMMA BlocksClose ==
    ASSUME WalkTree, WalkTree', BareInv, BlocksInv, CloseElement
    PROVE  BlocksInv'
<1>. PICK L : L = Len(open)
  OBVIOUS
<1>. PICK s : s = Closes(El(L), open[L].branch)
  OBVIOUS
<1>1. AnySeq(out)
  BY DEF BareInv, UsesInv
<1>2. /\ open # <<>> /\ open' = AllButLast(open) /\ UNCHANGED nodes
      /\ out' = out \o s /\ condChain' = open[L].chain
  BY DEF CloseElement, Last, El
<1>3. /\ L \in Nat \ {0} /\ DOMAIN open = 1..L
      /\ Len(open') = L - 1 /\ DOMAIN open' = 1..(L - 1)
      /\ \A k \in 1..(L - 1) : open'[k] = open[k]
  BY <1>2, CallsClose
<1>4. Nodes' = Nodes /\ Elements' = Elements /\ \A i : ElementBefore(i)' = ElementBefore(i)
  BY <1>2 DEF Nodes, Elements, ElementBefore
<1>5. NodesGrow
  BY <1>2, <1>4 DEF NodesGrow
<1>6. AnySeq(s) /\ \A j \in 1..Len(s) : IsBrace(s[j])
  BY ClosesMany
<1>7. TextGrows /\ \A k \in NewTokens : ~IsElse(out'[k])
  <2>. PICK n : n = Len(out)
    OBVIOUS
  <2>. PICK m : m = Len(s)
    OBVIOUS
  <2>1. /\ AnySeq(out') /\ Len(out') = n + m /\ n \in Nat /\ m \in Nat
        /\ \A k \in 1..n : out'[k] = out[k]
        /\ \A k \in 0..n : Blocks'[k] = Blocks[k]
        /\ \A k \in 1..m : out'[n + k] = s[k]
    BY <1>1, <1>2, <1>6, TextGrown
  <2>2. Len(out') \in Nat /\ n <= Len(out')
    BY <2>1
  <2>3. TextGrows
    BY <1>1, <2>1, <2>2 DEF TextGrows
  <2>4. ASSUME NEW k \in NewTokens PROVE ~IsElse(out'[k])
    <3>. PICK j : j = k - n
      OBVIOUS
    <3>1. j \in 1..m /\ n + j = k
      BY <2>1 DEF NewTokens
    <3>2. out'[k] = s[j] /\ IsBrace(s[j])
      BY <1>6, <2>1, <3>1
    <3>. QED
      BY <3>2 DEF IsBrace, IsElse
  <2>. QED
    BY <2>3, <2>4
<1>8. BranchesGoOn'
  BY <1>3 DEF BlocksInv, BranchesGoOn, GoesOnFromBranch
<1>9. InsideLast'
  BY <1>2, <1>3, <1>4 DEF BlocksInv, InsideLast
<1>10. ElseNodes'
  BY <1>5, <1>7, ElseNodesStay DEF BlocksInv
<1>11. ASSUME ~Straying'
       PROVE  /\ \E c : Stacked(c)'
              /\ (\A k \in DOMAIN out' : ElseOk(k)') \/ TextBetweenBranches'
              /\ ChainClosed'
  <2>1. ~Straying
    BY <1>2, <1>4, <1>11 DEF Straying, StraySlot
  <2>2. /\ \E c : Stacked(c)
        /\ (\A k \in DOMAIN out : ElseOk(k)) \/ TextBetweenBranches
        /\ ElseNodes
    BY <2>1 DEF BlocksInv
  <2>3. /\ \E d : Stacked(d)'
        /\ open[L].branch # "none" =>
             /\ Len(out') > 0 /\ IsBrace(out'[Len(out')])
             /\ Blocks'[Len(out') - 1] # <<>>
             /\ Last(Blocks'[Len(out') - 1]).t = open[L].branch
             /\ Last(Blocks'[Len(out') - 1]).node = open[L].node
    BY <1>1, <2>2, StackClose
  <2>4. (\A k \in DOMAIN out' : ElseOk(k)') \/ TextBetweenBranches'
    <3>1. \A k \in NewTokens : ElseOk(k)'
      BY <1>7 DEF ElseOk
    <3>2. TextBetweenBranches' = TextBetweenBranches
      BY <1>2, <1>4 DEF TextBetweenBranches
    <3>. QED
      BY <1>5, <1>7, <2>2, <3>1, <3>2, ElsesStay
  <2>5. ASSUME condChain' = "valid", NEW b, Sibling(b)' PROVE ClosedBefore(Len(out), b)'
    <3>1. b = open[L].node
      BY <1>2, <2>5, SiblingClosed DEF BlocksInv
    <3>2. open[L].branch \in {"if", "else-if"}
      <4>1. L \in DOMAIN open /\ open[L].chain = "valid"
        BY <1>2, <1>3, <2>5
      <4>2. GoesOnFromBranch(open[L])
        BY <4>1 DEF BlocksInv, BranchesGoOn
      <4>. QED
        BY <4>1, <4>2 DEF GoesOnFromBranch
    <3>3. open[L].branch # "none"
      BY <3>2
    <3>4. /\ Len(out') > 0 /\ IsBrace(out'[Len(out')])
          /\ Blocks'[Len(out') - 1] # <<>>
          /\ Last(Blocks'[Len(out') - 1]).t = open[L].branch
          /\ Last(Blocks'[Len(out') - 1]).node = open[L].node
      BY <2>3, <3>3
    <3>5. IsIf(Last(Blocks'[Len(out') - 1]))
      BY <3>2, <3>4 DEF IsIf
    <3>. QED
      BY <3>1, <3>4, <3>5 DEF ClosedBefore
  <2>6. ChainClosed'
    BY <2>5 DEF ChainClosed
  <2>. QED
    BY <2>3, <2>4, <2>6
<1>. QED
  BY <1>8, <1>9, <1>10, <1>11 DEF BlocksInv

(* Before the first node. *)
LEMMA BlocksInit == Init => BlocksInv
<1>. SUFFICES ASSUME Init PROVE BlocksInv
  OBVIOUS
<1>1. /\ open = <<>> /\ DOMAIN open = {} /\ Len(open) = 0 /\ out = <<>> /\ DOMAIN out = {}
      /\ Len(out) = 0 /\ condChain = "none"
  BY DEF Init
<1>2. BranchesGoOn /\ InsideLast /\ ElseNodes /\ ChainClosed
  BY <1>1 DEF BranchesGoOn, InsideLast, ElseNodes, ChainClosed
<1>3. Stack = <<>>
  <2>1. BlocksSolved
    BY <1>1, ShortSeqs, BlocksAre
  <2>. QED
    BY <1>1, <2>1 DEF Stack, BlocksSolved
<1>4. PICK c : c = [k \in 0..0 |-> 0]
  OBVIOUS
<1>5. Len(Stack) = 0
  BY <1>3
<1>6. Stacked(c)
  BY <1>1, <1>4, <1>5 DEF Stacked
<1>. QED
  BY <1>1, <1>2, <1>6 DEF BlocksInv

(* Every step keeps it. *)
LEMMA BlocksStep == WalkTree /\ WalkTree' /\ BareInv /\ BlocksInv /\ [Next]_vars => BlocksInv'
<1>. SUFFICES ASSUME WalkTree, WalkTree', BareInv, BlocksInv, [Next]_vars PROVE BlocksInv'
  OBVIOUS
<1>1. CASE VisitComment \/ VisitText \/ VisitInterpolation
  BY <1>1, BlocksLeaf
<1>2. CASE OpenElement
  BY <1>2, BlocksOpen
<1>3. CASE CloseElement
  BY <1>3, BlocksClose
<1>4. CASE Finish \/ UNCHANGED vars
  <2>1. UNCHANGED <<nodes, open, condChain, out>>
    BY <1>4 DEF Finish, vars
  <2>2. Nodes' = Nodes /\ Elements' = Elements /\ Blocks' = Blocks /\ Parent' = Parent
    BY <2>1 DEF Nodes, Elements, Blocks, Parent
  <2>3. \A i : ElementBefore(i)' = ElementBefore(i) /\ StraySlot(i)' = StraySlot(i) /\ El(i)' = El(i)
    BY <2>1, <2>2 DEF ElementBefore, StraySlot, El
  <2>4. Straying' = Straying /\ TextBetweenBranches' = TextBetweenBranches
    BY <2>1, <2>2, <2>3 DEF Straying, TextBetweenBranches
  <2>5. \A k, b : ClosedBefore(k, b)' = ClosedBefore(k, b)
    BY <2>1, <2>2 DEF ClosedBefore
  <2>6. /\ \A k : ElseOk(k)' = ElseOk(k)
        /\ \A b : TextSince(b)' = TextSince(b) /\ Sibling(b)' = Sibling(b)
    BY <2>1, <2>2, <2>3, <2>5 DEF ElseOk, TextSince, Sibling
  <2>7. ChainClosed' = ChainClosed
    BY <2>1, <2>5, <2>6 DEF ChainClosed
  <2>8. BranchesGoOn' /\ InsideLast' /\ ElseNodes'
    BY <2>1, <2>2 DEF BlocksInv, BranchesGoOn, InsideLast, ElseNodes
  <2>9. \A c : Stacked(c)' = Stacked(c)
    <3>1. Stack' = Stack
      BY <2>1, <2>2 DEF Stack
    <3>2. \A k : CallWidth(k)' = CallWidth(k)
      BY <2>1, <2>3 DEF CallWidth
    <3>3. \A c, k : BlocksOf(c, k)' = BlocksOf(c, k)
      BY <2>1, <3>1, <3>2 DEF BlocksOf
    <3>. QED
      BY <2>1, <3>1, <3>3 DEF Stacked
  <2>10. (\A k \in DOMAIN out' : ElseOk(k)') <=> \A k \in DOMAIN out : ElseOk(k)
    BY <2>1, <2>6
  <2>. QED
    BY <2>4, <2>7, <2>8, <2>9, <2>10 DEF BlocksInv
<1>. QED
  BY <1>1, <1>2, <1>3, <1>4 DEF Next

(* Hence it holds in every state. *)
LEMMA BlocksInvariant == Spec => []BlocksInv
BY WalkTreeInvariant, BareInvariant, BlocksInit, BlocksStep, PTL DEF Spec

(* It says what the property asks. *)
LEMMA BlocksInvMatches == WalkTree /\ BareInv /\ BlocksInv => BlocksMatch
<1>. SUFFICES ASSUME WalkTree, BareInv, BlocksInv, ~Straying PROVE BlocksMatch
  BY DEF BlocksMatch, Straying
<1>1. AnySeq(out)
  BY DEF BareInv, UsesInv
<1>2. PICK c : Stacked(c)
  BY DEF BlocksInv
<1>3. ASSUME NEW i \in DOMAIN Stack
      PROVE  Stack[i].t # "}" /\ \E k \in DOMAIN open : Stack[i].node = open[k].node
  <2>1. IsOpening(Stack[i]) /\ \E k \in DOMAIN open : Stack[i].node = open[k].node
    BY <1>1, <1>2, StackThere
  <2>. QED
    BY <2>1 DEF IsOpening, Opening
<1>4. ElseBehindIf \/ TextBetweenBranches
  BY <1>1, ElseBehindIfIs DEF BlocksInv
<1>. QED
  BY <1>3, <1>4 DEF BlocksMatch, Stack

(* Every brace of the service text closes a block, every block of an       *)
(* element is closed behind its children, and an else or else if stands    *)
(* directly behind the block of the branch before, whatever the template   *)
(* (visit of template.go), apart from text between two branches and a slot *)
(* that belongs to no component.                                           *)
THEOREM BlocksAreMatched == Spec => []BlocksMatch
BY WalkTreeInvariant, BareInvariant, BlocksInvariant, BlocksInvMatches, PTL

-----------------------------------------------------------------------------
(* The guards of handlers: the branch of an element and the conditions in  *)
(* force, of the nodes alone.                                              *)

(* The element before a node comes before it. *)
LEMMA BeforeIs ==
    ASSUME TreeInv, NEW i \in Nodes
    PROVE  /\ ElementBefore(i) \in 0..(i - 1)
           /\ ElementBefore(i) # 0 => ElementBefore(i) \in Elements
<1>. DEFINE S == {j \in Elements : j < i /\ nodes[j].parent = nodes[i].parent}
            U == {m \in Nat : \A j \in S : j <= m}
<1>1. Nodes = 1..Len(nodes) /\ Len(nodes) \in Nat /\ i \in Nat \ {0}
  BY NodesAre DEF TreeInv
<1>2. ElementBefore(i) = IF S = {} THEN 0 ELSE CHOOSE j \in S : \A k \in S : k <= j
  BY DEF ElementBefore
<1>3. S \subseteq Elements /\ \A j \in S : j \in Nat \ {0} /\ j < i
  BY <1>1 DEF Elements
<1>. HIDE DEF S
<1>4. CASE S = {}
  BY <1>1, <1>2, <1>4
<1>5. CASE S # {}
  <2>1. U \in SUBSET Nat /\ i \in U
    BY <1>1, <1>3
  <2>2. PICK m \in U : \A u \in U : m <= u
    <3>. HIDE DEF U
    <3>. QED
      BY <2>1, LeastNat
  <2>3. m \in Nat /\ \A j \in S : j <= m
    OBVIOUS
  <2>4. m # 0
    BY <1>3, <1>5, <2>3
  <2>5. m \in S
    <3>1. SUFFICES ASSUME m \notin S PROVE FALSE
      OBVIOUS
    <3>2. \A j \in S : j <= m - 1
      BY <1>3, <2>3, <3>1
    <3>3. m - 1 \in U
      BY <2>3, <2>4, <3>2
    <3>. QED
      BY <2>2, <2>3, <3>3
  <2>6. \E j \in S : \A k \in S : k <= j
    BY <2>3, <2>5
  <2>7. ElementBefore(i) \in S
    BY <1>2, <1>5, <2>6
  <2>. QED
    BY <1>1, <1>3, <2>7
<1>. QED
  BY <1>4, <1>5

(* The branch of a node, x that of the element before it. *)
BranchFrom(i, x) ==
    LET d == FirstDirective(nodes[i].is)
        b == ElementBefore(i)
        goesOn == b # 0 /\ FirstDirective(nodes[b].is) \in {"if", "else-if"} /\ x # <<>>
    IN  CASE d = "if" -> <<Condition(i)>>
          [] d = "else-if" /\ goesOn -> Append(NegateLast(x), Condition(i))
          [] d = "else" /\ goesOn -> NegateLast(x)
          [] OTHER -> <<>>

BranchSolved ==
    /\ Branch[0] = <<>>
    /\ \A i \in Nodes : Branch[i] = BranchFrom(i, Branch[ElementBefore(i)])
    /\ \A i \in 0..Len(nodes) : Branch[i] \in Seq(Conditions)

(* A branch is a sequence of conditions. *)
LEMMA BranchFromType ==
    ASSUME NEW i \in Nat, NEW x \in Seq(Conditions)
    PROVE  BranchFrom(i, x) \in Seq(Conditions)
<1>1. Condition(i) \in Conditions
  BY DEF Condition, Conditions
<1>2. NegateLast(x) \in Seq(Conditions)
  BY NegateLastKeeps
<1>3. /\ <<>> \in Seq(Conditions) /\ <<Condition(i)>> \in Seq(Conditions)
      /\ Append(NegateLast(x), Condition(i)) \in Seq(Conditions)
  BY <1>1, <1>2
<1>. QED
  BY <1>2, <1>3 DEF BranchFrom

(* Branch is what its definition says at every node. *)
LEMMA BranchIs == TreeInv => BranchSolved
<1>. SUFFICES ASSUME TreeInv PROVE BranchSolved
  OBVIOUS
<1>. DEFINE n == Len(nodes)
            V == Seq(Conditions)
            p == [i \in 1..n |-> ElementBefore(i)]
            G == [i \in 1..n |-> [a \in V |-> BranchFrom(i, a)]]
            Rec(g) == g = [i \in 0..n |->
                IF i = 0 THEN <<>>
                ELSE LET d == FirstDirective(nodes[i].is)
                         b == ElementBefore(i)
                         goesOn == b # 0 /\ FirstDirective(nodes[b].is) \in {"if", "else-if"} /\ g[b] # <<>>
                     IN  CASE d = "if" -> <<Condition(i)>>
                           [] d = "else-if" /\ goesOn -> Append(NegateLast(g[b]), Condition(i))
                           [] d = "else" /\ goesOn -> NegateLast(g[b])
                           [] OTHER -> <<>>]
            Steps(g) == g = [i \in 0..n |-> IF i = 0 THEN <<>> ELSE BranchFrom(i, g[ElementBefore(i)])]
<1>1. n \in Nat /\ Nodes = 1..n
  BY NodesAre DEF TreeInv
<1>2. \A i \in 1..n : p[i] = ElementBefore(i) /\ p[i] \in 0..(i - 1)
  BY <1>1, BeforeIs
<1>3. \A i \in 1..n : \A a \in V : G[i][a] = BranchFrom(i, a) /\ G[i][a] \in V
  <2>1. ASSUME NEW i \in 1..n, NEW a \in V PROVE BranchFrom(i, a) \in V
    BY <1>1, BranchFromType
  <2>. HIDE DEF V, n
  <2>. QED
    BY <2>1
<1>4. PICK g \in [0..n -> V] : g[0] = <<>> /\ \A i \in 1..n : g[i] = G[i][g[p[i]]]
  <2>1. n \in Nat /\ <<>> \in V
    BY <1>1
  <2>. HIDE DEF G, p, V, n, Rec, Steps
  <2>2. FromEarlier(n, V, <<>>, p, G)
    BY <1>2, <1>3, <2>1 DEF FromEarlier
  <2>. QED
    BY <2>2, Recursion
<1>. HIDE DEF G, p, V, n
<1>5. \A i \in 1..n : g[i] = BranchFrom(i, g[ElementBefore(i)])
  <2>1. \A i \in 1..n : p[i] \in 0..n /\ g[p[i]] \in V
    BY <1>1, <1>2
  <2>. QED
    BY <1>2, <1>3, <1>4, <2>1
<1>6. g = [k \in 0..n |-> g[k]]
  OBVIOUS
<1>7. \A k \in 0..n : g[k] = IF k = 0 THEN <<>> ELSE BranchFrom(k, g[ElementBefore(k)])
  <2>1. \A k \in 0..n : k # 0 => k \in 1..n
    BY <1>1
  <2>. QED
    BY <1>4, <1>5, <2>1
<1>8. Steps(g)
  BY <1>6, <1>7
<1>9. Rec(g)
  BY <1>8 DEF BranchFrom
<1>10. Branch = CHOOSE f : Rec(f)
  BY DEF Branch, n
<1>11. Rec(Branch)
  <2>. HIDE DEF Rec
  <2>. QED
    BY <1>9, <1>10
<1>12. Steps(Branch)
  BY <1>11 DEF BranchFrom
<1>13. /\ Branch[0] = <<>>
       /\ \A k \in 1..n : Branch[k] = BranchFrom(k, Branch[ElementBefore(k)])
  BY <1>1, <1>12
<1>14. \A k \in 0..n : Branch[k] = g[k]
  <2>1. SameSoFar(n, Branch, g, p)
    BY <1>1, <1>2, <1>4, <1>5, <1>13 DEF SameSoFar
  <2>. QED
    BY <2>1, Agree
<1>15. \A k \in 0..n : Branch[k] \in Seq(Conditions)
  BY <1>4, <1>14 DEF V
<1>. QED
  BY <1>1, <1>13, <1>15 DEF BranchSolved, n

(* So it is in the next state. *)
LEMMA BranchIsThen == TreeInv' => BranchSolved'
BY BranchIs, PTL

(* The conditions in force inside a node, x those around it. *)
InForceFrom(i, x) == x \o Branch[i]

InForceSolved ==
    /\ InForce[0] = <<>>
    /\ \A i \in Nodes : InForce[i] = InForce[nodes[i].parent] \o Branch[i]
    /\ \A i \in 0..Len(nodes) : InForce[i] \in Seq(Conditions)

(* And so is InForce. *)
LEMMA InForceIs == TreeInv => InForceSolved
<1>. SUFFICES ASSUME TreeInv PROVE InForceSolved
  OBVIOUS
<1>. DEFINE n == Len(nodes)
            V == Seq(Conditions)
            p == [i \in 1..n |-> nodes[i].parent]
            G == [i \in 1..n |-> [a \in V |-> InForceFrom(i, a)]]
            Rec(g) == g = [i \in 0..n |-> IF i = 0 THEN <<>> ELSE g[nodes[i].parent] \o Branch[i]]
            Steps(g) == g = [i \in 0..n |-> IF i = 0 THEN <<>> ELSE InForceFrom(i, g[nodes[i].parent])]
<1>1. n \in Nat /\ Nodes = 1..n /\ \A i \in 1..n : nodes[i].parent \in 0..(i - 1)
  BY NodesAre DEF TreeInv
<1>2. \A i \in 1..n : p[i] = nodes[i].parent /\ p[i] \in 0..(i - 1)
  BY <1>1
<1>3. \A i \in 1..n : \A a \in V : G[i][a] = InForceFrom(i, a) /\ G[i][a] \in V
  <2>1. \A i \in 1..n : Branch[i] \in V
    BY <1>1, BranchIs DEF BranchSolved
  <2>2. ASSUME NEW i \in 1..n, NEW a \in V PROVE InForceFrom(i, a) \in V
    BY <2>1 DEF InForceFrom
  <2>. HIDE DEF V, n
  <2>. QED
    BY <2>2
<1>4. PICK g \in [0..n -> V] : g[0] = <<>> /\ \A i \in 1..n : g[i] = G[i][g[p[i]]]
  <2>1. n \in Nat /\ <<>> \in V
    BY <1>1
  <2>. HIDE DEF G, p, V, n, Rec, Steps
  <2>2. FromEarlier(n, V, <<>>, p, G)
    BY <1>2, <1>3, <2>1 DEF FromEarlier
  <2>. QED
    BY <2>2, Recursion
<1>. HIDE DEF G, p, V, n
<1>5. \A i \in 1..n : g[i] = InForceFrom(i, g[nodes[i].parent])
  <2>1. \A i \in 1..n : p[i] \in 0..n /\ g[p[i]] \in V
    BY <1>1, <1>2
  <2>. QED
    BY <1>2, <1>3, <1>4, <2>1
<1>6. g = [k \in 0..n |-> g[k]]
  OBVIOUS
<1>7. \A k \in 0..n : g[k] = IF k = 0 THEN <<>> ELSE InForceFrom(k, g[nodes[k].parent])
  <2>1. \A k \in 0..n : k # 0 => k \in 1..n
    BY <1>1
  <2>. QED
    BY <1>4, <1>5, <2>1
<1>8. Steps(g)
  BY <1>6, <1>7
<1>9. Rec(g)
  BY <1>8 DEF InForceFrom
<1>10. InForce = CHOOSE f : Rec(f)
  BY DEF InForce, n
<1>11. Rec(InForce)
  <2>. HIDE DEF Rec
  <2>. QED
    BY <1>9, <1>10
<1>12. Steps(InForce)
  BY <1>11 DEF InForceFrom
<1>13. /\ InForce[0] = <<>>
       /\ \A k \in 1..n : InForce[k] = InForceFrom(k, InForce[nodes[k].parent])
  BY <1>1, <1>12
<1>14. \A k \in 0..n : InForce[k] = g[k]
  <2>1. SameSoFar(n, InForce, g, p)
    BY <1>1, <1>2, <1>4, <1>5, <1>13 DEF SameSoFar
  <2>. QED
    BY <2>1, Agree
<1>15. \A k \in 0..n : InForce[k] \in Seq(Conditions)
  BY <1>4, <1>14 DEF V
<1>16. \A k \in 1..n : InForce[k] = InForce[nodes[k].parent] \o Branch[k]
  BY <1>13 DEF InForceFrom
<1>. QED
  BY <1>1, <1>13, <1>15, <1>16 DEF InForceSolved, n

(* In the next state, too. *)
LEMMA InForceIsThen == TreeInv' => InForceSolved'
BY InForceIs, PTL

(* Growth leaves the branches and the conditions of the nodes there are.   *)
LEMMA BranchGrown ==
    ASSUME WalkTree, WalkTree', NEW n, Grow(n)
    PROVE  \A i \in 0..Len(nodes) : Branch'[i] = Branch[i]
<1>. PICK N : N = Len(nodes)
  OBVIOUS
<1>. DEFINE p == [i \in 1..N |-> ElementBefore(i)]
<1>1. TreeInv /\ TreeInv' /\ N \in Nat /\ Nodes = 1..N
  BY NodesAre DEF WalkTree, TreeInv
<1>2. \A i \in Nodes : i \in Nodes' /\ nodes'[i] = nodes[i] /\ ElementBefore(i)' = ElementBefore(i)
  BY NodesGrowOne DEF NodesGrow
<1>3. BranchSolved /\ BranchSolved'
  BY <1>1, BranchIs, BranchIsThen
<1>4. \A i \in 1..N : p[i] = ElementBefore(i) /\ p[i] \in 0..(i - 1) /\ (p[i] # 0 => p[i] \in Nodes)
  BY <1>1, BeforeIs DEF Elements
<1>. HIDE DEF p
<1>5. ASSUME NEW i \in 1..N, Branch'[p[i]] = Branch[p[i]]
      PROVE  Branch'[i] = Branch[i]
  <2>. PICK b : b = ElementBefore(i)
    OBVIOUS
  <2>1. i \in Nodes /\ i \in Nodes' /\ nodes'[i] = nodes[i] /\ ElementBefore(i)' = b
    BY <1>1, <1>2
  <2>2. b # 0 => nodes'[b] = nodes[b]
    BY <1>2, <1>4
  <2>3. Branch'[b] = Branch[b]
    BY <1>4, <1>5
  <2>4. Branch[i] = BranchFrom(i, Branch[b])
    BY <1>3, <2>1 DEF BranchSolved
  <2>. PICK x : x = Branch[b]
    OBVIOUS
  <2>5. Branch'[i] = BranchFrom(i, x)'
    BY <1>3, <2>1, <2>3 DEF BranchSolved
  <2>6. BranchFrom(i, x)' = BranchFrom(i, x)
    BY <2>1, <2>2 DEF BranchFrom
  <2>. QED
    BY <2>4, <2>5, <2>6
<1>6. SameSoFar(N, Branch', Branch, p)
  <2>1. Branch'[0] = Branch[0]
    BY <1>3 DEF BranchSolved
  <2>. QED
    BY <1>1, <1>4, <1>5, <2>1 DEF SameSoFar
<1>. QED
  BY <1>6, Agree

(* The conditions in force of the nodes there are stay, those of a new     *)
(* node are the ones around it and its branch.                             *)
LEMMA InForceGrown ==
    ASSUME WalkTree, WalkTree', NEW n, Grow(n), NEW i, i = This
    PROVE  /\ \A j \in 0..Len(nodes) : InForce'[j] = InForce[j]
           /\ InForce'[i] = InForce[Parent] \o Branch'[i]
<1>. PICK N : N = Len(nodes)
  OBVIOUS
<1>. DEFINE p == [j \in 1..N |-> nodes[j].parent]
<1>1. /\ TreeInv /\ TreeInv' /\ N \in Nat /\ Nodes = 1..N
      /\ \A j \in 1..N : nodes[j].parent \in 0..(j - 1)
  BY NodesAre DEF WalkTree, TreeInv
<1>2. /\ \A j \in Nodes : j \in Nodes' /\ nodes'[j] = nodes[j]
      /\ i \in Nodes' /\ nodes'[i] = [parent |-> Parent, is |-> n]
  BY NodesGrowOne DEF NodesGrow
<1>3. InForceSolved /\ InForceSolved'
  BY <1>1, InForceIs, InForceIsThen
<1>4. \A j \in 1..N : p[j] = nodes[j].parent /\ p[j] \in 0..(j - 1)
  BY <1>1
<1>. HIDE DEF p
<1>5. ASSUME NEW j \in 1..N, InForce'[p[j]] = InForce[p[j]]
      PROVE  InForce'[j] = InForce[j]
  <2>1. j \in Nodes /\ j \in Nodes' /\ nodes'[j] = nodes[j]
    BY <1>1, <1>2
  <2>2. Branch'[j] = Branch[j]
    <3>1. j \in 0..Len(nodes)
      BY <1>1
    <3>. QED
      BY <3>1, BranchGrown
  <2>3. InForce[j] = InForce[nodes[j].parent] \o Branch[j]
    BY <1>3, <2>1 DEF InForceSolved
  <2>4. InForce'[j] = InForce'[nodes'[j].parent] \o Branch'[j]
    BY <1>3, <2>1 DEF InForceSolved
  <2>5. InForce'[nodes'[j].parent] = InForce[nodes[j].parent]
    BY <1>4, <1>5, <2>1
  <2>. QED
    BY <2>2, <2>3, <2>4, <2>5, Zenon
<1>6. SameSoFar(N, InForce', InForce, p)
  <2>1. InForce'[0] = InForce[0]
    BY <1>3 DEF InForceSolved
  <2>. QED
    BY <1>1, <1>4, <1>5, <2>1 DEF SameSoFar
<1>7. \A j \in 0..N : InForce'[j] = InForce[j]
  BY <1>6, Agree
<1>8. InForce'[i] = InForce'[Parent] \o Branch'[i]
  <2>1. InForce'[i] = InForce'[nodes'[i].parent] \o Branch'[i]
    BY <1>2, <1>3 DEF InForceSolved
  <2>2. nodes'[i].parent = Parent
    BY <1>2
  <2>. QED
    BY <2>1, <2>2, Zenon
<1>9. Parent \in 0..N
  BY <1>1, ParentIs
<1>10. InForce'[Parent] = InForce[Parent]
  BY <1>7, <1>9
<1>. QED
  BY <1>7, <1>8, <1>10, Zenon

(* A chain goes on from an element that is a branch of it, but for else.   *)
GoesOnFrom(b) ==
    b # 0 /\ FirstDirective(nodes[b].is) \in {"if", "else-if"} /\ Branch[b] # <<>>

(* The branch of the next node, b the element before it. *)
BranchNext(e, b, i) ==
    CASE FirstDirective(e) = "if" -> <<Condition(i)>>
      [] FirstDirective(e) = "else-if" /\ GoesOnFrom(b) -> Append(NegateLast(Branch[b]), Condition(i))
      [] FirstDirective(e) = "else" /\ GoesOnFrom(b) -> NegateLast(Branch[b])
      [] OTHER -> <<>>

(* The branch of the node that is visited follows from the one before it. *)
LEMMA BranchIsNext ==
    ASSUME WalkTree, WalkTree', NEW e, Grow(e), NEW i, i = This, NEW b, Sibling(b)
    PROVE  Branch'[i] = BranchNext(e, b, i)
<1>1. /\ NodesGrow /\ i \in Nodes'
      /\ nodes'[i] = [parent |-> Parent, is |-> e]
  BY NodesGrowOne
<1>2. nodes'[i].is = e
  BY <1>1
<1>3. ElementBefore(i)' = b
  BY SiblingIsBefore
<1>4. b # 0 => nodes'[b] = nodes[b]
  BY <1>1 DEF Sibling, Elements, NodesGrow
<1>5. Branch'[b] = Branch[b]
  <2>1. Nodes = 1..Len(nodes) /\ Len(nodes) \in Nat
    BY NodesAre DEF WalkTree, TreeInv
  <2>2. b \in 0..Len(nodes)
    BY <2>1 DEF Sibling, Elements
  <2>. QED
    BY <2>2, BranchGrown
<1>. PICK x : x = Branch[b]
  OBVIOUS
<1>6. Branch'[i] = BranchFrom(i, x)'
  <2>1. BranchSolved'
    BY BranchIsThen DEF WalkTree
  <2>. QED
    BY <1>1, <1>3, <1>5, <2>1 DEF BranchSolved
<1>7. BranchFrom(i, x)' = BranchNext(e, b, i)
  BY <1>2, <1>3, <1>4 DEF BranchFrom, BranchNext, GoesOnFrom
<1>. QED
  BY <1>6, <1>7

(* Conditions behind others.                                               *)
LEMMA ConcatIs ==
    ASSUME NEW s \in Seq(Conditions), NEW t \in Seq(Conditions)
    PROVE  /\ s \o t \in Seq(Conditions) /\ Len(s \o t) = Len(s) + Len(t)
           /\ \A k \in 1..Len(s) : (s \o t)[k] = s[k]
           /\ \A k \in 1..Len(t) : (s \o t)[Len(s) + k] = t[k]
OBVIOUS

(* Two sequences of conditions with the same elements are the same.        *)
LEMMA SameConditions ==
    ASSUME NEW s \in Seq(Conditions), NEW t \in Seq(Conditions), Len(s) = Len(t),
           \A k \in 1..Len(s) : s[k] = t[k]
    PROVE  s = t
OBVIOUS

(* Cut back to its length, what was there is left. *)
LEMMA CutBehind ==
    ASSUME NEW s \in Seq(Conditions), NEW t \in Seq(Conditions)
    PROVE  SubSeq(s \o t, 1, Len(s)) = s
<1>1. /\ SubSeq(s \o t, 1, Len(s)) \in Seq(Conditions)
      /\ Len(SubSeq(s \o t, 1, Len(s))) = Len(s)
      /\ \A k \in 1..Len(s) : SubSeq(s \o t, 1, Len(s))[k] = (s \o t)[k]
  BY ConcatIs, SubSeqProperties
<1>. QED
  BY <1>1, ConcatIs, SameConditions

(* The last of both is the last of the second. *)
LEMMA NegateBehind ==
    ASSUME NEW s \in Seq(Conditions), NEW t \in Seq(Conditions), t # <<>>
    PROVE  NegateLast(s \o t) = s \o NegateLast(t)
<1>. PICK u : u = NegateLast(t)
  OBVIOUS
<1>. PICK r : r = s \o t
  OBVIOUS
<1>. PICK q : q = NegateLast(r)
  OBVIOUS
<1>. PICK n : n = Len(s)
  OBVIOUS
<1>. PICK m : m = Len(t)
  OBVIOUS
<1>1. n \in Nat /\ m \in Nat \ {0}
  OBVIOUS
<1>2. /\ r \in Seq(Conditions) /\ Len(r) = n + m
      /\ \A k \in 1..n : r[k] = s[k]
      /\ \A k \in 1..m : r[n + k] = t[k]
  BY ConcatIs
<1>3. r # <<>>
  BY <1>1, <1>2
<1>4. u \in Seq(Conditions) /\ Len(u) = m /\ q \in Seq(Conditions) /\ Len(q) = n + m
  BY <1>2, NegateLastKeeps
<1>5. /\ s \o u \in Seq(Conditions) /\ Len(s \o u) = n + m
      /\ \A k \in 1..n : (s \o u)[k] = s[k]
      /\ \A k \in 1..m : (s \o u)[n + k] = u[k]
  <2>. PICK v : v = s \o u
    OBVIOUS
  <2>1. u \in Seq(Conditions) /\ Len(u) = m
    BY <1>4
  <2>2. /\ v \in Seq(Conditions) /\ Len(v) = n + Len(u)
        /\ \A k \in 1..n : v[k] = s[k]
        /\ \A k \in 1..Len(u) : v[n + k] = u[k]
    BY <2>1, ConcatIs, ZenonT(40)
  <2>. QED
    BY <2>1, <2>2
<1>6. u = [t EXCEPT ![m] = [t[m] EXCEPT !.neg = ~@]] /\ DOMAIN t = 1..m
  BY DEF NegateLast
<1>7. q = [r EXCEPT ![n + m] = [r[n + m] EXCEPT !.neg = ~@]] /\ DOMAIN r = 1..(n + m)
  <2>1. q = [r EXCEPT ![Len(r)] = [r[Len(r)] EXCEPT !.neg = ~@]]
    BY <1>3 DEF NegateLast
  <2>2. Len(r) = n + m /\ DOMAIN r = 1..(n + m)
    BY <1>2
  <2>. QED
    BY <2>1, <2>2
<1>8. ASSUME NEW k \in 1..(n + m) PROVE q[k] = (s \o u)[k]
  <2>1. CASE k \in 1..n
    <3>1. k # n + m
      BY <1>1, <2>1
    <3>2. q[k] = r[k]
      BY <1>7, <3>1
    <3>. QED
      BY <1>2, <1>5, <2>1, <3>2
  <2>2. CASE k \notin 1..n
    <3>. PICK j : j = k - n
      OBVIOUS
    <3>1. j \in 1..m /\ n + j = k
      BY <1>1, <2>2
    <3>2. r[k] = t[j] /\ (s \o u)[k] = u[j]
      BY <1>2, <1>5, <3>1
    <3>3. CASE j = m
      <4>1. k = n + m
        BY <3>1, <3>3
      <4>2. q[k] = [r[k] EXCEPT !.neg = ~@] /\ u[j] = [t[j] EXCEPT !.neg = ~@]
        BY <1>6, <1>7, <3>1, <3>3, <4>1, ZenonT(40)
      <4>. QED
        BY <3>2, <4>2
    <3>4. CASE j # m
      <4>1. k # n + m
        BY <1>1, <3>1, <3>4
      <4>2. q[k] = r[k] /\ u[j] = t[j]
        BY <1>6, <1>7, <3>1, <3>4, <4>1
      <4>. QED
        BY <3>2, <4>2
    <3>. QED
      BY <3>3, <3>4
  <2>. QED
    BY <2>1, <2>2
<1>9. q = s \o u
  BY <1>4, <1>5, <1>8, SameConditions
<1>. QED
  BY <1>9

(* Places behind the first. *)
LEMMA PlaceBehind ==
    ASSUME NEW n \in Nat, NEW m \in Nat, NEW j \in 1..(m + 1), j # m + 1
    PROVE  j \in 1..m /\ n + j \in 1..(n + m)
OBVIOUS

(* One more condition is one more of the second. *)
LEMMA AppendBehind ==
    ASSUME NEW s \in Seq(Conditions), NEW t \in Seq(Conditions), NEW c \in Conditions
    PROVE  Append(s \o t, c) = s \o Append(t, c)
<1>. PICK n : n = Len(s)
  OBVIOUS
<1>. PICK m : m = Len(t)
  OBVIOUS
<1>. PICK u : u = Append(t, c)
  OBVIOUS
<1>. PICK r : r = s \o t
  OBVIOUS
<1>. PICK q : q = Append(r, c)
  OBVIOUS
<1>1. n \in Nat /\ m \in Nat
  OBVIOUS
<1>2. /\ r \in Seq(Conditions) /\ Len(r) = n + m
      /\ \A k \in 1..n : r[k] = s[k]
      /\ \A k \in 1..m : r[n + k] = t[k]
  BY ConcatIs
<1>3. /\ u \in Seq(Conditions) /\ Len(u) = m + 1 /\ u[m + 1] = c
      /\ \A k \in 1..m : u[k] = t[k]
  OBVIOUS
<1>4. /\ q \in Seq(Conditions) /\ Len(q) = n + m + 1 /\ q[n + m + 1] = c
      /\ \A k \in 1..(n + m) : q[k] = r[k]
  BY <1>2
<1>5. /\ s \o u \in Seq(Conditions) /\ Len(s \o u) = n + (m + 1)
      /\ \A k \in 1..n : (s \o u)[k] = s[k]
      /\ \A k \in 1..(m + 1) : (s \o u)[n + k] = u[k]
  BY <1>3, ConcatIs
<1>6. ASSUME NEW k \in 1..(n + m + 1) PROVE q[k] = (s \o u)[k]
  <2>1. CASE k \in 1..n
    <3>1. k \in 1..(n + m)
      BY <1>1, <2>1
    <3>. QED
      BY <1>2, <1>4, <1>5, <2>1, <3>1
  <2>2. CASE k \notin 1..n
    <3>. PICK j : j = k - n
      OBVIOUS
    <3>1. j \in 1..(m + 1) /\ n + j = k
      BY <1>1, <2>2
    <3>2. CASE j = m + 1
      <4>1. k = n + m + 1
        BY <1>1, <3>1, <3>2
      <4>2. (s \o u)[k] = u[m + 1]
        BY <1>5, <3>1, <3>2
      <4>. QED
        BY <1>3, <1>4, <4>1, <4>2
    <3>3. CASE j # m + 1
      <4>1. j \in 1..m /\ k \in 1..(n + m)
        BY <1>1, <3>1, <3>3, PlaceBehind, ZenonT(40)
      <4>. QED
        BY <1>2, <1>3, <1>4, <1>5, <3>1, <4>1
    <3>. QED
      BY <3>2, <3>3
  <2>. QED
    BY <2>1, <2>2
<1>7. n + (m + 1) = n + m + 1
  BY <1>1
<1>8. q = s \o u
  BY <1>4, <1>5, <1>6, <1>7, SameConditions
<1>. QED
  BY <1>8

(* None behind changes nothing. *)
LEMMA NoneBehind ==
    ASSUME NEW s \in Seq(Conditions)
    PROVE  s \o <<>> = s
OBVIOUS

-----------------------------------------------------------------------------
(* The conditions kept during the walk are those in force. *)

(* An element with a branch of its own chain inside.                       *)
HasNested(b) == \E j \in Elements : b \in Above[j] /\ Branch[j] # <<>>

UnderWay(i) == \E k \in DOMAIN open : open[k].node = i

(* One that was left is a branch and has another chain inside.             *)
ClosedNested == \E b \in Elements : ~UnderWay(b) /\ Branch[b] # <<>> /\ HasNested(b)

(* A call knows whether its element is a branch, and its chain goes on.    *)
CallSays(k) ==
    /\ open[k].branch = IF Branch[open[k].node] = <<>> THEN "none" ELSE FirstDirective(El(k))
    /\ open[k].chain = "valid" <=> GoesOnFrom(open[k].node)

ChainSays(b) == condChain = "valid" <=> GoesOnFrom(b)

(* The length saved is that outside of the chain. *)
SavedFor(i) == saved = Len(InForce[nodes[i].parent])

SavedSay == \A i : UnderWay(i) /\ Branch[i] # <<>> /\ ~HasNested(i) => SavedFor(i)

(* The conditions are those in force here, and while a chain goes on those *)
(* of its last branch.                                                     *)
CondsSay(b) ==
    /\ condChain # "valid" => conds = InForce[Parent]
    /\ condChain = "valid" => saved = Len(InForce[Parent]) /\ conds = InForce[Parent] \o Branch[b]

GuardOk(t) ==
    t.node \in Nodes /\ (t.guards = InForce[t.node] \/ NestedChainBefore(t.node))

IsGuards(t) == t.t = "guards"
GuardsOk == \A t : (\E k \in DOMAIN out : out[k] = t) /\ IsGuards(t) => GuardOk(t)

GuardsInv ==
    /\ \A k \in DOMAIN open : CallSays(k)
    /\ \A b : Sibling(b) => ChainSays(b)
    /\ done => open = <<>>
    /\ GuardsOk
    /\ done \/ ClosedNested \/ (SavedSay /\ \A b : Sibling(b) => CondsSay(b))

(* What the nodes say of those there are stays.                            *)
MeaningStays ==
    /\ \A i \in Nodes : i \in Nodes' /\ nodes'[i] = nodes[i] /\ Above'[i] = Above[i]
    /\ Elements \subseteq Elements' /\ Elements \subseteq Nodes
    /\ \A i \in Nodes \cup {0} : Branch'[i] = Branch[i] /\ InForce'[i] = InForce[i]

(* A node more leaves what those there are mean. *)
LEMMA MeaningGrown ==
    ASSUME WalkTree, WalkTree', NEW n, Grow(n)
    PROVE  MeaningStays
<1>1. /\ NodesGrow
      /\ Elements' = IF n.kind = "element" THEN Elements \cup {This} ELSE Elements
  BY NodesGrowOne
<1>2. TreeInv /\ TreeInv' /\ Nodes = 1..Len(nodes) /\ Len(nodes) \in Nat
  BY NodesAre DEF WalkTree, TreeInv
<1>3. \A i \in Nodes \cup {0} : i \in 0..Len(nodes)
  BY <1>2
<1>4. \A i \in 0..Len(nodes) : Above'[i] = Above[i]
  BY <1>2, AboveGrown
<1>5. \A i \in 0..Len(nodes) : Branch'[i] = Branch[i]
  BY BranchGrown
<1>6. \A i \in 0..Len(nodes) : InForce'[i] = InForce[i]
  <2>. PICK i : i = This
    OBVIOUS
  <2>. QED
    BY InForceGrown
<1>7. Elements \subseteq Nodes
  BY DEF Elements
<1>. QED
  BY <1>1, <1>3, <1>4, <1>5, <1>6, <1>7 DEF NodesGrow, MeaningStays

(* A node from which a chain goes on stays one. *)
LEMMA GoesOnStays ==
    ASSUME MeaningStays, NEW b \in Nodes \cup {0}
    PROVE  GoesOnFrom(b)' <=> GoesOnFrom(b)
BY DEF MeaningStays, GoesOnFrom

(* A chain inside stays inside. *)
LEMMA NestedStays ==
    ASSUME MeaningStays, NEW b, HasNested(b)
    PROVE  HasNested(b)'
<1>1. PICK j \in Elements : b \in Above[j] /\ Branch[j] # <<>>
  BY DEF HasNested
<1>2. j \in Elements' /\ Above'[j] = Above[j] /\ Branch'[j] = Branch[j]
  BY DEF MeaningStays
<1>. QED
  BY <1>1, <1>2 DEF HasNested

(* Guards that are right stay right. *)
LEMMA GuardStays ==
    ASSUME MeaningStays, NEW t, GuardOk(t)
    PROVE  GuardOk(t)'
<1>. PICK i : i = t.node
  OBVIOUS
<1>1. i \in Nodes /\ i \in Nodes' /\ Above'[i] = Above[i] /\ InForce'[i] = InForce[i]
  BY DEF GuardOk, MeaningStays
<1>2. ASSUME NestedChainBefore(i) PROVE NestedChainBefore(i)'
  <2>1. PICK b \in Elements : b < i /\ b \notin Above[i] /\ Branch[b] # <<>> /\ HasNested(b)
    BY <1>2 DEF NestedChainBefore, HasNested
  <2>2. b \in Elements' /\ Branch'[b] = Branch[b] /\ HasNested(b)'
    BY <2>1, NestedStays DEF MeaningStays
  <2>. QED
    BY <1>1, <2>1, <2>2 DEF NestedChainBefore, HasNested
<1>. QED
  BY <1>1, <1>2 DEF GuardOk

(* A call that stays says what it said. *)
LEMMA CallStays ==
    ASSUME MeaningStays, NEW k \in DOMAIN open, open'[k] = open[k], open[k].node \in Elements, CallSays(k)
    PROVE  CallSays(k)'
<1>1. open[k].node \in Nodes /\ nodes'[open[k].node] = nodes[open[k].node]
      /\ Branch'[open[k].node] = Branch[open[k].node]
  BY DEF MeaningStays
<1>2. El(k)' = El(k)
  BY <1>1 DEF El
<1>3. GoesOnFrom(open[k].node)' <=> GoesOnFrom(open[k].node)
  BY <1>1 DEF GoesOnFrom
<1>. QED
  BY <1>1, <1>2, <1>3 DEF CallSays

(* A nested chain that was left stays behind. *)
LEMMA NestedClosedStays ==
    ASSUME MeaningStays, ClosedNested, \A b \in Elements : UnderWay(b)' => UnderWay(b)
    PROVE  ClosedNested'
<1>1. PICK b \in Elements : ~UnderWay(b) /\ Branch[b] # <<>> /\ HasNested(b)
  BY DEF ClosedNested
<1>2. b \in Elements' /\ Branch'[b] = Branch[b] /\ HasNested(b)'
  BY <1>1, NestedStays DEF MeaningStays
<1>3. ~UnderWay(b)'
  BY <1>1
<1>. QED
  BY <1>1, <1>2, <1>3 DEF ClosedNested

(* A leaf does not come between the branches of a chain. *)
LEMMA SiblingLeaf ==
    ASSUME WalkTree, NEW n, Grow(n), n.kind # "element", UNCHANGED open, NEW b, Sibling(b)'
    PROVE  Sibling(b) /\ Parent' = Parent
<1>1. NodesGrow /\ Elements' = Elements
  BY NodesGrowOne
<1>2. Parent' = Parent
  BY DEF Parent, Last
<1>3. \A j \in Elements : nodes'[j] = nodes[j]
  BY <1>1 DEF Elements, NodesGrow
<1>. QED
  BY <1>1, <1>2, <1>3 DEF Sibling

(* The guards of a text stay right if the new ones are. *)
LEMMA GuardsStay ==
    ASSUME MeaningStays, GuardsOk, TextGrows,
           \A t : (\E k \in NewTokens : out'[k] = t) /\ IsGuards(t) => GuardOk(t)'
    PROVE  GuardsOk'
<1>1. ASSUME NEW k \in DOMAIN out', NEW t, out'[k] = t, IsGuards(t) PROVE GuardOk(t)'
  <2>1. k \in 1..Len(out')
    BY SeqIs DEF TextGrows
  <2>2. CASE k \in 1..Len(out)
    <3>1. k \in DOMAIN out /\ out'[k] = out[k]
      BY <2>2, SeqIs DEF TextGrows
    <3>2. GuardOk(t)
      BY <1>1, <3>1 DEF GuardsOk
    <3>. QED
      BY <3>2, GuardStays
  <2>3. CASE k \in NewTokens
    BY <1>1, <2>3
  <2>. QED
    BY <2>1, <2>2, <2>3 DEF NewTokens, TextGrows
<1>. QED
  BY <1>1 DEF GuardsOk

(* Comments, texts and interpolations write no guards. *)
LEMMA GuardsLeaf ==
    ASSUME WalkTree, WalkTree', BareInv, GuardsInv, VisitComment \/ VisitText \/ VisitInterpolation
    PROVE  GuardsInv'
<1>1. AnySeq(out)
  BY DEF BareInv, UsesInv
<1>2. PICK n \in catalogue :
        /\ Grow(n) /\ n.kind # "element"
        /\ UNCHANGED <<open, condChain>>
        /\ \/ n.kind = "interpolation" /\ \E s : LeafText(s) /\ out' = out \o s
           \/ out' = out
  BY <1>1, LeafIs
<1>3. UNCHANGED <<conds, saved, done>>
  BY DEF VisitComment, VisitText, VisitInterpolation
<1>4. TextGrows
  BY <1>1, <1>2, LeafStack DEF TextGrows
<1>5. MeaningStays /\ Elements' = Elements
  BY <1>2, MeaningGrown, NodesGrowOne
<1>6. \A b : UnderWay(b)' <=> UnderWay(b)
  BY <1>2 DEF UnderWay
<1>7. \A k \in DOMAIN open : open[k].node \in Elements
  BY DEF WalkTree, TreeInv
<1>8. \A k \in DOMAIN open' : CallSays(k)'
  BY <1>2, <1>5, <1>7, CallStays DEF GuardsInv
<1>9. \A b : Sibling(b)' => Sibling(b) /\ b \in Nodes \cup {0} /\ Parent' = Parent
  BY <1>2, SiblingLeaf DEF Sibling, Elements
<1>10. \A b : Sibling(b)' => ChainSays(b)'
  BY <1>2, <1>5, <1>9, GoesOnStays DEF GuardsInv, ChainSays
<1>11. GuardsOk'
  <2>1. ASSUME NEW k \in NewTokens PROVE out'[k].t # "guards"
    <3>1. CASE out' = out
      BY <1>4, <3>1 DEF NewTokens, TextGrows
    <3>2. ASSUME NEW s, LeafText(s), out' = out \o s PROVE out'[k].t # "guards"
      <4>. PICK m : m = Len(out)
        OBVIOUS
      <4>. PICK j : j = k - m
        OBVIOUS
      <4>1. /\ Len(out') = m + Len(s) /\ m \in Nat /\ Len(s) \in Nat
            /\ \A i \in 1..Len(s) : out'[m + i] = s[i] /\ s[i].t # "guards"
        BY <1>1, <3>2, TextGrown DEF LeafText
      <4>2. k \in (m + 1)..(m + Len(s))
        BY <4>1 DEF NewTokens
      <4>3. j \in 1..Len(s) /\ m + j = k
        BY <4>1, <4>2
      <4>. QED
        BY <4>1, <4>3
    <3>. QED
      BY <1>2, <3>1, <3>2
  <2>2. \A t : ~((\E k \in NewTokens : out'[k] = t) /\ IsGuards(t))
    BY <2>1 DEF IsGuards
  <2>. QED
    BY <1>4, <1>5, <2>2, GuardsStay DEF GuardsInv
<1>12. ASSUME ~done', ~ClosedNested'
       PROVE  SavedSay' /\ \A b : Sibling(b)' => CondsSay(b)'
  <2>1. ~ClosedNested
    BY <1>5, <1>6, <1>12, NestedClosedStays
  <2>2. SavedSay /\ \A b : Sibling(b) => CondsSay(b)
    BY <1>3, <1>12, <2>1 DEF GuardsInv
  <2>3. SavedSay'
    <3>1. ASSUME NEW i, UnderWay(i), Branch'[i] # <<>>, ~HasNested(i)'
          PROVE  SavedFor(i)'
      <4>1. /\ i \in Nodes /\ nodes'[i] = nodes[i] /\ Branch'[i] = Branch[i]
            /\ nodes[i].parent \in Nodes \cup {0}
        <5>1. /\ i \in Nodes /\ nodes[i].parent \in 0..(i - 1)
              /\ Nodes = 1..Len(nodes) /\ Len(nodes) \in Nat
          BY <1>7, <3>1, NodesAre DEF WalkTree, TreeInv, Elements, UnderWay
        <5>2. nodes[i].parent \in Nodes \cup {0}
          BY <5>1
        <5>. QED
          BY <1>5, <5>1, <5>2 DEF MeaningStays
      <4>2. ~HasNested(i)
        BY <1>5, <3>1, NestedStays
      <4>3. SavedFor(i)
        BY <2>2, <3>1, <4>1, <4>2 DEF SavedSay
      <4>4. InForce'[nodes[i].parent] = InForce[nodes[i].parent]
        BY <1>5, <4>1 DEF MeaningStays
      <4>. QED
        BY <1>3, <4>1, <4>3, <4>4 DEF SavedFor
    <3>. QED
      BY <1>6, <3>1 DEF SavedSay
  <2>4. ASSUME NEW b, Sibling(b)' PROVE CondsSay(b)'
    <3>1. CondsSay(b) /\ b \in Nodes \cup {0} /\ Parent' = Parent
      BY <1>9, <2>2, <2>4
    <3>2. Parent \in Nodes \cup {0}
      <4>1. Parent \in 0..Len(nodes) /\ Nodes = 1..Len(nodes) /\ Len(nodes) \in Nat
        BY ParentIs, NodesAre DEF WalkTree, TreeInv
      <4>. QED
        BY <4>1
    <3>3. InForce'[Parent] = InForce[Parent] /\ Branch'[b] = Branch[b]
      BY <1>5, <3>1, <3>2 DEF MeaningStays
    <3>. QED
      BY <1>2, <1>3, <3>1, <3>3 DEF CondsSay
  <2>. QED
    BY <2>3, <2>4
<1>13. done' => open' = <<>>
  BY <1>2, <1>3 DEF GuardsInv
<1>. QED
  BY <1>8, <1>10, <1>11, <1>12, <1>13 DEF GuardsInv

Directives == {"none", "if", "else-if", "else"}

(* The directive of an element is one of these. *)
LEMMA DirectiveIs ==
    ASSUME WalkTree, NEW e \in catalogue, e.kind = "element"
    PROVE  FirstDirective(e) \in Directives
<1>1. e \in UNION Catalogues
  BY DEF WalkTree, TreeInv, WalkTyped
<1>2. e.conds # <<>> => e.conds[1].dir \in {"if", "else-if", "else"}
  BY <1>1, CataloguesAssumption
<1>. QED
  BY <1>2 DEF FirstDirective, Directives

(* The conditions in force around the next node, and the branch before it. *)
LEMMA MeaningHere ==
    ASSUME WalkTree, NEW b, Sibling(b)
    PROVE  /\ InForce[Parent] \in Seq(Conditions) /\ Branch[b] \in Seq(Conditions)
           /\ b \in 0..Len(nodes) /\ Parent \in 0..Len(nodes)
<1>1. Parent \in 0..Len(nodes) /\ Nodes = 1..Len(nodes) /\ Len(nodes) \in Nat
  BY ParentIs, NodesAre DEF WalkTree, TreeInv
<1>2. b \in 0..Len(nodes)
  BY <1>1 DEF Sibling, Elements
<1>3. BranchSolved /\ InForceSolved
  BY BranchIs, InForceIs DEF WalkTree
<1>. QED
  BY <1>1, <1>2, <1>3 DEF BranchSolved, InForceSolved

BranchStarts(e) ==
    FirstDirective(e) = "if" \/ (FirstDirective(e) \in {"else-if", "else"} /\ condChain = "valid")

(* Sequences that are not empty. *)
LEMMA NotEmpty ==
    ASSUME NEW s \in Seq(Conditions), NEW c \in Conditions
    PROVE  /\ <<c>> # <<>> /\ <<c>> \in Seq(Conditions)
           /\ Append(s, c) # <<>> /\ Append(s, c) \in Seq(Conditions)
           /\ s # <<>> => NegateLast(s) # <<>>
<1>1. NegateLast(s) \in Seq(Conditions) /\ Len(NegateLast(s)) = Len(s)
  BY NegateLastKeeps
<1>2. ASSUME s # <<>> PROVE NegateLast(s) # <<>>
  <2>1. Len(s) # 0
    BY <1>2
  <2>. QED
    BY <1>1, <2>1
<1>. PICK r : r = <<c>>
  OBVIOUS
<1>. PICK v : v = Append(s, c)
  OBVIOUS
<1>3. r \in Seq(Conditions) /\ Len(r) = 1
  OBVIOUS
<1>4. v \in Seq(Conditions) /\ Len(v) = Len(s) + 1 /\ Len(s) \in Nat
  OBVIOUS
<1>5. r # <<>>
  BY <1>3
<1>6. v # <<>>
  BY <1>4
<1>. QED
  BY <1>2, <1>3, <1>4, <1>5, <1>6

(* An element has a branch if it begins a chain or goes on with a valid    *)
(* one.                                                                    *)
LEMMA BranchWhen ==
    ASSUME WalkTree, NEW b, Sibling(b), ChainSays(b), NEW e, NEW i \in Nat
    PROVE  /\ BranchNext(e, b, i) \in Seq(Conditions)
           /\ BranchNext(e, b, i) # <<>> <=> BranchStarts(e)
<1>. PICK c : c = Condition(i)
  OBVIOUS
<1>. PICK s : s = Branch[b]
  OBVIOUS
<1>. PICK u : u = NegateLast(s)
  OBVIOUS
<1>. PICK v : v = Append(u, c)
  OBVIOUS
<1>1. s \in Seq(Conditions) /\ c \in Conditions
  BY MeaningHere DEF Condition, Conditions
<1>2. /\ u \in Seq(Conditions) /\ (s # <<>> => u # <<>>)
      /\ <<c>> # <<>> /\ <<c>> \in Seq(Conditions)
  BY <1>1, NotEmpty, NegateLastKeeps
<1>3. v # <<>> /\ v \in Seq(Conditions)
  BY <1>1, <1>2, NotEmpty
<1>4. <<>> \in Seq(Conditions)
  OBVIOUS
<1>5. condChain = "valid" <=> GoesOnFrom(b)
  BY DEF ChainSays
<1>6. GoesOnFrom(b) => s # <<>>
  BY DEF GoesOnFrom
<1>7. CASE FirstDirective(e) = "if"
  BY <1>2, <1>7 DEF BranchNext, BranchStarts
<1>8. CASE FirstDirective(e) = "else-if"
  BY <1>3, <1>4, <1>5, <1>6, <1>8 DEF BranchNext, BranchStarts
<1>9. CASE FirstDirective(e) = "else"
  BY <1>2, <1>4, <1>5, <1>6, <1>9 DEF BranchNext, BranchStarts
<1>10. CASE FirstDirective(e) \notin {"if", "else-if", "else"}
  BY <1>4, <1>10 DEF BranchNext, BranchStarts
<1>. QED
  BY <1>7, <1>8, <1>9, <1>10

(* So conditionalDirective says, and so the chain goes on. *)
LEMMA StartsIs ==
    ASSUME WalkTree, NEW e \in catalogue, e.kind = "element"
    PROVE  /\ Effective(e) = IF BranchStarts(e) THEN FirstDirective(e) ELSE "none"
           /\ ChainAfter(e) = "valid"
                <=> (FirstDirective(e) \in {"if", "else-if"} /\ BranchStarts(e))
<1>. PICK d : d = FirstDirective(e)
  OBVIOUS
<1>1. d \in Directives
  BY DirectiveIs
<1>2. Effective(e) = IF BranchStarts(e) THEN d ELSE "none"
  BY DEF Effective, BranchStarts
<1>3. CASE d = "if"
  BY <1>2, <1>3 DEF ChainAfter, BranchStarts
<1>4. CASE d = "else-if"
  BY <1>2, <1>4 DEF ChainAfter, BranchStarts
<1>5. CASE d = "else"
  BY <1>2, <1>5 DEF ChainAfter, BranchStarts
<1>6. CASE d = "none"
  BY <1>2, <1>6 DEF ChainAfter, BranchStarts
<1>. QED
  BY <1>1, <1>2, <1>3, <1>4, <1>5, <1>6 DEF Directives

(* What is left when a chain that went on is cut off. *)
LEMMA RestoredHere ==
    ASSUME WalkTree, NEW b, Sibling(b), CondsSay(b)
    PROVE  Restored = InForce[Parent]
<1>. PICK s : s = InForce[Parent]
  OBVIOUS
<1>. PICK t : t = Branch[b]
  OBVIOUS
<1>1. s \in Seq(Conditions) /\ t \in Seq(Conditions)
  BY MeaningHere
<1>2. CASE condChain = "valid"
  <2>1. saved = Len(s) /\ conds = s \o t
    BY <1>2 DEF CondsSay
  <2>2. SubSeq(s \o t, 1, Len(s)) = s
    BY <1>1, CutBehind
  <2>. QED
    BY <1>2, <2>1, <2>2 DEF Restored
<1>3. CASE condChain # "valid"
  BY <1>3 DEF CondsSay, Restored
<1>. QED
  BY <1>2, <1>3

(* The conditions inside an element are those around it and its branch     *)
(* (visit, from nextChain to the children).                                *)
LEMMA CondsOpened ==
    ASSUME WalkTree, NEW b, Sibling(b), ChainSays(b), CondsSay(b),
           NEW e \in catalogue, e.kind = "element", NEW i, i = This
    PROVE  CondsAfter(e) = InForce[Parent] \o BranchNext(e, b, i)
<1>. PICK s : s = InForce[Parent]
  OBVIOUS
<1>. PICK t : t = Branch[b]
  OBVIOUS
<1>. PICK c : c = Condition(i)
  OBVIOUS
<1>. PICK u : u = NegateLast(t)
  OBVIOUS
<1>. PICK d : d = FirstDirective(e)
  OBVIOUS
<1>1. s \in Seq(Conditions) /\ t \in Seq(Conditions)
  BY MeaningHere
<1>2. c \in Conditions
  <2>1. This \in Nat
    BY NodesAre DEF WalkTree, TreeInv, This
  <2>. QED
    BY <2>1 DEF Condition, Conditions
<1>3. Restored = s
  BY RestoredHere
<1>4. d \in Directives
  BY DirectiveIs
<1>5. condChain = "valid" <=> GoesOnFrom(b)
  BY DEF ChainSays
<1>6. condChain # "valid" => conds = s \o <<>>
  BY <1>1, NoneBehind DEF CondsSay
<1>7. ASSUME condChain = "valid" PROVE NegateLast(conds) = s \o u
  <2>1. t # <<>> /\ conds = s \o t
    BY <1>5, <1>7 DEF CondsSay, GoesOnFrom
  <2>. QED
    BY <1>1, <2>1, NegateBehind
<1>8. ASSUME condChain = "valid" PROVE Append(NegateLast(conds), c) = s \o Append(u, c)
  <2>1. u \in Seq(Conditions)
    BY <1>1, NegateLastKeeps
  <2>2. Append(s \o u, c) = s \o Append(u, c)
    BY <1>1, <1>2, <2>1, AppendBehind
  <2>. QED
    BY <1>7, <1>8, <2>2, Zenon
<1>9. Append(s, c) = s \o <<c>> /\ s = s \o <<>>
  BY <1>1, <1>2
<1>10. CASE d = "if"
  BY <1>3, <1>9, <1>10 DEF CondsAfter, Effective, BranchNext
<1>11. CASE d = "else-if"
  BY <1>5, <1>6, <1>8, <1>11 DEF CondsAfter, Effective, BranchNext
<1>12. CASE d = "else"
  BY <1>5, <1>6, <1>7, <1>12 DEF CondsAfter, Effective, BranchNext
<1>13. CASE d = "none"
  BY <1>3, <1>9, <1>13 DEF CondsAfter, Effective, BranchNext
<1>. QED
  BY <1>4, <1>10, <1>11, <1>12, <1>13 DEF Directives

(* An element under way stays as it is. *)
LEMMA UnderWayIs ==
    ASSUME WalkTree, MeaningStays, NEW x, UnderWay(x)
    PROVE  /\ x \in Elements /\ x \in Nodes /\ nodes'[x] = nodes[x] /\ Branch'[x] = Branch[x]
           /\ InForce'[nodes[x].parent] = InForce[nodes[x].parent]
<1>1. /\ x \in Nodes /\ x \in Elements /\ nodes[x].parent \in 0..(x - 1)
      /\ Nodes = 1..Len(nodes) /\ Len(nodes) \in Nat
  BY NodesAre DEF WalkTree, TreeInv, Elements, UnderWay
<1>2. nodes[x].parent \in Nodes \cup {0}
  BY <1>1
<1>. QED
  BY <1>1, <1>2 DEF MeaningStays

(* The length saved for it, too. *)
LEMMA SavedStays ==
    ASSUME WalkTree, MeaningStays, NEW x, UnderWay(x), SavedFor(x), saved' = saved
    PROVE  SavedFor(x)'
<1>1. nodes'[x] = nodes[x] /\ InForce'[nodes[x].parent] = InForce[nodes[x].parent]
  BY UnderWayIs
<1>. QED
  BY <1>1 DEF SavedFor

(* The call of an element that is opened, and what the nodes say of it.    *)
OpensAt(e, i, b) ==
    /\ Opens(e) /\ i = This
    /\ Sibling(b) /\ ChainSays(b)

OpenedAt(e, i, b) ==
    /\ i \in Nat \ {0} /\ i \notin Nodes /\ Nodes' = Nodes \cup {i} /\ Elements' = Elements \cup {i}
    /\ nodes'[i] = [parent |-> Parent, is |-> e]
    /\ \A j \in Nodes : j < i
    /\ Parent' = i
    /\ Above'[i] = Around(Len(open))
    /\ Branch'[i] = BranchNext(e, b, i)
    /\ Branch'[i] # <<>> <=> BranchStarts(e)
    /\ InForce'[i] = InForce[Parent] \o Branch'[i]
    /\ InForce'[Parent] = InForce[Parent]
    /\ MeaningStays

(* What opening an element does to the nodes and what they mean. *)
LEMMA OpenedIs ==
    ASSUME WalkTree, WalkTree', NEW e, NEW i, NEW b, OpensAt(e, i, b)
    PROVE  OpenedAt(e, i, b)
<1>1. Opens(e) /\ Grow(e) /\ e.kind = "element" /\ i = This /\ Sibling(b) /\ ChainSays(b)
  BY DEF OpensAt, Opens
<1>2. /\ Nodes' = Nodes \cup {i} /\ i \in Nat /\ i \notin Nodes
      /\ nodes'[i] = [parent |-> Parent, is |-> e]
      /\ Elements' = Elements \cup {i}
  BY <1>1, NodesGrowOne
<1>3. Nodes = 1..Len(nodes) /\ Len(nodes) \in Nat /\ i = Len(nodes) + 1
  BY <1>1, NodesAre DEF WalkTree, TreeInv, This
<1>4. i \in Nat \ {0} /\ \A j \in Nodes : j < i
  BY <1>3
<1>5. Parent' = i
  <2>. PICK n : n = Len(open)
    OBVIOUS
  <2>1. /\ n \in Nat /\ Len(open') = n + 1
        /\ open'[n + 1] = [node |-> i, chain |-> ChainAfter(e), ctx |-> parentCtx,
                           branch |-> Effective(e)]
    BY <1>1, CallOpened
  <2>2. Parent' = IF open' = <<>> THEN 0 ELSE open'[Len(open')].node
    BY DEF Parent, Last
  <2>3. open' # <<>>
    <3>1. Len(open') # 0
      BY <2>1
    <3>. QED
      BY <3>1
  <2>. QED
    BY <2>1, <2>2, <2>3
<1>6. Above'[i] = Around(Len(open))
  <2>1. Above'[i] = {Parent} \cup Above[Parent]
    BY <1>1, AboveGrown DEF WalkTree
  <2>. QED
    BY <2>1, AboveNext DEF WalkTree
<1>7. Branch'[i] = BranchNext(e, b, i)
  BY <1>1, BranchIsNext
<1>8. BranchNext(e, b, i) # <<>> <=> BranchStarts(e)
  BY <1>1, <1>2, BranchWhen
<1>9. /\ InForce'[i] = InForce[Parent] \o Branch'[i]
      /\ \A j \in 0..Len(nodes) : InForce'[j] = InForce[j]
  BY <1>1, InForceGrown
<1>10. Parent \in 0..Len(nodes)
  BY ParentIs DEF WalkTree
<1>11. MeaningStays
  BY <1>1, MeaningGrown
<1>. QED
  BY <1>2, <1>4, <1>5, <1>6, <1>7, <1>8, <1>9, <1>10, <1>11 DEF OpenedAt

(* The new call knows its branch, the others still do. *)
LEMMA CallsOpened ==
    ASSUME WalkTree, WalkTree', NEW e, NEW i, NEW b, OpensAt(e, i, b),
           \A k \in DOMAIN open : CallSays(k)
    PROVE  \A k \in DOMAIN open' : CallSays(k)'
<1>. PICK n : n = Len(open)
  OBVIOUS
<1>1. Opens(e) /\ e \in catalogue /\ e.kind = "element" /\ i = This
  BY DEF OpensAt, Opens
<1>2. /\ n \in Nat /\ DOMAIN open = 1..n /\ DOMAIN open' = 1..(n + 1)
      /\ \A k \in 1..n : open'[k] = open[k]
      /\ open'[n + 1] = [node |-> i, chain |-> ChainAfter(e), ctx |-> parentCtx,
                         branch |-> Effective(e)]
  BY <1>1, CallOpened
<1>3. /\ MeaningStays /\ i # 0 /\ nodes'[i] = [parent |-> Parent, is |-> e]
      /\ Branch'[i] # <<>> <=> BranchStarts(e)
  BY OpenedIs DEF OpenedAt
<1>4. ASSUME NEW k \in 1..n PROVE CallSays(k)'
  <2>1. open[k].node \in Elements
    BY <1>2 DEF WalkTree, TreeInv
  <2>. QED
    BY <1>2, <1>3, <2>1, CallStays
<1>5. ASSUME NEW k, k = n + 1 PROVE CallSays(k)'
  <2>1. open'[k].node = i /\ open'[k].chain = ChainAfter(e) /\ open'[k].branch = Effective(e)
    BY <1>2, <1>5
  <2>2. nodes'[i].is = e
    BY <1>3
  <2>3. El(k)' = e
    BY <2>1, <2>2 DEF El
  <2>4. /\ Effective(e) = IF BranchStarts(e) THEN FirstDirective(e) ELSE "none"
        /\ ChainAfter(e) = "valid" <=> (FirstDirective(e) \in {"if", "else-if"} /\ BranchStarts(e))
    BY <1>1, StartsIs
  <2>5. GoesOnFrom(i)' <=> (FirstDirective(e) \in {"if", "else-if"} /\ Branch'[i] # <<>>)
    BY <1>3, <2>2 DEF GoesOnFrom
  <2>. QED
    BY <1>3, <2>1, <2>3, <2>4, <2>5 DEF CallSays
<1>6. \A k \in DOMAIN open' : k \in 1..n \/ k = n + 1
  BY <1>2
<1>. QED
  BY <1>4, <1>5, <1>6

(* Nothing is before the first child.                                      *)
LEMMA NoneBefore ==
    ASSUME WalkTree, WalkTree', NEW e, NEW i, NEW b, OpensAt(e, i, b), NEW c, Sibling(c)'
    PROVE  c = 0
<1>1. i \in Nat /\ Nodes' = Nodes \cup {i} /\ Parent' = i /\ \A j \in Nodes : j < i
  BY OpenedIs DEF OpenedAt
<1>2. SUFFICES ASSUME c # 0 PROVE FALSE
  OBVIOUS
<1>3. c \in Nodes' /\ nodes'[c].parent = i
  BY <1>1, <1>2 DEF Sibling, Elements
<1>4. nodes'[c].parent \in 0..(c - 1)
  BY <1>3 DEF WalkTree, TreeInv
<1>5. Nodes = 1..Len(nodes) /\ Len(nodes) \in Nat
  BY NodesAre DEF WalkTree, TreeInv
<1>. QED
  BY <1>1, <1>3, <1>4, <1>5

(* The elements under way are those above the new one, and it. *)
LEMMA UnderWayOpened ==
    ASSUME WalkTree, WalkTree', NEW e, NEW i, NEW b, OpensAt(e, i, b), NEW x
    PROVE  /\ UnderWay(x)' <=> (UnderWay(x) \/ x = i)
           /\ UnderWay(x) => x \in Above'[i]
           /\ x \in Above'[i] => x = 0 \/ UnderWay(x)
<1>. PICK n : n = Len(open)
  OBVIOUS
<1>1. Opens(e) /\ i = This /\ Above'[i] = Around(Len(open))
  BY OpenedIs DEF OpensAt, OpenedAt
<1>2. /\ n \in Nat /\ DOMAIN open = 1..n /\ DOMAIN open' = 1..(n + 1)
      /\ \A k \in 1..n : open'[k] = open[k]
      /\ open'[n + 1] = [node |-> i, chain |-> ChainAfter(e), ctx |-> parentCtx,
                         branch |-> Effective(e)]
  BY <1>1, CallOpened
<1>3. open'[n + 1].node = i
  BY <1>2
<1>4. \A k : k \in 1..(n + 1) <=> k \in 1..n \/ k = n + 1
  BY <1>2
<1>5. UnderWay(x)' <=> (UnderWay(x) \/ x = i)
  BY <1>2, <1>3, <1>4 DEF UnderWay
<1>6. Around(n) = {0} \cup {open[j].node : j \in 1..n}
  BY DEF Around
<1>. QED
  BY <1>1, <1>2, <1>5, <1>6 DEF UnderWay

(* The guards an element writes are its own, and the conditions inside it. *)
LEMMA GuardsToken ==
    ASSUME NEW e, Effective(e) \in Directives, NEW t, TokenOf(e, t), IsGuards(t)
    PROVE  t.node = This /\ t.guards = CondsAfter(e)
<1>. PICK i : i = This
  OBVIOUS
<1>. PICK cs : cs = CondsAfter(e)
  OBVIOUS
<1>1. CASE Effective(e) # "none" /\ t = [t |-> Effective(e), node |-> This]
  <2>1. t.t = Effective(e)
    BY <1>1
  <2>. QED
    BY <2>1 DEF IsGuards, Directives
<1>2. ~IsExpr(t, This)
  BY DEF IsGuards, IsExpr
<1>3. CASE t = [t |-> "for", node |-> This] \/ t = [t |-> "slot", node |-> This]
           \/ t = [t |-> "own", node |-> This]
  BY <1>3 DEF IsGuards
<1>4. CASE t = [t |-> "guards", node |-> This, guards |-> CondsAfter(e)]
  BY <1>4
<1>. QED
  BY <1>1, <1>2, <1>3, <1>4 DEF TokenOf, OwnToken

(* After a nested chain anything goes, and the new node is behind it.      *)
LEMMA NestedBefore ==
    ASSUME WalkTree, WalkTree', NEW e, NEW i, NEW b, OpensAt(e, i, b), ClosedNested
    PROVE  ClosedNested' /\ NestedChainBefore(i)'
<1>1. /\ MeaningStays /\ i \notin Nodes /\ \A j \in Nodes : j < i
  BY OpenedIs DEF OpenedAt
<1>2. PICK c \in Elements : ~UnderWay(c) /\ Branch[c] # <<>> /\ HasNested(c)
  BY DEF ClosedNested
<1>3. c \in Nodes /\ c < i /\ c # 0
  <2>1. Nodes = 1..Len(nodes) /\ Len(nodes) \in Nat
    BY NodesAre DEF WalkTree, TreeInv
  <2>2. c \in Nodes
    BY DEF Elements
  <2>. QED
    BY <1>1, <2>1, <2>2
<1>4. c \in Elements' /\ Branch'[c] = Branch[c] /\ HasNested(c)'
  BY <1>1, <1>2, <1>3, NestedStays DEF MeaningStays
<1>5. c \notin Above'[i] /\ ~UnderWay(c)'
  BY <1>1, <1>2, <1>3, UnderWayOpened
<1>. QED
  BY <1>2, <1>3, <1>4, <1>5 DEF ClosedNested, NestedChainBefore, HasNested

(* An if saves the length outside of its chain, the other branches keep    *)
(* it.                                                                     *)
LEMMA SavedOpened ==
    ASSUME WalkTree, WalkTree', NEW e, NEW i, NEW b, OpensAt(e, i, b), SavedSay, CondsSay(b)
    PROVE  SavedSay'
<1>. PICK p : p = Parent
  OBVIOUS
<1>1. /\ MeaningStays /\ i \in Elements' /\ i # 0
      /\ nodes'[i] = [parent |-> p, is |-> e]
      /\ Branch'[i] # <<>> <=> BranchStarts(e)
      /\ InForce'[p] = InForce[p]
  BY OpenedIs DEF OpenedAt
<1>2. /\ Opens(e) /\ e \in catalogue /\ e.kind = "element" /\ Sibling(b)
      /\ saved' = (IF Effective(e) = "if" THEN ChainStart ELSE saved)
  BY DEF OpensAt, Opens
<1>3. Effective(e) = IF BranchStarts(e) THEN FirstDirective(e) ELSE "none"
  BY <1>2, StartsIs
<1>4. ASSUME Branch'[i] # <<>> PROVE SavedFor(i)'
  <2>1. nodes'[i].parent = p
    BY <1>1
  <2>2. saved' = Len(InForce[p])
    <3>1. CASE FirstDirective(e) = "if"
      <4>1. ChainStart = Len(InForce[p])
        BY <1>2, RestoredHere DEF ChainStart
      <4>. QED
        BY <1>2, <1>3, <3>1, <4>1 DEF BranchStarts
    <3>2. CASE FirstDirective(e) # "if"
      <4>1. condChain = "valid"
        BY <1>1, <1>4, <3>2 DEF BranchStarts
      <4>2. saved' = saved
        BY <1>2, <1>3, <3>2
      <4>. QED
        BY <4>1, <4>2 DEF CondsSay
    <3>. QED
      BY <3>1, <3>2
  <2>. QED
    BY <1>1, <2>1, <2>2 DEF SavedFor
<1>5. ASSUME NEW x, UnderWay(x), Branch'[x] # <<>>, ~HasNested(x)' PROVE SavedFor(x)'
  <2>1. Branch'[i] = <<>>
    <3>1. x \in Above'[i]
      BY <1>5, UnderWayOpened
    <3>. QED
      BY <1>1, <1>5, <3>1 DEF HasNested
  <2>2. saved' = saved
    BY <1>1, <1>2, <1>3, <2>1
  <2>3. Branch[x] # <<>>
    BY <1>1, <1>5, UnderWayIs
  <2>4. ~HasNested(x)
    BY <1>1, <1>5, NestedStays
  <2>5. SavedFor(x)
    BY <1>5, <2>3, <2>4 DEF SavedSay
  <2>. QED
    BY <1>1, <1>5, <2>2, <2>5, SavedStays
<1>6. ASSUME NEW x, UnderWay(x)', Branch'[x] # <<>>, ~HasNested(x)' PROVE SavedFor(x)'
  <2>1. UnderWay(x) \/ x = i
    BY <1>6, UnderWayOpened
  <2>. QED
    BY <1>4, <1>5, <1>6, <2>1
<1>. QED
  BY <1>6 DEF SavedSay

(* An element before its children. *)
LEMMA GuardsOpen ==
    ASSUME WalkTree, WalkTree', BareInv, GuardsInv, OpenElement
    PROVE  GuardsInv'
<1>. PICK i : i = This
  OBVIOUS
<1>1. PICK e : Opens(e)
  BY OpenElementIs
<1>2. PICK b : Sibling(b)
  BY SiblingExists
<1>3. OpensAt(e, i, b)
  BY <1>1, <1>2 DEF OpensAt, GuardsInv
<1>4. OpenedAt(e, i, b)
  BY <1>3, OpenedIs
<1>5. /\ e \in catalogue /\ e.kind = "element"
      /\ conds' = CondsAfter(e) /\ condChain' = "none" /\ done' = done
  BY <1>1 DEF Opens
<1>6. AnySeq(out) /\ Effective(e) \in Directives
  <2>1. ChainInv
    BY DEF WalkTree
  <2>. QED
    BY <2>1, BranchType DEF BareInv, UsesInv, Directives
<1>7. MeaningStays /\ i \in Nodes' /\ i \in Nat \ {0}
  BY <1>4 DEF OpenedAt
<1>8. \A k \in DOMAIN open' : CallSays(k)'
  BY <1>3, CallsOpened DEF GuardsInv
<1>9. ASSUME NEW c, Sibling(c)' PROVE ChainSays(c)'
  <2>1. c = 0
    BY <1>3, <1>9, NoneBefore
  <2>2. ~GoesOnFrom(c)'
    BY <2>1 DEF GoesOnFrom
  <2>. QED
    BY <1>5, <2>2 DEF ChainSays
<1>10. ~done /\ ~done'
  BY <1>5 DEF OpenElement, MoreNodes
<1>11. ASSUME ~ClosedNested
       PROVE  SavedSay /\ CondsSay(b) /\ conds' = InForce'[i]
  <2>1. SavedSay /\ CondsSay(b)
    BY <1>2, <1>10, <1>11 DEF GuardsInv
  <2>2. ChainSays(b)
    BY <1>3 DEF OpensAt
  <2>3. CondsAfter(e) = InForce[Parent] \o BranchNext(e, b, i)
    BY <1>2, <1>5, <2>1, <2>2, CondsOpened
  <2>4. InForce'[i] = InForce[Parent] \o BranchNext(e, b, i)
    BY <1>4 DEF OpenedAt
  <2>. QED
    BY <1>5, <2>1, <2>3, <2>4
<1>12. GuardsOk'
  <2>1. TextGrows /\ \A k \in NewTokens : TokenOf(e, out'[k])
    <3>1. /\ AnySeq(Written(e)) /\ out' = out \o Written(e)
          /\ \A t \in Elems(Written(e)) : TokenOf(e, t)
      BY <1>1, <1>6, ElementTokens, WrittenIs DEF Opens
    <3>. PICK s : s = Written(e)
      OBVIOUS
    <3>. PICK m : m = Len(out)
      OBVIOUS
    <3>2. /\ AnySeq(out') /\ Len(out') = m + Len(s) /\ m \in Nat /\ Len(s) \in Nat
          /\ \A k \in 1..m : out'[k] = out[k]
          /\ \A k \in 0..m : Blocks'[k] = Blocks[k]
          /\ \A k \in 1..Len(s) : out'[m + k] = s[k]
      BY <1>6, <3>1, TextGrown
    <3>3. m <= Len(out')
      BY <3>2
    <3>4. TextGrows
      BY <1>6, <3>2, <3>3 DEF TextGrows
    <3>5. ASSUME NEW k \in NewTokens PROVE TokenOf(e, out'[k])
      <4>. PICK j : j = k - m
        OBVIOUS
      <4>1. k \in (m + 1)..(m + Len(s))
        BY <3>2 DEF NewTokens
      <4>2. j \in 1..Len(s) /\ m + j = k
        BY <3>2, <4>1
      <4>3. s[j] \in Elems(s)
        BY <3>1, <4>2, SeqIs DEF Elems
      <4>. QED
        BY <3>1, <3>2, <4>2, <4>3
    <3>. QED
      BY <3>4, <3>5
  <2>2. ASSUME NEW t, \E k \in NewTokens : out'[k] = t, IsGuards(t) PROVE GuardOk(t)'
    <3>1. TokenOf(e, t)
      BY <2>1, <2>2
    <3>2. t.node = i /\ t.guards = conds'
      BY <1>5, <1>6, <2>2, <3>1, GuardsToken
    <3>3. conds' = InForce'[i] \/ NestedChainBefore(i)'
      BY <1>3, <1>11, NestedBefore
    <3>. QED
      BY <1>7, <3>2, <3>3 DEF GuardOk
  <2>. QED
    BY <1>7, <2>1, <2>2, GuardsStay DEF GuardsInv
<1>13. ASSUME ~ClosedNested'
       PROVE  SavedSay' /\ \A c : Sibling(c)' => CondsSay(c)'
  <2>1. ~ClosedNested
    BY <1>3, <1>13, NestedBefore
  <2>2. SavedSay'
    BY <1>3, <1>11, <2>1, SavedOpened
  <2>3. conds' = InForce'[i] /\ Parent' = i
    BY <1>4, <1>11, <2>1 DEF OpenedAt
  <2>4. \A c : CondsSay(c)'
    BY <1>5, <2>3 DEF CondsSay
  <2>. QED
    BY <2>2, <2>4
<1>. QED
  BY <1>8, <1>9, <1>10, <1>12, <1>13 DEF GuardsInv

(* Where no node is added the nodes mean the same. *)
LEMMA MeaningSame ==
    ASSUME WalkTree, UNCHANGED nodes
    PROVE  MeaningStays
<1>1. Nodes' = Nodes /\ Elements' = Elements /\ Elements \subseteq Nodes
  BY DEF Nodes, Elements
<1>2. Above' = Above
  BY DEF Above
<1>3. \A i : ElementBefore(i)' = ElementBefore(i)
  BY <1>1 DEF ElementBefore
<1>4. Branch' = Branch
  BY <1>3 DEF Branch
<1>5. InForce' = InForce
  BY <1>4 DEF InForce
<1>. QED
  BY <1>1, <1>2, <1>4, <1>5 DEF MeaningStays

(* The call that is left, m its element and p where that stands.           *)
LeavesAt(L, m, p) ==
    /\ open # <<>> /\ L = Len(open) /\ m = open[L].node /\ p = nodes[m].parent
    /\ CloseElement

LeftAt(L, m, p) ==
    /\ L \in DOMAIN open /\ Parent = m /\ Parent' = p
    /\ m \in Elements /\ m \in Nodes /\ m # 0
    /\ \A k \in DOMAIN open' : k \in DOMAIN open /\ k # L /\ open'[k] = open[k]
    /\ \A x : UnderWay(x)' => UnderWay(x)
    /\ UnderWay(m) /\ ~UnderWay(m)'
    /\ MeaningStays

(* What leaving an element does to the calls. *)
LEMMA LeftIs ==
    ASSUME WalkTree, WalkTree', NEW L, NEW m, NEW p, LeavesAt(L, m, p)
    PROVE  LeftAt(L, m, p)
<1>1. /\ open # <<>> /\ open' = AllButLast(open) /\ UNCHANGED nodes
      /\ L = Len(open) /\ m = open[L].node /\ p = nodes[m].parent
  BY DEF LeavesAt, CloseElement
<1>2. /\ L \in Nat \ {0} /\ DOMAIN open = 1..L /\ Len(open') = L - 1 /\ DOMAIN open' = 1..(L - 1)
      /\ \A k \in 1..(L - 1) : open'[k] = open[k]
  BY <1>1, CallsClose
<1>3. L \in DOMAIN open /\ \A k \in DOMAIN open' : k \in DOMAIN open /\ k # L /\ k < L /\ open'[k] = open[k]
  BY <1>2
<1>4. m \in Elements /\ p = IF L = 1 THEN 0 ELSE open[L - 1].node
  BY <1>1, <1>3 DEF WalkTree, TreeInv
<1>5. m \in Nodes /\ m # 0
  <2>1. Nodes = 1..Len(nodes) /\ Len(nodes) \in Nat
    BY NodesAre DEF WalkTree, TreeInv
  <2>. QED
    BY <1>4, <2>1 DEF Elements
<1>6. Parent = m
  BY <1>1, ParentIs DEF WalkTree
<1>7. Parent' = p
  <2>1. Parent' = IF open' = <<>> THEN 0 ELSE open'[Len(open')].node
    BY DEF Parent, Last
  <2>2. open' = <<>> <=> L - 1 = 0
    <3>1. open' \in Seq(Visits)
      BY DEF WalkTree, TreeInv, WalkTyped
    <3>. QED
      BY <1>2, <3>1
  <2>3. L # 1 => L - 1 \in 1..(L - 1)
    BY <1>2
  <2>. QED
    BY <1>2, <1>4, <2>1, <2>2, <2>3
<1>8. \A x : UnderWay(x)' => UnderWay(x)
  BY <1>3 DEF UnderWay
<1>9. UnderWay(m)
  BY <1>1, <1>3 DEF UnderWay
<1>10. ~UnderWay(m)'
  <2>1. ASSUME NEW k \in DOMAIN open', open'[k].node = m PROVE FALSE
    <3>1. open[k].node < open[L].node /\ open[k].node = m
      BY <1>3, <2>1 DEF WalkTree, TreeInv
    <3>2. m \in Nat
      <4>1. Nodes = 1..Len(nodes) /\ Len(nodes) \in Nat
        BY NodesAre DEF WalkTree, TreeInv
      <4>. QED
        BY <1>5, <4>1
    <3>. QED
      BY <1>1, <3>1, <3>2
  <2>. QED
    BY <2>1 DEF UnderWay
<1>11. MeaningStays
  BY <1>1, MeaningSame
<1>. QED
  BY <1>3, <1>4, <1>5, <1>6, <1>7, <1>8, <1>9, <1>10, <1>11 DEF LeftAt

(* The conditions behind an element that was left.                         *)
LEMMA CondsLeft ==
    ASSUME WalkTree, WalkTree', NEW L, NEW m, NEW p, LeavesAt(L, m, p), CallSays(L),
           NEW c, Sibling(c), CondsSay(c), SavedSay, Branch[m] = <<>> \/ ~HasNested(m)
    PROVE  CondsSay(m)'
<1>. PICK s : s = InForce[p]
  OBVIOUS
<1>. PICK t : t = Branch[m]
  OBVIOUS
<1>. PICK d : d = FirstDirective(nodes[m].is)
  OBVIOUS
<1>1. LeftAt(L, m, p)
  BY LeftIs
<1>2. /\ Parent' = p /\ Parent = m /\ m \in Nodes /\ m # 0 /\ UnderWay(m)
      /\ MeaningStays /\ m = open[L].node /\ p = nodes[m].parent
  BY <1>1 DEF LeftAt, LeavesAt
<1>3. InForce'[p] = s /\ Branch'[m] = t
  BY <1>2, UnderWayIs
<1>4. s \in Seq(Conditions) /\ t \in Seq(Conditions) /\ InForce[m] = s \o t
  <2>1. BranchSolved /\ InForceSolved
    BY BranchIs, InForceIs DEF WalkTree
  <2>2. /\ Nodes = 1..Len(nodes) /\ Len(nodes) \in Nat
        /\ nodes[m].parent \in 0..(m - 1)
    BY <1>2, NodesAre DEF WalkTree, TreeInv
  <2>3. m \in 0..Len(nodes) /\ p \in 0..Len(nodes)
    BY <1>2, <2>2
  <2>. QED
    BY <1>2, <2>1, <2>3 DEF BranchSolved, InForceSolved
<1>5. Restored = s \o t
  BY <1>2, <1>4, RestoredHere
<1>6. /\ condChain' = open[L].chain /\ saved' = saved
      /\ conds' = IF open[L].branch = "else" THEN SubSeq(Restored, 1, saved) ELSE Restored
  BY DEF LeavesAt, CloseElement, Last
<1>7. /\ open[L].branch = IF t = <<>> THEN "none" ELSE d
      /\ open[L].chain = "valid" <=> (d \in {"if", "else-if"} /\ t # <<>>)
  BY <1>2 DEF CallSays, El, GoesOnFrom
<1>8. CASE t = <<>>
  <2>1. condChain' # "valid" /\ conds' = s \o t
    BY <1>5, <1>6, <1>7, <1>8
  <2>2. s \o t = s
    BY <1>4, <1>8, NoneBehind
  <2>. QED
    BY <1>2, <1>3, <2>1, <2>2 DEF CondsSay
<1>9. CASE t # <<>>
  <2>1. saved = Len(s)
    BY <1>2, <1>9 DEF SavedSay, SavedFor
  <2>2. CASE d = "else"
    <3>1. condChain' # "valid" /\ conds' = SubSeq(s \o t, 1, Len(s))
      BY <1>5, <1>6, <1>7, <1>9, <2>1, <2>2
    <3>2. SubSeq(s \o t, 1, Len(s)) = s
      BY <1>4, CutBehind
    <3>. QED
      BY <1>2, <1>3, <3>1, <3>2 DEF CondsSay
  <2>3. CASE d # "else"
    <3>1. d \in {"if", "else-if"}
      <4>1. t = BranchFrom(m, Branch[ElementBefore(m)])
        BY <1>2, BranchIs DEF WalkTree, BranchSolved
      <4>. PICK x : x = Branch[ElementBefore(m)]
        OBVIOUS
      <4>2. t = BranchFrom(m, x)
        BY <4>1
      <4>. QED
        BY <1>9, <2>3, <4>2 DEF BranchFrom
    <3>2. condChain' = "valid" /\ conds' = s \o t
      BY <1>5, <1>6, <1>7, <1>9, <3>1
    <3>. QED
      BY <1>2, <1>3, <1>6, <2>1, <3>2 DEF CondsSay
  <2>. QED
    BY <2>2, <2>3
<1>. QED
  BY <1>8, <1>9

(* Behind the children there are braces only. *)
LEMMA BracesBehind ==
    ASSUME AnySeq(out), NEW e, NEW branch, out' = out \o Closes(e, branch)
    PROVE  TextGrows /\ \A k \in NewTokens : IsBrace(out'[k])
<1>. PICK s : s = Closes(e, branch)
  OBVIOUS
<1>. PICK n : n = Len(out)
  OBVIOUS
<1>1. AnySeq(s) /\ \A j \in 1..Len(s) : IsBrace(s[j])
  BY ClosesMany
<1>2. /\ AnySeq(out') /\ Len(out') = n + Len(s) /\ n \in Nat /\ Len(s) \in Nat
      /\ \A k \in 1..n : out'[k] = out[k]
      /\ \A k \in 0..n : Blocks'[k] = Blocks[k]
      /\ \A k \in 1..Len(s) : out'[n + k] = s[k]
  BY <1>1, TextGrown
<1>3. Len(out') \in Nat /\ n <= Len(out')
  BY <1>2
<1>4. TextGrows
  BY <1>2, <1>3 DEF TextGrows
<1>5. ASSUME NEW k \in NewTokens PROVE IsBrace(out'[k])
  <2>. PICK j : j = k - n
    OBVIOUS
  <2>1. j \in 1..Len(s) /\ n + j = k
    BY <1>2 DEF NewTokens
  <2>. QED
    BY <1>1, <1>2, <2>1
<1>. QED
  BY <1>4, <1>5

(* An element behind its children. *)
LEMMA GuardsClose ==
    ASSUME WalkTree, WalkTree', BareInv, BlocksInv, GuardsInv, CloseElement
    PROVE  GuardsInv'
<1>. PICK L : L = Len(open)
  OBVIOUS
<1>. PICK m : m = open[L].node
  OBVIOUS
<1>. PICK p : p = nodes[m].parent
  OBVIOUS
<1>1. /\ open # <<>> /\ open' = AllButLast(open) /\ UNCHANGED <<nodes, saved, done>>
      /\ condChain' = open[L].chain
      /\ \E e, branch : out' = out \o Closes(e, branch)
  BY DEF CloseElement, Last
<1>2. LeavesAt(L, m, p)
  BY <1>1 DEF LeavesAt
<1>3. LeftAt(L, m, p)
  BY <1>2, LeftIs
<1>4. /\ MeaningStays /\ L \in DOMAIN open /\ m \in Nodes /\ m \in Elements
      /\ \A k \in DOMAIN open' : k \in DOMAIN open /\ open'[k] = open[k]
      /\ \A x : UnderWay(x)' => UnderWay(x)
      /\ ~UnderWay(m)'
  BY <1>3 DEF LeftAt
<1>5. ~done /\ ~done'
  BY <1>1 DEF GuardsInv
<1>6. CallSays(L)
  BY <1>4 DEF GuardsInv
<1>7. ASSUME NEW k \in DOMAIN open' PROVE CallSays(k)'
  <2>1. open[k].node \in Elements /\ CallSays(k) /\ k \in DOMAIN open /\ open'[k] = open[k]
    BY <1>4, <1>7 DEF WalkTree, TreeInv, GuardsInv
  <2>. QED
    BY <1>4, <2>1, CallStays
<1>8. ASSUME NEW b, Sibling(b)' PROVE b = m
  BY <1>1, <1>8, SiblingClosed DEF BlocksInv
<1>9. ChainSays(m)'
  <2>1. condChain' = "valid" <=> GoesOnFrom(m)
    BY <1>1, <1>6 DEF CallSays
  <2>2. GoesOnFrom(m)' <=> GoesOnFrom(m)
    BY <1>4, GoesOnStays
  <2>. QED
    BY <2>1, <2>2 DEF ChainSays
<1>10. GuardsOk'
  <2>1. AnySeq(out)
    BY DEF BareInv, UsesInv
  <2>2. TextGrows /\ \A k \in NewTokens : IsBrace(out'[k])
    BY <1>1, <2>1, BracesBehind
  <2>3. \A t : ~((\E k \in NewTokens : out'[k] = t) /\ IsGuards(t))
    BY <2>2 DEF IsBrace, IsGuards
  <2>. QED
    BY <1>4, <2>2, <2>3, GuardsStay DEF GuardsInv
<1>11. ASSUME ~ClosedNested'
       PROVE  SavedSay' /\ CondsSay(m)'
  <2>1. ~ClosedNested
    BY <1>4, <1>11, NestedClosedStays
  <2>2. Branch[m] = <<>> \/ ~HasNested(m)
    <3>1. m \in Elements' /\ Branch'[m] = Branch[m] /\ (HasNested(m) => HasNested(m)')
      BY <1>4, NestedStays DEF MeaningStays
    <3>. QED
      BY <1>4, <1>11, <3>1 DEF ClosedNested
  <2>3. PICK c : Sibling(c)
    BY SiblingExists
  <2>4. SavedSay /\ CondsSay(c)
    BY <1>5, <2>1, <2>3 DEF GuardsInv
  <2>5. CondsSay(m)'
    BY <1>2, <1>6, <2>2, <2>3, <2>4, CondsLeft
  <2>6. ASSUME NEW x, UnderWay(x)', Branch'[x] # <<>>, ~HasNested(x)' PROVE SavedFor(x)'
    <3>1. UnderWay(x)
      BY <1>4, <2>6
    <3>2. Branch[x] # <<>>
      BY <1>4, <2>6, <3>1, UnderWayIs
    <3>3. ~HasNested(x)
      BY <1>4, <2>6, NestedStays
    <3>4. SavedFor(x)
      BY <2>4, <3>1, <3>2, <3>3 DEF SavedSay
    <3>. QED
      BY <1>1, <1>4, <3>1, <3>4, SavedStays
  <2>. QED
    BY <2>5, <2>6 DEF SavedSay
<1>. QED
  BY <1>5, <1>7, <1>8, <1>9, <1>10, <1>11 DEF GuardsInv

(* Before the first node. *)
LEMMA GuardsInit == Init /\ WalkTree => GuardsInv
<1>. SUFFICES ASSUME Init, WalkTree PROVE GuardsInv
  OBVIOUS
<1>1. /\ open = <<>> /\ DOMAIN open = {} /\ nodes = <<>> /\ Len(nodes) = 0 /\ out = <<>> /\ DOMAIN out = {}
      /\ condChain = "none" /\ conds = <<>> /\ done = FALSE
  BY DEF Init
<1>2. Nodes = {} /\ Elements = {} /\ Parent = 0
  BY <1>1 DEF Nodes, Elements, Parent
<1>3. InForce[0] = <<>>
  BY InForceIs DEF WalkTree, InForceSolved
<1>4. \A b : Sibling(b) => b = 0
  BY <1>2 DEF Sibling
<1>5. \A b : Sibling(b) => ChainSays(b)
  BY <1>1, <1>4 DEF ChainSays, GoesOnFrom
<1>6. \A b : CondsSay(b)
  BY <1>1, <1>2, <1>3 DEF CondsSay
<1>7. SavedSay
  BY <1>1 DEF SavedSay, UnderWay
<1>. QED
  BY <1>1, <1>5, <1>6, <1>7 DEF GuardsInv, GuardsOk

(* Every step keeps it. *)
LEMMA GuardsStep == WalkTree /\ WalkTree' /\ BareInv /\ BlocksInv /\ GuardsInv /\ [Next]_vars => GuardsInv'
<1>. SUFFICES ASSUME WalkTree, WalkTree', BareInv, BlocksInv, GuardsInv, [Next]_vars PROVE GuardsInv'
  OBVIOUS
<1>1. CASE VisitComment \/ VisitText \/ VisitInterpolation
  BY <1>1, GuardsLeaf
<1>2. CASE OpenElement
  BY <1>2, GuardsOpen
<1>3. CASE CloseElement
  BY <1>3, GuardsClose
<1>4. CASE Finish \/ UNCHANGED vars
  <2>1. /\ UNCHANGED <<nodes, open, condChain, saved, out>>
        /\ (done' /\ open = <<>>) \/ UNCHANGED <<conds, done>>
    BY <1>4 DEF Finish, vars
  <2>2. /\ Nodes' = Nodes /\ Elements' = Elements /\ Parent' = Parent /\ Above' = Above
        /\ \A i : ElementBefore(i)' = ElementBefore(i)
    BY <2>1 DEF Nodes, Elements, Parent, Above, ElementBefore
  <2>3. Branch' = Branch
    BY <2>1, <2>2 DEF Branch
  <2>4. InForce' = InForce
    BY <2>1, <2>3 DEF InForce
  <2>5. \A b : Sibling(b)' = Sibling(b) /\ GoesOnFrom(b)' = GoesOnFrom(b) /\ HasNested(b)' = HasNested(b)
    BY <2>1, <2>2, <2>3 DEF Sibling, GoesOnFrom, HasNested
  <2>6. \A k : CallSays(k)' = CallSays(k)
    BY <2>1, <2>3, <2>5 DEF CallSays, El
  <2>7. \A b : ChainSays(b)' = ChainSays(b) /\ SavedFor(b)' = SavedFor(b) /\ UnderWay(b)' = UnderWay(b)
    BY <2>1, <2>4, <2>5 DEF ChainSays, SavedFor, UnderWay
  <2>8. ClosedNested' = ClosedNested /\ SavedSay' = SavedSay
    BY <2>2, <2>3, <2>5, <2>7 DEF ClosedNested, SavedSay
  <2>9. GuardsOk' = GuardsOk
    <3>1. \A i : NestedChainBefore(i)' = NestedChainBefore(i)
      BY <2>2, <2>3 DEF NestedChainBefore
    <3>2. \A t : GuardOk(t)' = GuardOk(t)
      BY <2>2, <2>4, <3>1 DEF GuardOk
    <3>. QED
      BY <2>1, <3>2 DEF GuardsOk
  <2>10. conds' = conds => \A b : CondsSay(b)' = CondsSay(b)
    BY <2>1, <2>2, <2>3, <2>4 DEF CondsSay
  <2>. QED
    BY <2>1, <2>5, <2>6, <2>7, <2>8, <2>9, <2>10 DEF GuardsInv
<1>. QED
  BY <1>1, <1>2, <1>3, <1>4 DEF Next

(* Hence it holds in every state. *)
LEMMA GuardsInvariant == Spec => []GuardsInv
BY WalkTreeInvariant, BareInvariant, BlocksInvariant, GuardsInit, GuardsStep, PTL DEF Spec

(* It says what the property asks. *)
LEMMA GuardsInvSays == GuardsInv => GuardsUnlessNested
BY DEF GuardsInv, GuardsOk, GuardOk, IsGuards, GuardsUnlessNested, Tokens

(* The guards of a handler are the conditions of the branches around its   *)
(* element, each behind the negations of the branches before it, unless a  *)
(* branch that was left had a chain inside: conds and saved follow the     *)
(* nodes until the inner chain overwrites the length the outer one saved   *)
(* (blockConditionsChainSaveLen, generateEventExpression).                 *)
THEOREM GuardsAreInForce == Spec => []GuardsUnlessNested
BY GuardsInvariant, GuardsInvSays, PTL

-----------------------------------------------------------------------------
(* What a comment marks: the nodes that inherit from it. *)

Leaf(c) == c \in Nodes /\ nodes[c].is.kind # "element"

(* Behind a leaf comes a sibling of it, or none ever.                      *)
NextOfLeaf == \A c : Leaf(c) /\ c + 1 \in Nodes => nodes[c + 1].parent <= nodes[c].parent
LastLeaf == Leaf(Len(nodes)) => Parent <= nodes[Len(nodes)].parent
LeafFollowers ==
    \A c, j \in Nodes : Leaf(c) /\ c < j /\ nodes[j].parent = nodes[c].parent
        => c + 1 \in Nodes /\ nodes[c + 1].parent = nodes[c].parent
PreInv == NextOfLeaf /\ LastLeaf /\ LeafFollowers

(* A node that is visited keeps the order. *)
LEMMA PreGrow ==
    ASSUME WalkTree, WalkTree', InsideLast, PreInv, NEW n, Grow(n), NEW i, i = This,
           n.kind # "element" => Parent' = Parent
    PROVE  PreInv'
<1>. PICK N : N = Len(nodes)
  OBVIOUS
<1>. PICK p : p = Parent
  OBVIOUS
<1>1. /\ N \in Nat /\ Nodes = 1..N /\ i = N + 1 /\ Nodes' = Nodes \cup {i} /\ Len(nodes') = i
      /\ nodes'[i] = [parent |-> p, is |-> n]
      /\ \A j \in Nodes : nodes'[j] = nodes[j]
  BY NodesAre, Grown DEF WalkTree, TreeInv
<1>2. nodes'[i].parent = p /\ nodes'[i].is = n
  BY <1>1
<1>3. \A j \in Nodes : nodes[j].parent \in 0..(j - 1)
  BY DEF WalkTree, TreeInv
<1>4. p \in 0..N
  BY ParentIs DEF WalkTree
<1>5. \A c \in Nodes : Leaf(c)' <=> Leaf(c)
  BY <1>1 DEF Leaf
<1>6. NextOfLeaf'
  <2>1. ASSUME NEW c, Leaf(c)', c + 1 \in Nodes'
        PROVE  nodes'[c + 1].parent <= nodes'[c].parent
    <3>1. c \in Nodes
      BY <1>1, <2>1 DEF Leaf
    <3>2. Leaf(c) /\ nodes'[c] = nodes[c]
      BY <1>1, <1>5, <2>1, <3>1
    <3>3. CASE c + 1 \in Nodes
      BY <1>1, <3>2, <3>3 DEF PreInv, NextOfLeaf
    <3>4. CASE c + 1 = i
      <4>1. c = N
        BY <1>1, <3>1, <3>4
      <4>. QED
        BY <1>2, <3>2, <3>4, <4>1 DEF PreInv, LastLeaf
    <3>. QED
      BY <1>1, <2>1, <3>3, <3>4
  <2>. QED
    BY <2>1 DEF NextOfLeaf
<1>7. LastLeaf'
  <2>1. Leaf(i)' => n.kind # "element"
    BY <1>2 DEF Leaf
  <2>2. Leaf(i)' => Parent' <= nodes'[i].parent
    BY <1>2, <1>4, <2>1
  <2>. QED
    BY <1>1, <2>2 DEF LastLeaf
<1>8. LeafFollowers'
  <2>1. ASSUME NEW c \in Nodes', NEW j \in Nodes', Leaf(c)', c < j, nodes'[j].parent = nodes'[c].parent
        PROVE  c + 1 \in Nodes' /\ nodes'[c + 1].parent = nodes'[c].parent
    <3>1. c \in Nodes
      BY <1>1, <2>1
    <3>2. Leaf(c) /\ nodes'[c] = nodes[c]
      BY <1>1, <1>5, <2>1, <3>1
    <3>3. CASE j \in Nodes
      <4>1. c + 1 \in Nodes /\ nodes[c + 1].parent = nodes[c].parent
        BY <1>1, <2>1, <3>1, <3>2, <3>3 DEF PreInv, LeafFollowers
      <4>. QED
        BY <1>1, <3>2, <4>1
    <3>4. CASE j = i /\ c + 1 = i
      BY <1>1, <2>1, <3>4
    <3>5. CASE j = i /\ c + 1 # i
      <4>1. c + 1 \in Nodes /\ nodes[c].parent = p
        BY <1>1, <1>2, <2>1, <3>1, <3>2, <3>5
      <4>2. nodes[c + 1].parent <= p /\ nodes[c + 1].parent \in Nat /\ p < c + 1
        <5>1. nodes[c + 1].parent <= p
          BY <3>2, <4>1 DEF PreInv, NextOfLeaf
        <5>2. nodes[c + 1].parent \in 0..((c + 1) - 1) /\ p \in 0..(c - 1) /\ c \in Nat
          BY <1>1, <1>3, <3>1, <4>1
        <5>. QED
          BY <5>1, <5>2
      <4>3. p <= nodes[c + 1].parent
        <5>1. CASE open = <<>>
          BY <4>2, <5>1, ParentIs DEF WalkTree
        <5>2. CASE open # <<>>
          <6>1. Len(open) \in DOMAIN open /\ p = open[Len(open)].node
            BY <5>2, NodesAre, ParentIs DEF WalkTree, TreeInv, WalkTyped
          <6>. QED
            BY <1>4, <4>1, <4>2, <6>1 DEF InsideLast
        <5>. QED
          BY <5>1, <5>2
      <4>. QED
        BY <1>1, <1>4, <3>2, <4>1, <4>2, <4>3
    <3>. QED
      BY <1>1, <2>1, <3>3, <3>4, <3>5
  <2>. QED
    BY <2>1 DEF LeafFollowers
<1>. QED
  BY <1>6, <1>7, <1>8 DEF PreInv

(* So does an element that is left. *)
LEMMA PreClose ==
    ASSUME WalkTree, WalkTree', PreInv, CloseElement
    PROVE  PreInv'
<1>. PICK L : L = Len(open)
  OBVIOUS
<1>. PICK m : m = open[L].node
  OBVIOUS
<1>. PICK p : p = nodes[m].parent
  OBVIOUS
<1>1. LeavesAt(L, m, p) /\ nodes' = nodes
  BY DEF LeavesAt, CloseElement
<1>2. Parent = m /\ Parent' = p /\ m \in Nodes
  BY <1>1, LeftIs DEF LeftAt
<1>3. Nodes = 1..Len(nodes) /\ Len(nodes) \in Nat /\ p \in 0..(m - 1)
  BY <1>2, NodesAre DEF WalkTree, TreeInv
<1>4. Nodes' = Nodes /\ \A c : Leaf(c)' <=> Leaf(c)
  BY <1>1 DEF Nodes, Leaf
<1>5. LastLeaf'
  <2>. PICK N : N = Len(nodes)
    OBVIOUS
  <2>1. Leaf(N) => m <= nodes[N].parent /\ nodes[N].parent \in 0..(N - 1)
    BY <1>2 DEF PreInv, LastLeaf, Leaf, WalkTree, TreeInv
  <2>2. Leaf(N) => p <= nodes[N].parent
    BY <1>2, <1>3, <2>1
  <2>. QED
    BY <1>1, <1>2, <1>4, <2>2 DEF LastLeaf
<1>. QED
  BY <1>1, <1>4, <1>5 DEF PreInv, NextOfLeaf, LeafFollowers

IsElement(x) == nodes[x].is.kind = "element"

(* The node behind one hears of it: the first child of an element, the     *)
(* sibling of a leaf.                                                      *)
Follows(x) ==
    x + 1 \in Nodes /\ nodes[x + 1].parent = IF IsElement(x) THEN x ELSE nodes[x].parent

HeirNext(x) ==
    IF nodes[x].is.kind = "element"
    THEN (IF x + 1 \in Nodes /\ nodes[x + 1].parent = x THEN x + 1 ELSE 0)
    ELSE Follower(x)

(* The one that inherits from a node is the node right behind it, or there *)
(* is none.                                                                *)
LEMMA HeirNextIs ==
    ASSUME TreeInv, PreInv, NEW x \in Nodes
    PROVE  HeirNext(x) = IF Follows(x) THEN x + 1 ELSE 0
<1>1. CASE IsElement(x)
  BY <1>1 DEF HeirNext, Follows, IsElement
<1>2. CASE ~IsElement(x)
  <2>. DEFINE S == {j \in Nodes : j > x /\ nodes[j].parent = nodes[x].parent}
  <2>1. HeirNext(x) = IF S = {} THEN 0 ELSE CHOOSE j \in S : \A k \in S : j <= k
    BY <1>2 DEF HeirNext, Follower, IsElement
  <2>2. Nodes = 1..Len(nodes) /\ Len(nodes) \in Nat
    BY NodesAre DEF TreeInv
  <2>3. \A j \in S : j \in Nat /\ x + 1 <= j
    BY <2>2
  <2>4. Follows(x) <=> x + 1 \in S
    BY <1>2, <2>2 DEF Follows
  <2>5. S # {} => Follows(x)
    BY <1>2, <2>2 DEF PreInv, LeafFollowers, Leaf, Follows, IsElement
  <2>. HIDE DEF S
  <2>6. CASE Follows(x)
    <3>1. x + 1 \in S /\ \A k \in S : x + 1 <= k
      BY <2>3, <2>4, <2>6
    <3>2. PICK j : j = CHOOSE k \in S : \A l \in S : k <= l
      OBVIOUS
    <3>3. j \in S /\ \A k \in S : j <= k
      BY <3>1, <3>2
    <3>4. j = x + 1
      BY <2>2, <2>3, <3>1, <3>3
    <3>. QED
      BY <2>1, <2>6, <3>1, <3>2, <3>4
  <2>7. CASE ~Follows(x)
    BY <2>1, <2>5, <2>7
  <2>. QED
    BY <2>6, <2>7
<1>. QED
  BY <1>1, <1>2

(* The heirs of a node, h those of the next.                               *)
HeirsFrom(x, h) == IF Follows(x) THEN {x + 1} \cup h ELSE {}

HandsOn(x) == Follows(x) /\ IsElement(x + 1)

HeirsSolved ==
    \A x \in Nodes : Heirs[x] = HeirsFrom(x, IF HandsOn(x) THEN Heirs[x + 1] ELSE {})

(* Heirs is what its definition says at every node. *)
LEMMA HeirsIs ==
    ASSUME TreeInv, PreInv
    PROVE  HeirsSolved
<1>. DEFINE n == Len(nodes)
            V == SUBSET Nat
            p == [i \in 1..n |-> IF HandsOn(n + 1 - i) THEN i - 1 ELSE 0]
            G == [i \in 1..n |-> [a \in V |-> HeirsFrom(n + 1 - i, a)]]
            Rec(h) == h = [c \in Nodes |->
                LET f == IF nodes[c].is.kind = "element"
                         THEN (IF c + 1 \in Nodes /\ nodes[c + 1].parent = c THEN c + 1 ELSE 0)
                         ELSE Follower(c)
                IN  IF f = 0 THEN {}
                    ELSE {f} \cup (IF nodes[f].is.kind = "element" THEN h[f] ELSE {})]
            Given(f, c) == IF HeirNext(c) = 0 THEN {}
                           ELSE {HeirNext(c)} \cup
                                  (IF nodes[HeirNext(c)].is.kind = "element" THEN f[HeirNext(c)] ELSE {})
            Computed(f, c) == HeirsFrom(c, IF HandsOn(c) THEN f[c + 1] ELSE {})
            Steps(h) == h = [c \in Nodes |-> HeirsFrom(c, IF HandsOn(c) THEN h[c + 1] ELSE {})]
<1>1. n \in Nat /\ Nodes = 1..n
  BY NodesAre DEF TreeInv
<1>2. \A i \in 1..n : p[i] = (IF HandsOn(n + 1 - i) THEN i - 1 ELSE 0) /\ p[i] \in 0..(i - 1)
  BY <1>1
<1>3. \A i \in 1..n : \A a \in V : G[i][a] = HeirsFrom(n + 1 - i, a) /\ G[i][a] \in V
  <2>1. ASSUME NEW i \in 1..n, NEW a \in V PROVE HeirsFrom(n + 1 - i, a) \in V
    <3>1. (n + 1 - i) + 1 \in Nat
      BY <1>1
    <3>. QED
      BY <3>1 DEF HeirsFrom
  <2>. HIDE DEF V, n
  <2>. QED
    BY <2>1
<1>4. PICK g \in [0..n -> V] : g[0] = {} /\ \A i \in 1..n : g[i] = G[i][g[p[i]]]
  <2>1. n \in Nat /\ {} \in V
    BY <1>1
  <2>. HIDE DEF G, p, V, n, Rec, Steps
  <2>2. FromEarlier(n, V, {}, p, G)
    BY <1>2, <1>3, <2>1 DEF FromEarlier
  <2>. QED
    BY <2>2, Recursion
<1>. HIDE DEF G, p, V, n
<1>5. PICK h : h = [c \in Nodes |-> g[n + 1 - c]]
  OBVIOUS
<1>6. ASSUME NEW c \in Nodes
      PROVE  h[c] = HeirsFrom(c, IF HandsOn(c) THEN h[c + 1] ELSE {})
  <2>. PICK i : i = n + 1 - c
    OBVIOUS
  <2>1. i \in 1..n /\ n + 1 - i = c /\ p[i] \in 0..n
    <3>1. i \in 1..n /\ n + 1 - i = c
      BY <1>1
    <3>. QED
      BY <1>1, <1>2, <3>1
  <2>2. h[c] = HeirsFrom(c, g[p[i]])
    <3>1. g[p[i]] \in V
      BY <2>1
    <3>. QED
      BY <1>3, <1>4, <1>5, <2>1, <3>1
  <2>3. p[i] = IF HandsOn(c) THEN i - 1 ELSE 0
    BY <1>2, <2>1
  <2>4. HandsOn(c) => h[c + 1] = g[i - 1]
    <3>1. HandsOn(c) => c + 1 \in Nodes
      BY DEF HandsOn, Follows
    <3>2. n + 1 - (c + 1) = i - 1
      BY <1>1
    <3>. QED
      BY <1>5, <3>1, <3>2
  <2>. QED
    BY <1>4, <2>2, <2>3, <2>4
<1>7. Steps(h)
  <2>1. h = [c \in Nodes |-> h[c]]
    BY <1>5
  <2>. QED
    BY <1>6, <2>1
<1>8. \A f : Rec(f) <=> Steps(f)
  <2>1. ASSUME NEW f, NEW c \in Nodes PROVE Given(f, c) = Computed(f, c)
    <3>1. HeirNext(c) = IF Follows(c) THEN c + 1 ELSE 0
      BY HeirNextIs
    <3>2. c + 1 # 0
      BY <1>1
    <3>. QED
      BY <3>1, <3>2 DEF HeirsFrom, HandsOn, IsElement
  <2>. TAKE f
  <2>2. Rec(f) <=> f = [c \in Nodes |-> Given(f, c)]
    BY DEF HeirNext
  <2>3. Steps(f) <=> f = [c \in Nodes |-> Computed(f, c)]
    OBVIOUS
  <2>4. [c \in Nodes |-> Given(f, c)] = [c \in Nodes |-> Computed(f, c)]
    <3>1. \A c \in Nodes : Given(f, c) = Computed(f, c)
      BY <2>1
    <3>. HIDE DEF Given, Computed
    <3>. QED
      BY <3>1
  <2>. HIDE DEF Rec, Steps, Given, Computed
  <2>. QED
    BY <2>2, <2>3, <2>4
<1>9. Heirs = CHOOSE f : Rec(f)
  BY DEF Heirs
<1>10. Steps(Heirs)
  <2>1. Rec(h)
    BY <1>7, <1>8
  <2>. HIDE DEF Rec, Steps
  <2>2. Rec(Heirs)
    BY <1>9, <2>1
  <2>. QED
    BY <1>8, <2>2
<1>. QED
  BY <1>10 DEF HeirsSolved

(* From x to j by first children, the first step as Follows says.          *)
Link(x, j) ==
    /\ x < j /\ j \in Nodes /\ Follows(x)
    /\ \A y \in (x + 1)..(j - 1) : IsElement(y) /\ nodes[y + 1].parent = y

(* The first step of the way, and the rest. *)
LEMMA LinkStep ==
    ASSUME TreeInv, NEW x \in Nodes, NEW j \in Nodes
    PROVE  Link(x, j) <=> Follows(x) /\ (j = x + 1 \/ (IsElement(x + 1) /\ Link(x + 1, j)))
<1>1. Nodes = 1..Len(nodes) /\ Len(nodes) \in Nat
  BY NodesAre DEF TreeInv
<1>2. CASE j = x + 1
  <2>1. (x + 1)..(j - 1) = {}
    BY <1>1, <1>2
  <2>2. x < j
    BY <1>1, <1>2
  <2>. QED
    BY <1>2, <2>1, <2>2 DEF Link
<1>3. CASE j # x + 1
  <2>1. x < j => x + 1 \in (x + 1)..(j - 1) /\ x + 1 < j /\ x + 1 \in Nodes /\ (x + 1) + 1 \in Nodes
    BY <1>1, <1>3
  <2>2. \A y : y \in (x + 1)..(j - 1) <=> (y = x + 1 /\ x + 1 < j) \/ y \in ((x + 1) + 1)..(j - 1)
    BY <1>1, <1>3
  <2>3. x + 1 < j => x < j
    BY <1>1
  <2>4. IsElement(x + 1) => (Follows(x + 1) <=> (x + 1) + 1 \in Nodes /\ nodes[(x + 1) + 1].parent = x + 1)
    BY DEF Follows
  <2>5. ASSUME Link(x, j) PROVE Follows(x) /\ IsElement(x + 1) /\ Link(x + 1, j)
    <3>1. Follows(x) /\ x < j /\ IsElement(x + 1) /\ nodes[(x + 1) + 1].parent = x + 1
      BY <2>1, <2>5 DEF Link
    <3>2. \A y \in ((x + 1) + 1)..(j - 1) : IsElement(y) /\ nodes[y + 1].parent = y
      BY <2>2, <2>5 DEF Link
    <3>. QED
      BY <2>1, <2>4, <3>1, <3>2 DEF Link
  <2>6. ASSUME Follows(x), IsElement(x + 1), Link(x + 1, j) PROVE Link(x, j)
    <3>1. x + 1 < j /\ nodes[(x + 1) + 1].parent = x + 1
      BY <2>4, <2>6 DEF Link
    <3>2. \A y \in (x + 1)..(j - 1) : IsElement(y) /\ nodes[y + 1].parent = y
      BY <2>2, <2>6, <3>1 DEF Link
    <3>. QED
      BY <2>3, <2>6, <3>1, <3>2 DEF Link
  <2>. QED
    BY <1>3, <2>5, <2>6
<1>. QED
  BY <1>2, <1>3

(* The heirs are the nodes on the way, by induction from the last node     *)
(* down.                                                                   *)
LEMMA HeirsAreLinked ==
    ASSUME TreeInv, PreInv
    PROVE  \A x \in Nodes : Heirs[x] = {j \in Nodes : Link(x, j)}
<1>. DEFINE n == Len(nodes)
            S == {i \in 0..n : i = 0 \/ Heirs[n + 1 - i] = {j \in Nodes : Link(n + 1 - i, j)}}
<1>1. n \in Nat /\ Nodes = 1..n
  BY NodesAre DEF TreeInv
<1>2. HeirsSolved
  BY HeirsIs
<1>3. ASSUME NEW i \in 0..n, \A j \in 0..(i - 1) : j \in S PROVE i \in S
  <2>1. CASE i = 0
    BY <2>1, <1>1
  <2>2. CASE i # 0
    <3>. PICK x : x = n + 1 - i
      OBVIOUS
    <3>1. x \in Nodes /\ i - 1 \in 0..(i - 1) /\ n + 1 - (i - 1) = x + 1
      BY <1>1, <2>2
    <3>2. Follows(x) => i - 1 # 0
      BY <1>1, <3>1 DEF Follows
    <3>3. i - 1 \in S
      BY <1>3, <3>1
    <3>4. Follows(x) => Heirs[x + 1] = {j \in Nodes : Link(x + 1, j)}
      BY <3>1, <3>2, <3>3
    <3>5. Heirs[x] = HeirsFrom(x, IF HandsOn(x) THEN Heirs[x + 1] ELSE {})
      BY <1>2, <3>1 DEF HeirsSolved
    <3>6. \A j \in Nodes : Link(x, j) <=> Follows(x) /\ (j = x + 1 \/ (IsElement(x + 1) /\ Link(x + 1, j)))
      BY <3>1, LinkStep
    <3>7. Follows(x) => x + 1 \in Nodes
      BY DEF Follows
    <3>8. Heirs[x] = {j \in Nodes : Link(x, j)}
      <4>. PICK H : H = {j \in Nodes : Link(x + 1, j)}
        OBVIOUS
      <4>1. CASE HandsOn(x)
        <5>1. Heirs[x] = {x + 1} \cup H
          BY <3>4, <3>5, <4>1 DEF HandsOn, HeirsFrom
        <5>. QED
          BY <3>6, <3>7, <4>1, <5>1 DEF HandsOn
      <4>2. CASE Follows(x) /\ ~IsElement(x + 1)
        <5>1. Heirs[x] = {x + 1}
          BY <3>5, <4>2 DEF HandsOn, HeirsFrom
        <5>. QED
          BY <3>6, <3>7, <4>2, <5>1
      <4>3. CASE ~Follows(x)
        <5>1. Heirs[x] = {}
          BY <3>5, <4>3 DEF HeirsFrom
        <5>. QED
          BY <3>6, <4>3, <5>1
      <4>. QED
        BY <4>1, <4>2, <4>3 DEF HandsOn
    <3>. QED
      BY <3>8
  <2>. QED
    BY <2>1, <2>2
<1>4. \A i \in 0..n : i \in S
  <2>. HIDE DEF S, n
  <2>. QED
    BY <1>1, <1>3, Induction
<1>5. ASSUME NEW x \in Nodes PROVE Heirs[x] = {j \in Nodes : Link(x, j)}
  <2>. PICK i : i = n + 1 - x
    OBVIOUS
  <2>1. i \in 0..n /\ i # 0 /\ n + 1 - i = x
    BY <1>1
  <2>2. i \in S
    BY <1>4, <2>1
  <2>. QED
    BY <2>1, <2>2
<1>. QED
  BY <1>5

(* So those of a comment are its next sibling, the first child of that, *)
(* and so on. *)
IsHeir(c, j) ==
    /\ c < j /\ j \in Nodes /\ nodes[c + 1].parent = nodes[c].parent
    /\ \A y \in (c + 1)..(j - 1) : IsElement(y) /\ nodes[y + 1].parent = y

(* So the heirs of a comment are those its place says. *)
LEMMA HeirsAre ==
    ASSUME TreeInv, PreInv, NEW c, Leaf(c)
    PROVE  \A j : j \in Heirs[c] <=> IsHeir(c, j)
<1>1. c \in Nodes /\ ~IsElement(c) /\ Nodes = 1..Len(nodes) /\ Len(nodes) \in Nat
  BY NodesAre DEF Leaf, IsElement, TreeInv
<1>2. \A j \in Nodes : c < j => c + 1 \in Nodes
  BY <1>1
<1>3. \A j \in Nodes : Link(c, j) <=> IsHeir(c, j)
  BY <1>1, <1>2 DEF Link, IsHeir, Follows
<1>4. Heirs[c] = {j \in Nodes : Link(c, j)}
  BY <1>1, HeirsAreLinked
<1>. QED
  BY <1>3, <1>4 DEF IsHeir

-----------------------------------------------------------------------------
(* The flags, and the marks they lead to. *)

(* The node visited next is an heir of c.                                  *)
NextHeir(c) ==
    \/ c = Len(nodes) /\ Parent = nodes[c].parent
    \/ IsHeir(c, Len(nodes)) /\ IsElement(Len(nodes)) /\ Parent = Len(nodes)

Directive(c) == c \in Nodes /\ nodes[c].is.kind = "comment" /\ nodes[c].is.directive # "none"

(* A flag is set as long as the next node is an heir of its comment.       *)
Flag(c) == c # 0 /\ (c = ignoring \/ c = expecting)
FlagsInv ==
    /\ ignoring = 0 \/ expecting = 0
    /\ \A c : Flag(c) <=> Directive(c) /\ NextHeir(c)
    /\ ignoring # 0 => nodes[ignoring].is.directive = "ignore"

(* A node more does not change who inherits among those there. *)
LEMMA HeirStays ==
    ASSUME WalkTree, NEW n, Grow(n), NEW c \in Nodes, NEW j \in Nodes
    PROVE  IsHeir(c, j)' <=> IsHeir(c, j)
<1>1. /\ Nodes = 1..Len(nodes) /\ Len(nodes) \in Nat
      /\ \A k \in Nodes : k \in Nodes' /\ nodes'[k] = nodes[k]
  BY NodesAre, NodesGrowOne DEF WalkTree, TreeInv, NodesGrow
<1>2. c < j => c + 1 \in Nodes
  BY <1>1
<1>3. \A y \in (c + 1)..(j - 1) : y \in Nodes /\ y + 1 \in Nodes
  BY <1>1
<1>. QED
  BY <1>1, <1>2, <1>3 DEF IsHeir, IsElement

(* The new node inherits if the next one was to. *)
LEMMA NewHeir ==
    ASSUME WalkTree, NEW n, Grow(n), NEW i, i = This, NEW c \in Nodes
    PROVE  IsHeir(c, i)' <=> NextHeir(c)
<1>. PICK N : N = Len(nodes)
  OBVIOUS
<1>1. /\ N \in Nat /\ Nodes = 1..N /\ i = N + 1 /\ i \in Nodes' /\ nodes'[i].parent = Parent
      /\ \A k \in Nodes : k \in Nodes' /\ nodes'[k] = nodes[k]
  <2>1. nodes'[i] = [parent |-> Parent, is |-> n]
    BY NodesGrowOne
  <2>. QED
    BY <2>1, NodesAre, Grown DEF WalkTree, TreeInv
<1>2. CASE c = N
  <2>1. c + 1 = i /\ (c + 1)..(i - 1) = {} /\ ~(c < N) /\ c < i
    BY <1>1, <1>2
  <2>. QED
    BY <1>1, <1>2, <2>1 DEF IsHeir, NextHeir
<1>3. CASE c # N
  <2>1. /\ c < N /\ c < i /\ c + 1 \in Nodes /\ N \in Nodes /\ N + 1 = i
        /\ \A y : y \in (c + 1)..(i - 1) <=> y = N \/ y \in (c + 1)..(N - 1)
        /\ \A y \in (c + 1)..(N - 1) : y \in Nodes /\ y + 1 \in Nodes
    BY <1>1, <1>3
  <2>2. IsHeir(c, i)' <=> /\ nodes[c + 1].parent = nodes[c].parent
                          /\ IsElement(N) /\ Parent = N
                          /\ \A y \in (c + 1)..(N - 1) : IsElement(y) /\ nodes[y + 1].parent = y
    BY <1>1, <2>1, ZenonT(40) DEF IsHeir, IsElement
  <2>. QED
    BY <1>3, <2>1, <2>2 DEF IsHeir, NextHeir
<1>. QED
  BY <1>2, <1>3

(* A comment with a directive stays one, and only such a comment becomes   *)
(* one.                                                                    *)
LEMMA DirectiveGrown ==
    ASSUME WalkTree, NEW n, Grow(n), NEW i, i = This, NEW c
    PROVE  /\ Directive(c) => Directive(c)' /\ c \in Nodes /\ nodes'[c] = nodes[c]
           /\ Directive(c)' => Directive(c) \/ (c = i /\ n.kind = "comment" /\ n.directive # "none")
           /\ n.kind = "comment" /\ n.directive # "none" => Directive(i)'
           /\ nodes'[i].is = n /\ i # 0 /\ i \notin Nodes
<1>1. /\ Nodes' = Nodes \cup {i} /\ i \notin Nodes
      /\ nodes'[i] = [parent |-> Parent, is |-> n]
      /\ \A k \in Nodes : nodes'[k] = nodes[k]
  BY NodesGrowOne DEF NodesGrow
<1>2. nodes'[i].is = n
  BY <1>1
<1>3. i # 0
  BY NodesAre DEF WalkTree, TreeInv, This
<1>. QED
  BY <1>1, <1>2, <1>3 DEF Directive

(* Behind a leaf the next node inherits from the leaf only. *)
LEMMA NextHeirLeaf ==
    ASSUME WalkTree, NEW n, Grow(n), n.kind # "element", Parent' = Parent, NEW i, i = This, NEW c \in Nodes'
    PROVE  NextHeir(c)' <=> c = i
<1>1. /\ Len(nodes') = i /\ nodes'[i] = [parent |-> Parent, is |-> n]
  BY Grown DEF WalkTree, TreeInv
<1>2. nodes'[i].is = n /\ nodes'[i].parent = Parent
  BY <1>1
<1>3. ~IsElement(i)'
  BY <1>2 DEF IsElement
<1>. QED
  BY <1>1, <1>2, <1>3 DEF NextHeir

(* An element hands what it inherits on to its first child. *)
LEMMA NextHeirOpen ==
    ASSUME WalkTree, NEW n, Grow(n), n.kind = "element", NEW i, i = This, Parent' = i, NEW c \in Nodes
    PROVE  NextHeir(c)' <=> NextHeir(c)
<1>1. /\ Len(nodes') = i /\ nodes'[i] = [parent |-> Parent, is |-> n] /\ i \notin Nodes
  BY NodesGrowOne, Grown DEF WalkTree, TreeInv
<1>2. nodes'[i].is = n
  BY <1>1
<1>3. IsElement(i)'
  BY <1>2 DEF IsElement
<1>4. IsHeir(c, i)' <=> NextHeir(c)
  BY NewHeir
<1>. QED
  BY <1>1, <1>3, <1>4 DEF NextHeir

(* Behind an element that was left nobody inherits.                        *)
LEMMA NextHeirClose ==
    ASSUME WalkTree, WalkTree', InsideLast, CloseElement, NEW c \in Nodes, ~IsElement(c)
    PROVE  ~NextHeir(c)'
<1>. PICK L : L = Len(open)
  OBVIOUS
<1>. PICK m : m = open[L].node
  OBVIOUS
<1>. PICK p : p = nodes[m].parent
  OBVIOUS
<1>. PICK N : N = Len(nodes)
  OBVIOUS
<1>1. LeavesAt(L, m, p) /\ nodes' = nodes /\ m = open[L].node
  BY DEF LeavesAt, CloseElement
<1>2. Parent' = p /\ m \in Nodes /\ m \in Elements /\ L \in DOMAIN open
  BY <1>1, LeftIs DEF LeftAt
<1>3. Nodes = 1..N /\ N \in Nat /\ p \in 0..(m - 1) /\ N \in Nodes
  <2>1. Nodes = 1..N /\ N \in Nat /\ p \in 0..(m - 1)
    BY <1>2, NodesAre DEF WalkTree, TreeInv
  <2>. QED
    BY <1>2, <2>1
<1>4. p # N
  BY <1>2, <1>3
<1>5. ASSUME c = N, p = nodes[c].parent PROVE FALSE
  <2>1. c # m
    BY <1>2 DEF Elements, IsElement
  <2>2. c > m
    BY <1>2, <1>3, <1>5, <2>1
  <2>3. nodes[c].parent >= m
    BY <1>1, <1>2, <2>2 DEF InsideLast
  <2>. QED
    BY <1>2, <1>3, <1>5, <2>3
<1>. QED
  BY <1>1, <1>2, <1>4, <1>5 DEF NextHeir

(* What is between the ends of a mark is code of heirs, or plain text.     *)
MarkedCode(t, c) == \E f : IsHeir(c, f) /\ (t.t = "text" \/ (t.node = f /\ t.t # "}"))
MarkOk(m) ==
    /\ m.comment \in Nodes /\ m.from \in Nat /\ m.to \in Nat /\ m.to <= Len(out)
    /\ \A k \in (m.from + 1)..m.to : \A t : t = out[k] => MarkedCode(t, m.comment)

Covers(m, f) == \A k \in CodeOf(f) : m.from < k /\ k <= m.to
Covered(c, f) == \E m \in marks : m.comment = c /\ Covers(m, f)
Expected(c) == \E m \in marks : m.comment = c

TokensOfNodes == \A k \in DOMAIN out : out[k].node \in Nodes \cup {0}

MarksInv ==
    /\ FlagsInv
    /\ TokensOfNodes
    /\ \A m \in marks : MarkOk(m)
    /\ \A c, f : Directive(c) /\ IsHeir(c, f) /\ IsElement(f) => Covered(c, f)
    /\ \A c : Directive(c) /\ nodes[c].is.directive = "expect" /\ (\E f : IsHeir(c, f)) => Expected(c)

(* One more node and its text, its marks those of the flags.               *)
CodeOrText(t, i) == (t.t = "text" /\ t.node = 0) \/ (t.t # "}" /\ t.node = i)

Visited(n, i) ==
    /\ Grow(n) /\ i = This /\ TextGrows
    /\ \A k \in NewTokens : CodeOrText(out'[k], i)

MarkNew(m) ==
    \/ m.comment \in Nodes /\ m.from = 0 /\ m.to = 0
    \/ m.comment \in Nodes /\ m.from = Len(out) /\ m.to = Len(out') /\ NextHeir(m.comment)

MarksNext(n) ==
    /\ \A m \in marks : m \in marks'
    /\ \A m \in marks' : m \in marks \/ MarkNew(m)
    /\ \A c : Directive(c) /\ NextHeir(c) =>
          /\ n.kind = "element" => \E m \in marks' : m.comment = c /\ m.from = Len(out) /\ m.to = Len(out')
          /\ nodes[c].is.directive = "expect" => Expected(c)'

(* The code of the nodes there stays, that of the new node is new. *)
LEMMA TokensStay ==
    ASSUME WalkTree, TokensOfNodes, NEW n, NEW i, Visited(n, i)
    PROVE  /\ TokensOfNodes'
           /\ \A k \in CodeOf(i)' : k \in NewTokens
           /\ \A f \in Nodes : CodeOf(f)' = CodeOf(f)
<1>1. /\ Grow(n) /\ i = This /\ TextGrows /\ \A k \in NewTokens : CodeOrText(out'[k], i)
      /\ Nodes' = Nodes \cup {i} /\ i \notin Nodes /\ i # 0 /\ 0 \notin Nodes
  <2>1. Nodes' = Nodes \cup {i} /\ i \notin Nodes
    BY NodesGrowOne DEF Visited
  <2>2. Nodes = 1..Len(nodes) /\ Len(nodes) \in Nat /\ i = Len(nodes) + 1
    BY NodesAre DEF WalkTree, TreeInv, Visited, This
  <2>3. i # 0 /\ 0 \notin Nodes
    BY <2>2
  <2>. QED
    BY <2>1, <2>3 DEF Visited
<1>2. /\ DOMAIN out' = DOMAIN out \cup NewTokens
      /\ \A k \in DOMAIN out : out'[k] = out[k] /\ k \notin NewTokens
  <2>1. /\ DOMAIN out = 1..Len(out) /\ DOMAIN out' = 1..Len(out')
        /\ Len(out) \in Nat /\ Len(out') \in Nat /\ Len(out) <= Len(out')
    BY <1>1, SeqIs DEF TextGrows
  <2>2. 1..Len(out') = (1..Len(out)) \cup ((Len(out) + 1)..Len(out'))
    BY <2>1
  <2>3. \A k \in 1..Len(out) : k \notin (Len(out) + 1)..Len(out')
    BY <2>1
  <2>. QED
    BY <1>1, <2>1, <2>2, <2>3 DEF NewTokens, TextGrows
<1>3. \A k \in NewTokens : out'[k].node = i \/ (out'[k].node = 0)
  BY <1>1 DEF CodeOrText
<1>4. TokensOfNodes'
  BY <1>1, <1>2, <1>3 DEF TokensOfNodes
<1>5. ASSUME NEW k \in CodeOf(i)' PROVE k \in NewTokens
  BY <1>1, <1>2, <1>5 DEF TokensOfNodes, CodeOf
<1>6. ASSUME NEW f \in Nodes PROVE CodeOf(f)' = CodeOf(f)
  <2>1. f # i /\ f # 0
    BY <1>1
  <2>2. \A k : k \in CodeOf(f)' <=> k \in CodeOf(f)
    BY <1>2, <1>3, <2>1 DEF CodeOf
  <2>. QED
    BY <2>2 DEF CodeOf
<1>. QED
  BY <1>4, <1>5, <1>6

(* A mark stays right. *)
LEMMA MarkOkStays ==
    ASSUME WalkTree, NEW n, NEW i, Visited(n, i), NEW m, MarkOk(m)
    PROVE  MarkOk(m)'
<1>. PICK a : a = m.from
  OBVIOUS
<1>. PICK b : b = m.to
  OBVIOUS
<1>. PICK c : c = m.comment
  OBVIOUS
<1>1. Grow(n) /\ TextGrows
  BY DEF Visited
<1>2. /\ c \in Nodes /\ c \in Nodes' /\ a \in Nat /\ b \in Nat /\ b <= Len(out) /\ b <= Len(out')
  <2>1. c \in Nodes /\ a \in Nat /\ b \in Nat /\ b <= Len(out)
    BY DEF MarkOk
  <2>2. c \in Nodes'
    BY <1>1, <2>1, NodesGrowOne DEF NodesGrow
  <2>3. b <= Len(out')
    BY <1>1, <2>1 DEF TextGrows
  <2>. QED
    BY <2>1, <2>2, <2>3
<1>3. ASSUME NEW k \in (a + 1)..b, NEW t, t = out'[k] PROVE MarkedCode(t, c)'
  <2>1. t = out[k] => MarkedCode(t, c)
    BY <1>3 DEF MarkOk
  <2>2. t = out[k]
    <3>1. k \in 1..Len(out)
      BY <1>1, <1>2 DEF TextGrows
    <3>. QED
      BY <1>1, <1>3, <3>1 DEF TextGrows
  <2>3. \A f : IsHeir(c, f) => IsHeir(c, f)'
    BY <1>1, <1>2, HeirStays DEF IsHeir
  <2>. QED
    BY <2>1, <2>2, <2>3 DEF MarkedCode
<1>. QED
  BY <1>2, <1>3 DEF MarkOk

(* A new mark is right: of nothing, or of what an heir wrote. *)
LEMMA MarkNewOk ==
    ASSUME WalkTree, NEW n, NEW i, Visited(n, i), NEW m, MarkNew(m)
    PROVE  MarkOk(m)'
<1>. PICK a : a = m.from
  OBVIOUS
<1>. PICK b : b = m.to
  OBVIOUS
<1>. PICK c : c = m.comment
  OBVIOUS
<1>1. Grow(n) /\ i = This /\ TextGrows /\ \A k \in NewTokens : CodeOrText(out'[k], i)
  BY DEF Visited
<1>2. c \in Nodes /\ c \in Nodes' /\ Len(out) \in Nat /\ Len(out') \in Nat
  BY <1>1, NodesGrowOne DEF MarkNew, TextGrows, NodesGrow
<1>3. CASE a = 0 /\ b = 0
  <2>1. (a + 1)..b = {}
    BY <1>3
  <2>2. a \in Nat /\ b \in Nat /\ b <= Len(out')
    BY <1>2, <1>3
  <2>. QED
    BY <1>2, <2>1, <2>2 DEF MarkOk
<1>4. CASE a = Len(out) /\ b = Len(out') /\ NextHeir(c)
  <2>1. IsHeir(c, i)'
    BY <1>1, <1>2, <1>4, NewHeir
  <2>2. \A k \in (a + 1)..b : CodeOrText(out'[k], i)
    BY <1>1, <1>4 DEF NewTokens
  <2>3. ASSUME NEW k \in (a + 1)..b, NEW t, t = out'[k] PROVE MarkedCode(t, c)'
    <3>1. CodeOrText(t, i)
      BY <2>2, <2>3
    <3>. QED
      BY <2>1, <3>1 DEF CodeOrText, MarkedCode
  <2>4. a \in Nat /\ b \in Nat /\ b <= Len(out')
    BY <1>2, <1>4
  <2>. QED
    BY <1>2, <2>3, <2>4 DEF MarkOk
<1>. QED
  BY <1>3, <1>4 DEF MarkNew

(* A visit with the marks its flags ask for keeps the invariant. *)
LEMMA MarksVisited ==
    ASSUME WalkTree, WalkTree', MarksInv, NEW n, NEW i, Visited(n, i), MarksNext(n), FlagsInv'
    PROVE  MarksInv'
<1>1. Grow(n) /\ i = This
  BY DEF Visited
<1>2. /\ Nodes' = Nodes \cup {i} /\ nodes'[i].is = n
      /\ \A k \in Nodes : nodes'[k] = nodes[k] /\ k < i
  <2>1. Nodes = 1..Len(nodes) /\ i = Len(nodes) + 1 /\ Len(nodes) \in Nat
    BY <1>1, NodesAre DEF WalkTree, TreeInv, This
  <2>2. \A k \in Nodes : k < i
    BY <2>1
  <2>3. nodes'[i] = [parent |-> Parent, is |-> n]
    BY <1>1, NodesGrowOne
  <2>4. nodes'[i].is = n
    BY <2>3
  <2>5. Nodes' = Nodes \cup {i} /\ \A k \in Nodes : nodes'[k] = nodes[k]
    BY <1>1, NodesGrowOne DEF NodesGrow
  <2>. QED
    BY <2>2, <2>4, <2>5
<1>3. /\ TokensOfNodes'
      /\ \A k \in CodeOf(i)' : k \in NewTokens
      /\ \A f \in Nodes : CodeOf(f)' = CodeOf(f)
  BY TokensStay DEF MarksInv
<1>4. ASSUME NEW m \in marks' PROVE MarkOk(m)'
  <2>1. m \in marks \/ MarkNew(m)
    BY <1>4 DEF MarksNext
  <2>. QED
    BY <2>1, MarkOkStays, MarkNewOk DEF MarksInv
<1>5. ASSUME NEW c, Directive(c)', NEW f, IsHeir(c, f)'
      PROVE  /\ Directive(c) /\ c \in Nodes /\ nodes'[c] = nodes[c]
             /\ (f \in Nodes /\ IsHeir(c, f)) \/ (f = i /\ NextHeir(c))
  <2>1. f \in Nodes' /\ c < f
    BY <1>5 DEF IsHeir
  <2>2. Directive(c) /\ c \in Nodes
    <3>1. Directive(c) \/ c = i
      BY <1>1, <1>5, DirectiveGrown
    <3>2. c # i
      <4>1. f \in Nodes => f < i /\ f \in Nat /\ i \in Nat
        BY <1>1, <1>2, NodesAre DEF WalkTree, TreeInv, This
      <4>2. i \in Nat
        BY <1>1, NodesAre DEF WalkTree, TreeInv, This
      <4>. QED
        BY <1>2, <2>1, <4>1, <4>2
    <3>. QED
      BY <3>1, <3>2 DEF Directive
  <2>3. f \in Nodes => IsHeir(c, f)
    BY <1>1, <1>5, <2>2, HeirStays
  <2>4. f = i => NextHeir(c)
    BY <1>1, <1>5, <2>2, NewHeir
  <2>. QED
    BY <1>2, <2>1, <2>2, <2>3, <2>4
<1>6. ASSUME NEW c, NEW f, Directive(c)', IsHeir(c, f)', IsElement(f)'
      PROVE  Covered(c, f)'
  <2>1. CASE f \in Nodes /\ IsHeir(c, f)
    <3>1. Directive(c) /\ IsElement(f)
      BY <1>2, <1>5, <1>6, <2>1 DEF IsElement
    <3>2. PICK m \in marks : m.comment = c /\ Covers(m, f)
      BY <2>1, <3>1 DEF MarksInv, Covered
    <3>3. m \in marks' /\ Covers(m, f)'
      BY <1>3, <2>1, <3>2 DEF MarksNext, Covers
    <3>. QED
      BY <3>2, <3>3 DEF Covered
  <2>2. CASE f = i /\ NextHeir(c)
    <3>1. n.kind = "element"
      BY <1>2, <1>6, <2>2 DEF IsElement
    <3>2. PICK m \in marks' : m.comment = c /\ m.from = Len(out) /\ m.to = Len(out')
      BY <1>5, <1>6, <2>2, <3>1 DEF MarksNext
    <3>3. \A k \in NewTokens : m.from < k /\ k <= m.to
      <4>1. Len(out) \in Nat /\ Len(out') \in Nat
        BY DEF Visited, TextGrows
      <4>. QED
        BY <3>2, <4>1 DEF NewTokens
    <3>4. Covers(m, f)'
      BY <1>3, <2>2, <3>3 DEF Covers
    <3>. QED
      BY <3>2, <3>4 DEF Covered
  <2>. QED
    BY <1>5, <1>6, <2>1, <2>2
<1>7. ASSUME NEW c, Directive(c)', nodes'[c].is.directive = "expect", NEW f, IsHeir(c, f)'
      PROVE  Expected(c)'
  <2>1. Directive(c) /\ nodes[c].is.directive = "expect"
    BY <1>5, <1>7
  <2>2. CASE IsHeir(c, f)
    <3>1. Expected(c)
      BY <2>1, <2>2 DEF MarksInv
    <3>. QED
      BY <3>1 DEF Expected, MarksNext
  <2>3. CASE NextHeir(c)
    BY <2>1, <2>3 DEF MarksNext
  <2>. QED
    BY <1>5, <1>7, <2>2, <2>3
<1>. QED
  BY <1>3, <1>4, <1>6, <1>7 DEF MarksInv

(* The flag is that of the comment whose heir comes next.                  *)
LEMMA FlagsSay ==
    ASSUME FlagsInv
    PROVE  /\ ignoring # 0 => Directive(ignoring) /\ NextHeir(ignoring)
           /\ expecting # 0 => Directive(expecting) /\ NextHeir(expecting)
           /\ \A c : Directive(c) /\ NextHeir(c) =>
                \/ c = ignoring /\ ignoring # 0 /\ nodes[c].is.directive = "ignore"
                \/ c = expecting /\ expecting # 0 /\ ignoring = 0
BY DEF FlagsInv, Flag

(* The fields of a mark. *)
LEMMA MarkFields ==
    ASSUME NEW kind, NEW c, NEW a, NEW b, NEW m, m = Mark(kind, c, a, b)
    PROVE  m.comment = c /\ m.from = a /\ m.to = b
BY DEF Mark

(* The marks of code are those the flags ask for (mapIgnoreDirective,      *)
(* mapExpectErrorDirective).                                               *)
LEMMA MarksOfNext ==
    ASSUME FlagsInv, NEW a, a = Len(out), NEW b, b = Len(out'), marks' = marks \cup MarksOf(a, b), NEW n
    PROVE  MarksNext(n)
<1>1. ASSUME NEW m \in marks', m \notin marks PROVE MarkNew(m)
  <2>1. \/ ignoring # 0 /\ m = Mark("ignore", ignoring, a, b)
        \/ expecting # 0 /\ m = Mark("expect", expecting, a, b)
    BY <1>1 DEF MarksOf
  <2>2. \/ ignoring # 0 /\ m.comment = ignoring /\ m.from = a /\ m.to = b
        \/ expecting # 0 /\ m.comment = expecting /\ m.from = a /\ m.to = b
    BY <2>1, MarkFields
  <2>. QED
    BY <2>2, FlagsSay DEF MarkNew, Directive
<1>2. ASSUME NEW c, Directive(c), NextHeir(c)
      PROVE  \E m \in marks' : m.comment = c /\ m.from = a /\ m.to = b
  <2>. PICK u : u = Mark("ignore", c, a, b)
    OBVIOUS
  <2>. PICK v : v = Mark("expect", c, a, b)
    OBVIOUS
  <2>1. u \in marks' \/ v \in marks'
    BY <1>2, FlagsSay DEF MarksOf
  <2>. QED
    BY <2>1, MarkFields
<1>. QED
  BY <1>1, <1>2 DEF MarksNext, Expected

(* A leaf without code satisfies the expectation with an empty mark. *)
LEMMA UnusedNext ==
    ASSUME FlagsInv, marks' = marks \cup UnusedMark, NEW n, n.kind # "element"
    PROVE  MarksNext(n)
<1>1. ASSUME NEW m \in marks', m \notin marks PROVE MarkNew(m)
  <2>1. expecting # 0 /\ m = Mark("expect", expecting, 0, 0)
    BY <1>1 DEF UnusedMark
  <2>2. m.comment = expecting /\ m.from = 0 /\ m.to = 0
    BY <2>1, MarkFields
  <2>. QED
    BY <2>1, <2>2, FlagsSay DEF MarkNew, Directive
<1>2. ASSUME NEW c, Directive(c), NextHeir(c), nodes[c].is.directive = "expect"
      PROVE  Expected(c)'
  <2>. PICK v : v = Mark("expect", c, 0, 0)
    OBVIOUS
  <2>1. v \in marks'
    BY <1>2, FlagsSay DEF UnusedMark
  <2>. QED
    BY <2>1, MarkFields DEF Expected
<1>. QED
  BY <1>1, <1>2 DEF MarksNext

(* The new tokens are those that were added.                               *)
LEMMA TextAdded ==
    ASSUME AnySeq(out), NEW s, AnySeq(s), out' = out \o s
    PROVE  TextGrows /\ \A k \in NewTokens : out'[k] \in Elems(s)
<1>. PICK n : n = Len(out)
  OBVIOUS
<1>1. /\ AnySeq(out') /\ Len(out') = n + Len(s) /\ n \in Nat /\ Len(s) \in Nat
      /\ \A k \in 1..n : out'[k] = out[k]
      /\ \A k \in 0..n : Blocks'[k] = Blocks[k]
      /\ \A k \in 1..Len(s) : out'[n + k] = s[k]
  BY TextGrown
<1>2. Len(out') \in Nat /\ n <= Len(out')
  BY <1>1
<1>3. TextGrows
  BY <1>1, <1>2 DEF TextGrows
<1>4. \A j \in 1..Len(s) : s[j] \in Elems(s)
  BY SeqIs DEF Elems
<1>5. ASSUME NEW k \in NewTokens PROVE out'[k] \in Elems(s)
  <2>. PICK j : j = k - n
    OBVIOUS
  <2>1. j \in 1..Len(s) /\ n + j = k
    BY <1>1 DEF NewTokens
  <2>2. out'[k] = s[j] /\ s[j] \in Elems(s)
    BY <1>1, <1>4, <2>1
  <2>. QED
    BY <2>2
<1>. QED
  BY <1>3, <1>5

(* Nothing was added. *)
LEMMA SameText ==
    ASSUME AnySeq(out), out' = out, NEW i
    PROVE  TextGrows /\ \A k \in NewTokens : CodeOrText(out'[k], i)
<1>1. Len(out) \in Nat /\ Blocks' = Blocks
  BY SeqIs DEF Blocks
<1>2. NewTokens = {}
  BY <1>1 DEF NewTokens
<1>. QED
  BY <1>1, <1>2 DEF TextGrows

(* What an element writes before its children is its code. *)
LEMMA ElementCode ==
    ASSUME NEW e, Effective(e) \in Directives, NEW t, TokenOf(e, t)
    PROVE  CodeOrText(t, This)
<1>1. CASE IsExpr(t, This)
  BY <1>1 DEF IsExpr, CodeOrText
<1>2. CASE t = [t |-> Effective(e), node |-> This]
  BY <1>2 DEF CodeOrText, Directives
<1>3. CASE \/ t = [t |-> "for", node |-> This] \/ t = [t |-> "own", node |-> This]
           \/ t = [t |-> "guards", node |-> This, guards |-> CondsAfter(e)]
           \/ t = [t |-> "slot", node |-> This]
  <2>1. t.t \in {"for", "own", "guards", "slot"} /\ t.node = This
    BY <1>3
  <2>. QED
    BY <2>1 DEF CodeOrText
<1>. QED
  BY <1>1, <1>2, <1>3 DEF TokenOf, OwnToken

(* A comment, a text or an interpolation.                                  *)
LeafFlags(n, i) ==
    /\ \A c : Flag(c)' <=> c = i /\ n.kind = "comment" /\ n.directive # "none"
    /\ ignoring' = 0 \/ expecting' = 0
    /\ ignoring' # 0 => n.directive = "ignore"

(* Only a comment sets a flag. *)
LEMMA FlagsCleared ==
    ASSUME ClearFlags, NEW n, n.kind # "comment", NEW i
    PROVE  LeafFlags(n, i)
BY DEF ClearFlags, LeafFlags, Flag

(* What a leaf does, of any kind. *)
LEMMA LeafVisited ==
    ASSUME WalkTree, AnySeq(out), FlagsInv, VisitComment \/ VisitText \/ VisitInterpolation, NEW i, i = This
    PROVE  \E n \in catalogue :
             /\ n.kind # "element" /\ Visited(n, i) /\ MarksNext(n)
             /\ LeafFlags(n, i) /\ UNCHANGED open
<1>1. CASE VisitComment
  <2>1. PICK n \in catalogue :
          /\ n.kind = "comment" /\ Grow(n) /\ marks' = marks \cup UnusedMark
          /\ ignoring' = IF n.directive = "ignore" THEN This ELSE 0
          /\ expecting' = IF n.directive = "expect" THEN This ELSE 0
    BY <1>1 DEF VisitComment
  <2>2. n \in UNION Catalogues /\ n.directive \in {"none", "ignore", "expect"}
    <3>1. n \in UNION Catalogues
      BY DEF WalkTree, ChainInv, WalkTyped
    <3>. QED
      BY <2>1, <3>1, CataloguesAssumption
  <2>3. out' = out /\ open' = open
    BY <1>1 DEF VisitComment
  <2>4. i # 0
    BY NodesAre DEF WalkTree, TreeInv, This
  <2>5. LeafFlags(n, i)
    BY <2>1, <2>2, <2>4 DEF LeafFlags, Flag
  <2>6. Visited(n, i)
    BY <2>1, <2>3, SameText DEF Visited
  <2>7. MarksNext(n)
    <3>1. n.kind # "element"
      BY <2>1
    <3>. QED
      BY <2>1, <3>1, UnusedNext
  <2>. QED
    BY <2>1, <2>3, <2>5, <2>6, <2>7
<1>2. CASE VisitText
  <2>1. PICK n \in catalogue : n.kind = "text" /\ Grow(n)
    BY <1>2 DEF VisitText
  <2>2. marks' = marks \cup UnusedMark /\ ClearFlags /\ out' = out /\ open' = open
    BY <1>2 DEF VisitText
  <2>3. n.kind # "element" /\ n.kind # "comment"
    BY <2>1
  <2>4. LeafFlags(n, i)
    BY <2>2, <2>3, FlagsCleared
  <2>5. Visited(n, i)
    BY <2>1, <2>2, SameText DEF Visited
  <2>6. MarksNext(n)
    BY <2>2, <2>3, UnusedNext
  <2>. QED
    BY <2>2, <2>3, <2>4, <2>5, <2>6
<1>3. CASE VisitInterpolation
  <2>1. PICK n \in catalogue :
          /\ n.kind = "interpolation" /\ Grow(n)
          /\ out' = out \o <<Token("text")>> \o MapExpression(n.code, scopes, This, "text")
    BY <1>3 DEF VisitInterpolation
  <2>2. marks' = marks \cup MarksOf(Len(out), Len(out')) /\ ClearFlags /\ open' = open
    BY <1>3 DEF VisitInterpolation
  <2>3. n.kind # "element" /\ n.kind # "comment"
    BY <2>1
  <2>4. LeafFlags(n, i)
    BY <2>2, <2>3, FlagsCleared
  <2>5. Visited(n, i)
    <3>. DEFINE head == <<Token("text")>>
                use == MapExpression(n.code, scopes, This, "text")
                s == head \o use
    <3>1. AnySeq(head) /\ \A t \in Elems(head) : CodeOrText(t, i)
      <4>1. CodeOrText(Token("text"), i)
        BY DEF Token, CodeOrText
      <4>. QED
        BY <4>1, ShortSeqs
    <3>2. AnySeq(use) /\ \A t \in Elems(use) : CodeOrText(t, i)
      <4>1. AnySeq(use) /\ \A t \in Elems(use) : IsExpr(t, i)
        BY <2>1, ExpressionTokens DEF Parts
      <4>. HIDE DEF use
      <4>. QED
        BY <4>1 DEF IsExpr, CodeOrText
    <3>. HIDE DEF head, use
    <3>3. AnySeq(s) /\ \A t \in Elems(s) : CodeOrText(t, i)
      BY <3>1, <3>2, SeqConcat
    <3>4. out' = out \o s
      BY <2>1, <3>1, <3>2, SeqAssociative DEF head, use
    <3>. HIDE DEF s
    <3>. QED
      BY <2>1, <3>3, <3>4, TextAdded DEF Visited
  <2>6. MarksNext(n)
    BY <2>2, MarksOfNext
  <2>. QED
    BY <2>2, <2>3, <2>4, <2>5, <2>6
<1>. QED
  BY <1>1, <1>2, <1>3

(* Behind a leaf the flags are those of the leaf. *)
LEMMA FlagsLeaf ==
    ASSUME WalkTree, NEW n, n.kind # "element", Grow(n), NEW i, i = This, LeafFlags(n, i), UNCHANGED open
    PROVE  FlagsInv'
<1>1. Parent' = Parent
  BY DEF Parent, Last
<1>2. \A c : Flag(c)' <=> c = i /\ n.kind = "comment" /\ n.directive # "none"
  BY DEF LeafFlags
<1>3. Nodes' = Nodes \cup {i} /\ nodes'[i].is = n
  <2>1. Nodes' = Nodes \cup {i}
    BY NodesGrowOne
  <2>. QED
    BY <2>1, DirectiveGrown
<1>4. \A c \in Nodes' : NextHeir(c)' <=> c = i
  BY <1>1, NextHeirLeaf
<1>5. \A c : Directive(c)' /\ NextHeir(c)' <=> c = i /\ n.kind = "comment" /\ n.directive # "none"
  BY <1>3, <1>4 DEF Directive
<1>6. ignoring' # 0 => nodes'[ignoring'].is.directive = "ignore"
  <2>1. ignoring' # 0 => ignoring' = i
    BY <1>2 DEF Flag
  <2>. QED
    BY <1>3, <2>1 DEF LeafFlags
<1>. QED
  BY <1>2, <1>5, <1>6 DEF FlagsInv, LeafFlags

(* Comments, texts and interpolations. *)
LEMMA MarksLeaf ==
    ASSUME WalkTree, WalkTree', InsideLast, AnySeq(out), PreInv, MarksInv,
           VisitComment \/ VisitText \/ VisitInterpolation
    PROVE  PreInv' /\ MarksInv'
<1>. PICK i : i = This
  OBVIOUS
<1>1. FlagsInv
  BY DEF MarksInv
<1>2. PICK n \in catalogue :
        /\ n.kind # "element" /\ Visited(n, i) /\ MarksNext(n)
        /\ LeafFlags(n, i) /\ UNCHANGED open
  BY <1>1, LeafVisited
<1>3. Grow(n) /\ Parent' = Parent
  BY <1>2 DEF Visited, Parent, Last
<1>4. FlagsInv'
  BY <1>2, <1>3, FlagsLeaf
<1>5. MarksInv'
  BY <1>2, <1>4, MarksVisited
<1>6. PreInv'
  BY <1>2, <1>3, PreGrow
<1>. QED
  BY <1>5, <1>6

(* An element before its children.                                         *)
LEMMA MarksOpen ==
    ASSUME WalkTree, WalkTree', InsideLast, AnySeq(out), PreInv, MarksInv, OpenElement
    PROVE  PreInv' /\ MarksInv'
<1>. PICK i : i = This
  OBVIOUS
<1>1. PICK e : Opens(e)
  BY OpenElementIs
<1>2. /\ e.kind = "element" /\ Grow(e) /\ out' = out \o Written(e)
      /\ marks' = marks \cup MarksOf(Len(out), Len(out'))
      /\ ignoring' = ignoring /\ expecting' = expecting
  BY <1>1, WrittenIs DEF Opens
<1>3. Parent' = i
  <2>. PICK n : n = Len(open)
    OBVIOUS
  <2>1. /\ n \in Nat /\ Len(open') = n + 1
        /\ open'[n + 1] = [node |-> i, chain |-> ChainAfter(e), ctx |-> parentCtx,
                           branch |-> Effective(e)]
    BY <1>1, CallOpened
  <2>2. Parent' = IF open' = <<>> THEN 0 ELSE open'[Len(open')].node
    BY DEF Parent, Last
  <2>3. open' # <<>>
    <3>1. Len(open') # 0
      BY <2>1
    <3>. QED
      BY <3>1
  <2>. QED
    BY <2>1, <2>2, <2>3
<1>4. Visited(e, i)
  <2>1. Effective(e) \in Directives
    BY BranchType DEF WalkTree, Directives
  <2>2. \A t : TokenOf(e, t) => CodeOrText(t, i)
    BY <2>1, ElementCode
  <2>3. AnySeq(Written(e)) /\ \A t \in Elems(Written(e)) : CodeOrText(t, i)
    BY <2>2, ElementTokens
  <2>. QED
    BY <1>2, <2>3, TextAdded DEF Visited
<1>5. FlagsInv /\ MarksNext(e)
  BY <1>2, MarksOfNext DEF MarksInv
<1>6. FlagsInv'
  <2>1. /\ nodes'[i].is = e /\ Nodes' = Nodes \cup {i} /\ i \notin Nodes
        /\ \A c \in Nodes : nodes'[c] = nodes[c]
    <3>1. nodes'[i].is = e
      BY <1>2, DirectiveGrown
    <3>. QED
      BY <1>2, <3>1, NodesGrowOne DEF NodesGrow
  <2>2. \A c : Directive(c)' <=> Directive(c)
    BY <1>2, <2>1 DEF Directive
  <2>3. \A c \in Nodes : NextHeir(c)' <=> NextHeir(c)
    BY <1>2, <1>3, NextHeirOpen
  <2>4. \A c : Directive(c)' /\ NextHeir(c)' <=> Directive(c) /\ NextHeir(c)
    BY <2>2, <2>3 DEF Directive
  <2>5. \A c : Flag(c)' <=> Flag(c)
    BY <1>2 DEF Flag
  <2>6. ignoring # 0 => ignoring \in Nodes
    BY <1>5 DEF FlagsInv, Flag, Directive
  <2>. QED
    BY <1>2, <1>5, <2>1, <2>4, <2>5, <2>6 DEF FlagsInv
<1>7. MarksInv'
  BY <1>4, <1>5, <1>6, MarksVisited
<1>8. PreInv'
  BY <1>2, PreGrow
<1>. QED
  BY <1>7, <1>8

(* The nodes stay, and the text grows by braces.                           *)
LEMMA MarkOkBehind ==
    ASSUME UNCHANGED nodes, TextGrows, NEW m, MarkOk(m)
    PROVE  MarkOk(m)'
<1>. PICK a : a = m.from
  OBVIOUS
<1>. PICK b : b = m.to
  OBVIOUS
<1>. PICK c : c = m.comment
  OBVIOUS
<1>1. c \in Nodes /\ a \in Nat /\ b \in Nat /\ b <= Len(out) /\ b <= Len(out')
  BY DEF MarkOk, TextGrows
<1>2. Nodes' = Nodes /\ \A f : IsHeir(c, f)' <=> IsHeir(c, f)
  BY DEF Nodes, IsHeir, IsElement
<1>3. \A k \in (a + 1)..b : out'[k] = out[k]
  <2>1. \A k \in (a + 1)..b : k \in 1..Len(out)
    BY <1>1 DEF TextGrows
  <2>. QED
    BY <2>1 DEF TextGrows
<1>4. \A t : MarkedCode(t, c) => MarkedCode(t, c)'
  BY <1>2 DEF MarkedCode
<1>. QED
  BY <1>1, <1>2, <1>3, <1>4 DEF MarkOk

(* Braces are no code of a node. *)
LEMMA CodeBehind ==
    ASSUME TextGrows, UNCHANGED nodes, TokensOfNodes, \A k \in NewTokens : IsBrace(out'[k]) /\ out'[k].node = 0
    PROVE  TokensOfNodes' /\ \A f : CodeOf(f)' = CodeOf(f)
<1>1. /\ DOMAIN out' = DOMAIN out \cup NewTokens
      /\ \A k \in DOMAIN out : out'[k] = out[k] /\ k \notin NewTokens
  <2>1. /\ DOMAIN out = 1..Len(out) /\ DOMAIN out' = 1..Len(out')
        /\ Len(out) \in Nat /\ Len(out') \in Nat /\ Len(out) <= Len(out')
    BY SeqIs DEF TextGrows
  <2>2. 1..Len(out') = (1..Len(out)) \cup ((Len(out) + 1)..Len(out'))
    BY <2>1
  <2>3. \A k \in 1..Len(out) : k \notin (Len(out) + 1)..Len(out')
    BY <2>1
  <2>. QED
    BY <2>1, <2>2, <2>3 DEF NewTokens, TextGrows
<1>2. Nodes' = Nodes
  BY DEF Nodes
<1>3. TokensOfNodes'
  BY <1>1, <1>2 DEF TokensOfNodes
<1>4. ASSUME NEW f PROVE CodeOf(f)' = CodeOf(f)
  <2>1. \A k : k \in CodeOf(f)' <=> k \in CodeOf(f)
    BY <1>1 DEF CodeOf, IsBrace
  <2>. QED
    BY <2>1 DEF CodeOf
<1>. QED
  BY <1>3, <1>4

(* No node, no mark, and text that marks nothing.                          *)
LEMMA MarksBehind ==
    ASSUME MarksInv, UNCHANGED <<nodes, marks>>, TextGrows, FlagsInv',
           \A k \in NewTokens : IsBrace(out'[k]) /\ out'[k].node = 0
    PROVE  MarksInv'
<1>1. TokensOfNodes' /\ \A f : CodeOf(f)' = CodeOf(f)
  BY CodeBehind DEF MarksInv
<1>2. /\ Nodes' = Nodes
      /\ \A c, f : IsHeir(c, f)' <=> IsHeir(c, f)
      /\ \A f : IsElement(f)' <=> IsElement(f)
      /\ \A c : Directive(c)' <=> Directive(c)
  BY DEF Nodes, IsHeir, IsElement, Directive
<1>3. \A m : MarkOk(m) => MarkOk(m)'
  BY MarkOkBehind
<1>4. \A c, f : Covered(c, f) => Covered(c, f)'
  BY <1>1 DEF Covered, Covers
<1>5. \A c : Expected(c) => Expected(c)'
  BY DEF Expected
<1>. QED
  BY <1>1, <1>2, <1>3, <1>4, <1>5 DEF MarksInv

(* An element behind its children. *)
LEMMA MarksClose ==
    ASSUME WalkTree, WalkTree', InsideLast, AnySeq(out), PreInv, MarksInv, CloseElement
    PROVE  PreInv' /\ MarksInv'
<1>1. /\ UNCHANGED <<nodes, marks>> /\ ClearFlags
      /\ \E e, branch : out' = out \o Closes(e, branch)
  BY DEF CloseElement, Last
<1>2. FlagsInv'
  <2>1. \A c : ~(Directive(c)' /\ NextHeir(c)')
    <3>1. \A c : Directive(c)' => c \in Nodes /\ ~IsElement(c)
      BY <1>1 DEF Directive, IsElement, Nodes
    <3>. QED
      BY <3>1, NextHeirClose
  <2>. QED
    BY <1>1, <2>1 DEF FlagsInv, Flag, ClearFlags
<1>3. TextGrows /\ \A k \in NewTokens : IsBrace(out'[k]) /\ out'[k].node = 0
  <2>1. PICK e, branch : out' = out \o Closes(e, branch)
    BY <1>1
  <2>. PICK s : s = Closes(e, branch)
    OBVIOUS
  <2>2. AnySeq(s) /\ \A t \in Elems(s) : t.t = "}" /\ t.node = 0
    BY ClosesAre
  <2>. QED
    BY <2>1, <2>2, TextAdded DEF IsBrace
<1>4. MarksInv'
  BY <1>1, <1>2, <1>3, MarksBehind
<1>5. PreInv'
  BY PreClose
<1>. QED
  BY <1>4, <1>5

(* Before the first node. *)
LEMMA MarksAtFirst == Init => PreInv /\ MarksInv
<1>. SUFFICES ASSUME Init PROVE PreInv /\ MarksInv
  OBVIOUS
<1>1. /\ nodes = <<>> /\ Len(nodes) = 0 /\ Nodes = {} /\ out = <<>> /\ DOMAIN out = {} /\ marks = {}
      /\ ignoring = 0 /\ expecting = 0
  BY DEF Init, Nodes
<1>2. PreInv
  BY <1>1 DEF PreInv, NextOfLeaf, LastLeaf, LeafFollowers, Leaf
<1>3. FlagsInv
  BY <1>1 DEF FlagsInv, Flag, Directive
<1>. QED
  BY <1>1, <1>2, <1>3 DEF MarksInv, TokensOfNodes, Directive

(* Where nothing is visited or left nothing changes. *)
LEMMA MarksSame ==
    ASSUME UNCHANGED <<nodes, open, ignoring, expecting, out, marks>>, PreInv, MarksInv
    PROVE  PreInv' /\ MarksInv'
<1>1. /\ Nodes' = Nodes /\ Parent' = Parent /\ Len(out)' = Len(out)
      /\ \A f : Leaf(f)' <=> Leaf(f)
      /\ \A f : CodeOf(f)' = CodeOf(f)
      /\ \A c, f : IsHeir(c, f)' <=> IsHeir(c, f)
      /\ \A f : IsElement(f)' <=> IsElement(f)
  BY DEF Nodes, Parent, Last, Leaf, CodeOf, IsHeir, IsElement
<1>2. /\ \A c : NextHeir(c)' <=> NextHeir(c)
      /\ \A c : Directive(c)' <=> Directive(c)
      /\ \A c : Flag(c)' <=> Flag(c)
      /\ \A c, f : Covered(c, f)' <=> Covered(c, f)
      /\ \A c : Expected(c)' <=> Expected(c)
      /\ \A m : MarkOk(m)' <=> MarkOk(m)
  BY <1>1 DEF NextHeir, Directive, Flag, Covered, Covers, Expected, MarkOk, MarkedCode
<1>3. PreInv'
  BY <1>1 DEF PreInv, NextOfLeaf, LastLeaf, LeafFollowers
<1>4. FlagsInv' /\ TokensOfNodes'
  BY <1>1, <1>2 DEF MarksInv, FlagsInv, TokensOfNodes
<1>. QED
  BY <1>1, <1>2, <1>3, <1>4 DEF MarksInv

(* Every step keeps it. *)
LEMMA MarksStep ==
    WalkTree /\ WalkTree' /\ BareInv /\ BlocksInv /\ PreInv /\ MarksInv /\ [Next]_vars => PreInv' /\ MarksInv'
<1>. SUFFICES ASSUME WalkTree, WalkTree', BareInv, BlocksInv, PreInv, MarksInv, [Next]_vars
              PROVE  PreInv' /\ MarksInv'
  OBVIOUS
<1>1. AnySeq(out) /\ InsideLast
  BY DEF BareInv, UsesInv, BlocksInv
<1>2. CASE VisitComment \/ VisitText \/ VisitInterpolation
  BY <1>1, <1>2, MarksLeaf
<1>3. CASE OpenElement
  BY <1>1, <1>3, MarksOpen
<1>4. CASE CloseElement
  BY <1>1, <1>4, MarksClose
<1>5. CASE Finish \/ UNCHANGED vars
  <2>1. UNCHANGED <<nodes, open, ignoring, expecting, out, marks>>
    BY <1>5 DEF Finish, vars
  <2>. QED
    BY <2>1, MarksSame
<1>. QED
  BY <1>2, <1>3, <1>4, <1>5 DEF Next

(* Hence it holds in every state. *)
LEMMA MarksInvariant == Spec => [](PreInv /\ MarksInv)
BY WalkTreeInvariant, BareInvariant, BlocksInvariant, MarksAtFirst, MarksStep, PTL DEF Spec

(* It says what the property asks. *)
LEMMA MarksInvSays == WalkTree /\ BareInv /\ PreInv /\ MarksInv => MarksWhatFollows
<1>. SUFFICES ASSUME WalkTree, BareInv, PreInv, MarksInv,
                     NEW c \in {i \in Nodes : nodes[i].is.kind = "comment" /\ nodes[i].is.directive # "none"}
              PROVE  LET mine == {m \in marks : m.comment = c}
                     IN  /\ \A f \in Heirs[c] :
                               nodes[f].is.kind = "element" => \E m \in mine : \A k \in CodeOf(f) : m.from < k /\ k <= m.to
                         /\ \A m \in mine : \A k \in (m.from + 1)..m.to :
                               \E f \in Heirs[c] : k \in CodeOf(f) \/ out[k].t = "text"
                         /\ nodes[c].is.directive = "expect" /\ Heirs[c] # {} => mine # {}
  BY DEF MarksWhatFollows
<1>1. Directive(c) /\ Leaf(c) /\ c \in Nodes
  BY DEF Directive, Leaf
<1>2. \A j : j \in Heirs[c] <=> IsHeir(c, j)
  BY <1>1, HeirsAre DEF WalkTree
<1>3. ASSUME NEW f \in Heirs[c], nodes[f].is.kind = "element"
      PROVE  \E m \in marks : m.comment = c /\ \A k \in CodeOf(f) : m.from < k /\ k <= m.to
  <2>1. IsHeir(c, f) /\ IsElement(f)
    BY <1>2, <1>3 DEF IsElement
  <2>2. Covered(c, f)
    BY <1>1, <2>1 DEF MarksInv
  <2>. QED
    BY <2>2 DEF Covered, Covers
<1>4. ASSUME NEW m \in marks, m.comment = c, NEW k \in (m.from + 1)..m.to
      PROVE  \E f \in Heirs[c] : k \in CodeOf(f) \/ out[k].t = "text"
  <2>. PICK t : t = out[k]
    OBVIOUS
  <2>1. MarkOk(m)
    BY DEF MarksInv
  <2>2. MarkedCode(t, c)
    BY <1>4, <2>1 DEF MarkOk
  <2>3. k \in DOMAIN out
    <3>. PICK a : a = m.from
      OBVIOUS
    <3>. PICK b : b = m.to
      OBVIOUS
    <3>1. a \in Nat /\ b \in Nat /\ b <= Len(out) /\ k \in (a + 1)..b
      BY <1>4, <2>1 DEF MarkOk
    <3>2. AnySeq(out)
      BY DEF BareInv, UsesInv
    <3>3. DOMAIN out = 1..Len(out) /\ Len(out) \in Nat
      BY <3>2, SeqIs
    <3>. QED
      BY <3>1, <3>3
  <2>4. PICK f : IsHeir(c, f) /\ (t.t = "text" \/ (t.node = f /\ t.t # "}"))
    BY <2>2 DEF MarkedCode
  <2>5. k \in CodeOf(f) \/ out[k].t = "text"
    BY <2>3, <2>4 DEF CodeOf
  <2>. QED
    BY <1>2, <2>4, <2>5
<1>5. ASSUME nodes[c].is.directive = "expect", Heirs[c] # {}
      PROVE  \E m \in marks : m.comment = c
  <2>1. \E f : IsHeir(c, f)
    BY <1>2, <1>5
  <2>. QED
    BY <1>1, <1>5, <2>1 DEF MarksInv, Expected
<1>. QED
  BY <1>3, <1>4, <1>5

(* A comment with a directive marks the code of the sibling behind it and  *)
(* of the first children below that, nothing but their code and plain      *)
(* text, and what it expects is expected if there is such a node: a flag   *)
(* is set exactly while the next node is one of them (ignoreError and      *)
(* expectError in visit).                                                  *)
THEOREM MarksAreOfWhatFollows == Spec => []MarksWhatFollows
BY WalkTreeInvariant, BareInvariant, MarksInvariant, MarksInvSays, PTL
=============================================================================
