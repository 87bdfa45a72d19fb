------------------------- MODULE FlowRelationsProofs -------------------------
(* Proofs about FlowRelations, for graphs of any size N.                   *)
EXTENDS FlowRelations, FiniteSetTheorems, WellFoundedInduction, TLAPS

-----------------------------------------------------------------------------
(* Maxima of sets of nodes.                                                *)

\* A non-empty set of naturals has a least element.
LEMMA NatMin ==
  ASSUME NEW S, S \subseteq Nat, S # {}
  PROVE  \E x \in S : \A y \in S : x <= y
<1>1. PICK x \in S : \A y \in S : ~ (<<y, x>> \in OpToRel(<, Nat))
  BY NatLessThanWellFounded, WFMin, Zenon
<1>2. ASSUME NEW y \in S PROVE x <= y
  <2>1. <<y, x>> \notin {ss \in Nat \X Nat : ss[1] < ss[2]}
    BY <1>1 DEF OpToRel
  <2>2. y \in Nat /\ x \in Nat
    OBVIOUS
  <2>3. ~ (y < x)
    BY <2>1, <2>2
  <2> QED BY <2>2, <2>3
<1> QED BY <1>2

\* A non-empty set of numbers up to N has a largest element.
LEMMA BoundedMax ==
  ASSUME NEW S, S \subseteq 0 .. N, S # {}
  PROVE  \E x \in S : \A y \in S : x >= y
<1> DEFINE T == {N - y : y \in S}
<1>1. T \subseteq Nat /\ T # {}
  <2>1. \A y \in S : N - y \in Nat
    BY NAssumption
  <2> QED BY <2>1
<1>2. PICK t \in T : \A u \in T : t <= u
  BY <1>1, NatMin, Zenon
<1>3. PICK x \in S : t = N - x
  BY <1>2
<1>4. ASSUME NEW y \in S PROVE x >= y
  <2>1. t <= N - y BY <1>2
  <2> QED BY <2>1, <1>3, NAssumption
<1> QED BY <1>4

\* There are finitely many nodes, N of them.
LEMMA NodesFinite == IsFiniteSet(Nodes) /\ Cardinality(Nodes) = N
  BY NAssumption, FS_Interval DEF Nodes

\* A bitset of nodes has between 0 and N elements.
LEMMA NodeSubsetCardinality ==
  ASSUME NEW S \in SUBSET Nodes
  PROVE  Cardinality(S) \in 0 .. N
<1>1. IsFiniteSet(S) /\ Cardinality(S) <= N
  BY NodesFinite, FS_Subset
<1> QED BY <1>1, FS_CardinalityType, NAssumption

\* The max() that picks the immediate dominator always finds one: a strict
\* dominator whose own set is largest.
LEMMA ImmediateDominatorPicked ==
  ASSUME NEW d \in [Nodes -> SUBSET Nodes], NEW n \in Nodes, d[n] \ {n} # {}
  PROVE  /\ ImmediateDominator(d, n) \in d[n] \ {n}
         /\ \A k \in d[n] \ {n} : Cardinality(d[ImmediateDominator(d, n)]) >= Cardinality(d[k])
<1> DEFINE strict == d[n] \ {n}
           key(m, k) == \/ Cardinality(d[m]) > Cardinality(d[k])
                        \/ Cardinality(d[m]) = Cardinality(d[k]) /\ m >= k
<1>1. strict \subseteq Nodes
  OBVIOUS
<1>2. \A m \in Nodes : Cardinality(d[m]) \in 0 .. N
  BY NodeSubsetCardinality
<1> DEFINE sizes == {Cardinality(d[m]) : m \in strict}
<1>3. sizes \subseteq 0 .. N /\ sizes # {}
  BY <1>1, <1>2
<1> HIDE DEF sizes
<1>4. PICK c \in sizes : \A e \in sizes : c >= e
  BY <1>3, BoundedMax, Zenon
<1> DEFINE best == {m \in strict : Cardinality(d[m]) = c}
<1>5. best # {}
  BY <1>4 DEF sizes
<1>6. best \subseteq 0 .. N
  BY <1>1, NAssumption DEF Nodes
<1> HIDE DEF best
<1>7. PICK m \in best : \A k \in best : m >= k
  BY <1>5, <1>6, BoundedMax, Zenon
<1>8. m \in strict /\ Cardinality(d[m]) = c
  BY <1>7 DEF best
<1>9. \A k \in strict : Cardinality(d[k]) \in sizes
  BY DEF sizes
<1>10. ASSUME NEW k \in strict PROVE key(m, k)
  <2>1. Cardinality(d[k]) <= c /\ Cardinality(d[k]) \in 0 .. N
    BY <1>1, <1>2, <1>4, <1>9
  <2>2. CASE Cardinality(d[k]) = c
    BY <2>2, <1>7, <1>8 DEF best
  <2>3. CASE Cardinality(d[k]) # c
    <3>1. c \in 0 .. N
      BY <1>3, <1>4
    <3> QED BY <2>1, <2>3, <1>8, <3>1
  <2> QED BY <2>2, <2>3
<1>11. \E x \in strict : \A k \in strict : key(x, k)
  BY <1>8, <1>10
<1>12. strict # {}
  OBVIOUS
<1>13. ASSUME NEW x \in strict, NEW k \in strict, key(x, k)
       PROVE  Cardinality(d[x]) >= Cardinality(d[k])
  BY <1>1, <1>2, <1>13
<1> HIDE DEF key, strict
<1> DEFINE choice == CHOOSE x \in strict : \A k \in strict : key(x, k)
<1>14. choice \in strict /\ \A k \in strict : key(choice, k)
  BY <1>11
<1>15. ImmediateDominator(d, n) = choice
  BY <1>12 DEF ImmediateDominator, key, strict
<1> HIDE DEF choice
<1>16. \A k \in strict : Cardinality(d[choice]) >= Cardinality(d[k])
  BY <1>13, <1>14
<1> QED BY <1>14, <1>15, <1>16 DEF strict

\* max() finds a node wherever there is a strict dominator.
LEMMA ImmediateDominatorType ==
  ASSUME NEW d \in [Nodes -> SUBSET Nodes], NEW n \in Nodes
  PROVE  ImmediateDominator(d, n) \in Nodes \cup {None}
<1>1. CASE d[n] \ {n} = {}
  BY <1>1 DEF ImmediateDominator
<1>2. CASE d[n] \ {n} # {}
  BY <1>2, ImmediateDominatorPicked
<1> QED BY <1>1, <1>2

\* unterminated_nodes[-1], the last of a non-empty list of nodes, is one of them.
LEMMA MaxInSet ==
  ASSUME NEW S \in SUBSET Nodes, S # {}
  PROVE  Max(S) \in S
<1>1. S \subseteq 0 .. N
  BY NAssumption DEF Nodes
<1>2. \E x \in S : \A y \in S : x >= y
  BY <1>1, BoundedMax, Zenon
<1> QED BY <1>2 DEF Max

-----------------------------------------------------------------------------
(* Type correctness.                                                       *)

\* The entry, the TerminalNode and the root of either direction are nodes.
LEMMA ConstantFacts ==
  /\ Entry \in Nodes /\ Terminal \in Nodes
  /\ \A dir : Root(dir) \in Nodes
  BY NAssumption DEF Nodes, Entry, Terminal, Root

\* The bitsets compute_dominators starts from are sets of nodes.
LEMMA InitialDomsType ==
  ASSUME NEW r \in Nodes
  PROVE  InitialDoms(r) \in [Nodes -> SUBSET Nodes]
  BY DEF InitialDoms

\* A loop body is a set of nodes.
LEMMA InvReachableType ==
  \A e, w : inv_reachable_without(e, w) \subseteq Nodes
  BY DEF inv_reachable_without, Closure

\* Whatever its kind, a node only has nodes as successors.
LEMMA ShapesLeadToNodes ==
  \A shape \in NodeShapes \cup {TerminalShape} : shape.succ \subseteq Nodes
<1>1. \A shape \in NodeShapes : shape.succ \subseteq Nodes
  BY ConstantFacts DEF NodeShapes, Targets
<1>2. TerminalShape.succ \subseteq Nodes
  BY DEF TerminalShape
<1> QED BY <1>1, <1>2

\* children() holds nodes, with and without the fake edge.
LEMMA ChildrenAreNodes ==
  ASSUME TypeOK, NEW n \in Nodes
  PROVE  children(n) \subseteq Nodes
<1>1. node[n].succ \subseteq Nodes
  BY ShapesLeadToNodes DEF TypeOK
<1> QED BY <1>1, ConstantFacts DEF children

\* The state build_nodes hands over is well typed.
LEMMA InitTypeOK == Init => TypeOK
<1> SUFFICES ASSUME Init PROVE TypeOK
  OBVIOUS
<1>1. node \in [Nodes -> NodeShapes \cup {TerminalShape}]
  <2>1. PICK shape \in [Targets -> NodeShapes] :
          node = [n \in Nodes |-> IF n = Terminal THEN TerminalShape ELSE shape[n]]
    BY DEF Init, InitGraph
  <2>2. \A n \in Nodes : n # Terminal => shape[n] \in NodeShapes
    BY DEF Targets
  <2> QED BY <2>1, <2>2
<1>2. doms \in [Nodes -> SUBSET Nodes]
  BY ConstantFacts, InitialDomsType DEF Init
<1>3. i \in 0 .. N
  BY NAssumption DEF Init
<1> QED BY <1>1, <1>2, <1>3 DEF Init, InitGraph, TypeOK, Phases

\* Every step of the relations pass keeps the state well typed.
LEMMA StepTypeOK == TypeOK /\ [Next]_vars => TypeOK'
<1> SUFFICES ASSUME TypeOK, [Next]_vars PROVE TypeOK'
  OBVIOUS
<1> USE ConstantFacts, InitialDomsType
<1>1. CASE VisitNode
  <2>1. i \in Nodes /\ i + 1 \in 0 .. N
    BY <1>1, NAssumption DEF TypeOK, VisitNode, Nodes
  <2>2. NewSet(pc, i) \in SUBSET Nodes
    BY <2>1 DEF NewSet, TypeOK
  <2>3. doms' \in [Nodes -> SUBSET Nodes] /\ changes' \in BOOLEAN
    <3>1. CASE i = Root(pc)
      BY <1>1, <3>1 DEF TypeOK, VisitNode
    <3>2. CASE i # Root(pc)
      <4>1. doms' = [doms EXCEPT ![i] = NewSet(pc, i)]
        BY <1>1, <3>2 DEF VisitNode
      <4>2. changes' = (changes \/ NewSet(pc, i) # doms[i])
        BY <1>1, <3>2 DEF VisitNode
      <4>3. doms' \in [Nodes -> SUBSET Nodes]
        BY <2>2, <4>1 DEF TypeOK
      <4> QED BY <4>2, <4>3
    <3> QED BY <3>1, <3>2
  <2> QED BY <1>1, <2>1, <2>3 DEF TypeOK, VisitNode, graphVars, relVars, kahnVars
<1>2. CASE NextSweep
  <2>1. i' \in 0 .. N /\ changes' \in BOOLEAN
    <3>1. i' = 0 /\ changes' = FALSE
      BY <1>2, Zenon DEF NextSweep
    <3>2. 0 \in 0 .. N
      BY NAssumption
    <3> QED BY <3>1, <3>2
  <2> QED BY <1>2, <2>1 DEF TypeOK, NextSweep, graphVars, relVars, kahnVars
<1>3. CASE FinishDominators
  <2>1. immediate_dominator' \in [Nodes -> Nodes \cup {None}]
    BY <1>3, ImmediateDominatorType DEF FinishDominators, TypeOK
  <2>2. doms' \in [Nodes -> SUBSET Nodes] /\ i' \in 0 .. N
    BY <1>3, NAssumption DEF FinishDominators, StartDominators
  <2> QED BY <1>3, <2>1, <2>2
          DEF TypeOK, FinishDominators, StartDominators, Phases, graphVars, kahnVars
<1>4. CASE FinishPostdominators
  <2>1. immediate_postdominator' \in [Nodes -> Nodes \cup {None}]
    BY <1>4, ImmediateDominatorType DEF FinishPostdominators, TypeOK
  <2> QED BY <1>4, <2>1
          DEF TypeOK, FinishPostdominators, Phases, graphVars, domVars, kahnVars
<1>5. CASE FindLoops
  <2>1. \A h \in Nodes :
          /\ loop[h].nodes \subseteq Nodes
          /\ loop[h].backedges \subseteq Nodes
          /\ BackedgesTo(h) \subseteq Nodes
          /\ UNION {inv_reachable_without(n, h) : n \in BackedgesTo(h)} \subseteq Nodes
    BY InvReachableType DEF TypeOK, BackedgesTo
  <2>2. loop' \in [Nodes -> [nodes : SUBSET Nodes, backedges : SUBSET Nodes]]
    BY <1>5, <2>1 DEF FindLoops
  <2> QED BY <1>5, <2>2
          DEF TypeOK, FindLoops, Phases, graphVars, domVars, relVars, kahnVars
<1>6. CASE AddFakeEdge
  <2>1. fake' \subseteq Nodes
    <3>1. UnterminatedNodes \in SUBSET Nodes /\ UnterminatedNodes # {}
      BY <1>6 DEF AddFakeEdge, UnterminatedNodes
    <3>2. Max(UnterminatedNodes) \in Nodes
      BY <3>1, MaxInSet
    <3> QED BY <1>6, <3>2 DEF AddFakeEdge, TypeOK
  <2>2. doms' \in [Nodes -> SUBSET Nodes] /\ i' \in 0 .. N
    BY <1>6, NAssumption DEF AddFakeEdge, StartDominators
  <2> QED BY <1>6, <2>1, <2>2
          DEF TypeOK, AddFakeEdge, StartDominators, Phases, relVars, kahnVars
<1>7. CASE NothingUnterminated
  <2>1. incoming' \in [Nodes -> SUBSET Nodes]
    BY <1>7 DEF NothingUnterminated, parents
  <2> QED BY <1>7, <2>1
          DEF TypeOK, NothingUnterminated, Phases, graphVars, domVars, relVars
<1>8. ASSUME NEW n \in Nodes, KahnPop(n) PROVE TypeOK'
  <2>1. incoming' \in [Nodes -> SUBSET Nodes]
    BY <1>8 DEF KahnPop, TypeOK
  <2>2. ForwardChildren(n) \subseteq Nodes
    BY <1>8, ChildrenAreNodes DEF ForwardChildren
  <2>3. queue' \subseteq Nodes /\ seen' \subseteq Nodes
    BY <1>8, <2>2 DEF KahnPop, TypeOK
  <2> QED BY <1>8, <2>1, <2>3 DEF TypeOK, KahnPop, graphVars, domVars, relVars
<1>9. CASE KahnDone
  BY <1>9 DEF TypeOK, KahnDone, Phases, graphVars, domVars, relVars
<1>10. CASE Returned \/ UNCHANGED vars
  BY <1>10 DEF TypeOK, Returned, vars, graphVars, domVars, relVars, kahnVars
<1> QED BY <1>1, <1>2, <1>3, <1>4, <1>5, <1>6, <1>7, <1>8, <1>9, <1>10 DEF Next

\* Every reachable state is well typed, for every number of nodes: in
\* particular the max() that picks an immediate dominator, and the
\* unterminated_nodes[-1] that gets the fake edge, always exist.
THEOREM TypeCorrect == Spec => []TypeOK
  BY InitTypeOK, StepTypeOK, PTL DEF Spec

-----------------------------------------------------------------------------
(* The fixpoint.  The invariant of the two sweeping loops is that no true  *)
(* dominator is ever dropped, and that the nodes visited since the start   *)
(* of a sweep that changed nothing satisfy the dataflow equation.          *)

Sweeping == pc \in {"dominators", "postdominators"}

Sound(dir) ==
  /\ \A n \in Nodes : n \in doms[n]
  /\ doms[Root(dir)] = {Root(dir)}
  /\ \A d, n \in Nodes : Dominates(dir, d, n) => d \in doms[n]

Stable(dir, n) ==
  n # Root(dir) =>
    \A p \in Preds(dir, n) : \A d \in doms[n] \ {n} : d \in doms[p]

DomInv ==
  Sweeping => /\ Sound(pc)
              /\ changes = FALSE => \A n \in Nodes : n < i => Stable(pc, n)

\* The predecessors a sweep intersects over are nodes, in both directions.
LEMMA PredsAreNodes ==
  ASSUME TypeOK, NEW dir, NEW n \in Nodes
  PROVE  Preds(dir, n) \subseteq Nodes
  BY ChildrenAreNodes DEF Preds, parents

\* Only the root dominates the root.
LEMMA DominatesRoot ==
  ASSUME NEW dir, NEW d \in Nodes, Dominates(dir, d, Root(dir))
  PROVE  d = Root(dir)
  BY DEF Dominates, Avoiding

\* A dominator of n other than n dominates every predecessor of n.
LEMMA DominatesPreds ==
  ASSUME TypeOK, NEW dir, NEW d \in Nodes, NEW n \in Nodes, d # n,
         Dominates(dir, d, n), NEW p \in Preds(dir, n)
  PROVE  Dominates(dir, d, p)
<1>1. PICK S \in Avoiding(dir, d) : n \notin S
  BY DEF Dominates
<1>2. p \notin S
  BY <1>1 DEF Avoiding
<1> QED BY <1>1, <1>2 DEF Dominates

\* A solution of the dataflow equation only holds true dominators.
LEMMA FixpointDominates ==
  ASSUME TypeOK, NEW dir, Sound(dir), \A n \in Nodes : Stable(dir, n),
         NEW d \in Nodes, NEW n \in Nodes, d \in doms[n]
  PROVE  Dominates(dir, d, n)
<1> DEFINE S == {m \in Nodes : d \notin doms[m]}
<1>1. S \subseteq Nodes \ {d}
  BY DEF Sound
<1>2. Root(dir) \in S \cup {d}
  BY ConstantFacts DEF Sound
<1>3. ASSUME NEW m \in Nodes \ {d}, Preds(dir, m) \cap S # {} PROVE m \in S
  <2>1. PICK p \in Preds(dir, m) : d \notin doms[p]
    BY <1>3
  <2>2. CASE m = Root(dir)
    BY <2>2 DEF Sound
  <2>3. CASE m # Root(dir)
    BY <2>1, <2>3 DEF Stable
  <2> QED BY <2>2, <2>3
<1>4. S \in Avoiding(dir, d)
  BY <1>1, <1>2, <1>3 DEF Avoiding
<1>5. n \notin S
  OBVIOUS
<1> QED BY <1>4, <1>5 DEF Dominates

\* Both directions: what a finished fixpoint holds is exact.
LEMMA FixpointExact ==
  ASSUME TypeOK, NEW dir, Sound(dir), \A n \in Nodes : Stable(dir, n)
  PROVE  Exact(dir, doms)
  BY FixpointDominates DEF Exact, Sound

\* The initial bitsets drop no dominator.
LEMMA InitialDomsSound ==
  \A dir : doms = InitialDoms(Root(dir)) => Sound(dir)
<1> SUFFICES ASSUME NEW dir, doms = InitialDoms(Root(dir)) PROVE Sound(dir)
  OBVIOUS
<1>1. \A n \in Nodes : n \in doms[n]
  BY DEF InitialDoms
<1>2. doms[Root(dir)] = {Root(dir)}
  BY ConstantFacts DEF InitialDoms
<1>3. ASSUME NEW d \in Nodes, NEW n \in Nodes, Dominates(dir, d, n)
      PROVE  d \in doms[n]
  <2>1. CASE n = Root(dir)
    BY <2>1, <1>2, <1>3, DominatesRoot
  <2>2. CASE n # Root(dir)
    BY <2>2 DEF InitialDoms
  <2> QED BY <2>1, <2>2
<1> QED BY <1>1, <1>2, <1>3 DEF Sound

\* While no fake edge is added, predecessors and true dominators stay the same.
LEMMA SameGraph ==
  ASSUME UNCHANGED graphVars, NEW dir
  PROVE  /\ \A n : Preds(dir, n)' = Preds(dir, n)
         /\ \A d, n : Dominates(dir, d, n)' <=> Dominates(dir, d, n)
<1>1. \A n : children(n)' = children(n)
  BY DEF graphVars, children
<1>2. \A n : Preds(dir, n)' = Preds(dir, n)
  BY <1>1 DEF Preds, parents
<1>3. \A d : Avoiding(dir, d)' = Avoiding(dir, d)
  BY <1>2 DEF Avoiding, Root
<1> QED BY <1>2, <1>3 DEF Dominates

\* Finished bitsets stay exact while the graph and they stay the same.
LEMMA SameGraphExact ==
  ASSUME UNCHANGED graphVars
  PROVE  /\ dominators' = dominators =>
              (Exact("dominators", dominators) => Exact("dominators", dominators)')
         /\ postdominators' = postdominators =>
              (Exact("postdominators", postdominators)
                 => Exact("postdominators", postdominators)')
  BY SameGraph DEF Exact

\* A visit drops no dominator, and a visit that changes nothing leaves the
\* visited node stable.
LEMMA VisitKeepsDomInv ==
  ASSUME TypeOK, DomInv, VisitNode PROVE DomInv'
<1>1. PICK dir \in Phases : dir = pc
  BY DEF TypeOK
<1>2. /\ pc' = dir /\ Sound(dir) /\ i \in Nodes /\ i' = i + 1
      /\ UNCHANGED graphVars
  BY <1>1, NAssumption DEF DomInv, Sweeping, VisitNode, TypeOK, Nodes
<1>3. doms' = IF i = Root(dir) THEN doms ELSE [doms EXCEPT ![i] = NewSet(dir, i)]
  BY <1>1 DEF VisitNode
<1>4. Sound(dir)'
  <2>1. \A n \in Nodes : n \in doms'[n]
    BY <1>2, <1>3 DEF Sound, NewSet, TypeOK
  <2>2. doms'[Root(dir)] = {Root(dir)}
    BY <1>2, <1>3, ConstantFacts DEF Sound, TypeOK
  <2>3. ASSUME NEW d \in Nodes, NEW n \in Nodes, Dominates(dir, d, n)
        PROVE  d \in doms'[n]
    <3>1. d \in doms[n]
      BY <1>2, <2>3 DEF Sound
    <3>2. CASE n = i /\ i # Root(dir)
      <4>1. ASSUME NEW p \in Preds(dir, n), d # n PROVE d \in doms[p]
        BY <1>2, <2>3, <4>1, DominatesPreds, PredsAreNodes DEF Sound
      <4>2. d \in NewSet(dir, n)
        BY <3>1, <4>1 DEF NewSet
      <4> QED BY <1>2, <1>3, <3>2, <4>2 DEF TypeOK
    <3>3. CASE n # i \/ i = Root(dir)
      BY <1>2, <1>3, <3>1, <3>3 DEF TypeOK
    <3> QED BY <3>2, <3>3
  <2>4. Root(dir)' = Root(dir)
    BY DEF Root
  <2>5. \A d, n \in Nodes : Dominates(dir, d, n)' => d \in doms'[n]
    BY <1>2, <2>3, SameGraph
  <2> QED BY <2>1, <2>2, <2>4, <2>5 DEF Sound
<1>5. ASSUME changes' = FALSE, NEW n \in Nodes, n < i'
      PROVE  Stable(dir, n)'
  <2>1. /\ i # Root(dir) => NewSet(dir, i) = doms[i]
        /\ changes = FALSE
    <3>1. CASE i = Root(dir)
      BY <1>1, <1>5, <3>1, Zenon DEF VisitNode
    <3>2. CASE i # Root(dir)
      <4>1. changes' = (changes \/ NewSet(dir, i) # doms[i])
        BY <1>1, <3>2, Zenon DEF VisitNode
      <4>2. changes \in BOOLEAN
        BY DEF TypeOK
      <4> QED BY <1>5, <4>1, <4>2, Zenon
    <3> QED BY <3>1, <3>2
  <2>2. doms' = doms
    BY <1>2, <1>3, <2>1 DEF TypeOK
  <2>3. Stable(dir, n)
    <3>1. CASE n < i
      BY <1>1, <2>1, <3>1 DEF DomInv, Sweeping, VisitNode
    <3>2. CASE n = i
      BY <2>1, <3>2 DEF Stable, NewSet
    <3> QED BY <1>2, <1>5, <3>1, <3>2 DEF Nodes
  <2>4. Preds(dir, n)' = Preds(dir, n) /\ Root(dir)' = Root(dir)
    BY <1>2, SameGraph DEF Root
  <2> QED BY <2>2, <2>3, <2>4 DEF Stable
<1> QED BY <1>2, <1>4, <1>5 DEF DomInv

InitialSound == \A dir : doms = InitialDoms(Root(dir)) => Sound(dir)

\* The initial bitsets also drop no dominator of the next state's graph.
LEMMA InitialDomsSoundNext == InitialSound'
<1>1. InitialSound
  BY InitialDomsSound DEF InitialSound
<1> QED BY <1>1, PTL

\* A call of compute_dominators starts in the invariant.
LEMMA StartKeepsDomInv ==
  ASSUME NEW dir \in {"dominators", "postdominators"}, StartDominators(dir)
  PROVE  DomInv'
<1>1. Root(dir)' = Root(dir) /\ InitialDoms(Root(dir))' = InitialDoms(Root(dir))
  BY DEF Root, InitialDoms
<1>2. Sound(dir)'
  BY <1>1, InitialDomsSoundNext DEF StartDominators, InitialSound
<1>3. \A n \in Nodes : ~ (n < i')
  BY NAssumption DEF StartDominators, Nodes
<1> QED BY <1>2, <1>3 DEF StartDominators, DomInv

\* A sweep that ends without changes leaves the exact dominators.
LEMMA FinishedExact ==
  ASSUME TypeOK, DomInv, Sweeping, i = N, changes = FALSE, NEW dir, dir = pc
  PROVE  Exact(dir, doms)
<1>1. Sound(dir)
  BY DEF DomInv
<1>2. \A n \in Nodes : Stable(dir, n)
  BY NAssumption DEF DomInv, Nodes
<1> QED BY <1>1, <1>2, FixpointExact

IInv == TypeOK /\ DomInv /\ DominatorsExact

\* Every step of the relations pass keeps the inductive invariant.
LEMMA StepIInv == IInv /\ [Next]_vars => IInv'
<1> SUFFICES ASSUME IInv, [Next]_vars PROVE (DomInv /\ DominatorsExact)'
  BY StepTypeOK DEF IInv
<1> USE DEF IInv
<1>1. CASE VisitNode
  <2>1. DomInv'
    BY <1>1, VisitKeepsDomInv
  <2>2. UNCHANGED <<graphVars, pc, dominators, postdominators>>
    BY <1>1 DEF VisitNode, relVars
  <2> QED BY <2>1, <2>2, SameGraphExact DEF DominatorsExact
<1>2. CASE NextSweep
  <2>1. /\ UNCHANGED <<graphVars, pc, doms, relVars>>
        /\ i' = 0 /\ Sweeping
    BY <1>2, Zenon DEF NextSweep, Sweeping
  <2>2. PICK dir \in Phases : dir = pc
    BY DEF TypeOK
  <2>3. Sound(dir)'
    <3>1. Root(dir)' = Root(dir)
      BY DEF Root
    <3> QED BY <2>1, <2>2, <3>1, SameGraph DEF DomInv, Sound
  <2>4. \A n \in Nodes : ~ (n < i')
    BY <2>1 DEF Nodes
  <2> QED BY <2>1, <2>2, <2>3, <2>4, SameGraphExact
          DEF DomInv, DominatorsExact, relVars
<1>3. CASE FinishDominators
  <2>1. DomInv'
    BY <1>3, StartKeepsDomInv DEF FinishDominators
  <2>2. /\ pc = "dominators" /\ i = N /\ changes = FALSE
        /\ pc' = "postdominators" /\ dominators' = doms /\ UNCHANGED graphVars
    <3>1. changes = FALSE
      BY <1>3, Zenon DEF FinishDominators, TypeOK
    <3> QED BY <1>3, <3>1 DEF FinishDominators, StartDominators
  <2>3. Exact("dominators", doms)
    BY <2>2, FinishedExact DEF Sweeping
  <2>4. Exact("dominators", dominators)'
    BY <2>2, <2>3, SameGraph DEF Exact
  <2> QED BY <2>1, <2>2, <2>4 DEF DominatorsExact
<1>4. CASE FinishPostdominators
  <2>1. /\ pc = "postdominators" /\ i = N /\ changes = FALSE /\ pc' = "loops"
        /\ postdominators' = doms /\ dominators' = dominators
        /\ UNCHANGED graphVars
    <3>1. changes = FALSE
      BY <1>4, Zenon DEF FinishPostdominators, TypeOK
    <3> QED BY <1>4, <3>1 DEF FinishPostdominators
  <2>2. Exact("postdominators", doms)
    BY <2>1, FinishedExact DEF Sweeping
  <2>3. Exact("postdominators", postdominators)'
    BY <2>1, <2>2, SameGraph DEF Exact
  <2>4. Exact("dominators", dominators)'
    BY <2>1, SameGraphExact DEF DominatorsExact
  <2> QED BY <2>1, <2>3, <2>4 DEF DominatorsExact, DomInv, Sweeping
<1>5. CASE AddFakeEdge
  <2>1. StartDominators("dominators")
    BY <1>5 DEF AddFakeEdge
  <2>2. DomInv' /\ pc' = "dominators"
    BY <2>1, StartKeepsDomInv DEF StartDominators
  <2> QED BY <2>2 DEF DominatorsExact
<1>6. ASSUME ~Sweeping, ~Sweeping', UNCHANGED <<graphVars, relVars>>
      PROVE  (DomInv /\ DominatorsExact)'
  BY <1>6, SameGraphExact DEF DomInv, DominatorsExact, Sweeping, relVars
<1>7. CASE FindLoops
  BY <1>6, <1>7 DEF FindLoops, Sweeping
<1>8. CASE NothingUnterminated
  BY <1>6, <1>8 DEF NothingUnterminated, Sweeping
<1>9. ASSUME NEW n \in Nodes, KahnPop(n) PROVE (DomInv /\ DominatorsExact)'
  BY <1>6, <1>9 DEF KahnPop, Sweeping
<1>10. CASE KahnDone
  BY <1>6, <1>10 DEF KahnDone, Sweeping
<1>11. CASE Returned
  BY <1>6, <1>11 DEF Returned, Sweeping, vars
<1>12. CASE UNCHANGED vars
  <2>1. UNCHANGED <<graphVars, pc, doms, i, changes, relVars>>
    BY <1>12 DEF vars, domVars
  <2>2. PICK dir \in Phases : dir = pc
    BY DEF TypeOK
  <2>3. Root(dir)' = Root(dir)
    BY DEF Root
  <2>4. Sweeping => Sound(dir)'
    BY <2>1, <2>2, <2>3, SameGraph DEF DomInv, Sound
  <2>5. \A n \in Nodes : Stable(dir, n) => Stable(dir, n)'
    BY <2>1, <2>3, SameGraph DEF Stable
  <2> QED BY <2>1, <2>2, <2>4, <2>5, SameGraphExact
          DEF DomInv, DominatorsExact, relVars, Sweeping
<1> QED BY <1>1, <1>2, <1>3, <1>4, <1>5, <1>7, <1>8, <1>9, <1>10, <1>11, <1>12
        DEF Next

\* The inductive invariant holds when compute_relations is first called.
LEMMA InitIInv == Init => IInv
<1> SUFFICES ASSUME Init PROVE IInv
  OBVIOUS
<1>1. Root("dominators") = Entry
  BY DEF Root
<1>2. Sound("dominators")
  BY <1>1, InitialDomsSound DEF Init
<1>3. \A n \in Nodes : ~ (n < i)
  BY NAssumption DEF Init, Nodes
<1> QED BY <1>2, <1>3, InitTypeOK DEF Init, IInv, DomInv, DominatorsExact

\* compute_dominators computes the dominators and the postdominators of every
\* flow graph, of any size and shape, also when it runs again after a fake
\* edge: the set it stores for n holds d exactly when every path from the
\* root to n goes through d.
THEOREM DominatorsCorrect == Spec => []DominatorsExact
<1>1. IInv => DominatorsExact
  BY DEF IInv
<1> QED BY <1>1, InitIInv, StepIInv, PTL DEF Spec
=============================================================================
