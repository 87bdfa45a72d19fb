----------------------------- MODULE LoopProofs ------------------------------
(***************************************************************************)
(* Natural loops of FlowRelations, for flow graphs of any size: FindLoops, *)
(* also when it adds to the loops of an earlier call.                      *)
(***************************************************************************)
EXTENDS DominanceProofs

-----------------------------------------------------------------------------
(* The loop of a head, from the graph.                                     *)

\* Dominance from the entry.
Dom(d, n) == Dominates("dominators", d, n)

\* The nodes with a backedge to h.
Tails(h) == {n \in Nodes : h \in children(n) /\ Dom(h, n)}

\* The edges that do not touch h.
Around(h)   == [n \in Nodes |-> IF n = h THEN {} ELSE children(n) \ {h}]
AroundUp(h) == [n \in Nodes |-> IF n = h THEN {} ELSE parents(n) \ {h}]

\* The natural loop of h: what reaches a backedge without passing through h.
Body(h) ==
  IF Tails(h) = {} THEN {}
  ELSE {h} \cup {n \in Nodes \ {h} : Dom(h, n) /\ Reach({n}, Around(h)) \cap Tails(h) # {}}

\* The edges around h, forwards and backwards.
LEMMA AroundFacts ==
  ASSUME TypeOK, NEW h \in Nodes
  PROVE  /\ Around(h) \in Edges /\ AroundUp(h) \in Edges
         /\ Converse(Around(h), AroundUp(h))
<1>1. \A n \in Nodes : children(n) \subseteq Nodes /\ parents(n) \subseteq Nodes
  BY ChildrenAreNodes DEF parents
<1>2. \A m, n \in Nodes : n \in children(m) <=> m \in parents(n)
  BY DEF parents
<1>3. Around(h) \in Edges /\ AroundUp(h) \in Edges
  BY <1>1 DEF Around, AroundUp, Edges
<1>4. ASSUME NEW m \in Nodes, NEW n \in Nodes
      PROVE  n \in Around(h)[m] <=> m \in AroundUp(h)[n]
  BY <1>2 DEF Around, AroundUp
<1> QED BY <1>3, <1>4 DEF Converse

\* A walk that never enters h does not care about the edges that leave h.
LEMMA ReachAround ==
  ASSUME NEW h \in Nodes, NEW f \in Edges, NEW g \in Edges,
         \A m \in Nodes : h \notin f[m] /\ g[m] = IF m = h THEN {} ELSE f[m],
         NEW x \in Nodes \ {h}
  PROVE  Reach({x}, f) = Reach({x}, g) /\ h \notin Reach({x}, f)
<1>1. Reach({x}, f) \subseteq Nodes \ {h}
  <2>1. PICK T \in SUBSET Nodes : T = Nodes \ {h}
    OBVIOUS
  <2>2. {x} \subseteq T /\ \A m \in T : f[m] \subseteq T
    BY <2>1 DEF Edges
  <2>3. Reach({x}, f) \subseteq T
    BY <2>2, ReachLeast
  <2> QED BY <2>1, <2>3
<1>2. Reach({x}, g) \subseteq Reach({x}, f)
  BY ReachMonotone
<1>3. Reach({x}, f) \subseteq Reach({x}, g)
  <2>1. PICK R \in SUBSET Nodes : R = Reach({x}, g)
    BY DEF Reach
  <2>2. ASSUME NEW m \in R PROVE f[m] \subseteq R
    <3>1. m \in Nodes /\ m # h /\ g[m] = f[m] /\ g[m] \subseteq Nodes
      BY <1>1, <1>2, <2>1 DEF Edges
    <3> QED BY <2>1, <3>1, ReachStep
  <2>3. {x} \subseteq R
    BY <2>1, ReachStart
  <2>4. Reach({x}, f) \subseteq R
    BY <2>2, <2>3, ReachLeast
  <2> QED BY <2>1, <2>4
<1> QED BY <1>1, <1>2, <1>3

\* inv_reachable_without(t, h) holds what reaches t without going through h.
LEMMA InvReachableAround ==
  ASSUME TypeOK, NEW h \in Nodes, NEW t \in Nodes \ {h}
  PROVE  inv_reachable_without(t, h) = Reach({t}, AroundUp(h))
<1> DEFINE F == [n \in Nodes |-> parents(n) \ {h}]
<1>1. {t} \ {h} = {t}
  OBVIOUS
<1>2. inv_reachable_without(t, h) = Reach({t} \ {h}, F)
  BY DEF inv_reachable_without, Closure, Reach
<1>3. F \in Edges
  BY DEF Edges, parents
<1>4. \A m \in Nodes : h \notin F[m] /\ AroundUp(h)[m] = IF m = h THEN {} ELSE F[m]
  BY DEF AroundUp
<1> HIDE DEF F
<1>5. Reach({t}, F) = Reach({t}, AroundUp(h))
  BY <1>3, <1>4, AroundFacts, ReachAround
<1> QED BY <1>1, <1>2, <1>5

\* A backedge from h to itself adds no node.
LEMMA InvReachableHead ==
  ASSUME NEW h \in Nodes
  PROVE  inv_reachable_without(h, h) = {}
<1>1. {h} \ {h} = {}
  OBVIOUS
<1>2. {} \in {S \in SUBSET Nodes : /\ {h} \ {h} \subseteq S
                                   /\ \A n \in S : parents(n) \ {h} \subseteq S}
  OBVIOUS
<1> QED BY <1>2 DEF inv_reachable_without, Closure

\* The same for the walk in the definition of LoopsExact.
LEMMA ForwardAround ==
  ASSUME TypeOK, NEW h \in Nodes, NEW n \in Nodes \ {h}
  PROVE  LET forward(m) == children(m) \ {h}
         IN  Closure({n}, forward) = Reach({n}, Around(h))
<1> DEFINE F == [m \in Nodes |-> children(m) \ {h}]
<1>1. LET forward(m) == children(m) \ {h} IN Closure({n}, forward) = Reach({n}, F)
  BY DEF Closure, Reach
<1>2. F \in Edges
  BY ChildrenAreNodes DEF Edges
<1>3. \A m \in Nodes : h \notin F[m] /\ Around(h)[m] = IF m = h THEN {} ELSE F[m]
  BY DEF Around
<1> HIDE DEF F
<1>4. Reach({n}, F) = Reach({n}, Around(h))
  BY <1>2, <1>3, AroundFacts, ReachAround
<1> QED BY <1>1, <1>4

\* What FindLoops collects for a head is its loop.
LEMMA FoundIsBody ==
  ASSUME TypeOK, NEW h \in Nodes, Tails(h) # {}
  PROVE  {h} \cup Tails(h) \cup UNION {inv_reachable_without(t, h) : t \in Tails(h)} = Body(h)
<1> USE AroundFacts
<1>1. ASSUME NEW t \in Tails(h), t # h PROVE t \in Body(h)
  <2>1. t \in Nodes \ {h} /\ Dom(h, t)
    BY <1>1 DEF Tails
  <2>2. t \in Reach({t}, Around(h))
    BY <2>1, ReachStart
  <2> QED BY <2>1, <2>2 DEF Body
<1>2. ASSUME NEW t \in Tails(h), NEW n \in inv_reachable_without(t, h) PROVE n \in Body(h)
  <2>1. t # h
    BY <1>2, InvReachableHead
  <2>2. t \in Nodes \ {h} /\ Dom(h, t)
    BY <2>1 DEF Tails
  <2>3. n \in Reach({t}, AroundUp(h))
    BY <2>2, InvReachableAround
  <2> DEFINE D == {m \in Nodes \ {h} : Dom(h, m)}
  <2>4. D \in SUBSET Nodes /\ {t} \subseteq D
    BY <2>2
  <2>5. ASSUME NEW m \in D PROVE AroundUp(h)[m] \subseteq D
    <3>1. SUFFICES ASSUME NEW p \in parents(m) \ {h} PROVE Dom(h, p)
      BY DEF AroundUp, parents
    <3>2. p \in Preds("dominators", m)
      BY DEF Preds
    <3> QED BY <3>2, DominatesPreds DEF Dom
  <2> HIDE DEF D
  <2>6. n \in D
    BY <2>3, <2>4, <2>5, ReachLeast
  <2>7. n \in Nodes \ {h} /\ Dom(h, n)
    BY <2>6 DEF D
  <2>8. t \in Reach({n}, Around(h))
    BY <2>2, <2>3, <2>7, ReachDual
  <2> QED BY <2>7, <2>8 DEF Body
<1>3. ASSUME NEW n \in Body(h), n # h
      PROVE  \E t \in Tails(h) : n \in inv_reachable_without(t, h)
  <2>1. n \in Nodes \ {h} /\ Reach({n}, Around(h)) \cap Tails(h) # {}
    BY <1>3 DEF Body
  <2>2. PICK t \in Tails(h) : t \in Reach({n}, Around(h))
    BY <2>1
  <2>3. Around(h)[h] = {} /\ \A m \in Nodes : h \notin Around(h)[m]
    BY DEF Around
  <2>4. t # h
    <3>1. h \notin Reach({n}, Around(h))
      BY <2>1, <2>3, ReachAround
    <3> QED BY <2>2, <3>1
  <2>5. t \in Nodes \ {h}
    BY <2>4 DEF Tails
  <2>6. n \in Reach({t}, AroundUp(h))
    BY <2>1, <2>2, <2>5, ReachDual
  <2> QED BY <2>5, <2>6, InvReachableAround
<1>4. h \in Body(h)
  BY DEF Body
<1> QED BY <1>1, <1>2, <1>3, <1>4

-----------------------------------------------------------------------------
(* A fake edge leads to the TerminalNode, which no path leaves: it adds no *)
(* dominator and takes none, except of the TerminalNode.                   *)

\* No edge leaves the TerminalNode.
LEMMA TerminalHasNoChildren ==
  ASSUME GraphInv PROVE children(Terminal) = {}
<1>1. node[Terminal].kind = "Terminal" /\ node[Terminal].succ = {}
  BY DEF GraphInv, TerminalShape
<1>2. Terminal \notin fake
  BY <1>1 DEF GraphInv
<1> QED BY <1>1, <1>2 DEF children

\* A fake edge adds an edge to the TerminalNode and nothing else.
LEMMA FakeEdgeChildren ==
  ASSUME TypeOK, GraphInv, AddFakeEdge
  PROVE  /\ children(Terminal)' = {}
         /\ \A n \in Nodes : /\ children(n) \subseteq children(n)'
                             /\ children(n)' \subseteq children(n) \cup {Terminal}
<1>1. GraphInv'
  BY AddFakeEdgeGraphInv
<1>2. children(Terminal)' = {}
  <2>1. node'[Terminal].kind = "Terminal" /\ node'[Terminal].succ = {}
    BY <1>1 DEF GraphInv, TerminalShape
  <2>2. Terminal \notin fake'
    BY <1>1, <2>1 DEF GraphInv
  <2> QED BY <2>1, <2>2 DEF children
<1>3. node' = node /\ fake \subseteq fake'
  BY DEF AddFakeEdge
<1> QED BY <1>2, <1>3 DEF children

\* A fake edge takes no dominator from a node other than the TerminalNode.
LEMMA FakeEdgeKeepsDom ==
  ASSUME TypeOK, GraphInv, AddFakeEdge, NEW d \in Nodes, NEW n \in Nodes \ {Terminal}, Dom(d, n)
  PROVE  Dom(d, n)'
<1>1. PICK S \in Avoiding("dominators", d) : n \notin S
  BY DEF Dom, Dominates
<1>2. PICK T \in SUBSET Nodes : T = (S \cup {Terminal}) \ {d}
  BY <1>1, ConstantFacts DEF Avoiding
<1>3. T \in SUBSET (Nodes \ {d}) /\ n \notin T
  BY <1>1, <1>2
<1>4. Entry \in T \cup {d}
  BY <1>1, <1>2 DEF Avoiding, Root
<1>5. ASSUME NEW m \in Nodes \ {d}, parents(m)' \cap T # {} PROVE m \in T
  <2>1. PICK p \in T : p \in Nodes /\ m \in children(p)'
    BY <1>5 DEF parents
  <2>2. p # Terminal
    BY <2>1, FakeEdgeChildren
  <2>3. p \in S
    BY <1>2, <2>1, <2>2
  <2>4. m \in children(p) \/ m = Terminal
    BY <2>1, FakeEdgeChildren
  <2>5. CASE m \in children(p)
    <3>1. p \in parents(m)
      BY <2>1, <2>5 DEF parents
    <3>2. m \in S
      BY <1>1, <2>3, <3>1 DEF Avoiding, Preds
    <3> QED BY <1>2, <3>2
  <2>6. CASE m = Terminal
    BY <1>2, <2>6
  <2> QED BY <2>4, <2>5, <2>6
<1>6. T \in Avoiding("dominators", d)'
  BY <1>3, <1>4, <1>5 DEF Avoiding, Preds, Root
<1> QED BY <1>3, <1>6 DEF Dom, Dominates

\* So the loops of the graph only grow.
LEMMA FakeEdgeKeepsLoops ==
  ASSUME TypeOK, GraphInv, AddFakeEdge, NEW h \in Nodes
  PROVE  Tails(h) \subseteq Tails(h)' /\ Body(h) \subseteq Body(h)'
<1>1. Tails(h) \subseteq Tails(h)'
  <2>1. SUFFICES ASSUME NEW t \in Tails(h) PROVE t \in Tails(h)'
    OBVIOUS
  <2>2. t \in Nodes \ {Terminal} /\ h \in children(t) /\ Dom(h, t)
    BY TerminalHasNoChildren DEF Tails
  <2>3. h \in children(t)' /\ Dom(h, t)'
    BY <2>2, FakeEdgeChildren, FakeEdgeKeepsDom
  <2> QED BY <2>2, <2>3 DEF Tails
<1>2. ASSUME NEW n \in Body(h) PROVE n \in Body(h)'
  <2>1. Tails(h) # {} /\ Tails(h)' # {}
    BY <1>1, <1>2 DEF Body
  <2>2. CASE n = h
    BY <2>1, <2>2 DEF Body
  <2>3. CASE n # h
    <3>1. n \in Nodes \ {h} /\ Dom(h, n)
      BY <1>2, <2>1, <2>3 DEF Body
    <3>2. PICK t \in Tails(h) : t \in Reach({n}, Around(h))
      BY <1>2, <2>1, <2>3 DEF Body
    <3>3. n # Terminal
      <4>1. SUFFICES ASSUME n = Terminal PROVE FALSE
        OBVIOUS
      <4>2. Around(h)[n] = {}
        BY <3>1, <4>1, TerminalHasNoChildren DEF Around
      <4>3. Reach({n}, Around(h)) \subseteq {n}
        <5>1. PICK S \in SUBSET Nodes : S = {n}
          BY <3>1
        <5>2. {n} \subseteq S /\ \A m \in S : Around(h)[m] \subseteq S
          BY <4>2, <5>1
        <5> QED BY <5>1, <5>2, ReachLeast
      <4>4. h \in children(Terminal)
        BY <3>2, <4>1, <4>3 DEF Tails
      <4> QED BY <4>4, TerminalHasNoChildren
    <3>4. Dom(h, n)'
      BY <3>1, <3>3, FakeEdgeKeepsDom
    <3>5. PICK g \in Edges : g = Around(h)'
      <4>1. \A m \in Nodes : children(m)' \subseteq Nodes
        BY ChildrenAreNodes, FakeEdgeChildren, ConstantFacts
      <4> QED BY <4>1 DEF Around, Edges
    <3>6. \A m \in Nodes : Around(h)[m] \subseteq g[m]
      BY <3>5, FakeEdgeChildren DEF Around
    <3>7. t \in Reach({n}, g)
      BY <3>1, <3>2, <3>6, AroundFacts, ReachMonotone
    <3> QED BY <1>1, <2>1, <3>1, <3>2, <3>4, <3>5, <3>7 DEF Body, Reach
  <2> QED BY <2>2, <2>3
<1> QED BY <1>1, <1>2

\* The loops are a matter of the graph alone.
LEMMA SameGraphLoops ==
  ASSUME UNCHANGED graphVars, NEW h
  PROVE  Tails(h)' = Tails(h) /\ Body(h)' = Body(h)
<1>1. \A n : children(n)' = children(n)
  BY DEF graphVars, children
<1>2. \A n : Dom(h, n)' <=> Dom(h, n)
  BY SameGraph DEF Dom
<1>3. Tails(h)' = Tails(h)
  BY <1>1, <1>2 DEF Tails
<1>4. Around(h)' = Around(h)
  BY <1>1 DEF Around
<1> QED BY <1>2, <1>3, <1>4 DEF Body, Reach

-----------------------------------------------------------------------------
(* The loops found so far are loops of the graph, and all of them once     *)
(* FindLoops has run on it.                                                *)

\* What Node.loop holds at any time, and once FindLoops has run.
LoopInv ==
  \A h \in Nodes :
    /\ loop[h].backedges \subseteq Tails(h) /\ loop[h].nodes \subseteq Body(h)
    /\ pc \in {"terminate", "kahn", "done"} =>
         loop[h].backedges = Tails(h) /\ loop[h].nodes = Body(h)

\* FindLoops completes the loops.
LEMMA FindLoopsOK ==
  ASSUME TypeOK, Exact("dominators", dominators), LoopInv, FindLoops PROVE LoopInv'
<1> SUFFICES ASSUME NEW h \in Nodes
             PROVE  loop'[h].backedges = Tails(h)' /\ loop'[h].nodes = Body(h)'
  BY DEF LoopInv
<1>1. BackedgesTo(h) = Tails(h)
  BY DEF BackedgesTo, IsBackedge, Tails, Exact, Dom
<1>2. Tails(h)' = Tails(h) /\ Body(h)' = Body(h)
  BY SameGraphLoops DEF FindLoops
<1>3. loop'[h].backedges = Tails(h)
  BY <1>1 DEF FindLoops, LoopInv
<1>4. loop'[h].nodes = Body(h)
  <2>1. loop'[h].nodes = loop[h].nodes \cup (IF Tails(h) = {} THEN {} ELSE {h}) \cup Tails(h)
                           \cup UNION {inv_reachable_without(n, h) : n \in Tails(h)}
    BY <1>1 DEF FindLoops
  <2>2. loop[h].nodes \subseteq Body(h)
    BY DEF LoopInv
  <2>3. CASE Tails(h) = {}
    BY <2>1, <2>2, <2>3 DEF Body
  <2>4. CASE Tails(h) # {}
    BY <2>1, <2>2, <2>4, FoundIsBody
  <2> QED BY <2>3, <2>4
<1> QED BY <1>2, <1>3, <1>4

\* Every step keeps LoopInv.
LEMMA StepLoopInv == RelationsInv /\ LoopInv /\ [Next]_vars => LoopInv'
<1> SUFFICES ASSUME RelationsInv, LoopInv, [Next]_vars PROVE LoopInv'
  OBVIOUS
<1> USE DEF RelationsInv, IInv
<1>1. ASSUME UNCHANGED <<graphVars, loop>>,
             pc' \in {"terminate", "kahn", "done"} => pc \in {"terminate", "kahn", "done"}
      PROVE  LoopInv'
  BY <1>1, SameGraphLoops DEF LoopInv
<1>2. CASE VisitNode
  BY <1>1, <1>2 DEF VisitNode
<1>3. CASE NextSweep
  BY <1>1, <1>3 DEF NextSweep
<1>4. CASE FinishDominators
  BY <1>1, <1>4 DEF FinishDominators, StartDominators
<1>5. CASE FinishPostdominators
  BY <1>1, <1>5 DEF FinishPostdominators
<1>6. CASE FindLoops
  <2>1. Exact("dominators", dominators)
    BY <1>6 DEF FindLoops, DominatorsExact
  <2> QED BY <1>6, <2>1, FindLoopsOK
<1>7. CASE AddFakeEdge
  <2>1. pc' = "dominators" /\ loop' = loop
    BY <1>7 DEF AddFakeEdge, StartDominators
  <2>2. ASSUME NEW h \in Nodes
        PROVE  loop[h].backedges \subseteq Tails(h)' /\ loop[h].nodes \subseteq Body(h)'
    <3>1. Tails(h) \subseteq Tails(h)' /\ Body(h) \subseteq Body(h)'
      BY <1>7, FakeEdgeKeepsLoops
    <3> QED BY <3>1 DEF LoopInv
  <2> QED BY <2>1, <2>2 DEF LoopInv
<1>8. CASE NothingUnterminated
  BY <1>1, <1>8 DEF NothingUnterminated
<1>9. ASSUME NEW n \in Nodes, KahnPop(n) PROVE LoopInv'
  BY <1>1, <1>9 DEF KahnPop
<1>10. CASE KahnDone
  BY <1>1, <1>10 DEF KahnDone
<1>11. CASE Returned \/ UNCHANGED vars
  BY <1>1, <1>11 DEF Returned, vars
<1> QED BY <1>2, <1>3, <1>4, <1>5, <1>6, <1>7, <1>8, <1>9, <1>10, <1>11 DEF Next

\* No loop is known at first.
LEMMA InitLoopInv == Init => LoopInv
  BY DEF Init, LoopInv

\* LoopInv in the words of the property.
LEMMA InvLoopsExact == TypeOK /\ LoopInv => LoopsExact
<1> SUFFICES ASSUME TypeOK, LoopInv, pc \in {"terminate", "kahn", "done"}, NEW h \in Nodes
             PROVE  LET tails == {n \in Nodes : h \in children(n) /\ Dominates("dominators", h, n)}
                        forward(n) == children(n) \ {h}
                    IN  /\ loop[h].backedges = tails
                        /\ loop[h].nodes =
                             IF tails = {} THEN {}
                             ELSE {h} \cup {n \in Nodes \ {h} :
                                              /\ Dominates("dominators", h, n)
                                              /\ Closure({n}, forward) \cap tails # {}}
  BY DEF LoopsExact
<1> DEFINE forward(n) == children(n) \ {h}
<1>1. \A n \in Nodes \ {h} : Closure({n}, forward) = Reach({n}, Around(h))
  BY ForwardAround
<1>2. loop[h].backedges = Tails(h) /\ loop[h].nodes = Body(h)
  BY DEF LoopInv
<1> HIDE DEF forward
<1>3. Body(h) = IF Tails(h) = {} THEN {}
                ELSE {h} \cup {n \in Nodes \ {h} :
                                 Dom(h, n) /\ Closure({n}, forward) \cap Tails(h) # {}}
  BY <1>1 DEF Body
<1>4. Tails(h) = {n \in Nodes : h \in children(n) /\ Dominates("dominators", h, n)}
  BY DEF Tails, Dom
<1> QED BY <1>2, <1>3, <1>4 DEF Dom, forward

\* LoopInv is an invariant, on top of RelationsInv.
LEMMA LoopInvariant == Spec => [](RelationsInv /\ LoopInv)
  BY InitRelationsInv, InitLoopInv, StepRelationsInv, StepLoopInv, PTL DEF Spec

\* The natural loops of compute_relations are exact in every flow graph, also
\* when a later call adds to the loops that an earlier one left on the nodes.
THEOREM LoopsCorrect == Spec => []LoopsExact
<1>1. RelationsInv /\ LoopInv => LoopsExact
  BY InvLoopsExact DEF RelationsInv, IInv
<1> QED BY <1>1, LoopInvariant, PTL
=============================================================================
