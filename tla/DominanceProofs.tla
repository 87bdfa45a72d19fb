--------------------------- MODULE DominanceProofs ---------------------------
(***************************************************************************)
(* Immediate dominators and fake edges of FlowRelations, for flow graphs   *)
(* of any size.                                                            *)
(***************************************************************************)
EXTENDS FlowRelationsProofs

-----------------------------------------------------------------------------
(* Reachability.  Reach is Closure with its edges given as a function, so  *)
(* that the lemmas about it can be used for every set of edges.            *)

\* The nodes that f leads to from start: what every set closed under f holds.
Reach(start, f) ==
  {n \in Nodes : \A S \in SUBSET Nodes :
     start \subseteq S /\ (\A m \in S : f[m] \subseteq S) => n \in S}

\* A node reaches itself.
LEMMA ReachStart ==
  ASSUME NEW start \in SUBSET Nodes, NEW f
  PROVE  start \subseteq Reach(start, f)
  BY DEF Reach

\* One more edge stays in what is reached.
LEMMA ReachStep ==
  ASSUME NEW start, NEW f, NEW m \in Reach(start, f), f[m] \subseteq Nodes
  PROVE  f[m] \subseteq Reach(start, f)
  BY DEF Reach

\* Every closed set around the start holds all that is reached.
LEMMA ReachLeast ==
  ASSUME NEW start, NEW f, NEW S \in SUBSET Nodes, start \subseteq S,
         \A m \in S : f[m] \subseteq S
  PROVE  Reach(start, f) \subseteq S
  BY DEF Reach

\* y is reached from x along f exactly when x is reached from y backwards.
Converse(f, g) == \A m, n \in Nodes : n \in f[m] <=> m \in g[n]

Edges == [Nodes -> SUBSET Nodes]

\* A path can be walked backwards.
LEMMA ReachBackwards ==
  ASSUME NEW f \in Edges, NEW g \in Edges, Converse(f, g),
         NEW x \in Nodes, NEW y \in Reach({x}, f)
  PROVE  x \in Reach({y}, g)
<1> DEFINE S == {m \in Nodes : x \in Reach({m}, g)}
<1>1. {x} \subseteq S
  <2>1. {x} \subseteq Reach({x}, g)
    BY ReachStart
  <2> QED BY <2>1
<1>2. ASSUME NEW m \in S, NEW n \in f[m] PROVE n \in S
  <2>1. n \in Nodes /\ m \in Nodes /\ m \in g[n] /\ g[n] \subseteq Nodes
    BY <1>2 DEF Edges, Converse
  <2>2. n \in Reach({n}, g)
    BY <2>1, ReachStart
  <2>3. m \in Reach({n}, g)
    BY <2>1, <2>2, ReachStep
  <2>4. Reach({n}, g) \in SUBSET Nodes
    BY DEF Reach
  <2>5. ASSUME NEW k \in Reach({n}, g) PROVE g[k] \subseteq Reach({n}, g)
    <3>1. g[k] \subseteq Nodes
      BY <2>4 DEF Edges
    <3> QED BY <3>1, ReachStep
  <2>6. Reach({m}, g) \subseteq Reach({n}, g)
    <3>1. PICK T \in SUBSET Nodes : T = Reach({n}, g)
      BY <2>4
    <3>2. {m} \subseteq T /\ \A k \in T : g[k] \subseteq T
      BY <2>3, <2>5, <3>1
    <3>3. Reach({m}, g) \subseteq T
      BY <3>2, ReachLeast
    <3> QED BY <3>1, <3>3
  <2> QED BY <2>1, <2>6
<1>3. S \in SUBSET Nodes
  OBVIOUS
<1> HIDE DEF S
<1>4. Reach({x}, f) \subseteq S
  BY <1>1, <1>2, <1>3, ReachLeast
<1> QED BY <1>4 DEF S

\* Forwards from x to y is backwards from y to x.
LEMMA ReachDual ==
  ASSUME NEW f \in Edges, NEW g \in Edges, Converse(f, g), NEW x \in Nodes, NEW y \in Nodes
  PROVE  y \in Reach({x}, f) <=> x \in Reach({y}, g)
<1>1. Converse(g, f)
  BY DEF Converse
<1> QED BY <1>1, ReachBackwards

\* More edges reach more.
LEMMA ReachMonotone ==
  ASSUME NEW f \in Edges, NEW g \in Edges, \A n \in Nodes : f[n] \subseteq g[n],
         NEW start \in SUBSET Nodes
  PROVE  Reach(start, f) \subseteq Reach(start, g)
<1>1. Reach(start, g) \in SUBSET Nodes
  BY DEF Reach
<1>2. ASSUME NEW m \in Reach(start, g) PROVE f[m] \subseteq Reach(start, g)
  <2>1. g[m] \subseteq Nodes /\ f[m] \subseteq g[m]
    BY <1>1 DEF Edges
  <2> QED BY <2>1, ReachStep
<1> QED BY <1>1, <1>2, ReachStart, ReachLeast

\* The edges of the graph, real or all, forwards and backwards.
Succ == [n \in Nodes |-> node[n].succ]
Down == [n \in Nodes |-> children(n)]
Up   == [n \in Nodes |-> parents(n)]

\* children and parents of a well-typed graph are each other's converse.
LEMMA EdgesFacts ==
  ASSUME TypeOK
  PROVE  /\ Succ \in Edges /\ Down \in Edges /\ Up \in Edges
         /\ Converse(Down, Up) /\ Converse(Up, Down)
         /\ \A n \in Nodes : Succ[n] \subseteq Down[n]
<1>1. \A n \in Nodes : children(n) \subseteq Nodes
  BY ChildrenAreNodes
<1>2. \A n \in Nodes : node[n].succ \subseteq children(n)
  BY DEF children
<1>3. \A n \in Nodes : parents(n) \subseteq Nodes
  BY DEF parents
<1>4. \A m, n \in Nodes : n \in Down[m] <=> m \in Up[n]
  BY DEF Down, Up, parents
<1> QED BY <1>1, <1>2, <1>3, <1>4 DEF Succ, Down, Up, Edges, Converse

\* The work lists of the code compute Reach.
LEMMA ClosuresAreReach ==
  /\ \A start : Closure(start, RealChildren) = Reach(start, Succ)
  /\ \A start : Closure(start, children) = Reach(start, Down)
  /\ \A start : Closure(start, parents) = Reach(start, Up)
  BY DEF Closure, Reach, RealChildren, Succ, Down, Up

-----------------------------------------------------------------------------
(* Dominance orders the nodes that the root reaches.                       *)

\* A set no edge leaves, and one the root lies in.
ClosedFrom(dir, S) ==
  Root(dir) \in S /\ \A n \in Nodes : Preds(dir, n) \cap S # {} => n \in S

\* The root leads to n.
Reached(dir, n) == \A S \in SUBSET Nodes : ClosedFrom(dir, S) => n \in S

\* Every node dominates itself.
LEMMA DominatesSelf ==
  ASSUME NEW dir, NEW n \in Nodes
  PROVE  Dominates(dir, n, n)
<1>1. Nodes \ {n} \in Avoiding(dir, n)
  BY ConstantFacts DEF Avoiding
<1> QED BY <1>1 DEF Dominates

\* The root dominates every node.
LEMMA RootDominates ==
  ASSUME NEW dir, NEW n \in Nodes
  PROVE  Dominates(dir, Root(dir), n)
<1>1. {} \in Avoiding(dir, Root(dir))
  BY DEF Avoiding
<1> QED BY <1>1 DEF Dominates

\* Dominance is transitive: avoiding a to b and b to c gives a way around a to c.
LEMMA DominatesTransitive ==
  ASSUME NEW dir, NEW a \in Nodes, NEW b \in Nodes, NEW c \in Nodes,
         Dominates(dir, a, b), Dominates(dir, b, c)
  PROVE  Dominates(dir, a, c)
<1>1. CASE a = b
  BY <1>1
<1>2. CASE a # b
  <2>1. PICK A \in Avoiding(dir, a) : b \notin A
    BY DEF Dominates
  <2>2. PICK B \in Avoiding(dir, b) : c \notin B
    BY DEF Dominates
  <2>3. A \cap B \in SUBSET (Nodes \ {a})
    BY <2>1 DEF Avoiding
  <2>4. Root(dir) \in (A \cap B) \cup {a}
    BY <1>2, <2>1, <2>2 DEF Avoiding
  <2>5. ASSUME NEW n \in Nodes \ {a}, Preds(dir, n) \cap (A \cap B) # {} PROVE n \in A \cap B
    <3>1. n \in A
      BY <2>1, <2>5 DEF Avoiding
    <3>2. n # b
      BY <2>1, <3>1
    <3> QED BY <2>2, <2>5, <3>1, <3>2 DEF Avoiding
  <2>6. A \cap B \in Avoiding(dir, a)
    BY <2>3, <2>4, <2>5 DEF Avoiding
  <2> QED BY <2>2, <2>6 DEF Dominates
<1> QED BY <1>1, <1>2

\* Two nodes that dominate each other are one.
LEMMA DominatesAntisymmetric ==
  ASSUME NEW dir, NEW a \in Nodes, NEW b \in Nodes, Reached(dir, a),
         Dominates(dir, a, b), Dominates(dir, b, a)
  PROVE  a = b
<1> SUFFICES ASSUME a # b PROVE FALSE
  OBVIOUS
<1>1. PICK A \in Avoiding(dir, a) : b \notin A
  BY DEF Dominates
<1>2. PICK B \in Avoiding(dir, b) : a \notin B
  BY DEF Dominates
<1>3. Root(dir) \in A \cap B
  BY <1>1, <1>2, DominatesRoot DEF Avoiding
<1>4. ASSUME NEW n \in Nodes, Preds(dir, n) \cap (A \cap B) # {} PROVE n \in A \cap B
  BY <1>1, <1>2, <1>4 DEF Avoiding
<1>5. A \cap B \in SUBSET Nodes
  BY <1>1 DEF Avoiding
<1>6. ClosedFrom(dir, A \cap B)
  BY <1>3, <1>4 DEF ClosedFrom
<1>7. a \in A \cap B
  BY <1>5, <1>6 DEF Reached
<1> QED BY <1>2, <1>7

\* Of two dominators of a node, one dominates the other.
LEMMA DominatesTotal ==
  ASSUME NEW dir, NEW a \in Nodes, NEW b \in Nodes, NEW n \in Nodes, Reached(dir, n),
         Dominates(dir, a, n), Dominates(dir, b, n)
  PROVE  Dominates(dir, a, b) \/ Dominates(dir, b, a)
<1> SUFFICES ASSUME ~Dominates(dir, a, b), ~Dominates(dir, b, a) PROVE FALSE
  OBVIOUS
<1>1. PICK A \in Avoiding(dir, a) : n \notin A
  BY DEF Dominates
<1>2. PICK B \in Avoiding(dir, b) : n \notin B
  BY DEF Dominates
<1>3. b \in A /\ a \in B
  BY <1>1, <1>2 DEF Dominates
<1>4. A \cup B \in SUBSET Nodes
  BY <1>1, <1>2 DEF Avoiding
<1>5. Root(dir) \in A \cup B
  BY <1>1, <1>3 DEF Avoiding
<1>6. ASSUME NEW m \in Nodes, Preds(dir, m) \cap (A \cup B) # {} PROVE m \in A \cup B
  <2>1. CASE Preds(dir, m) \cap A # {}
    BY <1>1, <1>3, <2>1 DEF Avoiding
  <2>2. CASE Preds(dir, m) \cap B # {}
    BY <1>2, <1>3, <2>2 DEF Avoiding
  <2> QED BY <1>6, <2>1, <2>2
<1>7. ClosedFrom(dir, A \cup B)
  BY <1>5, <1>6 DEF ClosedFrom
<1>8. n \in A \cup B
  BY <1>4, <1>7 DEF Reached
<1> QED BY <1>1, <1>2, <1>8

\* What dominates a reached node is reached.
LEMMA DominatorReached ==
  ASSUME NEW dir, NEW a \in Nodes, NEW n \in Nodes, Reached(dir, n), Dominates(dir, a, n)
  PROVE  Reached(dir, a)
<1> SUFFICES ASSUME NEW S \in SUBSET Nodes, ClosedFrom(dir, S), a \notin S PROVE FALSE
  BY DEF Reached
<1>1. PICK A \in Avoiding(dir, a) : n \notin A
  BY DEF Dominates
<1>2. Root(dir) \in A \cap S
  BY <1>1 DEF Avoiding, ClosedFrom
<1>3. ASSUME NEW m \in Nodes, Preds(dir, m) \cap (A \cap S) # {} PROVE m \in A \cap S
  <2>1. m \in S
    BY <1>3 DEF ClosedFrom
  <2> QED BY <1>1, <1>3, <2>1 DEF Avoiding
<1>4. ClosedFrom(dir, A \cap S) /\ A \cap S \in SUBSET Nodes
  BY <1>2, <1>3 DEF ClosedFrom
<1>5. n \in A \cap S
  BY <1>4 DEF Reached
<1> QED BY <1>1, <1>5

-----------------------------------------------------------------------------
(* The immediate dominator.                                                *)


\* In exact sets, the strict dominator with the largest set has all the other
\* strict dominators as its own.
LEMMA ImmediateDominatorIsClosest ==
  ASSUME NEW dir, NEW d \in [Nodes -> SUBSET Nodes], Exact(dir, d),
         NEW n \in Nodes, Reached(dir, n), n # Root(dir)
  PROVE  /\ ImmediateDominator(d, n) # None
         /\ d[ImmediateDominator(d, n)] = d[n] \ {n}
<1>1. \A a, b \in Nodes : a \in d[b] <=> Dominates(dir, a, b)
  BY DEF Exact
<1>2. Root(dir) \in d[n] \ {n}
  BY <1>1, RootDominates, ConstantFacts
<1>3. PICK m \in d[n] \ {n} : /\ m = ImmediateDominator(d, n)
                              /\ \A k \in d[n] \ {n} : Cardinality(d[m]) >= Cardinality(d[k])
  BY <1>2, ImmediateDominatorPicked
<1>4. m \in Nodes /\ m # n /\ Dominates(dir, m, n) /\ Reached(dir, m)
  BY <1>1, <1>3, DominatorReached
<1>5. d[m] \subseteq d[n] \ {n}
  <2>1. SUFFICES ASSUME NEW a \in d[m] PROVE a \in d[n] /\ a # n
    OBVIOUS
  <2>2. a \in Nodes /\ Dominates(dir, a, m)
    BY <1>1, <1>4
  <2>3. a \in d[n]
    BY <1>1, <1>4, <2>2, DominatesTransitive
  <2>4. a # n
    BY <1>4, <2>2, DominatesAntisymmetric
  <2> QED BY <2>3, <2>4
<1>6. ASSUME NEW a \in d[n] \ {n} PROVE a \in d[m]
  <2>1. a \in Nodes /\ Dominates(dir, a, n) /\ Reached(dir, a)
    BY <1>1, DominatorReached
  <2>2. SUFFICES ASSUME ~Dominates(dir, a, m) PROVE FALSE
    BY <1>1, <1>4, <2>1
  <2>3. Dominates(dir, m, a)
    BY <1>4, <2>1, <2>2, DominatesTotal
  <2>4. d[m] \subseteq d[a]
    BY <1>1, <1>4, <2>1, <2>3, DominatesTransitive
  <2>5. a \in d[a] /\ a \notin d[m]
    BY <1>1, <1>4, <2>1, <2>2, DominatesSelf
  <2>6. IsFiniteSet(d[a]) /\ IsFiniteSet(d[m])
    <3>1. d[a] \subseteq Nodes /\ d[m] \subseteq Nodes
      BY <1>4, <2>1
    <3> QED BY <3>1, NodesFinite, FS_Subset
  <2>7. Cardinality(d[m]) < Cardinality(d[a])
    <3>1. Cardinality(d[m]) <= Cardinality(d[a]) /\
          (Cardinality(d[m]) = Cardinality(d[a]) => d[m] = d[a])
      BY <2>4, <2>6, FS_Subset
    <3>2. Cardinality(d[m]) \in Nat /\ Cardinality(d[a]) \in Nat
      BY <2>6, FS_CardinalityType
    <3> QED BY <2>5, <3>1, <3>2
  <2>8. Cardinality(d[m]) \in Nat /\ Cardinality(d[a]) \in Nat
    BY <2>6, FS_CardinalityType
  <2> QED BY <1>3, <2>7, <2>8
<1>7. d[m] = d[n] \ {n}
  BY <1>5, <1>6
<1>8. None \notin Nodes
  BY NAssumption DEF None, Nodes
<1> QED BY <1>3, <1>4, <1>7, <1>8

-----------------------------------------------------------------------------
(* The invariant: what the builders hand over, and what is kept of it when *)
(* a fake edge is added.                                                   *)

\* The TerminalNode is last, every block is reached, and a fake edge starts at a
\* BasicNode from which no return is reachable.
GraphInv ==
  /\ node[Terminal] = TerminalShape
  /\ Targets \subseteq Reach({Entry}, Succ)
  /\ \A n \in fake : node[n].kind = "Basic" /\ Terminal \notin Reach({n}, Succ)

\* The immediate (post)dominators belong to the sets computed last.
ImmediateInv ==
  /\ pc # "dominators" =>
       immediate_dominator = [n \in Nodes |-> ImmediateDominator(dominators, n)]
  /\ pc \notin {"dominators", "postdominators"} =>
       immediate_postdominator = [n \in Nodes |-> ImmediateDominator(postdominators, n)]

\* terminate_infinite_loops ends when every BasicNode reaches the TerminalNode.
TerminatedInv == pc \in {"kahn", "done"} => UnterminatedNodes = {}

\* Steps that leave the graph alone keep GraphInv.
LEMMA SameNodesGraphInv ==
  ASSUME GraphInv, node' = node, fake' = fake PROVE GraphInv'
  BY DEF GraphInv, Succ

\* The builders hand over such a graph.
LEMMA InitGraphInv == Init => GraphInv
<1> SUFFICES ASSUME Init PROVE GraphInv
  OBVIOUS
<1>1. PICK shape \in [Targets -> NodeShapes] :
        node = [n \in Nodes |-> IF n = Terminal THEN TerminalShape ELSE shape[n]]
  BY DEF Init, InitGraph
<1>2. node[Terminal] = TerminalShape
  BY <1>1, ConstantFacts
<1>3. Targets \subseteq Closure({Entry}, RealChildren)
  BY DEF Init, InitGraph, RealChildren, Closure
<1>4. Targets \subseteq Reach({Entry}, Succ)
  BY <1>3, ClosuresAreReach
<1> QED BY <1>2, <1>4 DEF GraphInv, Init, InitGraph

\* The node that gets a fake edge cannot return, not even over earlier ones.
LEMMA UnterminatedCannotReturn ==
  ASSUME TypeOK, NEW n \in UnterminatedNodes
  PROVE  n \in Nodes /\ node[n].kind = "Basic" /\ Terminal \notin Reach({n}, Succ)
<1>1. n \in Nodes /\ node[n].kind = "Basic" /\ n \notin Reach({Terminal}, Up)
  BY ClosuresAreReach DEF UnterminatedNodes, ReachTerminal
<1>2. Terminal \notin Reach({n}, Down)
  BY <1>1, EdgesFacts, ConstantFacts, ReachDual
<1>3. Reach({n}, Succ) \subseteq Reach({n}, Down)
  BY <1>1, EdgesFacts, ReachMonotone
<1> QED BY <1>1, <1>2, <1>3

\* A fake edge keeps GraphInv.
LEMMA AddFakeEdgeGraphInv ==
  ASSUME TypeOK, GraphInv, AddFakeEdge PROVE GraphInv'
<1>1. UnterminatedNodes \in SUBSET Nodes /\ UnterminatedNodes # {}
  BY DEF AddFakeEdge, UnterminatedNodes
<1>2. PICK m \in UnterminatedNodes : m = Max(UnterminatedNodes)
  BY <1>1, MaxInSet
<1>3. node' = node /\ fake' = fake \cup {m}
  BY <1>2 DEF AddFakeEdge
<1>4. node[m].kind = "Basic" /\ Terminal \notin Reach({m}, Succ)
  BY <1>2, UnterminatedCannotReturn
<1>5. Succ' = Succ
  BY <1>3 DEF Succ
<1> QED BY <1>3, <1>4, <1>5 DEF GraphInv

\* The inductive invariant of dominance and fake edges.
RelationsInv == IInv /\ GraphInv /\ ImmediateInv /\ TerminatedInv

\* RelationsInv holds when compute_relations is first called.
LEMMA InitRelationsInv == Init => RelationsInv
  BY InitIInv, InitGraphInv DEF RelationsInv, ImmediateInv, TerminatedInv, Init

\* Which nodes cannot return is a matter of the graph alone.
LEMMA SameUnterminated ==
  ASSUME UNCHANGED graphVars PROVE UnterminatedNodes' = UnterminatedNodes
<1>1. \A n : children(n)' = children(n)
  BY DEF graphVars, children
<1>2. \A n : parents(n)' = parents(n)
  BY <1>1 DEF parents
<1>3. ReachTerminal' = ReachTerminal
  BY <1>2 DEF ReachTerminal, Closure
<1> QED BY <1>3 DEF UnterminatedNodes, graphVars

\* Every step keeps RelationsInv.
LEMMA StepRelationsInv == RelationsInv /\ [Next]_vars => RelationsInv'
<1> SUFFICES ASSUME RelationsInv, [Next]_vars PROVE (GraphInv /\ ImmediateInv /\ TerminatedInv)'
  BY StepIInv DEF RelationsInv
<1> USE DEF RelationsInv
<1>1. ASSUME UNCHANGED <<graphVars, pc, relVars>>
      PROVE  (GraphInv /\ ImmediateInv /\ TerminatedInv)'
  BY <1>1, SameNodesGraphInv, SameUnterminated DEF graphVars, relVars, ImmediateInv, TerminatedInv
<1>2. ASSUME UNCHANGED <<graphVars, relVars>>, pc \in {"loops", "terminate", "kahn"},
             pc' \in {"terminate", "done"} \/ UnterminatedNodes = {},
             pc' = "done" => pc = "kahn",
             pc' \in {"terminate", "kahn", "done"}
      PROVE  (GraphInv /\ ImmediateInv /\ TerminatedInv)'
  <2>1. GraphInv'
    BY <1>2, SameNodesGraphInv DEF graphVars
  <2>2. ImmediateInv'
    BY <1>2 DEF ImmediateInv, relVars
  <2>3. TerminatedInv'
    BY <1>2, SameUnterminated DEF TerminatedInv
  <2> QED BY <2>1, <2>2, <2>3
<1>3. CASE VisitNode
  BY <1>1, <1>3 DEF VisitNode
<1>4. CASE NextSweep
  BY <1>1, <1>4 DEF NextSweep
<1>5. CASE FinishDominators
  <2>1. GraphInv'
    BY <1>5, SameNodesGraphInv DEF FinishDominators, graphVars
  <2> QED BY <1>5, <2>1 DEF FinishDominators, StartDominators, ImmediateInv, TerminatedInv
<1>6. CASE FinishPostdominators
  <2>1. GraphInv'
    BY <1>6, SameNodesGraphInv DEF FinishPostdominators, graphVars
  <2> QED BY <1>6, <2>1 DEF FinishPostdominators, ImmediateInv, TerminatedInv
<1>7. CASE FindLoops
  BY <1>2, <1>7 DEF FindLoops
<1>8. CASE AddFakeEdge
  <2>1. GraphInv'
    BY <1>8, AddFakeEdgeGraphInv DEF IInv
  <2> QED BY <1>8, <2>1 DEF AddFakeEdge, StartDominators, ImmediateInv, TerminatedInv
<1>9. CASE NothingUnterminated
  BY <1>2, <1>9 DEF NothingUnterminated
<1>10. ASSUME NEW n \in Nodes, KahnPop(n) PROVE (GraphInv /\ ImmediateInv /\ TerminatedInv)'
  BY <1>1, <1>10 DEF KahnPop
<1>11. CASE KahnDone
  BY <1>2, <1>11 DEF KahnDone
<1>12. CASE Returned \/ UNCHANGED vars
  BY <1>1, <1>12 DEF Returned, vars
<1> QED BY <1>3, <1>4, <1>5, <1>6, <1>7, <1>8, <1>9, <1>10, <1>11, <1>12 DEF Next

\* The invariant that the theorems below rest on.
THEOREM RelationsInvariant == Spec => []RelationsInv
  BY InitRelationsInv, StepRelationsInv, PTL DEF Spec

-----------------------------------------------------------------------------
(* What the invariant means.                                               *)

\* build_nodes only keeps what the entry reaches.
LEMMA TargetsReached ==
  ASSUME TypeOK, GraphInv, NEW n \in Targets
  PROVE  Reached("dominators", n)
<1> SUFFICES ASSUME NEW S \in SUBSET Nodes, ClosedFrom("dominators", S) PROVE n \in S
  BY DEF Reached
<1>1. Entry \in S
  BY DEF ClosedFrom, Root
<1>2. ASSUME NEW m \in S, NEW c \in Succ[m] PROVE c \in S
  <2>1. c \in Nodes /\ m \in parents(c)
    BY EdgesFacts DEF Edges, Succ, parents, children
  <2> QED BY <2>1 DEF ClosedFrom, Preds
<1>3. Reach({Entry}, Succ) \subseteq S
  BY <1>1, <1>2, ReachLeast
<1> QED BY <1>3 DEF GraphInv

\* A node that can return is reached backwards from the TerminalNode.
LEMMA TerminatingReached ==
  ASSUME TypeOK, NEW n \in ReachTerminal
  PROVE  Reached("postdominators", n)
<1> SUFFICES ASSUME NEW S \in SUBSET Nodes, ClosedFrom("postdominators", S) PROVE n \in S
  BY DEF Reached
<1>1. Terminal \in S
  BY DEF ClosedFrom, Root
<1>2. ASSUME NEW m \in S PROVE Up[m] \subseteq S
  BY DEF Up, parents, ClosedFrom, Preds
<1>3. Reach({Terminal}, Up) \subseteq S
  BY <1>1, <1>2, ReachLeast
<1> QED BY <1>3, ClosuresAreReach DEF ReachTerminal

\* The closest strict dominator is the one that all others dominate.
LEMMA InvImmediateExact == RelationsInv => ImmediateDominatorsExact
<1> SUFFICES ASSUME RelationsInv, pc \in {"loops", "done"} PROVE ImmediateDominatorsExact
  BY DEF ImmediateDominatorsExact
<1> USE DEF RelationsInv, IInv
<1>1. /\ Exact("dominators", dominators) /\ Exact("postdominators", postdominators)
      /\ dominators \in [Nodes -> SUBSET Nodes] /\ postdominators \in [Nodes -> SUBSET Nodes]
  BY DEF DominatorsExact, TypeOK
<1>2. ASSUME NEW n \in Targets \ {Entry}
      PROVE  /\ immediate_dominator[n] # None
             /\ dominators[immediate_dominator[n]] = dominators[n] \ {n}
  <2>1. n \in Nodes /\ n # Root("dominators")
    BY DEF Targets, Root
  <2>2. immediate_dominator[n] = ImmediateDominator(dominators, n)
    BY <2>1 DEF ImmediateInv
  <2>3. Reached("dominators", n)
    BY TargetsReached
  <2> QED BY <1>1, <2>1, <2>2, <2>3, ImmediateDominatorIsClosest
<1>3. ASSUME NEW n \in ReachTerminal \ {Terminal}
      PROVE  /\ immediate_postdominator[n] # None
             /\ postdominators[immediate_postdominator[n]] = postdominators[n] \ {n}
  <2>1. n \in Nodes /\ n # Root("postdominators")
    BY DEF ReachTerminal, Closure, Root
  <2>2. immediate_postdominator[n] = ImmediateDominator(postdominators, n)
    BY <2>1 DEF ImmediateInv
  <2>3. Reached("postdominators", n)
    BY TerminatingReached
  <2> QED BY <1>1, <2>1, <2>2, <2>3, ImmediateDominatorIsClosest
<1> QED BY <1>2, <1>3 DEF ImmediateDominatorsExact

\* What RelationsInv says of fake edges, in the words of the property.
LEMMA InvFakeEdges == RelationsInv => FakeEdgesTerminateInfiniteLoops
<1> SUFFICES ASSUME RelationsInv PROVE FakeEdgesTerminateInfiniteLoops
  OBVIOUS
<1> USE DEF RelationsInv, IInv
<1>1. ASSUME NEW n \in fake
      PROVE  node[n].kind = "Basic" /\ Terminal \notin Closure({n}, RealChildren)
  BY ClosuresAreReach DEF GraphInv
<1>2. ASSUME pc \in {"kahn", "done"}, NEW n \in Nodes, node[n].kind = "Basic"
      PROVE  Terminal \in Closure({n}, children)
  <2>1. n \in Reach({Terminal}, Up)
    BY <1>2, ClosuresAreReach DEF TerminatedInv, UnterminatedNodes, ReachTerminal
  <2>2. Terminal \in Reach({n}, Down)
    BY <2>1, EdgesFacts, ConstantFacts, ReachDual
  <2> QED BY <2>2, ClosuresAreReach
<1> QED BY <1>1, <1>2 DEF FakeEdgesTerminateInfiniteLoops

\* The immediate dominator that max() picks by size is the true one in every
\* flow graph: its own dominators are all the other strict dominators, so the
\* code comment "there should be a unique max" holds.
THEOREM ImmediateDominatorsCorrect == Spec => []ImmediateDominatorsExact
  BY RelationsInvariant, InvImmediateExact, PTL

\* terminate_infinite_loops gives a fake edge only to a BasicNode from which no
\* return is reachable, and leaves none without one.
THEOREM FakeEdgesCorrect == Spec => []FakeEdgesTerminateInfiniteLoops
  BY RelationsInvariant, InvFakeEdges, PTL
=============================================================================
