--------------------------- MODULE ReducibleProofs ---------------------------
(***************************************************************************)
(* FlowGraph.is_reducible decides reducibility, for flow graphs of any     *)
(* size and whatever node its queue pops.                                  *)
(***************************************************************************)
EXTENDS LoopProofs

\* incoming_edges starts as the parents over forward edges.
ForwardParents(s) == parents(s) \ loop[s].backedges

\* The backedges that is_reducible leaves out are the true ones.
BackedgesKnown == \A h \in Nodes : loop[h].backedges = Tails(h)

\* h dominates all of S: the head a reducible loop has.
HasHead(S) == \E h \in S : \A n \in S : Dom(h, n)

\* incoming_edges without what was popped; what was popped or is queued has no
\* forward parent left; every cycle that was entered has a head.
KahnState ==
  /\ incoming = [s \in Nodes |-> ForwardParents(s) \ seen]
  /\ \A s \in queue \cup seen : ForwardParents(s) \subseteq seen
  /\ queue \cap seen = {}
  /\ \A s \in Nodes \ (queue \cup seen) :
       s # Entry /\ (ForwardParents(s) \subseteq seen => ForwardParents(s) = {})
  /\ queue \cup seen \subseteq Reach({Entry}, Down)
  /\ \A S \in SUBSET Nodes : StronglyConnected(S) /\ S \cap seen # {} => HasHead(S)

\* The loop of is_reducible, and its answer.
KahnInv ==
  /\ pc \in {"kahn", "done"} => KahnState
  /\ pc = "done" => queue = {} /\ (reducible = "yes" <=> KahnResult)

-----------------------------------------------------------------------------
(* Forward edges and dominance.                                            *)

\* A forward edge is one whose target does not dominate its source.
LEMMA ForwardFacts ==
  ASSUME TypeOK, BackedgesKnown, NEW n \in Nodes, NEW s \in Nodes
  PROVE  /\ s \in ForwardChildren(n) <=> n \in ForwardParents(s)
         /\ n \in ForwardParents(s) <=> s \in children(n) /\ ~Dom(s, n)
         /\ ForwardChildren(n) \subseteq children(n) /\ children(n) \subseteq Nodes
<1>1. children(n) \subseteq Nodes
  BY ChildrenAreNodes
<1> QED BY <1>1 DEF ForwardChildren, ForwardParents, parents, BackedgesKnown, Tails

\* The entry has no incoming forward edge, so it may be popped first.
LEMMA EntryHasNoForwardParents ==
  ASSUME TypeOK, BackedgesKnown PROVE ForwardParents(Entry) = {}
<1>1. \A n \in Nodes : Dom(Entry, n)
  BY RootDominates DEF Dom, Root
<1>2. ForwardParents(Entry) \subseteq Nodes
  BY DEF ForwardParents, parents
<1> QED BY <1>1, <1>2, ForwardFacts, ConstantFacts

\* Over an edge that is not forward, the dominance by its target goes back;
\* over any other edge the dominance by a third node does.
LEMMA DomGoesBack ==
  ASSUME TypeOK, BackedgesKnown, NEW h \in Nodes, NEW x \in Nodes, NEW y \in children(x),
         Dom(h, y), y = h => x \notin ForwardParents(h)
  PROVE  Dom(h, x)
<1>1. y \in Nodes
  BY ChildrenAreNodes
<1>2. CASE y = h
  BY <1>2, ForwardFacts
<1>3. CASE y # h
  <2>1. x \in Preds("dominators", y)
    BY DEF Preds, parents
  <2> QED BY <1>1, <1>3, <2>1, DominatesPreds DEF Dom
<1> QED BY <1>2, <1>3

\* The first node of a strongly connected set that is popped is its head.
LEMMA FirstPoppedIsHead ==
  ASSUME TypeOK, BackedgesKnown, NEW S \in SUBSET Nodes, StronglyConnected(S),
         NEW h \in S, ForwardParents(h) \cap S = {}
  PROVE  \A n \in S : Dom(h, n)
<1> SUFFICES ASSUME \E n \in S : ~Dom(h, n) PROVE FALSE
  OBVIOUS
<1>1. PICK A \in SUBSET S : A = {n \in S : ~Dom(h, n)}
  OBVIOUS
<1>2. h \notin A
  BY <1>1, DominatesSelf DEF Dom
<1>3. A \in (SUBSET S) \ {{}, S}
  BY <1>1, <1>2
<1>4. PICK x \in A : children(x) \cap (S \ A) # {}
  BY <1>3 DEF StronglyConnected
<1>5. PICK y \in children(x) : y \in S /\ Dom(h, y)
  BY <1>1, <1>4
<1>6. x \notin ForwardParents(h)
  BY <1>1, <1>4
<1>7. Dom(h, x)
  BY <1>1, <1>4, <1>5, <1>6, DomGoesBack
<1> QED BY <1>1, <1>4, <1>7

\* A node that the entry reaches has a parent that it does not dominate.
LEMMA ReachedHasForwardParent ==
  ASSUME TypeOK, BackedgesKnown, NEW u \in Reach({Entry}, Down), u # Entry
  PROVE  ForwardParents(u) # {}
<1> SUFFICES ASSUME ForwardParents(u) = {} PROVE FALSE
  OBVIOUS
<1>1. u \in Nodes
  BY DEF Reach
<1>2. PICK S \in SUBSET Nodes : S = {m \in Nodes : ~Dom(u, m)}
  OBVIOUS
<1>3. {Entry} \subseteq S
  <2>1. Dom(u, Entry) => u = Entry
    BY <1>1, DominatesRoot DEF Dom, Root
  <2> QED BY <1>2, <2>1, ConstantFacts
<1>4. ASSUME NEW m \in S PROVE Down[m] \subseteq S
  <2>1. SUFFICES ASSUME NEW c \in children(m) PROVE c \in S
    BY DEF Down
  <2>2. c \in Nodes
    BY ChildrenAreNodes
  <2>3. ~Dom(u, c)
    BY <1>1, <1>2, DomGoesBack
  <2> QED BY <1>2, <2>2, <2>3
<1>5. u \in S
  BY <1>3, <1>4, ReachLeast
<1> QED BY <1>1, <1>2, <1>5, DominatesSelf DEF Dom

-----------------------------------------------------------------------------
(* Kahn's algorithm.                                                       *)

\* A set every node of which has a forward parent in it: what is left when
\* the queue is empty and a node was never popped.
Cyclic(V) == V # {} /\ \A u \in V : ForwardParents(u) \cap V # {}

\* The smallest such set is strongly connected, and so it has no head.
LEMMA CyclicHasNoHead ==
  ASSUME TypeOK, BackedgesKnown, NEW U \in SUBSET Nodes, Cyclic(U)
  PROVE  \E V \in (SUBSET Nodes) \ {{}} : StronglyConnected(V) /\ ~HasHead(V)
<1>1. PICK sizes \in SUBSET Nat : sizes = {Cardinality(V) : V \in {W \in SUBSET Nodes : Cyclic(W)}}
  <2>1. \A V \in SUBSET Nodes : Cardinality(V) \in Nat
    BY NodesFinite, FS_Subset, FS_CardinalityType
  <2> QED BY <2>1
<1>2. sizes # {}
  BY <1>1
<1>3. PICK c \in sizes : \A e \in sizes : c <= e
  BY <1>2, NatMin
<1>4. PICK V \in SUBSET Nodes : Cyclic(V) /\ Cardinality(V) = c
  BY <1>1, <1>3
<1>5. \A W \in SUBSET Nodes : Cyclic(W) => Cardinality(V) <= Cardinality(W)
  BY <1>1, <1>3, <1>4
<1>6. ASSUME NEW T \in (SUBSET V) \ {{}, V} PROVE \E n \in T : children(n) \cap (V \ T) # {}
  <2>1. SUFFICES ASSUME \A n \in T : children(n) \cap (V \ T) = {} PROVE FALSE
    OBVIOUS
  <2>2. PICK W \in SUBSET Nodes : W = V \ T
    OBVIOUS
  <2>3. W # {} /\ W \subseteq V /\ W # V
    BY <2>2
  <2>4. ASSUME NEW u \in W PROVE ForwardParents(u) \cap W # {}
    <3>1. PICK p \in V : p \in ForwardParents(u)
      BY <1>4, <2>2 DEF Cyclic
    <3>2. u \in children(p)
      BY <3>1 DEF ForwardParents, parents
    <3>3. p \notin T
      BY <2>1, <2>2, <3>2
    <3> QED BY <2>2, <3>1, <3>3
  <2>5. Cardinality(V) <= Cardinality(W)
    BY <1>5, <2>3, <2>4 DEF Cyclic
  <2>6. IsFiniteSet(V) /\ IsFiniteSet(W)
    BY NodesFinite, FS_Subset
  <2>7. Cardinality(W) <= Cardinality(V) /\ (Cardinality(V) = Cardinality(W) => V = W)
    BY <2>3, <2>6, FS_Subset
  <2>8. Cardinality(V) \in Nat /\ Cardinality(W) \in Nat
    BY <2>6, FS_CardinalityType
  <2> QED BY <2>3, <2>5, <2>7, <2>8
<1>7. StronglyConnected(V)
  BY <1>6 DEF StronglyConnected
<1>8. ASSUME NEW h \in V, \A n \in V : Dom(h, n) PROVE FALSE
  <2>1. PICK p \in V : p \in ForwardParents(h)
    BY <1>4 DEF Cyclic
  <2> QED BY <1>8, <2>1, ForwardFacts
<1> QED BY <1>4, <1>7, <1>8 DEF HasHead, Cyclic

\* The initial work list.
LEMMA StartKahn ==
  ASSUME TypeOK, BackedgesKnown, NothingUnterminated PROVE KahnState'
<1>1. UNCHANGED <<node, fake, loop>> /\ queue' = {Entry} /\ seen' = {}
      /\ incoming' = [n \in Nodes |-> ForwardParents(n)]
  BY DEF NothingUnterminated, ForwardParents, graphVars
<1>2. \A n : ForwardParents(n)' = ForwardParents(n)
  BY <1>1 DEF ForwardParents, parents, children
<1>3. Down' = Down
  BY <1>1 DEF Down, children
<1>4. Entry \in Reach({Entry}, Down)
  BY ConstantFacts, ReachStart
<1>5. ForwardParents(Entry) = {}
  BY EntryHasNoForwardParents
<1>6. incoming' = [s \in Nodes |-> ForwardParents(s)' \ seen']
  BY <1>1, <1>2
<1>7. {Entry} \subseteq Reach({Entry}, Down)'
  BY <1>3, <1>4 DEF Reach
<1> QED BY <1>1, <1>2, <1>5, <1>6, <1>7 DEF KahnState

\* What the invariant speaks of depends on the graph and its loops alone.
LEMMA SameGraphKahn ==
  ASSUME UNCHANGED <<graphVars, loop>>
  PROVE  /\ \A n : ForwardParents(n)' = ForwardParents(n)
         /\ Reach({Entry}, Down)' = Reach({Entry}, Down)
         /\ \A S : StronglyConnected(S)' <=> StronglyConnected(S)
         /\ \A S : HasHead(S)' <=> HasHead(S)
         /\ ReachTerminal' = ReachTerminal
<1>1. \A n : children(n)' = children(n)
  BY DEF graphVars, children
<1>2. \A n : parents(n)' = parents(n)
  BY <1>1 DEF parents
<1>3. Down' = Down
  BY <1>1 DEF Down
<1>4. \A d, n : Dom(d, n)' <=> Dom(d, n)
  BY SameGraph DEF Dom
<1>5. \A n : ForwardParents(n)' = ForwardParents(n)
  BY <1>2 DEF ForwardParents
<1>6. Reach({Entry}, Down)' = Reach({Entry}, Down)
  BY <1>3 DEF Reach
<1>7. \A S : StronglyConnected(S)' <=> StronglyConnected(S)
  BY <1>1 DEF StronglyConnected
<1>8. \A S : HasHead(S)' <=> HasHead(S)
  BY <1>4 DEF HasHead
<1>9. ReachTerminal' = ReachTerminal
  BY <1>2 DEF ReachTerminal, Closure
<1> QED BY <1>5, <1>6, <1>7, <1>8, <1>9

\* Popping a node, whichever it is, keeps the invariant.
LEMMA PopKeepsState ==
  ASSUME TypeOK, BackedgesKnown, KahnState, NEW n \in Nodes, KahnPop(n) PROVE KahnState'
<1>1. /\ n \in queue /\ n \notin seen /\ seen' = seen \cup {n}
      /\ UNCHANGED <<graphVars, loop>>
  BY DEF KahnPop, KahnState
<1>2. \A s \in Nodes : s \in ForwardChildren(n) <=> n \in ForwardParents(s)
  BY ForwardFacts
<1>3. ForwardChildren(n) \subseteq children(n) /\ children(n) \subseteq Nodes
  BY ForwardFacts
<1>4. incoming' = [s \in Nodes |-> ForwardParents(s) \ seen']
  <2>1. ASSUME NEW s \in Nodes PROVE incoming'[s] = ForwardParents(s) \ seen'
    BY <1>1, <1>2 DEF KahnPop, KahnState
  <2>2. incoming' = [s \in Nodes |-> incoming'[s]]
    BY DEF KahnPop
  <2> QED BY <2>1, <2>2
<1>5. queue' = (queue \ {n}) \cup {s \in ForwardChildren(n) : ForwardParents(s) \subseteq seen'}
  <2>1. \A s \in ForwardChildren(n) : incoming'[s] = {} <=> ForwardParents(s) \subseteq seen'
    BY <1>3, <1>4
  <2> QED BY <2>1 DEF KahnPop
<1>6. ASSUME NEW s \in queue' \cup seen' PROVE ForwardParents(s) \subseteq seen'
  BY <1>1, <1>5 DEF KahnState
<1>7. queue' \cap seen' = {}
  <2>1. ASSUME NEW s \in ForwardChildren(n) PROVE s \notin seen'
    <3>1. s \in Nodes /\ n \in ForwardParents(s)
      BY <1>2, <1>3
    <3>2. s \notin seen
      BY <1>1, <3>1 DEF KahnState
    <3>3. s # n
      BY <3>1, ForwardFacts, DominatesSelf DEF Dom
    <3> QED BY <1>1, <3>2, <3>3
  <2> QED BY <1>1, <1>5, <2>1 DEF KahnState
<1>8. ASSUME NEW s \in Nodes \ (queue' \cup seen')
      PROVE  s # Entry /\ (ForwardParents(s) \subseteq seen' => ForwardParents(s) = {})
  <2>1. s \in Nodes \ (queue \cup seen) /\ s # n
    BY <1>1, <1>5
  <2>2. s # Entry /\ (ForwardParents(s) \subseteq seen => ForwardParents(s) = {})
    BY <2>1 DEF KahnState
  <2>3. CASE n \in ForwardParents(s)
    BY <1>2, <1>5, <2>2, <2>3
  <2>4. CASE n \notin ForwardParents(s)
    BY <1>1, <2>2, <2>4
  <2> QED BY <2>3, <2>4
<1>9. queue' \cup seen' \subseteq Reach({Entry}, Down)
  <2>1. n \in Reach({Entry}, Down)
    BY <1>1 DEF KahnState
  <2>2. children(n) \subseteq Reach({Entry}, Down)
    <3>1. Down[n] = children(n)
      BY DEF Down
    <3> QED BY <1>3, <2>1, <3>1, ReachStep
  <2> QED BY <1>1, <1>3, <1>5, <2>1, <2>2 DEF KahnState
<1>10. ASSUME NEW S \in SUBSET Nodes, StronglyConnected(S), S \cap seen' # {} PROVE HasHead(S)
  <2>1. CASE S \cap seen # {}
    BY <1>10, <2>1 DEF KahnState
  <2>2. CASE S \cap seen = {}
    <3>1. n \in S
      BY <1>1, <1>10, <2>2
    <3>2. ForwardParents(n) \cap S = {}
      BY <1>1, <2>2 DEF KahnState
    <3>3. \A m \in S : Dom(n, m)
      BY <1>10, <3>1, <3>2, FirstPoppedIsHead
    <3> QED BY <3>1, <3>3 DEF HasHead
  <2> QED BY <2>1, <2>2
<1>11. /\ \A s : ForwardParents(s)' = ForwardParents(s)
       /\ Reach({Entry}, Down)' = Reach({Entry}, Down)
       /\ \A S : StronglyConnected(S)' <=> StronglyConnected(S)
       /\ \A S : HasHead(S)' <=> HasHead(S)
  BY <1>1, SameGraphKahn
<1>12. incoming' = [s \in Nodes |-> ForwardParents(s)' \ seen']
  BY <1>4, <1>11
<1>13. /\ \A s \in queue' \cup seen' : ForwardParents(s)' \subseteq seen'
       /\ \A s \in Nodes \ (queue' \cup seen') :
            s # Entry /\ (ForwardParents(s)' \subseteq seen' => ForwardParents(s)' = {})
  BY <1>6, <1>8, <1>11
<1>14. \A S \in SUBSET Nodes : StronglyConnected(S)' /\ S \cap seen' # {} => HasHead(S)'
  BY <1>10, <1>11
<1>15. (queue \cup seen \subseteq Reach({Entry}, Down))'
  BY <1>9, <1>11
<1> QED BY <1>7, <1>12, <1>13, <1>14, <1>15 DEF KahnState

\* Steps outside the loop keep it too.
LEMMA SameKahnState ==
  ASSUME KahnState, UNCHANGED <<graphVars, loop, incoming, queue, seen>>
  PROVE  KahnState' /\ (KahnResult' <=> KahnResult)
<1>1. /\ \A n : ForwardParents(n)' = ForwardParents(n)
      /\ Reach({Entry}, Down)' = Reach({Entry}, Down)
      /\ \A S : (StronglyConnected(S)' <=> StronglyConnected(S)) /\ (HasHead(S)' <=> HasHead(S))
      /\ ReachTerminal' = ReachTerminal
  BY SameGraphKahn
<1>2. KahnResult' <=> KahnResult
  BY <1>1 DEF KahnResult
<1>3. KahnState'
  <2>1. incoming' = [s \in Nodes |-> ForwardParents(s)' \ seen']
    BY <1>1 DEF KahnState
  <2>2. \A S \in SUBSET Nodes : StronglyConnected(S)' /\ S \cap seen' # {} => HasHead(S)'
    BY <1>1 DEF KahnState
  <2> QED BY <1>1, <2>1, <2>2 DEF KahnState
<1> QED BY <1>2, <1>3

\* When the queue is empty, is_reducible has popped every node exactly if the
\* graph is reducible.
LEMMA KahnDecides ==
  ASSUME TypeOK, BackedgesKnown, KahnState, queue = {}
  PROVE  KahnResult <=>
           /\ Closure({Entry}, children) = Nodes
           /\ \A n \in Nodes : Terminal \in Closure({n}, children)
           /\ \A S \in (SUBSET Nodes) \ {{}} : StronglyConnected(S) => HasHead(S)
<1>1. ReachTerminal = Nodes <=> \A n \in Nodes : Terminal \in Closure({n}, children)
  <2>1. \A n \in Nodes : n \in Reach({Terminal}, Up) <=> Terminal \in Reach({n}, Down)
    BY EdgesFacts, ConstantFacts, ReachDual
  <2>2. Reach({Terminal}, Up) \subseteq Nodes
    BY DEF Reach
  <2> QED BY <2>1, <2>2, ClosuresAreReach DEF ReachTerminal
<1>2. Closure({Entry}, children) = Reach({Entry}, Down) /\ Reach({Entry}, Down) \subseteq Nodes
  BY ClosuresAreReach DEF Reach
<1>3. ASSUME seen = Nodes
      PROVE  /\ Reach({Entry}, Down) = Nodes
             /\ \A S \in (SUBSET Nodes) \ {{}} : StronglyConnected(S) => HasHead(S)
             /\ \A n \in Nodes : incoming[n] = {}
  <2>1. \A n \in Nodes : incoming[n] = {}
    BY <1>3 DEF KahnState, ForwardParents, parents
  <2> QED BY <1>2, <1>3, <2>1 DEF KahnState
<1>4. ASSUME Reach({Entry}, Down) = Nodes,
             \A S \in (SUBSET Nodes) \ {{}} : StronglyConnected(S) => HasHead(S)
      PROVE  seen = Nodes
  <2>1. SUFFICES ASSUME Nodes \ seen # {} PROVE FALSE
    BY DEF TypeOK
  <2>2. PICK U \in SUBSET Nodes : U = Nodes \ seen
    OBVIOUS
  <2>3. ASSUME NEW u \in U PROVE ForwardParents(u) \cap U # {}
    <3>1. u # Entry /\ (ForwardParents(u) \subseteq seen => ForwardParents(u) = {})
      BY <2>2 DEF KahnState
    <3>2. ForwardParents(u) # {}
      BY <1>4, <2>2, <3>1, ReachedHasForwardParent
    <3>3. ForwardParents(u) \subseteq Nodes
      BY DEF ForwardParents, parents
    <3> QED BY <2>2, <3>1, <3>2, <3>3
  <2>4. Cyclic(U)
    BY <2>1, <2>2, <2>3 DEF Cyclic
  <2> QED BY <1>4, <2>4, CyclicHasNoHead
<1> QED BY <1>1, <1>2, <1>3, <1>4 DEF KahnResult

-----------------------------------------------------------------------------
(* The invariant and the theorem.                                          *)

\* Every step keeps KahnInv.
LEMMA StepKahnInv == RelationsInv /\ LoopInv /\ KahnInv /\ [Next]_vars => KahnInv'
<1> SUFFICES ASSUME RelationsInv, LoopInv, KahnInv, [Next]_vars PROVE KahnInv'
  OBVIOUS
<1>1. TypeOK
  BY DEF RelationsInv, IInv
<1>2. pc \in {"terminate", "kahn", "done"} => BackedgesKnown
  BY DEF LoopInv, BackedgesKnown
<1>3. ASSUME pc' \notin {"kahn", "done"} PROVE KahnInv'
  BY <1>3 DEF KahnInv
<1>4. CASE VisitNode \/ NextSweep \/ FinishDominators \/ FinishPostdominators \/ FindLoops \/ AddFakeEdge
  BY <1>3, <1>4
  DEF VisitNode, NextSweep, FinishDominators, FinishPostdominators, FindLoops, AddFakeEdge,
      StartDominators
<1>5. CASE NothingUnterminated
  <2>1. pc = "terminate" /\ pc' = "kahn"
    BY <1>5 DEF NothingUnterminated
  <2> QED BY <1>1, <1>2, <1>5, <2>1, StartKahn DEF KahnInv
<1>6. ASSUME NEW n \in Nodes, KahnPop(n) PROVE KahnInv'
  <2>1. pc = "kahn" /\ pc' = "kahn"
    BY <1>6 DEF KahnPop
  <2> QED BY <1>1, <1>2, <1>6, <2>1, PopKeepsState DEF KahnInv
<1>7. CASE KahnDone
  <2>1. /\ KahnState /\ queue = {} /\ pc' = "done"
        /\ UNCHANGED <<graphVars, loop, incoming, queue, seen>>
        /\ reducible' = IF KahnResult THEN "yes" ELSE "no"
    BY <1>7 DEF KahnDone, KahnInv
  <2>2. KahnState' /\ (KahnResult' <=> KahnResult)
    BY <2>1, SameKahnState
  <2> QED BY <2>1, <2>2 DEF KahnInv
<1>8. CASE Returned \/ UNCHANGED vars
  <2>1. UNCHANGED <<graphVars, pc, loop, incoming, queue, seen, reducible>>
    BY <1>8 DEF Returned, vars, kahnVars
  <2>2. KahnState => KahnState' /\ (KahnResult' <=> KahnResult)
    BY <2>1, SameKahnState
  <2> QED BY <2>1, <2>2 DEF KahnInv
<1> QED BY <1>4, <1>5, <1>6, <1>7, <1>8 DEF Next

\* At the end the answer is that of the definition.
LEMMA InvReducible == RelationsInv /\ LoopInv /\ KahnInv => ReducibleExact
<1> SUFFICES ASSUME RelationsInv, LoopInv, KahnInv PROVE ReducibleExact
  OBVIOUS
<1>1. TypeOK
  BY DEF RelationsInv, IInv
<1>2. pc \in {"kahn", "done"} => BackedgesKnown /\ KahnState
  BY DEF LoopInv, BackedgesKnown, KahnInv
<1>3. ASSUME pc = "kahn"
      PROVE  /\ queue \cap seen = {}
             /\ \A n \in queue : \A s \in ForwardChildren(n) : n \in incoming[s]
  <2>1. queue \cap seen = {}
    BY <1>2, <1>3 DEF KahnState
  <2>2. ASSUME NEW n \in queue, NEW s \in ForwardChildren(n) PROVE n \in incoming[s]
    <3>1. n \in Nodes /\ s \in Nodes
      BY <1>1, ChildrenAreNodes DEF TypeOK, ForwardChildren
    <3>2. n \in ForwardParents(s)
      BY <1>1, <1>2, <1>3, <3>1, ForwardFacts
    <3> QED BY <1>2, <1>3, <2>1, <3>1, <3>2 DEF KahnState
  <2> QED BY <2>1, <2>2
<1>4. ASSUME pc = "done"
      PROVE  reducible = "yes" <=>
               /\ Closure({Entry}, children) = Nodes
               /\ \A n \in Nodes : Terminal \in Closure({n}, children)
               /\ \A S \in (SUBSET Nodes) \ {{}} : StronglyConnected(S) => HasHead(S)
  BY <1>1, <1>2, <1>4, KahnDecides DEF KahnInv
<1> QED BY <1>3, <1>4 DEF ReducibleExact, HasHead, Dom

\* Nothing is claimed before the loop starts.
LEMMA InitKahnInv == Init => KahnInv
  BY DEF Init, KahnInv

\* is_reducible is right about every flow graph, whatever order its set pops
\* in: it says yes exactly when all nodes lie between the entry and the
\* terminal and every loop has a head that dominates it; and the remove() of an
\* incoming edge never raises.
THEOREM ReducibleCorrect == Spec => []ReducibleExact
<1> DEFINE Inv == RelationsInv /\ LoopInv /\ KahnInv
<1>1. Init => Inv
  BY InitRelationsInv, InitLoopInv, InitKahnInv
<1>2. Inv /\ [Next]_vars => Inv'
  BY StepRelationsInv, StepLoopInv, StepKahnInv
<1>3. Inv => ReducibleExact
  BY InvReducible
<1> HIDE DEF Inv
<1> QED BY <1>1, <1>2, <1>3, PTL DEF Spec
=============================================================================
