---------------------------- MODULE FlowRelations ----------------------------
(***************************************************************************)
(* compute_relations, terminate_infinite_loops and FlowGraph.is_reducible  *)
(* of m2c/flow_graph.py: the dominator and postdominator fixpoints, the    *)
(* immediate (post)dominators, the natural loops, the fake edges that give *)
(* an infinite loop an exit, and Kahn's algorithm on the forward edges.    *)
(*                                                                         *)
(* A node is its position in the sorted node list: node 0 is the entry and *)
(* node N-1 the TerminalNode.  The bitset of the code is a set of nodes.   *)
(***************************************************************************)
EXTENDS Integers, FiniteSets, FiniteSetsExt

CONSTANTS N,          \* number of nodes, the TerminalNode included
          SwitchNodes \* TRUE when the graphs of the model may hold SwitchNodes

ASSUME NAssumption == N \in Nat /\ N >= 2
ASSUME SwitchAssumption == SwitchNodes \in BOOLEAN

Nodes    == 0 .. N - 1
Entry    == 0
Terminal == N - 1
None     == -1

VARIABLES
  node,                    \* kind and real successors of every node
  fake,                    \* the BasicNodes whose fake_successor is set
  pc,                      \* the loop that is running
  doms, i, changes,        \* locals of compute_dominators
  dominators, immediate_dominator,
  postdominators, immediate_postdominator,
  loop,                    \* NaturalLoop per head; no backedge means None
  incoming, queue, seen,   \* locals of is_reducible
  reducible                \* its result, "unknown" until it returns

graphVars == <<node, fake>>
domVars   == <<doms, i, changes>>
relVars   == <<dominators, immediate_dominator,
               postdominators, immediate_postdominator>>
kahnVars  == <<incoming, queue, seen, reducible>>
vars      == <<graphVars, pc, domVars, relVars, loop, kahnVars>>

-----------------------------------------------------------------------------
(* The graph.                                                              *)

Kinds == {"Basic", "Conditional", "Return", "Switch", "Terminal"}

Phases == {"dominators", "postdominators", "loops", "terminate", "kahn", "done"}

\* children(): ConditionalNode and SwitchNode drop duplicate targets, and a
\* BasicNode adds its fake successor.
children(n) == node[n].succ \cup (IF n \in fake THEN {Terminal} ELSE {})

parents(n) == {p \in Nodes : n \in children(p)}

\* The two calls of compute_dominators differ in their root and direction.
Root(dir)     == IF dir = "dominators" THEN Entry ELSE Terminal
Preds(dir, n) == IF dir = "dominators" THEN parents(n) ELSE children(n)

\* The smallest set that holds start and is closed under next(_): what the
\* work lists of this file compute whatever the order they pop in.
Closure(start, next(_)) ==
  LET Closed == {S \in SUBSET Nodes : /\ start \subseteq S
                                      /\ \A n \in S : next(n) \subseteq S}
  IN  {n \in Nodes : \A S \in Closed : n \in S}

ReachTerminal == Closure({Terminal}, parents)

\* Mutant: the walk does not stop at the loop head.
InvReachable(end, without) == Closure({end}, parents)

inv_reachable_without(end, without) ==
  LET next(n) == parents(n) \ {without}
  IN  Closure({end} \ {without}, next)

-----------------------------------------------------------------------------
(* compute_relations.                                                      *)

InitialDoms(root) == [n \in Nodes |-> IF n = root THEN {n} ELSE Nodes]

\* Mutant: the sweep starts before the first node.
StartTooEarly(dir) ==
  /\ pc' = dir
  /\ doms' = InitialDoms(Root(dir))
  /\ i' = -1
  /\ changes' = FALSE

StartDominators(dir) ==
  /\ pc' = dir
  /\ doms' = InitialDoms(Root(dir))
  /\ i' = 0
  /\ changes' = FALSE

\* Mutant: the dominators of the predecessors are united.
UnitedSet(dir, n) ==
  {d \in doms[n] : \E p \in Preds(dir, n) : d \in doms[p]} \cup {n}

NewSet(dir, n) ==
  {d \in doms[n] : \A p \in Preds(dir, n) : d \in doms[p]} \cup {n}

\* One iteration of `for i, node in i_to_node.items()`.
VisitNode ==
  /\ pc \in {"dominators", "postdominators"}
  /\ i < N
  /\ IF i = Root(pc)
     THEN UNCHANGED <<doms, changes>>
     ELSE /\ doms' = [doms EXCEPT ![i] = NewSet(pc, i)]
          /\ changes' = (changes \/ NewSet(pc, i) # doms[i])
  /\ i' = i + 1
  /\ UNCHANGED <<graphVars, pc, relVars, loop, kahnVars>>

\* `while changes` starts another sweep.
NextSweep ==
  /\ pc \in {"dominators", "postdominators"}
  /\ i = N
  /\ changes
  /\ i' = 0
  /\ changes' = FALSE
  /\ UNCHANGED <<graphVars, pc, doms, relVars, loop, kahnVars>>

\* Mutant: min instead of max.
FarthestDominator(d, n) ==
  LET strict == d[n] \ {n}
  IN  IF strict = {} THEN None
      ELSE CHOOSE m \in strict : \A k \in strict : Cardinality(d[m]) <= Cardinality(d[k])

\* max(doms, key=lambda d: (len(dominators(d)), d.block.index))
ImmediateDominator(d, n) ==
  LET strict == d[n] \ {n}
      key(m, k) == \/ Cardinality(d[m]) > Cardinality(d[k])
                   \/ Cardinality(d[m]) = Cardinality(d[k]) /\ m >= k
  IN  IF strict = {} THEN None
      ELSE CHOOSE m \in strict : \A k \in strict : key(m, k)

FinishDominators ==
  /\ pc = "dominators"
  /\ i = N
  /\ ~changes
  /\ dominators' = doms
  /\ immediate_dominator' = [n \in Nodes |-> ImmediateDominator(doms, n)]
  /\ StartDominators("postdominators")
  /\ UNCHANGED <<graphVars, postdominators, immediate_postdominator, loop, kahnVars>>

FinishPostdominators ==
  /\ pc = "postdominators"
  /\ i = N
  /\ ~changes
  /\ postdominators' = doms
  /\ immediate_postdominator' = [n \in Nodes |-> ImmediateDominator(doms, n)]
  /\ pc' = "loops"
  /\ UNCHANGED <<graphVars, domVars, dominators, immediate_dominator, loop, kahnVars>>

IsBackedge(n, c) == c \in children(n) /\ c \in dominators[n]

BackedgesTo(h) == {n \in Nodes : IsBackedge(n, h)}

\* Loops are never reset: a later call adds to what an earlier one found.
FindLoops ==
  /\ pc = "loops"
  /\ loop' = [h \in Nodes |->
       [nodes |-> loop[h].nodes
                  \cup (IF BackedgesTo(h) = {} THEN {} ELSE {h})
                  \cup BackedgesTo(h)
                  \cup UNION {inv_reachable_without(n, h) : n \in BackedgesTo(h)},
        backedges |-> loop[h].backedges \cup BackedgesTo(h)]]
  /\ pc' = "terminate"
  /\ UNCHANGED <<graphVars, domVars, relVars, kahnVars>>

-----------------------------------------------------------------------------
(* terminate_infinite_loops.                                               *)

\* Mutant: ConditionalNodes count as well.
UnterminatedAnyNode == Nodes \ ReachTerminal

UnterminatedNodes == {n \in Nodes \ ReachTerminal : node[n].kind = "Basic"}

\* Mutant: the new fake edge takes the place of an earlier one.
MoveFakeEdge ==
  /\ pc = "terminate"
  /\ UnterminatedNodes # {}
  /\ fake' = {Max(UnterminatedNodes)}
  /\ StartDominators("dominators")
  /\ UNCHANGED <<node, relVars, loop, kahnVars>>

\* The last unterminated BasicNode gets a fake edge; everything is recomputed.
AddFakeEdge ==
  /\ pc = "terminate"
  /\ UnterminatedNodes # {}
  /\ fake' = fake \cup {Max(UnterminatedNodes)}
  /\ StartDominators("dominators")
  /\ UNCHANGED <<node, relVars, loop, kahnVars>>

\* Nothing left to do; is_reducible is the next reader of the relations.
NothingUnterminated ==
  /\ pc = "terminate"
  /\ UnterminatedNodes = {}
  /\ pc' = "kahn"
  /\ incoming' = [n \in Nodes |-> parents(n) \ loop[n].backedges]
  /\ queue' = {Entry}
  /\ seen' = {}
  /\ UNCHANGED <<graphVars, domVars, relVars, loop, reducible>>

-----------------------------------------------------------------------------
(* FlowGraph.is_reducible.  queue is a Python set of objects: pop() may    *)
(* return any of its members.                                              *)

ForwardChildren(n) == {s \in children(n) : n \notin loop[s].backedges}

KahnPop(n) ==
  /\ pc = "kahn"
  /\ n \in queue
  /\ seen' = seen \cup {n}
  /\ incoming' = [s \in Nodes |-> IF s \in ForwardChildren(n)
                                  THEN incoming[s] \ {n} ELSE incoming[s]]
  /\ queue' = (queue \ {n}) \cup {s \in ForwardChildren(n) : incoming'[s] = {}}
  /\ UNCHANGED <<graphVars, pc, domVars, relVars, loop, reducible>>

\* Mutant: nodes that cannot reach the terminal are not looked for.
KahnResultForward ==
  /\ \A n \in Nodes : incoming[n] = {}
  /\ seen = Nodes

KahnResult ==
  /\ \A n \in Nodes : incoming[n] = {}
  /\ seen = Nodes
  /\ ReachTerminal = Nodes

KahnDone ==
  /\ pc = "kahn"
  /\ queue = {}
  /\ reducible' = IF KahnResult THEN "yes" ELSE "no"
  /\ pc' = "done"
  /\ UNCHANGED <<graphVars, domVars, relVars, loop, incoming, queue, seen>>

-----------------------------------------------------------------------------
(* The node lists build_nodes and duplicate_premature_returns hand over:   *)
(* a ReturnNode leads to the terminal and nothing else does, and every     *)
(* node but the TerminalNode is reachable from the entry.                  *)

Targets == Nodes \ {Terminal}

NodeShapes ==
  [kind : {"Basic"}, succ : {{t} : t \in Targets}]
  \cup [kind : {"Conditional"}, succ : {{s, t} : s, t \in Targets}]
  \cup [kind : {"Return"}, succ : {{Terminal}}]
  \cup IF SwitchNodes THEN [kind : {"Switch"}, succ : SUBSET Targets] ELSE {}

TerminalShape == [kind |-> "Terminal", succ |-> {}]

InitGraph ==
  /\ \E shape \in [Targets -> NodeShapes] :
       node = [n \in Nodes |-> IF n = Terminal THEN TerminalShape ELSE shape[n]]
  /\ LET next(n) == node[n].succ IN Targets \subseteq Closure({Entry}, next)
  /\ fake = {}

Init ==
  /\ InitGraph
  /\ pc = "dominators"
  /\ doms = InitialDoms(Entry)
  /\ i = 0
  /\ changes = FALSE
  /\ dominators = [n \in Nodes |-> {}]
  /\ immediate_dominator = [n \in Nodes |-> None]
  /\ postdominators = [n \in Nodes |-> {}]
  /\ immediate_postdominator = [n \in Nodes |-> None]
  /\ loop = [n \in Nodes |-> [nodes |-> {}, backedges |-> {}]]
  /\ incoming = [n \in Nodes |-> {}]
  /\ queue = {}
  /\ seen = {}
  /\ reducible = "unknown"

\* is_reducible has returned: the code of this module is done.
Returned == pc = "done" /\ UNCHANGED vars

Next ==
  \/ VisitNode
  \/ NextSweep
  \/ FinishDominators
  \/ FinishPostdominators
  \/ FindLoops
  \/ AddFakeEdge
  \/ NothingUnterminated
  \/ \E n \in Nodes : KahnPop(n)
  \/ KahnDone
  \/ Returned

Spec == Init /\ [][Next]_vars

\* The pipeline is sequential code that nothing suspends.
FairSpec == Spec /\ WF_vars(Next)

-----------------------------------------------------------------------------
(* What the relations must be.                                             *)

\* Types of all variables; every node keeps a shape the builders can produce.
TypeOK ==
  /\ node \in [Nodes -> NodeShapes \cup {TerminalShape}]
  /\ fake \subseteq Nodes
  /\ pc \in Phases
  /\ doms \in [Nodes -> SUBSET Nodes]
  /\ i \in 0 .. N
  /\ changes \in BOOLEAN
  /\ dominators \in [Nodes -> SUBSET Nodes]
  /\ postdominators \in [Nodes -> SUBSET Nodes]
  /\ immediate_dominator \in [Nodes -> Nodes \cup {None}]
  /\ immediate_postdominator \in [Nodes -> Nodes \cup {None}]
  /\ loop \in [Nodes -> [nodes : SUBSET Nodes, backedges : SUBSET Nodes]]
  /\ incoming \in [Nodes -> SUBSET Nodes]
  /\ queue \subseteq Nodes
  /\ seen \subseteq Nodes
  /\ reducible \in {"unknown", "yes", "no"}

\* The sets of nodes, d left out, that hold the root and every successor
\* (but d) of a member: each contains all that is reachable without d.
Avoiding(dir, d) ==
  {S \in SUBSET (Nodes \ {d}) :
     /\ Root(dir) \in S \cup {d}
     /\ \A n \in Nodes \ {d} : Preds(dir, n) \cap S # {} => n \in S}

\* d (post)dominates n: every path from the root to n goes through d.  A node
\* the root does not reach is dominated by every node, as the code's comment
\* in compute_dominators says.
Dominates(dir, d, n) == \E S \in Avoiding(dir, d) : n \notin S

Exact(dir, sets) ==
  \A d, n \in Nodes : d \in sets[n] <=> Dominates(dir, d, n)

\* The bitset iteration of compute_dominators ends in the true dominator sets
\* of the graph as it is now, in both directions, also after the fake edges
\* of terminate_infinite_loops made it run again.
DominatorsExact ==
  /\ pc \notin {"dominators"} => Exact("dominators", dominators)
  /\ pc \notin {"dominators", "postdominators"} =>
       Exact("postdominators", postdominators)

\* "There should be a unique max len(dominators(d))": the immediate dominator
\* picked by size has exactly the other strict dominators as its own set, for
\* every node the root reaches, reducible graph or not.
ImmediateDominatorsExact ==
  pc \in {"loops", "done"} =>
    /\ \A n \in Targets \ {Entry} :
         /\ immediate_dominator[n] # None
         /\ dominators[immediate_dominator[n]] = dominators[n] \ {n}
    /\ \A n \in ReachTerminal \ {Terminal} :
         /\ immediate_postdominator[n] # None
         /\ postdominators[immediate_postdominator[n]] = postdominators[n] \ {n}

\* NaturalLoop: after any number of recomputations a head's loop is exactly
\* the nodes it dominates that have a path to a backedge source without it.
LoopsExact ==
  pc \in {"terminate", "kahn", "done"} =>
    \A h \in Nodes :
      LET tails == {n \in Nodes : h \in children(n) /\ Dominates("dominators", h, n)}
          forward(n) == children(n) \ {h}
      IN  /\ loop[h].backedges = tails
          /\ loop[h].nodes =
               IF tails = {} THEN {}
               ELSE {h} \cup {n \in Nodes \ {h} :
                                /\ Dominates("dominators", h, n)
                                /\ Closure({n}, forward) \cap tails # {}}

RealChildren(n) == node[n].succ

\* A fake edge is only given to a BasicNode that really cannot return, and
\* when terminate_infinite_loops returns no BasicNode is without an exit.
FakeEdgesTerminateInfiniteLoops ==
  /\ \A n \in fake : /\ node[n].kind = "Basic"
                     /\ Terminal \notin Closure({n}, RealChildren)
  /\ pc \in {"kahn", "done"} =>
       \A n \in Nodes : node[n].kind = "Basic" => Terminal \in Closure({n}, children)

StronglyConnected(S) ==
  \A T \in (SUBSET S) \ {{}, S} : \E n \in T : children(n) \cap (S \ T) # {}

\* The result of is_reducible is reducibility, and does not depend on the
\* order in which the set pops: all nodes lie between entry and terminal, and
\* every strongly connected set of nodes has a head that dominates it.  On the
\* way `incoming_edges[s].remove(n)` never raises KeyError: the forward edges of
\* a node that is still to be popped are all left.
ReducibleExact ==
  /\ pc = "kahn" => /\ queue \cap seen = {}
                    /\ \A n \in queue : \A s \in ForwardChildren(n) : n \in incoming[s]
  /\ pc = "done" =>
       (reducible = "yes" <=>
          /\ Closure({Entry}, children) = Nodes
          /\ \A n \in Nodes : Terminal \in Closure({n}, children)
          /\ \A S \in (SUBSET Nodes) \ {{}} : StronglyConnected(S) =>
               \E h \in S : \A n \in S : Dominates("dominators", h, n))

\* Every loop of the three functions ends: the sweeps reach a fixpoint, the
\* fake edges run out and the queue empties.
Terminates == <>(pc = "done")
=============================================================================
