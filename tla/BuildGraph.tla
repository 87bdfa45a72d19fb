----------------------------- MODULE BuildGraph ------------------------------
(***************************************************************************)
(* build_nodes, build_graph_from_block and duplicate_premature_returns of  *)
(* m2c/flow_graph.py: the recursive walk from the entry block that makes a *)
(* Node of every block it meets, the search for jump tables along the walk,*)
(* the copies of the final return block, and the filter that keeps what    *)
(* the entry reaches.                                                      *)
(*                                                                         *)
(* A node is named by its block, block b of the list being number b; the   *)
(* TerminalNode is N + 1, and copy k of the final return is N + 1 + k.     *)
(***************************************************************************)
EXTENDS Integers, Sequences, FiniteSets, FiniteSetsExt, SequencesExt

CONSTANTS
  N,      \* number of blocks build_blocks returned
  Shapes, \* what a block can be
  Tables  \* asm_data.values: jump table name -> its entries

ASSUME NAssumption == N \in Nat \ {0}

Entry    == 1
Terminal == N + 1
Missing  == 0    \* a label that no block has
Padding  == -1   \* an entry of a jump table that is not a symbol
NoTable  == "none"

Blocks   == 1 .. N

\* A conditional branch ends in a target and falls through, a goto has its one
\* target.  A label leads to a block or is missing.
ASSUME ShapesAssumption ==
  \A s \in Shapes :
    /\ s.kind \in {"fall", "return", "jump", "cond", "list", "switch"}
    /\ s.targets \in Seq(Blocks \cup {Missing})
    /\ s.kind \in {"jump", "cond"} => Len(s.targets) = 1
    /\ s.emit_goto \in BOOLEAN

ASSUME TablesAssumption ==
  /\ NoTable \notin DOMAIN Tables
  /\ \A t \in DOMAIN Tables : Tables[t] \in Seq(Blocks \cup {Missing, Padding})

VARIABLES
  blocks,   \* per block: kind of jump, targets, jump tables named, emit_goto
  trivial,  \* is_trivial_return_block of the final return
  nodes,    \* graph: the blocks that have a node, in the order of creation
  stack,    \* parent_blocks and the block being analysed
  succ,     \* the edges of each node that are no longer dummy_node
  table,    \* jtbl_name of each SwitchNode
  pc,
  list,     \* the nodes sorted by block index
  i, copies, \* loop of duplicate_premature_returns; its extra_nodes
  queue, reachable_nodes

walkVars == <<nodes, stack, succ, table>>
dupVars  == <<list, i, copies, queue, reachable_nodes>>
vars     == <<blocks, trivial, walkVars, dupVars, pc>>

-----------------------------------------------------------------------------
(* build_graph_from_block.  A call is on the stack; the number of edges it *)
(* has filled in says how far it is.                                       *)

UpToPadding(entries) ==
  LET pad == {k \in DOMAIN entries : entries[k] = Padding}
  IN IF pad = {} THEN entries ELSE SubSeq(entries, 1, Min(pad) - 1)

\* The blocks the analysis of b recurses into, in order.
Edges(b) ==
  CASE blocks[b].kind = "fall"   -> <<b + 1>>
    [] blocks[b].kind = "return" -> <<>>
    [] blocks[b].kind = "jump"   -> blocks[b].targets
    [] blocks[b].kind = "cond"   -> <<blocks[b].targets[1], b + 1>>
    [] blocks[b].kind = "list"   -> blocks[b].targets
    [] blocks[b].kind = "switch" -> UpToPadding(Tables[table[b]])

IsNode(b) == Contains(nodes, b)

\* jtbl_names: the nearest block on the walk that names any decides.
JumpTables(path) ==
  LET named == {k \in DOMAIN path : blocks[path[k]].names # {}}
  IN IF named = {} THEN {} ELSE blocks[path[Max(named)]].names

\* "Cannot find branch target", or no single jump table that is provided.
CannotEnter(b, path) ==
  \/ blocks[b].kind \in {"jump", "cond"} /\ blocks[b].targets[1] = Missing
  \/ /\ blocks[b].kind = "switch"
     /\ ~\E t \in DOMAIN Tables : JumpTables(path) = {t}

top      == Last(stack)
Finished == stack # <<>> /\ Len(succ[top]) = Len(Edges(top))
child    == IF stack = <<>> THEN Entry ELSE Edges(top)[Len(succ[top]) + 1]
Calling  == pc = "walk" /\ ~Finished /\ ~(stack = <<>> /\ IsNode(Entry))

\* The call makes a node and goes on with its first edge.
EnterBlock ==
  /\ Calling
  /\ child # Missing
  /\ ~IsNode(child)
  /\ LET path == Append(stack, child)
     IN /\ ~CannotEnter(child, path)
        /\ nodes' = Append(nodes, child)
        /\ stack' = path
        /\ table' = [table EXCEPT ![child] =
             IF blocks[child].kind = "switch" THEN CHOOSE t \in JumpTables(path) : TRUE
             ELSE NoTable]
  /\ UNCHANGED <<blocks, trivial, succ, dupVars, pc>>

\* Mutant: the newest node is returned instead of the one found.
KnownBlockNewest ==
  /\ Calling
  /\ IsNode(child)
  /\ succ' = [succ EXCEPT ![top] = Append(@, Last(nodes))]
  /\ UNCHANGED <<blocks, trivial, nodes, stack, table, dupVars, pc>>

\* "Don't reanalyze blocks."
KnownBlock ==
  /\ Calling
  /\ IsNode(child)
  /\ succ' = [succ EXCEPT ![top] = Append(@, child)]
  /\ UNCHANGED <<blocks, trivial, nodes, stack, table, dupVars, pc>>

DecompFailure ==
  /\ Calling
  /\ \/ child = Missing
     \/ child \in Blocks /\ ~IsNode(child) /\ CannotEnter(child, Append(stack, child))
  /\ pc' = "failed"
  /\ UNCHANGED <<blocks, trivial, walkVars, dupVars>>

\* The call returns its node to the caller, which stores it in the edge.
ReturnNode ==
  /\ pc = "walk"
  /\ Finished
  /\ stack' = Front(stack)
  /\ succ' = IF Len(stack) = 1 THEN succ
             ELSE [succ EXCEPT ![stack[Len(stack) - 1]] = Append(@, top)]
  /\ UNCHANGED <<blocks, trivial, nodes, table, dupVars, pc>>

\* The numbers of S in ascending order: the k-th has k - 1 smaller ones.
Ascending(S) ==
  [k \in 1 .. Cardinality(S) |-> CHOOSE b \in S : Cardinality({c \in S : c < b}) = k - 1]

\* The rest of build_nodes.  A fragment is not normalised any further.
IsFragment == blocks[N].kind = "fall"

SortNodes ==
  /\ pc = "walk"
  /\ stack = <<>>
  /\ IsNode(Entry)
  /\ list' = Ascending(ToSet(nodes))
  /\ pc' = IF IsFragment THEN "done" ELSE "duplicate"
  /\ UNCHANGED <<blocks, trivial, walkVars, i, copies, queue, reachable_nodes>>

-----------------------------------------------------------------------------
(* duplicate_premature_returns.                                            *)

IsBasic(b)  == b \in Blocks /\ blocks[b].kind \in {"fall", "jump"}
IsReturn(b) == b > Terminal \/ (b \in Blocks /\ blocks[b].kind = "return")

FinalReturn == list[Len(list) - 1]

\* Mutant: a jump to any return counts, not only to the final one.
PrematureAnyReturn(b, edge) ==
  /\ Len(list) >= 3
  /\ IsReturn(edge)
  /\ trivial
  /\ IsBasic(b)
  /\ b # list[Len(list) - 2]

is_premature_return(b, edge) ==
  /\ Len(list) >= 3
  /\ IsReturn(edge)
  /\ edge = FinalReturn
  /\ trivial
  /\ IsBasic(b)
  /\ b # list[Len(list) - 2]

DuplicateReturn ==
  /\ pc = "duplicate"
  /\ i <= Len(list)
  /\ IF /\ IsBasic(list[i])
        /\ ~blocks[list[i]].emit_goto
        /\ is_premature_return(list[i], succ[list[i]][1])
     THEN /\ copies' = Append(copies, list[i])
          /\ succ' = [succ EXCEPT ![list[i]] = <<Terminal + Len(copies')>>]
     ELSE UNCHANGED <<copies, succ>>
  /\ i' = i + 1
  /\ UNCHANGED <<blocks, trivial, nodes, stack, table, list, queue, reachable_nodes, pc>>

\* The copies have the block index of the final return, and the sort is stable.
AddCopies ==
  /\ pc = "duplicate"
  /\ i > Len(list)
  /\ list' = Front(list) \o [k \in DOMAIN copies |-> Terminal + k] \o <<Terminal>>
  /\ queue' = {list[1]}
  /\ reachable_nodes' = {Terminal}
  /\ pc' = "filter"
  /\ UNCHANGED <<blocks, trivial, walkVars, i, copies>>

children(n) ==
  IF n = Terminal THEN {} ELSE IF IsReturn(n) THEN {Terminal} ELSE ToSet(succ[n])

\* Mutant: nodes that were seen before are queued again.
PopRequeues(n) ==
  /\ pc = "filter"
  /\ n \in queue
  /\ reachable_nodes' = reachable_nodes \cup {n}
  /\ queue' = (queue \ {n}) \cup children(n)
  /\ UNCHANGED <<blocks, trivial, walkVars, list, i, copies, pc>>

\* queue is a Python set of objects: pop() may return any of its members.
PopQueue(n) ==
  /\ pc = "filter"
  /\ n \in queue
  /\ reachable_nodes' = reachable_nodes \cup {n}
  /\ queue' = (queue \ {n}) \cup (children(n) \ reachable_nodes')
  /\ UNCHANGED <<blocks, trivial, walkVars, list, i, copies, pc>>

FilterNodes ==
  /\ pc = "filter"
  /\ queue = {}
  /\ LET kept == Ascending({k \in DOMAIN list : list[k] \in reachable_nodes})
     IN list' = [k \in DOMAIN kept |-> list[kept[k]]]
  /\ pc' = "done"
  /\ UNCHANGED <<blocks, trivial, walkVars, i, copies, queue, reachable_nodes>>

-----------------------------------------------------------------------------
\* build_blocks ends the list with the safeguard return; in a fragment the
\* TerminalNode's block follows instead.
LastShapes == {s \in Shapes : s.kind \in {"return", "fall"}}

Init ==
  /\ blocks \in [Blocks -> Shapes]
  /\ blocks[N] \in LastShapes
  /\ trivial \in BOOLEAN
  /\ nodes = <<Terminal>>
  /\ stack = <<>>
  /\ succ = [b \in Blocks |-> <<>>]
  /\ table = [b \in Blocks |-> NoTable]
  /\ pc = "walk"
  /\ list = <<>>
  /\ i = 1
  /\ copies = <<>>
  /\ queue = {}
  /\ reachable_nodes = {}

Ended == pc \in {"done", "failed"} /\ UNCHANGED vars

Next ==
  \/ EnterBlock
  \/ KnownBlock
  \/ DecompFailure
  \/ ReturnNode
  \/ SortNodes
  \/ DuplicateReturn
  \/ AddCopies
  \/ \E n \in 1 .. 2 * N : PopQueue(n)
  \/ FilterNodes
  \/ Ended

Spec == Init /\ [][Next]_vars

-----------------------------------------------------------------------------
(* Properties.                                                             *)

Built == pc \in {"duplicate", "filter", "done"}

\* Blocks the source can run into: the smallest set with the entry that is
\* closed under the jumps as written.
Successors(b) ==
  IF blocks[b].kind = "switch" /\ table[b] = NoTable THEN {} ELSE ToSet(Edges(b))

Reachable ==
  LET Closed == {S \in SUBSET (Blocks \cup {Terminal}) :
                   Entry \in S /\ \A b \in S \cap Blocks : Successors(b) \subseteq S}
  IN {b \in Blocks : \A S \in Closed : b \in S}

\* After the walk every block that can run has exactly one node and no other
\* block has, and no edge is a dummy_node: each leads where its jump goes.
\* During it parent_blocks is a path that control can take from the entry, so
\* that the jump table a switch gets was named on the way to it, and holds no
\* block twice, so that the recursion is no deeper than there are blocks.
GraphMatchesBlocks ==
  /\ (pc = "duplicate" /\ i = 1) \/ (pc = "done" /\ IsFragment) =>
       /\ IsInjective(nodes)
       /\ ToSet(nodes) = Reachable \cup {Terminal}
       /\ \A b \in Reachable : succ[b] = Edges(b)
  /\ IsInjective(stack)
  /\ \A k \in 1 .. Len(stack) - 1 : stack[k + 1] \in Successors(stack[k])

FinalBlock == Max(ToSet(nodes) \ {Terminal})

\* duplicate_premature_returns changes no path: with each copy read as the
\* final return, every node still has the edges of its block.  And it does what
\* it is for, "The only node that is allowed to point to the return node is the
\* node before it": a copy has exactly one parent, and the trivial final return
\* keeps no BasicNode but that one and those marked with a goto.
CopiesKeepPaths ==
  /\ Built => \A b \in ToSet(nodes) \ {Terminal} :
       [k \in DOMAIN succ[b] |-> IF succ[b][k] > Terminal THEN FinalBlock ELSE succ[b][k]]
         = Edges(b)
  /\ pc = "done" /\ ~IsFragment =>
       LET parents(n) == {m \in ToSet(list) : n \in children(m)}
           before     == {b \in ToSet(nodes) \ {Terminal} : b < FinalBlock}
       IN /\ \A n \in ToSet(list) : n > Terminal => Cardinality(parents(n)) = 1
          /\ trivial /\ blocks[FinalBlock].kind = "return" =>
               \A b \in parents(FinalBlock) :
                 IsBasic(b) => b = Max(before) \/ blocks[b].emit_goto

\* What compute_relations and FlowGraph rely on: the entry comes first and the
\* TerminalNode last, everything in between is reachable, and every edge stays
\* within the list, in whatever order the worklist pops.  The worklist empties:
\* no node is put into it again after it was taken out.
ListIsClosed ==
  /\ queue \cap reachable_nodes = {}
  /\ pc = "done" =>
       /\ list[1] = Entry
       /\ Last(list) = Terminal
       /\ IsInjective(list)
       /\ \A n \in ToSet(list) : children(n) \subseteq ToSet(list)
       /\ \A S \in SUBSET ToSet(list) :
            (Entry \in S /\ \A n \in S : children(n) \subseteq S)
              => ToSet(list) \ {Terminal} \subseteq S
=============================================================================
