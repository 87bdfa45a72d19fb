-------------------------- MODULE BuildGraphProofs ---------------------------
(* Proofs about BuildGraph, for functions of any number of blocks and any  *)
(* jump tables.                                                            *)
EXTENDS BuildGraph, FiniteSetTheorems, WellFoundedInduction, TLAPS

-----------------------------------------------------------------------------
(* The inductive invariant.                                                *)

\* The type invariant.
GraphTypeOK ==
  /\ blocks \in [Blocks -> Shapes]
  /\ blocks[N] \in LastShapes
  /\ trivial \in BOOLEAN
  /\ nodes \in Seq(Blocks \cup {Terminal})
  /\ stack \in Seq(Blocks)
  /\ succ \in [Blocks -> Seq(Nat)]
  /\ table \in [Blocks -> DOMAIN Tables \cup {NoTable}]
  /\ pc \in {"walk", "failed", "duplicate", "filter", "done"}
  /\ list \in Seq(Nat)
  /\ i \in Nat
  /\ copies \in Seq(Blocks)

\* The blocks that have a node, with and without the TerminalNode.
HasNode == ToSet(nodes)
NodeBlocks == HasNode \ {Terminal}

\* The sets of blocks that control cannot leave.
ClosedSets ==
  {S \in SUBSET (Blocks \cup {Terminal}) :
     Entry \in S /\ \A b \in S \cap Blocks : Successors(b) \subseteq S}

\* A block has one node at most, and has it only if control can get there; a
\* SwitchNode has its table.
NodesOK ==
  /\ IsInjective(nodes)
  /\ Terminal \in HasNode
  /\ \A b \in NodeBlocks : blocks[b].kind = "switch" => table[b] \in DOMAIN Tables
  /\ \A b \in Blocks \ HasNode : table[b] = NoTable /\ succ[b] = <<>>
  /\ \A S \in ClosedSets : NodeBlocks \subseteq S

\* Every call on the stack is in the edge that leads to the next one.
StackOK ==
  /\ IsInjective(stack)
  /\ ToSet(stack) \subseteq HasNode
  /\ \A k \in 1 .. Len(stack) - 1, b \in Blocks :
       stack[k] = b => /\ Len(succ[b]) < Len(Edges(b))
                       /\ stack[k + 1] = Edges(b)[Len(succ[b]) + 1]

\* The edges filled in are the first ones of the block and lead to nodes; a
\* call that has returned has filled in all of them.
EdgesOK ==
  \A b \in NodeBlocks :
    /\ Len(succ[b]) <= Len(Edges(b))
    /\ \A k \in 1 .. Len(succ[b]) : succ[b][k] = Edges(b)[k] /\ succ[b][k] \in HasNode
    /\ b \notin ToSet(stack) => Len(succ[b]) = Len(Edges(b))

\* While build_graph_from_block walks.
WalkInv ==
  /\ NodesOK
  /\ StackOK
  /\ EdgesOK
  /\ i = 1 /\ copies = <<>> /\ queue = {} /\ reachable_nodes = {}

\* What the walk leaves behind, and nothing changes later.
Walked ==
  /\ IsInjective(nodes)
  /\ stack = <<>>
  /\ Terminal \in HasNode
  /\ HasNode = Reachable \cup {Terminal}
  /\ \A b \in NodeBlocks : Edges(b) \in Seq(HasNode)
  /\ \A b \in NodeBlocks : Successors(b) = ToSet(Edges(b))

\* The sorted list holds every node.
SortedList ==
  /\ \A j, k \in DOMAIN list : j < k => list[j] < list[k]
  /\ ToSet(list) = HasNode

\* The BasicNodes that get a copy of the final return.
Premature(b) ==
  /\ IsBasic(b)
  /\ ~blocks[b].emit_goto
  /\ trivial
  /\ blocks[FinalBlock].kind = "return"
  /\ Edges(b)[1] = FinalBlock
  /\ b # Max({c \in NodeBlocks : c < FinalBlock})

\* Exactly the nodes in seen that need one have a copy each, their own, and the
\* other nodes have the edges of their block.
CopiesOK(seen) ==
  /\ IsInjective(copies)
  /\ ToSet(copies) = {b \in seen \cap Blocks : Premature(b)}
  /\ \A k \in DOMAIN copies : succ[copies[k]] = <<Terminal + k>>
  /\ \A b \in NodeBlocks \ ToSet(copies) : succ[b] = Edges(b)

\* While duplicate_premature_returns looks at the nodes, from the first to the last.
DupInv ==
  /\ ~IsFragment
  /\ SortedList
  /\ i \in 1 .. Len(list) + 1
  /\ CopiesOK({list[j] : j \in 1 .. i - 1})
  /\ queue = {} /\ reachable_nodes = {}

\* The nodes and the copies.
AllNodes == HasNode \cup {Terminal + k : k \in DOMAIN copies}

\* The sets of nodes of L that no edge leaves.
ClosedIn(L) == {S \in SUBSET L : Entry \in S /\ \A n \in S : children(n) \subseteq S}

\* Where the entry and the TerminalNode are.
ListEnds ==
  /\ IsInjective(list)
  /\ list # <<>>
  /\ list[1] = Entry
  /\ Last(list) = Terminal

\* The worklist: what was popped has its children popped or queued, and
\* everything popped or queued was met on an edge.
WorklistInv ==
  /\ queue \cap reachable_nodes = {}
  /\ queue \cup reachable_nodes \subseteq AllNodes
  /\ Entry \in queue \cup reachable_nodes
  /\ Terminal \in reachable_nodes
  /\ \A n \in reachable_nodes : children(n) \subseteq queue \cup reachable_nodes
  /\ \A n \in (queue \cup reachable_nodes) \ {Entry, Terminal} :
       \E m \in reachable_nodes : n \in children(m)
  /\ \A S \in ClosedIn(AllNodes) : (queue \cup reachable_nodes) \ {Terminal} \subseteq S

\* While the worklist runs.
FilterInv ==
  /\ ~IsFragment
  /\ CopiesOK(NodeBlocks)
  /\ ListEnds
  /\ ToSet(list) = AllNodes
  /\ WorklistInv

\* The graph of a fragment, which is returned as it was built.
FragmentInv ==
  /\ IsFragment
  /\ SortedList
  /\ copies = <<>>
  /\ \A b \in NodeBlocks : succ[b] = Edges(b)
  /\ queue = {}

\* The graph of a function, after the filter.
FilteredInv ==
  /\ ~IsFragment
  /\ CopiesOK(NodeBlocks)
  /\ ListEnds
  /\ ToSet(list) = reachable_nodes
  /\ WorklistInv
  /\ queue = {}

\* The inductive invariant.
GraphInv ==
  /\ GraphTypeOK
  /\ pc \in {"walk", "failed"} => WalkInv
  /\ Built => Walked
  /\ pc = "duplicate" => DupInv
  /\ pc = "filter" => FilterInv
  /\ pc = "done" => FragmentInv \/ FilteredInv

-----------------------------------------------------------------------------
(* Sequences and sets of numbers.                                          *)

\* IsNode is membership in the set of nodes.
LEMMA ContainsIsMember ==
  ASSUME NEW T, NEW s \in Seq(T), NEW x
  PROVE  Contains(s, x) <=> x \in ToSet(s)
  BY DEF Contains, ToSet

\* The indices and elements of a sequence.
LEMMA SeqElements ==
  ASSUME NEW T, NEW s \in Seq(T)
  PROVE  Len(s) \in Nat /\ DOMAIN s = 1 .. Len(s) /\ \A k \in 1 .. Len(s) : s[k] \in T
  OBVIOUS

\* A sequence over a set is one over every larger set.
LEMMA SeqOfLarger ==
  ASSUME NEW T, NEW U, T \subseteq U, NEW s \in Seq(T)
  PROVE  s \in Seq(U)
<1>1. /\ Len(s) \in Nat
      /\ s = [k \in 1 .. Len(s) |-> s[k]]
      /\ \A k \in 1 .. Len(s) : s[k] \in U
  OBVIOUS
<1> QED BY <1>1

\* The elements of a concatenation.
LEMMA ConcatElements ==
  ASSUME NEW T, NEW s \in Seq(T), NEW t \in Seq(T)
  PROVE  /\ s \o t \in Seq(T) /\ Len(s \o t) = Len(s) + Len(t)
         /\ \A j \in 1 .. Len(s) : (s \o t)[j] = s[j]
         /\ \A j \in 1 .. Len(t) : (s \o t)[Len(s) + j] = t[j]
  OBVIOUS

\* Appending adds one element, and keeps a list without repetition if it is new.
LEMMA AppendSet ==
  ASSUME NEW T, NEW s \in Seq(T), NEW x \in T
  PROVE  /\ ToSet(Append(s, x)) = ToSet(s) \cup {x}
         /\ IsInjective(s) /\ x \notin ToSet(s) => IsInjective(Append(s, x))
<1>1. /\ DOMAIN Append(s, x) = 1 .. Len(s) + 1
      /\ \A k \in 1 .. Len(s) : Append(s, x)[k] = s[k]
      /\ Append(s, x)[Len(s) + 1] = x
      /\ DOMAIN s = 1 .. Len(s)
      /\ Len(s) \in Nat
  OBVIOUS
<1>2. ToSet(Append(s, x)) = ToSet(s) \cup {x}
  BY <1>1 DEF ToSet
<1>3. IsInjective(s) /\ x \notin ToSet(s) => IsInjective(Append(s, x))
  BY <1>1 DEF ToSet, IsInjective
<1> QED BY <1>2, <1>3

\* Dropping the last element of a list, and nothing else of one without repetition.
LEMMA FrontSet ==
  ASSUME NEW T, NEW s \in Seq(T), s # <<>>
  PROVE  /\ Front(s) \in Seq(T)
         /\ Len(Front(s)) = Len(s) - 1
         /\ \A k \in 1 .. Len(s) - 1 : Front(s)[k] = s[k]
         /\ Last(s) \in ToSet(s) /\ Last(s) \in T
         /\ ToSet(s) = ToSet(Front(s)) \cup {Last(s)}
         /\ IsInjective(s) => IsInjective(Front(s)) /\ Last(s) \notin ToSet(Front(s))
<1>1. /\ Len(s) \in Nat \ {0}
      /\ DOMAIN s = 1 .. Len(s)
      /\ \A k \in 1 .. Len(s) : s[k] \in T
  OBVIOUS
<1>2. /\ Front(s) \in Seq(T)
      /\ Len(Front(s)) = Len(s) - 1
      /\ \A k \in 1 .. Len(s) - 1 : Front(s)[k] = s[k]
  BY <1>1 DEF Front
<1>3. DOMAIN Front(s) = 1 .. Len(s) - 1
  BY <1>2
<1>4. Last(s) \in ToSet(s) /\ Last(s) \in T
  BY <1>1 DEF Last, ToSet
<1>5. ToSet(s) = ToSet(Front(s)) \cup {Last(s)}
  BY <1>1, <1>2, <1>3 DEF Last, ToSet
<1>6. IsInjective(s) => IsInjective(Front(s)) /\ Last(s) \notin ToSet(Front(s))
  BY <1>1, <1>2, <1>3 DEF Last, ToSet, IsInjective
<1> QED BY <1>2, <1>4, <1>5, <1>6

\* A non-empty set of naturals has a least element.
LEMMA NatMin ==
  ASSUME NEW S, S \subseteq Nat, S # {}
  PROVE  \E x \in S : \A y \in S : x <= y
<1>1. PICK x \in S : \A y \in S : ~ (<<y, x>> \in OpToRel(<, Nat))
  BY NatLessThanWellFounded, WFMin, Zenon
<1>2. ASSUME NEW y \in S PROVE x <= y
  <2>1. <<y, x>> \notin {ss \in Nat \X Nat : ss[1] < ss[2]}
    BY <1>1 DEF OpToRel
  <2>2. y \in Nat /\ x \in Nat
    OBVIOUS
  <2> QED BY <2>1, <2>2
<1> QED BY <1>2

\* Min of a set of naturals is its least element.
LEMMA MinPicked ==
  ASSUME NEW S, S \subseteq Nat, S # {}
  PROVE  Min(S) \in S /\ \A y \in S : Min(S) <= y
<1>1. \E x \in S : \A y \in S : x <= y
  BY NatMin, Zenon
<1> QED BY <1>1 DEF Min

\* The elements of S with k - 1 smaller ones exist for every k: counting the
\* smaller ones is injective, and there are as many counts as elements.
LEMMA AscendingSorts ==
  ASSUME NEW m \in Nat, NEW S \in SUBSET (1 .. m)
  PROVE  /\ Ascending(S) \in Seq(S)
         /\ ToSet(Ascending(S)) = S
         /\ \A j, k \in DOMAIN Ascending(S) : j < k => Ascending(S)[j] < Ascending(S)[k]
<1> DEFINE below(b) == {c \in S : c < b}
           rank(b) == Cardinality(below(b))
           count == Cardinality(S)
<1>0. S \subseteq Int
  OBVIOUS
<1>1. IsFiniteSet(S) /\ count \in Nat
  <2>1. IsFiniteSet(1 .. m)
    BY FS_Interval
  <2>2. IsFiniteSet(S)
    BY <2>1, FS_Subset
  <2> QED BY <2>2, FS_CardinalityType
<1>2. \A b \in S : IsFiniteSet(below(b)) /\ rank(b) \in Nat
  <2> SUFFICES ASSUME NEW b \in S PROVE IsFiniteSet(below(b)) /\ rank(b) \in Nat
    OBVIOUS
  <2>1. below(b) \in SUBSET S
    OBVIOUS
  <2> HIDE DEF below
  <2> QED BY <1>1, <2>1, FS_Subset, FS_CardinalityType
<1>3. \A b, c \in S : b < c => rank(b) < rank(c)
  <2> SUFFICES ASSUME NEW b \in S, NEW c \in S, b < c PROVE rank(b) < rank(c)
    OBVIOUS
  <2>1. below(b) \in SUBSET below(c) /\ b \in below(c) /\ b \notin below(b)
    <3>1. b \in Int /\ c \in Int
      BY <1>0
    <3>2. b \in below(c) /\ b \notin below(b)
      BY <3>1
    <3>3. ASSUME NEW d \in S, d < b PROVE d < c
      BY <1>0, <3>1, <3>3
    <3> QED BY <3>2, <3>3
  <2>2. IsFiniteSet(below(c)) /\ IsFiniteSet(below(b)) /\ rank(b) \in Nat /\ rank(c) \in Nat
    BY <1>2
  <2> HIDE DEF below
  <2>3. Cardinality(below(b)) <= Cardinality(below(c)) /\ Cardinality(below(b)) # Cardinality(below(c))
    BY <2>1, <2>2, FS_Subset
  <2> QED BY <2>2, <2>3
<1>4. \A b \in S : rank(b) < count
  <2> SUFFICES ASSUME NEW b \in S PROVE rank(b) < count
    OBVIOUS
  <2>1. below(b) \in SUBSET S /\ b \notin below(b)
    BY <1>0
  <2>2. rank(b) \in Nat
    BY <1>2
  <2> HIDE DEF below
  <2>3. Cardinality(below(b)) <= count /\ Cardinality(below(b)) # count
    BY <1>1, <2>1, FS_Subset
  <2> QED BY <1>1, <2>2, <2>3
<1> HIDE DEF below
<1>5. \A b, c \in S : rank(b) = rank(c) => b = c
  BY <1>2, <1>3
<1>6. \A k \in 1 .. count : \E b \in S : rank(b) = k - 1
  <2> DEFINE f == [b \in S |-> rank(b) + 1]
  <2>1. f \in [S -> 1 .. count]
    BY <1>1, <1>2, <1>4
  <2>2. IsInjective(f)
    BY <1>2, <1>5 DEF IsInjective
  <2>3. f \in Injection(S, 1 .. count)
    BY <2>1, <2>2 DEF Injection
  <2>4. IsFiniteSet(1 .. count) /\ Cardinality(1 .. count) = count
    BY <1>1, FS_Interval
  <2> HIDE DEF f
  <2>5. f \in Surjection(S, 1 .. count)
    BY <2>3, <2>4, FS_Injection
  <2>6. \A k \in 1 .. count : \E b \in S : f[b] = k
    BY <2>5 DEF Surjection
  <2> QED BY <2>6, <1>1, <1>2 DEF f
<1>7. Ascending(S) = [k \in 1 .. count |-> CHOOSE b \in S : rank(b) = k - 1]
  BY DEF Ascending, below
<1>8. \A k \in 1 .. count : Ascending(S)[k] \in S /\ rank(Ascending(S)[k]) = k - 1
  BY <1>6, <1>7
<1>9. DOMAIN Ascending(S) = 1 .. count
  BY <1>7
<1>10. Ascending(S) \in Seq(S)
  BY <1>1, <1>7, <1>8
<1> HIDE DEF count
<1>11. \A b \in S : \E k \in 1 .. count : Ascending(S)[k] = b
  <2> TAKE b \in S
  <2>1. rank(b) + 1 \in 1 .. count
    BY <1>1, <1>2, <1>4
  <2>2. rank(Ascending(S)[rank(b) + 1]) = rank(b) /\ Ascending(S)[rank(b) + 1] \in S
    BY <1>2, <1>8, <2>1
  <2> QED BY <2>1, <2>2, <1>5
<1>12. ToSet(Ascending(S)) = S
  BY <1>8, <1>9, <1>11 DEF ToSet
<1>13. \A j, k \in 1 .. count : j < k => Ascending(S)[j] < Ascending(S)[k]
  <2> SUFFICES ASSUME NEW j \in 1 .. count, NEW k \in 1 .. count, j < k
               PROVE  Ascending(S)[j] < Ascending(S)[k]
    OBVIOUS
  <2>1. PICK x \in S : x = Ascending(S)[j] /\ rank(x) = j - 1
    BY <1>8
  <2>2. PICK y \in S : y = Ascending(S)[k] /\ rank(y) = k - 1
    BY <1>8
  <2>3. ~(y < x) /\ x # y
    BY <1>1, <1>3, <2>1, <2>2
  <2> QED BY <2>1, <2>2, <2>3
<1> QED BY <1>9, <1>10, <1>12, <1>13

-----------------------------------------------------------------------------
(* The edges of a block.                                                   *)

\* What an edge may lead to before the copies; 0 is a label no block has.
Labels == 0 .. Terminal

\* A jump table loses its padding and keeps its labels.
LEMMA PaddingCut ==
  ASSUME NEW entries \in Seq(Blocks \cup {Missing, Padding})
  PROVE  UpToPadding(entries) \in Seq(Labels)
<1> DEFINE pad == {k \in DOMAIN entries : entries[k] = Padding}
<1>1. \A k \in 1 .. Len(entries) : entries[k] \in Labels \cup {Padding}
  BY NAssumption DEF Blocks, Missing, Labels, Terminal
<1>2. CASE pad = {}
  <2>1. \A k \in 1 .. Len(entries) : entries[k] \in Labels
    BY <1>1, <1>2
  <2>2. entries \in Seq(Labels)
    BY <2>1
  <2> QED BY <1>2, <2>2 DEF UpToPadding
<1>3. CASE pad # {}
  <2>1. pad \subseteq Nat
    OBVIOUS
  <2> DEFINE m == Min(pad)
  <2>2. m \in pad /\ \A y \in pad : m <= y
    BY <1>3, <2>1, MinPicked
  <2>3. UpToPadding(entries) = SubSeq(entries, 1, m - 1)
    BY <1>3 DEF UpToPadding
  <2> HIDE DEF m
  <2>4. m \in 1 .. Len(entries)
    BY <2>2
  <2>5. \A k \in 1 .. m - 1 : entries[k] \in Labels
    BY <1>1, <2>2, <2>4
  <2>6. /\ Len(SubSeq(entries, 1, m - 1)) = m - 1
        /\ \A k \in 1 .. m - 1 : SubSeq(entries, 1, m - 1)[k] = entries[k]
        /\ SubSeq(entries, 1, m - 1) \in Seq(Blocks \cup {Missing, Padding})
    BY <2>4
  <2>7. SubSeq(entries, 1, m - 1) \in Seq(Labels)
    BY <2>5, <2>6
  <2> QED BY <2>3, <2>7
<1> QED BY <1>2, <1>3

\* Edges as a function of what it depends on.
EdgesOf(shape, t, b) ==
  CASE shape.kind = "fall"   -> <<b + 1>>
    [] shape.kind = "return" -> <<>>
    [] shape.kind = "jump"   -> shape.targets
    [] shape.kind = "cond"   -> <<shape.targets[1], b + 1>>
    [] shape.kind = "list"   -> shape.targets
    [] shape.kind = "switch" -> UpToPadding(Tables[t])

\* The edges of every kind of block are labels, one for a block without a branch and
\* for a goto, none for a return.
LEMMA EdgesOfType ==
  ASSUME NEW shape \in Shapes, NEW b \in Blocks, NEW t,
         shape.kind = "switch" => t \in DOMAIN Tables
  PROVE  /\ EdgesOf(shape, t, b) \in Seq(Labels)
         /\ shape.kind \in {"fall", "jump"} => Len(EdgesOf(shape, t, b)) = 1
         /\ shape.kind = "return" => EdgesOf(shape, t, b) = <<>>
<1>1. /\ shape.kind \in {"fall", "return", "jump", "cond", "list", "switch"}
      /\ shape.targets \in Seq(Blocks \cup {Missing})
      /\ shape.kind \in {"jump", "cond"} => Len(shape.targets) = 1
  BY ShapesAssumption
<1>2. b + 1 \in Labels
  BY NAssumption DEF Blocks, Labels, Terminal
<1>3. \A x \in Blocks \cup {Missing} : x \in Labels
  BY NAssumption DEF Blocks, Missing, Labels, Terminal
<1>4. shape.targets \in Seq(Labels)
  BY <1>1, <1>3
<1>5. CASE shape.kind = "fall"
  BY <1>2, <1>5 DEF EdgesOf
<1>6. CASE shape.kind = "return"
  BY <1>6 DEF EdgesOf
<1>7. CASE shape.kind = "jump"
  BY <1>1, <1>4, <1>7 DEF EdgesOf
<1>8. CASE shape.kind = "cond"
  <2>1. shape.targets[1] \in Labels
    BY <1>1, <1>4, <1>8
  <2> QED BY <1>2, <1>8, <2>1 DEF EdgesOf
<1>9. CASE shape.kind = "list"
  BY <1>4, <1>9 DEF EdgesOf
<1>10. CASE shape.kind = "switch"
  <2>1. UpToPadding(Tables[t]) \in Seq(Labels)
    BY <1>10, PaddingCut, TablesAssumption
  <2> QED BY <1>10, <2>1 DEF EdgesOf
<1> QED BY <1>1, <1>5, <1>6, <1>7, <1>8, <1>9, <1>10

\* The same of Edges, and all of them count as ways to go on.
LEMMA EdgesType ==
  ASSUME GraphTypeOK, NEW b \in Blocks,
         blocks[b].kind = "switch" => table[b] \in DOMAIN Tables
  PROVE  /\ Edges(b) \in Seq(Labels)
         /\ blocks[b].kind \in {"fall", "jump"} => Len(Edges(b)) = 1
         /\ blocks[b].kind = "return" => Edges(b) = <<>>
         /\ Successors(b) = ToSet(Edges(b))
<1>1. Edges(b) = EdgesOf(blocks[b], table[b], b)
  BY DEF Edges, EdgesOf
<1>2. blocks[b] \in Shapes
  BY DEF GraphTypeOK
<1>3. Successors(b) = ToSet(Edges(b))
  BY TablesAssumption DEF Successors
<1> QED BY <1>1, <1>2, <1>3, EdgesOfType

\* A step that leaves the block and its table alone leaves its edges alone.
LEMMA EdgesKept ==
  ASSUME NEW b, blocks' = blocks, table'[b] = table[b]
  PROVE  Edges(b)' = Edges(b) /\ Successors(b)' = Successors(b)
<1>1. Edges(b)' = Edges(b)
  BY DEF Edges
<1> QED BY <1>1 DEF Successors

\* Nodes are made of blocks, and of the TerminalNode.
LEMMA NodeBlocksAreBlocks ==
  ASSUME GraphTypeOK
  PROVE  NodeBlocks \subseteq Blocks /\ HasNode \subseteq Blocks \cup {Terminal}
  BY DEF GraphTypeOK, NodeBlocks, HasNode, ToSet

\* Terminal is no block.
LEMMA TerminalFacts ==
  /\ Terminal \notin Blocks /\ Entry \in Blocks /\ Entry # Terminal /\ N \in Blocks
  /\ Terminal \in Nat /\ \A b \in Blocks : b < Terminal /\ b \in Nat
  BY NAssumption DEF Terminal, Entry, Blocks

-----------------------------------------------------------------------------
(* The walk.                                                               *)

\* The block a call is in has a node, and its next edge is one of its edges.
LEMMA TopFacts ==
  ASSUME GraphTypeOK, WalkInv, stack # <<>>
  PROVE  /\ top \in Blocks /\ top \in NodeBlocks /\ top \in ToSet(stack)
         /\ top = stack[Len(stack)] /\ Len(stack) \in Nat \ {0}
         /\ Edges(top) \in Seq(Labels)
         /\ Successors(top) = ToSet(Edges(top))
         /\ Len(succ[top]) \in Nat /\ Len(succ[top]) <= Len(Edges(top))
         /\ ~Finished => /\ child = Edges(top)[Len(succ[top]) + 1]
                         /\ child \in Labels /\ child \in Successors(top)
                         /\ Len(succ[top]) + 1 <= Len(Edges(top))
<1>1. /\ top \in Blocks /\ top \in ToSet(stack) /\ top = stack[Len(stack)]
      /\ Len(stack) \in Nat \ {0}
  BY FrontSet DEF GraphTypeOK, top, Last
<1>2. top \in NodeBlocks
  BY <1>1, TerminalFacts DEF WalkInv, StackOK, NodeBlocks
<1>3. blocks[top].kind = "switch" => table[top] \in DOMAIN Tables
  BY <1>2 DEF WalkInv, NodesOK
<1>4. Edges(top) \in Seq(Labels) /\ Successors(top) = ToSet(Edges(top))
  BY <1>1, <1>3, EdgesType
<1>5. Len(succ[top]) <= Len(Edges(top))
  BY <1>2 DEF WalkInv, EdgesOK
<1>6. Len(succ[top]) \in Nat
  <2>1. succ[top] \in Seq(Nat)
    BY <1>1 DEF GraphTypeOK
  <2> QED BY <2>1
<1>7. ASSUME ~Finished
      PROVE  /\ child = Edges(top)[Len(succ[top]) + 1]
             /\ child \in Labels /\ child \in Successors(top)
             /\ Len(succ[top]) + 1 <= Len(Edges(top))
  <2>1. child = Edges(top)[Len(succ[top]) + 1]
    BY DEF child
  <2>2. Len(succ[top]) + 1 \in 1 .. Len(Edges(top))
    BY <1>4, <1>5, <1>6, <1>7 DEF Finished
  <2>3. child \in Labels /\ child \in ToSet(Edges(top))
    BY <1>4, <2>1, <2>2 DEF ToSet
  <2> QED BY <1>4, <2>1, <2>2, <2>3
<1> QED BY <1>1, <1>2, <1>4, <1>5, <1>6, <1>7

\* A new node: its block is reachable because the call came along an edge, and its
\* table only adds ways to go on.
LEMMA EnterStep ==
  ASSUME GraphTypeOK, WalkInv, EnterBlock
  PROVE  GraphTypeOK' /\ WalkInv'
<1> DEFINE path == Append(stack, child)
<1>1. /\ child # Missing /\ ~IsNode(child)
      /\ ~CannotEnter(child, path)
      /\ nodes' = Append(nodes, child)
      /\ stack' = path
      /\ table' = [table EXCEPT ![child] =
             IF blocks[child].kind = "switch" THEN CHOOSE t \in JumpTables(path) : TRUE
             ELSE NoTable]
      /\ UNCHANGED <<blocks, trivial, succ, dupVars, pc>>
      /\ stack # <<>> => ~Finished
  BY DEF EnterBlock, Calling
<1>2. /\ nodes \in Seq(Blocks \cup {Terminal}) /\ stack \in Seq(Blocks)
      /\ blocks \in [Blocks -> Shapes]
      /\ succ \in [Blocks -> Seq(Nat)]
      /\ table \in [Blocks -> DOMAIN Tables \cup {NoTable}]
  BY DEF GraphTypeOK
<1>3. child \notin HasNode
  BY <1>1, <1>2, ContainsIsMember DEF IsNode, HasNode
<1>4. child \in Blocks /\ \A S \in ClosedSets : child \in S
  <2>1. CASE stack = <<>>
    <3>1. child = Entry
      BY <2>1 DEF child
    <3> QED BY <3>1, TerminalFacts DEF ClosedSets
  <2>2. CASE stack # <<>>
    <3>1. child \in Labels /\ child \in Successors(top) /\ top \in NodeBlocks /\ top \in Blocks
      BY <1>1, <2>2, TopFacts
    <3>2. child # Terminal
      BY <1>3 DEF WalkInv, NodesOK
    <3>3. child \in Blocks
      BY <1>1, <3>1, <3>2, NAssumption DEF Labels, Missing, Blocks, Terminal
    <3>4. ASSUME NEW S \in ClosedSets PROVE child \in S
      <4>1. top \in S
        BY <3>1 DEF WalkInv, NodesOK
      <4> QED BY <3>1, <4>1 DEF ClosedSets
    <3> QED BY <3>3, <3>4
  <2> QED BY <2>1, <2>2
<1>5. PICK c \in Blocks : c = child
  BY <1>4
<1>6. /\ HasNode' = HasNode \cup {c}
      /\ NodeBlocks' = NodeBlocks \cup {c}
      /\ IsInjective(nodes')
      /\ nodes' \in Seq(Blocks \cup {Terminal})
  <2>1. nodes' = Append(nodes, c) /\ c \in Blocks \cup {Terminal} /\ c \notin ToSet(nodes)
    BY <1>1, <1>3, <1>5 DEF HasNode
  <2>2. IsInjective(nodes)
    BY DEF WalkInv, NodesOK
  <2>3. ToSet(nodes') = ToSet(nodes) \cup {c} /\ IsInjective(nodes')
    BY <1>2, <2>1, <2>2, AppendSet
  <2> QED BY <1>2, <2>1, <2>3, TerminalFacts DEF HasNode, NodeBlocks
<1>7. /\ ToSet(stack') = ToSet(stack) \cup {c}
      /\ IsInjective(stack')
      /\ stack' \in Seq(Blocks)
      /\ Len(stack') = Len(stack) + 1
      /\ \A k \in 1 .. Len(stack) : stack'[k] = stack[k]
      /\ stack'[Len(stack) + 1] = c
  <2>1. stack' = Append(stack, c) /\ c \notin ToSet(stack) /\ IsInjective(stack)
    BY <1>1, <1>3, <1>5 DEF WalkInv, StackOK
  <2>2. ToSet(stack') = ToSet(stack) \cup {c} /\ IsInjective(stack')
    BY <1>2, <2>1, AppendSet
  <2> QED BY <1>2, <2>1, <2>2
<1>8. /\ table'[c] \in DOMAIN Tables \cup {NoTable}
      /\ blocks[c].kind = "switch" => table'[c] \in DOMAIN Tables
      /\ blocks[c].kind # "switch" => table'[c] = NoTable
      /\ \A b \in Blocks \ {c} : table'[b] = table[b]
      /\ table' \in [Blocks -> DOMAIN Tables \cup {NoTable}]
  <2> DEFINE t == IF blocks[c].kind = "switch" THEN CHOOSE u \in JumpTables(path) : TRUE
                  ELSE NoTable
  <2>1. blocks[c].kind = "switch" => t \in DOMAIN Tables
    <3> SUFFICES ASSUME blocks[c].kind = "switch" PROVE t \in DOMAIN Tables
      OBVIOUS
    <3>1. PICK u \in DOMAIN Tables : JumpTables(path) = {u}
      BY <1>1, <1>5 DEF CannotEnter
    <3> QED BY <3>1
  <2>2. blocks[c].kind # "switch" => t = NoTable
    OBVIOUS
  <2>3. table' = [table EXCEPT ![c] = t]
    BY <1>1, <1>5
  <2> HIDE DEF t
  <2> QED BY <1>2, <2>1, <2>2, <2>3
<1>9. \A b \in Blocks \ {c} : Edges(b)' = Edges(b) /\ Successors(b)' = Successors(b)
  BY <1>1, <1>8, EdgesKept
<1>10. Edges(c)' \in Seq(Labels)
  <2>1. Edges(c)' = EdgesOf(blocks[c], table'[c], c)
    BY <1>1 DEF Edges, EdgesOf
  <2>2. blocks[c] \in Shapes
    BY <1>2
  <2> QED BY <1>8, <2>1, <2>2, EdgesOfType
<1>11. succ[c] = <<>> /\ table[c] = NoTable
  BY <1>3, <1>5 DEF WalkInv, NodesOK
<1>12. GraphTypeOK'
  BY <1>1, <1>6, <1>7, <1>8 DEF GraphTypeOK, dupVars, LastShapes
<1>13. NodesOK'
  <2>1. Terminal' = Terminal /\ Terminal \in HasNode'
    BY <1>6 DEF WalkInv, NodesOK, Terminal
  <2>2. ASSUME NEW b \in NodeBlocks', blocks'[b].kind = "switch"
        PROVE  table'[b] \in DOMAIN Tables
    <3>1. CASE b = c
      BY <1>1, <1>8, <2>2, <3>1
    <3>2. CASE b # c
      <4>1. b \in NodeBlocks /\ b \in Blocks
        BY <1>6, <3>2, NodeBlocksAreBlocks
      <4> QED BY <1>1, <1>8, <2>2, <3>2, <4>1 DEF WalkInv, NodesOK
    <3> QED BY <3>1, <3>2
  <2>3. ASSUME NEW b \in Blocks \ HasNode'
        PROVE  table'[b] = NoTable /\ succ'[b] = <<>>
    <3>1. b \in Blocks \ HasNode /\ b # c
      BY <1>6
    <3> QED BY <1>1, <1>8, <3>1 DEF WalkInv, NodesOK
  <2>4. ASSUME NEW S \in ClosedSets'
        PROVE  NodeBlocks' \subseteq S
    <3>1. /\ S \in SUBSET (Blocks \cup {Terminal}) /\ Entry \in S
          /\ \A b \in S \cap Blocks : Successors(b)' \subseteq S
      BY <2>4 DEF ClosedSets, Blocks, Terminal, Entry
    <3>2. Successors(c) \subseteq Successors(c)'
      <4>1. CASE blocks[c].kind = "switch"
        BY <1>11, <4>1 DEF Successors
      <4>2. CASE blocks[c].kind # "switch"
        BY <1>1, <1>8, <1>11, <4>2, EdgesKept
      <4> QED BY <4>1, <4>2
    <3>3. \A b \in S \cap Blocks : Successors(b) \subseteq S
      BY <1>9, <3>1, <3>2
    <3>4. S \in ClosedSets
      BY <3>1, <3>3 DEF ClosedSets
    <3> QED BY <1>4, <1>5, <1>6, <3>4 DEF WalkInv, NodesOK
  <2> QED BY <1>6, <2>1, <2>2, <2>3, <2>4 DEF NodesOK, Blocks
<1>14. StackOK'
  <2>1. ToSet(stack') \subseteq HasNode'
    BY <1>6, <1>7 DEF WalkInv, StackOK
  <2>2. ASSUME NEW k \in 1 .. Len(stack') - 1, NEW b \in Blocks, stack'[k] = b
        PROVE  /\ Len(succ'[b]) < Len(Edges(b)')
               /\ stack'[k + 1] = Edges(b)'[Len(succ'[b]) + 1]
    <3>1. Len(stack) \in Nat /\ k \in 1 .. Len(stack)
      BY <1>2, <1>7
    <3>2. b = stack[k]
      BY <1>7, <2>2, <3>1
    <3>3. b # c
      <4>1. b \in ToSet(stack)
        BY <1>2, <3>1, <3>2 DEF ToSet
      <4> QED BY <1>3, <1>5, <4>1 DEF WalkInv, StackOK
    <3>4. Edges(b)' = Edges(b) /\ succ' = succ
      BY <1>1, <1>9, <3>3
    <3>5. Len(succ[b]) < Len(Edges(b)) /\ stack'[k + 1] = Edges(b)[Len(succ[b]) + 1]
      <4>1. CASE k < Len(stack)
        BY <1>7, <3>1, <3>2, <4>1 DEF WalkInv, StackOK
      <4>2. CASE k = Len(stack)
        <5>1. b = top /\ stack # <<>>
          BY <3>1, <3>2, <4>2 DEF top, Last
        <5>2. /\ child = Edges(top)[Len(succ[top]) + 1]
              /\ Len(succ[top]) + 1 <= Len(Edges(top))
              /\ Len(succ[top]) \in Nat /\ Edges(top) \in Seq(Labels)
          BY <1>1, <5>1, TopFacts
        <5> QED BY <1>5, <1>7, <4>2, <5>1, <5>2
      <4> QED BY <3>1, <4>1, <4>2
    <3> QED BY <3>4, <3>5
  <2> QED BY <1>7, <2>1, <2>2 DEF StackOK, Blocks
<1>15. EdgesOK'
  <2> SUFFICES ASSUME NEW b \in NodeBlocks'
               PROVE  /\ Len(succ'[b]) <= Len(Edges(b)')
                      /\ \A k \in 1 .. Len(succ'[b]) :
                           succ'[b][k] = Edges(b)'[k] /\ succ'[b][k] \in HasNode'
                      /\ b \notin ToSet(stack') => Len(succ'[b]) = Len(Edges(b)')
    BY DEF EdgesOK
  <2>1. CASE b = c
    <3>1. succ'[b] = <<>>
      BY <1>1, <1>11, <2>1
    <3>2. Edges(b)' \in Seq(Labels)
      BY <1>10, <2>1
    <3> QED BY <1>7, <2>1, <3>1, <3>2
  <2>2. CASE b # c
    <3>1. b \in NodeBlocks /\ b \in Blocks
      BY <1>6, <2>2, NodeBlocksAreBlocks
    <3>2. succ' = succ /\ Edges(b)' = Edges(b)
      BY <1>1, <1>9, <2>2, <3>1
    <3> QED BY <1>6, <1>7, <3>1, <3>2 DEF WalkInv, EdgesOK
  <2> QED BY <2>1, <2>2
<1> QED BY <1>1, <1>12, <1>13, <1>14, <1>15 DEF WalkInv, dupVars

\* Steps of the walk that make no node keep what NodesOK says.
LEMMA NodesKept ==
  ASSUME GraphTypeOK, NodesOK, UNCHANGED <<blocks, nodes, table>>,
         \A b \in Blocks \ HasNode : succ'[b] = succ[b]
  PROVE  /\ NodesOK'
         /\ HasNode' = HasNode /\ NodeBlocks' = NodeBlocks
         /\ \A b : Edges(b)' = Edges(b) /\ Successors(b)' = Successors(b)
<1>1. HasNode' = HasNode /\ NodeBlocks' = NodeBlocks
  BY DEF HasNode, NodeBlocks, Terminal
<1>2. \A b : Edges(b)' = Edges(b) /\ Successors(b)' = Successors(b)
  BY EdgesKept
<1>3. ClosedSets' = ClosedSets
  <2>1. ASSUME NEW S
        PROVE  S \in ClosedSets' <=> S \in ClosedSets
    BY <1>2 DEF ClosedSets, Blocks, Entry, Terminal
  <2>2. ClosedSets' \subseteq SUBSET (Blocks \cup {Terminal})
    BY DEF ClosedSets, Blocks, Terminal
  <2> QED BY <2>1
<1>4. IsInjective(nodes') /\ Terminal \in HasNode'
  BY <1>1 DEF NodesOK
<1>5. \A b \in NodeBlocks' : blocks'[b].kind = "switch" => table'[b] \in DOMAIN Tables
  BY <1>1 DEF NodesOK
<1>6. \A b \in Blocks \ HasNode' : table'[b] = NoTable /\ succ'[b] = <<>>
  BY <1>1 DEF NodesOK
<1>7. \A S \in ClosedSets' : NodeBlocks' \subseteq S
  BY <1>1, <1>3 DEF NodesOK
<1> QED BY <1>1, <1>2, <1>4, <1>5, <1>6, <1>7 DEF NodesOK, Blocks, Terminal

\* Storing a node in the next edge of a block whose call is on the stack, while
\* only finished calls leave the stack.
LEMMA EdgeFilled ==
  ASSUME GraphTypeOK, NodesOK, EdgesOK, UNCHANGED <<blocks, nodes, table>>,
         NEW p \in NodeBlocks, NEW x \in HasNode,
         Len(succ[p]) < Len(Edges(p)), x = Edges(p)[Len(succ[p]) + 1],
         succ' = [succ EXCEPT ![p] = Append(succ[p], x)],
         p \in ToSet(stack'),
         \A b \in ToSet(stack) : b \in ToSet(stack') \/ Len(succ[b]) = Len(Edges(b))
  PROVE  /\ NodesOK' /\ EdgesOK' /\ succ' \in [Blocks -> Seq(Nat)]
         /\ \A b \in Blocks \ {p} : succ'[b] = succ[b]
<1>1. p \in Blocks /\ succ \in [Blocks -> Seq(Nat)] /\ x \in Nat
  BY NodeBlocksAreBlocks, TerminalFacts DEF GraphTypeOK
<1>2. succ[p] \in Seq(Nat)
  BY <1>1
<1>3. /\ \A b \in Blocks \ {p} : succ'[b] = succ[b]
      /\ succ'[p] = Append(succ[p], x)
      /\ succ' \in [Blocks -> Seq(Nat)]
  BY <1>1, <1>2
<1>4. p \in HasNode
  BY DEF NodeBlocks
<1>5. /\ NodesOK'
      /\ HasNode' = HasNode /\ NodeBlocks' = NodeBlocks
      /\ \A b : Edges(b)' = Edges(b)
  BY <1>3, <1>4, NodesKept
<1>6. EdgesOK'
  <2> SUFFICES ASSUME NEW b \in NodeBlocks
               PROVE  /\ Len(succ'[b]) <= Len(Edges(b))
                      /\ \A k \in 1 .. Len(succ'[b]) :
                           succ'[b][k] = Edges(b)[k] /\ succ'[b][k] \in HasNode
                      /\ b \notin ToSet(stack') => Len(succ'[b]) = Len(Edges(b))
    BY <1>5 DEF EdgesOK
  <2>1. /\ Len(succ[b]) <= Len(Edges(b))
        /\ \A k \in 1 .. Len(succ[b]) : succ[b][k] = Edges(b)[k] /\ succ[b][k] \in HasNode
        /\ b \notin ToSet(stack) => Len(succ[b]) = Len(Edges(b))
    BY DEF EdgesOK
  <2>2. CASE b = p
    <3>1. /\ Len(succ'[b]) = Len(succ[p]) + 1 /\ Len(succ[p]) \in Nat
          /\ \A k \in 1 .. Len(succ[p]) : succ'[b][k] = succ[p][k]
          /\ succ'[b][Len(succ[p]) + 1] = x
      BY <1>2, <1>3, <2>2
    <3>2. Edges(p) \in Seq(Labels)
      BY <1>1, EdgesType DEF NodesOK
    <3>3. Len(succ'[b]) <= Len(Edges(b))
      BY <2>2, <3>1, <3>2
    <3>4. \A k \in 1 .. Len(succ'[b]) : succ'[b][k] = Edges(b)[k] /\ succ'[b][k] \in HasNode
      BY <2>1, <2>2, <3>1
    <3> QED BY <2>2, <3>3, <3>4
  <2>3. CASE b # p
    <3>1. succ'[b] = succ[b]
      BY <1>3, <2>3, NodeBlocksAreBlocks
    <3> QED BY <2>1, <3>1
  <2> QED BY <2>2, <2>3
<1> QED BY <1>3, <1>5, <1>6

\* An edge to a block that has a node already.
LEMMA KnownStep ==
  ASSUME GraphTypeOK, WalkInv, KnownBlock
  PROVE  GraphTypeOK' /\ WalkInv'
<1>1. /\ IsNode(child)
      /\ succ' = [succ EXCEPT ![top] = Append(succ[top], child)]
      /\ UNCHANGED <<blocks, trivial, nodes, stack, table, dupVars, pc>>
      /\ stack # <<>> => ~Finished
      /\ stack # <<>>
  BY DEF KnownBlock, Calling, child
<1>2. /\ top \in NodeBlocks /\ top \in Blocks /\ top \in ToSet(stack) /\ top = stack[Len(stack)]
      /\ child = Edges(top)[Len(succ[top]) + 1]
      /\ Len(succ[top]) + 1 <= Len(Edges(top)) /\ Len(succ[top]) \in Nat
      /\ Edges(top) \in Seq(Labels)
  BY <1>1, TopFacts
<1>3. child \in HasNode
  BY <1>1, ContainsIsMember DEF IsNode, HasNode, GraphTypeOK
<1>4. PICK p \in NodeBlocks : p = top
  BY <1>2
<1>5. PICK x \in HasNode : x = child
  BY <1>3
<1>6. /\ Len(succ[p]) < Len(Edges(p)) /\ x = Edges(p)[Len(succ[p]) + 1]
      /\ succ' = [succ EXCEPT ![p] = Append(succ[p], x)]
      /\ p \in ToSet(stack')
      /\ \A b \in ToSet(stack) : b \in ToSet(stack')
  BY <1>1, <1>2, <1>4, <1>5
<1>7. /\ NodesOK' /\ EdgesOK' /\ succ' \in [Blocks -> Seq(Nat)]
      /\ \A b \in Blocks \ {p} : succ'[b] = succ[b]
  BY <1>1, <1>6, EdgeFilled DEF WalkInv
<1>8. GraphTypeOK'
  BY <1>1, <1>7 DEF GraphTypeOK, dupVars, LastShapes
<1>9. StackOK'
  <2>1. IsInjective(stack') /\ ToSet(stack') \subseteq HasNode'
    BY <1>1 DEF WalkInv, StackOK, HasNode
  <2>2. ASSUME NEW k \in 1 .. Len(stack') - 1, NEW b \in Blocks, stack'[k] = b
        PROVE  /\ Len(succ'[b]) < Len(Edges(b)')
               /\ stack'[k + 1] = Edges(b)'[Len(succ'[b]) + 1]
    <3>1. k \in 1 .. Len(stack) - 1 /\ stack[k] = b /\ stack \in Seq(Blocks)
      BY <1>1, <2>2 DEF GraphTypeOK
    <3>2. b # top
      BY <1>2, <3>1 DEF WalkInv, StackOK, IsInjective
    <3>3. succ'[b] = succ[b] /\ Edges(b)' = Edges(b)
      BY <1>1, <1>4, <1>7, <3>2, EdgesKept
    <3> QED BY <1>1, <3>1, <3>3 DEF WalkInv, StackOK
  <2> QED BY <2>1, <2>2 DEF StackOK, Blocks
<1> QED BY <1>1, <1>7, <1>8, <1>9 DEF WalkInv, dupVars

\* A call that returns has filled in all its edges, and its caller one more.
LEMMA ReturnStep ==
  ASSUME GraphTypeOK, WalkInv, ReturnNode
  PROVE  GraphTypeOK' /\ WalkInv'
<1>1. /\ stack # <<>> /\ Len(succ[top]) = Len(Edges(top))
      /\ stack' = Front(stack)
      /\ succ' = IF Len(stack) = 1 THEN succ
                 ELSE [succ EXCEPT ![stack[Len(stack) - 1]] = Append(@, top)]
      /\ UNCHANGED <<blocks, trivial, nodes, table, dupVars, pc>>
  BY DEF ReturnNode, Finished
<1>2. /\ top \in NodeBlocks /\ top \in Blocks /\ top \in ToSet(stack) /\ top = stack[Len(stack)]
      /\ Edges(top) \in Seq(Labels) /\ Len(stack) \in Nat \ {0}
  BY <1>1, TopFacts
<1>3. /\ stack \in Seq(Blocks) /\ stack' \in Seq(Blocks)
      /\ Len(stack') = Len(stack) - 1
      /\ \A k \in 1 .. Len(stack) - 1 : stack'[k] = stack[k]
      /\ ToSet(stack) = ToSet(stack') \cup {top}
      /\ IsInjective(stack')
  <2>1. stack \in Seq(Blocks) /\ IsInjective(stack)
    BY DEF GraphTypeOK, WalkInv, StackOK
  <2> QED BY <1>1, <2>1, FrontSet DEF top
<1>4. IsInjective(stack)
  BY DEF WalkInv, StackOK
<1>5. CASE Len(stack) = 1
  <2>1. succ' = succ
    BY <1>1, <1>5
  <2>2. /\ NodesOK'
        /\ HasNode' = HasNode /\ NodeBlocks' = NodeBlocks
        /\ \A b : Edges(b)' = Edges(b)
    BY <1>1, <2>1, NodesKept DEF WalkInv
  <2>3. EdgesOK'
    <3> SUFFICES ASSUME NEW b \in NodeBlocks
                 PROVE  /\ Len(succ[b]) <= Len(Edges(b))
                        /\ \A k \in 1 .. Len(succ[b]) :
                             succ[b][k] = Edges(b)[k] /\ succ[b][k] \in HasNode
                        /\ b \notin ToSet(stack') => Len(succ[b]) = Len(Edges(b))
      BY <2>1, <2>2 DEF EdgesOK
    <3> QED BY <1>1, <1>3 DEF WalkInv, EdgesOK
  <2>4. ToSet(stack') \subseteq HasNode'
    BY <1>3, <2>2 DEF WalkInv, StackOK
  <2>5. StackOK'
    BY <1>3, <1>5, <2>4 DEF StackOK
  <2>6. GraphTypeOK'
    BY <1>1, <1>3, <2>1 DEF GraphTypeOK, dupVars, LastShapes
  <2> QED BY <1>1, <2>2, <2>3, <2>5, <2>6 DEF WalkInv, dupVars
<1>6. CASE Len(stack) # 1
  <2>1. PICK p \in Blocks : p = stack[Len(stack) - 1]
    BY <1>2, <1>3, <1>6
  <2>2. p \in ToSet(stack') /\ p \in ToSet(stack) /\ p # top
    <3>1. Len(stack) - 1 \in DOMAIN stack' /\ Len(stack) - 1 \in DOMAIN stack
      BY <1>2, <1>3, <1>6
    <3>2. stack'[Len(stack) - 1] = p
      BY <1>2, <1>3, <1>6, <2>1
    <3>3. p # top
      <4>1. Len(stack) \in DOMAIN stack /\ Len(stack) - 1 # Len(stack)
        BY <1>2, <1>3
      <4> QED BY <1>2, <1>4, <2>1, <3>1, <4>1 DEF IsInjective
    <3> QED BY <2>1, <3>1, <3>2, <3>3 DEF ToSet
  <2>3. p \in NodeBlocks /\ top \in HasNode
    BY <1>2, <2>2, TerminalFacts DEF WalkInv, StackOK, NodeBlocks
  <2>4. PICK x \in HasNode : x = top
    BY <2>3
  <2>5. Len(succ[p]) < Len(Edges(p)) /\ x = Edges(p)[Len(succ[p]) + 1]
    <3>1. Len(stack) - 1 \in 1 .. Len(stack) - 1 /\ (Len(stack) - 1) + 1 = Len(stack)
      <4>1. Len(stack) \in Nat /\ Len(stack) > 1
        BY <1>1, <1>3, <1>6
      <4> QED BY <4>1
    <3> QED BY <1>2, <2>1, <2>4, <3>1 DEF WalkInv, StackOK
  <2>6. succ' = [succ EXCEPT ![p] = Append(succ[p], x)]
    BY <1>1, <1>6, <2>1, <2>4
  <2>7. \A b \in ToSet(stack) : b \in ToSet(stack') \/ Len(succ[b]) = Len(Edges(b))
    BY <1>1, <1>3
  <2>8. /\ NodesOK' /\ EdgesOK' /\ succ' \in [Blocks -> Seq(Nat)]
        /\ \A b \in Blocks \ {p} : succ'[b] = succ[b]
    BY <1>1, <2>2, <2>3, <2>5, <2>6, <2>7, EdgeFilled DEF WalkInv
  <2>9. GraphTypeOK'
    BY <1>1, <1>3, <2>8 DEF GraphTypeOK, dupVars, LastShapes
  <2>10. StackOK'
    <3>1. ToSet(stack') \subseteq HasNode'
      BY <1>1, <1>3 DEF WalkInv, StackOK, HasNode
    <3>2. ASSUME NEW k \in 1 .. Len(stack') - 1, NEW b \in Blocks, stack'[k] = b
          PROVE  /\ Len(succ'[b]) < Len(Edges(b)')
                 /\ stack'[k + 1] = Edges(b)'[Len(succ'[b]) + 1]
      <4>1. /\ k \in 1 .. Len(stack) - 1 /\ k + 1 \in 1 .. Len(stack) - 1
            /\ stack[k] = b /\ stack'[k + 1] = stack[k + 1] /\ k # Len(stack) - 1
        BY <1>2, <1>3, <3>2
      <4>2. b # p
        BY <1>2, <1>3, <1>4, <2>1, <4>1 DEF IsInjective
      <4>3. succ'[b] = succ[b] /\ Edges(b)' = Edges(b)
        BY <1>1, <2>8, <4>2, EdgesKept
      <4> QED BY <4>1, <4>3 DEF WalkInv, StackOK
    <3> QED BY <1>3, <3>1, <3>2 DEF StackOK, Blocks
  <2> QED BY <1>1, <2>8, <2>9, <2>10 DEF WalkInv, dupVars
<1> QED BY <1>5, <1>6

\* A DecompFailure leaves the half-built graph as it is.
LEMMA FailureStep ==
  ASSUME GraphTypeOK, WalkInv, DecompFailure
  PROVE  GraphTypeOK' /\ WalkInv'
<1>1. UNCHANGED <<blocks, trivial, nodes, stack, succ, table, list, i, copies, queue, reachable_nodes>>
      /\ pc' = "failed"
  BY DEF DecompFailure, walkVars, dupVars
<1>2. GraphTypeOK'
  BY <1>1 DEF GraphTypeOK, LastShapes
<1>3. /\ NodesOK'
      /\ HasNode' = HasNode /\ NodeBlocks' = NodeBlocks
      /\ \A b : Edges(b)' = Edges(b)
  BY <1>1, NodesKept DEF WalkInv
<1>4. StackOK' /\ EdgesOK'
  BY <1>1, <1>3 DEF WalkInv, StackOK, EdgesOK, Blocks
<1> QED BY <1>1, <1>2, <1>3, <1>4 DEF WalkInv

\* When the outermost call has returned, the nodes are closed under the edges,
\* so that they are all that is reachable.
LEMMA WalkEnds ==
  ASSUME GraphTypeOK, WalkInv, stack = <<>>, IsNode(Entry)
  PROVE  /\ Walked
         /\ \A b \in NodeBlocks : succ[b] = Edges(b)
<1>1. Entry \in HasNode
  BY ContainsIsMember DEF IsNode, HasNode, GraphTypeOK
<1>2. ASSUME NEW b \in NodeBlocks
      PROVE  /\ succ[b] = Edges(b)
             /\ Edges(b) \in Seq(HasNode)
             /\ Successors(b) = ToSet(Edges(b))
  <2>1. b \in Blocks
    BY NodeBlocksAreBlocks
  <2>2. Edges(b) \in Seq(Labels) /\ Successors(b) = ToSet(Edges(b))
    BY <2>1, EdgesType DEF WalkInv, NodesOK
  <2>3. succ[b] \in Seq(Nat)
    BY <2>1 DEF GraphTypeOK
  <2>4. ToSet(stack) = {}
    BY DEF ToSet
  <2>5. /\ Len(succ[b]) = Len(Edges(b))
        /\ \A k \in 1 .. Len(succ[b]) : succ[b][k] = Edges(b)[k] /\ succ[b][k] \in HasNode
    BY <2>4 DEF WalkInv, EdgesOK
  <2>6. succ[b] = Edges(b)
    BY <2>2, <2>3, <2>5
  <2>7. Edges(b) \in Seq(HasNode)
    BY <2>2, <2>5
  <2> QED BY <2>2, <2>6, <2>7
<1>3. HasNode \in ClosedSets
  <2>1. \A b \in HasNode \cap Blocks : b \in NodeBlocks
    BY TerminalFacts DEF NodeBlocks
  <2>2. \A b \in NodeBlocks : ToSet(Edges(b)) \subseteq HasNode
    BY <1>2 DEF ToSet
  <2>3. \A b \in HasNode \cap Blocks : Successors(b) \subseteq HasNode
    BY <1>2, <2>1, <2>2
  <2> QED BY <1>1, <2>3, NodeBlocksAreBlocks DEF ClosedSets
<1>4. Reachable = {b \in Blocks : \A S \in ClosedSets : b \in S}
  BY DEF Reachable, ClosedSets
<1>5. HasNode = Reachable \cup {Terminal}
  <2>1. Terminal \in HasNode
    BY DEF WalkInv, NodesOK
  <2>2. Reachable \subseteq HasNode
    BY <1>3, <1>4
  <2>3. NodeBlocks \subseteq Reachable
    BY <1>4, NodeBlocksAreBlocks DEF WalkInv, NodesOK
  <2> QED BY <2>1, <2>2, <2>3 DEF NodeBlocks
<1> QED BY <1>1, <1>2, <1>5 DEF Walked, WalkInv, NodesOK

\* What later steps leave alone.
LEMMA StaticKept ==
  ASSUME UNCHANGED <<blocks, trivial, nodes, stack, table>>
  PROVE  /\ HasNode' = HasNode /\ NodeBlocks' = NodeBlocks
         /\ \A b : Edges(b)' = Edges(b)
         /\ FinalBlock' = FinalBlock
         /\ IsFragment' = IsFragment
         /\ \A b : IsBasic(b)' = IsBasic(b) /\ IsReturn(b)' = IsReturn(b)
         /\ \A b : Premature(b)' <=> Premature(b)
         /\ Walked => Walked'
<1>1. HasNode' = HasNode /\ NodeBlocks' = NodeBlocks
  BY DEF HasNode, NodeBlocks, Terminal
<1>2. \A b : Edges(b)' = Edges(b) /\ Successors(b)' = Successors(b)
  BY EdgesKept
<1>3. FinalBlock' = FinalBlock
  BY DEF FinalBlock, Terminal
<1>4. IsFragment' = IsFragment /\ \A b : IsBasic(b)' = IsBasic(b) /\ IsReturn(b)' = IsReturn(b)
  BY DEF IsFragment, IsBasic, IsReturn, Terminal, Blocks
<1>5. \A b : Premature(b)' <=> Premature(b)
  BY <1>1, <1>2, <1>3, <1>4 DEF Premature
<1>6. Reachable' = Reachable
  <2> DEFINE Closed == {S \in SUBSET (Blocks \cup {Terminal}) :
                         Entry \in S /\ \A b \in S \cap Blocks : Successors(b) \subseteq S}
  <2>1. Closed' = Closed
    BY <1>2 DEF Blocks, Terminal, Entry
  <2>2. Reachable = {b \in Blocks : \A S \in Closed : b \in S}
    BY DEF Reachable
  <2>3. Reachable' = {b \in Blocks : \A S \in Closed' : b \in S}
    BY DEF Reachable, Blocks
  <2> HIDE DEF Closed
  <2> QED BY <2>1, <2>2, <2>3
<1>7. Walked => Walked'
  BY <1>1, <1>2, <1>6 DEF Walked, Terminal
<1> QED BY <1>1, <1>2, <1>3, <1>4, <1>5, <1>7

\* nodes.sort: everything that has a node is listed.
LEMMA SortStep ==
  ASSUME GraphTypeOK, WalkInv, SortNodes
  PROVE  /\ GraphTypeOK' /\ Walked'
         /\ \/ pc' = "duplicate" /\ DupInv'
            \/ pc' = "done" /\ FragmentInv'
<1>1. /\ stack = <<>> /\ IsNode(Entry)
      /\ list' = Ascending(HasNode)
      /\ pc' = IF IsFragment THEN "done" ELSE "duplicate"
      /\ UNCHANGED <<blocks, trivial, nodes, stack, succ, table, i, copies, queue, reachable_nodes>>
  BY DEF SortNodes, walkVars, HasNode
<1>2. Walked /\ \A b \in NodeBlocks : succ[b] = Edges(b)
  BY <1>1, WalkEnds
<1>3. /\ HasNode' = HasNode /\ NodeBlocks' = NodeBlocks
      /\ \A b : Edges(b)' = Edges(b)
      /\ IsFragment' = IsFragment
      /\ Walked'
  BY <1>1, <1>2, StaticKept
<1>4. HasNode \in SUBSET (1 .. Terminal) /\ Terminal \in Nat
  BY NodeBlocksAreBlocks, NAssumption DEF Blocks, Terminal
<1>5. /\ list' \in Seq(HasNode)
      /\ ToSet(list') = HasNode
      /\ \A j, k \in DOMAIN list' : j < k => list'[j] < list'[k]
  BY <1>1, <1>4, AscendingSorts
<1>6. SortedList'
  BY <1>3, <1>5 DEF SortedList
<1>7. list' \in Seq(Nat)
  <2>1. HasNode \subseteq Nat
    BY <1>4
  <2> QED BY <1>5, <2>1, SeqOfLarger
<1>8. GraphTypeOK'
  BY <1>1, <1>7 DEF GraphTypeOK, LastShapes
<1>9. /\ i' = 1 /\ copies' = <<>> /\ queue' = {} /\ reachable_nodes' = {}
      /\ \A b \in NodeBlocks' : succ'[b] = Edges(b)'
  BY <1>1, <1>2, <1>3 DEF WalkInv
<1>10. CASE IsFragment
  BY <1>1, <1>3, <1>6, <1>8, <1>9, <1>10 DEF FragmentInv
<1>11. CASE ~IsFragment
  <2>1. i' \in 1 .. Len(list') + 1 /\ {list'[j] : j \in 1 .. i' - 1} = {}
    BY <1>5, <1>9
  <2>2. ToSet(copies') = {} /\ IsInjective(copies') /\ DOMAIN copies' = {}
    BY <1>9 DEF ToSet, IsInjective
  <2>3. CopiesOK({list[j] : j \in 1 .. i - 1})'
    BY <1>9, <2>1, <2>2 DEF CopiesOK
  <2>4. DupInv'
    BY <1>3, <1>6, <1>9, <1>11, <2>1, <2>3 DEF DupInv
  <2>5. pc' = "duplicate"
    BY <1>1, <1>11
  <2> QED BY <1>3, <1>8, <2>4, <2>5
<1> QED BY <1>10, <1>11

-----------------------------------------------------------------------------
(* The copies of the final return.                                         *)

\* Max of a bounded set of naturals is its largest element.
LEMMA MaxPicked ==
  ASSUME NEW m \in Nat, NEW S \in SUBSET (1 .. m), S # {}
  PROVE  Max(S) \in S /\ \A y \in S : y <= Max(S)
<1>0. S \subseteq Nat
  OBVIOUS
<1> DEFINE T == {m - y : y \in S}
<1>1. T \subseteq Nat /\ T # {}
  <2>1. \A y \in S : m - y \in Nat
    OBVIOUS
  <2> QED BY <2>1
<1>2. PICK t \in T : \A u \in T : t <= u
  BY <1>1, NatMin, Zenon
<1>3. PICK x \in S : t = m - x
  BY <1>2
<1>4. \A y \in S : x >= y
  <2> TAKE y \in S
  <2>1. t <= m - y
    BY <1>2
  <2>2. x \in Nat /\ y \in Nat
    BY <1>0
  <2> QED BY <1>3, <2>1, <2>2
<1>5. \E z \in S : \A y \in S : z >= y
  BY <1>4
<1>6. Max(S) \in S /\ \A y \in S : Max(S) >= y
  BY <1>5 DEF Max
<1>7. \A y \in S : Max(S) \in Int /\ y \in Int
  BY <1>6
<1> QED BY <1>6, <1>7

\* The blocks in front of the final one.
EarlierBlocks == {c \in NodeBlocks : c < FinalBlock}

\* The entry has a node, so that there is a last block with one.
LEMMA FinalFacts ==
  ASSUME GraphTypeOK, Walked
  PROVE  /\ Entry \in NodeBlocks
         /\ FinalBlock \in NodeBlocks /\ FinalBlock \in Blocks
         /\ \A b \in NodeBlocks : b <= FinalBlock
<1>1. Entry \in Reachable
  BY TerminalFacts DEF Reachable
<1>2. Entry \in NodeBlocks
  BY <1>1, TerminalFacts DEF Walked, NodeBlocks
<1>3. NodeBlocks \in SUBSET (1 .. N) /\ N \in Nat
  BY NodeBlocksAreBlocks, NAssumption DEF Blocks
<1>4. FinalBlock = Max(NodeBlocks)
  BY DEF FinalBlock, NodeBlocks, HasNode
<1> QED BY <1>2, <1>3, <1>4, MaxPicked, NodeBlocksAreBlocks

\* The sorted list starts with the entry and ends with the last block before
\* the TerminalNode.
LEMMA SortedFacts ==
  ASSUME GraphTypeOK, Walked, SortedList
  PROVE  /\ Len(list) \in Nat /\ Len(list) >= 2
         /\ IsInjective(list)
         /\ list[1] = Entry
         /\ list[Len(list)] = Terminal
         /\ FinalReturn = FinalBlock
         /\ \A b \in NodeBlocks \ {FinalBlock} :
              Len(list) >= 3 /\ list[Len(list) - 2] = Max(EarlierBlocks)
         /\ Len(list) >= 3 => list[Len(list) - 2] = Max(EarlierBlocks)
<1> DEFINE n == Len(list)
<1>1. /\ n \in Nat /\ DOMAIN list = 1 .. n
      /\ \A j \in 1 .. n : list[j] \in Nat
  BY DEF GraphTypeOK
<1>2. \A j, k \in 1 .. n : j < k => list[j] < list[k]
  BY <1>1 DEF SortedList
<1>3. \A b : b \in HasNode <=> \E j \in 1 .. n : list[j] = b
  BY <1>1 DEF SortedList, ToSet
<1> HIDE DEF n
<1>4. IsInjective(list)
  BY <1>1, <1>2 DEF IsInjective
<1>5. /\ Terminal \in HasNode /\ Terminal \in Nat
      /\ \A b \in HasNode : b = Terminal \/ b \in NodeBlocks
      /\ \A b \in NodeBlocks : b \in HasNode /\ b < Terminal /\ b \in Nat /\ b >= 1
  BY NodeBlocksAreBlocks, TerminalFacts, NAssumption DEF Walked, NodeBlocks, Blocks
<1>6. list[n] = Terminal /\ n >= 1
  <2>1. PICK p \in 1 .. n : list[p] = Terminal
    BY <1>3, <1>5
  <2>2. list[n] \in HasNode
    BY <1>1, <1>3, <2>1
  <2>3. list[n] <= Terminal
    <3>1. list[n] = Terminal \/ list[n] \in NodeBlocks
      BY <1>5, <2>2, Zenon
    <3> QED BY <1>5, <3>1
  <2>4. p = n
    BY <1>1, <1>2, <1>5, <2>1, <2>3
  <2> QED BY <1>1, <2>1, <2>4
<1>7. list[1] = Entry
  <2>1. PICK p \in 1 .. n : list[p] = Entry
    BY <1>3, <1>5, FinalFacts
  <2>2. list[1] \in HasNode
    BY <1>1, <1>3, <2>1
  <2>3. list[1] >= 1 /\ list[1] \in Nat
    <3>1. Terminal >= 1
      BY NAssumption DEF Terminal
    <3> QED BY <1>1, <1>5, <2>2, <3>1
  <2>4. ~(list[1] < Entry)
    BY <2>3 DEF Entry
  <2> QED BY <1>1, <1>2, <2>1, <2>4
<1>8. list[n - 1] = FinalBlock /\ n >= 2
  <2>1. /\ FinalBlock \in HasNode /\ FinalBlock \in Nat /\ FinalBlock < Terminal
        /\ \A b \in NodeBlocks : b <= FinalBlock
    BY <1>5, FinalFacts
  <2>2. PICK p \in 1 .. n : list[p] = FinalBlock
    BY <1>3, <2>1
  <2>3. p # n
    BY <1>5, <1>6, <2>1, <2>2
  <2>4. n - 1 \in 1 .. n /\ n >= 2 /\ p <= n - 1
    BY <1>1, <2>2, <2>3
  <2>5. list[n - 1] \in HasNode /\ list[n - 1] < list[n]
    BY <1>1, <1>2, <1>3, <2>4
  <2>6. list[n - 1] \in NodeBlocks
    <3>1. list[n - 1] = Terminal \/ list[n - 1] \in NodeBlocks
      BY <1>5, <2>5, Zenon
    <3>2. list[n - 1] # Terminal
      BY <1>5, <1>6, <2>5
    <3> QED BY <3>1, <3>2
  <2>7. list[n - 1] <= FinalBlock
    BY <2>1, <2>6
  <2>8. ~(list[p] < list[n - 1])
    BY <1>5, <2>1, <2>2, <2>6, <2>7
  <2>9. p = n - 1
    BY <1>1, <1>2, <2>4, <2>8
  <2> QED BY <2>2, <2>4, <2>9
<1>9. ASSUME NEW b \in NodeBlocks \ {FinalBlock} PROVE n >= 3
  <2>1. PICK p \in 1 .. n : list[p] = b
    BY <1>3, <1>5
  <2>2. p # n /\ p # n - 1
    BY <1>5, <1>6, <1>8, <2>1
  <2> QED BY <1>1, <1>8, <2>1, <2>2
<1>10. ASSUME n >= 3 PROVE list[n - 2] = Max(EarlierBlocks)
  <2>1. n - 2 \in 1 .. n /\ n - 1 \in 1 .. n /\ n - 2 < n - 1 /\ n - 2 < n
    BY <1>1, <1>10
  <2>2. list[n - 2] < FinalBlock /\ list[n - 2] < Terminal /\ list[n - 2] \in HasNode
    BY <1>2, <1>3, <1>6, <1>8, <2>1, <1>1
  <2>3. list[n - 2] \in EarlierBlocks
    <3>1. list[n - 2] = Terminal \/ list[n - 2] \in NodeBlocks
      BY <1>5, <2>2, Zenon
    <3>2. list[n - 2] # Terminal
      BY <1>5, <2>2
    <3> QED BY <2>2, <3>1, <3>2 DEF EarlierBlocks
  <2>4. EarlierBlocks \in SUBSET (1 .. N) /\ N \in Nat
    BY NodeBlocksAreBlocks, NAssumption DEF Blocks, EarlierBlocks
  <2> DEFINE m == Max(EarlierBlocks)
  <2>5. m \in EarlierBlocks /\ \A y \in EarlierBlocks : y <= m
    BY <2>3, <2>4, MaxPicked
  <2> HIDE DEF m
  <2>6. m \in NodeBlocks /\ m < FinalBlock /\ list[n - 2] <= m
    BY <2>3, <2>5 DEF EarlierBlocks
  <2>7. PICK p \in 1 .. n : list[p] = m
    BY <1>3, <1>5, <2>6
  <2>8. p # n /\ p # n - 1
    BY <1>5, <1>6, <1>8, <2>6, <2>7, FinalFacts
  <2>9. p <= n - 2
    BY <1>1, <2>7, <2>8
  <2>10. ~(list[p] < list[n - 2])
    BY <1>1, <1>5, <2>1, <2>6, <2>7
  <2>11. p = n - 2
    BY <1>1, <1>2, <2>1, <2>9, <2>10
  <2> QED BY <2>7, <2>11 DEF m
<1>11. FinalReturn = FinalBlock
  BY <1>8 DEF FinalReturn, n
<1> QED BY <1>1, <1>4, <1>6, <1>7, <1>8, <1>9, <1>10, <1>11 DEF n

\* The node the loop looks at gets a copy exactly if it is premature.
LEMMA PrematureDecides ==
  ASSUME GraphTypeOK, Walked, SortedList, NEW b \in HasNode, b \in NodeBlocks => succ[b] = Edges(b)
  PROVE  /\ IsBasic(b) /\ ~blocks[b].emit_goto /\ is_premature_return(b, succ[b][1])
              <=> b \in Blocks /\ Premature(b)
         /\ Premature(b) => b \in NodeBlocks
<1>1. FinalReturn = FinalBlock /\ FinalBlock \in Blocks
  BY SortedFacts, FinalFacts
<1>2. IsBasic(b) => b \in NodeBlocks /\ b \in Blocks
  BY TerminalFacts DEF IsBasic, NodeBlocks
<1>3. IsReturn(FinalBlock) <=> blocks[FinalBlock].kind = "return"
  BY <1>1, TerminalFacts DEF IsReturn
<1>4. ASSUME IsBasic(b), blocks[FinalBlock].kind = "return"
      PROVE  Len(list) >= 3 /\ list[Len(list) - 2] = Max(EarlierBlocks)
  <2>1. b \in NodeBlocks \ {FinalBlock}
    BY <1>2, <1>4 DEF IsBasic
  <2> QED BY <2>1, SortedFacts
<1>5. Max({c \in NodeBlocks : c < FinalBlock}) = Max(EarlierBlocks)
  BY DEF EarlierBlocks
<1>6. IsBasic(b) => succ[b] = Edges(b)
  BY <1>2
<1> QED BY <1>1, <1>2, <1>3, <1>4, <1>5, <1>6 DEF is_premature_return, Premature

\* One round of the loop: the node it looks at has the edges of its block until then.
LEMMA DuplicateStep ==
  ASSUME GraphTypeOK, Walked, DupInv, DuplicateReturn
  PROVE  GraphTypeOK' /\ Walked' /\ DupInv' /\ pc' = pc
<1> DEFINE b == list[i]
           seen == {list[j] : j \in 1 .. i - 1}
<1>1. /\ i <= Len(list)
      /\ IF IsBasic(b) /\ ~blocks[b].emit_goto /\ is_premature_return(b, succ[b][1])
         THEN /\ copies' = Append(copies, b)
              /\ succ' = [succ EXCEPT ![b] = <<Terminal + Len(copies')>>]
         ELSE UNCHANGED <<copies, succ>>
      /\ i' = i + 1
      /\ UNCHANGED <<blocks, trivial, nodes, stack, table, list, queue, reachable_nodes, pc>>
  BY DEF DuplicateReturn
<1>2. /\ HasNode' = HasNode /\ NodeBlocks' = NodeBlocks
      /\ \A c : Edges(c)' = Edges(c)
      /\ IsFragment' = IsFragment
      /\ \A c : Premature(c)' <=> Premature(c)
      /\ Walked'
  BY <1>1, StaticKept
<1>3. SortedList' /\ ~IsFragment' /\ queue' = {} /\ reachable_nodes' = {}
  BY <1>1, <1>2 DEF DupInv, SortedList
<1>4. i \in Nat /\ i \in 1 .. Len(list) /\ Len(list) \in Nat /\ DOMAIN list = 1 .. Len(list)
  BY <1>1 DEF DupInv, GraphTypeOK
<1>5. i' \in 1 .. Len(list') + 1 /\ i' \in Nat
  BY <1>1, <1>4
<1>6. {list'[j] : j \in 1 .. i' - 1} = seen \cup {b}
  <2>1. 1 .. i' - 1 = (1 .. i - 1) \cup {i}
    BY <1>1, <1>4
  <2> QED BY <1>1, <2>1
<1>7. b \in HasNode /\ b \notin seen
  <2>1. b \in ToSet(list)
    BY <1>4 DEF ToSet
  <2>2. IsInjective(list)
    BY SortedFacts DEF DupInv
  <2>3. \A j \in 1 .. i - 1 : j \in DOMAIN list /\ j # i
    BY <1>4
  <2>4. \A j \in 1 .. i - 1 : list[j] # list[i]
    BY <1>4, <2>2, <2>3 DEF IsInjective
  <2> QED BY <2>1, <2>4 DEF DupInv, SortedList
<1>8. /\ IsInjective(copies)
      /\ ToSet(copies) = {c \in seen \cap Blocks : Premature(c)}
      /\ \A k \in DOMAIN copies : succ[copies[k]] = <<Terminal + k>>
      /\ \A c \in NodeBlocks \ ToSet(copies) : succ[c] = Edges(c)
  BY DEF DupInv, CopiesOK
<1>9. b \notin ToSet(copies)
  BY <1>7, <1>8
<1>10. /\ IsBasic(b) /\ ~blocks[b].emit_goto /\ is_premature_return(b, succ[b][1])
            <=> b \in Blocks /\ Premature(b)
       /\ Premature(b) => b \in NodeBlocks
  BY <1>7, <1>8, <1>9, PrematureDecides DEF DupInv
<1>11. PICK x \in HasNode : x = b
  BY <1>7
<1>12. PICK S : S = seen
  OBVIOUS
<1> HIDE DEF b, seen
<1>13. ASSUME /\ IsInjective(copies')
              /\ ToSet(copies') = {c \in (S \cup {x}) \cap Blocks : Premature(c)}
              /\ \A k \in DOMAIN copies' : succ'[copies'[k]] = <<Terminal + k>>
              /\ \A c \in NodeBlocks \ ToSet(copies') : succ'[c] = Edges(c)
       PROVE  CopiesOK({list[j] : j \in 1 .. i - 1})'
  <2>1. {list'[j] : j \in 1 .. i' - 1} = S \cup {x}
    BY <1>6, <1>11, <1>12
  <2>2. ToSet(copies') = {c \in {list'[j] : j \in 1 .. i' - 1} \cap Blocks : Premature(c)'}
    BY <1>2, <1>13, <2>1
  <2>3. \A c \in NodeBlocks' \ ToSet(copies') : succ'[c] = Edges(c)'
    BY <1>2, <1>13
  <2> QED BY <1>13, <2>2, <2>3 DEF CopiesOK, Blocks, Terminal
<1>14. CASE x \in Blocks /\ Premature(x)
  <2>1. /\ copies' = Append(copies, x)
        /\ succ' = [succ EXCEPT ![x] = <<Terminal + Len(copies')>>]
    BY <1>1, <1>10, <1>11, <1>14
  <2>2. copies \in Seq(Blocks) /\ succ \in [Blocks -> Seq(Nat)]
    BY DEF GraphTypeOK
  <2>3. /\ copies' \in Seq(Blocks) /\ Len(copies') = Len(copies) + 1 /\ Len(copies) \in Nat
        /\ DOMAIN copies' = 1 .. Len(copies) + 1 /\ DOMAIN copies = 1 .. Len(copies)
        /\ \A k \in 1 .. Len(copies) : copies'[k] = copies[k]
        /\ copies'[Len(copies) + 1] = x
    BY <1>14, <2>1, <2>2
  <2>4. ToSet(copies') = ToSet(copies) \cup {x} /\ IsInjective(copies')
    BY <1>8, <1>9, <1>11, <1>14, <2>1, <2>2, AppendSet
  <2>5. <<Terminal + Len(copies')>> \in Seq(Nat)
    BY <2>3, TerminalFacts
  <2>6. /\ succ' \in [Blocks -> Seq(Nat)]
        /\ succ'[x] = <<Terminal + Len(copies')>>
        /\ \A c \in Blocks \ {x} : succ'[c] = succ[c]
    BY <1>14, <2>1, <2>2, <2>5
  <2>7. ToSet(copies') = {c \in (S \cup {x}) \cap Blocks : Premature(c)}
    BY <1>8, <1>12, <1>14, <2>4
  <2>8. \A k \in DOMAIN copies' : succ'[copies'[k]] = <<Terminal + k>>
    <3> SUFFICES ASSUME NEW k \in DOMAIN copies' PROVE succ'[copies'[k]] = <<Terminal + k>>
      OBVIOUS
    <3>1. CASE k \in DOMAIN copies
      <4>1. copies'[k] = copies[k] /\ copies[k] \in ToSet(copies) /\ copies[k] \in Blocks
        BY <2>2, <2>3, <3>1 DEF ToSet
      <4>2. copies[k] # x
        BY <1>9, <1>11, <4>1
      <4> QED BY <1>8, <2>6, <3>1, <4>1, <4>2
    <3>2. CASE k = Len(copies) + 1
      BY <2>3, <2>6, <3>2
    <3> QED BY <2>3, <3>1, <3>2
  <2>9. \A c \in NodeBlocks \ ToSet(copies') : succ'[c] = Edges(c)
    BY <1>8, <2>4, <2>6, NodeBlocksAreBlocks
  <2>10. DupInv'
    BY <1>3, <1>5, <1>13, <2>4, <2>7, <2>8, <2>9 DEF DupInv
  <2>11. GraphTypeOK'
    <3>1. copies' \in Seq(Blocks) /\ succ' \in [Blocks -> Seq(Nat)]
      BY <2>3, <2>6
    <3> QED BY <1>1, <1>5, <3>1 DEF GraphTypeOK, LastShapes
  <2> QED BY <1>1, <1>2, <2>10, <2>11
<1>15. CASE ~(x \in Blocks /\ Premature(x))
  <2>1. UNCHANGED <<copies, succ>>
    BY <1>1, <1>10, <1>11, <1>15
  <2>2. {c \in (S \cup {x}) \cap Blocks : Premature(c)} = {c \in S \cap Blocks : Premature(c)}
    BY <1>15
  <2>3. CopiesOK({list[j] : j \in 1 .. i - 1})'
    BY <1>8, <1>12, <1>13, <2>1, <2>2
  <2>4. DupInv'
    BY <1>3, <1>5, <2>3 DEF DupInv
  <2>5. GraphTypeOK'
    BY <1>1, <1>5, <2>1 DEF GraphTypeOK, LastShapes
  <2> QED BY <1>1, <1>2, <2>4, <2>5
<1> QED BY <1>14, <1>15

\* The list with the copies in front of the TerminalNode.
LEMMA CopiesInserted ==
  ASSUME GraphTypeOK, Walked, SortedList, NEW s,
         s = Front(list) \o [k \in DOMAIN copies |-> Terminal + k] \o <<Terminal>>
  PROVE  /\ s \in Seq(Nat) /\ s # <<>>
         /\ s[1] = Entry /\ Last(s) = Terminal
         /\ IsInjective(s)
         /\ ToSet(s) = AllNodes
<1> DEFINE F == Front(list)
           C == [k \in DOMAIN copies |-> Terminal + k]
           m == Len(copies)
<1>1. PICK n \in Nat :
      /\ n >= 1 /\ n + 1 = Len(list) /\ list \in Seq(Nat)
      /\ IsInjective(list) /\ list[1] = Entry /\ Last(list) = Terminal
      /\ ToSet(list) = HasNode
  <2>1. /\ Len(list) \in Nat /\ Len(list) >= 2
        /\ IsInjective(list) /\ list[1] = Entry /\ list[Len(list)] = Terminal
    BY SortedFacts
  <2>2. Len(list) - 1 \in Nat /\ Len(list) - 1 >= 1 /\ (Len(list) - 1) + 1 = Len(list)
    BY <2>1
  <2>3. list \in Seq(Nat) /\ ToSet(list) = HasNode
    BY DEF GraphTypeOK, SortedList
  <2> QED BY <2>1, <2>2, <2>3 DEF Last
<1>2. list # <<>> /\ Len(list) - 1 = n
  BY <1>1
<1>3. /\ F \in Seq(Nat) /\ Len(F) = n /\ DOMAIN F = 1 .. n
      /\ \A k \in 1 .. n : F[k] = list[k]
      /\ ToSet(list) = ToSet(F) \cup {Terminal}
      /\ IsInjective(F) /\ Terminal \notin ToSet(F)
  <2>1. /\ F \in Seq(Nat) /\ Len(F) = n
        /\ \A k \in 1 .. n : F[k] = list[k]
        /\ ToSet(list) = ToSet(F) \cup {Terminal}
        /\ IsInjective(F) /\ Terminal \notin ToSet(F)
    BY <1>1, <1>2, FrontSet
  <2> HIDE DEF F
  <2> QED BY <2>1
<1>4. m \in Nat /\ DOMAIN copies = 1 .. m
  BY DEF GraphTypeOK
<1>5. C \in Seq(Nat) /\ Len(C) = m /\ \A k \in 1 .. m : C[k] = Terminal + k
  BY <1>4, TerminalFacts
<1> HIDE DEF F, C, m
<1>6. /\ s \in Seq(Nat) /\ Len(s) = n + m + 1
      /\ \A j \in 1 .. n : s[j] = F[j]
      /\ \A j \in 1 .. m : s[n + j] = C[j]
      /\ s[n + m + 1] = Terminal
  <2>1. s = F \o C \o <<Terminal>> /\ <<Terminal>> \in Seq(Nat)
    BY TerminalFacts DEF F, C
  <2>2. /\ F \o C \in Seq(Nat) /\ Len(F \o C) = n + m
        /\ \A j \in 1 .. n : (F \o C)[j] = F[j]
        /\ \A j \in 1 .. m : (F \o C)[n + j] = C[j]
    <3>1. /\ F \o C \in Seq(Nat) /\ Len(F \o C) = Len(F) + Len(C)
          /\ \A j \in 1 .. Len(F) : (F \o C)[j] = F[j]
          /\ \A j \in 1 .. Len(C) : (F \o C)[Len(F) + j] = C[j]
      <4>1. F \in Seq(Nat) /\ C \in Seq(Nat)
        BY <1>3, <1>5
      <4> QED BY <4>1, ConcatElements
    <3>2. Len(F) = n /\ Len(C) = m
      BY <1>3, <1>5
    <3> QED BY <3>1, <3>2
  <2>3. PICK t \in Seq(Nat) : t = F \o C
    BY <2>2
  <2>4. /\ s \in Seq(Nat) /\ Len(s) = Len(t) + 1
        /\ \A j \in 1 .. Len(t) : s[j] = t[j]
        /\ s[Len(t) + 1] = Terminal
    <3>1. PICK e \in Seq(Nat) : e = <<Terminal>>
      BY <2>1
    <3>2. Len(e) = 1 /\ e[1] = Terminal /\ 1 \in 1 .. Len(e)
      BY <3>1
    <3>3. s = t \o e
      BY <2>1, <2>3, <3>1
    <3>4. /\ t \o e \in Seq(Nat) /\ Len(t \o e) = Len(t) + Len(e)
          /\ \A j \in 1 .. Len(t) : (t \o e)[j] = t[j]
          /\ \A j \in 1 .. Len(e) : (t \o e)[Len(t) + j] = e[j]
      BY ConcatElements
    <3> QED BY <3>2, <3>3, <3>4
  <2>5. Len(t) = n + m
    BY <2>2, <2>3
  <2>6. \A j \in 1 .. n : j \in 1 .. Len(t)
    BY <1>1, <1>4, <2>5
  <2>7. \A j \in 1 .. m : n + j \in 1 .. Len(t)
    BY <1>1, <1>4, <2>5
  <2> QED BY <2>2, <2>3, <2>4, <2>5, <2>6, <2>7
<1>7. \A j \in 1 .. n + m + 1 :
        \/ j \in 1 .. n /\ s[j] = F[j] /\ F[j] \in NodeBlocks /\ F[j] < Terminal
        \/ \E k \in 1 .. m : j = n + k /\ s[j] = Terminal + k
        \/ j = n + m + 1 /\ s[j] = Terminal
  <2>1. \A j \in 1 .. n : F[j] \in NodeBlocks
    <3>1. \A j \in 1 .. n : F[j] \in ToSet(F)
      BY <1>3 DEF ToSet
    <3>2. ToSet(F) \subseteq NodeBlocks
      BY <1>1, <1>3 DEF NodeBlocks
    <3> QED BY <3>1, <3>2
  <2>2. \A j \in 1 .. n : F[j] < Terminal
    BY <2>1, NodeBlocksAreBlocks, TerminalFacts
  <2>3. ASSUME NEW j \in 1 .. n + m + 1, ~(j \in 1 .. n), j # n + m + 1
        PROVE  \E k \in 1 .. m : j = n + k /\ s[j] = Terminal + k
    <3>1. j - n \in 1 .. m /\ j = n + (j - n)
      BY <1>1, <1>4, <2>3
    <3>2. s[n + (j - n)] = Terminal + (j - n)
      BY <1>5, <1>6, <3>1
    <3> QED BY <3>1, <3>2
  <2> QED BY <1>6, <2>1, <2>2, <2>3
<1>8. DOMAIN s = 1 .. n + m + 1 /\ n + m + 1 \in Nat
  BY <1>1, <1>4, <1>6
<1>9. IsInjective(s)
  <2>1. ASSUME NEW j \in 1 .. n + m + 1, NEW k \in 1 .. n + m + 1, s[j] = s[k]
        PROVE  j = k
    <3>1. CASE j \in 1 .. n /\ k \in 1 .. n
      <4>1. F[j] = F[k] /\ j \in DOMAIN F /\ k \in DOMAIN F
        <5>1. s[j] = F[j] /\ s[k] = F[k]
          BY <1>6, <3>1
        <5> QED BY <1>3, <2>1, <3>1, <5>1
      <4> QED BY <1>3, <4>1 DEF IsInjective
    <3>2. ASSUME NEW x \in 1 .. n + m + 1
          PROVE  \/ x \in 1 .. n /\ s[x] < Terminal /\ s[x] \in Nat
                 \/ x \notin 1 .. n /\ s[x] = Terminal + (x - n) /\ x < n + m + 1 /\ x > n
                 \/ x \notin 1 .. n /\ s[x] = Terminal /\ x = n + m + 1
      <4>1. CASE \E q \in 1 .. m : x = n + q /\ s[x] = Terminal + q
        <5>1. PICK q \in 1 .. m : x = n + q /\ s[x] = Terminal + q
          BY <4>1
        <5>2. x - n = q /\ x < n + m + 1 /\ x > n /\ x \notin 1 .. n
          BY <1>1, <1>4, <5>1
        <5> QED BY <5>1, <5>2
      <4>2. CASE x = n + m + 1 /\ s[x] = Terminal
        <5>1. x \notin 1 .. n
          BY <1>1, <1>4, <4>2
        <5> QED BY <4>2, <5>1
      <4>3. CASE x \in 1 .. n /\ s[x] = F[x] /\ F[x] \in NodeBlocks /\ F[x] < Terminal
        BY <4>3, NodeBlocksAreBlocks, TerminalFacts
      <4> QED BY <1>7, <4>1, <4>2, <4>3
    <3>3. Terminal \in Nat
      BY TerminalFacts
    <3>4. PICK u : u = s[j] /\ u = s[k]
      BY <2>1
    <3>5. CASE u < Terminal /\ u \in Nat
      <4>1. ASSUME NEW x \in 1 .. n + m + 1, s[x] = u PROVE x \in 1 .. n
        <5>1. CASE s[x] = Terminal + (x - n) /\ x > n
          <6>1. x - n \in Nat /\ x - n > 0
            BY <1>1, <1>4, <5>1
          <6> QED BY <3>3, <3>5, <4>1, <5>1, <6>1
        <5>2. s[x] # Terminal
          <6>1. u # Terminal
            BY <3>3, <3>5
          <6> QED BY <4>1, <6>1, Zenon
        <5> QED BY <3>2, <5>1, <5>2, Zenon
      <4> QED BY <3>1, <3>4, <4>1
    <3>6. CASE u = Terminal
      <4>1. ASSUME NEW x \in 1 .. n + m + 1, s[x] = u PROVE x = n + m + 1
        <5>1. s[x] = Terminal
          BY <3>6, <4>1, Zenon
        <5>2. ~(Terminal < Terminal)
          BY <3>3
        <5>3. CASE s[x] = Terminal + (x - n) /\ x > n
          <6>1. x - n \in Nat /\ x - n > 0
            BY <1>1, <1>4, <5>3
          <6>2. Terminal # Terminal + (x - n)
            BY <3>3, <6>1
          <6> QED BY <5>1, <5>3, <6>2, Zenon
        <5> QED BY <3>2, <5>1, <5>2, <5>3, Zenon
      <4> QED BY <3>4, <4>1
    <3>7. CASE ~(u < Terminal /\ u \in Nat) /\ u # Terminal
      <4>1. ASSUME NEW x \in 1 .. n + m + 1, s[x] = u PROVE u = Terminal + (x - n)
        BY <3>2, <3>7, <4>1, Zenon
      <4>2. u = Terminal + (j - n) /\ u = Terminal + (k - n)
        BY <3>4, <4>1
      <4>3. j \in Int /\ k \in Int /\ n \in Int
        BY <1>1, <1>4
      <4> QED BY <3>3, <4>2, <4>3
    <3> QED BY <3>5, <3>6, <3>7
  <2> QED BY <1>8, <2>1 DEF IsInjective
<1>10. ToSet(s) = AllNodes
  <2>1. ASSUME NEW j \in 1 .. n + m + 1 PROVE s[j] \in AllNodes
    <3>1. CASE s[j] \in NodeBlocks
      BY <3>1 DEF AllNodes, NodeBlocks
    <3>2. CASE \E k \in 1 .. m : s[j] = Terminal + k
      BY <1>4, <3>2 DEF AllNodes
    <3>3. CASE s[j] = Terminal
      BY <3>3 DEF AllNodes, Walked
    <3> QED BY <1>7, <3>1, <3>2, <3>3
  <2>2. ASSUME NEW x \in HasNode PROVE x \in ToSet(s)
    <3>1. CASE x = Terminal
      <4>1. n + m + 1 \in DOMAIN s
        BY <1>1, <1>4, <1>8
      <4> QED BY <1>6, <3>1, <4>1 DEF ToSet
    <3>2. CASE x \in ToSet(F)
      <4>1. PICK j \in 1 .. n : F[j] = x
        BY <1>3, <3>2 DEF ToSet
      <4>2. j \in DOMAIN s
        BY <1>1, <1>4, <1>8, <4>1
      <4>3. s[j] = x
        BY <1>6, <4>1
      <4> QED BY <4>2, <4>3 DEF ToSet
    <3> QED BY <1>1, <1>3, <3>1, <3>2
  <2>3. ASSUME NEW k \in DOMAIN copies PROVE Terminal + k \in ToSet(s)
    <3>1. n + k \in DOMAIN s
      BY <1>1, <1>4, <1>8
    <3>2. s[n + k] = Terminal + k
      BY <1>4, <1>5, <1>6
    <3> QED BY <3>1, <3>2 DEF ToSet
  <2>4. ToSet(s) \subseteq AllNodes
    BY <1>8, <2>1 DEF ToSet
  <2> QED BY <2>2, <2>3, <2>4 DEF AllNodes
<1>11. s[1] = Entry /\ Last(s) = Terminal /\ s # <<>>
  <2>1. 1 \in 1 .. n
    BY <1>1
  <2>2. s[1] = list[1]
    BY <1>3, <1>6, <2>1
  <2>3. Last(s) = Terminal
    BY <1>6 DEF Last
  <2>4. s # <<>>
    BY <1>1, <1>4, <1>6
  <2> QED BY <1>1, <2>2, <2>3, <2>4
<1> QED BY <1>6, <1>9, <1>10, <1>11

\* The copies are put into the list, and the worklist starts at the entry.
LEMMA AddCopiesStep ==
  ASSUME GraphTypeOK, Walked, DupInv, AddCopies
  PROVE  GraphTypeOK' /\ Walked' /\ FilterInv' /\ pc' = "filter"
<1>1. /\ i > Len(list)
      /\ list' = Front(list) \o [k \in DOMAIN copies |-> Terminal + k] \o <<Terminal>>
      /\ queue' = {list[1]}
      /\ reachable_nodes' = {Terminal}
      /\ pc' = "filter"
      /\ UNCHANGED <<blocks, trivial, nodes, stack, succ, table, i, copies>>
  BY DEF AddCopies, walkVars
<1>2. /\ HasNode' = HasNode /\ NodeBlocks' = NodeBlocks
      /\ \A c : Edges(c)' = Edges(c)
      /\ IsFragment' = IsFragment
      /\ \A c : Premature(c)' <=> Premature(c)
      /\ Walked'
  BY <1>1, StaticKept
<1>3. AllNodes' = AllNodes
  BY <1>1, <1>2 DEF AllNodes, Terminal
<1>4. SortedList /\ list[1] = Entry
  BY SortedFacts DEF DupInv
<1>5. /\ list' \in Seq(Nat) /\ list' # <<>>
      /\ list'[1] = Entry /\ Last(list') = Terminal
      /\ IsInjective(list')
      /\ ToSet(list') = AllNodes
  BY <1>1, <1>4, CopiesInserted
<1>6. ListEnds'
  <2>1. Last(list)' = Last(list')
    BY DEF Last
  <2> QED BY <1>5, <2>1 DEF ListEnds, Entry, Terminal
<1>7. CopiesOK(NodeBlocks)'
  <2>1. {list[j] : j \in 1 .. i - 1} = HasNode
    <3>1. i - 1 = Len(list) /\ DOMAIN list = 1 .. Len(list)
      BY <1>1 DEF DupInv, GraphTypeOK
    <3> QED BY <1>4, <3>1 DEF SortedList, ToSet
  <2>2. CopiesOK(HasNode)
    BY <2>1 DEF DupInv
  <2>3. HasNode \cap Blocks = NodeBlocks \cap Blocks
    BY TerminalFacts DEF NodeBlocks
  <2>4. CopiesOK(NodeBlocks)
    BY <2>2, <2>3 DEF CopiesOK
  <2>5. ToSet(copies') = {b \in NodeBlocks' \cap Blocks : Premature(b)'}
    BY <1>1, <1>2, <2>4 DEF CopiesOK
  <2>6. \A b \in NodeBlocks' \ ToSet(copies') : succ'[b] = Edges(b)'
    BY <1>1, <1>2, <2>4 DEF CopiesOK
  <2> QED BY <1>1, <2>4, <2>5, <2>6 DEF CopiesOK, Blocks, Terminal
<1>8. WorklistInv'
  <2>1. queue' = {Entry} /\ reachable_nodes' = {Terminal}
    BY <1>1, <1>4
  <2>2. Entry \in AllNodes /\ Terminal \in AllNodes /\ Entry # Terminal
    BY FinalFacts, TerminalFacts DEF AllNodes, NodeBlocks, Walked
  <2>3. \A n \in reachable_nodes' : children(n)' = {}
    BY <2>1 DEF children, Terminal
  <2>4. \A S \in ClosedIn(AllNodes)' : Entry \in S
    BY DEF ClosedIn, Entry
  <2>5. queue' \cap reachable_nodes' = {} /\ queue' \cup reachable_nodes' \subseteq AllNodes'
    BY <1>3, <2>1, <2>2
  <2>6. (queue' \cup reachable_nodes') \ {Entry, Terminal} = {}
    BY <2>1
  <2>7. \A S \in ClosedIn(AllNodes)' : (queue' \cup reachable_nodes') \ {Terminal} \subseteq S
    BY <2>1, <2>4
  <2>8. Entry \in queue' \cup reachable_nodes' /\ Terminal \in reachable_nodes'
    BY <2>1
  <2>9. \A n \in reachable_nodes' : children(n)' \subseteq queue' \cup reachable_nodes'
    BY <2>3
  <2> QED BY <2>5, <2>6, <2>7, <2>8, <2>9 DEF WorklistInv, Entry, Terminal
<1>9. FilterInv'
  BY <1>2, <1>3, <1>5, <1>6, <1>7, <1>8 DEF FilterInv, DupInv
<1>10. GraphTypeOK'
  BY <1>1, <1>5 DEF GraphTypeOK, LastShapes
<1> QED BY <1>1, <1>2, <1>9, <1>10

\* Every edge of a listed node leads to a listed node.
LEMMA ChildrenListed ==
  ASSUME GraphTypeOK, Walked, NEW seen, CopiesOK(seen), NEW n \in AllNodes
  PROVE  children(n) \subseteq AllNodes
<1>1. CASE n = Terminal
  BY <1>1 DEF children
<1>2. CASE n # Terminal /\ IsReturn(n)
  BY <1>2 DEF children, AllNodes, Walked
<1>3. CASE n # Terminal /\ ~IsReturn(n)
  <2>1. children(n) = ToSet(succ[n])
    BY <1>3 DEF children
  <2>2. n \in NodeBlocks
    <3>1. \A k \in DOMAIN copies : IsReturn(Terminal + k)
      <4>1. DOMAIN copies = 1 .. Len(copies) /\ Len(copies) \in Nat
        BY DEF GraphTypeOK
      <4>2. \A k \in DOMAIN copies : Terminal + k > Terminal
        BY <4>1, TerminalFacts
      <4> QED BY <4>2 DEF IsReturn
    <3> QED BY <1>3, <3>1 DEF AllNodes, NodeBlocks
  <2>3. CASE n \in ToSet(copies)
    <3>1. PICK k \in DOMAIN copies : copies[k] = n
      BY <2>3 DEF ToSet
    <3>2. succ[n] = <<Terminal + k>>
      BY <3>1 DEF CopiesOK
    <3>3. ToSet(succ[n]) = {Terminal + k}
      BY <3>2 DEF ToSet
    <3> QED BY <2>1, <3>3 DEF AllNodes
  <2>4. CASE n \notin ToSet(copies)
    <3>1. succ[n] = Edges(n) /\ Edges(n) \in Seq(HasNode)
      BY <2>2, <2>4 DEF CopiesOK, Walked
    <3>2. ToSet(succ[n]) \subseteq HasNode
      BY <3>1 DEF ToSet
    <3> QED BY <2>1, <3>2 DEF AllNodes
  <2> QED BY <2>3, <2>4
<1> QED BY <1>1, <1>2, <1>3

\* The steps of the filter leave nodes, edges and copies alone.
LEMMA FilterKeeps ==
  ASSUME UNCHANGED <<blocks, trivial, nodes, stack, succ, table, copies>>
  PROVE  /\ HasNode' = HasNode /\ NodeBlocks' = NodeBlocks
         /\ AllNodes' = AllNodes
         /\ IsFragment' = IsFragment
         /\ \A n : children(n)' = children(n)
         /\ ClosedIn(AllNodes)' = ClosedIn(AllNodes)
         /\ CopiesOK(NodeBlocks) => CopiesOK(NodeBlocks)'
         /\ Walked => Walked'
<1>1. /\ HasNode' = HasNode /\ NodeBlocks' = NodeBlocks
      /\ \A c : Edges(c)' = Edges(c)
      /\ IsFragment' = IsFragment
      /\ \A c : IsReturn(c)' = IsReturn(c)
      /\ \A c : Premature(c)' <=> Premature(c)
      /\ Walked => Walked'
  BY StaticKept
<1>2. AllNodes' = AllNodes
  BY <1>1 DEF AllNodes, Terminal
<1>3. \A n : children(n)' = children(n)
  BY <1>1 DEF children, Terminal
<1>4. ClosedIn(AllNodes)' = ClosedIn(AllNodes)
  BY <1>2, <1>3 DEF ClosedIn, Entry
<1>5. ASSUME CopiesOK(NodeBlocks) PROVE CopiesOK(NodeBlocks)'
  <2>1. ToSet(copies') = {b \in NodeBlocks' \cap Blocks : Premature(b)'}
    BY <1>1, <1>5 DEF CopiesOK
  <2>2. \A b \in NodeBlocks' \ ToSet(copies') : succ'[b] = Edges(b)'
    BY <1>1, <1>5 DEF CopiesOK
  <2> QED BY <1>5, <2>1, <2>2 DEF CopiesOK, Blocks, Terminal
<1> QED BY <1>1, <1>2, <1>3, <1>4, <1>5

\* One round of the worklist, whichever node is popped.
LEMMA PopStep ==
  ASSUME GraphTypeOK, Walked, FilterInv, NEW n, PopQueue(n)
  PROVE  GraphTypeOK' /\ Walked' /\ FilterInv' /\ pc' = pc
<1>1. /\ n \in queue
      /\ reachable_nodes' = reachable_nodes \cup {n}
      /\ queue' = (queue \ {n}) \cup (children(n) \ reachable_nodes')
      /\ UNCHANGED <<blocks, trivial, nodes, stack, succ, table, list, i, copies, pc>>
  BY DEF PopQueue, walkVars
<1>2. /\ HasNode' = HasNode /\ NodeBlocks' = NodeBlocks
      /\ AllNodes' = AllNodes
      /\ IsFragment' = IsFragment
      /\ \A m : children(m)' = children(m)
      /\ ClosedIn(AllNodes)' = ClosedIn(AllNodes)
      /\ CopiesOK(NodeBlocks)'
      /\ Walked'
  BY <1>1, FilterKeeps DEF FilterInv
<1>3. WorklistInv
  BY DEF FilterInv
<1>4. n \in AllNodes /\ n # Terminal /\ children(n) \subseteq AllNodes
  <2>1. n \in AllNodes /\ n # Terminal
    BY <1>1, <1>3 DEF WorklistInv
  <2> QED BY <2>1, ChildrenListed DEF FilterInv
<1> DEFINE old == queue \cup reachable_nodes
           new == queue' \cup reachable_nodes'
<1>5. new = old \cup children(n)
  BY <1>1
<1>6. queue' \cap reachable_nodes' = {}
  BY <1>1, <1>3 DEF WorklistInv
<1>7. new \subseteq AllNodes'
  BY <1>2, <1>3, <1>4, <1>5 DEF WorklistInv
<1>8. Entry \in new /\ Terminal \in reachable_nodes'
  BY <1>1, <1>3, <1>5 DEF WorklistInv
<1>9. \A m \in reachable_nodes' : children(m)' \subseteq new
  <2>1. \A m \in reachable_nodes : children(m) \subseteq old
    BY <1>3 DEF WorklistInv
  <2> QED BY <1>1, <1>2, <1>5, <2>1
<1>10. \A x \in new \ {Entry, Terminal} : \E m \in reachable_nodes' : x \in children(m)'
  <2>1. \A x \in old \ {Entry, Terminal} : \E m \in reachable_nodes : x \in children(m)
    BY <1>3 DEF WorklistInv
  <2> QED BY <1>1, <1>2, <1>5, <2>1
<1>11. \A S \in ClosedIn(AllNodes)' : new \ {Terminal} \subseteq S
  <2> SUFFICES ASSUME NEW S \in ClosedIn(AllNodes) PROVE new \ {Terminal} \subseteq S
    BY <1>2
  <2>1. old \ {Terminal} \subseteq S
    BY <1>3 DEF WorklistInv
  <2>2. n \in S
    BY <1>1, <1>4, <2>1
  <2>3. children(n) \subseteq S
    BY <2>2 DEF ClosedIn
  <2> QED BY <1>5, <2>1, <2>3
<1>12. WorklistInv'
  BY <1>6, <1>7, <1>8, <1>9, <1>10, <1>11 DEF WorklistInv, Entry, Terminal
<1>13. FilterInv'
  BY <1>1, <1>2, <1>12 DEF FilterInv, ListEnds
<1>14. GraphTypeOK'
  BY <1>1 DEF GraphTypeOK, LastShapes
<1> QED BY <1>1, <1>2, <1>13, <1>14

\* The elements of a list that are in a set, in their order.
LEMMA KeptInOrder ==
  ASSUME NEW s \in Seq(Nat), IsInjective(s), s # <<>>, NEW R,
         R \subseteq ToSet(s), s[1] \in R, Last(s) \in R,
         NEW kept, kept = Ascending({k \in DOMAIN s : s[k] \in R}),
         NEW t, t = [k \in DOMAIN kept |-> s[kept[k]]]
  PROVE  /\ t \in Seq(Nat) /\ t # <<>>
         /\ IsInjective(t)
         /\ t[1] = s[1] /\ Last(t) = Last(s)
         /\ ToSet(t) = R
<1> DEFINE K == {k \in DOMAIN s : s[k] \in R}
           n == Len(s)
           m == Len(kept)
<1>1. n \in Nat /\ n >= 1 /\ DOMAIN s = 1 .. n
  OBVIOUS
<1>2. K \in SUBSET (1 .. n)
  BY <1>1
<1>3. PICK P \in SUBSET (1 .. n) : P = K
  BY <1>2
<1>4. /\ kept \in Seq(P)
      /\ ToSet(kept) = P
      /\ \A j, k \in DOMAIN kept : j < k => kept[j] < kept[k]
  BY <1>1, <1>3, AscendingSorts
<1>5. /\ m \in Nat /\ DOMAIN kept = 1 .. m
      /\ \A k \in 1 .. m : kept[k] \in P /\ kept[k] \in 1 .. n
      /\ \A p \in P : \E k \in 1 .. m : kept[k] = p
  <2>1. m \in Nat /\ DOMAIN kept = 1 .. m /\ \A k \in 1 .. m : kept[k] \in P
    BY <1>4, SeqElements, Zenon
  <2>2. \A p \in P : \E k \in DOMAIN kept : kept[k] = p
    BY <1>4 DEF ToSet
  <2> QED BY <2>1, <2>2
<1>6. \A k \in 1 .. n : k \in P <=> s[k] \in R
  BY <1>1, <1>3
<1>7. \A j, k \in 1 .. m : j < k => kept[j] < kept[k]
  BY <1>4, <1>5
<1> HIDE DEF K, n, m
<1>8. PICK u \in Seq(Nat) :
        u = t /\ DOMAIN u = 1 .. m /\ Len(u) = m /\ \A k \in 1 .. m : u[k] = s[kept[k]]
  <2>1. t = [k \in 1 .. m |-> s[kept[k]]]
    BY <1>5
  <2>2. \A k \in 1 .. m : s[kept[k]] \in Nat
    BY <1>1, <1>5 DEF n
  <2>3. m \in Nat
    BY <1>5
  <2>4. t \in [1 .. m -> Nat]
    BY <2>1, <2>2
  <2>5. t \in Seq(Nat) /\ DOMAIN t = 1 .. m /\ Len(t) = m
    BY <2>3, <2>4
  <2> QED BY <2>1, <2>5
<1>9. \A j, k \in 1 .. m : kept[j] = kept[k] => j = k
  <2> SUFFICES ASSUME NEW j \in 1 .. m, NEW k \in 1 .. m, kept[j] = kept[k] PROVE j = k
    OBVIOUS
  <2>1. kept[j] \in 1 .. n /\ kept[k] \in 1 .. n
    BY <1>5
  <2>2. ~(kept[j] < kept[k]) /\ ~(kept[k] < kept[j])
    BY <1>1, <2>1
  <2>3. ~(j < k) /\ ~(k < j)
    BY <1>7, <2>2, Zenon
  <2>4. j \in Int /\ k \in Int
    BY <1>5
  <2> QED BY <2>3, <2>4
<1>10. IsInjective(u)
  <2>1. ASSUME NEW j \in 1 .. m, NEW k \in 1 .. m, u[j] = u[k] PROVE j = k
    <3>1. s[kept[j]] = s[kept[k]] /\ kept[j] \in DOMAIN s /\ kept[k] \in DOMAIN s
      BY <1>1, <1>5, <1>8, <2>1
    <3>2. kept[j] = kept[k]
      BY <3>1 DEF IsInjective
    <3> QED BY <1>9, <3>2
  <2>2. DOMAIN u = 1 .. m
    BY <1>8
  <2> QED BY <2>1, <2>2 DEF IsInjective
<1>11. ToSet(u) = R
  <2>1. \A k \in 1 .. m : u[k] \in R
    BY <1>5, <1>6, <1>8
  <2>2. ASSUME NEW x \in R PROVE \E k \in 1 .. m : u[k] = x
    <3>1. PICK p \in 1 .. n : s[p] = x
      BY <1>1 DEF ToSet
    <3>2. PICK k \in 1 .. m : kept[k] = p
      BY <1>5, <1>6, <3>1
    <3> QED BY <1>8, <3>1, <3>2
  <2>3. DOMAIN u = 1 .. m
    BY <1>8
  <2> QED BY <2>1, <2>2, <2>3 DEF ToSet
<1>12. u[1] = s[1] /\ m >= 1
  <2>1. 1 \in P
    BY <1>1, <1>6
  <2>2. PICK k \in 1 .. m : kept[k] = 1
    BY <1>5, <2>1
  <2>3. 1 \in 1 .. m /\ kept[1] \in 1 .. n
    BY <1>5, <2>2
  <2>4. k = 1
    BY <1>5, <1>7, <2>2, <2>3
  <2> QED BY <1>5, <1>8, <2>2, <2>3, <2>4
<1>13. Last(u) = Last(s)
  <2>1. n \in P /\ Last(s) = s[n]
    BY <1>1, <1>6 DEF Last, n
  <2>2. PICK k \in 1 .. m : kept[k] = n
    BY <1>5, <2>1
  <2>3. m \in 1 .. m /\ kept[m] \in 1 .. n
    BY <1>5, <1>12
  <2>4. ~(kept[k] < kept[m])
    BY <1>1, <2>2, <2>3
  <2>5. k = m
    <3>1. ~(k < m)
      BY <1>7, <2>3, <2>4
    <3> QED BY <1>5, <3>1
  <2> QED BY <1>8, <2>1, <2>2, <2>3, <2>5 DEF Last
<1>14. u # <<>>
  BY <1>8, <1>12
<1> QED BY <1>8, <1>10, <1>11, <1>12, <1>13, <1>14

\* The filter keeps what was popped.
LEMMA FilterStep ==
  ASSUME GraphTypeOK, Walked, FilterInv, FilterNodes
  PROVE  GraphTypeOK' /\ Walked' /\ FilteredInv' /\ pc' = "done"
<1> DEFINE kept == Ascending({k \in DOMAIN list : list[k] \in reachable_nodes})
<1>1. /\ queue = {}
      /\ list' = [k \in DOMAIN kept |-> list[kept[k]]]
      /\ pc' = "done"
      /\ UNCHANGED <<blocks, trivial, nodes, stack, succ, table, i, copies, queue, reachable_nodes>>
  BY DEF FilterNodes, walkVars
<1>2. /\ HasNode' = HasNode /\ NodeBlocks' = NodeBlocks
      /\ AllNodes' = AllNodes
      /\ IsFragment' = IsFragment
      /\ \A m : children(m)' = children(m)
      /\ ClosedIn(AllNodes)' = ClosedIn(AllNodes)
      /\ CopiesOK(NodeBlocks)'
      /\ Walked'
  BY <1>1, FilterKeeps DEF FilterInv
<1>3. /\ list \in Seq(Nat) /\ IsInjective(list) /\ list # <<>>
      /\ reachable_nodes \subseteq ToSet(list)
      /\ list[1] \in reachable_nodes /\ Last(list) \in reachable_nodes
      /\ list[1] = Entry /\ Last(list) = Terminal
  BY <1>1 DEF GraphTypeOK, FilterInv, ListEnds, WorklistInv
<1>4. PICK q : q = kept
  OBVIOUS
<1>5. list' = [k \in DOMAIN q |-> list[q[k]]]
  BY <1>1, <1>4
<1>6. /\ list' \in Seq(Nat) /\ list' # <<>>
      /\ IsInjective(list')
      /\ list'[1] = list[1] /\ Last(list') = Last(list)
      /\ ToSet(list') = reachable_nodes
  BY <1>3, <1>4, <1>5, KeptInOrder
<1>7. ListEnds'
  <2>1. Last(list)' = Last(list')
    BY DEF Last
  <2> QED BY <1>3, <1>6, <2>1 DEF ListEnds, Entry, Terminal
<1>8. WorklistInv'
  BY <1>1, <1>2 DEF FilterInv, WorklistInv, Entry, Terminal
<1>9. FilteredInv'
  BY <1>1, <1>2, <1>6, <1>7, <1>8 DEF FilteredInv, FilterInv
<1>10. GraphTypeOK'
  BY <1>1, <1>6 DEF GraphTypeOK, LastShapes
<1> QED BY <1>1, <1>2, <1>9, <1>10

-----------------------------------------------------------------------------
(* The invariant of the whole pass.                                        *)

\* Before the walk only the TerminalNode has a node.
LEMMA GraphInvInit == Init => GraphInv
<1> SUFFICES ASSUME Init PROVE GraphInv
  OBVIOUS
<1>1. GraphTypeOK
  BY TerminalFacts DEF Init, GraphTypeOK
<1>2. nodes = <<Terminal>> /\ stack = <<>> /\ pc = "walk"
  BY DEF Init
<1>3. HasNode = {Terminal} /\ NodeBlocks = {} /\ IsInjective(nodes)
  BY <1>2 DEF HasNode, NodeBlocks, ToSet, IsInjective
<1>4. NodesOK
  BY <1>3 DEF NodesOK, Init
<1>5. StackOK
  BY <1>2 DEF StackOK, IsInjective, ToSet
<1>6. EdgesOK
  BY <1>3 DEF EdgesOK
<1>7. WalkInv
  BY <1>4, <1>5, <1>6 DEF WalkInv, Init
<1> QED BY <1>1, <1>2, <1>7 DEF GraphInv, Built

\* The invariant depends on nothing but the variables.
LEMMA GraphInvKept ==
  ASSUME GraphInv, UNCHANGED vars
  PROVE  GraphInv'
<1>1. UNCHANGED <<blocks, trivial, nodes, stack, succ, table, list, i, copies, queue, reachable_nodes, pc>>
  BY DEF vars, walkVars, dupVars
<1>2. /\ HasNode' = HasNode /\ NodeBlocks' = NodeBlocks
      /\ AllNodes' = AllNodes
      /\ IsFragment' = IsFragment
      /\ \A m : children(m)' = children(m)
      /\ ClosedIn(AllNodes)' = ClosedIn(AllNodes)
      /\ CopiesOK(NodeBlocks) => CopiesOK(NodeBlocks)'
      /\ Walked => Walked'
  BY <1>1, FilterKeeps
<1>3. \A c : Edges(c)' = Edges(c) /\ (Premature(c)' <=> Premature(c))
  BY <1>1, StaticKept
<1>4. GraphTypeOK'
  BY <1>1 DEF GraphInv, GraphTypeOK, LastShapes
<1>5. WalkInv => WalkInv'
  <2> SUFFICES ASSUME WalkInv PROVE WalkInv'
    OBVIOUS
  <2>1. NodesOK'
    BY <1>1, NodesKept DEF WalkInv, GraphInv
  <2>2. StackOK' /\ EdgesOK'
    BY <1>1, <1>2, <1>3 DEF WalkInv, StackOK, EdgesOK, Blocks
  <2> QED BY <1>1, <2>1, <2>2 DEF WalkInv
<1>6. SortedList => SortedList'
  BY <1>1, <1>2 DEF SortedList
<1>7. DupInv => DupInv'
  <2> SUFFICES ASSUME DupInv PROVE DupInv'
    OBVIOUS
  <2> DEFINE S == {list[j] : j \in 1 .. i - 1}
  <2>1. CopiesOK(S)
    BY DEF DupInv
  <2>2. S' = S
    BY <1>1
  <2>3. ToSet(copies') = {b \in S' \cap Blocks : Premature(b)'}
    BY <1>1, <1>3, <2>1, <2>2 DEF CopiesOK
  <2>4. \A b \in NodeBlocks' \ ToSet(copies') : succ'[b] = Edges(b)'
    BY <1>1, <1>2, <1>3, <2>1 DEF CopiesOK
  <2>5. CopiesOK(S)'
    BY <1>1, <2>1, <2>3, <2>4 DEF CopiesOK, Blocks, Terminal
  <2> QED BY <1>1, <1>2, <1>6, <2>5 DEF DupInv
<1>8. WorklistInv => WorklistInv'
  BY <1>1, <1>2 DEF WorklistInv, Entry, Terminal
<1>9. ListEnds => ListEnds'
  BY <1>1 DEF ListEnds, Entry, Terminal
<1>10. FilterInv => FilterInv'
  BY <1>1, <1>2, <1>8, <1>9 DEF FilterInv
<1>11. FragmentInv => FragmentInv'
  BY <1>1, <1>2, <1>3, <1>6 DEF FragmentInv
<1>12. FilteredInv => FilteredInv'
  BY <1>1, <1>2, <1>8, <1>9 DEF FilteredInv
<1> QED BY <1>1, <1>2, <1>4, <1>5, <1>7, <1>10, <1>11, <1>12 DEF GraphInv, Built

\* Every step keeps the invariant.
LEMMA GraphInvStep == GraphInv /\ [Next]_vars => GraphInv'
<1> SUFFICES ASSUME GraphInv, [Next]_vars PROVE GraphInv'
  OBVIOUS
<1>1. GraphTypeOK
  BY DEF GraphInv
<1>2. ASSUME pc = "walk", pc' \in {"walk", "failed"}, GraphTypeOK', WalkInv' PROVE GraphInv'
  BY <1>2 DEF GraphInv, Built
<1>3. CASE EnterBlock
  <2>1. pc = "walk" /\ pc' = pc /\ WalkInv
    BY <1>3 DEF EnterBlock, Calling, GraphInv
  <2> QED BY <1>1, <1>2, <1>3, <2>1, EnterStep
<1>4. CASE KnownBlock
  <2>1. pc = "walk" /\ pc' = pc /\ WalkInv
    BY <1>4 DEF KnownBlock, Calling, GraphInv
  <2> QED BY <1>1, <1>2, <1>4, <2>1, KnownStep
<1>5. CASE DecompFailure
  <2>1. pc = "walk" /\ pc' = "failed" /\ WalkInv
    BY <1>5 DEF DecompFailure, Calling, GraphInv
  <2> QED BY <1>1, <1>2, <1>5, <2>1, FailureStep
<1>6. CASE ReturnNode
  <2>1. pc = "walk" /\ pc' = pc /\ WalkInv
    BY <1>6 DEF ReturnNode, GraphInv
  <2> QED BY <1>1, <1>2, <1>6, <2>1, ReturnStep
<1>7. CASE SortNodes
  <2>1. WalkInv
    BY <1>7 DEF SortNodes, GraphInv
  <2>2. /\ GraphTypeOK' /\ Walked'
        /\ \/ pc' = "duplicate" /\ DupInv'
           \/ pc' = "done" /\ FragmentInv'
    BY <1>1, <1>7, <2>1, SortStep
  <2> QED BY <2>2 DEF GraphInv, Built
<1>8. CASE DuplicateReturn
  <2>1. pc = "duplicate" /\ DupInv /\ Walked
    BY <1>8 DEF DuplicateReturn, GraphInv, Built
  <2>2. GraphTypeOK' /\ Walked' /\ DupInv' /\ pc' = pc
    BY <1>1, <1>8, <2>1, DuplicateStep
  <2> QED BY <2>1, <2>2 DEF GraphInv, Built
<1>9. CASE AddCopies
  <2>1. DupInv /\ Walked
    BY <1>9 DEF AddCopies, GraphInv, Built
  <2>2. GraphTypeOK' /\ Walked' /\ FilterInv' /\ pc' = "filter"
    BY <1>1, <1>9, <2>1, AddCopiesStep
  <2> QED BY <2>2 DEF GraphInv, Built
<1>10. CASE \E n \in 1 .. 2 * N : PopQueue(n)
  <2>1. PICK n : PopQueue(n)
    BY <1>10
  <2>2. pc = "filter" /\ FilterInv /\ Walked
    BY <2>1 DEF PopQueue, GraphInv, Built
  <2>3. GraphTypeOK' /\ Walked' /\ FilterInv' /\ pc' = pc
    BY <1>1, <2>1, <2>2, PopStep
  <2> QED BY <2>2, <2>3 DEF GraphInv, Built
<1>11. CASE FilterNodes
  <2>1. FilterInv /\ Walked
    BY <1>11 DEF FilterNodes, GraphInv, Built
  <2>2. GraphTypeOK' /\ Walked' /\ FilteredInv' /\ pc' = "done"
    BY <1>1, <1>11, <2>1, FilterStep
  <2> QED BY <2>2 DEF GraphInv, Built
<1>12. CASE Ended \/ UNCHANGED vars
  BY <1>12, GraphInvKept DEF Ended
<1> QED BY <1>3, <1>4, <1>5, <1>6, <1>7, <1>8, <1>9, <1>10, <1>11, <1>12 DEF Next

\* The walk of build_nodes, duplicate_premature_returns and the filter keep the
\* invariant above at every step.
THEOREM GraphInvariant == Spec => []GraphInv
  BY GraphInvInit, GraphInvStep, PTL DEF Spec

-----------------------------------------------------------------------------
(* What the invariant means for the callers.                               *)

\* The walk builds the graph of the blocks.
LEMMA InvMatchesBlocks == GraphInv => GraphMatchesBlocks
<1> SUFFICES ASSUME GraphInv PROVE GraphMatchesBlocks
  OBVIOUS
<1>1. GraphTypeOK /\ pc \in {"walk", "failed", "duplicate", "filter", "done"}
  BY DEF GraphInv, GraphTypeOK
<1>2. ASSUME Walked, \A b \in NodeBlocks : succ[b] = Edges(b)
      PROVE  /\ IsInjective(nodes)
             /\ ToSet(nodes) = Reachable \cup {Terminal}
             /\ \A b \in Reachable : succ[b] = Edges(b)
  <2>1. \A b \in Reachable : b \in NodeBlocks
    BY <1>2, TerminalFacts DEF Walked, NodeBlocks, Reachable
  <2> QED BY <1>2, <2>1 DEF Walked, HasNode
<1>3. CASE pc = "duplicate" /\ i = 1
  <2>1. Walked /\ DupInv
    BY <1>3 DEF GraphInv, Built
  <2>2. {list[j] : j \in 1 .. i - 1} = {}
    BY <1>3
  <2>3. ToSet(copies) = {}
    BY <2>1, <2>2 DEF DupInv, CopiesOK
  <2>4. \A b \in NodeBlocks : succ[b] = Edges(b)
    BY <2>1, <2>3 DEF DupInv, CopiesOK
  <2> QED BY <1>2, <1>3, <2>1, <2>4 DEF GraphMatchesBlocks, Walked, IsInjective
<1>4. CASE pc = "done" /\ IsFragment
  <2>1. Walked /\ FragmentInv
    BY <1>4 DEF GraphInv, Built, FilteredInv
  <2> QED BY <1>2, <1>4, <2>1 DEF GraphMatchesBlocks, FragmentInv, Walked, IsInjective
<1>5. CASE pc \in {"walk", "failed"}
  <2>1. WalkInv /\ stack \in Seq(Blocks)
    BY <1>5 DEF GraphInv, GraphTypeOK
  <2>2. ASSUME NEW k \in 1 .. Len(stack) - 1
        PROVE  stack[k + 1] \in Successors(stack[k])
    <3>1. k \in 1 .. Len(stack) /\ Len(stack) \in Nat
      BY <2>1
    <3>2. PICK b \in Blocks : b = stack[k]
      BY <2>1, <3>1
    <3>3. Len(succ[b]) < Len(Edges(b)) /\ stack[k + 1] = Edges(b)[Len(succ[b]) + 1]
      BY <2>1, <3>2 DEF WalkInv, StackOK
    <3>4. b \in NodeBlocks
      <4>1. b \in ToSet(stack)
        BY <2>1, <3>1, <3>2 DEF ToSet
      <4> QED BY <2>1, <4>1, TerminalFacts DEF WalkInv, StackOK, NodeBlocks
    <3>5. Edges(b) \in Seq(Labels) /\ Successors(b) = ToSet(Edges(b))
      BY <1>1, <2>1, <3>4, EdgesType DEF WalkInv, NodesOK
    <3>6. Len(succ[b]) \in Nat
      <4>1. succ[b] \in Seq(Nat)
        BY <1>1 DEF GraphTypeOK
      <4> QED BY <4>1
    <3>7. Len(succ[b]) + 1 \in DOMAIN Edges(b)
      BY <3>3, <3>5, <3>6
    <3>8. stack[k + 1] \in ToSet(Edges(b))
      BY <3>3, <3>7 DEF ToSet
    <3> QED BY <3>2, <3>5, <3>8
  <2> QED BY <1>5, <2>1, <2>2 DEF GraphMatchesBlocks, WalkInv, StackOK
<1>6. CASE ~(pc = "duplicate" /\ i = 1) /\ ~(pc = "done" /\ IsFragment) /\ pc \notin {"walk", "failed"}
  <2>1. stack = <<>>
    BY <1>1, <1>6 DEF GraphInv, Built, Walked
  <2> QED BY <1>6, <2>1 DEF GraphMatchesBlocks, IsInjective
<1> QED BY <1>3, <1>4, <1>5, <1>6

\* Sets that are closed under the edges of the nodes hold everything reachable.
LEMMA ReachableInClosed ==
  ASSUME GraphTypeOK, Walked, \A b \in NodeBlocks : succ[b] = Edges(b),
         NEW S \in ClosedIn(HasNode)
  PROVE  NodeBlocks \subseteq S
<1>1. S \subseteq Blocks \cup {Terminal} /\ Entry \in S
  BY NodeBlocksAreBlocks DEF ClosedIn
<1>2. ASSUME NEW b \in S \cap Blocks PROVE Successors(b) \subseteq S
  <2>1. b \in NodeBlocks /\ b # Terminal /\ b \in Blocks
    BY TerminalFacts DEF ClosedIn, NodeBlocks
  <2>2. Successors(b) = ToSet(succ[b])
    BY <2>1 DEF Walked
  <2>3. CASE IsReturn(b)
    <3>1. blocks[b].kind = "return"
      BY <2>1, <2>3, TerminalFacts DEF IsReturn
    <3>2. Edges(b) = <<>>
      BY <2>1, <3>1, EdgesType
    <3>3. ToSet(succ[b]) = {}
      BY <2>1, <3>2 DEF ToSet
    <3> QED BY <2>2, <3>3
  <2>4. CASE ~IsReturn(b)
    <3>1. children(b) = ToSet(succ[b])
      BY <2>1, <2>4 DEF children
    <3> QED BY <2>2, <3>1 DEF ClosedIn
  <2> QED BY <2>3, <2>4
<1>3. S \in ClosedSets
  BY <1>1, <1>2 DEF ClosedSets
<1>4. Reachable \subseteq S
  BY <1>3 DEF Reachable, ClosedSets
<1> QED BY <1>4 DEF Walked, NodeBlocks

\* The list is closed under edges and holds nothing else.
LEMMA InvListIsClosed == GraphInv => ListIsClosed
<1> SUFFICES ASSUME GraphInv PROVE ListIsClosed
  OBVIOUS
<1>1. GraphTypeOK /\ pc \in {"walk", "failed", "duplicate", "filter", "done"}
  BY DEF GraphInv, GraphTypeOK
<1>2. queue \cap reachable_nodes = {}
  BY <1>1 DEF GraphInv, WalkInv, DupInv, FilterInv, FragmentInv, FilteredInv, WorklistInv
<1>3. CASE pc # "done"
  BY <1>2, <1>3 DEF ListIsClosed
<1>4. CASE pc = "done" /\ FragmentInv
  <2>1. Walked
    BY <1>4 DEF GraphInv, Built
  <2>2. /\ IsInjective(list) /\ list[1] = Entry /\ Last(list) = Terminal
        /\ ToSet(list) = HasNode
    BY <1>1, <1>4, <2>1, SortedFacts DEF FragmentInv, SortedList, Last
  <2>3. AllNodes = HasNode /\ CopiesOK({})
    <3>1. DOMAIN copies = {} /\ ToSet(copies) = {} /\ IsInjective(copies)
      BY <1>4 DEF FragmentInv, ToSet, IsInjective
    <3> QED BY <1>4, <3>1 DEF AllNodes, CopiesOK, FragmentInv
  <2>4. \A n \in HasNode : children(n) \subseteq HasNode
    BY <1>1, <2>1, <2>3, ChildrenListed
  <2>5. ASSUME NEW S \in SUBSET HasNode, Entry \in S, \A n \in S : children(n) \subseteq S
        PROVE  HasNode \ {Terminal} \subseteq S
    <3>1. S \in ClosedIn(HasNode)
      BY <2>5 DEF ClosedIn
    <3> QED BY <1>1, <1>4, <2>1, <3>1, ReachableInClosed DEF FragmentInv, NodeBlocks
  <2> QED BY <1>2, <2>2, <2>4, <2>5 DEF ListIsClosed
<1>5. CASE pc = "done" /\ FilteredInv
  <2>1. /\ ListEnds /\ ToSet(list) = reachable_nodes /\ WorklistInv /\ queue = {}
    BY <1>5 DEF FilteredInv
  <2>2. \A n \in reachable_nodes : children(n) \subseteq reachable_nodes
    BY <2>1 DEF WorklistInv
  <2>3. ASSUME NEW S \in SUBSET reachable_nodes, Entry \in S, \A n \in S : children(n) \subseteq S
        PROVE  reachable_nodes \ {Terminal} \subseteq S
    <3>1. S \in ClosedIn(AllNodes)
      BY <2>1, <2>3 DEF ClosedIn, WorklistInv
    <3> QED BY <2>1, <3>1 DEF WorklistInv
  <2> QED BY <1>2, <2>1, <2>2, <2>3 DEF ListIsClosed, ListEnds
<1> QED BY <1>1, <1>3, <1>4, <1>5 DEF GraphInv

\* With each copy read as the final return, the edges are those of the block.
LEMMA CopiesReadBack ==
  ASSUME GraphTypeOK, Walked, NEW seen, CopiesOK(seen), NEW b \in NodeBlocks
  PROVE  [k \in DOMAIN succ[b] |-> IF succ[b][k] > Terminal THEN FinalBlock ELSE succ[b][k]]
           = Edges(b)
<1>1. CASE b \in ToSet(copies)
  <2>1. PICK j \in DOMAIN copies : copies[j] = b
    BY <1>1 DEF ToSet
  <2>2. succ[b] = <<Terminal + j>> /\ Premature(b)
    BY <1>1, <2>1 DEF CopiesOK
  <2>3. j \in Nat /\ j > 0
    BY DEF GraphTypeOK
  <2>4. Terminal + j > Terminal
    BY <2>3, TerminalFacts
  <2>5. b \in Blocks /\ blocks[b].kind \in {"fall", "jump"} /\ Edges(b)[1] = FinalBlock
    BY <2>2 DEF Premature, IsBasic
  <2>6. Edges(b) \in Seq(Labels) /\ Len(Edges(b)) = 1
    BY <2>5, EdgesType
  <2>7. Edges(b) = <<FinalBlock>>
    BY <2>5, <2>6
  <2> QED BY <2>2, <2>4, <2>7
<1>2. CASE b \notin ToSet(copies)
  <2>1. succ[b] = Edges(b) /\ Edges(b) \in Seq(HasNode)
    BY <1>2 DEF CopiesOK, Walked
  <2>2. PICK e \in Seq(HasNode) : e = Edges(b)
    BY <2>1
  <2>3. \A k \in DOMAIN e : ~(e[k] > Terminal)
    <3>1. \A x \in HasNode : ~(x > Terminal)
      BY NodeBlocksAreBlocks, TerminalFacts
    <3>2. \A k \in DOMAIN e : e[k] \in HasNode
      OBVIOUS
    <3> QED BY <3>1, <3>2
  <2>4. e = [k \in DOMAIN e |-> e[k]]
    OBVIOUS
  <2>5. [k \in DOMAIN e |-> IF e[k] > Terminal THEN FinalBlock ELSE e[k]] = e
    BY <2>3, <2>4
  <2> QED BY <2>1, <2>2, <2>5
<1> QED BY <1>1, <1>2

\* Only the node it was made for leads to a copy.
LEMMA CopyParent ==
  ASSUME GraphTypeOK, Walked, NEW seen, CopiesOK(seen), NEW j \in DOMAIN copies,
         NEW m \in AllNodes, Terminal + j \in children(m)
  PROVE  m = copies[j]
<1>1. DOMAIN copies = 1 .. Len(copies) /\ Len(copies) \in Nat
  BY DEF GraphTypeOK
<1>2. \A k \in DOMAIN copies : Terminal + k > Terminal /\ Terminal + k \notin HasNode
  BY <1>1, NodeBlocksAreBlocks, TerminalFacts
<1>3. m # Terminal /\ ~IsReturn(m)
  <2>1. Terminal + j # Terminal
    BY <1>1, TerminalFacts
  <2> QED BY <2>1 DEF children
<1>4. m \in NodeBlocks /\ Terminal + j \in ToSet(succ[m])
  <2>1. \A k \in DOMAIN copies : IsReturn(Terminal + k)
    BY <1>2 DEF IsReturn
  <2> QED BY <1>3, <2>1 DEF AllNodes, NodeBlocks, children
<1>5. m \in ToSet(copies)
  <2> SUFFICES ASSUME m \notin ToSet(copies) PROVE FALSE
    OBVIOUS
  <2>1. succ[m] \in Seq(HasNode)
    BY <1>4 DEF CopiesOK, Walked
  <2>2. ToSet(succ[m]) \subseteq HasNode
    BY <2>1 DEF ToSet
  <2> QED BY <1>2, <1>4, <2>2
<1>6. PICK k \in DOMAIN copies : copies[k] = m
  BY <1>5 DEF ToSet
<1>7. succ[m] = <<Terminal + k>>
  BY <1>6 DEF CopiesOK
<1>8. ToSet(succ[m]) = {Terminal + k}
  BY <1>7 DEF ToSet
<1>9. Terminal + j = Terminal + k
  BY <1>4, <1>8
<1>10. j = k
  BY <1>1, <1>9, TerminalFacts
<1> QED BY <1>6, <1>10

\* The copies keep every path and have one parent each.
LEMMA InvCopiesKeepPaths == GraphInv => CopiesKeepPaths
<1> SUFFICES ASSUME GraphInv PROVE CopiesKeepPaths
  OBVIOUS
<1>1. GraphTypeOK
  BY DEF GraphInv
<1>2. ASSUME Built
      PROVE  \A b \in ToSet(nodes) \ {Terminal} :
               [k \in DOMAIN succ[b] |-> IF succ[b][k] > Terminal THEN FinalBlock ELSE succ[b][k]]
                 = Edges(b)
  <2>1. Walked
    BY <1>2 DEF GraphInv
  <2>2. PICK seen : CopiesOK(seen)
    <3>1. CASE pc = "duplicate"
      BY <3>1 DEF GraphInv, DupInv
    <3>2. CASE pc = "filter" \/ FilteredInv
      BY <3>2 DEF GraphInv, FilterInv, FilteredInv
    <3>3. CASE FragmentInv
      <4>1. DOMAIN copies = {} /\ ToSet(copies) = {} /\ IsInjective(copies)
        BY <3>3 DEF FragmentInv, ToSet, IsInjective
      <4>2. CopiesOK({})
        BY <3>3, <4>1 DEF CopiesOK, FragmentInv
      <4> QED BY <4>2
    <3> QED BY <1>2, <3>1, <3>2, <3>3 DEF GraphInv, Built
  <2> QED BY <1>1, <2>1, <2>2, CopiesReadBack DEF NodeBlocks, HasNode
<1>3. ASSUME pc = "done", ~IsFragment
      PROVE  LET parents(n) == {m \in ToSet(list) : n \in children(m)}
                 before     == {b \in ToSet(nodes) \ {Terminal} : b < FinalBlock}
             IN /\ \A n \in ToSet(list) : n > Terminal => Cardinality(parents(n)) = 1
                /\ trivial /\ blocks[FinalBlock].kind = "return" =>
                     \A b \in parents(FinalBlock) :
                       IsBasic(b) => b = Max(before) \/ blocks[b].emit_goto
  <2> DEFINE parents(n) == {m \in ToSet(list) : n \in children(m)}
             before == {b \in ToSet(nodes) \ {Terminal} : b < FinalBlock}
  <2>1. Walked /\ FilteredInv
    BY <1>3 DEF GraphInv, Built, FragmentInv
  <2>2. CopiesOK(NodeBlocks) /\ ToSet(list) = reachable_nodes /\ WorklistInv /\ queue = {}
    BY <2>1 DEF FilteredInv
  <2>3. ToSet(list) \subseteq AllNodes
    BY <2>2 DEF WorklistInv
  <2>4. DOMAIN copies = 1 .. Len(copies) /\ Len(copies) \in Nat
    BY <1>1 DEF GraphTypeOK
  <2>5. ASSUME NEW n \in ToSet(list), n > Terminal
        PROVE  Cardinality(parents(n)) = 1
    <3>1. n \notin HasNode /\ n # Entry /\ n # Terminal
      BY <1>1, <2>5, NodeBlocksAreBlocks, TerminalFacts
    <3>2. PICK j \in DOMAIN copies : n = Terminal + j
      BY <2>3, <3>1 DEF AllNodes
    <3>3. PICK m \in reachable_nodes : n \in children(m)
      BY <2>2, <3>1 DEF WorklistInv
    <3>4. \A x \in parents(n) : x = copies[j]
      BY <1>1, <2>1, <2>2, <2>3, <3>2, CopyParent
    <3>5. parents(n) = {copies[j]}
      BY <2>2, <3>3, <3>4
    <3> HIDE DEF parents
    <3> QED BY <3>5, FS_Singleton
  <2>6. ASSUME trivial, blocks[FinalBlock].kind = "return",
               NEW b \in parents(FinalBlock), IsBasic(b), ~blocks[b].emit_goto
        PROVE  b = Max(before)
    <3>1. b \in AllNodes /\ FinalBlock \in children(b) /\ b \in Blocks
      BY <2>3, <2>6 DEF IsBasic
    <3>2. b \in NodeBlocks
      <4>1. \A k \in DOMAIN copies : Terminal + k \notin Blocks
        BY <2>4, TerminalFacts
      <4> QED BY <3>1, <4>1, TerminalFacts DEF AllNodes, NodeBlocks
    <3>3. FinalBlock \in ToSet(succ[b])
      <4>1. b # Terminal /\ FinalBlock # Terminal
        BY <1>1, <2>1, <3>1, FinalFacts, TerminalFacts
      <4> QED BY <3>1, <4>1 DEF children
    <3>4. b \notin ToSet(copies)
      <4> SUFFICES ASSUME b \in ToSet(copies) PROVE FALSE
        OBVIOUS
      <4>1. PICK k \in DOMAIN copies : copies[k] = b
        BY DEF ToSet
      <4>2. succ[b] = <<Terminal + k>>
        BY <2>2, <4>1 DEF CopiesOK
      <4>3. FinalBlock = Terminal + k
        BY <3>3, <4>2 DEF ToSet
      <4> QED BY <1>1, <2>1, <2>4, <4>3, FinalFacts, TerminalFacts
    <3>5. succ[b] = Edges(b) /\ ~Premature(b)
      BY <2>2, <3>1, <3>2, <3>4 DEF CopiesOK
    <3>6. Edges(b) \in Seq(Labels) /\ Len(Edges(b)) = 1
      BY <1>1, <2>6, <3>1, EdgesType DEF IsBasic
    <3>7. Edges(b)[1] = FinalBlock
      BY <3>3, <3>5, <3>6 DEF ToSet
    <3>8. b = Max({c \in NodeBlocks : c < FinalBlock})
      BY <2>6, <3>5, <3>7 DEF Premature
    <3> QED BY <3>8 DEF NodeBlocks, HasNode
  <2> QED BY <2>5, <2>6
<1> QED BY <1>2, <1>3 DEF CopiesKeepPaths

\* After the walk exactly the blocks control can reach have a node, and every
\* edge leads where its jump goes; while build_graph_from_block recurses,
\* parent_blocks is a path from the entry without repetition.
THEOREM GraphCorrect == Spec => []GraphMatchesBlocks
  BY GraphInvariant, InvMatchesBlocks, PTL

\* duplicate_premature_returns changes no path, gives each copy one parent, and
\* leaves the trivial final return no other BasicNode than the one before it.
THEOREM CopiesCorrect == Spec => []CopiesKeepPaths
  BY GraphInvariant, InvCopiesKeepPaths, PTL

\* The list that build_nodes returns starts with the entry, ends with the
\* TerminalNode, and is closed and reachable; the worklist pops nothing twice.
THEOREM ListCorrect == Spec => []ListIsClosed
  BY GraphInvariant, InvListIsClosed, PTL
=============================================================================
