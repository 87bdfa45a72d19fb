----------------------------- MODULE InputsUses ------------------------------
(***************************************************************************)
(* compute_flowgraph_inputs_uses of m2c/flow_graph.py with the functions   *)
(* it calls (phi_loc_sources, locs_clobbered_until_dominator,              *)
(* FlowGraph.add_instruction_use) and FlowGraph.implicit_input_regs: the   *)
(* recursive walk over the dominator tree that finds, for every location   *)
(* an instruction reads, the instructions its value can come from.         *)
(*                                                                         *)
(* Nodes are 0 .. N-1, the entry first and the TerminalNode last; the      *)
(* immediate dominators are those FlowRelations shows compute_relations to *)
(* find.  A RefSet is a set: no caller looks at its order.                 *)
(***************************************************************************)
EXTENDS Integers, Sequences, FiniteSets, FiniteSetsExt, SequencesExt

CONSTANTS
  N,          \* number of nodes
  Locs,       \* locations: natural numbers
  Regs,       \* those that are registers: arch.all_regs
  ArgRegs,    \* arch.argument_regs
  ReturnRegs, \* arch.all_return_regs
  Functions,  \* sets of blocks: a function has its blocks from one of them
  Switches,   \* TRUE: nodes may have any number of successors
  EntryLoops  \* TRUE: the first block may be the target of a branch

ASSUME NAssumption == N \in Nat /\ N >= 2
ASSUME LocsAssumption ==
  /\ Locs \subseteq Nat
  /\ Regs \subseteq Locs
  /\ ArgRegs \cup ReturnRegs \subseteq Regs

\* A block is a list of instructions about these locations.
ASSUME FunctionsAssumption ==
  \A codes \in Functions : \A block \in codes :
    /\ block \in Seq(ToSet(block))
    /\ \A ir \in ToSet(block) :
         ir.ins \cup ir.outs \cup ir.clobs \subseteq Locs /\ ir.call \in BOOLEAN

Nodes    == 0 .. N - 1
Entry    == 0
Terminal == N - 1

VARIABLES
  succ, code, imdom, \* the FlowGraph: children(), blocks, immediate_dominator
  calls,             \* the calls of process_node, innermost last
  pc,
  processed,         \* nodes process_node has been called for
  instr_inputs,      \* pairs: use and location it reads, source
  instr_uses,        \* pairs: source and location it sets, use
  missing_regs

graphVars == <<succ, code, imdom>>
vars == <<graphVars, calls, pc, processed, instr_inputs, instr_uses, missing_regs>>

-----------------------------------------------------------------------------
(* The graph, and references into it: <<n, k>> is InstrRef of instruction k *)
(* of node n.                                                              *)

PrologueRef(l) == <<-1, l>>
EpilogueRef(l) == <<-2, l>>

parents(n) == {m \in Nodes : n \in succ[m]}

\* sorted(...): the k-th element has k - 1 smaller ones.
Ascending(S) ==
  [k \in 1 .. Cardinality(S) |-> CHOOSE b \in S : Cardinality({c \in S : c < b}) = k - 1]

immediately_dominates(n) == Ascending({m \in Nodes : imdom[m] = n})

\* What the edges next[n] lead to from start, in any number of steps.
Closure(start, next) ==
  LET within[k \in 0 .. N] ==
        IF k = 0 THEN start
        ELSE LET S == within[k - 1] IN S \cup UNION {next[n] : n \in S}
  IN  within[N]

\* Positions in n that set or clobber l.
Touches(n, l) == {k \in DOMAIN code[n] : l \in code[n][k].outs \cup code[n][k].clobs}

-----------------------------------------------------------------------------
(* What a node finds when control comes from more than its dominator.      *)

\* Mutant: a clobbering node is passed over.
PhiIgnoresClobbers(n, l, imdom_srcs) ==
  LET next    == [m \in Nodes |-> IF m = imdom[n] \/ Touches(m, l) # {} THEN {} ELSE parents(m)]
      seen    == Closure(parents(n), next)
      setters == {m \in seen \ {imdom[n]} : Touches(m, l) # {}}
  IN {<<m, Max(Touches(m, l))>> :
        m \in {k \in setters : l \in code[k][Max(Touches(k, l))].outs}}
       \cup (IF imdom[n] \in seen THEN imdom_srcs ELSE {})

\* phi_loc_sources: backwards from the parents, up to the immediate dominator
\* and the nodes that touch l.
phi_loc_sources(n, l, imdom_srcs) ==
  LET next    == [m \in Nodes |-> IF m = imdom[n] \/ Touches(m, l) # {} THEN {} ELSE parents(m)]
      seen    == Closure(parents(n), next)
      setters == {m \in seen \ {imdom[n]} : Touches(m, l) # {}}
      last(m) == Max(Touches(m, l))
  IN IF \/ imdom[n] \in seen /\ imdom_srcs = {}
        \/ \E m \in setters : l \notin code[m][last(m)].outs
     THEN {}
     ELSE {<<m, last(m)>> : m \in setters}
            \cup (IF imdom[n] \in seen THEN imdom_srcs ELSE {})

\* The locations touched by what lies between n and its immediate dominator.
locs_clobbered_until_dominator(n) ==
  LET next == [m \in Nodes |-> IF m = imdom[n] THEN {} ELSE parents(m)]
      seen == Closure(parents(n), next) \ {imdom[n]}
  IN {l \in Locs : \E m \in seen : Touches(m, l) # {}}

\* child_loc_srcs; a location without sources is one the dict does not have.
ChildSources(n, loc_srcs) ==
  [l \in Locs |-> IF l \in locs_clobbered_until_dominator(n)
                  THEN phi_loc_sources(n, l, loc_srcs[l]) ELSE loc_srcs[l]]

-----------------------------------------------------------------------------
(* process_node.  A call is at an instruction, then at the nodes it        *)
(* immediately dominates.                                                  *)

top  == Last(calls)
Busy == pc = "walk" /\ calls # <<>>

Call(n, loc_srcs) == [node |-> n, at |-> 1, child |-> 1, loc_srcs |-> loc_srcs]

SetTop(call) == calls' = Append(Front(calls), call)

\* add_instruction_use for every source of every <<use, location>> of reads.
AddUses(reads) ==
  LET edges == UNION {{<<r, src>> : src \in top.loc_srcs[r[2]]} : r \in reads}
  IN /\ instr_inputs' = instr_inputs \cup edges
     /\ instr_uses'   = instr_uses \cup {<<<<e[2], e[1][2]>>, e[1][1]>> : e \in edges}

ProcessInstruction ==
  /\ Busy
  /\ top.at <= Len(code[top.node])
  /\ LET ir  == code[top.node][top.at]
         ref == <<top.node, top.at>>
     IN /\ AddUses({<<ref, l>> : l \in ir.ins})
        /\ missing_regs' = missing_regs \cup
             {l \in ir.ins \cap Regs : top.loc_srcs[l] = {} /\ ~(ir.call /\ l \in ArgRegs)}
        /\ SetTop([top EXCEPT !.at = @ + 1,
                     !.loc_srcs = [l \in Locs |-> CASE l \in ir.outs -> {ref}
                                                    [] l \in ir.clobs \ ir.outs -> {}
                                                    [] OTHER -> @[l]]])
  /\ UNCHANGED <<graphVars, pc, processed>>

\* The TerminalNode depends on the return registers of the function.
ProcessTerminal ==
  /\ Busy
  /\ top.node = Terminal
  /\ top.at = 1
  /\ AddUses({<<EpilogueRef(l), l>> : l \in ReturnRegs})
  /\ SetTop([top EXCEPT !.at = @ + 1])
  /\ UNCHANGED <<graphVars, pc, processed, missing_regs>>

InstructionsDone == top.at > (IF top.node = Terminal THEN 1 ELSE Len(code[top.node]))

ProcessDominated ==
  /\ Busy
  /\ InstructionsDone
  /\ top.child <= Len(immediately_dominates(top.node))
  /\ LET n == immediately_dominates(top.node)[top.child]
     IN /\ calls' = Append(Append(Front(calls), [top EXCEPT !.child = @ + 1]),
                           Call(n, ChildSources(n, top.loc_srcs)))
        /\ processed' = Append(processed, n)
  /\ UNCHANGED <<graphVars, pc, instr_inputs, instr_uses, missing_regs>>

Return ==
  /\ Busy
  /\ InstructionsDone
  /\ top.child > Len(immediately_dominates(top.node))
  /\ calls' = Front(calls)
  /\ pc' = IF Len(calls) = 1 THEN "done" ELSE pc
  /\ UNCHANGED <<graphVars, processed, instr_inputs, instr_uses, missing_regs>>

\* Mutant: only registers the function never writes.
NeverWritten ==
  Regs \cap ((UNION {UNION {x.ins : x \in ToSet(code[n])} : n \in Nodes})
               \ (UNION {UNION {x.outs : x \in ToSet(code[n])} : n \in Nodes}))

\* FlowGraph.implicit_input_regs.
implicit_input_regs ==
  LET instrs  == UNION {ToSet(code[n]) : n \in Nodes}
      written == UNION {x.outs : x \in instrs}
      called  == {i \in instr_inputs : i[1][1][1] >= 0 /\ i[2][1] = -1}
  IN Regs \cap ({i[1][2] : i \in called}
                  \cup ((UNION {x.ins : x \in {y \in instrs : ~y.call}}) \ written)
                  \cup missing_regs)

-----------------------------------------------------------------------------
(* The graphs: what build_nodes and compute_relations hand over.           *)

Targets == IF EntryLoops THEN Nodes \ {Terminal} ELSE Nodes \ {Entry, Terminal}

Shapes ==
  IF Switches THEN (SUBSET Targets) \cup {{Terminal}}
  ELSE {{s, t} : s, t \in Targets} \cup {{Terminal}}

\* What the entry reaches.
Reached == Closure({Entry}, succ)

\* d dominates n: without d, the entry does not reach n.
Dominates(d, n) ==
  n \notin Closure({Entry} \ {d}, [m \in Nodes |-> succ[m] \ {d}])

ImmediateDominator(n) ==
  LET strict  == {d \in Nodes \ {n} : Dominates(d, n)}
      rank(d) == N * Cardinality({e \in Nodes : Dominates(e, d)}) + d
  IN CHOOSE d \in strict : \A e \in strict : rank(d) >= rank(e)

Init ==
  /\ \E shape \in [Nodes \ {Terminal} -> Shapes] :
       succ = [n \in Nodes |-> IF n = Terminal THEN {} ELSE shape[n]]
  /\ Nodes \ {Terminal} \subseteq Reached
  /\ imdom = [n \in Nodes |-> IF n = Entry THEN -1 ELSE ImmediateDominator(n)]
  /\ \E codes \in Functions : \E block \in [Nodes \ {Terminal} -> codes] :
       code = [n \in Nodes |-> IF n = Terminal THEN <<>> ELSE block[n]]
  /\ calls = <<Call(Entry, [l \in Locs |-> IF l \in Regs THEN {PrologueRef(l)} ELSE {}])>>
  /\ pc = "walk"
  /\ processed = <<Entry>>
  /\ instr_inputs = {}
  /\ instr_uses = {}
  /\ missing_regs = {}

Done == pc = "done" /\ UNCHANGED vars

Next == ProcessInstruction \/ ProcessTerminal \/ ProcessDominated \/ Return \/ Done

Spec == Init /\ [][Next]_vars

\* compute_flowgraph_inputs_uses takes the arguments for the only sources of the
\* first block.
EntryIsNoTarget == parents(Entry) = {}

-----------------------------------------------------------------------------
(* What instr_inputs must be, said forwards: along the paths of the graph.  *)

Unset == <<-3, 0>>

\* Nodes whose start is reached from `from` without a node that touches l.
Flow(from, l) ==
  Closure(from, [m \in Nodes |-> IF Touches(m, l) = {} THEN succ[m] ELSE {}])

\* Every value l can have when control comes to n: the last thing some path
\* from the entry did to l.
Arriving(n, l) ==
  {IF l \in code[m][Max(Touches(m, l))].outs THEN <<m, Max(Touches(m, l))>> ELSE Unset :
     m \in {m \in Nodes : Touches(m, l) # {} /\ n \in Flow(succ[m], l)}}
  \cup (IF n \in Flow({Entry}, l)
        THEN {IF l \in Regs THEN PrologueRef(l) ELSE Unset} ELSE {})

\* ... and before instruction k of n.
ValuesAt(n, k, l) ==
  LET before == {j \in Touches(n, l) : j < k}
  IN IF before = {} THEN Arriving(n, l)
     ELSE IF l \in code[n][Max(before)].outs THEN {<<n, Max(before)>>} ELSE {Unset}

Sources(n, k, l) == IF Unset \in ValuesAt(n, k, l) THEN {} ELSE ValuesAt(n, k, l)

InputsOf(use, l) == {i[2] : i \in {j \in instr_inputs : j[1] = <<use, l>>}}

\* "For each Reference, track the source References for each of its input
\* Locations": the sources found over the dominator tree are exactly the writes
\* that reach the read along some path, and none if some path leaves the
\* location unset.
SourcesExact ==
  pc = "done" =>
    /\ \A n \in Nodes : \A k \in DOMAIN code[n] : \A l \in code[n][k].ins :
         InputsOf(<<n, k>>, l) = Sources(n, k, l)
    /\ Terminal \in Reached =>
         \A l \in ReturnRegs : InputsOf(EpilogueRef(l), l) = Sources(Terminal, 1, l)

\* SourcesExact wherever the first block is not the target of a branch.
InputsExact == EntryIsNoTarget => SourcesExact

\* A register that some instruction other than a call can read before the
\* function has written it is reported as an implicit input.
ImplicitInputsComplete ==
  pc = "done" =>
    \A n \in Nodes : \A k \in DOMAIN code[n] : \A l \in code[n][k].ins \cap Regs :
      ~code[n][k].call /\ PrologueRef(l) \in ValuesAt(n, k, l)
        => l \in implicit_input_regs
=============================================================================
