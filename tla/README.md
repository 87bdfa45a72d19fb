# A TLA+ verification of m2c

m2c turns an assembly function into C. It is a pipeline of sequential passes over
one function at a time; what makes it hard is not concurrency between threads but
the number of shapes a function can have: labels in delay slots, loops entered in
the middle, infinite loops, jump tables found along the path by which a recursive
walk happened to come, fixpoints, worklists popped in the order of object ids,
idioms matched by patterns that overlap, redundant maps patched by hand, types that are
unified in the order in which the code happens to use them, and a cache file that
several processes share. The project models the passes from the source and
checks them on all small functions. Everything that happens between the basic blocks and the
finished flow graph (nodes, copies, relations, loops, fake edges, reducibility) and the driver is
also proved, for functions of any size; the cache is proved for any number of processes, as long as
those that use one cache file at the same time build the same from it. The cases in which the code
does not keep what its comments say are listed below under "Configurations that TLC refutes".

## Inventory

```
main.run
  -> c_types.build_typemap             context files, the pickled cache
  -> asm_file.parse_file               Function (labels, instructions), AsmData
  -> flow_graph.build_flowgraph
       build_blocks                    labels, delay slots -> basic blocks
         simplify_patterns             assembly idioms -> fictive instructions
       build_nodes                     blocks -> nodes, jump tables
       duplicate_premature_returns     copies of the final return
       compute_relations               dominators, postdominators, loops
       terminate_infinite_loops        fake edges, relations again
       compute_flowgraph_inputs_uses   who reads whose value
       arch.simplify_ir                IR patterns rewrite instructions
  -> translate.translate_to_ast        expressions, phis, variables, types
       arch.parse, evaluators          what an instruction reads and sets
       evaluate.*                      folding of expressions
       types.unify, get_field          types, structs
       arch.function_abi               arguments
  -> if_statements.get_function_text   structure and text
```

| Component | Module | State | Operations | What makes it correct |
|---|---|---|---|---|
| build_blocks | BuildBlocks | the body, iterator, BlockBuilder, branch-likely counts | minimize_labels, the GCC and IDO normalisations, process_delay_slots, process_no_delay_slots | the blocks do what the processor does; every branch finds one block |
| assembly patterns | AsmMatch, MipsPatterns, ArmPatterns, AsmRewrite | body, match index, output, matched_any | try_match, apply, one pass per pattern | the rewritten body does what the old one does; a register it no longer sets is marked |
| build_nodes, duplicate_premature_returns | BuildGraph | node list, edges, parent_blocks | build_graph_from_block, the sort, copies, filter | one node per reachable block, edges as written, copies change no path |
| compute_relations and friends | FlowRelations | dominator sets, immediate dominators, loops, fake edges | compute_dominators twice, loops, terminate_infinite_loops, is_reducible | the relations are the ones defined on the graph, at all times a later pass reads them |
| compute_flowgraph_inputs_uses | InputsUses | instr_inputs, instr_uses, missing_regs | process_node, phi_loc_sources, implicit_input_regs | the sources of a read are the writes that reach it |
| ir_pattern | IrPatterns | instructions and the two maps, candidates | match, moves, replaced tail, retired body | the maps are what a recomputation would give; values are kept |
| arch_*: parse and evaluators | Isa, MipsIsa, PpcIsa, ArmIsa, ShIsa | RegInfo | evaluate_instruction | what an evaluator reads and sets is what parse declares |
| arch_*: function_abi | Abi | argument slots | known slots, guessed slots | caller and callee agree; no slot is used twice |
| get_stack_info, get_stack_var | StackFrame | StackInfo: size, saved registers and their region, end of the arguments of calls | the scan of the first block, the scan of all loads and addresses, the region | saved registers, locals, arguments of calls and parameters are told apart |
| translate | Translate | RegInfo, EvalOnceExpr, phis, planned variables | translate blocks in dominator order, assign_naive_phis, passes | every use has a definition; side effects keep their order |
| evaluate | Evaluate | the expression of each register | the folds | an expression has the value of the instructions |
| types | Types, StructLayout | union-find of TypeData, signatures, structs | unify, get_field, get_deref_field, prune_structs | no fact is lost when unify fails halfway; a path denotes the bytes accessed |
| if_statements | Structure | Context: emitted_nodes, goto_nodes, case_nodes | build_body: build_flowgraph_between, conditions, loops, switches, build_naive | the C does what the graph does; every node emitted, every goto has its label |
| c_types | TypeMapCache, StructLayout | TypeMap, pickled cache | build_typemap, do_parse_struct | a cache hit equals a recomputation; layouts are those of C |
| main | Driver | functions, stored failures, return code | run | one failing function hurts no other |
| asm_file | none | sections, conditionals, data entries | parse_file | data and labels end up where the assembler puts them |

The behaviours that are hard here are listed with their source lines under
"hazards" in PROJECT.json. Objects in Python sets are hashed by identity, so every
`set.pop()` and every loop over a set is modelled as a choice of any member. Within
a process nothing runs concurrently; what survives a process, and is shared between
processes, is the context cache.

## Modules

* `FlowRelations`: compute_relations, terminate_infinite_loops, is_reducible.
  A node is its position in the sorted list (0 is the entry, N-1 the TerminalNode),
  a bitset of the code is a set of nodes. One step per visited node of a sweep,
  per sweep, per finished direction, per fake edge, per popped node.
  `FlowRelationsProofs`, `DominanceProofs`, `LoopProofs` and `ReducibleProofs` hold its
  theorems, each extending the one before.
* `BuildBlocks` (with `MCBuildBlocks`): build_blocks. The four passes over the
  body are one step each, as in the code, where each returns a new Function;
  process_delay_slots is one step per item. A register, operand or mnemonic is
  abstracted to what the passes ask about an instruction: its kind of jump, its
  targets, whether it may run twice, whether it is a compare, whether it overwrites
  the register a call goes through. Two instructions print alike iff they have the same `op`.
  When the blocks are built, a second phase runs the parsed body as the
  processor would (the slot runs after the condition is read and before control
  moves; that of a branch-likely only if the branch is taken) and the blocks in
  lock step: every condition, instruction, call and return of the one has to be
  matched by the other.
* `BuildGraph` (with `MCBuildGraph`): build_nodes, build_graph_from_block,
  duplicate_premature_returns. The Python recursion is the variable `stack`
  (parent_blocks plus the current block); how many edges a block has says which
  recursive call it is in. `BuildGraphProofs` holds its theorems.
* `InputsUses` (with `MCInputsUses`): compute_flowgraph_inputs_uses and
  implicit_input_regs. The recursion of process_node is the variable `calls`.
  Properties compare with reaching definitions stated forwards along paths.
  `InputsUsesProofs` holds its theorems.
* `Structure` (with `MCStructure`): build_body of if_statements. The code is a set
  of mutually recursive functions that change one Context; they are recursive
  operators here that pass the Context on, and the action BuildBody is one call of
  build_body. A node keeps what structuring asks of it: its kind and edges,
  whether it has statements to write, and the comparison its condition makes.
  All comparisons and jump tables of a graph are about one variable (other conditions
  are unrelated to it), table offsets are 0. The tree of statements is then flattened
  to what the printed text means in C, and RunNode runs the graph node by node
  and the text in lock step: statements, conditions read and returns have to
  come in the same order, for every value of the variable and either outcome of
  every other condition. An assertion that fails ends in "crashed".

* `IrPatterns` (with `MCIrPatterns`, EXTENDS `InputsUses`): simplify_ir_patterns. A
  step tries one candidate, a pattern and the instruction its tail would be: the
  match backwards over instr_inputs, the moves that save overwritten inputs, the
  replacement of the tail, the retirement of body instructions nothing else uses,
  and the hand-made patches of both maps. Instructions keep an identity (InstrRef),
  because inserted moves shift positions. A second phase then runs the old and the new code along
  one path. Ops and patterns are given as tables; the instance takes those
  of CmpnezPattern1 and Shar16Pattern.
* `Isa` with `MipsIsa`, `PpcIsa`, `ArmIsa`, `ShIsa` (and `MCIsa`): every ArchAsm says
  twice what an instruction does, once in parse (inputs, outputs, clobbers) and once
  in the evaluator that translate calls. The four modules give both for every class of
  instructions (mnemonics which share a branch of parse and read the same arguments
  are one class); `Isa` evaluates blocks of them through RegInfo.
* `Abi` (with `MCAbi`): function_abi of MIPS o32 and EE, PowerPC, ARM and SuperH, as a
  fold over the parameters of a signature, for declared and for guessed parameters.
* `StackFrame` continues `Abi` (in `MCAbi`): get_stack_info as a fold over the instructions of the
  first block and a minimum over the loads and addresses of all, and the region get_stack_var finds a
  location in. The function has the signature of `Abi` and calls one with the same, so the words of its
  stack parameters and of the call's arguments come from function_abi. `MCAbi` builds the frames as compilers
  lay them out and says of every word what it is.
* `Translate` (with `MCTranslate`): translate_to_ast, one step per block in the
  order of the dominator tree, one for the return value, one for assign_naive_phis and one
  between passes. Expressions are objects in a heap; EvalOnceExpr, force, prevent_later_uses,
  the meta data of registers (inherited, propagated, initial), inherited
  and planned phis and the variables of PersistentFunctionState are modelled. The
  finished function is then executed: assembly and printed statements along every path.
* `TypeMapSpec`, `TypeMapCache`: the abstract specification of building a type map
  (a process gets the map of the texts it has read), and _build_typemap with its
  cache files: open truncates, a pickle is written and read in parts, processes crash
  between parts, somebody edits the context files. Nothing in the code keeps the parts of two dumps
  apart (no lock, checksum or rename): parts of different dumps may load together, the hash is that in the first
  part and the types are those in the second, or may make pickle.load raise. The constant Conflicts says whether builds
  that disagree (another target, another list of files, an edit in between) may use a cache file at the same time.
  `TypeMapCacheProofs` holds the proof that the second implements the first when they may not.
* `Driver` (with `MCDriver`, EXTENDS `TypeMapCache`): main.run. Any step on a function,
  and the declarations, may raise; one step per function and pass. `DriverProofs` holds its theorems.
* `StructLayout`, `Types` (with `MCTypes`): layout of declared structs with
  bit-fields, unions, anonymous members, packed and aligned attributes; the
  union-find of TypeData, unify for types, structs and signatures, get_field,
  get_deref_field, the fields an inferred struct gets, prune_overlapping_fields and the
  initializer. A step is one unify, one unification of a call, one access, or the pruning
  of one struct. The recursion guard (`seen`) and the order of the checks inside unify are the code's.
* `AsmMachine`, `AsmMatch`, `MipsPatterns`, `ArmPatterns`, `AsmRewrite`: the
  assembly of the patterns with a machine of W-bit words for it (the reference), the
  matcher, the patterns for integers, memory and calls, and the passes. One step per position
  the matcher looks at. The masks and limits of the code (0xFFFF, 31, 32) are
  expressed in W. A register that the code marks as clobbered reads as Undef.
* `Evaluate` (with `MCAsmRewrite`, EXTENDS `AsmRewrite`): the instruction tables of
  the architectures and the folds of evaluate.py, one step per instruction of the body
  that the patterns leave behind.

The modules compose as the pipeline does: each one's Init enumerates every state
the pass before can hand over, or it extends the module of that pass and goes on
from its final states.

* `BuildBlocks.BranchesResolve` is what `BuildGraph` assumes of blocks.
* `BuildGraph.ListIsClosed` (entry first, TerminalNode last, all reachable, edges stay
  inside) is the Init of `FlowRelations`, whose `DominatorsExact` and
  `ImmediateDominatorsExact` are the immediate dominators `InputsUses` starts from.
* `InputsUses.InputsExact` is the Init of `IrPatterns`.
* `Evaluate` continues `AsmRewrite`: the bodies it folds are those the patterns produce.
* `Driver` continues `TypeMapCache`; `Types` starts from structs laid out by `StructLayout`.
* `Structure` starts from whole functions and computes copies of the final
  return, fake edges and relations with the definitions that `BuildGraph` and
  `FlowRelations` show the code to compute.

## Runs

| Run | Instance | Shows |
|---|---|---|
| relations | all graphs of N = 4 nodes, switches, infinite and irreducible loops included | dominators, immediate dominators, loops, fake edges, Kahn's algorithm removes each edge once, reducibility, termination |
| blocks | four files, each function a sequence of units with 0 to 2 labels anywhere (but see TailLabel, refutation 1): MIPS, up to 3 of add, mov, likely/b with add, branch with mov; MIPS, up to 2 of everything MIPS has, missing slots and 5 ends; SuperH, up to 3 of compare, add, branches with and without slot, table, a label mentioned by data; no slots, up to 2 of op, call, branches, conditional return, table, return | the GCC and IDO passes and the order of slots keep behaviour and keep up with it, labels resolve, jumps end their blocks |
| graph | all arrangements of 4 blocks: branches, gotos, jump tables, missing labels | the walk, the table search, the copies, the filter, failures |
| inputs | all graphs of 5 nodes, at most one branch leading back to the first block (OneEntryLoop); each block reads, sets or calls | reaching definitions over the dominator tree where none leads back (refutation 3), implicit inputs everywhere |
| irpatterns | all graphs of 4 nodes whose blocks hold up to two parts of a pattern, updates of its input and uses of its registers; runs of up to 5 nodes | patched maps equal recomputed ones, values are kept |
| isa | every pair (MaxBlock = 2) of the modelled instructions of the four instruction sets (without rrx, setcarry.fictive and `lwzux` with rD = rB, which break the properties) | declared and actual accesses agree, also through calls |
| abi | up to 4 parameters of six types (int, float, double, long long, structs of 3 and 10 bytes), variadic or not, struct results of up to 12 bytes, any set of likely registers; for four of the signatures, frames of IDO, GCC, the EE's GCC and mwcc with up to 2 saved registers, a saved double, 2 locals, a frame pointer, leaf or not, up to 64 KB | slots are disjoint and complete, caller and callee agree, no gaps; the regions of the frame are told apart |
| translate | five shapes (straight, if, diamond, do-while, while); blocks that move, swap, compute, load, store, spill, call; two passes; PowerPC's preserved registers or not; paths of up to 6 nodes | naive phis are resolved, statements and return values are those of the assembly |
| types | all structs of one to three of eleven kinds of members, packed or not, unions or not, with an access; arrays of known, unknown and zero dimension of structs whose first member is an array of dimension zero; accesses at offsets -4 to 8; three operations on a stack frame with a declared struct; three operations on pointers, functions and types that may contain themselves | facts survive failed unifications, paths are exact, pruned fields disjoint, layouts sound, types only improve |
| asm | every modelled idiom with its registers and constants varied, right and wrong ones, W = 8 (without the conditional stores of refutation 8); every division, multiplication, mask, rotation and comparison sequence the evaluators know, but for the folds listed below as wrong | behaviour kept by rewriting, values kept by folding, divisions recovered |
| driver | two processes, two context files of three texts, three builds in all for two alignments, one edit, no builds that disagree at the same time (refutation 9); two functions, two passes | the cache is transparent, functions are reported, status, text of the last pass, the run ends |
| structure | all graphs of 4 blocks (with and without && detection, void or not, final return copied or not); 5 blocks that all do something; 3 conditions and 3 blocks; chains and trees of comparisons, for IDO and for other compilers; tables of 3 behind a guard, with a test in front, tables of 6; naive mode | the printed C does what the graph does, nothing is left out, labels exist once, assertions hold |

Why the bounds are enough. An irreducible graph needs an entry, two nodes that lead
to each other and nothing else; two infinite loops, one inside the other or one
after the other, fit in three nodes and the terminal. A node with two sources, one of
them through its own loop, and a dominator whose sources are stale needs five.
A goto over a jump table, a table whose entries share a block and a return that two
branches share all fit in four blocks.
The label passes look at most two items back or ahead and relate a branch to one
label; three units with two labels give a branch into the slot of another one and
two branches to one label. Three conditions are the shortest chain in which joining
two of them leaves a choice, and five labels are the limit at which case labels are dropped.
An IR pattern of two parts meets an input that is overwritten between its parts, a second use of
a part, and a part that is in two matches within two blocks; a third and fourth let them lie on different branches.
What an evaluator reads depends on one instruction before it (its own outputs, a call
that destroys registers), hence blocks of two.
Four parameters exceed the registers of every convention (the lists of EE and PowerPC are cut to
three and two for this), and a struct of ten bytes is split between registers and stack.
A phi that another one's assignment reads (the swap problem), and a value that is used behind the store that
invalidates it, need one loop or one branch and blocks of up to three instructions; a second pass is where planned variables appear.
Eight bits have room for a byte, a half and a word of different size, for
every divisor and for every shift; on every input W = 8 is exhaustive where 32 could not be.
Two processes, three builds and one edit are enough for a reader to meet a file half written by another one, and
for a process to find what a build for another target or of an older text left, complete or not. What run does
with its functions does not touch the cache: the constraint DecompilesAlone follows it past the
context only where no other build has started; the proofs do not have this restriction.

The bounds are `N` (nodes, blocks), `MaxLabels`, the field `max` of a file (units of
a function), `MaxRun` and `MaxPath` (nodes executed), `MaxBlock`, `MaxParams`, `W` (bits of a word),
`Passes`, `MaxBuilds`, `MaxEdits`, the field `ops` of a world of Types (operations), `Offsets` and `Sizes`
(of accesses), and `MinValue` and `MaxValue`, which stand for the ends of Bounds(): they leave at
least two values beyond every constant that is compared by order, so that no interval
shrinks to one value at an end of the range.

Deadlock. The runs end in a state of their own (a `Done` step that stutters) where the pass simply
finishes. CHECK_DEADLOCK is FALSE where a behaviour may stop for a reason of the program or its input:
BuildBlocks (the function returns, build_blocks fails, or the source reaches a branch in a delay
slot, which the processors call unpredictable), Structure (the function returns or a jump table is used
outside its bounds), Translate (after the last pass), AsmRewrite (the body is evaluated, or a pattern raises DecompFailure),
Types (all structs are pruned) and Driver (all processes have exited).

Fairness. `FairSpec` of FlowRelations and `Spec` of Driver ask for weak fairness of the next step of the
pass and of the driver, because they are sequential code that nothing suspends; nothing is asked
of editors, of other processes or of a process that builds its type map (it may crash). BuildBlocks and Translate need no fairness: that the block
run does not spin is part of the invariant SameBehaviour, on the number of steps since the last event.

Refinement. `TypeMapCache` implements `TypeMapSpec` (property `CacheIsTransparent`, in
the run `driver`): editing, starting and reading a context file map to themselves, returning
maps to delivering the type map of the texts read, a syntax error and a crash to giving up, and
everything that happens to cache files, hits included, is a stutter. The hash is taken to be
injective. Conflicts = FALSE restricts the environment, not the code: a process does not start a build while another one
uses one of its cache files for a build that disagrees with it, and a context file is not edited
while two processes use it. Crashes, what they leave behind, edits under the feet of one process, and any number
of processes that read and write one file for the same build stay in. Refutation 9 shows that without it the property
does not hold.

## Configurations that TLC refutes

Nine more configurations state what a comment, an assertion or the purpose of the code
promises, without the restriction that the passing run makes; TLC answers each with a
counterexample, and each was reproduced with the program itself. Each is the configuration of a
run with the constants below and the one property named (CacheIsTransparent is a PROPERTY, the
others are INVARIANTs).

| | Run's configuration | Constants | Property |
|---|---|---|---|
| 1 | BuildBlocks_all.cfg | Files <- LikelyFiles, TailLabel = TRUE | SameBehaviour |
| 2 | BuildBlocks_all.cfg | Files <- MipsFiles | NoAssertionFails |
| 3 | InputsUses.cfg | N = 3, Functions <- LoopFunctions | SourcesExact |
| 4 | Structure.cfg | Families <- OpenFamilies, AnyTree = TRUE | SameControlFlow |
| 5 | Structure.cfg | Families <- GotoFamilies, Gotos = TRUE | SameControlFlow |
| 6 | Structure.cfg | Families <- NaiveFamilies | SameControlFlow |
| 7 | Isa.cfg | InstructionSets <- LoadUpdateArch, MaxBlock = 1 | ValuesFollowDataflow |
| 8 | AsmRewrite.cfg | Programs <- ArmStores | SameBehaviour |
| 9 | Driver.cfg | Conflicts = TRUE | CacheIsTransparent |

1. The IDO pass moves the target
   of a branch-likely to the instruction before the label although that instruction is the
   delay slot of another transformed branch and becomes a nop. The instruction is lost. The
   constant TailLabel keeps this layout out of the passing run.
2. A label on the slot of `jr $ra`,
   with a slot that cannot run twice, fails the assertion "has delay slot and isn't a call". The
   layout is part of the run `blocks` too, where such a function ends in the state "crashed".
3. A function whose first block is a
   loop head gets only its arguments as sources for what the loop reads. For
   `.L0: addiu $a0,$a0,1; bne $a0,$a1,.L0` the loop counter is printed as
   `temp_a0 = arg0 + 1` inside the loop. InputsExact says nothing of such functions
   and EntryLoops keeps them out of the run `irpatterns`; ImplicitInputsComplete covers them.
4. `if (x < 0) A; else if (x == 1) B; else if (x == 2) C;`
   becomes `switch (x) { default: A; case 1: B; case 2: C; }`. The search of
   try_build_irregular_switch ends at the postdominator without noting that values
   which are no case arrive there, and takes the only other block for the default. Two
   more ways to lose a target were met: a block that the tree shares with code outside
   (neither default nor failure), and a block first recorded as the case of a single
   remaining value, whose later visits with other values are skipped. With AnyTree = FALSE
   the operator FromSwitch keeps to trees in which this does not happen:
   those a compiler makes of a switch statement. Graphs in which the search does not find a
   switch are not restricted.
5. A branch marked with `# GOTO` is printed as
   a goto to its own block, unconditionally. The constant Gotos keeps marks out of the passing run.
6. With five labels or more,
   `--gotos-only` prints no label for table entries that lead to the immediate postdominator;
   `switch (x);` then falls into the next block. The passing run has naive tables of three entries.
7. PowerPC's `lwzux r4,r3,r4` assigns rD before the update
   of rA reads rB (arch_ppc.py:1505-1531), against "An Instruction evaluates by reading from inputs,
   invalidating clobbers, then writing to outputs (in that order)" (instruction.py:112). The passing run
   has these loads with rD other than rB.
8. ConditionalInstrPattern of arch_arm.py moves
   instructions out of a run of conditional ones, "assuming that we don't reorder impure instructions and
   there are no dependency issues" (arch_arm.py:609); stores declare neither the register that is added to the base
   nor the base they write back (arch_arm.py:1432), so an instruction that sets or reads one is moved across. The
   passing run has conditional stores without these.
9. "Compute a hash of the inputs to the TypeMap, which is used to check if the cached version is still valid"
   (c_types.py:843-844): the cache file is opened with "wb" and written in place (c_types.py:965-967) while another process
   may be reading it. Dumps of one context for two values of base_struct_align have the same shape, and source_hash is
   the first field of a TypeMap; a reader that has got the first part of one dump when the other
   replaces it goes on in the second, finds the hash it looks for and returns the structs of the other target. TLC's
   counterexample has 19 states. With the program: of the two dumps of one context of 418132 bytes, for MIPS and for
   align 4, the first 65536 bytes of the first and the rest of the second unpickle without an error, the
   hash is that of MIPS, and the sizes of structs are those of align 4 (8 where MIPS has 2). Conflicts = FALSE
   keeps such builds from running at the same time.

Smaller observations, met while modelling; where one concerns the printed result, the
instances above leave the case out.

* Labels. On SuperH the comment "Don't change the branch target unless it would leave the old
  label untargetted" does not hold, because the main loop skips the item after a branch and the
  pre-pass does not (behaviour is not changed by it, as `blocks` checks); internal_label
  computes `rel` and does not use it, so the hint for labels containing "_before" is never printed; a
  slotless branch as the very last item of a SuperH body makes `next(body_iter)` raise StopIteration.
* Instruction sets. ARM's `rrx` reads the carry without declaring it, `setcarry.fictive` reads its
  argument without declaring it, and the flags hi, ge and gt are clobbered by calls and never invalidated.
* Translation. `jal f; move s0,v0; lw v0,g; sw s0,g` prints the read of `g` before the call, against
  "Prevent reads and function calls from moving across this call."; a value read in one
  block and used behind a store of another is the TODO at the end of create_dominated_node_state. The
  operator Modelled of MCTranslate leaves out both.
* Stack frames. A frame is recognised under the assumption its comment states, that the lowest local is loaded
  or its address is taken; `MCAbi` keeps to it. On PowerPC function_abi numbers stack parameters from 0, while
  a load of the ninth argument, at 8 above the frame, is the argument at offset 8, so that it is
  printed as one more parameter (`arg_sp8`); FrameRegionsTold leaves stack parameters of PowerPC and the EE out.
* Types. new_field_within covers only direct recursion; an array whose elements have size zero
  would be divided by; f128 unifies with nothing.
* Assembly patterns. AddrModeWritebackPattern ("In the remaining cases, this rewrite is correct.") changes
  `ldr r2,[r1],r2`; the MIPS TailCallPattern drops the slot of `j g`; DivP2Pattern1 does not compare its
  input with its output; Div2S16Pattern leaves `$i` unmarked.
* Folds. `sra 2; sll 2; subu` is printed as `% 4` although it rounds down; `((arg0 & 4) != 0) == arg1` as
  `(arg0 & 4) == arg1`; `(s16) x + (s8) x` as `x * 2`, because the equality of Casts ignores their type; on ARM
  `mov r3,#0x2fc; and r0,r3,#0xff` as 0x2FC; on SuperH `shlr2; exts.b; shlr2` as `>> 4`; an
  unsigned division by multiplication as a signed one.

## Proofs

Checked by TLAPS for every value of the constants. TLC confirms the inductive invariants GraphInv, RelationsInv,
LoopInv, KahnInv, DriverInv, SharedInv (its FileOK with the type maps of the file's own parts for TypeMaps) and, with N = 4, WalkInv on the instances of the runs (as INVARIANTs, with the module of the
proofs in place of the run's); CacheInv quantifies over infinite sets and is left to the proof.

### The flow graph is built as the blocks say (BuildGraphProofs)

* `GraphCorrect` (GraphMatchesBlocks), `CopiesCorrect` (CopiesKeepPaths), `ListCorrect` (ListIsClosed),
  all from `GraphInvariant`: Spec => []GraphInv.

None of the three is inductive. GraphMatchesBlocks speaks of the finished walk; while it
runs, GraphInv says (WalkInv) that every call on the stack is in the edge that leads to the next
call, that a node which is not on the stack has all its edges, that those filled in are the first ones of
its block and lead to nodes, and that every set closed under successors around the entry holds all nodes. When
the stack is empty the nodes are therefore closed under edges, and hence exactly the reachable blocks.
A table that is found later only adds successors, so that what was reachable
stays so. While copies are made (DupInv), those made so far belong to exactly the premature
nodes seen so far, each to its own, and all other edges are those of the block. While the worklist
runs (WorklistInv), what was popped has its children popped or queued, and what was popped or queued
was met on an edge; that a copy keeps its one parent and that the filtered list is closed
follow. That the list is sorted with the entry first and the TerminalNode last rests on AscendingSorts: counting
the smaller members is an injection of a finite set of numbers into ranks, and as there are equally many
ranks every one is taken. Sorting and filtering are written by rank (Ascending) for this reason: the sort and
the filter of the standard modules are recursive and cannot be reasoned about here.

### The relations on it are the ones defined (FlowRelationsProofs, DominanceProofs, LoopProofs, ReducibleProofs)

* `TypeCorrect`: Spec => []TypeOK, for every N >= 2. The parts with
  content are that the max() of the immediate dominator finds a node (a non-empty set of
  pairs of bounded numbers has a largest one, lemmas BoundedMax and
  ImmediateDominatorType) and that `unterminated_nodes[-1]` exists.
* `DominatorsCorrect`: Spec => []DominatorsExact. DominatorsExact is not
  inductive: it says nothing of a sweep in progress. The inductive invariant is
  IInv == TypeOK /\ DomInv /\ DominatorsExact, where DomInv says of the running call
  (a) Sound: no true dominator has been dropped from a bitset, and (b) every node
  visited in this sweep satisfies the dataflow equation as long as nothing has changed
  in it. Visiting a node keeps (a), because a dominator of a node other than
  itself dominates all its predecessors (DominatesPreds), and (b), because an
  unchanged bitset does not disturb its neighbours. When a sweep ends without a
  change every node satisfies the equation, and such a solution holds true dominators only
  (FixpointDominates): the nodes whose bitset lacks d form a set that avoids d
  and is closed under successors. Adding a fake edge changes the graph, and
  both directions are then recomputed before they are read (FinishedExact, StepIInv).
* `ImmediateDominatorsCorrect` (ImmediateDominatorsExact): the code takes the strict dominator with the largest
  dominator set. Dominance is a transitive, antisymmetric relation on the nodes the root reaches, and
  the dominators of one node are comparable; the one with the largest set is then dominated by all others. The
  invariant `RelationsInv` (theorem `RelationsInvariant`) adds to IInv that the immediate dominators belong to the sets computed last,
  that all blocks are reached, and that fake edges start at BasicNodes from which no return can be reached.
* `FakeEdgesCorrect` (FakeEdgesTerminateInfiniteLoops): reaching the TerminalNode forwards over children is being
  reached from it backwards over parents (ReachDual), which is what the code computes.
* `LoopsCorrect` (LoopsExact): loops are never reset, a second compute_relations adds to those of the first. LoopInv says
  that what was found so far is part of the loops of the present graph; a fake edge only leads to the TerminalNode, which
  has no children, so it takes no dominator from another node and no loop loses a member (FakeEdgeKeepsDom). One
  FindLoops with exact dominators then completes them (FoundIsBody).
* `ReducibleCorrect` (ReducibleExact): KahnState says that incoming_edges are the forward parents not popped yet and
  that every strongly connected set that was entered has a head. The first node of such a set to be popped has no forward
  parent left, so its parents within the set are backedges and it dominates the set. Conversely,
  nodes that are never popped contain a minimal set in which each has a forward parent, which
  has no head. Nothing is assumed of the order of popping.

### The cache and the driver (TypeMapCacheProofs, DriverProofs)

* `CacheRefines`: ~Conflicts implies CacheSpec => CacheIsTransparent, the refinement. The invariant CacheInv says that every type map that exists, in memory, in a
  file or in a part of a file, is that of some alignment and some texts together with their hash; and of
  each process, that its type map is that of the texts read so far, or of all but the last. It says nothing of what a reader
  puts together from two dumps; that is SharedInv, which is inductive only together with CacheInv.
  The parts of a file are at all times of one type map (FileOK). While a process writes, whatever the file holds is of the map
  it writes (WriteOK), because two users of a file that have both come to it agree on target and texts (PairOK). If
  the first part a reader got is of the map it looks for, so is what it will read next (ReadOK): a writer that
  truncates the file under it writes the same again. A first part of any other map has another hash
  (HashInjective), so that the reader parses, whatever its second part is. A hit is therefore the type map of the texts this
  process read, whoever wrote the file and whatever was edited in between.
* `AllReported` (EveryFunctionReported) and `StatusCorrect` (StatusTellsFailure), from `DriverInvariant`: Spec => []DriverInv,
  which says for every step of run what has been built, translated in this pass, kept as a failure and printed, and
  while printing that return_code is 0 exactly if nothing printed so far failed.
* `DriverCacheIsTransparent`: under the same hypothesis the composition implements TypeMapSpec too.

### Instruction dependencies (InputsUsesProofs)

* `InputsCorrect` (InputsExact) and `ImplicitInputsCorrect` (ImplicitInputsComplete), both from `WalkCorrect`:
  Spec => [](EntryIsNoTarget => WalkInv). InputsExact itself speaks of graphs in which no branch leads to the first block;
  ImplicitInputsCorrect has this as its condition. Refutation 3 shows that the first needs it; the second
  TLC finds to hold without it.

Both properties speak of the finished walk. While it runs, WalkInv says (SourcesOK) that every call of process_node,
those that wait for a callee included, knows for every location exactly the values that arrive at the instruction it has
come to; (InputsSound) that nothing else has been recorded; and (ProgressOK) that each call has recorded what it has passed
and that a node whose call has returned is finished with the nodes it dominates. The walk follows the dominator tree and
the values follow the paths of the graph; what brings them together is ArrivingFromDominator: the search of
phi_loc_sources, which goes backwards and stops at the immediate dominator d and at the nodes that touch the location,
finds what the paths bring.

* From everything the search finds, a path that meets no write leads to n (SearchedArrives).
* Take a path to n that meets no further write, and the nodes the search has passed. The last node of the
  path outside them has an edge into them, so that the search has found it and has stopped there: it is d, or the path
  started there (ArrivalSearched).
* The search does not reach the entry past d, since d dominates n (SearchStopsAtCut). Of the immediate dominator nothing
  but strict dominance is used: any dominator would give the right sources.

A location that nothing between d and n touches has the dominator's sources (UntouchedSources); as something arrives at
every node that is reached (SomeValueArrives), an empty set of sources means the same to the search and to the
paths, a location that may be unset. "This will eventually reach every node" (flow_graph.py:1734) is AllFinished: of the reached nodes
that are not finished, the first on a path could be reached without passing its dominator, which is not finished
either (FirstOnPath). A TerminalNode that is not reached is visited with sources that mean nothing; the invariant and the properties
leave it out.

The searches of the model iterate N times over the edges. That this is enough (ClosureIsReach) is the only place where
counting is needed: each iteration adds a node or the set is closed. The iteration itself is a recursive function
whose existence is shown by the shortest that would be missing (GrowthExists).

### Assumptions

Only those on the constants, which TLC evaluates in every run: FlowRelations has at least two nodes (the
entry and the TerminalNode); a function has a block (NAssumption of BuildGraph); a block's labels lead to blocks or are missing, and
a jump or conditional branch has one target (ShapesAssumption, what BuildBlocks hands over); jump tables hold labels, missing
labels or padding (TablesAssumption, what asm_file parses); a job has a positive alignment, context files and two
options (JobsAssumption); the process of the driver is one of the processes, there is at least one pass
(`range(options.passes - 1)`: with fewer, run still makes the last one) and at least one function (MainAssumption, PassesAssumption,
FunctionsAssumption: with none, run only prints declarations);
locations are numbers and registers are locations, blocks are lists of
instructions about locations (LocsAssumption, FunctionsAssumption of InputsUses). One hypothesis is stated in the theorems themselves: ~Conflicts (CacheRefines,
DriverCacheIsTransparent), which refutation 9 shows to be needed. Bounds (MaxBuilds, MaxEdits) are constants like others: the
proofs hold for any.

### What is only model-checked

* Liveness: Terminates of FlowRelations and RunEnds of Driver, which are out of the prover's reach.
* The properties of Structure, Translate, Types, AsmRewrite and Evaluate: these modules are recursive operators, as
  the code is, or use bitwise arithmetic, and the prover has no backend for such a module.
* The properties of Abi, StackFrame and Isa, and SameBehaviour and BranchesResolve of BuildBlocks: they say what a fold over
  parameters, instructions or labels computes (FoldLeft, FlattenSeq, SelectSeq with an operator of the model), which needs
  induction over data; no theorem of the library says what these compute, since it cannot quantify over their operators.
* The two of IrPatterns: what a rewriting does to every use is found by matching lists of arguments against patterns,
  and SameValues executes blocks, both folds over data.

Induction over numbers is available in the form of a least element (NatMin in BuildGraphProofs), and over graphs in the form of
closed sets.

## Not modelled

* Blocks: assembly fragments (fragment=True), from which IR patterns are made.
* Structuring: trees that compare more than one variable, offsets of jump tables.
* Instruction sets: lmw and stmw, ARM's pop, rrx and setcarry.fictive, SuperH's sts.l and lds.l.
* Translation: floats, structs, reads that cross blocks with stores.
* Stack frames: the stack struct, weak types of locals, add_argument, should_save; pushed argument registers.
* Folds: rlwnm, carries (adde, subfe), pointers and array accesses, 64-bit values, floats, the flags of
  ARM, SuperH's shifts through T.
* Assembly patterns: GpJump, the ones for floats (Mips1Double, GccSqrt, Ftu, Trapuv), Utf, SetGp,
  UnalignedMemcpy, AddPcPc, ShortJumpTable, MagicFunc, PopAndReturn, most of PowerPC's and SuperH's; .set and
  .forget; macros and register lists in arguments; the carry of ShiftedRegPattern.
* Types: formatting (_to_ctype), names, structs that contain pointers to themselves, pragma pack.
* Cache and driver: the text passes over context files, lru_cache (which never hits across calls of run),
  option parsing.
* asm_file and the demanglers: text in, text out. What asm_file hands over is enumerated by the
  modules that start from a body.
* The vendored C parser, the web front end and the test runner: not the decompiler.
