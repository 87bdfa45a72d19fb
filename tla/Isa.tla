-------------------------------- MODULE Isa ----------------------------------
(***************************************************************************)
(* Instruction sets.  Every ArchAsm describes an instruction twice: parse  *)
(* declares the locations it reads and writes (inputs, outputs, clobbers), *)
(* which is all the data flow analysis sees, and the evaluator in eval_fn, *)
(* often taken from a table of lambdas, reads and assigns registers while  *)
(* the block is translated.  This module evaluates short blocks of every   *)
(* instruction of every architecture through RegInfo and compares what an  *)
(* evaluator gets with what the data flow analysis says.                   *)
(*                                                                         *)
(* A location is a string.  An evaluator is a sequence of steps            *)
(* <<"read", l>>, <<"write", l>>, <<"condition">> and <<"call", r>>. A value*)
(* is <<k, l>>, what instruction k of the block left in l; <<0, l>> is     *)
(* what the block started with.                                            *)
(***************************************************************************)
EXTENDS Integers, Sequences, FiniteSets, SequencesExt, Functions

CONSTANTS
  InstructionSets, \* arch -> [instrs, temp_regs, argument_regs, preserve, stale]
  MaxBlock

VARIABLES
  arch, block,
  contents, clobbered_by_call, \* RegInfo
  reads,                       \* what the last instruction got: <<location, value>>
  condition,                   \* how often it set branch_condition or switch_control
  undeclared                   \* locations it assigned that are not among its outputs

vars == <<arch, block, contents, clobbered_by_call, reads, condition, undeclared>>

Unset      == <<-1, "unset">>
Undeclared == <<-1, "undeclared">>

-----------------------------------------------------------------------------
(* Steps of evaluators.                                                    *)

Read(l)   == <<"read", l>>
Write(l)  == <<"write", l>>
Condition == <<"condition">>
Call(vals) == <<"call", vals>>  \* a call whose result function_return puts into vals

ClearCallerSave == <<"clear">>

ReadAll(ls)  == [i \in DOMAIN ls |-> Read(ls[i])]
WriteAll(ls) == [i \in DOMAIN ls |-> Write(ls[i])]

\* An Instruction: what parse declares, and its eval_fn.
Instr(op, ins, outs, eval) ==
  [op |-> op, inputs |-> ins, outputs |-> outs, clobbers |-> {}, eval_fn |-> eval,
   is_conditional |-> FALSE, is_jump |-> FALSE]

Branching(i)   == [i EXCEPT !.is_conditional = TRUE, !.is_jump = TRUE]
Jumping(i)     == [i EXCEPT !.is_jump = TRUE]
Clobbering(i, ls) == [i EXCEPT !.clobbers = ls]

-----------------------------------------------------------------------------
(* RegInfo, while instruction k of the block is current.  st holds the     *)
(* fields and what is observed.                                            *)

\* __getitem__
getitem(st, instr, l) ==
  IF l \notin instr.inputs THEN [st EXCEPT !.reads = @ \cup {<<l, Undeclared>>}]
  ELSE IF l = "zero" THEN st
  ELSE IF l \in DOMAIN st.contents
       THEN [st EXCEPT !.reads = @ \cup {<<l, st.contents[l]>>}]
  ELSE IF l \in DOMAIN st.clobbered
       THEN [st EXCEPT !.reads = @ \cup {<<l, st.clobbered[l]>>},
                       !.contents = [x \in {l} |-> st.clobbered[l]] @@ @,
                       !.clobbered = Restrict(@, DOMAIN @ \ {l})]
  ELSE [st EXCEPT !.reads = @ \cup {<<l, Unset>>}]

\* set_reg_real and set_with_meta; nothing is assigned to the zero register.
set_reg(st, instr, k, l) ==
  IF l = "zero" THEN st
  ELSE IF l \notin instr.outputs THEN [st EXCEPT !.undeclared = @ \cup {l}]
  ELSE [st EXCEPT !.contents = [x \in {l} |-> <<k, l>>] @@ @,
                  !.clobbered = Restrict(@, DOMAIN @ \ {l})]

\* Mutant: the registers a call destroys keep what they held.
KeepCallerSaveRegs(st, isa) == st

\* clear_caller_save_regs
clear_caller_save_regs(st, isa) ==
  LET gone == DOMAIN st.contents \cap isa.temp_regs
  IN [st EXCEPT !.clobbered = IF isa.preserve THEN Restrict(st.contents, gone) @@ @ ELSE @,
                !.contents = Restrict(@, DOMAIN @ \ gone)]

\* make_function_call: candidates for arguments are read, caller-save
\* registers go, and the result is put into the registers function_return names.
make_function_call(st, instr, k, isa, vals) ==
  LET args  == instr.inputs \cap isa.argument_regs \cap DOMAIN st.contents
      read  == FoldSeq(LAMBDA l, acc : getitem(acc, instr, l), st, SetToSeq(args))
  IN FoldSeq(LAMBDA l, acc : set_reg(acc, instr, k, l),
             clear_caller_save_regs(read, isa),
             SetToSeq(instr.outputs \cap vals))

EvalStep(st, instr, k, isa, step) ==
  CASE step[1] = "read"      -> getitem(st, instr, step[2])
    [] step[1] = "write"     -> set_reg(st, instr, k, step[2])
    [] step[1] = "condition" -> [st EXCEPT !.condition = @ + 1]
    [] step[1] = "call"      -> make_function_call(st, instr, k, isa, step[2])
    [] step[1] = "clear"     -> clear_caller_save_regs(st, isa)

\* evaluate_instruction
evaluate_instruction(instr, k, isa) ==
  FoldLeft(LAMBDA st, step : EvalStep(st, instr, k, isa, step),
           [contents |-> contents, clobbered |-> clobbered_by_call, reads |-> {},
            condition |-> 0, undeclared |-> {}],
           instr.eval_fn)

-----------------------------------------------------------------------------
Locations(isa) == UNION {i.inputs \cup i.outputs \cup i.clobbers : i \in isa.instrs} \ {"zero"}

Init ==
  /\ arch \in DOMAIN InstructionSets
  /\ block = <<>>
  /\ contents = [l \in Locations(InstructionSets[arch]) |-> <<0, l>>]
  /\ clobbered_by_call = <<>>
  /\ reads = {}
  /\ condition = 0
  /\ undeclared = {}

\* translate_node_body: the next instruction of a block, which ends with a jump.
Evaluate(instr) ==
  /\ Len(block) < MaxBlock
  /\ block # <<>> => ~Last(block).is_jump
  /\ \E st \in {evaluate_instruction(instr, Len(block) + 1, InstructionSets[arch])} :
       /\ contents' = st.contents
       /\ clobbered_by_call' = st.clobbered
       /\ reads' = st.reads
       /\ condition' = st.condition
       /\ undeclared' = st.undeclared
  /\ block' = Append(block, instr)
  /\ UNCHANGED arch

EndOfBlock == block # <<>> /\ (Last(block).is_jump \/ Len(block) = MaxBlock) /\ UNCHANGED vars

Next == EndOfBlock \/ \E instr \in InstructionSets[arch].instrs : Evaluate(instr)

Spec == Init /\ [][Next]_vars

-----------------------------------------------------------------------------
(* What the data flow analysis says: the last of the first n instructions  *)
(* that writes l, 0 when there is none.                                    *)

Setters(n, l) == {j \in 1 .. n : l \in block[j].outputs \cup block[j].clobbers}
Source(n, l)  == IF Setters(n, l) = {} THEN 0 ELSE CHOOSE j \in Setters(n, l) : \A i \in Setters(n, l) : i <= j
Clobbered(n, l) == Source(n, l) > 0 /\ l \in block[Source(n, l)].clobbers

\* An evaluator reads and assigns only what parse declares; anything else is
\* "Read from unset register" in the output or "Undeclared write", and is
\* unknown to the data flow analysis.  As evaluate_instruction asserts, an
\* instruction declared as conditional, and no other, sets the condition, once.
OnlyDeclaredAccess ==
  /\ undeclared = {}
  /\ \A r \in reads : r[2] # Undeclared
  /\ block # <<>> => condition = (IF Last(block).is_conditional THEN 1 ELSE 0)

\* What the instruction that the data flow analysis names as the source of a
\* register left there is what an evaluator gets from it,
ReadsFollow ==
  \A r \in reads :
    LET n == Len(block) - 1
    IN \/ r[2] = <<Source(n, r[1]), r[1]>>
       \/ Clobbered(n, r[1]) /\ (r[2] = Unset \/ r[1] \in InstructionSets[arch].stale)

\* and what the register has after the instruction.
RegistersFollow ==
  \A l \in DOMAIN contents :
    \/ contents[l] = <<Source(Len(block), l), l>>
    \/ Clobbered(Len(block), l) /\ l \in InstructionSets[arch].stale

\* "An Instruction evaluates by reading from inputs, invalidating clobbers, then
\* writing to outputs (in that order)": an evaluator gets the values from before
\* the instruction even when its own results go to the same registers, assigns
\* every output it declares, and a call leaves no register that it destroys.
ValuesFollowDataflow == ReadsFollow /\ RegistersFollow
=============================================================================
