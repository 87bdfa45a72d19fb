------------------------------ MODULE StackFrame ------------------------------
(***************************************************************************)
(* get_stack_info, and what StackInfo makes of a stack access: the frame   *)
(* of a function is recovered from the instructions of its prologue and    *)
(* from the lowest word that is loaded or whose address is taken.          *)
(*                                                                         *)
(* The function has the signature of Abi and calls one with the same       *)
(* signature, so its stack parameters and those of the call come from      *)
(* function_abi.  An instruction is its mnemonic (load for those parse     *)
(* flags as is_load, call for those with a function_target), the register  *)
(* it is about, the register it addresses memory with or reads, and a      *)
(* literal; @-r15 stands for r15 with pre-decrement.                       *)
(***************************************************************************)
EXTENDS Abi, FiniteSetsExt, Bitwise

CONSTANT FramesOf(_, _)  \* the frames of an architecture and a signature

VARIABLES frame, info

frame_vars == <<vars, frame, info>>

Instr(op, reg, base, imm) == [op |-> op, reg |-> reg, base |-> base, imm |-> imm]

Mips == {"o32", "ee"}
stack_pointer_reg(a) == CASE a \in Mips -> "sp" [] a = "ppc" -> "r1" [] a = "arm" -> "sp" [] a = "sh2" -> "r15"
frame_pointer_regs(a) ==
  CASE a \in Mips -> {"fp"} [] a = "ppc" -> {"r30"} [] a = "arm" -> {"r7", "r11"} [] a = "sh2" -> {"r14"}
return_address_reg(a) == CASE a \in Mips -> "ra" [] a \in {"ppc", "arm"} -> "lr" [] a = "sh2" -> "pr"
home_space_size(a) == CASE a = "o32" -> 16 [] a = "ppc" -> 8 [] OTHER -> 0

\* Of the saved registers, two of a kind and those with a part in the frame.
saved_regs(a) ==
  CASE a \in Mips -> {"s0", "s1", "f20", "f21", "fp", "ra"}
    [] a = "ppc"  -> {"r29", "r30", "r31", "f31", "lr"}
    [] a = "arm"  -> {"r4", "r5", "r7", "r11", "d8", "lr"}
    [] a = "sh2"  -> {"r8", "r9", "r14", "pr"}

as_s16(v) == ((v + 32768) % 65536) - 32768
as_s8(v)  == ((v + 128) % 256) - 128

-----------------------------------------------------------------------------
(* The loop over the first block.  st is what it has learned: offsets is   *)
(* callee_saved_offsets, gaps is allowed_callee_save_gaps.                 *)

StackInfo ==
  [allocated_stack_size |-> 0, is_leaf |-> TRUE, frame_pointer_reg |-> None, callee_save_regs |-> {},
   offsets |-> <<>>, gaps |-> {}, temp_reg_values |-> <<>>]

\* parse pairs the inputs of a store with its outputs, word by word.
StoredWords(i) ==
  LET at == (i.imm \div 4) * 4 IN
  CASE i.op \in {"sw", "swc1", "stw"} -> <<<<i.reg, at>>>>
    [] i.op \in {"sd", "stfd", "psq_st"} -> <<<<i.reg, at>>, <<i.reg, at + 4>>>>
    [] i.op = "sdc1" -> <<<<i.reg, at>>, <<"f21", at + 4>>>>
    [] i.op = "sq"   -> [w \in 1 .. 4 |-> <<i.reg, at + 4 * (w - 1)>>]
    [] i.op = "stmw" -> LET regs == CASE i.reg = "r29" -> <<"r29", "r30", "r31">>
                                      [] i.reg = "r30" -> <<"r30", "r31">>
                                      [] i.reg = "r31" -> <<"r31">>
                        IN [w \in DOMAIN regs |-> <<regs[w], at + 4 * (w - 1)>>]

SaveOps == {"sw", "sd", "sq", "swc1", "sdc1", "stw", "stmw", "stfd", "psq_st"}

\* Mutant: a register that has been saved is taken to be saved again.
EverySaveIsInitial(a, st, i) ==
  i.op \in SaveOps /\ i.reg \in saved_regs(a) /\ i.base = stack_pointer_reg(a)

is_initial_save(a, st, i) ==
  /\ i.op \in SaveOps /\ i.reg \in saved_regs(a) /\ i.base = stack_pointer_reg(a)
  /\ i.reg \notin st.callee_save_regs \/ i.op = "psq_st"

save_word(op, st, word) ==
  [st EXCEPT !.offsets = Append(@, word[2]),
             !.callee_save_regs = IF op = "psq_st" THEN @ ELSE @ \cup {word[1]},
             !.gaps = @ \cup (CASE op = "sd" -> {word[2] + 8} [] op = "swc1" -> {word[2] + 4} [] OTHER -> {})]

initial_save(a, st, i) ==
  FoldLeft(LAMBDA acc, word : save_word(i.op, acc, word),
           [st EXCEPT !.is_leaf = @ /\ i.reg # return_address_reg(a)], StoredWords(i))

\* A pushed register: a word, or two of a double.
push_word(a, st, reg) ==
  [st EXCEPT !.allocated_stack_size = @ + 4,
             !.offsets = IF reg \in saved_regs(a) THEN Append(@, -(st.allocated_stack_size + 4)) ELSE @,
             !.callee_save_regs = IF reg \in saved_regs(a) THEN @ \cup {reg} ELSE @,
             !.is_leaf = @ /\ reg # return_address_reg(a)]

push_reg(a, st, reg) == IF reg = "d8" THEN push_word(a, push_word(a, st, reg), reg) ELSE push_word(a, st, reg)

is_frame_pointer_move(a, i) ==
  /\ CASE a \in Mips -> i.op = "move" [] a = "ppc" -> i.op = "mr" [] OTHER -> i.op = "mov"
  /\ i.reg \in frame_pointer_regs(a) /\ i.base = stack_pointer_reg(a)

scan_instruction(a, st, i) ==
  CASE a \in Mips /\ i.op = "addiu" /\ i.reg = "sp" ->
         [st EXCEPT !.allocated_stack_size = Max({as_s16(i.imm), -as_s16(i.imm)})]
    [] a \in Mips /\ i.op = "subu" /\ i.reg = "sp" /\ i.base \in DOMAIN st.temp_reg_values ->
         [st EXCEPT !.allocated_stack_size = st.temp_reg_values[i.base]]
    [] a = "ppc" /\ i.op = "stwu" /\ i.reg = "r1" ->
         [st EXCEPT !.allocated_stack_size = Max({i.imm, -i.imm})]
    [] a = "arm" /\ i.op \in {"push", "vpush"} ->
         FoldRight(LAMBDA reg, acc : push_reg(a, acc, reg), i.reg, st)
    [] a = "arm" /\ i.op \in {"sub", "add"} /\ i.reg = "sp" /\ i.base = "sp" ->
         [st EXCEPT !.allocated_stack_size = @ + Max({0, IF i.op = "add" THEN -i.imm ELSE i.imm})]
    [] is_frame_pointer_move(a, i) ->
         [st EXCEPT !.frame_pointer_reg = i.reg]
    [] a = "sh2" /\ i.op = "add" /\ i.reg = "r15" /\ as_s8(i.imm) < 0 ->
         [st EXCEPT !.allocated_stack_size = @ - as_s8(i.imm)]
    [] a = "sh2" /\ i.op \in {"mov.l", "sts.l"} /\ i.base = "@-r15" /\ i.reg \in saved_regs(a) ->
         push_word(a, st, i.reg)
    [] a \in Mips \cup {"ppc"} /\ is_initial_save(a, st, i) ->
         initial_save(a, st, i)
    [] a = "ppc" /\ i.op = "mflr" /\ i.reg = "r0" ->
         [st EXCEPT !.is_leaf = FALSE]
    [] a \in Mips /\ i.op = "li" /\ i.reg = "t0" ->
         [st EXCEPT !.temp_reg_values = ("t0" :> i.imm) @@ @]
    [] a \in Mips /\ i.op = "ori" /\ i.reg = i.base /\ i.reg \in DOMAIN st.temp_reg_values ->
         [st EXCEPT !.temp_reg_values = (i.reg :> (st.temp_reg_values[i.reg] | i.imm)) @@ @]
    [] OTHER -> st

\* The instructions before the first call.
UpToCall(block) ==
  IF \E n \in DOMAIN block : block[n].op = "call"
  THEN SubSeq(block, 1, Min({n \in DOMAIN block : block[n].op = "call"}) - 1) ELSE block

scan_first_block(a, block) ==
  FoldLeft(LAMBDA st, i : scan_instruction(a, st, i), StackInfo, UpToCall(block))

-----------------------------------------------------------------------------
(* Where the arguments of calls end, and the bounds of the saved registers.*)

is_stack_reg(a, st, reg) == reg \in {stack_pointer_reg(a), st.frame_pointer_reg}

\* The words an instruction shows not to belong to the arguments of a call.
NotForCalls(a, st, i) ==
  {o \in {(i.imm \div 4) * 4} : i.op = "load" /\ is_stack_reg(a, st, i.base) /\ o >= home_space_size(a)}
  \cup
  {o \in {i.imm} : /\ \/ a \in Mips /\ i.op = "addiu"
                      \/ a = "ppc" /\ i.op = "addi"
                      \/ a = "arm" /\ i.op = "add"
                   /\ is_stack_reg(a, st, i.base) /\ ~is_stack_reg(a, st, i.reg)
                   /\ o < st.allocated_stack_size}
  \cup
  {o \in {0} : a = "arm" /\ i.op = "mov" /\ is_stack_reg(a, st, i.base) /\ ~is_stack_reg(a, st, i.reg)}

subroutine_arg_top(a, st, code) ==
  IF st.is_leaf THEN 0
  ELSE Min({st.allocated_stack_size} \cup UNION {NotForCalls(a, st, code[n]) : n \in DOMAIN code})

\* One saved word: gaps of the kinds known are skipped, one more is let pass.
extend_region(gaps, r, offset) ==
  LET top == Min({t \in r.top .. Max({r.top, offset}) :
                    (t - r.top) % 4 = 0 /\ (t >= offset \/ t \notin gaps)})
      pad == offset # top /\ ~r.padded /\ offset = top + 4
  IN [bottom |-> r.bottom, top |-> offset + 4, padded |-> r.padded \/ pad,
      warned |-> r.warned \/ (offset # top /\ ~pad)]

callee_save_reg_region(offsets, gaps) ==
  IF offsets = <<>> THEN [bottom |-> 0, top |-> 0, padded |-> FALSE, warned |-> FALSE]
  ELSE FoldLeft(LAMBDA r, o : extend_region(gaps, r, o),
                [bottom |-> offsets[1], top |-> offsets[1], padded |-> FALSE, warned |-> FALSE], offsets)

\* On ARM and SuperH the offsets were counted from the top of the frame.
SavedOffsets(a, st) ==
  SortSeq([n \in DOMAIN st.offsets |->
             st.offsets[n] + (IF a \in {"arm", "sh2"} THEN st.allocated_stack_size ELSE 0)], <)

get_stack_info(a, st, code, offsets) ==
  [allocated_stack_size |-> st.allocated_stack_size, is_leaf |-> st.is_leaf,
   frame_pointer_reg |-> st.frame_pointer_reg,
   region |-> callee_save_reg_region(offsets, st.gaps),
   arg_top |-> Min({subroutine_arg_top(a, st, code)} \cup {offsets[n] : n \in DOMAIN offsets})]

-----------------------------------------------------------------------------
(* What an access is taken for.                                            *)

in_callee_save_reg_region(a, inf, location) ==
  \/ inf.region.bottom <= location /\ location < inf.region.top
  \/ a = "ppc" /\ location = inf.allocated_stack_size + 4

location_above_stack(inf, location) == location >= inf.allocated_stack_size

in_subroutine_arg_region(a, inf, location) == a # "ppc" /\ ~inf.is_leaf /\ location < inf.arg_top

\* The bits that are taken of the argument, the lower ones on a big-endian
\* processor.
get_argument_above_stack(offset) ==
  LET aligned == (offset \div 4) * 4
  IN <<"argument", aligned, CASE offset - aligned = 3 -> 8 [] offset - aligned = 2 -> 16 [] OTHER -> 32>>

get_stack_var(a, inf, location) ==
  IF in_callee_save_reg_region(a, inf, location) THEN <<"saved">>
  ELSE IF location_above_stack(inf, location)
       THEN get_argument_above_stack(location - inf.allocated_stack_size)
  ELSE IF in_subroutine_arg_region(a, inf, location) THEN <<"for a call", location>>
  ELSE <<"local", location>>

-----------------------------------------------------------------------------
FrameInit == Init /\ frame \in FramesOf(arch, sig) /\ info = <<>>

ComputeAbi == Compute /\ UNCHANGED <<frame, info>>

\* translate_to_ast asks for the stack before the parameters are added.
GetStackInfo ==
  /\ frame # <<>> /\ info = <<>> /\ abi # <<>>
  /\ LET st == scan_first_block(arch, frame.first_block)
     IN info' = get_stack_info(arch, st, frame.first_block \o frame.other_blocks, SavedOffsets(arch, st))
  /\ UNCHANGED <<vars, frame>>

FrameDone == Done /\ (frame = <<>> \/ info # <<>>) /\ UNCHANGED <<frame, info>>

FrameNext == ComputeAbi \/ GetStackInfo \/ FrameDone

FrameSpec == FrameInit /\ [][FrameNext]_frame_vars

\* The frame is the compiler's: saved registers, local variables, the arguments
\* of the calls it makes and its own parameters are told apart, at every word
\* of each, and there is no warning of a gap.  Where every parameter is one
\* register, function_abi numbers the others without regard to the frame.
FrameRegionsTold ==
  info # <<>> =>
    /\ info.allocated_stack_size = frame.size
    /\ ~info.region.warned
    /\ \A o \in frame.saved : get_stack_var(arch, info, o) = <<"saved">>
    /\ \A o \in frame.locals : get_stack_var(arch, info, o) = <<"local", o>>
    /\ ~OneRegister =>
         /\ \A n \in DOMAIN abi.callee.arg_slots :
              LET offset == abi.callee.arg_slots[n].offset IN
              offset # NoOffset =>
                /\ get_stack_var(arch, info, frame.size + offset) = <<"argument", offset, 32>>
                /\ get_stack_var(arch, info, frame.size + offset + 2) = <<"argument", offset, 16>>
         /\ ~frame.is_leaf =>
              \A n \in DOMAIN abi.caller.arg_slots :
                LET slot == abi.caller.arg_slots[n] IN
                slot.reg = None => get_stack_var(arch, info, slot.offset) = <<"for a call", slot.offset>>
=============================================================================
