-------------------------------- MODULE MCAbi --------------------------------
EXTENDS StackFrame

Param(size, align, float) == [size |-> size, align |-> align, float |-> float]

Int32 == Param(4, 4, FALSE)
Int64 == Param(8, 8, FALSE)

\* int, float, double, long long, and structs of three and of ten bytes.
Types == {Int32, Param(4, 4, TRUE), Param(8, 8, TRUE), Int64, Param(3, 1, FALSE), Param(10, 2, FALSE)}

-----------------------------------------------------------------------------
(* The frames compilers make: IDO and GCC for MIPS, GCC for the EE, which  *)
(* keeps sixteen bytes for a register stored with sd and eight for one     *)
(* stored with swc1, mwcc for PowerPC, and GCC for ARM and SuperH.  A shape*)
(* says what a frame holds; the lowest local is loaded or its address is   *)
(* taken, except that the locals of IDO, which are above the saved         *)
(* registers, may only be stored to, also when a register argument is      *)
(* loaded from its home.  A saved register is stored again, in a local or  *)
(* as an argument.                                                         *)

Framed == {s \in Signatures : /\ s.params_known /\ ~s.is_variadic /\ s.return_size = 0
                              /\ s.params \in {<<>>, <<Int32>>, <<Int64, Int64, Int32>>,
                                                <<Int64, Int32, Int64, Int64>>}}

Shapes(a) ==
  [leaf : BOOLEAN, gprs : 0 .. 2, doubles : IF a = "sh2" THEN {0} ELSE 0 .. 1, locals : 0 .. 2,
   frame_pointer : BOOLEAN, use : IF a = "sh2" THEN {"load"} ELSE {"load", "address"},
   style : CASE a = "o32" -> {"ido", "gcc", "big"} [] a = "ee" -> {"sd", "sq"} [] a = "ppc" -> {"stw", "stmw", "psq"}
             [] OTHER -> {"gcc"}]
  \cup (IF a # "o32" THEN {} ELSE
        [leaf : {FALSE}, gprs : 0 .. 2, doubles : 0 .. 1, locals : 1 .. 2, frame_pointer : BOOLEAN,
         use : {"store", "home"}, style : {"ido", "big"}])

General(a) ==
  CASE a \in Mips -> <<"s0", "s1">> [] a = "ppc" -> <<"r31", "r29">> [] a = "arm" -> <<"r4", "r5">> [] a = "sh2" -> <<"r8", "r9">>

FramePointer(a) == CASE a \in Mips -> "fp" [] a = "ppc" -> "r30" [] a = "arm" -> "r7" [] a = "sh2" -> "r14"

\* The saved registers of one word, from the lowest address up.
SavedWords(a, h) ==
  CASE a \in {"o32", "ee", "arm"} ->
         SubSeq(General(a), 1, h.gprs) \o (IF h.frame_pointer THEN <<FramePointer(a)>> ELSE <<>>)
         \o (IF h.leaf THEN <<>> ELSE <<return_address_reg(a)>>)
    [] a = "ppc" -> SelectSeq(<<"r29", "r30", "r31">>,
                              LAMBDA r : (r = "r30" /\ h.frame_pointer) \/ r \in ToSet(SubSeq(General(a), 1, h.gprs)))
    [] a = "sh2" -> (IF h.leaf THEN <<>> ELSE <<"pr">>) \o (IF h.frame_pointer THEN <<"r14">> ELSE <<>>)
                    \o Reverse(SubSeq(General(a), 1, h.gprs))

\* Where the arguments of calls end.
OutEnd(a, s, h) ==
  IF a = "ppc" THEN 8 ELSE IF h.leaf THEN 0
  ELSE Max({home_space_size(a)} \cup
           {slot.offset + 4 : slot \in {t \in ToSet(Layout(a, s, TRUE).slots) : t.reg = None}})

Span(from, to) == {o \in from .. to - 1 : o % 4 = 0}

\* n one-word registers, d doubles, w the size of a saved word, f of a double.
Placed(a, h, out, n, d, w, f) ==
  IF h.style \in {"ido", "big"}
  THEN LET regs == RoundUp(out, 8) + 8 * d
           first == regs + 4 * (n % 2)
       IN [size |-> RoundUp(first + 4 * n + 4 * h.locals, 8), locals |-> first + 4 * n, words |-> first,
           doubles |-> RoundUp(out, 8)]
  ELSE IF a = "o32"
  THEN LET first == RoundUp(out + 4 * h.locals, 8)
           regs  == RoundUp(first + 4 * n, 8)
       IN [size |-> regs + 8 * d, locals |-> out, words |-> first, doubles |-> regs]
  ELSE IF a = "arm"
  THEN LET first == RoundUp(out + 4 * h.locals, 8)
           pad   == 4 * (n % 2)  \* a register that need not be saved
       IN [size |-> first + 8 * d + pad + 4 * n, locals |-> out, words |-> first + 8 * d + pad, doubles |-> first]
  ELSE LET size == RoundUp(out + 4 * h.locals + w * n + f * d, IF a = "sh2" THEN 4 ELSE 16)
       IN [size |-> size, locals |-> out, words |-> size - f * d - w * n, doubles |-> size - f * d]

\* The instructions that save the registers.
Saves(a, h, regs, p, w, f) ==
  LET sp == stack_pointer_reg(a)
      word == CASE a = "o32" -> "sw" [] a = "ee" -> h.style [] a = "ppc" -> "stw"
  IN (IF a = "ppc" /\ h.style = "stmw" /\ regs \in {<<"r29", "r30", "r31">>, <<"r30", "r31">>, <<"r31">>}
      THEN <<Instr("stmw", regs[1], sp, p.words)>>
      ELSE [n \in DOMAIN regs |-> Instr(word, regs[n], sp, p.words + w * (n - 1))])
     \o (IF h.doubles = 0 THEN <<>>
         ELSE CASE a = "o32" -> <<Instr("sdc1", "f20", sp, p.doubles)>>
                [] a = "ee"  -> <<Instr("swc1", "f20", sp, p.doubles), Instr("swc1", "f21", sp, p.doubles + 8)>>
                [] a = "ppc" -> <<Instr("stfd", "f31", sp, p.doubles)>>
                                \o (IF h.style = "psq" THEN <<Instr("psq_st", "f31", sp, p.doubles + 8)>> ELSE <<>>))

Prologue(a, h, regs, p, w, f) ==
  CASE h.style = "big" ->
         <<Instr("li", "t0", None, 65536), Instr("ori", "t0", "t0", p.size - 65536), Instr("subu", "sp", "t0", 0)>>
         \o Saves(a, h, regs, p, w, f)
    [] a \in Mips /\ h.style # "big" ->
         <<Instr("addiu", "sp", "sp", IF h.style = "ido" THEN 65536 - p.size ELSE -p.size)>>
         \o Saves(a, h, regs, p, w, f)
    [] a = "ppc" -> (IF h.leaf THEN <<>> ELSE <<Instr("mflr", "r0", None, 0), Instr("stw", "r0", "r1", 4)>>)
                    \o <<Instr("stwu", "r1", "r1", -p.size)>> \o Saves(a, h, regs, p, w, f)
    [] a = "arm" -> <<Instr("push", (IF Len(regs) % 2 = 1 THEN <<"r3">> ELSE <<>>) \o regs, None, 0)>>
                    \o (IF h.doubles = 0 THEN <<>> ELSE <<Instr("vpush", <<"d8">>, None, 0)>>)
                    \o <<Instr("sub", "sp", "sp", p.doubles)>>
    [] a = "sh2" -> [n \in DOMAIN regs |->
                       LET reg == Reverse(regs)[n] IN Instr(IF reg = "pr" THEN "sts.l" ELSE "mov.l", reg, "@-r15", 0)]
                    \o <<Instr("add", "r15", None, 256 - p.words)>>

Epilogue(a, h, p) ==
  CASE h.style = "big" -> <<Instr("addu", "sp", "t0", 0)>>
    [] a \in Mips /\ h.style # "big" -> <<Instr("addiu", "sp", "sp", p.size)>>
    [] a = "ppc" -> <<Instr("addi", "r1", "r1", p.size)>>
    [] a = "arm" -> <<Instr("add", "sp", "sp", p.doubles)>>
    [] a = "sh2" -> <<Instr("add", "r15", None, p.words)>>

\* The body: the saved register goes to a local and to the arguments of the
\* call; the rest uses the locals and the parameters through base.
Stores(a, s, h, regs, p) ==
  IF h.gprs = 0 THEN <<>>
  ELSE LET op == CASE a \in Mips -> "sw" [] a = "ppc" -> "stw" [] a = "arm" -> "str" [] a = "sh2" -> "mov.l"
           slots == SelectSeq(Layout(a, s, TRUE).slots, LAMBDA t : t.reg = None /\ ~OneRegister)
       IN [n \in 1 .. h.locals |-> Instr(op, General(a)[1], stack_pointer_reg(a), p.locals + 4 * (n - 1))]
          \o (IF h.leaf THEN <<>>
              ELSE [n \in DOMAIN slots |-> Instr(op, General(a)[1], stack_pointer_reg(a), slots[n].offset)])

Uses(a, s, h, p, base) ==
  LET params == SelectSeq(Layout(a, s, FALSE).slots, LAMBDA t : t.reg = None)
  IN (IF h.locals = 0 \/ h.use = "store" THEN <<>>
      ELSE IF h.use = "address"
      THEN <<Instr(CASE a \in Mips -> "addiu" [] a = "ppc" -> "addi" [] a = "arm" -> "add", "temp", base, p.locals)>>
      ELSE <<Instr("load", "temp", base, IF h.use = "home" THEN 0 ELSE p.locals)>>)
     \o [n \in DOMAIN params |-> Instr("load", "temp", base, p.size + params[n].offset)]

Move(a, h) ==
  IF h.frame_pointer
  THEN <<Instr(CASE a \in Mips -> "move" [] a = "ppc" -> "mr" [] OTHER -> "mov",
               FramePointer(a), stack_pointer_reg(a), 0)>>
  ELSE <<>>

Frame(a, s, h, regs, p, w, f) ==
  LET base == IF h.frame_pointer THEN FramePointer(a) ELSE stack_pointer_reg(a)
      start == Prologue(a, h, regs, p, w, f) \o Move(a, h) \o Stores(a, s, h, regs, p)
  IN [first_block |-> IF h.leaf THEN start \o Uses(a, s, h, p, base) \o Epilogue(a, h, p)
                      ELSE start \o <<Instr("call", None, None, 0)>>,
      other_blocks |-> IF h.leaf THEN <<>> ELSE Uses(a, s, h, p, base) \o Epilogue(a, h, p),
      size |-> p.size, is_leaf |-> h.leaf,
      locals |-> {p.locals + 4 * n : n \in 0 .. h.locals - 1},
      saved |-> {p.words + w * n + o : n \in 0 .. Len(regs) - 1, o \in IF a = "ee" THEN {0, 4} ELSE {0}}
                \cup (IF h.doubles = 0 THEN {}
                      ELSE IF a = "ee" THEN {p.doubles, p.doubles + 8} ELSE Span(p.doubles, p.doubles + f))
                \cup (IF a = "ppc" /\ ~h.leaf THEN {p.size + 4} ELSE {})]

\* The big frames of MIPS begin with locals of 64 kilobytes.
Grown(h, p) == IF h.style = "big" THEN [p EXCEPT !.size = @ + 65536] ELSE p

ShapedFrame(a, s, h, regs, w, f) ==
  Frame(a, s, h, regs, Grown(h, Placed(a, h, OutEnd(a, s, h), Len(regs), h.doubles, w, f)), w, f)

CompilerFrames(a, s) ==
  IF s \notin Framed THEN {<<>>}
  ELSE {ShapedFrame(a, s, h, SavedWords(a, h), IF a = "ee" THEN 16 ELSE 4,
                    IF a = "ee" \/ h.style = "psq" THEN 16 ELSE 8) : h \in Shapes(a)}
=============================================================================
