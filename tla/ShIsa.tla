-------------------------------- MODULE ShIsa --------------------------------
(***************************************************************************)
(* Sh2Arch.parse of m2c/arch_sh.py and the tables of evaluators, in the    *)
(* manner of MipsIsa.  Write-back of registers other than the stack        *)
(* pointer is rewritten by an asm pattern before; sts.l and lds.l, which   *)
(* only save and restore pr, are left out.                                 *)
(***************************************************************************)
EXTENDS ArmIsa

ShArgumentRegs == {"r4", "r5", "r6", "r7"}
ShReturnRegs   == {"r0", "r1"}
ShTempRegs     == ShArgumentRegs \cup {"r0", "r1", "r2", "r3", "condition_bit"}

ShG == {"r0", "r4"}
ShPairs == [1 .. 2 -> ShG]
T == "condition_bit"

\* function_return
ShFunctionReturn == {"r0", "r1"}

-----------------------------------------------------------------------------
(* Moves.                                                                  *)

ShMov ==
  {Instr("mov", {a[1]}, {a[2]}, <<Read(a[1]), Write(a[2])>>) : a \in ShPairs}
  \cup {Instr("sts", {m}, {r}, <<Read(m), Write(r)>>) : m \in {"macl", "mach"}, r \in ShG}
  \cup {Instr("mov", {}, {r}, <<Write(r)>>) : r \in ShG}

\* move.fictive names its destination first.
ShMoveFictive == {Instr("move", {a[2]}, {a[1]}, <<Read(a[2]), Write(a[1])>>) : a \in ShPairs}

ShMova == {Instr("mova", {}, {"r0"}, <<Write("r0")>>)}

\* mov.b, mov.w and mov.l: stores, with an index register or without; the ones
\* that push on the stack are arguments of a call.
ShMovStore ==
  {Instr("mov.l", ToSet(a), {}, ReadAll(a)) : a \in ShPairs \cup [1 .. 3 -> ShG]}
  \cup {Instr("push", {r, "r15"}, {}, <<Read(r)>>) : r \in ShG}

ShMovLoad ==
  UNION {{Instr("mov.l", ToSet(a), {r}, Append(ReadAll(a), Write(r))) : a \in [1 .. n -> ShG], r \in ShG} : n \in 1 .. 2}
  \cup {Instr("mov.l_pool", {}, {r}, <<Write(r)>>) : r \in ShG}

-----------------------------------------------------------------------------
(* Arithmetic with the T bit.                                              *)

\* addc, subc: everything is read before the destination and T are assigned.
ShAddc == {Instr("addc", ToSet(a) \cup {T}, {a[2], T}, ReadAll(<<a[2], a[1], T>>) \o WriteAll(<<a[2], T>>)) : a \in ShPairs}
ShSubc == {Instr("subc", ToSet(a) \cup {T}, {a[2], T}, ReadAll(<<a[2], a[1], T>>) \o WriteAll(<<a[2], T>>)) : a \in ShPairs}
ShNegc == {Instr("negc", {a[1], T}, {a[2], T}, ReadAll(<<a[1], T>>) \o WriteAll(<<a[2], T>>)) : a \in ShPairs}

\* Mutant: T is made from the result and not from the operands.
ShSubcBorrowLate ==
  {Instr("subc", ToSet(a) \cup {T}, {a[2], T},
         ReadAll(<<a[2], a[1], T>>) \o <<Write(a[2])>> \o ReadAll(<<a[2], a[1]>>) \o <<Write(T)>>) : a \in ShPairs}

ShRotc == {Instr("rotcl", {r, T}, {r, T}, ReadAll(<<r, T>>) \o WriteAll(<<r, T>>)) : r \in ShG}

\* instrs_shift; the ones by a single bit move it into T.
ShInstrsShift(r) == <<Read(r)>>

ShShift ==
  {Instr("shll", {r}, {r} \cup (IF t THEN {T} ELSE {}),
         <<Read(r)>> \o ShInstrsShift(r) \o <<Write(r)>> \o (IF t THEN <<Write(T)>> ELSE <<>>)) :
     r \in ShG, t \in BOOLEAN}

ShDt == {Instr("dt", {r}, {r, T}, <<Read(r), Write(r), Write(T)>>) : r \in ShG}

\* instrs_compare: tst of a register with itself reads it once.
ShInstrsCompare(a) == ReadAll(a)

ShCompare == {Instr("cmp", ToSet(a), {T}, Append(ShInstrsCompare(a), Write(T))) : a \in ShPairs \cup [1 .. 1 -> ShG]}

-----------------------------------------------------------------------------
(* Other arithmetic.                                                       *)

\* instrs_read_modify_write, on a register or on an immediate.
ShInstrsReadModifyWrite(a) == <<Read(a[2]), Read(a[1])>>

ShReadModifyWrite ==
  {Instr("add", ToSet(a), {a[2]}, Append(ShInstrsReadModifyWrite(a), Write(a[2]))) : a \in ShPairs}
  \cup {Instr("addi", {r}, {r}, <<Read(r), Write(r)>>) : r \in ShG}

\* instrs_source_dest
ShInstrsSourceDest(a) == <<Read(a[1])>>

ShSourceDest == {Instr("exts", {a[1]}, {a[2]}, Append(ShInstrsSourceDest(a), Write(a[2]))) : a \in ShPairs}

\* instrs_intrinsics: destination first.
ShInstrsIntrinsics(a) == ReadAll(SubSeq(a, 2, Len(a)))

ShIntrinsics ==
  {Instr("divs", {a[2], a[3]}, {a[1]}, Append(ShInstrsIntrinsics(a), Write(a[1]))) : a \in [1 .. 3 -> ShG]}

\* instrs_multiply
ShMultiply == {Instr("mul.l", ToSet(a), {"macl"}, ReadAll(<<a[2], a[1]>>) \o <<Write("macl")>>) : a \in ShPairs}

ShDmul ==
  {Instr("dmuls.l", ToSet(a), {"mach", "macl"},
         ReadAll(<<a[2], a[1]>>) \o <<Write("mach")>> \o ReadAll(<<a[2], a[1]>>) \o <<Write("macl")>>) : a \in ShPairs}

ShClrmac == {Instr("clrmac", {}, {"macl", "mach"}, WriteAll(<<"macl", "mach">>))}

-----------------------------------------------------------------------------
(* Jumps, calls, and the T bit by itself.                                  *)

ShBranches == {Branching(Instr("bf", {T}, {}, <<Read(T), Condition>>))}

ShJumps ==
  {Jumping(Instr("bra", {}, {}, <<>>)), Jumping(Instr("rts", {"pr"}, {}, <<>>))}
  \cup {Branching(Instr("jmp", {r}, {}, <<Read(r), Condition>>)) : r \in ShG}

ShJsr ==
  {Clobbering(Instr("jsr", ShArgumentRegs \cup {r}, ShReturnRegs, <<Read(r), Call(ShFunctionReturn)>>), ShTempRegs) :
     r \in ShG}

ShTableJump == {Branching(Instr("tablejmp", {r}, {}, <<Read(r), Condition>>)) : r \in ShG}

ShT ==
  {Instr("movt", {T}, {r}, <<Read(T), Write(r)>>) : r \in ShG}
  \cup {Instr("clrt", {}, {T}, <<Write(T)>>), Instr("negatet", {T}, {T}, <<Read(T), Write(T)>>)}

ShControl ==
  {Instr("stc", {}, {r}, <<Write(r)>>) : r \in ShG} \cup {Instr("ldc", {r}, {}, <<Read(r)>>) : r \in ShG}

ShUnknown == {Instr("unknown", {}, {}, <<>>), Instr("nop", {}, {}, <<>>)}

ShArch ==
  [instrs |-> ShMov \cup ShMoveFictive \cup ShMova \cup ShMovStore \cup ShMovLoad \cup ShAddc \cup ShSubc \cup ShNegc
              \cup ShRotc \cup ShShift \cup ShDt \cup ShCompare \cup ShReadModifyWrite \cup ShSourceDest
              \cup ShIntrinsics \cup ShMultiply \cup ShDmul \cup ShClrmac \cup ShBranches \cup ShJumps \cup ShJsr
              \cup ShTableJump \cup ShT \cup ShControl \cup ShUnknown,
   temp_regs |-> ShTempRegs, argument_regs |-> ShArgumentRegs, preserve |-> FALSE, stale |-> {}]
=============================================================================
