-------------------------------- MODULE ArmIsa -------------------------------
(***************************************************************************)
(* ArmArch.parse of m2c/arch_arm.py and the tables of evaluators, in the   *)
(* manner of MipsIsa.  Conditional execution, shifted operands and write-  *)
(* back are gone when parse is called: asm patterns rewrite them.  Left out*)
(* are rrx and setcarry.fictive, whose evaluators read a register that     *)
(* parse does not declare.                                                 *)
(***************************************************************************)
EXTENDS PpcIsa

ArmArgumentRegs == {"r0", "r1", "r2", "r3"}
ArmReturnRegs   == {"r0", "r1"}
ArmFlagRegs     == <<"n", "z", "c", "v", "hi", "ge", "gt">>
ArmTempRegs     == ArmArgumentRegs \cup {"r12"} \cup ToSet(ArmFlagRegs)

ArmG == {"r0", "r4"}
ArmD == {"r0", "r2"}  \* the first halves of doubles

arm_other_f64_reg(r) == CASE r = "r0" -> "r1" [] r = "r2" -> "r3"
ArmBoth(r) == {r, arm_other_f64_reg(r)}

\* function_return
ArmFunctionReturn == {"r0", "r1"}

\* CC_REGS: the flag a condition is, once factor_cond has made it positive.
ArmCcRegs == [eq |-> "z", cs |-> "c", mi |-> "n", vs |-> "v", hi |-> "hi", ge |-> "ge", gt |-> "gt"]

\* factor_cond
ArmFactorCond ==
  [eq |-> "eq", ne |-> "eq", cs |-> "cs", cc |-> "cs", mi |-> "mi", pl |-> "mi", vs |-> "vs", vc |-> "vs",
   hi |-> "hi", ls |-> "hi", ge |-> "ge", lt |-> "ge", gt |-> "gt", le |-> "gt"]

-----------------------------------------------------------------------------
(* Jumps and calls.                                                        *)

ArmBranches ==
  {Branching(Instr("b", {r}, {}, <<Read(r), Condition>>)) :
     r \in {ArmCcRegs[ArmFactorCond[cc]] : cc \in DOMAIN ArmFactorCond}}
  \cup {Jumping(Instr("b", {}, {}, <<>>))}

ArmCbz == {Branching(Instr("cbz", {r}, {}, <<Read(r), Condition>>)) : r \in ArmG}

ArmReturn == {Jumping(Instr("bx", {"lr"}, {}, <<>>))}

ArmCalls ==
  {Clobbering(Instr("blx", ArmArgumentRegs \cup ToSet(target), ArmReturnRegs,
                    Append(ReadAll(target), Call(ArmFunctionReturn))),
              ArmTempRegs) :
     target \in {<<>>} \cup {<<r>> : r \in ArmG}}

\* ldr pc: a tail call, which only its own base is read for.
ArmTailCall == {Jumping(Instr("ldr_pc", {r}, ArmReturnRegs, <<Read(r), Call(ArmFunctionReturn)>>)) : r \in ArmG}

\* tablejmp.fictive, and mov to pc.
ArmTableJump == {Branching(Instr("tablejmp", {r}, {}, <<Read(r), Condition>>)) : r \in ArmG}

ArmMovPc ==
  {Jumping(Instr("mov_pc", {"lr"}, {}, <<>>))}
  \cup {Branching(Instr("mov_pc", {r}, {}, <<Read(r), Condition>>)) : r \in ArmG}

-----------------------------------------------------------------------------
(* Instructions that set no flags.                                         *)

\* instrs_no_flags: how many registers an evaluator reads.
ArmInstrsNoFlags == [adr |-> 0, rbit |-> 1, ldr |-> 1, lsl |-> 2, smlabb |-> 3]

ArmNoFlags ==
  UNION {{Instr(op, {a[i] : i \in 2 .. ArmInstrsNoFlags[op] + 1}, {a[1]},
                ReadAll([i \in 1 .. ArmInstrsNoFlags[op] |-> a[i + 1]]) \o <<Write(a[1])>>) :
            a \in [1 .. ArmInstrsNoFlags[op] + 1 -> ArmG]} : op \in DOMAIN ArmInstrsNoFlags}

\* .d.fictive and cvt: dreg reads both halves, and both are assigned.
ArmDoubles ==
  {Instr("add_d", ArmBoth(a[2]) \cup ArmBoth(a[3]), ArmBoth(a[1]),
         ReadAll(<<a[2], arm_other_f64_reg(a[2]), a[3], arm_other_f64_reg(a[3])>>)
         \o WriteAll(<<a[1], arm_other_f64_reg(a[1])>>)) : a \in [1 .. 3 -> ArmD]}
  \cup {Instr("cvt_d_s", {a[2]}, ArmBoth(a[1]), <<Read(a[2]), Write(a[1]), Write(arm_other_f64_reg(a[1]))>>) :
          a \in [1 .. 2 -> ArmD]}
  \cup {Instr("cvt_s_d", ArmBoth(a[2]), {a[1]}, <<Read(a[2]), Read(arm_other_f64_reg(a[2])), Write(a[1])>>) :
          a \in [1 .. 2 -> ArmD]}

\* instrs_divmod: quotient and remainder are made before either is assigned.
ArmInstrsDivmod(a) == ReadAll(a \o a)

ArmDivmod ==
  {Instr("sdivmod", ToSet(a), {"r0", "r1"}, ArmInstrsDivmod(a) \o WriteAll(<<"r0", "r1">>)) :
     a \in [1 .. 2 -> ArmG \cup {"r1"}]}

-----------------------------------------------------------------------------
(* Loads and stores of several registers.                                  *)

ArmRegLists == {<<"r0">>, <<"r1", "r4">>, <<"r0", "r1">>}

\* ldm: everything is loaded before anything is assigned; a base that is in
\* the list is not written back.
ArmLdm ==
  {Instr("ldm", {base}, ToSet(list) \cup (IF wb THEN {base} ELSE {}),
         [i \in DOMAIN list |-> Read(base)] \o WriteAll(list)
         \o (IF wb /\ base \notin ToSet(list) THEN <<Read(base), Write(base)>> ELSE <<>>)) :
     base \in ArmG, list \in ArmRegLists, wb \in BOOLEAN}

\* Mutant: the loaded values are assigned one by one.
ArmLdmOneByOne ==
  {Instr("ldm", {base}, ToSet(list) \cup (IF wb THEN {base} ELSE {}),
         FlattenSeq([i \in DOMAIN list |-> <<Read(base), Write(list[i])>>])
         \o (IF wb /\ base \notin ToSet(list) THEN <<Read(base), Write(base)>> ELSE <<>>)) :
     base \in ArmG, list \in ArmRegLists, wb \in BOOLEAN}

ArmStm ==
  {Instr("stm", ToSet(list) \cup {base}, IF wb THEN {base} ELSE {},
         FlattenSeq([i \in DOMAIN list |-> <<Read(list[i]), Read(base)>>])
         \o (IF wb THEN <<Read(base), Write(base)>> ELSE <<>>)) :
     base \in ArmG, list \in ArmRegLists, wb \in BOOLEAN}

\* instrs_store
ArmStores == {Instr("str", ToSet(a), {}, ReadAll(a)) : a \in [1 .. 2 -> ArmG]}

-----------------------------------------------------------------------------
(* Instructions that set flags.  Those that clobber hi, ge and gt do not   *)
(* invalidate them.                                                        *)

ArmNz(i, set_flags) ==
  IF set_flags
  THEN [i EXCEPT !.outputs = @ \cup {"n", "z"}, !.clobbers = {"hi", "ge", "gt"},
                 !.eval_fn = @ \o WriteAll(<<"n", "z">>)]
  ELSE i

\* instrs_nz_flags: how many registers an evaluator reads.
ArmInstrsNzFlags == [mov |-> {0, 1}, and |-> {1, 2}, mla |-> {3}]

ArmNzFlags ==
  UNION {{ArmNz(Instr(op, {a[i] : i \in 2 .. n + 1}, {a[1]},
                      ReadAll([i \in 1 .. n |-> a[i + 1]]) \o <<Write(a[1])>>), s) :
            a \in [1 .. n + 1 -> ArmG], s \in BOOLEAN} :
         <<op, n>> \in UNION {{<<o, k>> : k \in ArmInstrsNzFlags[o]} : o \in DOMAIN ArmInstrsNzFlags}}

\* instrs_mul_full: both halves of the product are made before either is assigned.
ArmInstrsMulFull(a) == ReadAll(<<a[3], a[4], a[3], a[4]>>)

ArmMulFull ==
  {ArmNz(Instr("smull", {a[3], a[4]}, {a[1], a[2]}, ArmInstrsMulFull(a) \o WriteAll(<<a[1], a[2]>>)), s) :
     a \in {f \in [1 .. 4 -> ArmG] : f[1] = "r0" /\ f[2] = "r4"}, s \in BOOLEAN}

\* smlal and umlal go through a register of their own.
ArmMlal ==
  {ArmNz(Instr("smlal", ToSet(a), {a[1], a[2], "smlal"},
               ReadAll(<<a[3], a[4], a[1], a[2]>>) \o WriteAll(<<"smlal", a[1], a[2]>>)), s) :
     a \in {f \in [1 .. 4 -> ArmG] : f[1] = "r0" /\ f[2] = "r4"}, s \in BOOLEAN}

ArmTst ==
  {Clobbering(Instr("tst", ToSet(a), {"n", "z"}, ReadAll(a) \o WriteAll(<<"z", "n">>)), {"hi", "ge", "gt"}) :
     a \in [1 .. 2 -> ArmG] \cup [1 .. 1 -> ArmG]}

\* setcarryi.fictive: hi is recomputed from z.
ArmSetCarryI ==
  {Instr("setcarryi", IF one THEN {"z"} ELSE {}, {"c", "hi"},
         <<Write("c")>> \o (IF one THEN <<Read("z")>> ELSE <<>>) \o <<Write("hi")>>) : one \in BOOLEAN}

\* instrs_add and instrs_sub; adc, sbc and rsc read the carry.
ArmInstrsAdd(a) == Append(ReadAll(SubSeq(a, 2, 3)), Read("c"))
ArmInstrsSub(a) == Append(ReadAll(<<a[3], a[2]>>), Read("c"))

\* set_arm_flags_from_add, and eval_arm_cmp for the flags of a comparison.
ArmFlagsFromAdd == WriteAll(<<"z", "n", "c", "v", "hi", "ge", "gt">>)
ArmEvalCmp      == WriteAll(<<"z", "n", "v", "c", "hi", "ge", "gt">>)

ArmSumOf(op, a, operands, carry, s, flags) ==
  Instr(op, {a[2], a[3]} \cup (IF carry THEN {"c"} ELSE {}),
        {a[1]} \cup (IF s THEN ToSet(ArmFlagRegs) ELSE {}),
        (IF carry THEN operands ELSE Front(operands)) \o <<Write(a[1])>> \o (IF s THEN flags ELSE <<>>))

ArmAdd ==
  {ArmSumOf("add", a, ArmInstrsAdd(a), carry, s, ArmFlagsFromAdd) :
     a \in [1 .. 3 -> ArmG], carry \in BOOLEAN, s \in BOOLEAN}

ArmSub ==
  {ArmSumOf("sub", a, ArmInstrsSub(a), carry, s, ArmEvalCmp) :
     a \in [1 .. 3 -> ArmG], carry \in BOOLEAN, s \in BOOLEAN}

ArmCompares ==
  {Instr("cmp", ToSet(a), ToSet(ArmFlagRegs), ReadAll(a) \o ArmEvalCmp) : a \in [1 .. 2 -> ArmG] \cup [1 .. 1 -> ArmG]}
  \cup {Instr("cmn", ToSet(a), ToSet(ArmFlagRegs), ReadAll(a) \o ArmFlagsFromAdd) : a \in [1 .. 2 -> ArmG]}

\* instrs_float_comp: the condition goes to r0 and to the flag it is.
ArmInstrsFloatComp == {"eq", "cc", "cs", "ls", "hi", "ne"}

ArmFloatComp ==
  {Clobbering(Instr("c", IF double THEN ArmBoth(a[1]) \cup ArmBoth(a[2]) ELSE ToSet(a), {"r0", r},
                    (IF double THEN ReadAll(<<a[1], arm_other_f64_reg(a[1]), a[2], arm_other_f64_reg(a[2])>>)
                               ELSE ReadAll(a))
                    \o WriteAll(<<"r0", r>>)),
              ToSet(ArmFlagRegs) \ {r}) :
     r \in {ArmCcRegs[ArmFactorCond[cc]] : cc \in ArmInstrsFloatComp}, a \in [1 .. 2 -> ArmD], double \in BOOLEAN}

\* Ignored and unknown instructions.
ArmUnknown ==
  {Instr("unknown", {b}, {a}, <<Write(a)>>) : a \in ArmG, b \in ArmG} \cup {Instr("nop", {}, {}, <<>>)}

ArmArch ==
  [instrs |-> ArmBranches \cup ArmCbz \cup ArmReturn \cup ArmCalls \cup ArmTailCall \cup ArmTableJump \cup ArmMovPc
              \cup ArmNoFlags \cup ArmDoubles \cup ArmDivmod \cup ArmLdm \cup ArmStm \cup ArmStores \cup ArmNzFlags
              \cup ArmMulFull \cup ArmMlal \cup ArmTst \cup ArmSetCarryI \cup ArmAdd \cup ArmSub \cup ArmCompares
              \cup ArmFloatComp \cup ArmUnknown,
   temp_regs |-> ArmTempRegs, argument_regs |-> ArmArgumentRegs, preserve |-> FALSE,
   stale |-> ToSet(ArmFlagRegs)]
=============================================================================
