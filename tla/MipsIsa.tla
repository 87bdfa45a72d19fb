------------------------------- MODULE MipsIsa -------------------------------
(***************************************************************************)
(* MipsArch.parse of m2c/arch_mips.py and the tables of evaluators.        *)
(* Mnemonics that share a branch of parse and read the same arguments are  *)
(* one entry, named after one of them.  Registers are a few of every kind. *)
(***************************************************************************)
EXTENDS Isa

-----------------------------------------------------------------------------
(* Registers.                                                              *)

MipsArgumentRegs == {"a0", "f12", "f13"}
MipsReturnRegs   == {"v0", "v1", "f0", "f1"}
MipsTempRegs ==
  MipsArgumentRegs \cup MipsReturnRegs \cup {"at", "hi", "lo", "hi1", "lo1", "condition_bit"}

MipsG == {"v0", "s0"}   \* general registers the instances use, and
MipsF == {"f0", "f12"}  \* float registers, each the first half of a double

other_f64_reg(r) == CASE r = "f0" -> "f1" [] r = "f12" -> "f13"

\* function_return puts a value into every return register.
MipsFunctionReturn == {"f0", "v0", "v1", "f1"}

-----------------------------------------------------------------------------
(* Memory operands.  <<"sp", size>> is on the stack.                       *)

Words == <<"stack0", "stack4", "stack8", "stack12">>

\* make_memory_access: the words of the stack that an access of this size touches.
MipsMemoryAccess(base, size) ==
  IF base # "sp" THEN {}
  ELSE CASE size = 16 -> {Words[i] : i \in 1 .. 4}
         [] size = 8  -> {Words[1], Words[2]}
         [] OTHER     -> {Words[1]}

\* The words deref really covers.
MemoryWords(base, size) ==
  IF base # "sp" THEN <<>> ELSE SubSeq(Words, 1, IF size <= 4 THEN 1 ELSE size \div 4)

MipsBases == {"s0", "sp"}

-----------------------------------------------------------------------------
(* Jumps and calls.                                                        *)

MipsReturn == {Jumping(Instr("jr", {"ra"}, {}, <<>>))}

MipsSwitch == {Branching(Instr("jr", {r}, {}, <<Read(r), Condition>>)) : r \in MipsG}

MipsCall(op, target) ==
  Clobbering(Instr(op, MipsArgumentRegs \cup ToSet(target), MipsReturnRegs, Append(ReadAll(target), Call(MipsFunctionReturn))),
             MipsTempRegs)

MipsCalls == {MipsCall("jal", <<>>)} \cup {MipsCall("jalr", <<r>>) : r \in MipsG}

MipsJump == {Jumping(Instr("j", {}, {}, <<>>))}

\* instrs_branches: the arguments the condition is made of.
MipsInstrsBranches == [beq |-> <<1, 2>>, beqz |-> <<1>>]

\* Normal branches.  (Branch-likely ones are rewritten by build_blocks before.)
MipsBranches ==
  {Branching(Instr(op, {args[1], args[2]}, {},
                   Append([i \in DOMAIN MipsInstrsBranches[op] |-> Read(args[MipsInstrsBranches[op][i]])],
                          Condition))) :
     op \in {"beq"}, args \in [1 .. 2 -> MipsG]}
  \cup {Branching(Instr("beqz", {r}, {}, <<Read(r), Condition>>)) : r \in MipsG}
  \cup {Branching(Instr("bc1t", {"condition_bit"}, {}, <<Read("condition_bit"), Condition>>))}

-----------------------------------------------------------------------------
(* Instructions without a destination, and stores.                         *)

\* instrs_no_dest: the registers an evaluator reads.
MipsInstrsNoDest == [teq |-> <<1, 2>>, teqi |-> <<1>>, sync |-> <<>>, memcpy |-> <<1, 2>>]

MipsNoDest ==
  {Instr(op, {args[i] : i \in ToSet(MipsInstrsNoDest[op])}, {},
         [i \in DOMAIN MipsInstrsNoDest[op] |-> Read(args[MipsInstrsNoDest[op][i]])]) :
     op \in DOMAIN MipsInstrsNoDest, args \in [1 .. 2 -> MipsG]}

MipsCop0 ==
  {Instr("mfc0", {}, {r}, <<Write(r)>>) : r \in MipsG} \cup {Instr("mtc0", {r}, {}, <<>>) : r \in MipsG}

\* instrs_store: the size of the access and whether make_store reads a double.
MipsInstrsStore ==
  [sw   |-> [size |-> 4, dreg |-> FALSE], sd  |-> [size |-> 8, dreg |-> FALSE],
   sq   |-> [size |-> 16, dreg |-> FALSE], swl |-> [size |-> 4, dreg |-> FALSE],
   swc1 |-> [size |-> 4, dreg |-> FALSE], sdc1 |-> [size |-> 8, dreg |-> TRUE]]

MipsStore(op, r, base) ==
  Instr(op,
        {r, base} \cup (IF op = "sdc1" THEN {other_f64_reg(r)} ELSE {}),
        MipsMemoryAccess(base, MipsInstrsStore[op].size),
        ReadAll(<<r>> \o (IF MipsInstrsStore[op].dreg THEN <<other_f64_reg(r)>> ELSE <<>>))
          \o <<Read(base)>> \o WriteAll(MemoryWords(base, MipsInstrsStore[op].size)))

MipsStores ==
  {MipsStore(op, r, base) : op \in {"sw", "sd", "sq", "swl"}, r \in MipsG, base \in MipsBases}
  \cup {MipsStore(op, r, base) : op \in {"swc1", "sdc1"}, r \in MipsF, base \in MipsBases}

-----------------------------------------------------------------------------
(* Destination first.                                                      *)

\* instrs_destination_first: the arguments an evaluator reads with reg or dreg
\* (handle_load reads the memory operand).
MipsInstrsDestinationFirst ==
  [add  |-> [reg |-> <<2, 3>>, dreg |-> <<>>], sra  |-> [reg |-> <<2>>, dreg |-> <<>>],
   li   |-> [reg |-> <<>>, dreg |-> <<>>],     move |-> [reg |-> <<2>>, dreg |-> <<>>],
   movn |-> [reg |-> <<3, 2, 1>>, dreg |-> <<>>],
   adds |-> [reg |-> <<2, 3>>, dreg |-> <<>>], addd |-> [reg |-> <<>>, dreg |-> <<2, 3>>],
   movd |-> [reg |-> <<>>, dreg |-> <<2>>],
   cvtds |-> [reg |-> <<2>>, dreg |-> <<>>],   cvtsd |-> [reg |-> <<>>, dreg |-> <<2>>],
   cvtsw |-> [reg |-> <<2>>, dreg |-> <<>>],
   lwr  |-> [reg |-> <<1>>, dreg |-> <<>>],    lw   |-> [reg |-> <<>>, dreg |-> <<>>]]

MipsEvalReads(op, args) ==
  LET e == MipsInstrsDestinationFirst[op]
  IN ReadAll([i \in DOMAIN e.reg |-> args[e.reg[i]]])
     \o FlattenSeq([i \in DOMAIN e.dreg |-> ReadAll(<<args[e.dreg[i]], other_f64_reg(args[e.dreg[i]])>>)])

\* The eval_fn of parse: the second half of a double is assigned too.
MipsEvalDestinationFirst(op, args, ins, outs) ==
  Instr(op, ins, outs,
        MipsEvalReads(op, args) \o <<Write(args[1])>>
        \o (IF Cardinality(outs) = 2 THEN <<Write(other_f64_reg(args[1]))>> ELSE <<>>))

Both(r) == {r, other_f64_reg(r)}

\* f64 arithmetic and conversions: which operands are doubles.
MipsDoubles ==
  {MipsEvalDestinationFirst("addd", a, Both(a[2]) \cup Both(a[3]), Both(a[1])) : a \in [1 .. 3 -> MipsF]}
  \cup {MipsEvalDestinationFirst("movd", a, Both(a[2]), Both(a[1])) : a \in [1 .. 2 -> MipsF]}
  \cup {MipsEvalDestinationFirst("cvtds", a, {a[2]}, Both(a[1])) : a \in [1 .. 2 -> MipsF]}
  \cup {MipsEvalDestinationFirst("cvtsd", a, Both(a[2]), {a[1]}) : a \in [1 .. 2 -> MipsF]}
  \cup {MipsEvalDestinationFirst("cvtsw", a, {a[2]}, {a[1]}) : a \in [1 .. 2 -> MipsF]}

\* Loads; lwr merges with what its destination holds.
MipsLoad(op, size, r, base, outs) ==
  LET i == MipsEvalDestinationFirst(op, <<r>>, MipsMemoryAccess(base, size) \cup {base}
                                               \cup (IF op = "lwr" THEN {r} ELSE {}), outs)
  IN [i EXCEPT !.eval_fn = <<Read(base)>> \o ReadAll(MemoryWords(base, size)) \o @]

MipsLoads ==
  {MipsLoad("lw", size, r, base, {r}) : size \in {1, 2, 4, 8, 16}, r \in MipsG, base \in MipsBases}
  \cup {MipsLoad("lwr", 4, r, base, {r}) : r \in MipsG, base \in MipsBases}
  \cup {MipsLoad("lw", 8, r, base, Both(r)) : r \in MipsF, base \in MipsBases}

\* The last branch: every register after the first is an input.
MipsOtherDestinationFirst ==
  {MipsEvalDestinationFirst("add", a, {a[2], a[3]}, {a[1]}) : a \in [1 .. 3 -> MipsG]}
  \cup {MipsEvalDestinationFirst("movn", a, {a[1], a[2], a[3]}, {a[1]}) : a \in [1 .. 3 -> MipsG]}
  \cup {MipsEvalDestinationFirst("adds", a, {a[2], a[3]}, {a[1]}) : a \in [1 .. 3 -> MipsF]}
  \cup {MipsEvalDestinationFirst(op, a, {a[2]}, {a[1]}) : op \in {"sra", "move"}, a \in [1 .. 2 -> MipsG]}
  \cup {MipsEvalDestinationFirst("li", a, {}, {a[1]}) : a \in [1 .. 1 -> MipsG \cup {"zero"}]}
  \cup {MipsEvalDestinationFirst("move", a, {a[2]}, {a[1]}) : a \in {<<"v0", "f0">>, <<"s0", "f12">>}}
  \cup {Instr("mtc1", {g}, {f}, <<Read(g), Write(f)>>) : g \in MipsG, f \in MipsF}

-----------------------------------------------------------------------------
(* The float condition and the hi and lo registers.                        *)

\* instrs_float_comp: .s compares single registers, .d doubles.
MipsInstrsFloatComp(a, double) ==
  IF double THEN ReadAll(<<a[1], other_f64_reg(a[1]), a[2], other_f64_reg(a[2])>>) ELSE ReadAll(a)

MipsFloatComp ==
  {Instr("c", UNION {IF double THEN Both(r) ELSE {r} : r \in ToSet(a)}, {"condition_bit"},
         Append(MipsInstrsFloatComp(a, double), Write("condition_bit"))) :
     a \in [1 .. 2 -> MipsF], double \in BOOLEAN}

\* instrs_hi_lo: hi is computed first, then lo, which madd adds to.
MipsInstrsHiLo(a, lo) ==
  [mult |-> ReadAll(<<a[2], a[3], a[2], a[3]>>), madd |-> ReadAll(<<lo, a[2], a[3]>>)]

MipsHiLoRegs == {<<"hi", "lo">>, <<"hi1", "lo1">>}

MipsHiLo ==
  {Instr(op, {a[2], a[3]} \cup (IF op = "madd" THEN {p[2]} ELSE {}),
         {p[1], p[2]} \cup (IF a[1] = "zero" THEN {} ELSE {a[1]}),
         MipsInstrsHiLo(a, p[2])[op] \o WriteAll(<<p[1], p[2], a[1]>>)) :
     op \in {"mult", "madd"}, p \in MipsHiLoRegs,
     a \in {f \in [1 .. 3 -> MipsG \cup {"zero"}] : f[2] # "zero" /\ f[3] # "zero"}}

MipsMoveHiLo ==
  {Instr("mfhi", {l}, {r}, <<Read(l), Write(r)>>) : l \in UNION {ToSet(p) : p \in MipsHiLoRegs}, r \in MipsG}
  \cup {Instr("mthi", {r}, {l}, <<Read(r), Write(l)>>) : l \in UNION {ToSet(p) : p \in MipsHiLoRegs}, r \in MipsG}

\* An unknown mnemonic is guessed to be destination first.
MipsUnknown ==
  {Instr("unknown", {b}, {a}, <<Write(a)>>) : a \in MipsG, b \in MipsG} \cup {Instr("nop", {}, {}, <<>>)}

MipsArch ==
  [instrs |-> MipsReturn \cup MipsSwitch \cup MipsCalls \cup MipsJump \cup MipsBranches \cup MipsNoDest
              \cup MipsCop0 \cup MipsStores \cup MipsDoubles \cup MipsLoads \cup MipsOtherDestinationFirst
              \cup MipsFloatComp \cup MipsHiLo \cup MipsMoveHiLo \cup MipsUnknown,
   temp_regs |-> MipsTempRegs, argument_regs |-> MipsArgumentRegs, preserve |-> FALSE, stale |-> {}]
=============================================================================
