-------------------------------- MODULE PpcIsa -------------------------------
(***************************************************************************)
(* PpcArch.parse of m2c/arch_ppc.py and the tables of evaluators, in the   *)
(* manner of MipsIsa.  Stack words are those of MipsIsa.                   *)
(***************************************************************************)
EXTENDS MipsIsa

PpcArgumentRegs == {"r3", "r4", "f1"}
PpcReturnRegs   == {"f1", "r3", "r4"}
PpcTempRegs     == PpcArgumentRegs \cup {"ctr"}

PpcG == {"r3", "r31"}
PpcF == {"f1", "f31"}

\* function_return: f1 is left out when the result is a pointer.
PpcFunctionReturns == {{"r3", "r4"}, {"r3", "r4", "f1"}}

\* cr_field_bits
PpcCrBits(field) ==
  CASE field = "cr0" -> <<"cr0_lt", "cr0_gt", "cr0_eq", "cr0_so">>
    [] field = "cr1" -> <<"cr1_lt", "cr1_gt", "cr1_eq", "cr1_so">>

PpcFields == {"cr0", "cr1"}

-----------------------------------------------------------------------------
(* Operations on bits of the condition register.                           *)

\* cror, in the form that completes a comparison.
PpcCror ==
  {Instr("cror", {PpcCrBits(f)[3], PpcCrBits(f)[b]}, {PpcCrBits(f)[4]},
         <<Read(PpcCrBits(f)[3]), Read(PpcCrBits(f)[b]), Write(PpcCrBits(f)[4])>>) :
     f \in PpcFields, b \in {1, 2}}

PpcCrnot ==
  {Instr("crnot", {PpcCrBits(f)[s]}, {PpcCrBits(f)[d]}, <<Read(PpcCrBits(f)[s]), Write(PpcCrBits(f)[d])>>) :
     f \in PpcFields, s \in {1, 3}, d \in {1, 3}}

\* crclr and crset, and the logical operations that become a hook call on bit numbers.
PpcCrSet == {Instr("crset", {}, {b}, <<Write(b)>>) : b \in ToSet(PpcCrBits("cr0"))}

PpcCrLogical == {Instr("crand", {}, {b}, <<Write(b)>>) : b \in ToSet(PpcCrBits("cr1"))}

-----------------------------------------------------------------------------
(* Jumps and calls.                                                        *)

\* make_memory_access
PpcMemoryAccess(base, size) ==
  IF base # "sp" THEN {} ELSE IF size = 8 THEN {Words[1], Words[2]} ELSE {Words[1]}

PpcBases == {"r31", "sp"}

PpcJumps ==
  {Jumping(Instr("blr", {"lr"}, {}, <<>>)), Jumping(Instr("b", {}, {}, <<>>)),
   Branching(Instr("bctr", {"ctr"}, {}, <<Read("ctr"), Condition>>))}

PpcCalls ==
  {Clobbering(Instr("bl", PpcArgumentRegs, PpcReturnRegs, <<Call(vals)>>), PpcTempRegs) :
     vals \in PpcFunctionReturns}
  \cup {Clobbering(Instr("bctrl", PpcArgumentRegs \cup {reg}, PpcReturnRegs, <<Read(reg), Call(vals)>>),
                   PpcTempRegs) :
          reg \in {"ctr", "lr"}, vals \in PpcFunctionReturns}

\* bla: a statement, and the registers of a call are gone.
PpcBla == {Clobbering(Instr("bla", {}, {}, <<ClearCallerSave>>), PpcTempRegs)}

\* instrs_branches names the bit; another field may replace cr0.
PpcInstrsBranches == {"cr0_eq", "cr0_lt", "cr0_gt", "cr0_so", "ctr", "cr1_eq"}

PpcBranches == {Branching(Instr("beq", {b}, {}, <<Read(b), Condition>>)) : b \in PpcInstrsBranches}

-----------------------------------------------------------------------------
(* Memory.  In the x forms the address is the sum of two registers.        *)

\* make_store and make_storex: the value, then the address.
PpcStoreReads(r, base, size) == <<Read(r), Read(base)>>
PpcStorexReads(a)            == ReadAll(a)

PpcStores ==
  {Instr("stw", {r, base}, PpcMemoryAccess(base, size),
         PpcStoreReads(r, base, size) \o WriteAll(MemoryWords(base, size))) :
     r \in PpcG, base \in PpcBases, size \in {1, 2, 4, 8}}
  \cup {Instr("stwx", ToSet(a), {}, PpcStorexReads(a)) : a \in [1 .. 3 -> PpcG]}

\* Store and update: the address register is assigned before the store.
PpcStoreUpdates ==
  {Instr("stwux", ToSet(a), {a[2]}, PpcStorexReads(a) \o <<Read(a[3]), Read(a[2]), Write(a[2])>>) :
     a \in [1 .. 3 -> PpcG]}
  \cup {Instr("stwu", {r, base}, PpcMemoryAccess(base, size) \cup {base},
              PpcStoreReads(r, base, size) \o <<Read(base), Write(base)>>
              \o WriteAll(MemoryWords(base, size))) :
          r \in PpcG, base \in PpcBases, size \in {4, 8}}

\* handle_load and handle_loadx
PpcLoadReads(base, size) == <<Read(base)>> \o ReadAll(MemoryWords(base, size))
PpcLoadxReads(a)         == <<Read(a[2]), Read(a[3])>>

PpcLoads ==
  {Instr("lwz", PpcMemoryAccess(base, size) \cup {base}, {r},
         Append(PpcLoadReads(base, size), Write(r))) :
     r \in PpcG, base \in PpcBases, size \in {1, 2, 4, 8}}
  \cup {Instr("lwzx", {a[2], a[3]}, {a[1]}, Append(PpcLoadxReads(a), Write(a[1]))) : a \in [1 .. 3 -> PpcG]}

\* Load and update: the destination is assigned, then the address register.
\* The two have to differ ("rA and rD must be different").
PpcLoadUpdates ==
  {Instr("lwzu", PpcMemoryAccess(base, size) \cup {base}, {r, base},
         PpcLoadReads(base, size) \o <<Write(r), Read(base), Write(base)>>) :
     r \in {"r3"}, base \in PpcBases, size \in {4, 8}}

PpcLoadUpdateIndexed(a) ==
  Instr("lwzux", {a[2], a[3]}, {a[1], a[2]},
        PpcLoadxReads(a) \o <<Write(a[1]), Read(a[3]), Read(a[2]), Write(a[2])>>)

\* The forms whose destination is also the index register (lwzux r4, r3, r4).
PpcLoadUpdatesInto(index) ==
  {PpcLoadUpdateIndexed(a) : a \in {f \in [1 .. 3 -> PpcG] : f[1] # f[2] /\ (f[1] = f[3]) = index}}

-----------------------------------------------------------------------------
(* Destination first.                                                      *)

\* instrs_dest_first_non_load: the arguments an evaluator reads.
PpcInstrsDestFirst ==
  [add |-> <<2, 3>>, addi |-> <<2>>, li |-> <<>>, rlwimi |-> <<1, 2>>, fadd |-> <<2, 3>>,
   fmadd |-> <<2, 3, 4>>, fneg |-> <<2>>]

\* What else parse declares: carry for the extended and carrying forms, and
\* the bits of cr0 for the forms with a dot.
PpcEvalDestFirst(op, args, ins, carry_in, carry_out, dot) ==
  Instr(op, ins \cup (IF carry_in THEN {"carry"} ELSE {}),
        {args[1]} \cup (IF carry_out THEN {"carry"} ELSE {}) \cup (IF dot THEN ToSet(PpcCrBits("cr0")) ELSE {}),
        [i \in DOMAIN PpcInstrsDestFirst[op] |-> Read(args[PpcInstrsDestFirst[op][i]])]
        \o <<Write(args[1])>>
        \o (IF dot THEN WriteAll(<<"cr0_eq", "cr0_gt", "cr0_lt", "cr0_so">>) ELSE <<>>)
        \o (IF carry_out THEN <<Write("carry")>> ELSE <<>>))

\* Mutant: the destination is not counted as an input of rlwimi.
PpcInsertWithoutOld ==
  {PpcEvalDestFirst("rlwimi", a, {a[2]}, FALSE, FALSE, dot) : a \in [1 .. 2 -> PpcG], dot \in BOOLEAN}

\* rlwimi inserts into its destination.
PpcInsert ==
  {PpcEvalDestFirst("rlwimi", a, {a[1], a[2]}, FALSE, FALSE, dot) : a \in [1 .. 2 -> PpcG], dot \in BOOLEAN}

\* Plain (add), extended (adde.) and carrying (addc.).
PpcForms == {<<FALSE, FALSE, FALSE>>, <<TRUE, FALSE, TRUE>>, <<FALSE, TRUE, TRUE>>}

PpcDestFirst ==
  {PpcEvalDestFirst("add", a, {a[2], a[3]}, form[1], form[2], form[3]) :
     a \in [1 .. 3 -> PpcG], form \in PpcForms}
  \cup {PpcEvalDestFirst("addi", a, {a[2]}, form[1], form[2], form[3]) :
          a \in [1 .. 2 -> PpcG], form \in PpcForms}
  \cup {PpcEvalDestFirst("li", <<r>>, {}, FALSE, FALSE, FALSE) : r \in PpcG}
  \cup {PpcEvalDestFirst("fadd", a, {a[2], a[3]}, FALSE, FALSE, FALSE) : a \in [1 .. 3 -> PpcF]}
  \cup {PpcEvalDestFirst("fmadd", a, {a[2], a[3], a[4]}, FALSE, FALSE, FALSE) : a \in {f \in [1 .. 4 -> PpcF] : f[1] = "f1"}}
  \cup {PpcEvalDestFirst("fneg", a, {a[2]}, FALSE, FALSE, FALSE) : a \in [1 .. 2 -> PpcF]}
  \cup {Instr("mflr", {l}, {r}, <<Read(l), Write(r)>>) : l \in {"lr", "ctr"}, r \in PpcG}
  \cup {Instr("cvt", {f, base} \cup PpcMemoryAccess(base, 8), {g}, <<Read(f), Write(g)>>) :
          f \in PpcF, g \in PpcF, base \in PpcBases}

PpcMoveTo == {Instr("mtctr", {r}, {l}, <<Read(r), Write(l)>>) : l \in {"ctr", "lr"}, r \in PpcG}

\* loopstructcopy.fictive: everything is read before the two pointers are moved.
PpcStructCopy ==
  {Instr("loopstructcopy", {a[3], a[4], "r4"}, {a[1], a[2]},
         <<Read(a[3]), Read(a[4]), Read("r4"), Write(a[1]), Write(a[2])>>) :
     a \in {f \in [1 .. 4 -> PpcG] : f[1] = "r3"}}
  \cup {Instr("structcopy", ToSet(a), {}, ReadAll(a)) : a \in [1 .. 2 -> PpcG]}

\* instrs_ppc_compare: a comparison reads its operands for every bit it makes.
PpcInstrsCompare(a) == ReadAll(a)

PpcCompares ==
  {Instr("cmpw", ToSet(a), ToSet(PpcCrBits(f)),
         FlattenSeq([i \in 1 .. 3 |-> Append(PpcInstrsCompare(a), Write(PpcCrBits(f)[4 - i]))])
         \o (IF so THEN PpcInstrsCompare(a) ELSE <<>>) \o <<Write(PpcCrBits(f)[4])>>) :
     f \in PpcFields, a \in [1 .. 2 -> PpcG] \cup [1 .. 1 -> PpcG], so \in BOOLEAN}

-----------------------------------------------------------------------------
(* System registers, and the rest.                                         *)

\* Statements on at most one register.
PpcSystem ==
  {Instr("tlbie", {r}, {}, <<Read(r)>>) : r \in PpcG} \cup {Instr("sc", {}, {}, <<>>)}

\* Moves from and to MSR, SR, BAT and special registers.
PpcSystemMoves ==
  {Instr("mfmsr", {}, {r}, <<Write(r)>>) : r \in PpcG} \cup {Instr("mtmsr", {r}, {}, <<Read(r)>>) : r \in PpcG}

\* mfspr and mtspr; an unknown register makes an unknown instruction.
PpcSpr ==
  {Instr("mfspr", {}, {r}, <<Write(r)>>) : r \in PpcG} \cup {Instr("mtspr", {r}, {}, <<Read(r)>>) : r \in PpcG}
  \cup {Instr("mtspr_unknown", {r}, {}, <<>>) : r \in PpcG}

PpcStatus ==
  {Instr(op, {}, {r}, <<Write(r)>>) : op \in {"mftb", "mfxer"}, r \in PpcG}
  \cup {Instr("mtxer", {r}, {}, <<Read(r)>>) : r \in PpcG \cup PpcF}

\* mcrf copies a field bit by bit.
PpcCrMoves ==
  {Instr("mfcr", {}, {r}, <<Write(r)>>) : r \in PpcG} \cup {Instr("mtcrf", {r}, {}, <<Read(r)>>) : r \in PpcG}
  \cup {Instr("mcrf", ToSet(PpcCrBits(s)), ToSet(PpcCrBits(d)),
              FlattenSeq([i \in 1 .. 4 |-> <<Read(PpcCrBits(s)[i]), Write(PpcCrBits(d)[i])>>])) :
          s \in PpcFields, d \in PpcFields}

PpcPairedSingle ==
  {Instr("ps", {a[2], a[3]}, {a[1]}, <<Read(a[2]), Read(a[3]), Write(a[1])>>) : a \in [1 .. 3 -> PpcF]}

\* An unknown mnemonic; with a dot it sets cr0 before its destination.
PpcUnknown ==
  {Instr("unknown", {b}, {a} \cup (IF dot THEN ToSet(PpcCrBits("cr0")) ELSE {}),
         (IF dot THEN WriteAll(PpcCrBits("cr0")) ELSE <<>>) \o <<Write(a)>>) :
     a \in PpcG, b \in PpcG, dot \in BOOLEAN}

PpcArch(index) ==
  [instrs |-> PpcCror \cup PpcCrnot \cup PpcCrSet \cup PpcCrLogical \cup PpcJumps \cup PpcCalls \cup PpcBla
              \cup PpcBranches \cup PpcStores \cup PpcStoreUpdates \cup PpcLoads \cup PpcLoadUpdates
              \cup PpcLoadUpdatesInto(index) \cup PpcInsert \cup PpcDestFirst \cup PpcMoveTo \cup PpcStructCopy
              \cup PpcCompares \cup PpcSystem \cup PpcSystemMoves \cup PpcSpr \cup PpcStatus \cup PpcCrMoves
              \cup PpcPairedSingle \cup PpcUnknown,
   temp_regs |-> PpcTempRegs, argument_regs |-> PpcArgumentRegs, preserve |-> TRUE, stale |-> PpcTempRegs]
=============================================================================
