----------------------------- MODULE AsmRewrite -----------------------------
(***************************************************************************)
(* Rewriting of assembly idioms before the flow graph is built             *)
(* (simplify_patterns and AsmMatcher.apply of asm_pattern.py).             *)
(*                                                                         *)
(* The body is gone through once per pattern, from the left.  Where the    *)
(* pattern matches, its replacement goes to the output and the index moves *)
(* past what it consumed; elsewhere the part is copied.  A register that   *)
(* the consumed instructions wrote and the replacement does not is marked  *)
(* as clobbered by the last instruction of the replacement.                *)
(***************************************************************************)
EXTENDS MipsPatterns, ArmPatterns

CONSTANTS Programs,    \* programs: an instruction set, a body, the kind of
                       \* its inputs, the registers used after it (live)
                       \* and those nothing reads any more (dead)
          Inputs       \* per kind, values for some registers

VARIABLES prog,        \* the program
          input,       \* the body of this pass
          pass,        \* the pattern of this pass
          index,       \* the part of the input the matcher is at
          output,      \* what the pass has written
          matched,     \* matched_any
          outcome      \* "" | "assert" | "refused"

vars == <<prog, input, pass, index, output, matched, outcome>>

asm_patterns(arch) ==
    CASE arch = "mips" -> <<"Div", "Divu", "DivP2_1", "DivP2_2", "Div2S16", "Div2S32_1", "Div2S32_2",
                            "ModP2_1", "ModP2_2", "Memcpy", "OriSp", "MipsTailCall">>
      [] arch = "arm"  -> <<"ConditionalInstr", "NegatedReg", "ShiftedRegAddr", "ShiftedReg", "Writeback",
                            "RegReg", "IndirectTailCall", "TailCall", "BlBranch">>
      [] arch = "ppc"  -> <<"PpcTailCall", "BranchCtr">>
      [] arch = "sh"   -> <<"NegateT", "Shar31", "ShWriteback">>

Answer(pattern, body, i) ==
    CASE pattern = "Div"       -> DivPattern(body, i)
      [] pattern = "Divu"      -> DivuPattern(body, i)
      [] pattern = "DivP2_1"   -> DivP2Pattern1(body, i)
      [] pattern = "DivP2_2"   -> DivP2Pattern2(body, i)
      [] pattern = "Div2S16"   -> Div2S16Pattern(body, i)
      [] pattern = "Div2S32_1" -> Div2S32Pattern1(body, i)
      [] pattern = "Div2S32_2" -> Div2S32Pattern2(body, i)
      [] pattern = "ModP2_1"   -> ModP2Pattern1(body, i)
      [] pattern = "ModP2_2"   -> ModP2Pattern2(body, i)
      [] pattern = "Memcpy"    -> AlignedMemcpyPattern(body, i)
      [] pattern = "OriSp"     -> OriSpPattern(body, i)
      [] pattern = "MipsTailCall" -> MipsTailCallPattern(body, i)
      [] pattern = "ConditionalInstr" -> ConditionalInstrPattern(body, i)
      [] pattern = "NegatedReg" -> NegatedRegAddrModePattern(body, i)
      [] pattern = "ShiftedRegAddr" -> ShiftedRegAddrModePattern(body, i)
      [] pattern = "ShiftedReg" -> ShiftedRegPattern(body, i)
      [] pattern = "Writeback" -> AddrModeWritebackPattern(body, i)
      [] pattern = "RegReg"    -> RegRegAddrModePattern(body, i)
      [] pattern = "IndirectTailCall" -> IndirectTailCallPattern(body, i)
      [] pattern = "TailCall"  -> TailCallPattern(body, i)
      [] pattern = "BlBranch"  -> BlBranchPattern(body, i)
      [] pattern = "PpcTailCall" -> PpcTailCallPattern(body, i)
      [] pattern = "BranchCtr" -> BranchCtrPattern(body, i)
      [] pattern = "NegateT"   -> NegateTPattern(body, i)
      [] pattern = "Shar31"    -> Shar31Pattern(body, i)
      [] pattern = "ShWriteback" -> Sh2AddrModeWritebackPattern(body, i)

passes == asm_patterns(prog.arch)
Working == outcome = "" /\ pass <= Len(passes)

-----------------------------------------------------------------------------
(* AsmMatcher.apply.                                                       *)

Instrs(parts) == {p \in ToSet(parts) : ~IsLabel(p)}
Written(parts) == UNION {Writes(p) : p \in Instrs(parts)}

Missing(repl, consumed) ==
    IF repl.auto THEN Written(consumed) \ Written(repl.new) ELSE repl.clob

\* The replacement with the missing registers added to its last instruction.
Marked(new, regs) ==
    LET at == Max({k \in 1..Len(new) : ~IsLabel(new[k])})
    IN  IF regs = {} THEN new ELSE [new EXCEPT ![at].clob = @ \cup regs]

Apply(repl, consumed) ==
    /\ repl.kind = "new"
    /\ IF Written(consumed) # {} /\ Instrs(repl.new) = {}
       THEN outcome' = "assert" /\ UNCHANGED <<output, index, matched>>
       ELSE /\ output' = output \o Marked(repl.new, Missing(repl, consumed))
            /\ index' = index + repl.n
            /\ matched' = TRUE
            /\ UNCHANGED outcome

Copy(repl) ==
    /\ repl.kind = "none"
    /\ output' = Append(output, input[index])
    /\ index' = index + 1
    /\ UNCHANGED <<matched, outcome>>

\* A pattern raises DecompFailure: the function is not decompiled.
Refuse(repl) ==
    /\ repl.kind = "refused"
    /\ outcome' = "refused"
    /\ UNCHANGED <<index, output, matched>>

\* The consumed parts of a replacement.
ConsumedParts(repl) == IF repl.kind = "new" THEN SubSeq(input, index, index + repl.n - 1) ELSE <<>>

Match ==
    /\ Working /\ index <= Len(input)
    /\ \E repl \in {Answer(passes[pass], input, index)} :
         \/ Apply(repl, ConsumedParts(repl))
         \/ Copy(repl)
         \/ Refuse(repl)
    /\ UNCHANGED <<prog, input, pass>>

EndPass ==
    /\ Working /\ index > Len(input)
    /\ input' = IF matched THEN output ELSE input
    /\ pass' = pass + 1
    /\ index' = 1
    /\ output' = <<>>
    /\ matched' = FALSE
    /\ UNCHANGED <<prog, outcome>>

Init ==
    /\ prog \in Programs
    /\ input = prog.body
    /\ pass = 1
    /\ index = 1
    /\ output = <<>>
    /\ matched = FALSE
    /\ outcome = ""

Next == Match \/ EndPass

Spec == Init /\ [][Next]_vars

-----------------------------------------------------------------------------
(* Properties.                                                             *)

\* Registers that only replacements use.
FictiveRegs == {"from", "to", "neg.fictive", "lsl.fictive", "mem_loc.fictive", "s1.fictive", "s2.fictive"}

Comparable(s) == s.exit \in {"end", "ret"}

SameRun(body, given) ==
    \E old \in {Run(prog.body, given)}, new \in {Run(body, given)} :
       Comparable(old) =>
          /\ new.exit = old.exit
          /\ new.calls = old.calls
          /\ new.mem = old.mem
          /\ \A r \in prog.live : new.regs[r] = old.regs[r]
          /\ \A r \in Regs \ (prog.dead \cup FictiveRegs) :
                new.regs[r] = old.regs[r] \/ new.regs[r] = Undef \/ old.regs[r] = Undef

\* After each pass the body does what the original body does: it leaves in the
\* same way, with the same calls, memory and live registers; and a register
\* that is not live has its old value or is marked as clobbered, so that
\* reading it is reported rather than answered with a wrong value.  The
\* assertion of apply holds: a replacement without instructions never stands for
\* instructions that wrote a register.
SameBehaviour ==
    /\ outcome # "assert"
    /\ (index = 1 /\ output = <<>> /\ input # prog.body) => \A given \in Inputs[prog.in] : SameRun(input, given)
=============================================================================
