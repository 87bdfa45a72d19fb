---------------------------- MODULE ArmPatterns ----------------------------
(***************************************************************************)
(* The patterns of arch_arm.py for conditional instructions, address modes *)
(* and calls, and the small control-flow and write-back patterns of        *)
(* arch_ppc.py and arch_sh.py.  The conditions are EQ, NE, GT and LE; the  *)
(* carry flag and what the barrel shifter does to it are left out.         *)
(***************************************************************************)
EXTENDS AsmMatch

negate_cond(cc) == CASE cc = "eq" -> "ne" [] cc = "ne" -> "eq" [] cc = "gt" -> "le" [] cc = "le" -> "gt"

-----------------------------------------------------------------------------
(* InstructionEffects.                                                     *)

NoEffects == [ins |-> {}, outs |-> {}, effectful |-> FALSE, load |-> FALSE]

\* A mutant: only what the instruction reads is compared.
CanMoveBeforeReads(fx, i) ==
    /\ inputs(i) \cap fx.outs = {}
    /\ ~(fx.effectful /\ (is_effectful(i) \/ is_load(i)))
    /\ ~(fx.load /\ is_effectful(i))

can_move_before(fx, i) ==
    /\ (inputs(i) \cup Writes(i)) \cap fx.outs = {}
    /\ Writes(i) \cap fx.ins = {}
    /\ ~(fx.effectful /\ (is_effectful(i) \/ is_load(i)))
    /\ ~(fx.load /\ is_effectful(i))

AddEffects(fx, i) ==
    [ins |-> fx.ins \cup inputs(i), outs |-> fx.outs \cup Writes(i),
     effectful |-> fx.effectful \/ is_effectful(i), load |-> fx.load \/ is_load(i)]

-----------------------------------------------------------------------------
(* ConditionalInstrPattern.  st is the state of its loop: n parts are      *)
(* consumed, the last of which, moved in before and after, are given back  *)
(* unless another conditional instruction follows.                         *)

label1(i) == <<"cc", i>>
label2(i) == <<"cc2", i>>

CondStart == [cc |-> "", n |-> 0, then |-> <<>>, else |-> <<>>, before |-> <<>>, after |-> <<>>,
              mid |-> NoEffects, late |-> NoEffects, sb |-> 0, sa |-> 0, check |-> <<>>, none |-> FALSE]

Unconditional(st, i) ==
    IF can_move_before(st.mid, i) /\ st.after = <<>>
    THEN [st EXCEPT !.before = Append(@, i), !.sb = @ + 1, !.n = @ + 1]
    ELSE [st EXCEPT !.late = AddEffects(@, i), !.after = Append(@, i), !.sa = @ + 1, !.n = @ + 1]

Conditional(st, i, start) ==
    LET cc == IF st.cc = "" THEN i.cc ELSE st.cc
        same == i.cc = cc
        new == Ins(i.op, i.args)
        taken == st.then \o st.check
    IN  [st EXCEPT !.cc = cc, !.mid = AddEffects(@, i), !.n = @ + 1, !.sb = 0, !.sa = 0,
                   !.then = IF same THEN Append(taken, new) ELSE taken,
                   !.else = IF same THEN @ ELSE Append(@, new),
                   !.check = IF CC_REGS(cc) \in Writes(i)
                             THEN <<InsCc("b", negate_cond(cc), <<L(label1(start))>>)>> ELSE <<>>]

RECURSIVE ConditionalLoop(_, _, _)
RECURSIVE ConditionalNext(_, _, _, _)
\* next: the state with the conditional instruction i added.
ConditionalNext(next, i, body, start) ==
    IF \/ is_jump(i)
       \/ CC_REGS(next.cc) \in Writes(i) /\ ~(i.cc = next.cc /\ next.else = <<>>)
    THEN next
    ELSE ConditionalLoop(next, body, start)

ConditionalLoop(st, body, start) ==
    IF start + st.n > Len(body) THEN st
    ELSE IF IsLabel(body[start + st.n]) THEN st
    ELSE LET i == body[start + st.n]
         IN  IF i.cc = "" THEN
                 IF st.cc = "" THEN [st EXCEPT !.none = TRUE]
                 ELSE IF is_jump(i) THEN st
                 ELSE ConditionalLoop(Unconditional(st, i), body, start)
             ELSE IF ~can_move_before(st.late, i) \/ (st.after # <<>> /\ is_jump(i)) THEN st
             ELSE IF st.cc = "" /\ i.op = "b" THEN st
             ELSE IF st.cc # "" /\ i.cc \notin {st.cc, negate_cond(st.cc)} THEN st
             ELSE ConditionalNext(Conditional(st, i, start), i, body, start)

ConditionalReplacement(st, body, i) ==
    LET keep(q, k) == SubSeq(q, 1, Len(q) - k)
        branch == InsCc("b", negate_cond(st.cc), <<L(label1(i))>>)
        middle == IF st.else = <<>> THEN <<Label(label1(i))>>
                  ELSE <<Ins("b", <<L(label2(i))>>), Label(label1(i))>> \o st.else \o <<Label(label2(i))>>
    IN  IF IsLabel(body[i]) \/ st.none \/ st.cc = "" THEN NoMatch
        ELSE Replacement(keep(st.before, st.sb) \o <<branch>> \o st.then \o middle \o keep(st.after, st.sa),
                         st.n - st.sb - st.sa)

ConditionalInstrPattern(body, i) == ConditionalReplacement(ConditionalLoop(CondStart, body, i), body, i)

-----------------------------------------------------------------------------
(* Address modes.                                                          *)

LastArg(i) == i.args[Len(i.args)]
WithLast(i, a) == [InsCc(i.op, i.cc, [i.args EXCEPT ![Len(i.args)] = a]) EXCEPT !.clob = {}]
HasAddress(body, i) == ~IsLabel(body[i]) /\ body[i].args # <<>> /\ Has(LastArg(body[i]), "base")

NegatedRegAddrModePattern(body, i) ==
    LET m == LastArg(body[i])
        shifted == Has(m.add, "lsl")
        inner == IF shifted THEN m.add.lsl ELSE m.add
        temp == R("neg.fictive")
        add == IF shifted THEN [m.add EXCEPT !.lsl = temp] ELSE temp
    IN  IF ~HasAddress(body, i) THEN NoMatch
        ELSE IF ~Has(inner, "neg") THEN NoMatch
        ELSE Replacement(<<Ins("rsb", <<temp, R(inner.neg), N(0)>>),
                           WithLast(body[i], [m EXCEPT !.add = add])>>, 1)

ShiftedRegAddrModePattern(body, i) ==
    LET m == LastArg(body[i])
        temp == R("lsl.fictive")
    IN  IF ~HasAddress(body, i) THEN NoMatch
        ELSE IF ~Has(m.add, "lsl") THEN NoMatch
        ELSE Replacement(<<Ins("mov", <<temp, m.add>>), WithLast(body[i], [m EXCEPT !.add = temp])>>, 1)

ShiftedRegPattern(body, i) ==
    LET a == LastArg(body[i])
        temp == R("lsl.fictive")
    IN  IF IsLabel(body[i]) \/ body[i].args = <<>> THEN NoMatch
        ELSE IF ~Has(a, "lsl") THEN NoMatch
        ELSE Replacement(<<Ins("lsl", <<temp, a.lsl, N(a.by)>>), WithLast(body[i], temp)>>, 1)

AddrModeWritebackPattern(body, i) ==
    LET m == LastArg(body[i])
        plain == WithLast(body[i], At(m.base, 0))
        add == Ins("add", <<R(m.base), R(m.base), m.add>>)
    IN  IF ~HasAddress(body, i) THEN NoMatch
        ELSE IF m.wb = "no" THEN NoMatch
        ELSE IF body[i].args[1] = R(m.base) THEN DecompFailure
        ELSE Replacement(IF m.wb = "pre" THEN <<add, plain>> ELSE <<plain, add>>, 1)

RegRegAddrModePattern(body, i) ==
    LET m == LastArg(body[i])
        temp == "mem_loc.fictive"
    IN  IF ~HasAddress(body, i) THEN NoMatch
        ELSE IF ~Has(m.add, "r") THEN NoMatch
        ELSE Replacement(<<Ins("add", <<R(temp), R(m.base), m.add>>), WithLast(body[i], At(temp, 0))>>, 1)

-----------------------------------------------------------------------------
(* Calls and branches.                                                     *)

IndirectTailCallPattern(body, i) ==
    LET replace(m, n) == IF m.regs["x"] = "lr" THEN NoMatch
                         ELSE Replacement(<<Ins("blx", <<R(m.regs["x"])>>), Ins("bx", <<R("lr")>>)>>, n)
    IN  SimpleMatch(body, i, <<P(Ins("bx", <<R("x")>>))>>, replace)

IsTailBranch(body, i) ==
    ~IsLabel(body[i]) /\ body[i].op = "b" /\ body[i].cc = "" /\ body[i].args[1].l \notin LabelsOf(body)

TailCallPattern(body, i) ==
    IF IsTailBranch(body, i) THEN Replacement(<<Ins("bl", body[i].args), Ins("bx", <<R("lr")>>)>>, 1) ELSE NoMatch

BlBranchPattern(body, i) ==
    LET is_local_bl(p) == ~IsLabel(p) /\ p.op = "bl" /\ p.cc = "" /\ p.args[1].l \in LabelsOf(body)
    IN  IF is_local_bl(body[i]) THEN ReplacementClobbering(<<Ins("b", body[i].args)>>, 1, {"lr"})
        ELSE IF i + 2 > Len(body) \/ IsLabel(body[i]) THEN NoMatch
        ELSE IF /\ is_local_bl(body[i + 1]) /\ body[i].op = "b" /\ body[i].cc # ""
                /\ IsLabel(body[i + 2]) /\ body[i].args[1] = L(body[i + 2].label)
        THEN ReplacementClobbering(<<InsCc("b", negate_cond(body[i].cc), body[i + 1].args)>>, 2, {"lr"})
        ELSE NoMatch

-----------------------------------------------------------------------------
(* PowerPC and SuperH.                                                     *)

BranchCtrPattern(body, i) ==
    IF ~IsLabel(body[i]) /\ body[i].op = "bdnz"
    THEN Replacement(<<Ins("addi", <<R("ctr"), R("ctr"), N(-1)>>), Ins("bdnz.fictive", body[i].args)>>, 1)
    ELSE NoMatch

PpcTailCallPattern(body, i) ==
    IF i = Len(body) /\ IsTailBranch(body, i)
    THEN Replacement(<<Ins("bl", body[i].args), Ins("blr", <<>>)>>, 1) ELSE NoMatch

NegateTPattern(body, i) ==
    LET pattern == << P(Ins("rotcl", <<R("r")>>)), P(Ins("sh.xor", <<N(1), R("r")>>)), P(Ins("rotcr", <<R("r")>>)) >>
        replace(m, n) == ReplacementClobbering(<<Ins("negatet.fictive", <<>>)>>, n, {})
    IN  SimpleMatch(body, i, pattern, replace)

Shar31Pattern(body, i) ==
    LET temp(r) == R(r \o ".fictive")
        replace(m, n) ==
            Replacement(<<Ins("move.fictive", <<temp(m.regs["r"]), R(m.regs["r"])>>),
                          Ins("shll", <<temp(m.regs["r"])>>),
                          Ins("shar.fictive", <<R(m.regs["r"]), R(m.regs["r"]), N(W - 1)>>)>>, n)
    IN  SimpleMatch(body, i, <<P(Ins("shll", <<R("r")>>)), P(Ins("subc", <<R("r"), R("r")>>))>>, replace)

Sh2AddrModeWritebackPattern(body, i) ==
    LET k == IF body[i].op = "sh.load" THEN 1 ELSE 2
        m == body[i].args[k]
        plain == [Ins(body[i].op, [body[i].args EXCEPT ![k] = [m EXCEPT !.wb = "no"]]) EXCEPT !.clob = {}]
        move(n) == Ins("sh.add", <<N(n), R(m.base)>>)
    IN  IF IsLabel(body[i]) THEN NoMatch
        ELSE IF body[i].op \notin {"sh.load", "sh.store"} THEN NoMatch
        ELSE IF m.wb = "no" \/ m.base = "sp" THEN NoMatch
        ELSE IF R(m.base) \in ToSet(body[i].args) THEN DecompFailure
        ELSE IF m.wb = "pre" THEN Replacement(<<move(-4), plain>>, 1) ELSE Replacement(<<plain, move(4)>>, 1)
=============================================================================
