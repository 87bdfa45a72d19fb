---------------------------- MODULE MipsPatterns ----------------------------
(***************************************************************************)
(* The integer, memory and tail-call patterns of arch_mips.py.  Immediates *)
(* have HalfBits bits where the code masks with 0xFFFF.                    *)
(***************************************************************************)
EXTENDS AsmMatch

IsPowerOfTwo(n) == n > 0 /\ \E k \in 0..W : n = 2^k
FictiveOp(op, o, i, n) == Ins(op, <<R(o), R(i), N(n)>>)

-----------------------------------------------------------------------------

DivPattern(body, i) ==
    LET pattern == << P(Ins("bnez", <<R("q"), L("A")>>)), Star, P(Ins("break", <<>>)), P(Label("A")),
                      P(Ins("li", <<R("at"), N(-1)>>)), P(Ins("bne", <<R("q"), R("at"), L("B")>>)),
                      P(Ins("li", <<R("at"), N(-Half)>>)), P(Ins("bne", <<R("p"), R("at"), L("B")>>)),
                      P(Nop), P(Ins("break", <<>>)), P(Label("B")) >>
        replace(m, n) == Replacement(<<m.wild[1]>>, n - 1)
    IN  SimpleMatch(body, i, pattern, replace)

DivuPattern(body, i) ==
    LET pattern == << P(Ins("bnez", <<R("q"), L("A")>>)), P(Nop), P(Ins("break", <<>>)), P(Label("A")) >>
        replace(m, n) == Replacement(<<>>, n - 1)
    IN  SimpleMatch(body, i, pattern, replace)

ModP2Pattern1(body, i) ==
    LET pattern == << P(Ins("bgez", <<R("i"), L("A")>>)), P(Ins("andi", <<R("o"), R("i"), V("N")>>)),
                      P(Ins("beqz", <<R("o"), L("A")>>)), P(Nop),
                      P(Ins("addiu", <<R("o"), R("o"), Math("-", N(-1), V("N"))>>)), P(Label("A")) >>
        replace(m, n) ==
            LET val == (m.lits["N"] % 2^HalfBits) + 1
            IN  IF ~IsPowerOfTwo(val) THEN NoMatch
                ELSE Replacement(<<FictiveOp("mod.fictive", m.regs["o"], m.regs["i"], val)>>, n - 1)
    IN  SimpleMatch(body, i, pattern, replace)

ModP2Pattern2(body, i) ==
    LET pattern == << P(Ins("li", <<R("at"), V("HI")>>)), Opt(Ins("addiu", <<R("at"), R("at"), V("LO")>>)),
                      P(Ins("bgez", <<R("i"), L("A")>>)), P(Ins("and", <<R("o"), R("i"), R("at")>>)),
                      P(Ins("beqz", <<R("o"), L("A")>>)), P(Ins("addiu", <<R("at"), R("at"), N(1)>>)),
                      P(Ins("subu", <<R("o"), R("o"), R("at")>>)), P(Label("A")) >>
        replace(m, n) ==
            LET low == IF "LO" \in DOMAIN m.lits
                       THEN ((m.lits["LO"] + 2^(HalfBits - 1)) % 2^HalfBits) - 2^(HalfBits - 1) ELSE 0
                val == Uns(m.lits["HI"]) + 1 + low
            IN  IF ~IsPowerOfTwo(val) THEN NoMatch
                ELSE Replacement(<<FictiveOp("mod.fictive", m.regs["o"], m.regs["i"], val)>>, n - 1)
    IN  SimpleMatch(body, i, pattern, replace)

DivP2Pattern1(body, i) ==
    LET pattern == << P(Ins("bgez", <<R("i"), L("A")>>)), P(Ins("sra", <<R("o"), R("i"), V("N")>>)),
                      P(Ins("addiu", <<R("at"), R("i"), Math("-", Math("<<", N(1), V("N")), N(1))>>)),
                      P(Ins("sra", <<R("o"), R("at"), V("N")>>)), P(Label("A")) >>
        replace(m, n) ==
            Replacement(<<FictiveOp("div.fictive", m.regs["o"], m.regs["i"], 2^m.lits["N"])>>, n - 1)
    IN  SimpleMatch(body, i, pattern, replace)

FirstAnswer(found) == IF found = <<>> THEN NoMatch ELSE found[1]

DivP2Pattern2(body, i) ==
    LET shift == P(Ins("sra", <<R("x"), R("x"), V("N")>>))
        pattern1 == << P(Ins("bgez", <<R("x"), L("A")>>)), P(Ins("move", <<R("at"), R("x")>>)),
                       P(Ins("addiu", <<R("at"), R("x"), V("M")>>)), P(Label("A")),
                       P(Ins("sra", <<R("x"), R("at"), V("N")>>)) >>
        pattern2 == << P(Ins("bgez", <<R("x"), L("A")>>)), P(Nop),
                       P(Ins("addiu", <<R("x"), R("x"), V("M")>>)), P(Label("A")), shift >>
        pattern3 == << P(Ins("bltzl", <<R("x"), L("A")>>)),
                       P(Ins("addiu", <<R("x"), R("x"), V("M")>>)), P(Label("A")), shift >>
        replace(m, n) ==
            IF m.lits["M"] # 2^m.lits["N"] - 1 THEN NoMatch
            ELSE Replacement(<<FictiveOp("div.fictive", m.regs["x"], m.regs["x"], 2^m.lits["N"])>>, n)
        answers == [k \in 1..3 |-> SimpleMatch(body, i, <<pattern1, pattern2, pattern3>>[k], replace)]
    IN  FirstAnswer(SelectSeq(answers, LAMBDA a : a.kind = "new"))

Div2S16Pattern(body, i) ==
    LET pattern == << P(Ins("sll", <<R("i"), R("i"), V("N")>>)), P(Ins("sra", <<R("o"), R("i"), V("N")>>)),
                      P(Ins("srl", <<R("i"), R("i"), N(W - 1)>>)), P(Ins("addu", <<R("o"), R("o"), R("i")>>)),
                      P(Ins("sra", <<R("o"), R("o"), N(1)>>)) >>
        replace(m, n) == Replacement(<<body[i], body[i + 1],
                                       FictiveOp("div.fictive", m.regs["o"], m.regs["o"], 2)>>, n)
    IN  SimpleMatch(body, i, pattern, replace)

\* The two forms of Div2S32Pattern: the sum goes to the temporary, or to $i.
Div2S32(body, i, sum) ==
    LET pattern == << P(Ins("srl", <<R("t"), R("i"), N(W - 1)>>)),
                      P(Ins("addu", <<R(sum), R("i"), R("t")>>)), P(Ins("sra", <<R("o"), R(sum), N(1)>>)) >>
        replace(m, n) == IF m.regs["t"] = m.regs["i"] THEN NoMatch
                         ELSE Replacement(<<FictiveOp("div.fictive", m.regs["o"], m.regs["i"], 2)>>, n)
    IN  SimpleMatch(body, i, pattern, replace)
Div2S32Pattern1(body, i) == Div2S32(body, i, "t")
Div2S32Pattern2(body, i) == Div2S32(body, i, "i")

-----------------------------------------------------------------------------
(* The unrolled copy of IDO.                                               *)

Word1(op, x, base, e) == P(Ins(op, <<R(x), Mem(base, e, "no")>>))
Minus(x, n) == Math("-", V(x), N(n))
Bump(x) == P(Ins("addiu", <<R(x), R(x), N(12)>>))
LoopEnd == <<Word1("lw", "c", "i", Minus("N", 4)), P(Ins("bne", <<R("i"), R("e"), L("loop")>>)),
             Word1("sw", "c", "o", Minus("M", 4))>>

pattern_mips1 == << P(Label("loop")), Word1("lw", "a", "i", V("N")), Bump("i"), Word1("sw", "a", "o", V("M")),
                    Word1("lw", "b", "i", Minus("N", 8)), Bump("o"), Word1("sw", "b", "o", Minus("M", 8)) >>
                 \o LoopEnd
pattern_mips2 == << P(Label("loop")), Word1("lw", "a", "i", V("N")), Bump("i"), Bump("o"),
                    Word1("sw", "a", "o", V("MM")), Eq(V("M"), Math("+", V("MM"), N(12))),
                    Word1("lw", "b", "i", Minus("N", 8)), Word1("sw", "b", "o", Minus("M", 8)) >>
                 \o LoopEnd
epilogue1 == << Word1("lw", "x", "i", V("N")), Star, Word1("sw", "x", "o", V("M")) >>
epilogue2 == << Word1("lw", "y", "i", Math("+", V("N"), N(4))), Star,
                Word1("sw", "y", "o", Math("+", V("M"), N(4))) >>

\* The last instruction before part i, back to a label, that writes a register.
LastWriter(body, i, reg) ==
    LET since == Max({0} \cup {k \in 1..(i - 1) : IsLabel(body[k])})
        writers == {k \in (since + 1)..(i - 1) : reg \in outputs(body[k])}
    IN  IF writers = {} THEN Nop ELSE body[Max(writers)]

\* The length is known when $e is $i plus a constant.
LengthKnown(m, e_src, i_src) ==
    /\ e_src.op = "addiu"
    /\ \/ e_src.args[2] = R(m.regs["i"])
       \/ i_src.op = "move" /\ i_src.args[2] = e_src.args[2]

PlusTo(x, y, n) == Ins("addiu", <<R(x), R(y), N(n)>>)
MemcpyReplacement(m, body, i, added, words) ==
    Replacement(<< body[i], PlusTo("from", m.regs["i"], m.lits["N"]), PlusTo("to", m.regs["o"], m.lits["M"]),
                   Ins("memcpy.aligned.fictive", <<R("to"), R("from"), N(added + 4 * words)>>),
                   PlusTo(m.regs["o"], m.regs["o"], added), PlusTo(m.regs["i"], m.regs["i"], added) >>
                \o m.wild \o <<Nop>>, m.end - i)

\* m, m2, m3: the loop, with the first, and with both words after it.
LongestMemcpy(m, m2, m3, body, i, added) ==
    IF ~m2.ok THEN MemcpyReplacement(m, body, i, added, 0)
    ELSE IF ~m3.ok THEN MemcpyReplacement(m2, body, i, added, 1)
    ELSE MemcpyReplacement(m3, body, i, added, 2)

MemcpyIfKnown(m, pattern, body, i, e_src, i_src) ==
    IF ~LengthKnown(m, e_src, i_src) THEN NoMatch
    ELSE LongestMemcpy(m, try_match(body, i, pattern \o epilogue1),
                       try_match(body, i, pattern \o epilogue1 \o epilogue2), body, i, e_src.args[3].n)

MemcpyFor(m, pattern, body, i) ==
    IF ~m.ok THEN NoMatch
    ELSE MemcpyIfKnown(m, pattern, body, i, LastWriter(body, i, m.regs["e"]), LastWriter(body, i, m.regs["i"]))

FirstMemcpy(m1, body, i) ==
    IF m1.ok THEN MemcpyFor(m1, pattern_mips1, body, i)
    ELSE MemcpyFor(try_match(body, i, pattern_mips2), pattern_mips2, body, i)

AlignedMemcpyPattern(body, i) == FirstMemcpy(try_match(body, i, pattern_mips1), body, i)

-----------------------------------------------------------------------------

OriSpPattern(body, i) ==
    LET replace(m, n) ==
            IF m.lits["N"] \in 0..15 /\ m.regs["x"] # "sp"
            THEN Replacement(<<Ins("addiu", <<R(m.regs["x"]), R("sp"), N(m.lits["N"])>>)>>, n)
            ELSE NoMatch
    IN  SimpleMatch(body, i, <<P(Ins("ori", <<R("x"), R("sp"), V("N")>>))>>, replace)

MipsTailCallPattern(body, i) ==
    IF ~IsLabel(body[i]) /\ body[i].op = "j" /\ body[i].args[1].l \notin LabelsOf(body)
    THEN Replacement(<<Ins("jal", body[i].args), Nop, Ins("jr", <<R("ra")>>), Nop>>, 1)
    ELSE NoMatch
=============================================================================
