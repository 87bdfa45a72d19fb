---------------------------- MODULE MCAsmRewrite ----------------------------
(* Instances of AsmRewrite: the idioms that the compilers emit, with the   *)
(* registers and constants varied, right and wrong ones.                   *)
EXTENDS Evaluate

A == <<"A", 0>>
B == <<"B", 0>>
F == <<"fn", 0>>
PF == <<"pfn", 0>>

Program(arch, body, in, live, dead) == 
    [arch |-> arch, body |-> body, in |-> in, live |-> live, dead |-> dead, op |-> "", by |-> 0]
Given(r, S) == {[q \in {r} |-> x] : x \in S}
Given2(r, S, q, T) == {[k \in {r, q} |-> IF k = r THEN v[1] ELSE v[2]] : v \in S \X T}
Firsts1 == {"a0", "p3", "r0", "s1"}
Seconds == {"a1", "p4", "r1", "s2"}
MCInputs == [k \in {"div", "divu", "a0", "copy", "sp", "tail", "arm", "ctr", "s1T", "s1", "signed", "unsigned", "pair"} |->
    CASE k = "div"  -> Given2("a0", {-Half, -Half + 1, -9, -1, 0, 1, 8, Half - 1}, "a1", {-Half, -1, 0, 1, 5})
      [] k = "divu" -> Given("a1", {0, 1, 5})
      [] k = "a0"   -> Given("a0", Word)
      [] k = "copy" -> Given2("a0", {0}, "a1", {32})
      [] k = "sp"   -> Given("sp", {-32, 0, 16, 32})
      [] k = "tail" -> Given2("a0", {0, 3}, "a1", {2})
      [] k = "arm"  -> {[q \in {"r0", "r1", "r2", "r3", "z", "gt"} |->
                           CASE q = "r0" -> v[1] [] q = "r1" -> 8 [] q = "r2" -> 4 [] q = "r3" -> 12
                             [] q = "z" -> v[2][1] [] q = "gt" -> v[2][2]]
                        : v \in {4, 7} \X {<<0, 0>>, <<0, 1>>, <<1, 0>>} }
      [] k = "ctr"  -> Given2("ctr", {1, 2, 5}, "p3", {0, 7})
      [] k = "s1T"  -> Given2("s1", Word, "T", {0, 1})
      [] k = "s1"   -> Given("s1", {4, 8})
      [] k \in {"signed", "unsigned"} -> {[q \in Firsts1 |-> x] : x \in Word}
      [] k = "pair" -> {[q \in Firsts1 \cup Seconds |-> IF q \in Firsts1 THEN v[1] ELSE v[2]]
                        : v \in {-Half, -17, -1, 0, 1, 4, 20, Half - 1} \X {-Half, -1, 0, 1, 20, 100}}]

I3(op, a, b, c) == Ins(op, <<R(a), R(b), R(c)>>)
IN3(op, a, b, n) == Ins(op, <<R(a), R(b), N(n)>>)
Br(op, r, l) == Ins(op, <<R(r), L(l)>>)

-----------------------------------------------------------------------------
(* MIPS.                                                                   *)

Divs == { Program("mips", << Br("bnez", q, A), second, Ins("break", <<>>), Label(A),
                             Ins("li", <<R("at"), N(-1)>>), Ins("bne", <<R(q), R("at"), L(B)>>),
                             Ins("li", <<R("at"), N(low)>>), Ins("bne", <<R("a0"), R("at"), L(B)>>),
                             Nop, Ins("break", <<>>), Label(B) >>,
                  "div", {"lo", "hi", "a0", "a1"}, {})
          : q \in {"a1", "a2"}, low \in {-Half, 0}, second \in {Nop, Ins("div", <<R("a0"), R("a1")>>)} }

Divus == { Program("mips", << Br("bnez", "a1", to), Nop, Ins("break", <<>>), Label(A), Nop, Label(B) >>,
                   "divu", {"a0", "a1"}, {}) : to \in {A, B} }

ModP2s == { Program("mips", << Br("bgez", "a0", A), IN3("andi", o, "a0", n), Br("beqz", o, to), Nop,
                               IN3("addiu", o, o, m), Label(A), Nop, Label(B) >>,
                    "a0", {"a0", o}, {})
            : o \in {"v0", "a0"}, n \in {1, 3, 5, 7}, m \in {-8, -6, -4}, to \in {A, B} }

ModP2Bigs == { Program("mips", << Ins("li", <<R("at"), N(hi)>>) >>
                               \o (IF lo = 0 THEN <<>> ELSE <<IN3("addiu", "at", "at", lo)>>)
                               \o << Br("bgez", "a0", A), I3("and", o, "a0", "at"), Br("beqz", o, A),
                                     IN3("addiu", "at", "at", 1), I3("subu", o, o, "at"), Label(A) >>,
                       "a0", {"a0", o}, {})
               : o \in {"v0", "a0"}, hi \in {14, 15, 16, 31, 32}, lo \in {-1, 0, 1} }

\* The register that is divided is not the one that gets the quotient, as the
\* comment of DivP2Pattern1 has it.
DivP2s == { Program("mips", << Br("bgez", "a0", A), IN3("sra", "v0", "a0", n), IN3("addiu", "at", "a0", m),
                               IN3("sra", "v0", "at", k), Label(A) >>,
                    "a0", {"a0", "v0"}, {}) : n \in {1, 3}, k \in {1, 3}, m \in {1, 7} }

DivP2InPlace == { Program("mips", head \o <<Label(A), IN3("sra", "a0", src, n)>>, "a0", {"a0"}, {})
                  : n \in {1, 3}, src \in {"a0", "at"},
                    head \in { << Br("bgez", "a0", A), Ins("move", <<R("at"), R("a0")>>), IN3("addiu", "at", "a0", m) >>
                               : m \in {1, 7} }
                       \cup { << Br("bgez", "a0", A), Nop, IN3("addiu", "a0", "a0", m) >> : m \in {1, 7} }
                       \cup { << Br("bltzl", "a0", A), IN3("addiu", "a0", "a0", m) >> : m \in {1, 7} } }

\* The halving leaves the shifted input behind without marking it (it is dead
\* in the code that the idiom comes from).
Div2s == { Program("mips", << IN3("sll", "a0", "a0", n), IN3("sra", "v0", "a0", k), IN3("srl", "a0", "a0", W - 1),
                              I3("addu", "v0", "v0", "a0"), IN3("sra", "v0", "v0", 1) >>,
                   "a0", {"v0"}, {"a0"}) : n \in {0, 3}, k \in {0, 3} }
     \cup { Program("mips", << IN3("srl", t, "a0", W - 1), I3("addu", sum, "a0", t), IN3("sra", o, sum, k) >>,
                    "a0", {o}, {}) : t \in {"t0", "a0"}, sum \in {"t0", "a0"}, o \in {"v0", "a0", "t0"}, k \in {1, 2} }

LoadW(x, n, b) == Ins("lw", <<R(x), At(b, n)>>)
StoreW(x, n, b) == Ins("sw", <<R(x), At(b, n)>>)
Copies == { Program("mips", setup \o <<Label(A)>> \o loop \o tail,
                    "copy", {"a2", "s0"}, {})
            : setup \in {<<IN3("addiu", "t2", "a0", n)>> : n \in {12, 24}}
                        \cup {<<Ins("move", <<R("a2"), R("a0")>>), Ins("move", <<R("a0"), R("a2")>>), IN3("addiu", "t2", "a2", 12)>>},
              loop \in { << LoadW("t0", k, "a0"), IN3("addiu", "a0", "a0", 12), StoreW("t0", 0, "a1"), LoadW("t1", k - 8, "a0"),
                            IN3("addiu", "a1", "a1", 12), StoreW("t1", -8, "a1"), LoadW("t0", k - 4, "a0"),
                            Ins("bne", <<R("a0"), R("t2"), L(A)>>), StoreW("t0", last, "a1") >> : k \in {0, 4}, last \in {-4, 0} }
                 \cup { << LoadW("t0", 0, "a0"), IN3("addiu", "a0", "a0", 12), IN3("addiu", "a1", "a1", 12), StoreW("t0", -12, "a1"),
                           LoadW("t1", -8, "a0"), StoreW("t1", -8, "a1"), LoadW("t0", -4, "a0"),
                           Ins("bne", <<R("a0"), R("t2"), L(A)>>), StoreW("t0", -4, "a1") >> },
              tail \in { <<>>, << LoadW("v0", 0, "a0"), Nop, StoreW("v0", 0, "a1") >>,
                         << LoadW("v0", 0, "a0"), Ins("li", <<R("s0"), N(9)>>), StoreW("v0", 0, "a1"),
                            LoadW("t1", 4, "a0"), Nop, StoreW("t1", 4, "a1") >>,
                         << LoadW("v0", 4, "a0"), Nop, StoreW("v0", 0, "a1") >> } }

Oris == { Program("mips", <<IN3("ori", x, "sp", n)>>, "sp", {x, "sp"}, {})
          : x \in {"v0", "sp"}, n \in {0, 4, 15, 16, 24} }

\* The slot of a tail call is empty.
MipsTails == { Program("mips", << Br("beqz", "a0", A), Nop, Ins("j", <<L(to)>>), Nop, Label(A),
                                  Ins("jr", <<R("ra")>>), Ins("li", <<R("v0"), N(4)>>) >>,
                       "tail", {"v0"}, {}) : to \in {F, A} }

Mips == UNION {Divs, Divus, ModP2s, ModP2Bigs, DivP2s, DivP2InPlace, Div2s, Copies, Oris, MipsTails}

-----------------------------------------------------------------------------
(* ARM.                                                                    *)

ArmLive == {"r0", "r1", "r2", "z", "gt"}
AnyRet == Ins("bx", <<R("lr")>>)
Firsts == { InsCc("mov", "eq", <<R("r0"), N(1)>>), InsCc("cmp", "eq", <<R("r0"), N(4)>>),
            InsCc("str", "ne", <<R("r0"), At("r1", 0)>>), InsCc("ldr", "eq", <<R("r2"), At("r1", 4)>>),
            InsCc("mov", "gt", <<R("r1"), R("r2")>>), InsCc("bl", "eq", <<L(F)>>) }
Middles == { Ins("mov", <<R("r2"), N(8)>>), Ins("add", <<R("r0"), R("r0"), N(4)>>),
             Ins("str", <<R("r2"), At("r1", 0)>>), Ins("ldr", <<R("r2"), At("r1", 0)>>),
             Ins("cmp", <<R("r1"), R("r2")>>), Ins("tst", <<R("r0"), N(3)>>), Ins("movs", <<R("r1"), N(12)>>),
             Ins("bl", <<L(F)>>), AnyRet, InsCc("mov", "ne", <<R("r1"), N(4)>>), InsCc("mov", "eq", <<R("r2"), R("r0")>>),
             InsCc("cmp", "eq", <<R("r1"), N(8)>>), InsCc("str", "eq", <<R("r2"), At("r1", 4)>>), InsCc("add", "le", <<R("r0"), R("r0"), R("r2")>>),
             InsCc("bx", "eq", <<R("lr")>>) }

ArmConditional == { Program("arm", <<f, m1, m2, m3>>, "arm", ArmLive, {})
                    : f \in Firsts, m1 \in Middles, m2 \in Middles, m3 \in { x \in Middles : x.cc # "" } }

\* The loaded register is not the one that is added to the base afterwards.
ArmAddress == { Program("arm", <<InsCc(op, cc, <<R(x), Mem("r1", add, wb)>>), Ins("mov", <<R("r2"), N(1)>>)>>, "arm", ArmLive, {})
                : op \in {"ldr", "str"}, cc \in {"", "eq"}, x \in {"r0", "r1"}, wb \in {"no", "pre", "post"},
                  add \in {N(0), N(4), R("r2"), Neg("r2"), Shl(R("r2"), 1), Shl(Neg("r2"), 1)} }
            \cup { Program("arm", <<InsCc(op, cc, <<R("r0"), R("r1"), Shl(R("r2"), 2)>>)>>, "arm", ArmLive, {})
                   : op \in {"add", "sub"}, cc \in {"", "gt"} }

\* Stores with a register that is added, or with write-back, among conditional
\* instructions: what they read and write is not all declared.
ArmStores == { Program("arm", <<InsCc("str", "eq", <<R("r0"), Mem("r1", add, wb)>>), m, InsCc("mov", "eq", <<R("r0"), N(5)>>)>>,
                       "arm", ArmLive, {})
               : add \in {N(4), R("r2")}, wb \in {"no", "post"},
                 m \in {Ins("mov", <<R("r2"), N(8)>>), Ins("mov", <<R("r2"), R("r1")>>)} }

ArmCalls == { Program("arm", <<InsCc("b", cc, <<L(A)>>), j, Label(A), Ins("mov", <<R("r0"), R("r1")>>), Label(B), last>>,
                      "arm", {"r0"}, {})
              : cc \in {"eq", "le"}, last \in {AnyRet, Ins("b", <<L(F)>>), Ins("bx", <<R("r3")>>)},
                j \in {Ins("bl", <<L(B)>>), Ins("bl", <<L(F)>>), Ins("b", <<L(B)>>), Ins("b", <<L(F)>>), Ins("bx", <<R("r3")>>)} }

Arm == UNION {ArmConditional, ArmAddress, ArmCalls}

-----------------------------------------------------------------------------
(* PowerPC and SuperH.                                                     *)

Ppc == { Program("ppc", <<Label(A), IN3("addi", "p3", "p3", 2), Ins("bdnz", <<L(A)>>)>> \o last,
                 "ctr", {"p3", "ctr"}, {})
         : last \in {<<>>, <<Ins("b", <<L(PF)>>)>>} }

Sh == { Program("sh", << Ins("rotcl", <<R("s1")>>), Ins("sh.xor", <<N(n), R(x)>>), Ins("rotcr", <<R("s1")>>) >>,
                "s1T", {"s1", "s2", "T"}, {}) : n \in {1, 2}, x \in {"s1", "s2"} }
   \cup { Program("sh", << Ins("shll", <<R("s1")>>), Ins("subc", <<R(x), R(x)>>) >>, "s1T",
                  {"s1", "s2", "T"}, {}) : x \in {"s1", "s2"} }
   \cup { Program("sh", << Ins("sh.load", <<Mem("s1", N(0), wb), R(x)>>) >>, "s1", {"s1", "s2", "sp"}, {})
          : wb \in {"no", "post"}, x \in {"s2", "s1"} }
   \cup { Program("sh", << Ins("sh.store", <<R(x), Mem("s1", N(0), wb)>>) >>, "s1", {"s1", "s2"}, {})
          : wb \in {"no", "pre"}, x \in {"s2", "s1"} }

-----------------------------------------------------------------------------
(* Straight-line arithmetic.                                               *)

Line(arch, body, in, live) == Program(arch, body, in, {live}, {})

MipsOne(d, x) == {IN3("sll", d, x, 2), IN3("sll", d, x, 4), IN3("sra", d, x, 4), Ins("negu", <<R(d), R(x)>>),
                  IN3("addiu", d, x, 16), IN3("xori", d, x, 1),
                  Ins("sltu", <<R(d), N(0), R(x)>>), IN3("sltiu", d, x, 1), IN3("ori", d, x, 3), IN3("srl", d, x, 4)}
MipsTwo(d, x, y) == {I3("addu", d, x, y), I3("subu", d, x, y), I3("xor", d, x, y), I3("slt", d, x, y)}

\* Not a - (a >> 4) * 16, which becomes a % 16 although it rounds down (and,
\* with srl, makes the parameter unsigned).
RoundsDown(l) == l[1].op \in {"sra", "srl"} /\ l[2].op = "sll" /\ l[3].op = "subu" /\ l[3].args[2] = R("a0")
MipsLines == { Line("mips", l, "pair", "v0")
               : l \in { q \in (MipsOne("t0", "a0") \cup MipsTwo("t0", "a0", "a1"))
                               \X (UNION {MipsOne("t1", "t0"), MipsTwo("t1", "t0", "a0"), MipsTwo("t1", "t0", "t0")})
                               \X (UNION {MipsOne("v0", "t1"), MipsTwo("v0", "t1", "t0"), MipsTwo("v0", "a0", "t1")})
                         : ~RoundsDown(q) } }

MipsTests == { Line("mips", <<i, j, Ins(test, <<R("cond"), R("t1")>>)>>, "pair", "cond")
               : i \in MipsOne("t0", "a0") \cup MipsTwo("t0", "a0", "a1") \cup {Ins("slti", <<R("t0"), R("a0"), N(4)>>)},
                 j \in {IN3("sll", "t1", "t0", 3), IN3("sll", "t1", "t0", 5), IN3("andi", "t1", "t0", 8), IN3("xori", "t1", "t0", 1),
                        Ins("sltu", <<R("t1"), N(0), R("t0")>>), IN3("sltiu", "t1", "t0", 1), IN3("sltiu", "t1", "t0", -1),
                        Ins("move", <<R("t1"), R("t0")>>)},
                 test \in Tests }

Rotates(op) == { Ins(op, <<R("p4"), R("p3"), N(n), N(mb), N(me)>>) : n \in {0, 1, 3, 6}, mb \in 0..W - 1, me \in 0..W - 1 }
PpcLines == { Line("ppc", <<i>>, "pair", "p4") : i \in Rotates("rlwinm") \cup Rotates("rlwimi") }
       \cup { Line("ppc", <<i, j>>, "pair", "p3")
              : i \in {Ins("cntlzw", <<R("p4"), R("p3")>>), I3("subf", "p4", "p4", "p3"), Ins("extsb", <<R("p4"), R("p3")>>),
                       Ins("extsh", <<R("p4"), R("p3")>>), Ins("negu", <<R("p4"), R("p3")>>), IN3("addi", "p4", "p3", 32),
                       Ins("li", <<R("p4"), N(37)>>), I3("or", "p4", "p3", "p4"), I3("and", "p4", "p3", "p4")}
                     \cup {I3(op, "p4", "p3", "p4") : op \in {"divw", "divwu", "orc", "andc", "nor", "xor", "eqv", "cmpne.fictive", "cmple.fictive",
                                                            "cmplt.fictive", "cmpleu.fictive", "cmpltu.fictive"}}
                     \cup {IN3("subfic", "p4", "p3", 5), Ins("cmplez.fictive", <<R("p4"), R("p3")>>), Ins("cmpgtz.fictive", <<R("p4"), R("p3")>>),
                           IN3("andi", "p4", "p3", 15)},
                j \in { Ins("rlwinm", <<R("p3"), R("p4"), N(n), N(mb), N(W - 1)>>) : n \in {0, 4, 5, 6}, mb \in {0, 3, 4, 6} }
                      \cup {Ins("cmpnez.fictive", <<R("p3"), R("p4")>>), I3("add", "p3", "p3", "p4"), I3("subf", "p3", "p4", "p3"),
                            I3("or", "p3", "p4", "p4"), I3("or", "p3", "p4", "p3"), IN3("addi", "p3", "p4", -7),
                            Ins("rlwimi", <<R("p3"), R("p4"), N(2), N(1), N(4)>>), IN3("ori", "p3", "p4", 0),
                            IN3("xori", "p3", "p4", 1), Ins("negu", <<R("p3"), R("p4")>>), Ins("not", <<R("p3"), R("p4")>>),
                            IN3("mullw", "p3", "p4", 6)} }
       \cup { Line("ppc", << I3("subf", "p4", "p4", "p3"), Ins("cntlzw", <<R("p4"), R("p4")>>),
                             Ins("rlwinm", <<R("p3"), R("p4"), N(W - 3), N(mb), N(W - 1)>>) >>, "pair", "p3") : mb \in {0, 3, 5} }

ArmOne(d, x) == {IN3("lsl", d, x, 4), IN3("lsl", d, x, 5), IN3("lsl", d, x, 6), IN3("asr", d, x, 4), IN3("asr", d, x, 6),
                 IN3("lsr", d, x, 4), IN3("lsr", d, x, 6), IN3("and", d, x, 3), IN3("and", d, x, 15), IN3("and", d, x, 0),
                 IN3("orr", d, x, 8), IN3("orr", d, x, 3), IN3("eor", d, x, 1), Ins("mvn", <<R(d), R(x)>>), IN3("add", d, x, 20),
                 IN3("add", d, x, 3), IN3("rsb", d, x, 0), Ins("mov", <<R(d), N(37)>>)}
ArmTwo(d, x, y) == {I3("add", d, x, y), I3("sub", d, x, y), I3("rsb", d, x, y), I3("orr", d, x, y), I3("mul", d, x, y), I3("bic", d, x, y),
                   I3("orn", d, x, y)}
\* Not a literal that is narrowed, which keeps its value.
Narrows(j) == j.op = "and" /\ j.args[3] \in {N(3), N(15)}
ArmLines == { Line("arm", <<p[1], p[2]>>, "pair", "r2")
              : p \in { q \in ArmOne("r3", "r0") \X (ArmOne("r2", "r3") \cup ArmTwo("r2", "r3", "r0") \cup ArmTwo("r2", "r0", "r3"))
                        : ~(q[1].op = "mov" /\ Narrows(q[2])) } }

ShShift == {Ins("shll2", <<R("s1")>>), Ins("shlr2", <<R("s1")>>), IN3("shar.fictive", "s1", "s1", 3)}
ShNarrow == {Ins(op, <<R("s1"), R("s1")>>) : op \in SourceDest}
ShOther == {Ins(op, <<x, R("s1")>>) : op \in ShUpdates, x \in {R("s2"), N(1)}} \cup {Ins("sh.add", <<N(16), R("s1")>>)}
\* Not a narrowing between two shifts, which is lost.
ShLines == { Line("sh", <<i, j, k>>, "pair", "s1")
             : i \in ShOther \cup ShNarrow, j \in UNION {ShShift, ShOther, ShNarrow}, k \in ShShift \cup {Ins("sh.sub", <<R("s1"), R("s1")>>)} }
      \cup { Line("sh", <<i, j, k>>, "pair", "s1") : i \in ShShift, j \in ShShift \cup ShOther, k \in ShShift }

-----------------------------------------------------------------------------
(* Division by a constant, as GCC and MWCC compile it: the high half of    *)
(* the product with an approximation m of 2^(W + s) / d, with the least s  *)
(* that makes it exact.                                                    *)

Idiom(arch, body, in, live, op, d) == [Line(arch, body, in, live) EXCEPT !.op = op, !.by = d]
Divisors == {3, 5, 6, 7, 9, 10, 11, 12, 13, 14, 15, 17, 20, 24, 25, 29, 30, 31, 40, 50, 60, 63}

Approx(d, s) == (2^(W + s) \div d) + 1
SignedShift(d) == CHOOSE s \in 0..W : /\ Approx(d, s) * d <= 2^(W + s) + 2^(s + 1)
                                      /\ \A q \in 0..(s - 1) : Approx(d, q) * d > 2^(W + q) + 2^(q + 1)
UnsignedFits(d, s) == Approx(d, s) * d <= 2^(W + s) + 2^s /\ Approx(d, s) < 2^W

MipsQuotient(d, s, m) ==
    << Ins("li", <<R("t1"), N(m)>>), Ins("mult", <<R("a0"), R("t1")>>), Ins("mfhi", <<R("t2")>>) >>
    \o (IF m >= Half THEN <<I3("addu", "t2", "t2", "a0")>> ELSE <<>>)
    \o (IF s > 0 THEN <<IN3("sra", "t2", "t2", s)>> ELSE <<>>)
    \o << IN3("sra", "t0", "a0", W - 1) >>

MipsDivisions ==
    { Idiom("mips", MipsQuotient(d, SignedShift(d), Approx(d, SignedShift(d))) \o <<last>>, "signed", "v0", "/", d)
      : d \in Divisors, last \in {I3("subu", "v0", "t2", "t0")} }
    \cup { Idiom("mips", MipsQuotient(d, SignedShift(d), Approx(d, SignedShift(d))) \o <<I3("subu", "v0", "t0", "t2")>>,
                 "signed", "v0", "/", -d) : d \in Divisors }
    \cup { Idiom("mips", MipsQuotient(d, SignedShift(d), Approx(d, SignedShift(d)))
                         \o << I3("subu", "t2", "t2", "t0"), IN3("sll", "t0", "t2", 1), I3("addu", "t0", "t0", "t2"),
                               IN3("sll", "t0", "t0", IF d = 6 THEN 1 ELSE IF d = 12 THEN 2 ELSE 3),
                               I3("subu", "v0", "a0", "t0") >>, "signed", "v0", "%", d) : d \in {6, 12, 24} }
    \cup { Idiom("mips", << Ins("li", <<R("t1"), N(Approx(d, s))>>), Ins("multu", <<R("a0"), R("t1")>>), Ins("mfhi", <<R("t2")>>),
                            IN3("srl", "v0", "t2", s) >>, "unsigned", "v0", "/", d)
           : <<d, s>> \in {p \in Divisors \X (0..W) : UnsignedFits(p[1], p[2]) /\ p[2] > 0} }

PpcQuotient(d, s, m) ==
    << Ins("li", <<R("p4"), N(m)>>), I3("mulhw", "p4", "p4", "p3") >>
    \o (IF m >= Half THEN <<I3("add", "p4", "p4", "p3")>> ELSE <<>>)
    \o (IF s > 0 THEN <<IN3("srawi", "p4", "p4", s)>> ELSE <<>>)
    \o << Ins("rlwinm", <<R("plr"), R("p4"), N(1), N(W - 1), N(W - 1)>>), I3("add", "p4", "p4", "plr") >>

PpcDivisions ==
    { Idiom("ppc", PpcQuotient(d, SignedShift(d), Approx(d, SignedShift(d))), "signed", "p4", "/", d)
      : d \in {q \in Divisors : q <= 2^(W - 3)} }
    \cup { Idiom("ppc", PpcQuotient(d, SignedShift(d), Approx(d, SignedShift(d)))
                        \o <<IN3("mullw", "p4", "p4", d), I3("subf", "p3", "p4", "p3")>>, "signed", "p3", "%", d)
           : d \in {q \in Divisors : q <= 2^(W - 3)} }
    \cup { Idiom("ppc", <<IN3("srawi", "p4", "p3", n), Ins("addze", <<R("p4"), R("p4")>>)>>, "signed", "p4", "/", 2^n)
           : n \in 1..W - 2 }

MCPrograms == UNION {Mips, Arm, Ppc, Sh, MipsLines, MipsTests, PpcLines, ArmLines, ShLines, MipsDivisions, PpcDivisions}
=============================================================================
