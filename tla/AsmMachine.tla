----------------------------- MODULE AsmMachine -----------------------------
(***************************************************************************)
(* The assembly that the rewriting patterns work on, and a machine for it. *)
(*                                                                         *)
(* The instructions are those of the modelled patterns of MIPS, PowerPC,   *)
(* ARM and SuperH, the fictive ones of m2c included.  A word has W bits    *)
(* and is signed; an address is a byte address, memory holds words.  A     *)
(* register that an instruction is marked to clobber is Undef after it:    *)
(* m2c reports an error where such a register is read.  The machine is the *)
(* reference that the rewriting is compared with.                          *)
(***************************************************************************)
EXTENDS Integers, Sequences, FiniteSets, SequencesExt, Bitwise

CONSTANT W             \* bits of a word

\* As 32 is, a power of two: half a word and a byte have whole bits.
ASSUME WidthAssumption == \E k \in 3..5 : W = 2^k

-----------------------------------------------------------------------------
(* Arguments, instructions and labels (asm_instruction.py).                *)

R(x) == [r |-> x]
N(n) == [n |-> n]
L(x) == [l |-> x]
Neg(x) == [neg |-> x]
Shl(x, n) == [lsl |-> x, by |-> n]
Mem(base, add, wb) == [base |-> base, add |-> add, wb |-> wb]
At(base, n) == Mem(base, N(n), "no")

InsCc(op, cc, args) == [op |-> op, cc |-> cc, args |-> args, clob |-> {}]
Ins(op, args) == InsCc(op, "", args)
Label(x) == [label |-> x]
Nop == Ins("nop", <<>>)

Has(x, f)  == f \in DOMAIN x
IsLabel(p) == Has(p, "label")
LabelsOf(body) == {p.label : p \in {q \in ToSet(body) : IsLabel(q)}}

-----------------------------------------------------------------------------
(* Registers, and what each instruction declares (the parse functions of   *)
(* the architectures).                                                     *)

FlagRegs == {"z", "gt"}
ArmTemps == {"r0", "r1", "r2", "r3", "lr"} \cup FlagRegs
MipsTemps == {"v0", "a0", "a1", "a2", "at", "t0", "t1", "t2", "ra"}
PpcTemps == {"p3", "p4", "plr", "ctr"}
Regs == ArmTemps \cup MipsTemps \cup PpcTemps
        \cup {"r4", "sp", "s0", "hi", "lo", "from", "to", "T", "s1", "s2", "ca", "cond",
              "neg.fictive", "lsl.fictive", "mem_loc.fictive", "s1.fictive", "s2.fictive"}

\* Instructions that no pattern is about, and that are evaluated (Evaluate).
Tests      == {"test.bgez", "test.bltz", "test.beqz", "test.bnez", "test.blez", "test.bgtz"}
Compares   == {"slt", "slti", "sltu", "sltiu", "cmpnez.fictive", "cmpne.fictive", "cmple.fictive", "cmplez.fictive",
               "cmplt.fictive", "cmpgtz.fictive", "cmpleu.fictive", "cmpltu.fictive"}
Bitwise1   == {"or", "xor", "xori", "not", "nor", "orr", "eor", "mvn", "bic", "orn", "orc", "andc", "eqv", "asr", "lsr",
               "cntlzw", "extsh", "extsb", "srawi", "rlwinm", "rlwimi", "shll2", "shlr2"}
Arithmetic == {"negu", "mfhi", "mflo", "mul", "mullw", "mulhw", "mulhwu", "divw", "divwu", "subf", "subfic", "addze"}
              \cup Bitwise1 \cup Compares \cup Tests
Dest1 == {"li", "move", "addiu", "addu", "subu", "and", "andi", "ori", "sll", "sra", "srl", "lw",
          "div.fictive", "mod.fictive", "mov", "movs", "add", "sub", "rsb", "lsl", "ldr", "addi",
          "move.fictive", "shar.fictive", "rotcl", "rotcr", "shll", "subc"} \cup Arithmetic
SourceDest == {"sh.not", "sh.neg", "exts.b", "exts.w", "extu.b", "extu.w"}
Dest2 == {"sh.add", "sh.sub", "sh.and", "sh.or", "sh.xor", "sh.load"} \cup SourceDest
Stores == {"sw", "str", "sh.store"}
Loads  == {"lw", "ldr", "sh.load"}
CallOps == {"jal", "bl", "blx"}

outputs(i) ==
    (IF i.op \in Dest1 THEN {i.args[1].r} ELSE IF i.op \in Dest2 THEN {i.args[2].r} ELSE {})
    \cup (CASE i.op = "div"  -> {"hi", "lo"}
            [] i.op \in {"mult", "multu"} -> {"hi", "lo"}
            [] i.op = "srawi" -> {"ca"}
            [] i.op = "cmp"  -> FlagRegs
            [] i.op \in {"tst", "movs"} -> {"z"}
            [] i.op = "jal"  -> {"v0"}
            [] i.op \in {"bl", "blx"} -> {"r0", "r1"}
            [] i.op \in {"rotcl", "rotcr", "shll", "subc", "negatet.fictive"} -> {"T"}
            [] OTHER -> {})

clobbers(i) ==
    i.clob \cup (CASE i.op \in {"tst", "movs"} -> {"gt"}
                   [] i.op = "jal" -> MipsTemps
                   [] i.op \in {"bl", "blx"} -> ArmTemps
                   [] OTHER -> {})

Writes(i) == outputs(i) \cup clobbers(i)

CC_REGS(cc) == IF cc \in {"eq", "ne"} THEN "z" ELSE "gt"

ArgRegs(a) == IF Has(a, "r") THEN {a.r} ELSE IF Has(a, "neg") THEN {a.neg}
              ELSE IF Has(a, "lsl") THEN (IF Has(a.lsl, "r") THEN {a.lsl.r} ELSE {a.lsl.neg})
              ELSE {}
\* get_inputs of the ARM parse function.
AllRegs(a) == IF Has(a, "base") THEN {a.base} \cup ArgRegs(a.add) ELSE ArgRegs(a)

\* The inputs of an ARM instruction.  A store declares its value and its base,
\* and not a register that is added to the base.
inputs(i) ==
    (CASE i.op = "str" -> {i.args[1].r, i.args[2].base}
       [] i.op \in {"bl", "blx"} -> {"r0", "r1", "r2", "r3"}
       [] i.op = "bx" -> {i.args[1].r}
       [] i.op \in {"cmp", "tst"} -> UNION {AllRegs(a) : a \in ToSet(i.args)}
       [] i.op \in Dest1 -> UNION {AllRegs(i.args[k]) : k \in 2..Len(i.args)}
       [] OTHER -> {})
    \cup (IF i.cc = "" THEN {} ELSE {CC_REGS(i.cc)})

is_load(i)      == i.op = "ldr"
is_effectful(i) == i.op \in {"str", "bl", "blx", "b", "bx"}
is_jump(i)      == i.op \in {"b", "bx"}

-----------------------------------------------------------------------------
(* The machine.                                                            *)

Half    == 2^(W - 1)
Wrap(x) == ((x + Half) % 2^W) - Half
Word    == -Half .. Half - 1
Undef   == 2 * Half
Uns(x)  == x % 2^W
Addrs   == {4 * k : k \in 0..((Half \div 4) - 1)}

\* A half word and a byte.
HalfBits == W \div 2
ByteBits == W \div 4
Narrow(x, bits, signed) ==
    IF signed THEN ((x + 2^(bits - 1)) % 2^bits) - 2^(bits - 1) ELSE x % 2^bits
Bit(c) == IF c THEN 1 ELSE 0

TruncDiv(x, n) == IF x >= 0 THEN x \div n ELSE -((-x) \div n)

Start(given) ==
    [regs  |-> [r \in Regs |-> IF r \in DOMAIN given THEN given[r] ELSE 9],
     mem   |-> [a \in Addrs |-> Wrap(3 * a + 1)],
     calls |-> <<>>,
     exit  |-> ""]

ValueOf(s, a) ==
    LET reg(x)  == s.regs[x]
        minus(v) == IF v = Undef THEN Undef ELSE Wrap(-v)
        plain(b) == IF Has(b, "r") THEN reg(b.r) ELSE IF Has(b, "neg") THEN minus(reg(b.neg))
                    ELSE Wrap(b.n)
    IN  IF ~Has(a, "lsl") THEN plain(a)
        ELSE IF plain(a.lsl) = Undef THEN Undef ELSE Wrap(plain(a.lsl) * 2^a.by)

UnsDiv(x, n) == IF n = 0 THEN Undef ELSE Wrap(Uns(x) \div Uns(n))
SignedDiv(x, n) == IF n = 0 THEN Undef ELSE Wrap(IF n < 0 THEN TruncDiv(-x, -n) ELSE TruncDiv(x, n))

Compute(op, x, y) ==
    CASE op \in {"li", "move", "mov", "movs", "move.fictive"} -> x
      [] op \in {"addiu", "addu", "add", "addi", "sh.add"} -> Wrap(x + y)
      [] op \in {"subu", "sub", "sh.sub"} -> Wrap(x - y)
      [] op \in {"rsb", "subf", "subfic"} -> Wrap(y - x)
      [] op \in {"and", "andi", "sh.and"} -> Wrap(Uns(x) & Uns(y))
      [] op \in {"ori", "or", "orr", "sh.or"} -> Wrap(Uns(x) | Uns(y))
      [] op \in {"xor", "sh.xor", "xori", "eor"} -> Wrap(Uns(x) ^^ Uns(y))
      [] op \in {"sll", "lsl", "shll2"} -> Wrap(x * 2^y)
      [] op \in {"sra", "shar.fictive", "asr", "srawi"} -> x \div 2^y
      [] op \in {"srl", "lsr", "shlr2"} -> Wrap(Uns(x) \div 2^y)
      [] op \in {"not", "mvn", "sh.not"} -> -x - 1
      [] op = "nor" -> -Wrap(Uns(x) | Uns(y)) - 1
      [] op = "eqv" -> -Wrap(Uns(x) ^^ Uns(y)) - 1
      [] op \in {"bic", "andc"} -> Wrap(Uns(x) & Uns(-y - 1))
      [] op \in {"orn", "orc"} -> Wrap(Uns(x) | Uns(-y - 1))
      [] op \in {"negu", "sh.neg"} -> Wrap(-x)
      [] op \in {"slt", "slti", "cmplt.fictive"} -> Bit(x < y)
      [] op \in {"sltu", "sltiu", "cmpltu.fictive"} -> Bit(Uns(x) < Uns(y))
      [] op \in {"cmpnez.fictive", "test.bnez"} -> Bit(x # 0)
      [] op = "cmpne.fictive" -> Bit(x # y)
      [] op = "cmple.fictive" -> Bit(x <= y)
      [] op = "cmpleu.fictive" -> Bit(Uns(x) <= Uns(y))
      [] op \in {"cmplez.fictive", "test.blez"} -> Bit(x <= 0)
      [] op \in {"cmpgtz.fictive", "test.bgtz"} -> Bit(x > 0)
      [] op = "test.bgez" -> Bit(x >= 0)
      [] op = "test.bltz" -> Bit(x < 0)
      [] op = "test.beqz" -> Bit(x = 0)
      [] op = "cntlzw" -> Cardinality({k \in 1..W : Uns(x) < 2^(W - k)})
      [] op \in {"mullw", "mul"} -> Wrap(x * y)
      [] op = "mulhw" -> (x * y) \div 2^W
      [] op = "mulhwu" -> Wrap((Uns(x) * Uns(y)) \div 2^W)
      [] op \in {"extsh", "exts.w"} -> Narrow(x, HalfBits, TRUE)
      [] op \in {"extsb", "exts.b"} -> Narrow(x, ByteBits, TRUE)
      [] op = "extu.w" -> Narrow(x, HalfBits, FALSE)
      [] op = "extu.b" -> Narrow(x, ByteBits, FALSE)
      [] op = "divwu" -> UnsDiv(x, y)
      [] op \in {"div.fictive", "divw"} -> SignedDiv(x, y)
      [] op = "mod.fictive" -> Wrap(x - y * TruncDiv(x, y))

SetReg(s, r, v) == [s EXCEPT !.regs[r] = v]

\* What is added to the base: a SuperH access moves it by the size of a word.
Displacement(s, i, m) ==
    IF i.op \in {"sh.load", "sh.store"} THEN (CASE m.wb = "pre" -> -4 [] m.wb = "post" -> 4 [] OTHER -> 0)
    ELSE ValueOf(s, m.add)

AddressOf(s, i, m) ==
    LET b == s.regs[m.base]  d == Displacement(s, i, m)
    IN  IF b = Undef \/ d = Undef THEN Undef ELSE IF m.wb = "post" THEN b ELSE Wrap(b + d)

Access(s, i, reg, m) ==
    LET a == AddressOf(s, i, m)
        new == IF m.wb = "post" THEN Wrap(s.regs[m.base] + Displacement(s, i, m)) ELSE a
        done == IF i.op \in Loads THEN SetReg(s, reg, s.mem[a]) ELSE [s EXCEPT !.mem[a] = s.regs[reg]]
    IN  IF a = Undef THEN [s EXCEPT !.exit = "undef"]
        ELSE IF a \notin Addrs THEN [s EXCEPT !.exit = "trap"]
        ELSE IF m.wb = "no" THEN done ELSE SetReg(done, m.base, new)

\* A call: the callee sees the argument registers, returns something that
\* depends on the first, and leaves the caller-save registers undefined.
CallTo(s, f, args, ret, temps) ==
    [s EXCEPT !.calls = Append(@, <<f, [k \in DOMAIN args |-> s.regs[args[k]]]>>),
              !.regs = [r \in Regs |-> IF r = ret
                                       THEN (IF @[args[1]] = Undef THEN Undef ELSE Wrap(@[args[1]] + 1))
                                       ELSE IF r \in temps THEN Undef ELSE @[r]]]
ArmCall(s, f)  == CallTo(s, f, <<"r0", "r1">>, "r0", ArmTemps)
MipsCall(s, f) == CallTo(s, f, <<"a0", "a1">>, "v0", MipsTemps)
PpcCall(s, f)  == CallTo(s, f, <<"p3", "p4">>, "p3", PpcTemps)

\* The SuperH shifts through T, and subtraction with borrow.
ShiftT(s, op, r) ==
    LET x == Uns(s.regs[r])  t == s.regs["T"]  top == x \div Half
        set(v, b) == SetReg(SetReg(s, r, Wrap(v)), "T", b)
    IN  CASE op = "rotcl" -> set(2 * x + t, top)
          [] op = "rotcr" -> set(t * Half + (x \div 2), x % 2)
          [] op = "shll"  -> set(2 * x, top)
          [] op = "subc"  -> set(-t, t)

Flags(s, v) == IF v = Undef THEN SetReg(SetReg(s, "z", Undef), "gt", Undef)
               ELSE SetReg(SetReg(s, "z", Bit(v = 0)), "gt", Bit(v > 0))

memcpy(s, to, from, n) ==
    [s EXCEPT !.mem = [a \in Addrs |-> IF a >= to /\ a < to + n THEN @[from + (a - to)] ELSE @[a]]]

\* The PowerPC rotations: the bits from mb to me, which may wrap around, bit
\* 0 being the highest, of x rotated to the left.
RotateMask(x, n, mb, me) ==
    LET rot == ((Uns(x) * 2^n) % 2^W) + ((Uns(x) * 2^n) \div 2^W)
        kept == {b \in 0..W - 1 : IF mb <= me THEN b >= mb /\ b <= me ELSE b >= mb \/ b <= me}
        mask == MapThenSumSet(LAMBDA b : 2^(W - 1 - b), kept)
    IN  [value |-> rot & mask, mask |-> mask]

\* One instruction that is not a jump.
Execute(s, i) ==
    LET v(k) == ValueOf(s, i.args[k])
        alu(dest, x, y) == SetReg(s, dest, IF x = Undef \/ y = Undef THEN Undef ELSE Compute(i.op, x, y))
        done ==
          CASE i.op = "nop" -> s
            [] i.op \in {"lw", "ldr", "sw", "str"} -> Access(s, i, i.args[1].r, i.args[2])
            [] i.op = "sh.load" -> Access(s, i, i.args[2].r, i.args[1])
            [] i.op = "sh.store" -> Access(s, i, i.args[1].r, i.args[2])
            [] i.op \in {"rotcl", "rotcr", "shll", "subc"} -> ShiftT(s, i.op, i.args[1].r)
            [] i.op = "negatet.fictive" -> SetReg(s, "T", 1 - s.regs["T"])
            [] i.op = "cmp" -> Flags(s, IF v(1) = Undef \/ v(2) = Undef THEN Undef ELSE v(1) - v(2))
            [] i.op = "tst" -> SetReg(SetReg(s, "z", IF v(1) = Undef \/ v(2) = Undef THEN Undef
                                                     ELSE Bit((Uns(v(1)) & Uns(v(2))) = 0)), "gt", Undef)
            [] i.op = "movs" -> SetReg(SetReg(alu(i.args[1].r, v(2), 0), "z", IF v(2) = Undef THEN Undef
                                                     ELSE Bit(v(2) = 0)), "gt", Undef)
            [] i.op = "div" -> IF v(1) = Undef \/ v(2) \in {0, Undef}
                               THEN SetReg(SetReg(s, "lo", Undef), "hi", Undef)
                               ELSE LET q == IF v(2) < 0 THEN TruncDiv(-v(1), -v(2)) ELSE TruncDiv(v(1), v(2))
                                    IN  SetReg(SetReg(s, "lo", Wrap(q)), "hi", Wrap(v(1) - q * v(2)))
            [] i.op \in {"mult", "multu"} ->
                 SetReg(SetReg(s, "lo", Wrap(v(1) * v(2))), "hi",
                        IF i.op = "mult" THEN Compute("mulhw", v(1), v(2)) ELSE Compute("mulhwu", v(1), v(2)))
            [] i.op \in {"mfhi", "mflo"} -> SetReg(s, i.args[1].r, s.regs[IF i.op = "mfhi" THEN "hi" ELSE "lo"])
            [] i.op = "srawi" -> SetReg(alu(i.args[1].r, v(2), v(3)), "ca", Bit(v(2) < 0 /\ v(2) % 2^v(3) # 0))
            [] i.op = "addze" -> SetReg(s, i.args[1].r, Wrap(v(2) + s.regs["ca"]))
            [] i.op \in {"rlwinm", "rlwimi"} /\ v(2) = Undef -> SetReg(s, i.args[1].r, Undef)
            [] i.op = "rlwinm" -> SetReg(s, i.args[1].r, Wrap(RotateMask(v(2), v(3), v(4), v(5)).value))
            [] i.op = "rlwimi" ->
                 SetReg(s, i.args[1].r, LET m == RotateMask(v(2), v(3), v(4), v(5))
                                        IN  Wrap(m.value + (Uns(v(1)) & (2^W - 1 - m.mask))))
            [] i.op \in {"shll2", "shlr2"} -> alu(i.args[1].r, v(1), 2)
            [] i.op = "memcpy.aligned.fictive" -> memcpy(s, v(1), v(2), v(3))
            [] i.op \in SourceDest -> alu(i.args[2].r, v(1), 0)
            [] i.op \in Dest2 -> alu(i.args[2].r, v(2), v(1))
            [] i.op \in Dest1 -> alu(i.args[1].r, v(2), IF Len(i.args) = 3 THEN v(3) ELSE 0)
    IN  [done EXCEPT !.regs = [r \in Regs |-> IF r \in i.clob THEN Undef ELSE @[r]]]

-----------------------------------------------------------------------------
(* Control flow.                                                           *)

MipsBranches == {"bnez", "beqz", "bgez", "bne", "bltzl"}
Jumps == MipsBranches \cup {"break", "j", "jal", "jr", "b", "bl", "blx", "bx", "blr", "bdnz", "bdnz.fictive"}

Holds(s, cc) == LET f == s.regs[CC_REGS(cc)]
                IN  CASE f = Undef -> "undef"
                      [] cc \in {"eq", "gt"} -> IF f = 1 THEN "yes" ELSE "no"
                      [] OTHER -> IF f = 0 THEN "yes" ELSE "no"

MipsTaken(s, i) ==
    LET x == ValueOf(s, i.args[1])
        y == IF i.op = "bne" THEN ValueOf(s, i.args[2]) ELSE 0
        test == CASE i.op = "bnez" -> x # 0 [] i.op = "beqz" -> x = 0 [] i.op = "bgez" -> x >= 0
                  [] i.op = "bltzl" -> x < 0 [] OTHER -> x # y
    IN  IF x = Undef \/ y = Undef THEN "undef" ELSE IF test THEN "yes" ELSE "no"

Exit(s, e) == [s EXCEPT !.exit = e]
Clobbered(s, i) == [s EXCEPT !.regs = [r \in Regs |-> IF r \in i.clob THEN Undef ELSE @[r]]]

\* The slot of an instruction of MIPS that jumps.
Slot(s, body, p) ==
    IF p < Len(body) /\ ~IsLabel(body[p + 1]) /\ body[p + 1].op \notin Jumps
    THEN Execute(s, body[p + 1]) ELSE Exit(s, "badslot")

RECURSIVE RunFrom(_, _, _, _)
\* Jump or call from part p.  An instruction of MIPS runs the next one before
\* it jumps, which leads to state d; a jump to a label that is not in the body
\* leaves the function by a call.
Jump(body, p, s, d, fuel) ==
    LET i == body[p]
        next(t) == RunFrom(body, p + 1, t, fuel - 1)
        skip(t) == RunFrom(body, p + 2, t, fuel - 1)
        pos(l) == CHOOSE q \in 1..Len(body) : body[q] = Label(l)
        goto(t, l) == RunFrom(body, pos(l), Clobbered(t, i), fuel - 1)
        local(l) == l \in LabelsOf(body)
        last == i.args[Len(i.args)]
        ctr == s.regs["ctr"]
    IN  CASE i.op = "break" -> Exit(s, "trap")
          [] i.op \in MipsBranches ->
               CASE MipsTaken(s, i) = "undef" -> Exit(s, "undef")
                 [] MipsTaken(s, i) = "yes" -> IF local(last.l) THEN goto(d, last.l) ELSE Exit(s, "nolabel")
                 [] OTHER -> IF i.op = "bltzl" THEN skip(s) ELSE skip(d)
          [] i.op = "j" -> IF local(last.l) THEN goto(d, last.l) ELSE Exit(MipsCall(d, last.l), "ret")
          [] i.op = "jal" -> skip(MipsCall(d, last.l))
          [] i.op = "jr" -> Exit(d, "ret")
          [] i.op = "b" ->
               IF local(last.l) THEN goto(s, last.l)
               ELSE Exit(IF last.l = <<"pfn", 0>> THEN PpcCall(s, last.l) ELSE ArmCall(s, last.l), "ret")
          [] i.op \in {"bl", "blx"} ->
               IF Has(last, "r") THEN next(ArmCall(s, s.regs[last.r]))
               ELSE IF local(last.l) THEN goto(SetReg(s, "lr", 2), last.l)
               ELSE next(IF last.l = <<"pfn", 0>> THEN PpcCall(s, last.l) ELSE ArmCall(s, last.l))
          [] i.op = "bx" -> Exit(IF last.r = "lr" THEN s ELSE ArmCall(s, s.regs[last.r]), "ret")
          [] i.op = "blr" -> Exit(s, "ret")
          [] i.op = "bdnz" -> IF ctr = 1 THEN next(SetReg(s, "ctr", 0))
                              ELSE goto(SetReg(s, "ctr", Wrap(ctr - 1)), last.l)
          [] i.op = "bdnz.fictive" -> IF ctr = 0 THEN next(s) ELSE goto(s, last.l)

\* Run the body from part p.
RunFrom(body, p, s, fuel) ==
    LET i == body[p]
        test == IF i.cc = "" THEN "yes" ELSE Holds(s, i.cc)
        next(t) == RunFrom(body, p + 1, t, fuel - 1)
    IN  IF s.exit # "" THEN s
        ELSE IF p > Len(body) THEN Exit(s, "end")
        ELSE IF fuel = 0 THEN Exit(s, "fuel")
        ELSE IF IsLabel(i) THEN next(s)
        ELSE IF test = "undef" THEN Exit(s, "undef")
        ELSE IF test = "no" THEN next(s)
        ELSE IF i.op \notin Jumps THEN next(Execute(s, i))
        ELSE Jump(body, p, s, Slot(s, body, p), fuel)

MaxSteps == 80
Run(body, given) == RunFrom(body, 1, Start(given), MaxSteps)
=============================================================================
