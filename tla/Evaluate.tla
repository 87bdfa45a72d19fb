------------------------------ MODULE Evaluate ------------------------------
(***************************************************************************)
(* From instructions to expressions (evaluate.py and the instruction       *)
(* tables of the architectures).                                           *)
(*                                                                         *)
(* Once the assembly patterns are through, each instruction of a body      *)
(* without jumps sets its register to an expression over those of its      *)
(* inputs, and folds it: shifts and additions into multiplications,        *)
(* high halves of products into divisions, rotations into masks, flags     *)
(* into comparisons.  Variables that hold a subexpression are looked       *)
(* through (early_unwrap), so an expression is a tree.  Two nodes are      *)
(* equal when they are the same object: a node carries the instruction it  *)
(* was made by.  The widths 32, 16 and 8 are W, HalfBits and ByteBits.     *)
(* Pointers, floats, 64-bit values and flags of ARM are left out.          *)
(***************************************************************************)
EXTENDS AsmRewrite

VARIABLES exprs,       \* the expressions of the registers that are set
          at           \* the instruction that is evaluated next

evalVars == <<prog, input, pass, index, output, matched, outcome, exprs, at>>

-----------------------------------------------------------------------------
(* Expressions.  t says how an operator reads its operands: signed,        *)
(* unsigned, or as their type is ("i").                                    *)

Lit(v)           == [k |-> "lit", v |-> v]
Var(r)           == [k |-> "var", r |-> r]
Bin(op, t, l, r) == [k |-> "bin", op |-> op, t |-> t, l |-> l, r |-> r, id |-> at]
Un(op, e)        == [k |-> "un", op |-> op, e |-> e, id |-> at]
Carry            == [k |-> "carry"]
ErrorExpr        == [k |-> "error"]
None             == [k |-> "none"]

IsLit(e)    == e.k = "lit"
IsBin(e)    == e.k = "bin"
IsOp(e, op) == IsBin(e) /\ e.op = op
IsUn(e, op) == e.k = "un" /\ e.op = op
IsLitOf(e, v) == IsLit(e) /\ e.v = v

\* as_type, for a narrower integer: a literal is taken as it is.
AsType(e, bits, signed) ==
    IF IsLit(e) THEN e ELSE [k |-> "cast", bits |-> bits, signed |-> signed, e |-> e]

RECURSIVE early_unwrap_ints(_)
early_unwrap_ints(e) == IF e.k = "cast" THEN early_unwrap_ints(e.e) ELSE e

RECURSIVE Same(_, _)
\* Equality of expressions: casts are equal when what they cast is.
Same(a, b) == IF a.k = "cast" /\ b.k = "cast" THEN Same(a.e, b.e) ELSE a = b

s32_literal(v) == Lit(Wrap(v))
IsPow2(n) == \E k \in 0..(2 * W) : n = 2^k
Log2(n) == CHOOSE k \in 0..(2 * W) : n = 2^k

-----------------------------------------------------------------------------
(* Conditions.                                                             *)

Comparisons == {"==", "!=", ">", "<", ">=", "<="}
is_comparison(e) == IsBin(e) /\ e.op \in Comparisons

Opposite == [o \in Comparisons |->
    CASE o = "==" -> "!=" [] o = "!=" -> "==" [] o = ">" -> "<=" [] o = "<" -> ">=" [] o = ">=" -> "<"
      [] o = "<=" -> ">"]
Mirrored == [o \in Comparisons |->
    CASE o = ">" -> "<" [] o = "<" -> ">" [] o = ">=" -> "<=" [] o = "<=" -> ">=" [] OTHER -> o]

negated(e) ==
    CASE is_comparison(e) -> Bin(Opposite[e.op], e.t, e.l, e.r)
      [] IsUn(e, "!") /\ e.e.k \in {"un", "bin"} -> e.e
      [] OTHER -> Un("!", e)

RECURSIVE simplify_condition(_)
simplify_condition(e) ==
    CASE e.k = "un" ->
           LET inner == simplify_condition(e.e)
           IN  IF e.op = "!" /\ inner.k \in {"un", "bin"} THEN negated(inner) ELSE Un(e.op, inner)
      [] IsBin(e) ->
           LET l == simplify_condition(e.l)
               r == simplify_condition(e.r)
               zero == IsLitOf(r, 0)
           IN  CASE IsUn(l, "!") /\ zero /\ e.op = "==" -> l.e
                 [] IsUn(l, "!") /\ zero /\ e.op = "!=" -> l
                 [] (is_comparison(l) \/ IsOp(l, "&")) /\ zero /\ e.op = "==" -> simplify_condition(negated(l))
                 [] (is_comparison(l) \/ IsOp(l, "&")) /\ zero /\ e.op = "!=" -> l
                 [] is_comparison(e) /\ IsLit(l) /\ ~IsLit(r) -> Bin(Mirrored[e.op], e.t, r, l)
                 [] OTHER -> Bin(e.op, e.t, l, r)
      [] OTHER -> e

-----------------------------------------------------------------------------
(* fold_divmod.  A stage of it has the operator, both operands and the     *)
(* shift that goes into the divisor.                                       *)

MultHighOps == {"MULT_HI", "MULTU_HI"}

Swapped(s) == IF IsLit(s.l) /\ ~IsLit(s.r) THEN [s EXCEPT !.l = s.r, !.r = s.l] ELSE s
Inside(e, shift) == [op |-> e.op, l |-> early_unwrap_ints(e.l), r |-> early_unwrap_ints(e.r), shift |-> shift]

\* (x >> N) + M2C_CARRY
CarryDivision(s) ==
    IF s.op = "+" /\ IsOp(s.l, ">>") /\ IsLit(s.l.r) /\ s.r.k = "carry"
    THEN Bin("/", "s", s.l.l, Lit(2^s.l.r.v)) ELSE None

\* (x / N) >> M
ShiftedDivision(s) ==
    IF s.op = ">>" /\ IsOp(s.l, "/") /\ IsLit(s.l.r) /\ IsLit(s.r) /\ s.l.r.v * 2^s.r.v < 2^W
    THEN Bin("/", "i", s.l.l, Lit(s.l.r.v * 2^s.r.v)) ELSE None

\* x - (x / y) * y, or with a shift for the division
Remainder(s) ==
    LET div     == early_unwrap_ints(s.r.l)
        base    == early_unwrap_ints(s.r.r)
        divisor == early_unwrap_ints(div.r)
    IN  IF /\ s.op = "-" /\ IsOp(s.r, "*") /\ IsBin(div)
           /\ Same(early_unwrap_ints(div.l), s.l)
           /\ \/ div.op = "/" /\ Same(divisor, base)
              \/ div.op = ">>" /\ IsLit(divisor) /\ IsLit(base) /\ 2^divisor.v = base.v
        THEN Bin("%", "i", s.l, s.r.r) ELSE None

IsSignShift(e) == IsOp(e, ">>") /\ IsLitOf(early_unwrap_ints(e.r), W - 1)
IsDivision(e)  == IsOp(e, "/") /\ IsLit(e.r)

\* (x >> 31) - (x / N): the operands change places, and N its sign.
NegativeDivision(s) ==
    IF s.op = "-" /\ IsSignShift(s.l) /\ IsDivision(s.r)
    THEN [s EXCEPT !.l = Bin("/", s.r.t, s.r.l, Lit(-s.r.r.v)), !.r = s.l] ELSE s

\* (x / N) + ((x / N) >> 31)
OuterErrorAdded(s) ==
    IF /\ s.op = "+" /\ IsDivision(s.l) /\ s.l.r.v <= 2^(W - 3)
       /\ IsSignShift(s.r) /\ Same(early_unwrap_ints(s.r.l), s.l)
    THEN s.l ELSE None

\* (x / N) - (x >> 31), where a narrow x is shifted to the top first
OuterErrorSubtracted(s) ==
    LET shifted == early_unwrap_ints(s.r.l)
        divided == early_unwrap_ints(s.l.l)
    IN  CASE ~(s.op = "-" /\ IsDivision(s.l) /\ IsSignShift(s.r)) -> None
          [] Same(divided, shifted) /\ s.l.r.v >= 2^(W - 2) -> Bin("/", "i", s.l.l, s.l.r)
          [] Same(divided, shifted) -> s.l
          [] IsOp(shifted, "<<") /\ IsLit(shifted.r) /\ Same(divided, early_unwrap_ints(shifted.l)) -> s.l
          [] OTHER -> None

\* (MULT_HI(x, N) + x): round_div takes divisors of any size
WithoutAddend(s) ==
    IF /\ s.op = "+" /\ IsOp(s.l, "MULT_HI")
       /\ \/ Same(s.r, early_unwrap_ints(s.l.l)) \/ Same(s.r, early_unwrap_ints(s.l.r))
    THEN Inside(s.l, s.shift) ELSE s

Unshifted(s) ==
    IF s.op = ">>" /\ IsBin(s.l) /\ IsLit(s.r) THEN Swapped(WithoutAddend(Inside(s.l, s.r.v))) ELSE s

\* MULT_HI(x >> M, N)
Preshifted(s) ==
    IF s.op \in MultHighOps /\ IsOp(s.l, ">>") /\ IsLit(s.l.r)
    THEN [s EXCEPT !.shift = @ + s.l.r.v, !.l = early_unwrap_ints(s.l.l)] ELSE s

\* Two wrong ways to round: down, and with no regard to the error.
RoundDivDown(x, y) == x \div y
RoundDivAnyError(x, y) == IF y <= 1 THEN 0 ELSE (2 * x + y) \div (2 * y)
\* The nearest integer to x / y, or 0 when it is not close enough.
round_div(x, y) ==
    LET result == (2 * x + y) \div (2 * y)
    IN  IF y > 1 /\ x <= result * (y + 1) /\ result * (y - 1) <= x THEN result ELSE 0

MultHighDivision(s) ==
    IF s.op \in MultHighOps /\ IsLit(s.r) /\ round_div(2^(W + s.shift), s.r.v) # 0
    THEN Bin("/", "i", s.l, Lit(round_div(2^(W + s.shift), s.r.v))) ELSE None

FirstOf(answers) == LET given == SelectSeq(answers, LAMBDA e : e.k # "none") IN Head(given)

\* The first rule that applies.
fold_divmod(e) ==
    IF e.op \notin MultHighOps \cup {"-", "+", ">>"} THEN e
    ELSE LET s == Swapped(Inside(e, 0))
             n == NegativeDivision(s)
         IN  FirstOf(<<CarryDivision(s), ShiftedDivision(s), Remainder(s), OuterErrorAdded(n),
                       OuterErrorSubtracted(n), MultHighDivision(Preshifted(Unshifted(n))), e>>)

-----------------------------------------------------------------------------
(* fold_mul_chains.                                                        *)

Times(base, num) == [base |-> base, num |-> num]

RECURSIVE MulFold(_, _, _, _)
\* The fold of its comment: e as a multiple of a base.  sll says that a left
\* shift may be expanded here.
MulFold(e, toplevel, sll, chains) ==
    LET inner(x, s) == LET f == MulFold(x, FALSE, s, chains) IN IF f.num = 1 THEN Times(x, 1) ELSE f
        left == inner(e.l, e.op # "<<")
        right == inner(e.r, TRUE)
    IN  CASE IsOp(e, "<<") /\ IsLit(e.r) /\ (sll \/ chains) ->
               IF toplevel /\ left.num = 1 /\ e.r.v \notin 1..4 THEN Times(e, 1)
               ELSE Times(left.base, left.num * 2^e.r.v)
          [] IsOp(e, "*") /\ IsLit(e.r) /\ (sll \/ chains \/ e.r.v % 2 # 0) ->
               Times(left.base, left.num * e.r.v)
          [] IsOp(e, "+") /\ toplevel /\ Same(left.base, right.base) ->
               Times(left.base, left.num + right.num)
          [] IsOp(e, "-") /\ toplevel /\ Same(left.base, right.base) ->
               Times(left.base, left.num - right.num)
          [] IsUn(e, "-") /\ ~toplevel -> Times(inner(e.e, TRUE).base, -inner(e.e, TRUE).num)
          [] OTHER -> Times(e, 1)

FoldedChain(e, chains) ==
    LET f == MulFold(e, TRUE, TRUE, chains)
    IN  CASE f.num = 1 -> e
          [] chains /\ f.num > 16 /\ IsPow2(f.num) -> Bin("<<", "i", f.base, Lit(Log2(f.num)))
          [] OTHER -> Bin("*", "i", f.base, Lit(f.num))

fold_mul_chains(e) == FoldedChain(e, FALSE)

-----------------------------------------------------------------------------
(* Bits.                                                                   *)

replace_bitand(e) ==
    CASE ~IsOp(e, "&") -> e
      [] IsLitOf(e.r, 0) -> Lit(0)
      [] IsLitOf(e.r, 2^ByteBits - 1) -> AsType(e.l, ByteBits, FALSE)
      [] IsLitOf(e.r, 2^HalfBits - 1) -> AsType(e.l, HalfBits, FALSE)
      [] OTHER -> e

\* The shift that leaves 1 of the width, and 0 of fewer leading zeros.
ClzShift == Log2(W)

replace_clz_shift(e) ==
    LET l == early_unwrap_ints(e.l)
    IN  CASE ~(IsOp(e, ">>") /\ IsUn(l, "CLZ") /\ IsLitOf(early_unwrap_ints(e.r), ClzShift)) -> e
          [] IsOp(l.e, "-") -> Bin("==", "i", l.e.r, l.e.l)
          [] OTHER -> Bin("==", "i", l.e, Lit(0))

HalvesMeet(x, y) == x % 2^HalfBits = 0 /\ y < 2^HalfBits

handle_or(l, r, is_arm) ==
    CASE Same(l, r) -> l
      [] IsLitOf(l, 0) -> r
      [] IsLitOf(r, 0) -> l
      [] IsLit(l) /\ IsLit(r) /\ (HalvesMeet(l.v, r.v) \/ HalvesMeet(r.v, l.v)) -> Lit(l.v | r.v)
      [] is_arm /\ IsOp(l, "|") /\ IsLit(l.r) /\ IsLit(r) /\ (l.r.v % 2^ByteBits = 0 \/ r.v % 2^ByteBits = 0) ->
           Bin("|", "i", l.l, Lit(l.r.v | r.v))
      [] OTHER -> Bin("|", "i", l, r)

handle_bitinv(e) == IF IsLit(e) THEN s32_literal(-e.v - 1) ELSE Un("~", e)

handle_xor(l, r) ==
    IF IsLitOf(r, 1) /\ is_comparison(l) THEN negated(l) ELSE Bin("^", "i", l, r)

\* (0U < x) is (x != 0), with the register zero on the left.
handle_sltu(l, r, zero) ==
    CASE zero /\ IsOp(r, "^") -> Bin("!=", "i", r.l, r.r)
      [] zero -> Bin("!=", "i", r, Lit(0))
      [] OTHER -> Bin("<", "u", l, r)

handle_sltiu(l, imm) ==
    LET value == Uns(imm.v)
    IN  CASE value = 1 /\ IsOp(l, "^") -> Bin("==", "i", l.l, l.r)
          [] value = 1 -> Bin("==", "i", l, Lit(0))
          [] OTHER -> Bin("<", "u", l, Lit(value))

handle_cmpnez(e) ==
    LET source == IF IsUn(e, "-") THEN e.e ELSE e
    IN  IF IsBin(source) /\ source.op \in {"-", "^"} THEN Bin("!=", "i", source.r, source.l)
        ELSE Bin("!=", "i", source, Lit(0))

fold_shift_bgez(e) ==
    LET shift == IF e.op = "<<" THEN e.r.v ELSE Log2(e.r.v)
    IN  IF IsBin(e) /\ IsLit(e.r) /\ (e.op = "<<" \/ (e.op = "*" /\ e.r.v > 0 /\ IsPow2(e.r.v)))
        THEN Un("!", Bin("&", "i", e.l, Lit(2^(W - 1 - shift)))) ELSE None

handle_bgez(e) == FirstOf(<<fold_shift_bgez(e), Bin(">=", "s", e, Lit(0))>>)

-----------------------------------------------------------------------------
(* Shifts and additions.                                                   *)

\* A pair of shifts by 16 or 24 is a cast.
handle_shift_right(l, r, signed) ==
    LET bits == W - r.v
        narrow == IsLit(r) /\ bits \in {HalfBits, ByteBits} /\ IsBin(l) /\ IsLit(l.r)
        t == IF signed THEN "s" ELSE "u"
    IN  CASE narrow /\ l.op = "<<" /\ l.r.v = r.v -> AsType(l.l, bits, signed)
          [] narrow /\ l.op = "<<" /\ l.r.v > r.v ->
               AsType(fold_mul_chains(Bin("<<", "i", l.l, Lit(l.r.v - r.v))), bits, signed)
          [] narrow /\ l.op = "*" /\ l.r.v % 2^r.v = 0 /\ l.r.v # 2^r.v ->
               AsType(Bin("*", "i", l.l, Lit(l.r.v \div 2^r.v)), bits, signed)
          [] signed -> fold_divmod(Bin(">>", "s", l, r))
          [] OTHER -> Bin(">>", t, l, r)

handle_sll(l, r) ==
    IF IsLit(l) /\ IsLit(r) THEN Lit(l.v * 2^r.v) ELSE fold_mul_chains(Bin("<<", "i", l, r))

fold_shift_right(e, n, signed) ==
    LET inner == early_unwrap_ints(e)
        t == IF signed THEN "s" ELSE "u"
        joins == IsOp(inner, ">>") /\ inner.t = t /\ IsLit(inner.r) /\ inner.r.v + n < W
    IN  fold_divmod(IF joins THEN Bin(">>", t, inner.l, Lit(n + inner.r.v)) ELSE Bin(">>", t, e, Lit(n)))

add_imm(source, imm) ==
    CASE IsLitOf(imm, 0) -> source
      [] IsLit(source) /\ IsLit(imm) -> Lit(source.v + imm.v)
      [] OTHER -> Bin("+", "i", source, imm)

handle_addi(source, imm, arm) ==
    IF /\ ~IsLitOf(imm, 0) /\ IsOp(source, "+") /\ IsLit(source.r) /\ IsLit(imm)
       /\ source.r.v % 2^HalfBits = 0 \/ (arm /\ imm.v % 2^ByteBits = 0)
    THEN add_imm(source.l, Lit(imm.v + source.r.v))
    ELSE add_imm(source, imm)

handle_add_real(l, r) ==
    LET folded == fold_mul_chains(Bin("+", "i", l, r))
    IN  CASE IsLitOf(l, 0) -> r
          [] IsLitOf(r, 0) -> l
          [] OTHER -> fold_divmod(folded)

handle_add(l, r) ==
    CASE IsLit(r) -> fold_mul_chains(add_imm(l, r))
      [] IsLit(l) -> fold_mul_chains(add_imm(r, l))
      [] OTHER -> handle_add_real(l, r)

handle_sub(l, r) ==
    CASE IsLit(l) /\ IsLit(r) -> s32_literal(l.v - r.v)
      [] IsLitOf(r, 0) -> l
      [] OTHER -> fold_mul_chains(fold_divmod(Bin("-", "i", l, r)))

carry_add_to(e) == fold_divmod(Bin("+", "i", e, Carry))

-----------------------------------------------------------------------------
(* The rotations of PowerPC.                                               *)

BitsUpto(m) == 2^(W - m) - 1
rlwi_mask(mb, me) ==
    IF mb <= me THEN BitsUpto(mb) - BitsUpto(me + 1)
    ELSE 2^W - 1 - (BitsUpto(me + 1) - BitsUpto(mb))

AndMask(e, mask, simplify) ==
    LET masked == Bin("&", "i", e, Lit(mask)) IN IF simplify THEN replace_bitand(masked) ELSE masked

UpperBits(source, shift, mask, simplify) ==
    LET moved == IF shift = 0 THEN source ELSE Bin("<<", "i", source, Lit(shift))
        upper == IF simplify THEN fold_mul_chains(moved) ELSE moved
    IN  CASE mask = 0 -> None
          [] mask = 2^W - 2^shift -> upper
          [] OTHER -> AndMask(upper, mask, simplify)

LowerBits(source, shift, mask, simplify) ==
    LET moved == Bin(">>", "u", source, Lit(W - shift))
        lower == IF simplify THEN replace_clz_shift(fold_divmod(moved)) ELSE moved
    IN  CASE mask = 0 -> None
          [] mask = 2^shift - 1 -> lower
          [] OTHER -> AndMask(lower, mask, simplify)

\* The bits that the shift to the left, and those that the shift to the right
\* of a rotation brings into the mask.
LeftMask(shift, mask)  == (2^W - 2^shift) & mask
RightMask(shift, mask) == (2^shift - 1) & mask

BothParts(upper, lower) ==
    CASE upper = None /\ lower = None -> Lit(0)
      [] upper = None -> lower
      [] lower = None -> upper
      [] OTHER -> Bin("|", "i", upper, lower)

handle_rlwinm(source, shift, mask, simplify) ==
    LET both  == LeftMask(shift, mask) # 0 /\ RightMask(shift, mask) # 0
        upper == UpperBits(source, shift, LeftMask(shift, mask), simplify /\ ~both)
        lower == LowerBits(source, shift, RightMask(shift, mask), simplify /\ ~both)
    IN  IF IsLit(source) THEN Lit((Uns(source.v * 2^shift) & mask) | ((source.v \div 2^(W - shift)) & mask))
        ELSE BothParts(upper, lower)

Inserted(base, source, mask, inserted) ==
    LET kept == Bin("&", "i", base, Un("~", Lit(mask)))
    IN  CASE IsLitOf(source, 0) -> kept
          [] IsLitOf(inserted, mask) -> Bin("|", "i", base, inserted)
          [] OTHER -> Bin("|", "i", kept, inserted)

handle_rlwimi(base, source, shift, mask) ==
    Inserted(base, source, mask, handle_rlwinm(source, shift, mask, FALSE))

-----------------------------------------------------------------------------
(* The instruction tables.                                                 *)

\* The register zero is written as the number 0.
RegExpr(r) == IF r \in DOMAIN exprs THEN exprs[r] ELSE Var(r)
ExprOf(a)  == IF Has(a, "r") THEN RegExpr(a.r) ELSE Lit(a.n)

MipsArith == {"li", "move", "slt", "slti", "sltu", "sltiu", "addiu", "addu", "subu", "negu", "div.fictive", "mod.fictive",
              "mfhi", "mflo"}
MipsBits  == {"ori", "and", "or", "not", "nor", "xor", "andi", "xori", "sll", "srl", "sra"}
PpcArith  == {"li", "add", "addi", "addze", "subf", "subfic", "negu", "mullw", "mulhw", "mulhwu", "divw", "divwu"}
PpcBits   == {"or", "ori", "orc", "and", "andc", "andi", "not", "nor", "xor", "eqv", "xori", "rlwimi", "rlwinm",
              "srawi", "extsb", "extsh", "cntlzw"}
PpcCompares == Compares \ {"slt", "slti", "sltu", "sltiu"}
ArmBits   == {"mov", "mul", "mvn", "and", "orr", "eor", "bic", "orn"}
ArmShifts == {"lsl", "asr", "lsr"}
ArmAdds   == {"add", "sub", "rsb"}
ShUpdates == {"sh.add", "sh.sub", "sh.and", "sh.or", "sh.xor"}
ShShifts  == {"shll2", "shlr2", "shar.fictive"}
Evaluated(arch) == CASE arch = "mips" -> MipsArith \cup MipsBits \cup {"mult", "multu"} \cup Tests
                     [] arch = "ppc"  -> PpcArith \cup PpcBits \cup PpcCompares
                     [] arch = "arm"  -> ArmBits \cup ArmShifts \cup ArmAdds
                     [] arch = "sh"   -> ShUpdates \cup SourceDest \cup ShShifts

MipsArithExpr(op, zero, a, b) ==
    CASE op \in {"li", "move"} -> a
      [] op \in {"slt", "slti"} -> Bin("<", "s", a, b)
      [] op = "sltu"  -> handle_sltu(a, b, zero)
      [] op = "sltiu" -> handle_sltiu(a, b)
      [] op = "addiu" -> handle_addi(a, b, FALSE)
      [] op = "addu"  -> handle_add(a, b)
      [] op = "subu"  -> fold_mul_chains(fold_divmod(Bin("-", "i", a, b)))
      [] op = "negu"  -> fold_mul_chains(Un("-", a))
      [] op = "div.fictive" -> Bin("/", "s", a, b)
      [] op = "mod.fictive" -> Bin("%", "s", a, b)
      [] op = "mfhi"  -> RegExpr("hi")
      [] op = "mflo"  -> RegExpr("lo")

MipsBitsExpr(op, a, b) ==
    CASE op = "ori"   -> handle_or(a, b, FALSE)
      [] op \in {"and", "andi"} -> Bin("&", "i", a, b)
      [] op = "or"    -> Bin("|", "i", a, b)
      [] op = "not"   -> Un("~", a)
      [] op = "nor"   -> Un("~", Bin("|", "i", a, b))
      [] op = "xor"   -> Bin("^", "i", a, b)
      [] op = "xori"  -> handle_xor(a, b)
      [] op = "sll"   -> fold_mul_chains(Bin("<<", "i", a, b))
      [] op = "srl"   -> fold_divmod(Bin(">>", "u", a, b))
      [] op = "sra"   -> handle_shift_right(a, b, TRUE)

\* The condition of a branch.
MipsBranchTest(op, a) ==
    CASE op = "test.bgez" -> handle_bgez(a)
      [] op = "test.bltz" -> negated(handle_bgez(a))
      [] op = "test.blez" -> Bin("<=", "s", a, Lit(0))
      [] op = "test.bgtz" -> Bin(">", "s", a, Lit(0))
      [] op = "test.beqz" -> Bin("==", "i", a, Lit(0))
      [] op = "test.bnez" -> Bin("!=", "i", a, Lit(0))

PpcArithExpr(op, a, b) ==
    CASE op = "li"     -> a
      [] op = "add"    -> handle_add(a, b)
      [] op = "addi"   -> handle_addi(a, b, FALSE)
      [] op = "addze"  -> carry_add_to(a)
      [] op \in {"subf", "subfic"} -> fold_divmod(Bin("-", "i", b, a))
      [] op = "negu"   -> fold_mul_chains(Un("-", a))
      [] op = "divw"   -> Bin("/", "s", a, b)
      [] op = "divwu"  -> Bin("/", "u", a, b)
      [] op = "mullw"  -> Bin("*", "i", a, b)
      [] op = "mulhw"  -> fold_divmod(Bin("MULT_HI", "i", a, b))
      [] op = "mulhwu" -> fold_divmod(Bin("MULTU_HI", "i", a, b))

\* The destination d is also read by rlwimi; c and e are the ends of a mask.
PpcBitsExpr(op, d, a, b, c, e) ==
    CASE op \in {"or", "ori"} -> handle_or(a, b, FALSE)
      [] op = "orc"    -> handle_or(a, Un("~", b), FALSE)
      [] op \in {"and", "andi"} -> Bin("&", "i", a, b)
      [] op = "andc"   -> Bin("&", "i", a, Un("~", b))
      [] op = "not"    -> Un("~", a)
      [] op = "nor"    -> Un("~", Bin("|", "i", a, b))
      [] op = "xor"    -> Bin("^", "i", a, b)
      [] op = "eqv"    -> Un("~", Bin("^", "i", a, b))
      [] op = "xori"   -> handle_xor(a, b)
      [] op = "rlwimi" -> handle_rlwimi(d, a, b.v, rlwi_mask(c.v, e.v))
      [] op = "rlwinm" -> handle_rlwinm(a, b.v, rlwi_mask(c.v, e.v), TRUE)
      [] op = "srawi"  -> handle_shift_right(a, b, TRUE)
      [] op = "extsb"  -> AsType(a, ByteBits, TRUE)
      [] op = "extsh"  -> AsType(a, HalfBits, TRUE)
      [] op = "cntlzw" -> Un("CLZ", a)

PpcCompareExpr(op, a, b) ==
    CASE op = "cmpnez.fictive" -> handle_cmpnez(a)
      [] op = "cmpne.fictive"  -> Bin("!=", "i", a, b)
      [] op = "cmple.fictive"  -> Bin("<=", "s", a, b)
      [] op = "cmplez.fictive" -> Bin("<=", "s", a, Lit(0))
      [] op = "cmplt.fictive"  -> Bin("<", "s", a, b)
      [] op = "cmpgtz.fictive" -> Bin(">", "s", a, Lit(0))
      [] op = "cmpleu.fictive" -> Bin("<=", "u", a, b)
      [] op = "cmpltu.fictive" -> Bin("<", "u", a, b)

ArmBitsExpr(op, a, b) ==
    CASE op = "mov" -> a
      [] op = "mul" -> Bin("*", "i", a, b)
      [] op = "mvn" -> handle_bitinv(a)
      [] op = "and" -> replace_bitand(Bin("&", "i", a, b))
      [] op = "orr" -> handle_or(a, b, TRUE)
      [] op = "eor" -> handle_xor(a, b)
      [] op = "bic" -> Bin("&", "i", a, Un("~", b))
      [] op = "orn" -> Bin("|", "i", a, Un("~", b))

ArmShiftExpr(op, a, b) ==
    CASE op = "lsl" -> handle_sll(a, b)
      [] op = "asr" -> handle_shift_right(a, b, TRUE)
      [] op = "lsr" -> handle_shift_right(a, b, FALSE)

FoldedAgain(e) == fold_mul_chains(IF IsBin(e) THEN fold_divmod(e) ELSE e)

\* add takes an immediate apart from a register (imm); a difference is folded
\* once more.
ArmAddExpr(op, imm, a, b) ==
    CASE op = "add" -> IF imm THEN handle_addi(a, b, TRUE) ELSE handle_add(a, b)
      [] op = "sub" -> FoldedAgain(handle_sub(a, b))
      [] op = "rsb" -> FoldedAgain(handle_sub(b, a))

\* An instruction of SuperH names its source (a) first.
ShUpdateExpr(op, imm, a, b) ==
    CASE op = "sh.add" -> IF imm THEN handle_addi(b, a, FALSE) ELSE handle_add(b, a)
      [] op = "sh.sub" -> handle_sub(b, a)
      [] op = "sh.and" -> Bin("&", "i", b, a)
      [] op = "sh.or"  -> handle_or(b, a, FALSE)
      [] op = "sh.xor" -> handle_xor(b, a)

ShSourceExpr(op, a) ==
    CASE op = "sh.not" -> handle_bitinv(a)
      [] op = "sh.neg" -> Un("-", a)
      [] op = "exts.b" -> AsType(a, ByteBits, TRUE)
      [] op = "exts.w" -> AsType(a, HalfBits, TRUE)
      [] op = "extu.b" -> AsType(a, ByteBits, FALSE)
      [] op = "extu.w" -> AsType(a, HalfBits, FALSE)

ShShiftExpr(op, a, b, n) ==
    CASE op = "shll2" -> FoldedChain(Bin("<<", "i", a, Lit(2)), TRUE)
      [] op = "shlr2" -> fold_shift_right(a, 2, FALSE)
      [] op = "shar.fictive" -> fold_shift_right(b, n.v, TRUE)

Evaluation(i) ==
    LET a(k) == IF k <= Len(i.args) THEN ExprOf(i.args[k]) ELSE Lit(0)
        imm(k) == ~Has(i.args[k], "r")
    IN  CASE prog.arch = "mips" /\ i.op \in MipsArith  -> MipsArithExpr(i.op, i.args[2] = N(0), a(2), a(3))
          [] prog.arch = "mips" /\ i.op \in MipsBits   -> MipsBitsExpr(i.op, a(2), a(3))
          [] prog.arch = "mips" /\ i.op \in Tests      -> simplify_condition(MipsBranchTest(i.op, a(2)))
          [] prog.arch = "ppc" /\ i.op \in PpcArith    -> PpcArithExpr(i.op, a(2), a(3))
          [] prog.arch = "ppc" /\ i.op \in PpcBits     -> PpcBitsExpr(i.op, a(1), a(2), a(3), a(4), a(5))
          [] prog.arch = "ppc" /\ i.op \in PpcCompares -> PpcCompareExpr(i.op, a(2), a(3))
          [] prog.arch = "arm" /\ i.op \in ArmBits     -> ArmBitsExpr(i.op, a(2), a(3))
          [] prog.arch = "arm" /\ i.op \in ArmShifts   -> ArmShiftExpr(i.op, a(2), a(3))
          [] prog.arch = "arm" /\ i.op \in ArmAdds     -> ArmAddExpr(i.op, imm(3), a(2), a(3))
          [] prog.arch = "sh" /\ i.op \in ShUpdates    -> ShUpdateExpr(i.op, imm(1), a(1), a(2))
          [] prog.arch = "sh" /\ i.op \in SourceDest   -> ShSourceExpr(i.op, a(1))
          [] prog.arch = "sh" /\ i.op \in ShShifts     -> ShShiftExpr(i.op, a(1), a(2), a(3))

Destination(i) == CASE i.op \in Tests -> "cond" [] i.op \in Dest2 -> i.args[2].r [] OTHER -> i.args[1].r

\* What an instruction sets: a multiplication the high and the low half.
Assigned(i) ==
    LET l == ExprOf(i.args[1])
        r == ExprOf(i.args[2])
    IN  CASE i.op = "mult"  -> "hi" :> fold_divmod(Bin("MULT_HI", "i", l, r)) @@ "lo" :> Bin("*", "i", l, r)
          [] i.op = "multu" -> "hi" :> fold_divmod(Bin("MULTU_HI", "i", l, r)) @@ "lo" :> Bin("*", "i", l, r)
          [] OTHER -> Destination(i) :> Evaluation(i)

Evaluable == \A k \in 1..Len(input) : ~IsLabel(input[k]) /\ input[k].op \in Evaluated(prog.arch) /\ input[k].cc = ""

EvalStep ==
    /\ outcome = "" /\ ~Working
    /\ Evaluable /\ at <= Len(input)
    /\ exprs' = [r \in input[at].clob |-> ErrorExpr] @@ Assigned(input[at]) @@ exprs
    /\ at' = at + 1
    /\ UNCHANGED vars

EvalInit == Init /\ exprs = <<>> /\ at = 1
EvalNext == \/ Match /\ UNCHANGED <<exprs, at>>
            \/ EndPass /\ UNCHANGED <<exprs, at>>
            \/ EvalStep
EvalSpec == EvalInit /\ [][EvalNext]_evalVars

-----------------------------------------------------------------------------
(* Properties.                                                             *)

Evaluated_All == ~Working /\ outcome = "" /\ Evaluable /\ at > Len(input)

\* How C reads an operator whose operands have the type of the program's
\* parameters.
Unsigned(t) == t = "u" \/ (t = "i" /\ prog.in = "unsigned")

Apply2(op, t, x, y) ==
    CASE op = "+" -> Wrap(x + y)
      [] op = "-" -> Wrap(x - y)
      [] op = "*" -> Wrap(x * y)
      [] op = "&" -> Compute("and", x, y)
      [] op = "|" -> Compute("or", x, y)
      [] op = "^" -> Compute("xor", x, y)
      [] op = "<<" -> Wrap(x * 2^y)
      [] op = ">>" -> IF Unsigned(t) THEN Compute("srl", x, y) ELSE Compute("sra", x, y)
      [] op = "/" -> IF Unsigned(t) THEN UnsDiv(x, y) ELSE SignedDiv(x, y)
      [] op = "%" -> IF Unsigned(t) THEN Wrap(Uns(x) % Uns(y)) ELSE Wrap(x - y * TruncDiv(x, y))
      [] op = "MULT_HI" -> Compute("mulhw", x, y)
      [] op = "MULTU_HI" -> Compute("mulhwu", x, y)
      [] op = "==" -> Bit(x = y)
      [] op = "!=" -> Bit(x # y)
      [] op = "<"  -> IF Unsigned(t) THEN Bit(Uns(x) < Uns(y)) ELSE Bit(x < y)
      [] op = ">"  -> IF Unsigned(t) THEN Bit(Uns(x) > Uns(y)) ELSE Bit(x > y)
      [] op = "<=" -> IF Unsigned(t) THEN Bit(Uns(x) <= Uns(y)) ELSE Bit(x <= y)
      [] op = ">=" -> IF Unsigned(t) THEN Bit(Uns(x) >= Uns(y)) ELSE Bit(x >= y)

RECURSIVE Value(_, _)
\* The value of an expression in C, for given values of the registers.
Value(e, regs) ==
    CASE e.k = "lit" -> Wrap(e.v)
      [] e.k = "var" -> regs[e.r]
      [] e.k = "cast" -> Narrow(Value(e.e, regs), e.bits, e.signed)
      [] e.k = "un" ->
           LET x == Value(e.e, regs)
           IN  (CASE e.op = "~" -> -x - 1 [] e.op = "-" -> Wrap(-x) [] e.op = "!" -> Bit(x = 0)
                  [] e.op = "CLZ" -> Compute("cntlzw", x, 0))
      [] e.k = "bin" -> Apply2(e.op, e.t, Value(e.l, regs), Value(e.r, regs))

\* The expression that a live register ends with has, whatever the inputs, the
\* value that the original instructions compute, before patterns and folding;
\* a condition is true when the branch is taken.
ValuesKept ==
    Evaluated_All =>
       \A given \in Inputs[prog.in] : \E s \in {Run(prog.body, given)}, start \in {Start(given).regs} :
          \A r \in prog.live :
             \/ RegExpr(r).k = "error"
             \/ s.regs[r] = Undef
             \/ IF r = "cond" THEN (Value(RegExpr(r), start) # 0) <=> (s.regs[r] # 0)
                ELSE Value(RegExpr(r), start) = s.regs[r]

\* What a compiler makes of a division by a constant becomes that division
\* again (op and by of the program), for every constant.
IdiomsRecovered ==
    (Evaluated_All /\ prog.op # "") =>
       \A r \in prog.live : IsOp(RegExpr(r), prog.op) /\ RegExpr(r).l.k = "var" /\ IsLitOf(RegExpr(r).r, prog.by)
=============================================================================
