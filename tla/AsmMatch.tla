------------------------------ MODULE AsmMatch ------------------------------
(***************************************************************************)
(* Matching an assembly pattern against a body (TryMatchState and          *)
(* AsmMatcher.try_match of asm_pattern.py).                                *)
(*                                                                         *)
(* A pattern is a sequence of parts: an instruction, a label, a wildcard,  *)
(* or an equation between literals.  A register of one letter is a         *)
(* variable; the other registers stand for themselves.  Literals and       *)
(* labels of a pattern are variables too.                                  *)
(***************************************************************************)
EXTENDS AsmMachine

V(x) == [v |-> x]
Math(op, a, b) == [math |-> op, a |-> a, b |-> b]

PatternRegs == {"a", "b", "c", "d", "e", "i", "o", "p", "q", "r", "t", "x", "y"}

P(part)   == [part |-> part, opt |-> FALSE]
Opt(part) == [part |-> part, opt |-> TRUE]
Star      == P([star |-> 0])
Eq(x, e)  == P([eq |-> x, val |-> e])

Rest(q) == SubSeq(q, 2, Len(q))

-----------------------------------------------------------------------------
(* TryMatchState.  The state keeps what a failed comparison has bound.     *)

NoBindings == [q \in {} |-> q]
Empty == [ok |-> TRUE, regs |-> NoBindings, lits |-> NoBindings, defs |-> NoBindings,
          uses |-> {}, wild |-> <<>>, end |-> 0]
Bind(f, k, x) == [q \in DOMAIN f \cup {k} |-> IF q = k THEN x ELSE f[q]]
OkIf(st, c) == [st EXCEPT !.ok = c]

match_var(st, map, key, value) ==
    IF key \in DOMAIN st[map] THEN OkIf(st, st[map][key] = value)
    ELSE [st EXCEPT !.ok = TRUE, ![map] = Bind(@, key, value)]

match_reg(st, actual, exp) ==
    IF exp \in PatternRegs THEN match_var(st, "regs", exp, actual) ELSE OkIf(st, exp = actual)

\* uses are pairs of a label of the pattern and the label it stands for.
match_label_def(st, key, name) ==
    [st EXCEPT !.defs = Bind(@, key, name),
               !.ok   = \A u \in st.uses : u[1] = key => u[2] = name]

match_label_use(st, key, use) ==
    IF key \in DOMAIN st.defs /\ st.defs[key] # use THEN OkIf(st, FALSE)
    ELSE [st EXCEPT !.ok = TRUE, !.uses = @ \cup {<<key, use>>}]

RECURSIVE eval_math(_, _)
eval_math(st, e) ==
    IF Has(e, "n") THEN e.n
    ELSE IF Has(e, "v") THEN st.lits[e.v]
    ELSE LET a == eval_math(st, e.a)  b == eval_math(st, e.b)
         IN  CASE e.math = "+" -> a + b [] e.math = "-" -> a - b [] e.math = "<<" -> a * 2^b

RECURSIVE match_arg(_, _, _)
RECURSIVE MatchArgs(_, _, _)
match_arg(st, a, e) ==
    CASE Has(e, "n") -> OkIf(st, Has(a, "n") /\ a.n = e.n)
      [] Has(e, "r") -> IF Has(a, "r") THEN match_reg(st, a.r, e.r) ELSE OkIf(st, FALSE)
      [] Has(e, "l") -> IF Has(a, "l") THEN match_label_use(st, e.l, a.l) ELSE OkIf(st, FALSE)
      [] Has(e, "v") -> IF Has(a, "n") THEN match_var(st, "lits", e.v, a.n) ELSE OkIf(st, FALSE)
      [] Has(e, "base") ->
            IF ~Has(a, "base") THEN OkIf(st, FALSE)
            ELSE MatchArgs(match_reg(st, a.base, e.base), <<a.add, [wb |-> a.wb]>>, <<e.add, [wb |-> e.wb]>>)
      [] Has(e, "wb") -> OkIf(st, a.wb = e.wb)
      [] Has(e, "math") -> OkIf(st, Has(a, "n") /\ a.n = eval_math(st, e))

MatchArgs(st, as, es) ==
    IF es = <<>> \/ ~st.ok THEN st
    ELSE MatchArgs(match_arg(st, Head(as), Head(es)), Rest(as), Rest(es))

match_one(st, actual, exp) ==
    CASE Has(exp, "star") -> [st EXCEPT !.ok = TRUE, !.wild = Append(@, actual)]
      [] IsLabel(exp) -> IF IsLabel(actual) THEN match_label_def(st, exp.label, actual.label)
                         ELSE OkIf(st, FALSE)
      [] OTHER ->
            IF IsLabel(actual) THEN OkIf(st, FALSE)
            ELSE IF actual.op # exp.op \/ actual.cc # exp.cc THEN OkIf(st, FALSE)
            ELSE IF exp.args = <<>> THEN OkIf(st, TRUE)
            ELSE IF Len(actual.args) # Len(exp.args) THEN OkIf(st, FALSE)
            ELSE MatchArgs(OkIf(st, TRUE), actual.args, exp.args)

match_meta(st, exp) == match_arg(st, N(eval_math(st, exp.val)), exp.eq)

MatchPart(st, body, i, part) ==
    IF Has(part, "eq") THEN match_meta(st, part)
    ELSE IF i <= Len(body) THEN match_one(st, body[i], part) ELSE OkIf(st, FALSE)

RECURSIVE MatchFrom(_, _, _, _)
RECURSIVE MatchRest(_, _, _, _)
MatchFrom(st, body, i, pattern) ==
    IF pattern = <<>> THEN [st EXCEPT !.ok = TRUE, !.end = i]
    ELSE MatchRest(MatchPart(st, body, i, Head(pattern).part), body, i, pattern)

\* st is the state after the first part of the pattern.
MatchRest(st, body, i, pattern) ==
    IF st.ok /\ ~Has(Head(pattern).part, "eq") THEN MatchFrom(st, body, i + 1, Rest(pattern))
    ELSE IF st.ok \/ Head(pattern).opt THEN MatchFrom(st, body, i, Rest(pattern))
    ELSE st

\* AsmMatcher.try_match: on success the parts from i to end - 1 are the match.
try_match(body, i, pattern) == MatchFrom(Empty, body, i, pattern)

-----------------------------------------------------------------------------
(* What a pattern answers.  auto: apply works out the clobbered registers. *)

Replacement(new, n) == [kind |-> "new", new |-> new, n |-> n, auto |-> TRUE, clob |-> {}]
ReplacementClobbering(new, n, clob) ==
    [kind |-> "new", new |-> new, n |-> n, auto |-> FALSE, clob |-> clob]
NoMatch == [kind |-> "none"]
DecompFailure == [kind |-> "refused"]

\* SimpleAsmPattern.match: Replace gets the match and the number of its parts.
ReplaceMatch(m, i, Replace(_, _)) == IF m.ok THEN Replace(m, m.end - i) ELSE NoMatch
SimpleMatch(body, i, pattern, Replace(_, _)) == ReplaceMatch(try_match(body, i, pattern), i, Replace)
=============================================================================
