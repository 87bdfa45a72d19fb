---------------------------- MODULE MCStructure ------------------------------
(***************************************************************************)
(* The functions the runs of Structure enumerate.                          *)
(***************************************************************************)
EXTENDS Structure

Basic(t, stm)       == Node("Basic", <<t>>, stm, "", 0)
Cond(t, stm)        == Node("Conditional", <<t>>, stm, "", 0)
Cmp(op, v, t)       == Node("Conditional", <<t>>, FALSE, op, v)
Jumps(ts)           == Node("Switch", ts, FALSE, "", 0)
Ret(stm)            == Node("Return", <<Terminal>>, stm, "", 0)

Options(ifs, andor, switches, ido, void) ==
  [ifs |-> ifs, andor |-> andor, switches |-> switches, ido |-> ido, void |-> void]

Family(blocks, opts, trivial) ==
  [blocks |-> blocks, options |-> opts, trivial |-> trivial]

Usual == Options(TRUE, TRUE, TRUE, TRUE, TRUE)

\* n blocks, those before the last any of shapes.
Blocks(n, shapes, ends) == {Append(b, e) : b \in [1 .. n - 1 -> shapes], e \in ends}

\* Every graph of four blocks.
AnyGraph ==
  Family(Blocks(4, {Basic(t, s) : t \in 0 .. 3, s \in BOOLEAN}
                     \cup {Cond(t, s) : t \in 0 .. 3, s \in BOOLEAN},
                {Ret(FALSE), Ret(TRUE), Basic(0, TRUE), Basic(1, FALSE)}),
         {Usual, Options(TRUE, FALSE, TRUE, TRUE, FALSE)}, BOOLEAN)

\* Graphs of five blocks that all do something.
FiveBlocks ==
  Family(Blocks(5, {Basic(t, TRUE) : t \in 0 .. 4} \cup {Cond(t, TRUE) : t \in 0 .. 4} \cup {Ret(TRUE)},
                {Ret(TRUE)}),
         {Usual}, {FALSE})

\* Three conditions, then blocks that go on, return or jump back.
Conditions ==
  Family({<<a, b, c, d, e, Ret(TRUE)>> :
            a \in {Cond(t, TRUE) : t \in 2 .. 5},
            b \in {Cond(t, s) : t \in 2 .. 5, s \in BOOLEAN},
            c \in {Cond(t, s) : t \in 0 .. 5, s \in BOOLEAN},
            d \in {Basic(5, TRUE), Basic(4, TRUE), Ret(TRUE), Basic(1, TRUE)},
            e \in {Basic(5, TRUE), Ret(TRUE), Basic(0, FALSE)}},
         {Usual}, {FALSE})

\* Three comparisons of the variable, or two and an empty block, then cases.
Orders == {"<", "<=", ">", ">="}

Compilers == {Options(TRUE, TRUE, TRUE, ido, TRUE) : ido \in BOOLEAN}

Chains ==
  Family({<<a, b, c, d, Basic(5, TRUE), Ret(FALSE)>> :
            a \in {Cmp(op, 1, t) : op \in Orders \cup Equals, t \in 3 .. 4},
            b \in {Cmp(op, v, t) : op \in Orders \cup Equals, v \in 1 .. 2, t \in 3 .. 5},
            c \in {Cmp("!=", 2, 4), Cmp("==", 3, 4), Cmp("==", 3, 5), Basic(5, FALSE)},
            d \in {Basic(5, TRUE), Basic(4, TRUE)}},
         Compilers, {FALSE})

\* A comparison that splits the values, and a test on either side.
Trees ==
  Family({<<a, b, Basic(def, FALSE), c, d, Basic(6, TRUE), Ret(FALSE)>> :
            a \in {Cmp(op, 1, 3) : op \in Orders},
            b \in {Cmp(op, v, t) : op \in Equals, v \in {0, 2}, t \in 4 .. 6},
            c \in {Cmp(op, v, t) : op \in Equals, v \in {0, 2}, t \in {4, 6}},
            d \in {Basic(6, TRUE), Basic(5, TRUE)},
            def \in 4 .. 6},
         Compilers, {FALSE})

\* A jump table behind its guard.
Guarded ==
  Family({<<Cmp("guard", 3, t), Jumps(ts), c, d, e, Ret(FALSE)>> :
            t  \in 2 .. 5,
            ts \in [1 .. 3 -> 2 .. 5],
            c  \in {Basic(3, TRUE), Basic(5, TRUE), Basic(5, FALSE)},
            d  \in {Basic(4, TRUE), Basic(5, TRUE)},
            e  \in {Basic(5, TRUE), Basic(0, TRUE)}},
         {Usual}, {FALSE})

\* A test for one more value in front of it.
Mixed ==
  Family({<<Cmp("==", 5, t1), Cmp("guard", 3, t2), Jumps(ts), c, Basic(5, TRUE), Ret(FALSE)>> :
            t1 \in 3 .. 5,
            t2 \in 3 .. 5,
            ts \in [1 .. 3 -> 3 .. 5],
            c  \in {Basic(4, TRUE), Basic(5, TRUE)}},
         Compilers, {FALSE})

\* A table long enough that case labels are left out.
LongTables ==
  Family({<<Jumps(ts), Basic(t, TRUE), Basic(3, TRUE), Ret(FALSE)>> :
            ts \in [1 .. 6 -> 1 .. 3], t \in 2 .. 3},
         {Usual}, {FALSE})

\* Tables printed with gotos only.
NaiveTables(length) ==
  Family({<<Jumps(ts), Basic(t, TRUE), Basic(3, TRUE), Ret(FALSE)>> :
            ts \in [1 .. length -> 1 .. 3], t \in 2 .. 3},
         {Options(FALSE, TRUE, TRUE, TRUE, TRUE)}, {FALSE})

\* Tests for two values behind an order test whose other side does something.
OpenTrees ==
  Family({<<Cmp("<", 0, 4), Cmp("==", 1, 5), Cmp("==", 2, 6), Basic(7, FALSE),
            Basic(7, TRUE), Basic(7, TRUE), Basic(7, TRUE), Ret(FALSE)>>},
         {Usual}, {FALSE})

\* An if statement and a loop, for jumps marked with --goto.
Small ==
  Family({<<Cond(2, TRUE), Basic(2, TRUE), Ret(FALSE)>>,
          <<Basic(1, TRUE), Cond(0, TRUE), Ret(FALSE)>>}, {Usual}, {FALSE})

MinusTwo == -2

AllFamilies == {AnyGraph, FiveBlocks, Conditions, Chains, Trees, Guarded, Mixed, LongTables, NaiveTables(3)}
OpenFamilies == {OpenTrees}
GotoFamilies == {Small}
NaiveFamilies == {NaiveTables(6)}
=============================================================================
