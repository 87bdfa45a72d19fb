---------------------------- MODULE MCIrPatterns -----------------------------
(***************************************************************************)
(* The patterns and functions the runs of IrPatterns use.                  *)
(***************************************************************************)
EXTENDS IrPatterns

carry == 9

Op(ins, outs) == [ins |-> ins, outs |-> outs, reads |-> {}, sets |-> {}, clobbers |-> {}]

\* The instructions of the patterns, as the parse methods of PpcArch and
\* Sh2Arch describe them, and three more: one that updates a register, a call,
\* and one that shows a register to the world.
AllOps ==
  [addic  |-> [Op({2}, {1}) EXCEPT !.sets = {carry}],
   subfe  |-> [Op({2, 3}, {1}) EXCEPT !.reads = {carry}],
   cmpnez |-> Op({2}, {1}),
   swap   |-> Op({1}, {2}),
   exts   |-> Op({1}, {2}),
   shar16 |-> Op({1}, {2}),
   move   |-> Op({2}, {1}),
   upd    |-> Op({1}, {1}),
   fncall |-> [Op({}, {}) EXCEPT !.clobbers = {2, 3, carry}],
   use    |-> Op({1}, {}),
   nop    |-> Op({}, {})]

P(op, args) == [op |-> op, args |-> args]

\* CmpnezPattern1: $o = -1, $i = -2, $a = -3.  Its input is read twice.
CmpnezPattern1 ==
  [parts |-> <<P("addic", <<-3, -2>>), P("subfe", <<-1, -3, -2>>)>>,
   replacement |-> P("cmpnez", <<-1, -2>>)]

\* Shar16Pattern: $o = -1, $i = -2, $t = -3.
Shar16Pattern ==
  [parts |-> <<P("swap", <<-2, -3>>), P("exts", <<-3, -1>>)>>,
   replacement |-> P("shar16", <<-2, -1>>)]

AllPatterns == <<CmpnezPattern1, Shar16Pattern>>

addic  == Parse("addic", <<2, 1>>)
subfe  == Parse("subfe", <<3, 2, 1>>)
subfe1 == Parse("subfe", <<1, 2, 1>>)
swap   == Parse("swap", <<1, 2>>)
exts   == Parse("exts", <<2, 3>>)
exts1  == Parse("exts", <<2, 1>>)
upd    == Parse("upd", <<1>>)
use(r) == Parse("use", <<r>>)

\* Parts of the pattern, with its input overwritten, and its results used, in
\* the same and in other blocks.
Ppc == BoundedSeq({addic, subfe, subfe1, upd, use(2), use(3)}, 1) \cup
       {<<addic, upd>>, <<addic, subfe>>, <<addic, subfe1>>, <<subfe, use(3)>>, <<subfe1, use(2)>>, <<upd, use(2)>>}

Sh  == BoundedSeq({swap, exts, exts1, upd}, 1) \cup
       {<<swap, exts>>, <<swap, upd>>, <<exts, use(3)>>, <<upd, use(2)>>}

AllBlocks == {Ppc, Sh}
=============================================================================
