---------------------------- MODULE MCBuildBlocks ----------------------------
(***************************************************************************)
(* The files whose functions the runs of BuildBlocks enumerate.            *)
(***************************************************************************)
EXTENDS BuildBlocks

Branch(k, n)      == Instr(k, k, <<<<n>>>>)
Branches(ks)      == {Branch(k, n) : k \in ks, n \in 1 .. MaxLabels}
Call(k)           == Instr(k, k, <<>>)
CondReturn        == Instr("condret", "condret", <<Ret>>)
Table(targets)    == Instr("table", "table", targets)
WithSlot(js, ops) == {<<j, Op(o)>> : j \in js, o \in ops}
File(arch, units, max, ends, mentioned) ==
  [arch |-> arch, units |-> units, max |-> max, ends |-> ends, mentioned |-> mentioned]

PlainEnd == {<<Return, Nop>>}

\* Branches whose slots may be moved, over slots that cannot run twice.
LikelyFile ==
  File("mips",
       {<<Op("add")>>, <<Op("mov")>>} \cup WithSlot(Branches({"likely", "b"}), {"add"})
         \cup WithSlot(Branches({"cond"}), {"mov"}),
       3, PlainEnd, {})

\* Everything MIPS has, missing slots included.
MipsFile ==
  File("mips",
       {<<Op("add")>>, <<Op("mov")>>, <<Branch("cond", 1)>>, <<Branch("likely", 1)>>}
         \cup WithSlot(Branches({"likely", "cond", "b"}), {"add", "mov"})
         \cup WithSlot({Call("call"), Call("callr")}, {"add", "nop"}),
       2, {<<Return, Nop>>, <<Return, Op("add")>>, <<Return, Op("mov")>>, <<Return>>, <<>>},
       {})

\* SuperH: bt and bf have no slot, bt.s, bf.s, bra and braf do.
Sh2File ==
  File("sh2",
       {<<Op("cmp")>>, <<Op("add")>>, <<Branch("bt", 2)>>}
         \cup WithSlot({Branch("cond", 1), Branch("b", 1), Branch("b", 2)}, {"cmp"})
         \cup WithSlot({Branch("cond", 1), Table(<<<<2>>, <<2>>>>)}, {"add"}),
       3, PlainEnd, {2})

\* Without slots: conditional returns (PowerPC) and conditional jump tables
\* some of whose entries return (ARM).
PpcFile ==
  File("ppc",
       {<<Op("add")>>, <<Call("call")>>, <<CondReturn>>, <<Return>>, <<Table(<<<<1>>, Ret>>)>>}
         \cup {<<j>> : j \in Branches({"cond", "b"})},
       2, {<<Return>>, <<Op("add")>>, <<>>}, {1})

AllFiles    == {LikelyFile, MipsFile, Sh2File, PpcFile}
LikelyFiles == {LikelyFile}
MipsFiles   == {MipsFile}
=============================================================================
