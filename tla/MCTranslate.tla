----------------------------- MODULE MCTranslate -----------------------------
(***************************************************************************)
(* The functions the run of Translate goes through.                        *)
(***************************************************************************)
EXTENDS Translate

Straight == <<<<2>>, <<>>>>
IfThen   == <<<<2, 3>>, <<3>>, <<>>>>
Loop     == <<<<2>>, <<2, 3>>, <<>>>>
While    == <<<<2>>, <<3, 4>>, <<2>>, <<>>>>
Diamond  == <<<<2, 3>>, <<4>>, <<4>>, <<>>>>

AllShapes == {Straight, IfThen, Loop, While, Diamond}

Li        == <<"li", "s0", "">>
Mov(d, s) == <<"mov", d, s>>
Op(d, s)  == <<"op", d, s>>
LoadTo(d) == <<"load", d, "">>
Store(s)  == <<"store", "", s>>
Spill(s)  == <<"spill", "", s>>
Reload(d) == <<"reload", d, "">>
Call      == <<"call", "", "">>
Call1     == <<"call1", "", "">>
CallVoid  == <<"callvoid", "", "">>
Br        == <<"br", "", "s0">>

Swap == <<Mov("v0", "a0"), Mov("a0", "s0"), Mov("s0", "v0")>>

\* Blocks of registers, calls and stores.
RegisterBodies ==
  {<<>>, <<Li>>, <<Mov("s0", "a0"), Mov("v0", "s0")>>, <<Op("s0", "s0")>>, <<Store("s0")>>,
   <<Call>>, <<Call, Mov("s0", "v0")>>, Swap}

WhileBodies == {<<>>, <<Op("s0", "s0")>>, <<Mov("v0", "s0")>>, <<Call, Mov("s0", "v0")>>, Swap}

\* Blocks that also read and write memory.
MemoryBodies ==
  {<<>>, <<LoadTo("s0")>>, <<Store("a0")>>, <<Call>>, <<Call, Mov("s0", "v0")>>,
   <<LoadTo("s0"), Store("a0")>>, <<LoadTo("v0"), Store("s0")>>,
   <<LoadTo("s0"), Mov("a0", "s0"), Call1>>, <<Mov("s0", "a0"), CallVoid>>}

\* Blocks that save registers on the stack.
SpillBodies ==
  {<<>>, <<Spill("a0")>>, <<Spill("a0"), Call, Reload("a0")>>, <<Reload("a0")>>,
   <<Spill("s0"), Op("s0", "s0"), Reload("s0")>>, <<Mov("v0", "a0")>>,
   <<Call, Mov("s0", "v0"), Spill("s0")>>, <<Store("a0")>>}

\* Two cases translate.py knows to get wrong are left out: a value read in one
\* block and used behind a store of another (the TODO at the end of
\* create_dominated_node_state), and a read behind a call that is printed
\* later than it was made ("This isn't really right" in make_function_call).
Has(body, ops) == \E i \in DOMAIN body: body[i][1] \in ops
After(sh, n)   == ReachableFrom(sh, ToSet(sh[n]), {})

Modelled(sh, p) ==
  \A n \in Nodes(sh): \A m \in After(sh, n):
    /\ Has(p[n], {"load"}) => ~Has(p[m], {"store"})
    /\ Has(p[n], {"reload"}) => ~Has(p[m], {"spill"})
    /\ Has(p[n], {"call", "call1", "callvoid"}) => ~Has(p[m], {"load"})

EndBodies == {<<>>, <<Store("s0")>>, <<Op("s0", "s0")>>, <<LoadTo("v0"), Store("s0")>>}

WithBranches(sh, p) == [n \in Nodes(sh) |-> IF Len(sh[n]) = 2 THEN Append(p[n], Br) ELSE p[n]]

AllBlocks(sh) ==
  IF sh = While THEN [Nodes(sh) -> WhileBodies]
  ELSE [Nodes(sh) -> RegisterBodies]
         \cup {p \in [Nodes(sh) -> MemoryBodies] \cup [Nodes(sh) -> SpillBodies]: Modelled(sh, p)}

AllPrograms(sh) ==
  {WithBranches(sh, p): p \in {q \in AllBlocks(sh): sh = Diamond => q[4] \in EndBodies}}
=============================================================================
