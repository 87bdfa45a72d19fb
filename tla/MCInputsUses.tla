---------------------------- MODULE MCInputsUses -----------------------------
(***************************************************************************)
(* The functions the runs of InputsUses enumerate.  Locations are handled  *)
(* one by one, so a function is about one: register 1, which is also an    *)
(* argument and the return value, or the stack location 2.                 *)
(***************************************************************************)
EXTENDS InputsUses

Ir(ins, outs, clobs) == [ins |-> ins, outs |-> outs, clobs |-> clobs, call |-> FALSE]

Read(l)   == Ir({l}, {}, {})
Update(l) == Ir({l}, {l}, {})
FnCall    == [ins |-> {1}, outs |-> {}, clobs |-> {1}, call |-> TRUE]

\* Every block reads the location before it does anything to it.
AllFunctions ==
  {{<<Read(1)>>, <<Update(1)>>, <<FnCall>>}, {<<Read(2)>>, <<Update(2), Read(2)>>}}

\* At most one branch leads back to the first block.
OneEntryLoop == Cardinality(parents(Entry)) <= 1

\* Register 1 without calls.
LoopFunctions == {{<<Read(1)>>, <<Update(1)>>}}
=============================================================================
