------------------------------ MODULE Translate ------------------------------
(***************************************************************************)
(* Translation of a function's blocks to expressions and statements.       *)
(*                                                                         *)
(* Every register assignment becomes an EvalOnceExpr, and whether it is    *)
(* printed as a variable or inline is decided while the rest of the        *)
(* function is translated: by how often it is used, by later writes that   *)
(* an inline use may not cross (prevent_later_uses), and by phis.  Phis    *)
(* found in one pass become planned variables in the next.  The module     *)
(* translates small programs in two passes and then runs the assembly and  *)
(* the printed statements side by side along every path.                   *)
(*                                                                         *)
(* An expression is a record [k, id, a] of a kind, a number that tells     *)
(* objects compared by identity apart, and its operands.  A Var is         *)
(* [keys, id]: the (register, source) pairs of a planned variable, or the  *)
(* EvalOnceExpr a temporary belongs to.                                    *)
(***************************************************************************)
EXTENDS Integers, Sequences, FiniteSets, SequencesExt

CONSTANTS
  Shapes,    \* control flow graphs: children of each node, the last one returns
  Programs(_), \* the functions of a shape: the instructions of each node
  Passes,    \* options.passes
  MaxPath    \* how many nodes an execution visits at most

Regs     == {"a0", "s0", "v0"}
TempRegs == {"a0", "v0"}
Prologue == <<0, 0>>

VARIABLES
  shape, prog, preserve,                \* the function; preserve: the target is PPC
  pass,
  planned_vars, planned_inherited_phis, \* PersistentFunctionState
  heap,                                 \* the expression objects of this pass
  translate_stack, translated,          \* translate_all_blocks
  return_value,
  phase                                 \* "translate", "phis", "done"

vars == <<shape, prog, preserve, pass, planned_vars, planned_inherited_phis, heap,
          translate_stack, translated, return_value, phase>>

-----------------------------------------------------------------------------
(* The graph.                                                              *)

Nodes(sh)      == 1..Len(sh)
parents(sh, n) == SelectSeq([i \in Nodes(sh) |-> i], LAMBDA p: n \in ToSet(sh[p]))

ReachableFrom(sh, start, without) ==
  LET reach[k \in 0..Len(sh)] ==
        IF k = 0 THEN start \ without
        ELSE reach[k - 1] \cup (UNION {ToSet(sh[n]): n \in reach[k - 1]} \ without)
  IN reach[Len(sh)]

Dominators(sh, n) == {d \in Nodes(sh) \ {n}: n \notin ReachableFrom(sh, {1}, {d})}

immediate_dominator(sh, n) ==
  CHOOSE d \in Dominators(sh, n): Dominators(sh, n) \ {d} \subseteq Dominators(sh, d)

immediately_dominates(sh, n) ==
  SelectSeq([i \in Nodes(sh) |-> i], LAMBDA c: c # 1 /\ immediate_dominator(sh, c) = n)

\* The nodes on the paths from the immediate dominator of n to n.
UntilDominator(sh, n) ==
  LET d == immediate_dominator(sh, n)
      back[k \in 0..Len(sh)] ==
        IF k = 0 THEN ToSet(parents(sh, n)) \ {d}
        ELSE back[k - 1] \cup (UNION {ToSet(parents(sh, p)): p \in back[k - 1]} \ {d})
  IN back[Len(sh)]

-----------------------------------------------------------------------------
(* Instructions <<op, destination, source>>: li, mov, op, load and store of *)
(* a global, spill and reload of a stack slot, a branch, and calls of a     *)
(* function without parameters, with one, and of a void one.                *)

outputs(i) ==
  IF i[1] \in {"li", "mov", "op", "load", "reload"} THEN {i[2]}
  ELSE IF i[1] \in {"call", "call1"} THEN {"v0"} ELSE {}

is_call(i)   == i[1] \in {"call", "call1", "callvoid"}
clobbers(i)  == IF is_call(i) THEN TempRegs ELSE {}
Refs(pr)     == {<<n, i>> : n \in DOMAIN pr, i \in 1..4}

\* locs_clobbered_until_dominator
clobbered_until_dominator(sh, pr, n) ==
  UNION {outputs(pr[m][i]) \cup clobbers(pr[m][i]) :
           <<m, i>> \in {x \in UntilDominator(sh, n) \X (1..4): x[2] \in DOMAIN pr[x[1]]}}

\* reg_sources: depth first from the parents, the nearest write of each path.
RECURSIVE source_walk(_, _, _, _, _, _)
source_walk(sh, pr, dom, r, pres, w) ==
  IF w.stack = <<>> \/ w.lost THEN w ELSE
  LET n     == Last(w.stack)
      rest  == Front(w.stack)
      hits  == {i \in DOMAIN pr[n]: r \in outputs(pr[n][i]) \cup clobbers(pr[n][i])}
      last  == CHOOSE i \in hits: \A j \in hits: j <= i
      w1    == [w EXCEPT !.stack = rest, !.dom = w.dom \/ n = dom]
      w2    == [w1 EXCEPT !.seen = @ \cup {n}]
  IN source_walk(sh, pr, dom, r, pres,
       IF n \in w.seen THEN w1
       ELSE IF hits = {} THEN [w2 EXCEPT !.stack = rest \o parents(sh, n)]
       ELSE IF r \in outputs(pr[n][last]) THEN [w2 EXCEPT !.sources = Append(@, <<n, last>>)]
       ELSE IF pres THEN [w2 EXCEPT !.clobbered = TRUE] ELSE [w2 EXCEPT !.lost = TRUE])

reg_sources(sh, pr, n, r, pres) ==
  LET dom == immediate_dominator(sh, n)
      w == source_walk(sh, pr, dom, r, pres,
             [stack |-> parents(sh, n), seen |-> {dom}, sources |-> <<>>, dom |-> FALSE,
              clobbered |-> FALSE, lost |-> FALSE])
  IN IF w.lost THEN [sources |-> <<>>, dom |-> FALSE, clobbered |-> FALSE]
     ELSE [sources |-> w.sources, dom |-> w.dom, clobbered |-> w.clobbered]

-----------------------------------------------------------------------------
(* Expressions.                                                            *)

E(k, id, a) == [k |-> k, id |-> id, a |-> a]

None    == E("none", 0, <<>>)
ErrorExpr == E("error", 0, <<>>)
Literal == E("lit", 0, <<>>)
Arg     == E("arg", 0, <<>>)      \* PassedInArg
Saved   == E("sym", 0, <<>>)      \* saved_reg_symbol
Load    == E("load", 0, <<>>)     \* StructAccess of a global
Local   == E("local", 0, <<>>)    \* LocalVar, the stack slot
Once(i) == E("once", i, <<>>)
Naive(i) == E("naive", i, <<>>)

Temp(i)       == [keys |-> {}, id |-> i]
PlannedVar(c) == [keys |-> c, id |-> 0]

\* A PlannedPhiExpr holds its var and its sources; n is the node it is for.
PlannedPhi(n, v, sources) == E("planned", n, <<v, sources>>)

is_trivial_expression(e) == e.k \in {"lit", "sym"}

\* A read of a global is transparent as well.
should_wrap_transparently(e) ==
  e.k \in {"lit", "arg", "sym", "naive", "planned", "once", "load", "local"}

uses_var(h, o) == o.var \in h.emitted /\ ~o.trivial

\* EvalOnceExpr.use, NaivePhiExpr.use, Expression.use
RECURSIVE use(_, _)
use(h, e) ==
  CASE e.k = "once" ->
         LET o == h.once[e.id]
             h1 == IF o.trivial \/ (o.transparent /\ o.var \notin h.emitted) THEN use(h, o.w)
                   ELSE IF o.used THEN [h EXCEPT !.emitted = @ \cup {o.var}]
                   ELSE IF o.exact THEN h ELSE use(h, o.w)
         IN [h1 EXCEPT !.once[e.id].used = TRUE]
    [] e.k = "naive" ->
         LET p  == h.phis[e.id]
             h1 == [h EXCEPT !.phis[e.id].usages = @ + 1,
                             !.queue = IF p.usages = 0 THEN Append(@, e.id) ELSE @]
         IN IF p.replacement = None THEN h1 ELSE use(h1, p.replacement)
    [] e.k \in {"op", "call"} /\ e.a # <<>> -> use(h, e.a[1])
    [] OTHER -> h

\* EvalOnceExpr.force
force(h, i) ==
  IF h.once[i].forced \/ h.once[i].trivial THEN h
  ELSE use(use([h EXCEPT !.once[i].forced = TRUE, !.emitted = @ \cup {h.once[i].var}],
               Once(i)), Once(i))

var_for_expr(h, e) ==
  IF e.k = "planned" THEN <<e.a[1]>>
  ELSE IF e.k = "once" /\ ~h.once[e.id].trivial THEN <<h.once[e.id].var>> ELSE <<>>

\* What prevent_later_var_uses, prevent_later_function_calls and
\* prevent_later_reads (and, with one memory cell, prevent_later_value_uses)
\* look for.
VarIn(vs)  == [k |-> "var", vs |-> vs]
IsCall     == [k |-> "call", vs |-> {}]
IsRead     == [k |-> "load", vs |-> {}]
IsLocal    == [k |-> "local", vs |-> {}]

Matches(h, f, e) ==
  IF f.k = "var" THEN \E v \in f.vs: var_for_expr(h, e) = <<v>> ELSE e.k = f.k

\* EvalOnceExpr.dependency
dependency(h, o, may_move_forward) ==
  IF o.trivial THEN o.w
  ELSE IF o.var \in h.emitted \/ (~o.transparent /\ o.used /\ ~may_move_forward) THEN None
  ELSE o.w

RECURSIVE uses_expr(_, _, _, _)
uses_expr(h, f, e, may_move_forward) ==
  \/ Matches(h, f, e)
  \/ /\ e.k = "once"
     /\ uses_expr(h, f, dependency(h, h.once[e.id], may_move_forward),
                  may_move_forward \/ h.once[e.id].exact)
  \/ e.k \in {"op", "call"} /\ e.a # <<>> /\ uses_expr(h, f, e.a[1], may_move_forward)

RECURSIVE late_unwrap(_, _)
late_unwrap(h, e) ==
  IF e.k = "once" /\ ~uses_var(h, h.once[e.id]) THEN late_unwrap(h, h.once[e.id].w)
  ELSE IF e.k = "naive" /\ h.phis[e.id].replacement # None
       THEN late_unwrap(h, h.phis[e.id].replacement)
  ELSE e

RECURSIVE transparent_unwrap(_, _)
transparent_unwrap(h, e) ==
  IF e.k = "once" /\ h.once[e.id].transparent /\ ~uses_var(h, h.once[e.id])
  THEN transparent_unwrap(h, h.once[e.id].w) ELSE e

RECURSIVE early_unwrap(_, _)
early_unwrap(h, e) ==
  IF e.k = "once" /\ ~h.once[e.id].forced /\ ~h.once[e.id].exact
  THEN early_unwrap(h, h.once[e.id].w) ELSE e

-----------------------------------------------------------------------------
(* A NodeState st: the heap h, the registers, local_var_writes (what was   *)
(* last written to the stack slot, from which register), the statements.   *)

Unset        == [val |-> None, force |-> FALSE]
NoWrites     == [reg |-> "", val |-> None, force |-> FALSE]
Data(e, f)   == [val |-> e, force |-> f]

write_statement(st, s) == [st EXCEPT !.to_write = Append(@, s)]

_prevent_later_uses(st, f) ==
  [st EXCEPT !.regs = [r \in Regs |->
       IF @[r].val.k = "once" /\ ~@[r].force /\ uses_expr(st.h, f, @[r].val, FALSE)
       THEN [@[r] EXCEPT !.force = TRUE] ELSE @[r]],
     !.local_var_writes.force = @ \/ uses_expr(st.h, f, st.local_var_writes.val, FALSE)]

\* RegInfo.__getitem__: the state and the expression it returns.
get(st, r) ==
  LET back == st.regs[r] = Unset /\ st.clobbered[r] # Unset
      d    == IF back THEN st.clobbered[r] ELSE st.regs[r]
      st1  == IF back THEN [st EXCEPT !.regs[r] = d, !.clobbered[r] = Unset] ELSE st
  IN IF d = Unset THEN [st |-> st, e |-> ErrorExpr]
     ELSE IF d.val.k = "once" /\ st.h.once[d.val.id].trivial
          THEN [st |-> st1, e |-> st.h.once[d.val.id].w]
     ELSE IF d.force THEN [st |-> [st1 EXCEPT !.h = force(@, d.val.id)], e |-> d.val]
     ELSE [st |-> st1, e |-> d.val]

get_planned_var(classes, r, source) ==
  LET cs == {c \in classes: <<r, source>> \in c}
  IN IF cs = {} THEN <<>> ELSE <<PlannedVar(CHOOSE c \in cs: TRUE)>>

\* _eval_once: returns the state; the new EvalOnceExpr is the last of the heap.
_eval_once(classes, st, e, exact, transparent, r, source) ==
  LET planned == get_planned_var(classes, r, source)
      i       == Len(st.h.once) + 1
      st1     == IF exact THEN [st EXCEPT !.h = use(@, e)] ELSE st
      st2     == IF planned = <<>> THEN st1 ELSE _prevent_later_uses(st1, VarIn(ToSet(planned)))
      uses_it == planned # <<>> /\ uses_expr(st2.h, VarIn(ToSet(planned)), e, FALSE)
      var     == IF planned = <<>> THEN Temp(i) ELSE planned[1]
      once    == [w |-> e, var |-> var, exact |-> exact, transparent |-> transparent,
                  trivial |-> transparent /\ is_trivial_expression(e),
                  forced |-> FALSE, used |-> FALSE, sources |-> <<source>>]
      st3     == write_statement([st2 EXCEPT !.h.once = Append(@, once)], Once(i))
      st4     == [st3 EXCEPT !.h = use([@ EXCEPT !.emitted = @ \cup {var}], Once(i))]
  IN IF planned = <<>> THEN st3
     ELSE IF uses_it THEN [st4 EXCEPT !.h = force(@, i)] ELSE st4

NewOnce(st) == Once(Len(st.h.once))

set_reg(classes, st, r, e, exact, transparent, source) ==
  LET st1 == _eval_once(classes, st, e, exact, transparent, r, source)
  IN [st1 EXCEPT !.regs[r] = Data(NewOnce(st1), FALSE), !.clobbered[r] = Unset]

set_initial_reg(classes, st, r, e) ==
  LET st1 == set_reg(classes, st, r, e, FALSE, TRUE, Prologue)
  IN IF st1.h.once[Len(st1.h.once)].var \in st1.h.emitted THEN get(st1, r).st ELSE st1

clear_caller_save_regs(st, pres) ==
  [st EXCEPT !.clobbered = [r \in Regs |-> IF pres /\ r \in TempRegs /\ st.regs[r] # Unset
                                           THEN st.regs[r] ELSE @[r]],
             !.regs = [r \in Regs |-> IF r \in TempRegs THEN Unset ELSE @[r]]]

\* A store that lets older reads be printed behind it.
StoreKeepsReads(st, e) ==
  write_statement(_prevent_later_uses([st EXCEPT !.h = use(@, e)], IsCall), E("store", 0, <<e>>))

\* store_memory: use() of the stored value, then the registers that hold the
\* old value or a call may not be printed behind the store.
store_memory(st, e) ==
  write_statement(
    _prevent_later_uses(_prevent_later_uses([st EXCEPT !.h = use(@, e)], IsRead), IsCall),
    E("store", 0, <<e>>))

\* store_memory to the stack slot.
spill(st, r, e) ==
  LET st1 == [st EXCEPT !.local_var_writes = [reg |-> r, val |-> e, force |-> FALSE]]
  IN IF early_unwrap(st.h, e) = Local THEN st1
     ELSE write_statement(
            _prevent_later_uses(_prevent_later_uses([st1 EXCEPT !.h = use(@, e)], IsLocal), IsCall),
            E("spill", 0, <<e>>))

\* set_reg of the stack slot: a register that is restored gets back what was
\* saved from it.
reload(st, r) ==
  LET w == st.local_var_writes
  IN IF w.reg # r THEN [st |-> st, e |-> Local]
     ELSE IF w.force /\ w.val.k = "once" THEN [st |-> [st EXCEPT !.h = force(@, w.val.id)], e |-> w.val]
     ELSE [st |-> st, e |-> w.val]

make_function_call(classes, st, pres, instr, source) ==
  LET got  == IF instr[1] = "call1" THEN get(st, "a0") ELSE [st |-> st, e |-> None]
      args == IF instr[1] = "call1" THEN <<got.e>> ELSE <<>>
      st1  == _eval_once(classes, got.st, E("call", Len(got.st.h.once), args), TRUE, FALSE,
                         "ret", source)
      st2  == clear_caller_save_regs(st1, pres)
      st3  == _prevent_later_uses(_prevent_later_uses(st2, IsCall), IsRead)
  IN IF outputs(instr) = {} THEN st3
     ELSE set_reg(classes, st3, "v0", NewOnce(st1), FALSE, FALSE, source)

evaluate_instruction(classes, st, pres, instr, source) ==
  LET op == instr[1]
      g  == IF op \in {"mov", "op", "store", "spill", "br"} THEN get(st, instr[3])
            ELSE IF op = "reload" THEN reload(st, instr[2])
            ELSE [st |-> st, e |-> CASE op = "li" -> Literal [] op = "load" -> Load [] OTHER -> None]
      e  == IF op \in {"op", "br"} THEN E("op", Len(st.h.once), <<g.e>>) ELSE g.e
  IN CASE op \in {"li", "mov", "op", "load", "reload"} ->
            set_reg(classes, g.st, instr[2], e, FALSE, should_wrap_transparently(e), source)
       [] op = "store" -> store_memory(g.st, e)
       [] op = "spill" -> spill(g.st, instr[3], e)
       [] op = "br"    -> [g.st EXCEPT !.branch_condition = e]
       [] is_call(instr) -> make_function_call(classes, st, pres, instr, source)

RECURSIVE translate_from(_, _, _, _, _, _)
translate_from(classes, st, pres, body, n, i) ==
  IF i > Len(body) THEN [st EXCEPT !.h = use(@, st.branch_condition)]
  ELSE translate_from(classes, evaluate_instruction(classes, st, pres, body[i], <<n, i>>),
                      pres, body, n, i + 1)

translate_node_body(classes, st, pres, body, n) == translate_from(classes, st, pres, body, n, 1)

-----------------------------------------------------------------------------
(* Entering a node: what its immediate dominator left, phis elsewhere.     *)

SourcesOf(h, e) ==
  CASE e.k = "once"    -> h.once[e.id].sources
    [] e.k = "naive"   -> h.phis[e.id].sources
    [] e.k = "planned" -> e.a[2]

NewPhi(r, n, src, dom) ==
  [reg |-> r, node |-> n, sources |-> src, uses_dominator |-> dom, usages |-> 0,
   replacement |-> None, named |-> FALSE]

\* The value a register has in node n by a phi over the sources.
PhiValue(classes, st, n, r, src, dom) ==
  LET var == get_planned_var(classes, r, src[1])
  IN IF var # <<>> /\ \A j \in DOMAIN src: get_planned_var(classes, r, src[j]) = var
     THEN [st EXCEPT !.regs[r] = Data(PlannedPhi(n, var[1], src), FALSE), !.clobbered[r] = Unset]
     ELSE [st EXCEPT !.h.phis = Append(@, NewPhi(r, n, src, dom)),
                     !.regs[r] = Data(Naive(Len(st.h.phis) + 1), FALSE), !.clobbered[r] = Unset]

\* The EvalOnceExpr that ANY_PARENT takes from the first translated parent
\* where the register is trivial.
ParentValues(st, done, ps, r) ==
  SelectSeq(ps, LAMBDA p: /\ p \in DOMAIN done
                          /\ done[p].regs[r].val.k = "once"
                          /\ st.h.once[done[p].regs[r].val.id].trivial)

\* One register that is written or clobbered on the way from the dominator,
\* whose final state is par.
inherit_register(sh, pr, pres, classes, planned, done, par, n, st, r) ==
  LET s       == reg_sources(sh, pr, n, r, pres)
      trivial == ParentValues(st, done, parents(sh, n), r)
      value   == st.h.once[done[trivial[1]].regs[r].val.id]
      copy    == [value EXCEPT !.var = Temp(Len(st.h.once) + 1), !.exact = FALSE,
                               !.transparent = TRUE, !.sources = s.sources,
                               !.forced = FALSE, !.used = FALSE]
      from_dom == s.dom /\ par.regs[r] # Unset
      sources == IF ~s.dom THEN s.sources
                 ELSE IF par.regs[r] = Unset THEN <<>>
                 ELSE s.sources \o SourcesOf(st.h, par.regs[r].val)
  IN CASE <<r, n, "dominator">> \in planned /\ st.regs[r] # Unset -> st
       [] <<r, n, "parent">> \in planned /\ trivial # <<>> ->
            [st EXCEPT !.h.once = Append(@, copy), !.clobbered[r] = Unset,
                       !.regs[r] = Data(Once(Len(st.h.once) + 1), FALSE)]
       [] OTHER ->
            IF sources # <<>> /\ ~s.clobbered THEN PhiValue(classes, st, n, r, sources, s.dom)
            ELSE IF s.clobbered /\ par.regs[r] # Unset
                 THEN [st EXCEPT !.regs[r] = par.regs[r], !.clobbered[r] = Unset]
            ELSE [st EXCEPT !.regs[r] = Unset]

\* Values inherited from the dominator are not kept from later assignments.
NoClobberedVars(sh, pr, classes, n) == {}

\* find_clobbers_until_dominator
clobbered_vars(sh, pr, classes, n) ==
  {PlannedVar(c): c \in {c \in classes: \E k \in c: k[2][1] \in UntilDominator(sh, n)}}

has_fn_call(sh, pr, n) ==
  \E m \in UntilDominator(sh, n): \E i \in DOMAIN pr[m]: is_call(pr[m][i])

create_dominated_node_state(sh, pr, pres, classes, planned, done, h, n) ==
  LET d    == immediate_dominator(sh, n)
      par  == done[d]
      st0  == [h |-> h, regs |-> par.regs, clobbered |-> par.clobbered, to_write |-> <<>>,
               local_var_writes |-> NoWrites, branch_condition |-> None]
      phis == clobbered_until_dominator(sh, pr, n)
      st1  == FoldLeft(LAMBDA st, r: inherit_register(sh, pr, pres, classes, planned, done, par,
                                                      n, st, r),
                       st0, SelectSeq(<<"a0", "s0", "v0">>, LAMBDA r: r \in phis))
      st2  == _prevent_later_uses(st1, VarIn(clobbered_vars(sh, pr, classes, n)))
      st3  == IF Len(parents(sh, n)) # 1 \/ Len(sh[d]) # 1 THEN _prevent_later_uses(st2, IsCall)
              ELSE st2
  IN IF has_fn_call(sh, pr, n) THEN _prevent_later_uses(st3, IsRead) ELSE st3

\* setup_initial_registers: saved registers hold a symbol, a0 the argument.
setup_initial_registers(classes) ==
  LET st0 == [h |-> [once |-> <<>>, emitted |-> {}, phis |-> <<>>, queue |-> <<>>],
              regs |-> [r \in Regs |-> Unset], clobbered |-> [r \in Regs |-> Unset],
              to_write |-> <<>>, local_var_writes |-> NoWrites, branch_condition |-> None]
  IN set_initial_reg(classes, set_initial_reg(classes, st0, "s0", Saved), "a0", Arg)

-----------------------------------------------------------------------------
(* assign_naive_phis.                                                      *)

\* final_register_states[r] of block n, which may force the value.
Final(t, n, r) == get([h |-> t.h, regs |-> t.done[n].regs, clobbered |-> t.done[n].clobbered], r)

BlockOf(source) == IF source = Prologue THEN 1 ELSE source[1]

\* The values of a phi's sources: the state after reading them, with the
\* distinct values found and, for each source, its block.
phi_inputs(t, phi) ==
  FoldLeft(LAMBDA acc, source:
             LET f == Final(acc, BlockOf(source), phi.reg)
                 u == transparent_unwrap(f.st.h, f.e)
             IN [acc EXCEPT !.h = f.st.h,
                            !.done[BlockOf(source)].regs = f.st.regs,
                            !.exprs = IF u \in ToSet(@) THEN @ ELSE Append(@, u),
                            !.blocks = Append(@, <<u, BlockOf(source)>>)],
           [h |-> t.h, done |-> t.done, planned |-> t.planned, exprs |-> <<>>, blocks |-> <<>>],
           phi.sources)

RECURSIVE use_times(_, _, _)
use_times(h, e, n) == IF n = 0 THEN h ELSE use_times(use(h, e), e, n - 1)

\* All inputs are one value: the phi is printed as that value.
replace_phi(t, p, inputs) ==
  LET phi == inputs.h.phis[p]
      one == Len(inputs.exprs) = 1
      e   == IF one THEN inputs.exprs[1] ELSE early_unwrap(inputs.h, inputs.exprs[1])
      src == IF ~one THEN {}
             ELSE IF phi.uses_dominator THEN {<<phi.reg, phi.node, "dominator">>}
             ELSE IF is_trivial_expression(e) THEN {<<phi.reg, phi.node, "parent">>} ELSE {}
  IN [h |-> use_times([inputs.h EXCEPT !.phis[p].replacement = e], e, phi.usages),
      done |-> inputs.done,
      planned |-> IF src = {} THEN t.planned
                  ELSE {x \in t.planned: x[1] # phi.reg \/ x[2] # phi.node} \cup src]

\* Otherwise every block a value comes from assigns the phi at its end.
assign_phi(t, p, inputs) ==
  LET reg   == inputs.h.phis[p].reg
      order == FlattenSeq([i \in DOMAIN inputs.exprs |->
                  SelectSeq(inputs.blocks, LAMBDA b: b[1] = inputs.exprs[i])])
      r == FoldLeft(LAMBDA acc, b:
                      LET f == Final(acc, b[2], reg)
                      IN [h |-> use(f.st.h, f.e),
                          done |-> [acc.done EXCEPT ![b[2]].to_write =
                                      Append(@, E("phi", p, <<f.e>>))]],
                    [h |-> inputs.h, done |-> inputs.done], order)
  IN [h |-> [r.h EXCEPT !.phis[p].named = TRUE], done |-> r.done, planned |-> t.planned]

SameInputs(inputs) ==
  \A i \in DOMAIN inputs.exprs:
    early_unwrap(inputs.h, inputs.exprs[i]) = early_unwrap(inputs.h, inputs.exprs[1])

RECURSIVE assign_from(_, _)
assign_from(t, i) ==
  IF i > Len(t.h.queue) THEN t
  ELSE LET p == t.h.queue[i]
           inputs == phi_inputs(t, t.h.phis[p])
       IN assign_from(IF SameInputs(inputs) THEN replace_phi(t, p, inputs)
                      ELSE assign_phi(t, p, inputs), i + 1)

\* No phi is promoted for the next pass.
JoinNothing(classes, h) == classes

\* PlannedVar.join over the sources of every phi that got a name.
JoinPlanned(classes, h) ==
  FoldLeft(LAMBDA cs, p:
             LET phi  == h.phis[p]
                 keys == {<<phi.reg, s>> : s \in ToSet(phi.sources)}
                 hit  == {c \in cs: c \cap keys # {}}
             IN IF phi.named THEN (cs \ hit) \cup {keys \cup UNION hit} ELSE cs,
           classes, h.queue)

-----------------------------------------------------------------------------
(* translate_to_ast.                                                       *)

Init ==
  /\ shape \in Shapes
  /\ prog \in Programs(shape)
  /\ preserve \in BOOLEAN
  /\ pass = 1
  /\ planned_vars = {} /\ planned_inherited_phis = {}
  /\ heap = [once |-> <<>>, emitted |-> {}, phis |-> <<>>, queue |-> <<>>]
  /\ translate_stack = <<1>>
  /\ translated = <<>>
  /\ return_value = None
  /\ phase = "translate"

EnterNode(n) ==
  IF n = 1 THEN setup_initial_registers(planned_vars)
  ELSE create_dominated_node_state(shape, prog, preserve, planned_vars, planned_inherited_phis,
                                   translated, heap, n)

BlockInfo(st) ==
  [regs |-> st.regs, clobbered |-> st.clobbered, to_write |-> st.to_write,
   branch_condition |-> st.branch_condition]

\* One iteration of translate_all_blocks.
TranslateBlock ==
  /\ phase = "translate" /\ translate_stack # <<>>
  /\ \E n \in {Last(translate_stack)}:
       \E st \in {translate_node_body(planned_vars, EnterNode(n), preserve, prog[n], n)}:
         /\ heap' = st.h
         /\ translated' = [m \in DOMAIN translated \cup {n} |->
                            IF m = n THEN BlockInfo(st) ELSE translated[m]]
         /\ translate_stack' = Front(translate_stack) \o Reverse(immediately_dominates(shape, n))
  /\ UNCHANGED <<shape, prog, preserve, pass, planned_vars, planned_inherited_phis,
                 return_value, phase>>

\* The value of the return register, if it is set, is used.
ReturnValue ==
  /\ phase = "translate" /\ translate_stack = <<>>
  /\ \E got \in {Final([h |-> heap, done |-> translated], Len(shape), "v0")}:
       /\ heap' = IF translated[Len(shape)].regs["v0"] = Unset THEN heap ELSE use(got.st.h, got.e)
       /\ return_value' = IF translated[Len(shape)].regs["v0"] = Unset THEN None ELSE got.e
  /\ phase' = "phis"
  /\ UNCHANGED <<shape, prog, preserve, pass, planned_vars, planned_inherited_phis,
                 translate_stack, translated>>

AssignNaivePhis ==
  /\ phase = "phis"
  /\ \E t \in {assign_from([h |-> heap, done |-> translated, planned |-> planned_inherited_phis], 1)}:
       /\ heap' = t.h
       /\ translated' = t.done
       /\ planned_inherited_phis' = t.planned
       /\ planned_vars' = JoinPlanned(planned_vars, t.h)
  /\ phase' = "done"
  /\ UNCHANGED <<shape, prog, preserve, pass, translate_stack, return_value>>

\* The next pass starts from scratch, except for PersistentFunctionState.
NextPass ==
  /\ phase = "done" /\ pass < Passes
  /\ pass' = pass + 1
  /\ heap' = [once |-> <<>>, emitted |-> {}, phis |-> <<>>, queue |-> <<>>]
  /\ translate_stack' = <<1>>
  /\ translated' = <<>>
  /\ return_value' = None
  /\ phase' = "translate"
  /\ UNCHANGED <<shape, prog, preserve, planned_vars, planned_inherited_phis>>

Next == TranslateBlock \/ ReturnValue \/ AssignNaivePhis \/ NextPass

Spec == Init /\ [][Next]_vars

-----------------------------------------------------------------------------
(* Running the assembly and the printed statements.  A machine m has the   *)
(* registers or variables, the memory cell, the number of calls made and   *)
(* the trace of what can be observed: stores, calls, branch conditions and *)
(* the value returned.  Values are terms.                                  *)

Undef == E("undef", 0, <<>>)

Emit(m, what, vs) == [m EXCEPT !.trace = Append(@, E(what, 0, vs))]

\* A call may change the memory cell.
CallEffect(m, vs) ==
  [Emit(m, "call", vs) EXCEPT !.calls = @ + 1, !.cell = E("cell", m.calls + 1, <<>>)]

\* The values an instruction reads.
AsmReads(m, i) ==
  IF i[1] = "call1" THEN {m.env["a0"]}
  ELSE IF i[1] = "reload" THEN {m.slot}
  ELSE {m.env[r]: r \in {i[3]} \cap Regs}

AsmStep(m, i) ==
  CASE i[1] = "li"    -> [m EXCEPT !.env[i[2]] = Literal]
    [] i[1] = "mov"   -> [m EXCEPT !.env[i[2]] = m.env[i[3]]]
    [] i[1] = "op"    -> [m EXCEPT !.env[i[2]] = E("op", 0, <<m.env[i[3]]>>)]
    [] i[1] = "load"  -> [m EXCEPT !.env[i[2]] = m.cell]
    [] i[1] = "store" -> [Emit(m, "store", <<m.env[i[3]]>>) EXCEPT !.cell = m.env[i[3]]]
    [] i[1] = "spill"  -> [m EXCEPT !.slot = m.env[i[3]]]
    [] i[1] = "reload" -> [m EXCEPT !.env[i[2]] = m.slot]
    [] i[1] = "br"    -> Emit(m, "branch", <<m.env[i[3]]>>)
    [] is_call(i)     ->
         [CallEffect(m, IF i[1] = "call1" THEN <<m.env["a0"]>> ELSE <<>>)
           EXCEPT !.env = [r \in Regs |-> IF r \notin TempRegs THEN m.env[r]
                                         ELSE IF r \in outputs(i) THEN E("result", m.calls + 1, <<>>)
                                         ELSE Undef]]

AsmRun(pr, path) ==
  FoldLeft(LAMBDA m, i: [AsmStep(m, i) EXCEPT !.wild = m.wild \/ Undef \in AsmReads(m, i)],
           [env |-> [a0 |-> Arg, s0 |-> Saved, v0 |-> Undef], cell |-> E("cell", 0, <<>>),
            slot |-> Undef, calls |-> 0, trace |-> <<>>, wild |-> FALSE],
           FlattenSeq([k \in DOMAIN path |-> pr[path[k]]]))

Lookup(m, v) == IF v \in DOMAIN m.env THEN m.env[v] ELSE Undef

\* A printed expression: variables are read, what is not in a variable is
\* evaluated here and now.
RECURSIVE CEval(_, _, _)
CEval(h, m, e) ==
  CASE e.k = "once" /\ uses_var(h, h.once[e.id]) -> [m |-> m, v |-> Lookup(m, h.once[e.id].var)]
    [] e.k = "once" /\ ~uses_var(h, h.once[e.id]) -> CEval(h, m, h.once[e.id].w)
    [] e.k = "planned" -> [m |-> m, v |-> IF e.a[1] \in h.emitted THEN Lookup(m, e.a[1]) ELSE Undef]
    [] e.k = "naive" ->
         IF h.phis[e.id].replacement # None THEN CEval(h, m, h.phis[e.id].replacement)
         ELSE [m |-> m, v |-> IF h.phis[e.id].named THEN Lookup(m, [keys |-> {}, id |-> -e.id])
                              ELSE Undef]
    [] e.k = "load" -> [m |-> m, v |-> m.cell]
    [] e.k = "local" -> [m |-> m, v |-> m.slot]
    [] e.k = "op" -> LET x == CEval(h, m, e.a[1]) IN [m |-> x.m, v |-> E("op", 0, <<x.v>>)]
    [] e.k = "call" ->
         LET x == IF e.a = <<>> THEN [m |-> m, v |-> None] ELSE CEval(h, m, e.a[1])
         IN [m |-> CallEffect(x.m, IF e.a = <<>> THEN <<>> ELSE <<x.v>>),
             v |-> E("result", x.m.calls + 1, <<>>)]
    [] e.k \in {"lit", "arg", "sym"} -> [m |-> m, v |-> e]
    [] OTHER -> [m |-> m, v |-> Undef]

Assign(m, var, x) == [x.m EXCEPT !.env = [v \in DOMAIN @ \cup {var} |-> IF v = var THEN x.v ELSE @[v]]]

\* EvalOnceStmt, StoreStmt and SetNaivePhiStmt: should_write and format.
CStep(h, m, s) ==
  CASE s.k = "once" ->
         LET o == h.once[s.id]
         IN IF o.exact /\ ~o.used THEN CEval(h, m, o.w).m
            ELSE IF o.var \notin h.emitted \/ var_for_expr(h, late_unwrap(h, o.w)) = <<o.var>> THEN m
            ELSE Assign(m, o.var, CEval(h, m, o.w))
    [] s.k = "store" ->
         LET x == CEval(h, m, s.a[1]) IN [Emit(x.m, "store", <<x.v>>) EXCEPT !.cell = x.v]
    [] s.k = "spill" ->
         LET x == CEval(h, m, s.a[1]) IN [x.m EXCEPT !.slot = x.v]
    [] s.k = "phi" ->
         IF late_unwrap(h, s.a[1]) = Naive(s.id) THEN m
         ELSE Assign(m, [keys |-> {}, id |-> -s.id], CEval(h, m, s.a[1]))
    [] s.k = "branch" ->
         LET x == CEval(h, m, s.a[1]) IN Emit(x.m, "branch", x.v.a)

\* What is printed for node n: its statements, then the condition.
Printed(done, n) ==
  done[n].to_write
    \o (IF done[n].branch_condition = None THEN <<>>
        ELSE <<E("branch", 0, <<done[n].branch_condition>>)>>)

\* The machine after the printed function has run along a path, and the value
\* it returns.
CRun(h, done, ret, path) ==
  CEval(h, FoldLeft(LAMBDA m, s: CStep(h, m, s),
                    [env |-> <<>>, cell |-> E("cell", 0, <<>>), slot |-> Undef, calls |-> 0, trace |-> <<>>],
                    FlattenSeq([k \in DOMAIN path |-> Printed(done, path[k])])),
        ret)

RECURSIVE PathsFrom(_, _, _)
PathsFrom(sh, n, left) ==
  IF n = Len(sh) THEN {<<n>>}
  ELSE IF left = 0 THEN {}
  ELSE {<<n>> \o p: p \in UNION {PathsFrom(sh, c, left - 1): c \in ToSet(sh[n])}}

Paths(sh) == PathsFrom(sh, 1, MaxPath)

\* Functions that read no register without a value, the only ones a compiler
\* produces.
Meaningful == \A p \in Paths(shape): ~AsmRun(prog, p).wild

-----------------------------------------------------------------------------
(* Properties.                                                             *)

Finished == phase = "done" /\ pass = Passes

\* No naive phi, whose assignments at the ends of blocks happen one by one
\* instead of in parallel, is left to be printed after the last pass: all have
\* become planned variables or the value they always have.  On the way neither
\* the assertions of assign_naive_phis nor the lookup of a planned ANY_PARENT
\* value fail: a phi that is used merges at least two values, at a node with at
\* least two parents, and a translated parent has the register.
PhisResolved ==
  /\ Finished => \A i \in DOMAIN heap.phis: ~heap.phis[i].named
  /\ \A i \in DOMAIN heap.queue:
       LET phi == heap.phis[heap.queue[i]]
       IN phi.usages > 0 /\ Len(phi.sources) >= 2 /\ Len(parents(shape, phi.node)) >= 2
  /\ phase = "translate" /\ translate_stack # <<>> =>
       \A r \in Regs: <<r, Last(translate_stack), "parent">> \in planned_inherited_phis =>
         \A p \in ToSet(parents(shape, Last(translate_stack))) \cap DOMAIN translated:
           translated[p].regs[r] # Unset

\* Along every path the printed function makes the same calls and stores with
\* the same values in the same order, and takes its branches on the same
\* values, as the assembly.
SameBehaviour ==
  Finished /\ Meaningful =>
    \A p \in Paths(shape):
      CRun(heap, translated, return_value, p).m.trace = AsmRun(prog, p).trace

\* The function leaves a value in the return register on every path.
Returns == \A p \in Paths(shape): AsmRun(prog, p).env["v0"] # Undef

\* Such a function is printed with a return value, the one the return register
\* ends with.
SameResult ==
  Finished /\ Meaningful /\ Returns =>
    \A p \in Paths(shape):
      CRun(heap, translated, return_value, p).v = AsmRun(prog, p).env["v0"]
=============================================================================
