------------------------------ MODULE Structure ------------------------------
(***************************************************************************)
(* build_body of m2c/if_statements.py: how a flow graph becomes if         *)
(* statements, do-while loops, switches and gotos.  The mutually recursive *)
(* functions of the code are recursive operators that pass the Context on. *)
(* A second phase runs the graph and the C code in lock step.              *)
(*                                                                         *)
(* A node of the graph is a block 0 .. n-1, a copy n + b of the final      *)
(* return that duplicate_premature_returns made for block b, or Terminal.  *)
(* Switches and comparisons are all about one variable, whose value is     *)
(* fixed before the run; other conditions may go either way at any time.   *)
(***************************************************************************)
EXTENDS Integers, Sequences, FiniteSets, FiniteSetsExt, SequencesExt

CONSTANTS
  Families,   \* the functions to enumerate: see Init
  MinValue,   \* Bounds().lower
  MaxValue,   \* Bounds().upper
  AnyTree,    \* FALSE: comparison trees are what compilers make of a switch
  Gotos       \* TRUE: one jump may be marked with --goto

ASSUME BoundsAssumption == MinValue \in Int /\ MaxValue \in Int /\ MinValue <= MaxValue
ASSUME FlagsAssumption == AnyTree \in BOOLEAN /\ Gotos \in BOOLEAN

VARIABLES
  fg,      \* n, the nodes and their relations
  options, \* ifs, andor, switches, ido, void
  pc,      \* "build", "run", "returned" or "diverged"
  context, \* Context: emitted_nodes, goto_nodes, case_nodes; ok, skipped
  code,    \* the printed body, flattened: labels, jumps, tests, statements
  value,   \* value of the compared variable, chosen when the run starts
  node, at \* where the graph and the C code are

vars == <<fg, options, pc, context, code, value, node, at>>

-----------------------------------------------------------------------------
(* The flow graph.                                                         *)

Terminal == -1
None     == -2

Entry == 0

\* A node: kind, edges, whether block_info has statements to write, the
\* comparison of its condition (op "" is any other condition), emit_goto.
Node(kind, to, stm, op, val) ==
  [kind |-> kind, to |-> to, stm |-> stm, op |-> op, val |-> val, emit_goto |-> FALSE]

Is(n, kind)         == fg.node[n].kind = kind
statements(n)       == fg.node[n].stm
successor(n)        == fg.node[n].to[1]
conditional_edge(n) == fg.node[n].to[1]
fallthrough_edge(n) == fg.node[n].to[2]
NextInList(n)       == fg.nodes[1 + CHOOSE i \in DOMAIN fg.nodes : fg.nodes[i] = n]
index(n)            == IF n < fg.n THEN n ELSE fg.n - 1
is_real(n)          == n < fg.n

\* switch_guard_expr: the bounds check of a jump table, and nothing between.
switch_guard_expr(n) ==
  /\ Is(n, "Conditional")
  /\ fg.node[n].op = "guard"
  /\ LET s == fallthrough_edge(n)
     IN /\ Is(s, "Switch")
        /\ fg.parents[s] = {n}
        /\ ~statements(s)
        /\ fg.node[n].val = Len(fg.node[s].to)

RECURSIVE EmptyGoto(_, _, _)
EmptyGoto(n, end, seen) ==
  \/ n = end
  \/ /\ ~statements(n)
     /\ \/ Is(n, "Return") /\ end = Terminal /\ options.void
        \/ /\ Is(n, "Basic")
           /\ successor(n) \notin seen
           /\ EmptyGoto(successor(n), end, seen \cup {successor(n)})

is_empty_goto(n, end) == end # None /\ EmptyGoto(n, end, {n})

-----------------------------------------------------------------------------
(* Conditions and statements.  An optional else body is a sequence of at    *)
(* most one body.                                                          *)

Test(n, comma)  == [k |-> "test", n |-> n, neg |-> FALSE, comma |-> comma]
Join(l, k, r)   == [k |-> k, l |-> l, r |-> r]
Equals          == {"==", "!="}
IsComma(c)      == c.k = "test" /\ c.comma

RECURSIVE negated(_)
negated(c) ==
  IF c.k = "test" THEN [c EXCEPT !.neg = ~@]
  ELSE Join(negated(c.l), IF c.k = "&&" THEN "||" ELSE "&&", negated(c.r))

Stmt(s, n)          == [s |-> s, n |-> n]
If(cond, then, els) == [s |-> "if", cond |-> cond, then |-> then, els |-> els]
Do(body, cond)      == [s |-> "do", body |-> body, cond |-> cond]
Switch(n, body)     == [s |-> "switch", n |-> n, body |-> body]

should_write(cx, st) ==
  st.s = "label" => st.n \in cx.goto_nodes \/ cx.case_nodes[st.n] # <<>>

\* Mutant: labels are never looked at.
EndsInJumpAndLabels(cx, body) ==
  LET written == SelectSeq(body, LAMBDA st : st.s # "label")
  IN written # <<>> /\ Last(written).s \in {"goto", "return", "break"}

ends_in_jump(cx, body) ==
  LET written == SelectSeq(body, LAMBDA st : should_write(cx, st))
  IN written # <<>> /\ Last(written).s \in {"goto", "return", "break"}

\* rewrite_if_ands: outer is what is left to look at of condition, inner the
\* conditions passed since the last comma expression.
RECURSIVE RewriteAnds(_, _, _, _)
RewriteAnds(condition, outer, inner, body) ==
  IF outer.k # "&&" THEN If(condition, body, <<>>)
  ELSE IF ~IsComma(outer.r)
  THEN RewriteAnds(condition, outer.l, <<outer.r>> \o inner, body)
  ELSE LET joined == FoldLeft(LAMBDA l, r : Join(l, "&&", r),
                              [outer.r EXCEPT !.comma = FALSE], inner)
           nested == RewriteAnds(joined, joined, <<>>, body)
       IN RewriteAnds(outer.l, outer.l, <<>>, <<Stmt("stmts", outer.r.n), nested>>)

add_if_else(cx, body, st) ==
  IF st.els = <<>> \/ ends_in_jump(cx, st.then)
  THEN Append(body, RewriteAnds(st.cond, st.cond, <<>>, st.then)) \o FlattenSeq(st.els)
  ELSE Append(body, st)

-----------------------------------------------------------------------------
(* Emitting nodes.  Results are pairs of a context and a body; ok is FALSE *)
(* once an assertion has failed.                                           *)

Result(cx, body) == [cx |-> cx, body |-> body]
Asserted(cx, p)    == [cx EXCEPT !.ok = @ /\ p]

emit_goto(cx, n, body) ==
  Result([Asserted(cx, n # Terminal) EXCEPT !.goto_nodes = @ \cup {n}],
         Append(body, Stmt("goto", n)))

add_node(n, body) == body \o (IF statements(n) THEN <<Stmt("stmts", n)>> ELSE <<>>)

\* A node that was emitted before becomes a goto, unless it returns.
AlreadyEmitted(cx, n) == n \in cx.emitted_nodes /\ ~Is(n, "Return")

emit_node(cx, n, body) ==
  IF AlreadyEmitted(cx, n) THEN emit_goto(cx, n, body)
  ELSE LET first == IF n \in cx.emitted_nodes THEN Stmt("comment", n) ELSE Stmt("label", n)
           full  == add_node(n, Append(body, first))
       IN Result([cx EXCEPT !.emitted_nodes = @ \cup {n}],
                 IF Is(n, "Return") THEN Append(full, Stmt("return", n)) ELSE full)

-----------------------------------------------------------------------------
(* Switches.                                                               *)

AddCase(cx, target, label) ==
  [cx EXCEPT !.case_nodes[target] = Append(@, label)]

\* cases is a sequence of values and targets.
add_labels_for_switch(cx, n, cases, default_node) ==
  LET label(c)   == <<"case", n, c[1]>>
      skipped(c) == \/ is_empty_goto(c[2], default_node)
                    \/ is_empty_goto(c[2], fg.impdom[n])
      wanted == SelectSeq(cases, LAMBDA c : ~skipped(c))
      extra  == SelectSeq(cases, LAMBDA c : skipped(c))
      add(cs, to) == FoldLeft(LAMBDA acc, c : AddCase(acc, c[2], label(c)), to, cs)
      cx1 == add(wanted, Asserted(cx, cases # <<>>))
      cx2 == IF default_node = None THEN cx1
             ELSE AddCase(cx1, default_node, <<"default", n, 0>>)
      emitted_label_count == Len(wanted) + (IF default_node = None THEN 0 ELSE 1)
  IN IF emitted_label_count < 5 THEN add(extra, cx2) ELSE cx2

\* The members of S in the order of before.
Sorted(S, before(_, _)) ==
  [i \in 1 .. Cardinality(S) |->
     CHOOSE m \in S : Cardinality({k \in S : before(k, m)}) = i - 1]

RECURSIVE build_flowgraph_between(_, _, _, _, _)
RECURSIVE EmitCases(_, _, _, _)

\* The loop of build_switch_statement over the case nodes.
EmitCases(cx, sorted, body, end) ==
  IF sorted = <<>> THEN Result(cx, body)
  ELSE
  LET case == Head(sorted)
      next == IF Len(sorted) > 1 THEN sorted[2] ELSE None
      falls == /\ next \notin cx.emitted_nodes \cup {None, end}
               /\ next \in fg.pdom[case]
      r     == build_flowgraph_between(cx, case, IF falls THEN next ELSE end, FALSE, <<>>)
      all   == body \o r.body
      tail  == IF ends_in_jump(r.cx, all) THEN <<>>
               ELSE <<Stmt(IF falls THEN "comment" ELSE "break", case)>>
  IN IF case \in cx.emitted_nodes \cup {end} THEN EmitCases(cx, Tail(sorted), body, end)
     ELSE EmitCases(r.cx, Tail(sorted), all \o tail, end)

\* Labels of this switch that stand for its end are printed in front.
build_switch_statement(cx, case_nodes, n, end) ==
  LET mine   == SelectSeq(cx.case_nodes[end], LAMBDA l : l[2] = n)
      others == SelectSeq(cx.case_nodes[end], LAMBDA l : l[2] # n)
      front  == [i \in DOMAIN mine |-> Stmt("case", mine[i])]
                  \o (IF mine = <<>> THEN <<>> ELSE <<Stmt("break", n)>>)
      first(m) == CHOOSE i \in DOMAIN case_nodes :
                    case_nodes[i] = m /\ \A j \in 1 .. i - 1 : case_nodes[j] # m
      before(l, m) == \/ index(l) < index(m)
                      \/ index(l) = index(m) /\ first(l) < first(m)
      r == EmitCases([cx EXCEPT !.case_nodes[end] = others],
                     Sorted(ToSet(case_nodes), before), front, end)
  IN Result(r.cx, Switch(n, r.body))

build_switch_between(cx, switch, default, end) ==
  LET def    == IF default = end THEN None ELSE default
      to     == fg.node[switch].to
      cases  == [i \in DOMAIN to |-> <<i - 1, to[i]>>]
      cx1    == add_labels_for_switch(cx, switch, cases, def)
  IN build_switch_statement(cx1, to \o (IF def = None THEN <<>> ELSE <<def>>), switch, end)

-----------------------------------------------------------------------------
(* try_build_irregular_switch.                                             *)

AllValues == [lower |-> MinValue, upper |-> MaxValue, holes |-> {}]
NoValues  == [lower |-> 0, upper |-> 0, holes |-> {0}]

without(b, v) == [b EXCEPT !.holes = @ \cup {v}]
at_most(b, v) == IF v > b.upper THEN b ELSE IF v < b.lower THEN NoValues ELSE [b EXCEPT !.upper = v]
at_least(b, v) == IF v < b.lower THEN b ELSE IF v > b.upper THEN NoValues ELSE [b EXCEPT !.lower = v]
values(b) == (b.lower .. b.upper) \ b.holes

\* The search: node_queue (a stack), visited_nodes, nodes_to_mark_emitted,
\* cases, default_node, irregular_comparison_count; fail is `return None`.
Mark(s, n)       == [s EXCEPT !.mark = @ \cup {n}]
Push(s, n, b)    == [s EXCEPT !.queue = Append(@, <<n, b>>)]
AddValue(s, v, n) ==
  IF \E i \in DOMAIN s.cases : s.cases[i][1] = v THEN [s EXCEPT !.fail = TRUE]
  ELSE [s EXCEPT !.cases = Append(@, <<v, n>>)]
Count(s)         == [s EXCEPT !.count = @ + 1]

InInterval(n, start, end) == start \in fg.dom[n] /\ end \in fg.pdom[n]

\* A comparison of the variable with val.
Comparison(s, n, b) ==
  LET op == fg.node[n].op
      v  == fg.node[n].val
      ce == conditional_edge(n)
      fe == fallthrough_edge(n)
      both(low, high) == Push(Push(s, fe, low), ce, high)
      new == CASE op = "==" -> Push(AddValue(s, v, ce), fe, without(b, v))
               [] op = "!=" /\ (index(n) > index(ce) \/ ~options.ido) ->
                    Push(AddValue(s, v, fe), ce, without(b, v))
               [] op = "<"  -> both(at_least(b, v), at_most(b, v - 1))
               [] op \in {">=", "guard"} -> both(at_most(b, v - 1), at_least(b, v))
               [] op = "<=" -> both(at_least(b, v + 1), at_most(b, v))
               [] op = ">"  -> both(at_most(b, v), at_least(b, v + 1))
               [] OTHER -> [s EXCEPT !.fail = TRUE]
  IN Mark(Count(new), n)

\* Not part of the tree: a case if one value is left, else the default.
NotInTree(s, n, b, start, end) ==
  IF Cardinality(values(b)) = 1 /\ ~options.ido
  THEN Mark(AddValue(s, CHOOSE v \in values(b) : TRUE, n), n)
  ELSE IF s.default # None THEN [s EXCEPT !.fail = TRUE]
  ELSE IF Is(n, "Return") \/ InInterval(n, start, end) THEN [s EXCEPT !.default = n]
  ELSE s

VisitTreeNode(s, n, b, start, end) ==
  CASE n # start /\ statements(n) -> NotInTree(s, n, b, start, end)
    [] is_empty_goto(n, end) ->
         IF Is(n, "Basic") THEN Push(Mark(s, n), successor(n), b) ELSE Mark(s, n)
    [] ~InInterval(n, start, end) -> NotInTree(s, n, b, start, end)
    [] Is(n, "Basic") -> Push(Mark(s, n), successor(n), b)
    [] switch_guard_expr(n) ->
         Mark(Push(Push(s, fallthrough_edge(n), b), conditional_edge(n), b), n)
    [] Is(n, "Conditional") /\ fg.node[n].op # "" -> Comparison(s, n, b)
    [] Is(n, "Switch") ->
         LET to == fg.node[n].to
             all == FoldLeft(LAMBDA acc, i : AddValue(acc, i - 1, to[i]), s,
                             [i \in DOMAIN to |-> i])
         IN Mark(Count(all), n)
    [] OTHER -> NotInTree(s, n, b, start, end)

RECURSIVE SearchTree(_, _, _)
SearchTree(s, start, end) ==
  IF s.queue = <<>> \/ s.fail THEN s
  ELSE LET n == Last(s.queue)[1]
           b == Last(s.queue)[2]
           popped == [s EXCEPT !.queue = Front(@)]
       IN SearchTree(IF n \in s.visited \cup {end, s.default} THEN popped
                     ELSE VisitTreeNode([popped EXCEPT !.visited = @ \cup {n}],
                                        n, b, start, end),
                     start, end)

IrregularSwitch(start, end) ==
  SearchTree([queue |-> <<<<start, AllValues>>>>, visited |-> {}, mark |-> {},
              cases |-> <<>>, default |-> None, count |-> 0, fail |-> FALSE], start, end)

\* Whether try_build_irregular_switch finds enough to make a switch of.
EnoughCases(s) ==
  /\ ~s.fail
  /\ s.count >= 2
  /\ Cardinality(s.mark) >= 3
  /\ Cardinality({s.cases[i][2] : i \in DOMAIN s.cases}) >= 2

is_irregular_switch(start, end) ==
  /\ options.switches
  /\ Is(start, "Conditional")
  /\ fg.node[start].op # ""
  /\ EnoughCases(IrregularSwitch(start, end))

MarkEmitted(r, nodes) == Result([r.cx EXCEPT !.emitted_nodes = @ \cup nodes], r.body)

BuildTree(cx, s, start, end) ==
  LET targets == [i \in DOMAIN s.cases |-> s.cases[i][2]]
                   \o (IF s.default = None THEN <<>> ELSE <<s.default>>)
      labelled == add_labels_for_switch(cx, start, s.cases, s.default)
  IN MarkEmitted(build_switch_statement(labelled, targets, start, end), s.mark)

build_irregular_switch(cx, start, end) ==
  BuildTree(cx, IrregularSwitch(start, end), start, end)

-----------------------------------------------------------------------------
(* If statements with && and ||.                                           *)

\* node_cond_edges: a node of the chain, its condition, where it leads to.
CondEdges(n, c, yes, no) == [n |-> n, c |-> c, yes |-> yes, no |-> no]

\* The combined entry of parent p and child c, <<>> if they cannot be joined.
Joined(p, c) ==
  CASE p.yes = c.yes /\ p.no = c.n ->
         <<CondEdges(p.n, Join(p.c, "||", c.c), p.yes, c.no)>>
    [] p.yes = c.no /\ p.no = c.n ->
         <<CondEdges(p.n, Join(p.c, "||", negated(c.c)), p.yes, c.yes)>>
    [] p.yes = c.n /\ p.no = c.yes ->
         <<CondEdges(p.n, Join(p.c, "&&", negated(c.c)), c.no, p.no)>>
    [] p.yes = c.n /\ p.no = c.no ->
         <<CondEdges(p.n, Join(p.c, "&&", c.c), c.yes, p.no)>>
    [] OTHER -> <<>>

JoinPair(es, pair) ==
  RemoveAt([es EXCEPT ![pair[2]] = Joined(es[pair[2]], es[pair[1]])[1]], pair[1])

\* Joins the first child that has a single parent, until there is none.
RECURSIVE Collapse(_, _)
Collapse(es, exits) ==
  LET edges(i) == {<<j, k>> \in (DOMAIN es) \X {"yes", "no"} :
                     es[j][k] = es[i].n /\ es[i].n \notin exits}
      pairs == {<<i, p>> \in (DOMAIN es) \X (DOMAIN es) :
                  /\ {e[1] : e \in edges(i)} = {p}
                  /\ Cardinality(edges(i)) = 1
                  /\ Joined(es[p], es[i]) # <<>>}
  IN IF pairs = {} THEN es
     ELSE Collapse(JoinPair(es, CHOOSE x \in pairs : \A y \in pairs : x[1] <= y[1]), exits)

\* The if statement for the one condition that is left; els is None without an
\* else block.
IfCondition(e, if_node, else_node, end) ==
  LET cond == IF e.yes = else_node THEN negated(e.c) ELSE e.c
      result(c, then, els) ==
        [cond |-> c, then |-> then, els |-> els,
         ok |-> <<e.yes, e.no>> \in {<<else_node, if_node>>, <<if_node, else_node>>}]
  IN IF else_node = end THEN result(cond, if_node, None)
     ELSE IF if_node = end THEN result(negated(cond), else_node, None)
     ELSE result(cond, if_node, else_node)

OnlyCondition(es, start, if_node, else_node, end) ==
  IF Len(es) # 1 \/ es[1].n # start THEN <<>>
  ELSE <<IfCondition(es[1], if_node, else_node, end)>>

try_make_if_condition(chain, end) ==
  LET if_node   == fallthrough_edge(Last(chain))
      else_node == conditional_edge(Last(chain))
      allowed(i) == (ToSet(chain) \cup {if_node, else_node}) \ {chain[j] : j \in 1 .. i - 1}
      valid == \A i \in DOMAIN chain : ToSet(fg.node[chain[i]].to) \subseteq allowed(i)
      entry(i) == CondEdges(chain[i], Test(chain[i], i > 1 /\ statements(chain[i])),
                            conditional_edge(chain[i]), fallthrough_edge(chain[i]))
  IN IF ~valid THEN <<>>
     ELSE OnlyCondition(Collapse([i \in DOMAIN chain |-> entry(i)], {if_node, else_node}),
                        chain[1], if_node, else_node, end)

\* n may be the next condition of one if statement.
CanFollow(chain, n, end) ==
  /\ options.andor
  /\ Is(n, "Conditional")
  /\ end \in fg.pdom[n] \ {n}
  /\ fg.loop[n] = {}
  /\ fg.parents[n] \subseteq ToSet(chain)
  /\ ~switch_guard_expr(n)

\* chained_cond_nodes: the longest fallthrough chain of conditions.
RECURSIVE Chain(_, _)
Chain(chain, end) ==
  LET n == fallthrough_edge(Last(chain))
  IN IF CanFollow(chain, n, end) THEN Chain(Append(chain, n), end) ELSE chain

IfElse(t, else_body, f) ==
  Result(t.cx, If(f.cond, t.body, IF f.els = None THEN <<>> ELSE <<else_body>>))

AfterElse(e, f, end) ==
  IfElse(build_flowgraph_between(e.cx, f.then, end, FALSE, <<>>), e.body, f)

\* The bodies of the if statement f, the else first.
BuildBranches(cx, f, end) ==
  AfterElse(IF f.els = None THEN Result(cx, <<>>)
            ELSE build_flowgraph_between(cx, f.els, end, FALSE, <<>>), f, end)

\* The longest part of the chain that is one condition.
RECURSIVE LongestCondition(_, _, _, _)
LongestCondition(cx, chain, found, end) ==
  IF found = <<>>
  THEN LongestCondition(cx, Front(chain), try_make_if_condition(Front(chain), end), end)
  ELSE BuildBranches([Asserted(cx, found[1].ok) EXCEPT !.emitted_nodes = @ \cup ToSet(Tail(chain))],
                     found[1], end)

TryChain(cx, chain, end) ==
  LongestCondition(cx, chain, try_make_if_condition(chain, end), end)

build_conditional_subgraph(cx, start, end) == TryChain(cx, Chain(<<start>>, end), end)

-----------------------------------------------------------------------------
(* build_flowgraph_between: body is what has been built so far.            *)

\* The first postdominator of n outside its loop.
RECURSIVE AfterLoop(_, _)
AfterLoop(n, loop) == IF n \in loop THEN AfterLoop(fg.impdom[n], loop) ELSE n

\* detect_loop: the node whose condition ends a do-while loop at start.
Latches(start) ==
  {m \in fg.back[start] : /\ m \in fg.pdom[start]
                          /\ Is(m, "Conditional")
                          /\ fallthrough_edge(m) = AfterLoop(start, fg.loop[start])}

IsDoWhile(cx, n) ==
  fg.loop[n] # {} /\ n \notin cx.emitted_nodes /\ Latches(n) # {}

\* Mutant: fake edges are not expected.
NoFakeEnd(n, end) == FALSE

\* The node after n is only its fake_successor.
FakeEnd(n, end) == Is(n, "Basic") /\ n \in fg.fake /\ end = Terminal

AddIfElse(r, body, to) ==
  [cx |-> r.cx, body |-> add_if_else(r.cx, body, r.body), to |-> to]

\* The statement for the branch of n, and the node to go on with.
BuildInterval(cx, n, body) ==
  LET end == fg.impdom[n]
      s   == fallthrough_edge(n)
      after == IF end = s THEN fg.impdom[s] ELSE end
      with(r, to) == [cx |-> r.cx, body |-> Append(body, r.body), to |-> to]
  IN CASE is_irregular_switch(n, end) -> with(build_irregular_switch(cx, n, end), end)
       [] switch_guard_expr(n) ->
            with(build_switch_between([cx EXCEPT !.emitted_nodes = @ \cup {s}],
                                      s, conditional_edge(n), after), after)
       [] Is(n, "Switch") -> with(build_switch_between(cx, n, None, end), end)
       [] Is(n, "Conditional") ->
            AddIfElse(build_conditional_subgraph(cx, n, end), body, end)
       [] FakeEnd(n, end) -> [cx |-> cx, body |-> body, to |-> successor(n)]
       [] OTHER -> [cx |-> Asserted(cx, fg.children[n] = {end}), body |-> body, to |-> end]

\* r is n emitted; a marked jump goes on with the next node of the list.
AfterNode(r, n) ==
  LET falls == Is(n, "Conditional") => NextInList(n) = fallthrough_edge(n)
  IN IF fg.node[n].emit_goto
     THEN emit_goto(Asserted(r.cx, falls), n, r.body) @@ [to |-> NextInList(n)]
     ELSE BuildInterval(r.cx, n, r.body)

GoOn(i, end, skip_loop_detection) ==
  build_flowgraph_between(i.cx, i.to, end, skip_loop_detection, i.body)

\* r is the body of the loop at n, its condition at latch to be emitted.
CloseLoop(r, latch) == emit_node(r.cx, latch, r.body)

AddLoop(r, n, latch, end, body) ==
  build_flowgraph_between(r.cx, AfterLoop(n, fg.loop[n]), end, FALSE,
                          Append(body, Do(r.body, Test(latch, FALSE))))

BuildLoop(cx, n, latch, end, body) ==
  AddLoop(CloseLoop(build_flowgraph_between(cx, n, latch, TRUE, <<>>), latch),
          n, latch, end, body)

build_flowgraph_between(cx, n, end, skip_loop_detection, body) ==
  IF n = end \/ ~cx.ok THEN Result(cx, body)
  ELSE IF n = Terminal THEN Result(Asserted(cx, FALSE), body)
  ELSE IF ~skip_loop_detection /\ IsDoWhile(cx, n)
  THEN BuildLoop(cx, n, CHOOSE m \in Latches(n) : TRUE, end, body)
  ELSE IF n \in cx.emitted_nodes /\ is_empty_goto(n, end) THEN Result(cx, body)
  ELSE IF AlreadyEmitted(cx, n) THEN emit_node(cx, n, body)
  ELSE GoOn(AfterNode(emit_node(cx, n, body), n), end, skip_loop_detection)

-----------------------------------------------------------------------------
(* build_naive: every node in order, and gotos.                            *)

emit_goto_or_early_return(cx, n, body) ==
  IF Is(n, "Return") /\ ~is_real(n) THEN emit_node(cx, n, body) ELSE emit_goto(cx, n, body)

emit_successor(cx, n, i, body) ==
  IF fg.nodes[i + 1] = n /\ (Is(n, "Return") => is_real(n)) THEN Result(cx, body)
  ELSE emit_goto_or_early_return(cx, n, body)

NaiveNode(r, i) ==
  LET n  == fg.nodes[i]
      to == fg.node[n].to
      e  == emit_node(r.cx, n, r.body)
      jump == emit_goto_or_early_return(e.cx, to[1], <<>>)
      cx1  == add_labels_for_switch(r.cx, n, [k \in DOMAIN to |-> <<k - 1, to[k]>>], None)
      s    == emit_node(cx1, n, r.body)
  IN CASE Is(n, "Return") -> IF is_real(n) THEN e ELSE r
       [] Is(n, "Basic")  -> emit_successor(e.cx, to[1], i, e.body)
       [] Is(n, "Switch") -> Result(s.cx, Append(s.body, Switch(n, <<>>)))
       [] Is(n, "Conditional") ->
            emit_successor(jump.cx, to[2], i,
              add_if_else(jump.cx, e.body, If(Test(n, FALSE), jump.body, <<>>)))
       [] OTHER -> r

build_naive(cx) == FoldLeft(NaiveNode, Result(cx, <<>>), [i \in DOMAIN fg.nodes |-> i])

-----------------------------------------------------------------------------
(* build_body.                                                             *)

RECURSIVE elide_empty_returns(_, _)
elide_empty_returns(cx, body) ==
  IF body = <<>> THEN body
  ELSE LET st    == Last(body)
           front == Front(body)
       IN CASE st.s = "return" /\ options.void -> elide_empty_returns(cx, front)
            [] ~should_write(cx, st) -> Append(elide_empty_returns(cx, front), st)
            [] st.s = "if" ->
                 Append(front, [st EXCEPT
                   !.then = elide_empty_returns(cx, @),
                   !.els  = [i \in DOMAIN @ |-> elide_empty_returns(cx, @[i])]])
            [] OTHER -> body

\* "bug: did not emit code for node": what is missing goes to the end.
Skipped(cx) ==
  SelectSeq(fg.nodes, LAMBDA n : /\ n \notin cx.emitted_nodes \cup {Terminal}
                                 /\ Is(n, "Return") => is_real(n))

AddSkipped(r) ==
  LET emit(acc, n) == emit_node(acc.cx, n, Append(acc.body, Stmt("comment", n)))
  IN FoldLeft(emit, Result([r.cx EXCEPT !.skipped = ToSet(Skipped(r.cx))], r.body),
              Skipped(r.cx))

NewContext ==
  [emitted_nodes |-> {}, goto_nodes |-> {}, ok |-> TRUE, skipped |-> {},
   case_nodes |-> [n \in DOMAIN fg.node |-> <<>>]]

Elided(r) == Result(r.cx, elide_empty_returns(r.cx, r.body))

build_body ==
  AddSkipped(IF options.ifs /\ fg.is_reducible
             THEN Elided(build_flowgraph_between(NewContext, Entry, Terminal, FALSE, <<>>))
             ELSE build_naive(NewContext))

-----------------------------------------------------------------------------
(* The meaning of the branches, and the comparison trees considered.       *)

Holds(n, v) ==
  LET val == fg.node[n].val
  IN CASE fg.node[n].op = "==" -> v = val
       [] fg.node[n].op = "!=" -> v # val
       [] fg.node[n].op = "<"  -> v < val
       [] fg.node[n].op = "<=" -> v <= val
       [] fg.node[n].op = ">"  -> v > val
       [] fg.node[n].op = ">=" -> v >= val
       [] fg.node[n].op = "guard" -> v \notin 0 .. val - 1

\* Which edge is taken; outside its table a switch may do anything.
Outcomes(n, v) ==
  CASE Is(n, "Conditional") ->
         IF fg.node[n].op = "" THEN {1, 2} ELSE {IF Holds(n, v) THEN 1 ELSE 2}
    [] Is(n, "Switch") -> {v + 1} \cap DOMAIN fg.node[n].to
    [] OTHER -> {1}

\* What next (a function) leads to from the set start.
Closure(start, next) ==
  LET within[k \in 0 .. Cardinality(DOMAIN next)] ==
        IF k = 0 THEN start
        ELSE LET S == within[k - 1] IN S \cup UNION {next[n] : n \in S}
  IN within[Cardinality(DOMAIN next)]

\* What a value meets in the comparison tree at s, up to where it leaves.
TreeNode(n) ==
  ~statements(n) /\ (fg.node[n].kind \in {"Basic", "Switch"} \/ fg.node[n].op # "")

Route(s, v) ==
  LET next == [n \in DOMAIN fg.node |->
                 IF n = fg.impdom[s] \/ (n # s /\ ~TreeNode(n)) THEN {}
                 ELSE {fg.node[n].to[o] : o \in Outcomes(n, v)}]
  IN Closure(next[s], next)

\* Where try_build_irregular_switch sees a switch, the tree is one a compiler
\* makes of a switch: every test for a value is reached with that value, nothing
\* but returns is shared with code outside, and the values that are not tested
\* for leave by one way if any of them goes straight to the end, or if one of
\* them is found to be the only one left.
SwitchTree(s, end, tree, ways) ==
  LET tests == {n \in tree.mark : fg.node[n].op \in Equals}
      named == {fg.node[n].val : n \in tests}
                 \cup UNION {0 .. Len(fg.node[n].to) - 1 : n \in {m \in tree.mark : Is(m, "Switch")}}
      alone == {tree.cases[i][1] : i \in DOMAIN tree.cases} \ named
      exits == {[v |-> w.v, to |-> {n \in w.nodes : n = end \/ ~TreeNode(n)}] :
                  w \in {x \in ways : x.v \notin named}}
      ends  == {e \in exits : \E n \in e.to : is_empty_goto(n, end)}
  IN /\ \A w \in ways : \A n \in w.nodes :
          n = end \/ Is(n, "Return") \/ (s \in fg.dom[n] /\ n # s)
     /\ \A n \in tests : n = s \/ \E w \in ways : w.v = fg.node[n].val /\ n \in w.nodes
     /\ ends \in {{}, exits}
     /\ \A e \in exits, f \in exits : e.v \in alone /\ f # e => f.to # e.to

FromSwitch ==
  \A s \in {n \in DOMAIN fg.node : n # Terminal /\ is_irregular_switch(n, fg.impdom[n])} :
    SwitchTree(s, fg.impdom[s], IrregularSwitch(s, fg.impdom[s]),
               {[v |-> v, nodes |-> Route(s, v)] : v \in MinValue .. MaxValue})

-----------------------------------------------------------------------------
(* The printed C, flattened.  A label statement prints the case labels and *)
(* the goto label of its node, if it has any.                              *)

Label(l) == <<[op |-> "label", l |-> l]>>
Jump(l)  == <<[op |-> "jump", l |-> l]>>

GotoLabel(n) == <<"node", index(n)>>

RECURSIVE CondCode(_, _, _, _)
CondCode(c, yes, no, path) ==
  LET mid == <<"and", path>>
  IN CASE c.k = "test" ->
            (IF c.comma THEN <<[op |-> "stmts", n |-> c.n]>> ELSE <<>>)
              \o <<[op |-> "test", n |-> c.n, yes |-> IF c.neg THEN no ELSE yes,
                                              no  |-> IF c.neg THEN yes ELSE no]>>
       [] c.k = "&&" -> CondCode(c.l, mid, no, Append(path, 1)) \o Label(mid)
                          \o CondCode(c.r, yes, no, Append(path, 2))
       [] c.k = "||" -> CondCode(c.l, yes, mid, Append(path, 1)) \o Label(mid)
                          \o CondCode(c.r, yes, no, Append(path, 2))

RECURSIVE Code(_, _, _, _)
RECURSIVE StatementCode(_, _, _, _)
Code(cx, body, path, break) ==
  FlattenSeq([i \in DOMAIN body |-> StatementCode(cx, body[i], Append(path, i), break)])

StatementCode(cx, st, path, break) ==
  LET begin == <<"begin", path>>
      else  == <<"else", path>>
      end   == <<"end", path>>
  IN CASE st.s = "stmts"  -> <<[op |-> "stmts", n |-> st.n]>>
       [] st.s = "goto"   -> Jump(GotoLabel(st.n))
       [] st.s = "break"  -> Jump(break)
       [] st.s = "return" -> <<[op |-> "return", n |-> st.n]>>
       [] st.s = "case"   -> Label(st.n)
       [] st.s = "label"  ->
            FlattenSeq([i \in DOMAIN cx.case_nodes[st.n] |-> Label(cx.case_nodes[st.n][i])])
              \o (IF st.n \in cx.goto_nodes THEN Label(GotoLabel(st.n)) ELSE <<>>)
       [] st.s = "if" ->
            CondCode(st.cond, begin, else, path) \o Label(begin)
              \o Code(cx, st.then, Append(path, 1), break) \o Jump(end) \o Label(else)
              \o Code(cx, FlattenSeq(st.els), Append(path, 2), break) \o Label(end)
       [] st.s = "do" ->
            Label(begin) \o Code(cx, st.body, path, end)
              \o CondCode(st.cond, begin, end, path) \o Label(end)
       [] st.s = "switch" ->
            <<[op |-> "switch", n |-> st.n, l |-> end]>>
              \o Code(cx, st.body, path, end) \o Label(end)
       [] OTHER -> <<>>

\* Falling off the end returns.
Program(r) == Code(r.cx, r.body, <<>>, <<"none">>) \o <<[op |-> "return", n |-> None]>>

\* The variable has any value, if the graph asks for it.
Inputs ==
  IF \E n \in DOMAIN fg.node : Is(n, "Switch") \/ fg.node[n].op # ""
  THEN MinValue .. MaxValue ELSE {MinValue}

\* Without AnyTree, other comparison trees are left alone.
BuildBody ==
  /\ pc = "build"
  /\ (AnyTree \/ FromSwitch) = TRUE
  /\ \E r \in {build_body} :
        /\ context' = r.cx
        /\ code' = IF r.cx.ok THEN Program(r) ELSE <<>>
        /\ pc' = IF r.cx.ok THEN "run" ELSE "crashed"
  /\ value' \in Inputs
  /\ UNCHANGED <<fg, options, node, at>>

-----------------------------------------------------------------------------
(* The graph runs a node, the C code has to do the same.                   *)

ReturnEvent(n) == <<"return", IF options.void THEN None ELSE index(n)>>

Events(n, o) ==
  (IF statements(n) THEN <<<<"stmts", index(n)>>>> ELSE <<>>)
    \o (CASE Is(n, "Conditional") /\ fg.node[n].op = "" -> <<<<"cond", n, o>>>>
          [] Is(n, "Return") -> <<ReturnEvent(n)>>
          [] OTHER -> <<>>)

Diverged == 0

Positions(l) == {p \in DOMAIN code : code[p].op = "label" /\ code[p].l = l}

Target(l) == IF Positions(l) = {} THEN Diverged ELSE Min(Positions(l))

\* Where a switch goes: to its case, its default or behind it.
SwitchTarget(item) ==
  LET wanted == <<<<"case", item.n, value>>, <<"default", item.n, 0>>, item.l>>
      found  == {i \in DOMAIN wanted : Positions(wanted[i]) # {}}
  IN Target(wanted[Min(found)])

\* Runs the code from p until all events have happened; steps counts what
\* may still be done before the next one.
RECURSIVE Execute(_, _, _)
Execute(p, events, steps) ==
  IF events = <<>> \/ p = Diverged THEN p
  ELSE IF steps = 0 THEN Diverged
  ELSE
  LET item == code[p]
      go(q) == Execute(q, events, steps - 1)
      happen(e, q) ==
        IF Head(events) = e THEN Execute(q, Tail(events), Len(code)) ELSE Diverged
  IN CASE item.op = "label"  -> go(p + 1)
       [] item.op = "jump"   -> go(Target(item.l))
       [] item.op = "switch" -> go(SwitchTarget(item))
       [] item.op = "stmts"  -> happen(<<"stmts", index(item.n)>>, p + 1)
       [] item.op = "return" ->
            happen(IF item.n = None THEN <<"return", None>> ELSE ReturnEvent(item.n), p)
       [] item.op = "test" /\ fg.node[item.n].op # "" ->
            go(Target(IF Holds(item.n, value) THEN item.yes ELSE item.no))
       [] item.op = "test" ->
            IF Head(events) \in {<<"cond", item.n, 1>>, <<"cond", item.n, 2>>}
            THEN happen(Head(events), Target(IF Head(events)[3] = 1 THEN item.yes ELSE item.no))
            ELSE Diverged

RunNode ==
  /\ pc = "run"
  /\ \E o \in Outcomes(node, value) :
       /\ at' = Execute(at, Events(node, o), Len(code))
       /\ node' = fg.node[node].to[o]
  /\ pc' = IF at' = Diverged THEN "diverged"
           ELSE IF node' = Terminal THEN "returned" ELSE "run"
  /\ UNCHANGED <<fg, options, context, code, value>>

-----------------------------------------------------------------------------
(* Flow graphs as translate hands them over: duplicate_premature_returns,  *)
(* terminate_infinite_loops and the relations, as BuildGraph and           *)
(* FlowRelations have them.                                                *)

Reversed(next) == [n \in DOMAIN next |-> {m \in DOMAIN next : n \in next[m]}]

\* d dominates n: from the root n is not reached without d.
DominatorSets(root, next) ==
  LET without_d(d) == Closure({root} \ {d}, [n \in DOMAIN next |-> next[n] \ {d}])
      dominates == UNION {{d} \X (DOMAIN next \ without_d(d)) : d \in DOMAIN next}
  IN [n \in DOMAIN next |-> {d \in DOMAIN next : <<d, n>> \in dominates}]

RECURSIVE FakeEdges(_, _, _)
FakeEdges(kind, children, fake) ==
  LET next == [n \in DOMAIN children |->
                 children[n] \cup (IF n \in fake THEN {Terminal} ELSE {})]
      unterminated == {n \in DOMAIN children \ Closure({Terminal}, Reversed(next)) :
                         kind[n] = "Basic"}
  IN IF unterminated = {} THEN fake
     ELSE FakeEdges(kind, children, fake \cup {Max(unterminated)})

Edges(block, b) ==
  IF block[b + 1].kind = "Conditional" THEN Append(block[b + 1].to, b + 1)
  ELSE block[b + 1].to

\* Blocks that are not reached are dropped before; the last one may be.
AllReached(block) ==
  LET next == [b \in {Terminal} \cup (0 .. Len(block) - 1) |->
                 IF b = Terminal THEN {} ELSE ToSet(Edges(block, b))]
  IN 0 .. Len(block) - 2 \subseteq Closure({Entry}, next)

FlowGraph(block, trivial) ==
  LET n == Len(block)
      copied == {b \in 0 .. n - 3 :
                   /\ trivial
                   /\ block[n].kind = "Return"
                   /\ block[b + 1].kind = "Basic" /\ ~block[b + 1].emit_goto
                   /\ block[b + 1].to = <<n - 1>>}
      full == [m \in {Terminal} \cup (0 .. n - 1) \cup {n + b : b \in copied} |->
                 CASE m = Terminal -> Node("Terminal", <<>>, FALSE, "", 0)
                   [] m \in copied -> [block[m + 1] EXCEPT !.to = <<n + m>>]
                   [] m >= n       -> block[n]
                   [] OTHER        -> [block[m + 1] EXCEPT !.to = Edges(block, m)]]
      live == {Terminal} \cup Closure({Entry}, [m \in DOMAIN full |-> ToSet(full[m].to)])
      nd   == [m \in live |-> full[m]]
      real == [m \in live |-> ToSet(nd[m].to)]
      fake == FakeEdges([m \in live |-> nd[m].kind], real, {})
      children == [m \in live |-> real[m] \cup (IF m \in fake THEN {Terminal} ELSE {})]
      parents == Reversed(children)
      dom  == DominatorSets(Entry, children)
      pdom == DominatorSets(Terminal, parents)
      back == [h \in live |-> {m \in parents[h] : h \in dom[m]}]
      forward == [m \in live |-> {c \in children[m] : m \notin back[c]}]
      closest(S) == CHOOSE m \in S : \A k \in S : Cardinality(pdom[k]) <= Cardinality(pdom[m])
  IN [n |-> n, node |-> nd, fake |-> fake, children |-> children, parents |-> parents,
      dom |-> dom, pdom |-> pdom, back |-> back,
      nodes  |-> Sorted(live \ {Terminal}, <) \o <<Terminal>>,
      impdom |-> [m \in live |-> IF pdom[m] = {m} THEN None ELSE closest(pdom[m] \ {m})],
      loop   |-> [h \in live |->
                    IF back[h] = {} THEN {}
                    ELSE {h} \cup Closure(back[h] \ {h}, [m \in live |-> parents[m] \ {h}])],
      is_reducible |-> /\ Closure({Terminal}, parents) = live
                       /\ \A m \in live : m \notin Closure(forward[m], forward)]

\* Every jump of the function, or one of them, may carry the --goto mark.
Marked(block) ==
  {block} \cup (IF ~Gotos THEN {}
    ELSE {[block EXCEPT ![b].emit_goto = TRUE] :
            b \in {c \in DOMAIN block : block[c].kind \in {"Basic", "Conditional"}}})

Init ==
  /\ \E f \in Families :
       /\ \E block \in {b \in f.blocks : AllReached(b)} : \E b \in Marked(block) :
          \E trivial \in {t \in f.trivial : t => ~Last(b).stm} :
            fg = FlowGraph(b, trivial)
       /\ options \in f.options
  /\ pc = "build"
  /\ context = <<>>
  /\ code = <<>>
  /\ value = MinValue
  /\ node = Entry
  /\ at = 1

Next == BuildBody \/ RunNode

Spec == Init /\ [][Next]_vars

-----------------------------------------------------------------------------
(* Properties.                                                             *)

\* Whatever is recognised as a loop, a switch, && or ||: the C code runs the
\* statements and reads the conditions of the graph, in the same order.
SameControlFlow == pc # "diverged"

\* The text is complete, whatever the graph: no assertion of if_statements.py
\* fails; "build_flowgraph_between should hit every node in well-formed
\* (reducible) graphs; and build_naive explicitly emits every node"; every goto
\* and every case finds its label, printed once, although nodes folded into a
\* condition or a switch are marked as emitted without one.
TextIsComplete ==
  /\ pc # "crashed"
  /\ pc = "run" =>
    /\ context.skipped = {}
    /\ \A n \in context.goto_nodes : Cardinality(Positions(GotoLabel(n))) = 1
    /\ \A n \in DOMAIN fg.node : \A i \in DOMAIN context.case_nodes[n] :
         Cardinality(Positions(context.case_nodes[n][i])) = 1
=============================================================================
