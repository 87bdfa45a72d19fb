----------------------------- MODULE IrPatterns ------------------------------
(***************************************************************************)
(* simplify_ir_patterns of m2c/ir_pattern.py: matching compiler idioms     *)
(* through instr_inputs and rewriting them in place, while the two maps    *)
(* that InputsUses describes are patched by hand.                          *)
(*                                                                         *)
(* A location is a number.  In a pattern a negative number is symbolic     *)
(* (single-letter registers and upper-case symbols, which are bound the    *)
(* same way) and stands for any location; literals are part of the op.     *)
(* The state starts where compute_flowgraph_inputs_uses ends (InputsExact).*)
(* An instruction keeps its identity, an InstrRef of the code, in `ids`,   *)
(* because inserted moves shift positions.                                 *)
(*                                                                         *)
(* When the rewriting is done a second phase runs the old and the new      *)
(* code along the same path and compares what they let the world see.      *)
(***************************************************************************)
EXTENDS InputsUses

CONSTANTS
  Ops,      \* op -> positions of its arguments that it reads and sets, and
            \* the other locations it reads, sets and clobbers
  Patterns, \* IrPatterns: [parts, replacement], each part [op, args]
  MaxRun    \* nodes that the second phase runs

FictiveBase == 100

VARIABLES
  ids,      \* ids[n][k]: the InstrRef of instruction k of node n
  original, \* the code as it was before
  queue,    \* candidates left to try: <<pattern, InstrRef of the tail>>
  fictive_reg_index,
  at, left, \* the node to run next, and how many nodes may still be run
  files,    \* registers of the old and of the new code
  seen      \* what the last node showed, old and new code

irVars  == <<ids, original, queue, fictive_reg_index>>
runVars == <<at, left, files, seen>>
walkVars == <<succ, imdom, calls, processed, missing_regs>>
allVars == <<walkVars, code, pc, instr_inputs, instr_uses, irVars, runVars>>

-----------------------------------------------------------------------------
(* Instructions.                                                           *)

At(args, positions) == {args[p] : p \in positions}

\* arch.parse: what an instruction reads and writes.
Parse(op, args) ==
  [op |-> op, args |-> args, call |-> FALSE, in_pattern |-> FALSE,
   ins |-> At(args, Ops[op].ins) \cup Ops[op].reads,
   outs |-> At(args, Ops[op].outs) \cup Ops[op].sets,
   clobs |-> Ops[op].clobbers]

\* Where ref is now, in node lists `refs`.
Position(refs, ref) ==
  CHOOSE p \in UNION {{<<n, k>> : k \in DOMAIN refs[n]} : n \in Nodes} : refs[p[1]][p[2]] = ref

InstrAt(blocks, p) == blocks[p[1]][p[2]]

\* InstrRef.replace_instruction: old outputs and clobbers stay clobbered.
Replaced(old, new) == [new EXCEPT !.clobs = @ \cup old.outs \cup old.clobs]

-----------------------------------------------------------------------------
(* A compiled pattern is a straight line of instructions: an in.fictive    *)
(* for each input of the replacement, then the parts.                      *)

Part(p, k)     == Parse(Patterns[p].parts[k].op, Patterns[p].parts[k].args)
Replacement(p) == Parse(Patterns[p].replacement.op, Patterns[p].replacement.args)
TailPart(p)        == Len(Patterns[p].parts)
InputsOfPattern(p) == SetToSortSeq(Replacement(p).ins, >)

\* The one source of what part k reads from l: an earlier part, or the input,
\* written -l.  (The pattern itself is analysed by compute_flowgraph_inputs_uses.)
PatternSource(p, k, l) ==
  LET setters == {j \in 1 .. k - 1 : l \in Part(p, j).outs \cup Part(p, j).clobs}
  IN IF setters = {} THEN <<0, l>> ELSE <<1, Max(setters)>>

\* IrPattern.compile and the assertions on a pattern: only the tail has
\* outputs that matter, and nothing is read that is not an input or a part.
WellFormed(p) ==
  /\ Replacement(p).outs = Part(p, TailPart(p)).outs
  /\ \A k \in 1 .. TailPart(p) : \A l \in Part(p, k).ins :
       PatternSource(p, k, l)[1] = 0 => l \in Replacement(p).ins

ASSUME PatternsAssumption == \A p \in DOMAIN Patterns : WellFormed(p)

-----------------------------------------------------------------------------
(* TryIrMatch.  A match binds symbolic locations and, for every reference  *)
(* of the pattern, the RefSet it stands for.                               *)

NoMatch == [ok |-> FALSE, locs |-> <<>>, refs |-> <<>>]

\* _match_var: bind, or compare with what is bound.
MatchVar(map, key, value) ==
  IF key \in DOMAIN map THEN map ELSE key :> value @@ map

Agrees(map, key, value) == key \in DOMAIN map => map[key] = value

\* map_location
MapLoc(m, l) == IF l < 0 THEN m.locs[l] ELSE l

match_arg(m, pat, cand) ==
  IF ~m.ok \/ (pat >= 0 /\ pat # cand) \/ (pat < 0 /\ ~Agrees(m.locs, pat, cand))
  THEN NoMatch
  ELSE IF pat >= 0 THEN m ELSE [m EXCEPT !.locs = MatchVar(@, pat, cand)]

\* match_instr: mnemonic, number of arguments, arguments in order.
match_instr(m, pat, cand) ==
  IF pat.op # cand.op THEN NoMatch
  ELSE FoldLeft(LAMBDA acc, i : match_arg(acc, pat.args[i], cand.args[i]),
                m, [i \in DOMAIN pat.args |-> i])

\* Mutant: a reference of the pattern that is bound already is not compared.
MatchRefsetOnce(m, key, refset) ==
  IF ~m.ok THEN NoMatch ELSE [m EXCEPT !.refs = MatchVar(@, key, refset)]

match_refset(m, key, refset) ==
  IF ~m.ok \/ ~Agrees(m.refs, key, refset) THEN NoMatch
  ELSE [m EXCEPT !.refs = MatchVar(@, key, refset)]

\* match_inputrefs: the sources of every input have to be those of the pattern.
match_inputrefs(m, p, k, ref) ==
  FoldSet(LAMBDA l, acc : IF ~acc.ok THEN NoMatch
                          ELSE match_refset(acc, PatternSource(p, k, l),
                                            InputsOf(ref, MapLoc(acc, l))),
          m, Part(p, k).ins)

\* One turn of the loop over [tail_ref] + body_refs[::-1]: the part has to
\* stand for one instruction.
MatchPart(m, p, k) ==
  IF m.ok /\ <<1, k>> \in DOMAIN m.refs
       /\ \E r \in m.refs[<<1, k>>] : m.refs[<<1, k>>] = {r} /\ r[1] >= 0
  THEN LET ref == CHOOSE r \in m.refs[<<1, k>>] : TRUE
           mi  == match_instr(m, Part(p, k), InstrAt(code, Position(ids, ref)))
       IN IF mi.ok THEN match_inputrefs(mi, p, k, ref) ELSE NoMatch
  ELSE NoMatch

Match(p, tail) ==
  FoldLeft(LAMBDA m, k : MatchPart(m, p, k),
           match_refset([ok |-> TRUE, locs |-> <<>>, refs |-> <<>>], <<1, TailPart(p)>>, {tail}),
           [j \in 1 .. TailPart(p) |-> TailPart(p) + 1 - j])

map_ref(m, k) == CHOOSE r \in m.refs[<<1, k>>] : TRUE

-----------------------------------------------------------------------------
(* The rewriting.  `g` holds everything it changes.                        *)

Graph == [code |-> code, ids |-> ids, inputs |-> instr_inputs, uses |-> instr_uses,
          fictive |-> fictive_reg_index]

\* add_instruction_use
AddUse(g, use, l, src) ==
  [g EXCEPT !.inputs = @ \cup {<<<<use, l>>, src>>}, !.uses = @ \cup {<<<<src, l>>, use>>}]

\* clear_instruction_inputs
clear_instruction_inputs(g, ref) ==
  [g EXCEPT !.inputs = {i \in @ : i[1][1] # ref}, !.uses = {u \in @ : u[2] # ref}]

SetInstr(g, ref, instr) ==
  LET p == Position(g.ids, ref) IN [g EXCEPT !.code[p[1]][p[2]] = instr]

\* add_instruction_before
InsertBefore(g, ref, newref, instr) ==
  LET p == Position(g.ids, ref)
  IN [g EXCEPT !.code[p[1]] = InsertAt(@, p[2], instr), !.ids[p[1]] = InsertAt(@, p[2], newref)]

TempReg(g) == FictiveBase + g.fictive

\* The instruction the move of an input goes in front of: the first part that reads it.
InputUse(p, m, l) ==
  map_ref(m, Min({k \in 1 .. TailPart(p) : l \in Part(p, k).ins /\ PatternSource(p, k, l)[1] = 0}))

\* Save input l of the pattern in a fictive register.
AddMove(g, p, m, l) ==
  LET use  == InputUse(p, m, l)
      move == <<use[1], TempReg(g)>>
      reg  == MapLoc(m, l)
      srcs == {i[2] : i \in {j \in g.inputs : j[1] = <<use, reg>>}}
  IN FoldSet(LAMBDA s, acc : AddUse(acc, move, reg, s),
             [InsertBefore(g, use, move, Parse("move", <<TempReg(g), reg>>))
                EXCEPT !.fictive = @ + 1],
             srcs)

AddMoves(g, p, m) ==
  FoldLeft(LAMBDA acc, l : AddMove(acc, p, m, l), g, InputsOfPattern(p))

\* Where AddMoves leaves each input.
TempOf(g, p, l) ==
  FictiveBase + g.fictive + (CHOOSE i \in DOMAIN InputsOfPattern(p) : InputsOfPattern(p)[i] = l) - 1

\* The tail becomes the replacement, which reads the moves and nothing else.
ReplaceTail(g, p, m, temp) ==
  LET ref   == map_ref(m, TailPart(p))
      arg(a) == IF a \in Replacement(p).ins THEN temp[a] ELSE MapLoc(m, a)
      instr == Parse(Patterns[p].replacement.op,
                     [i \in DOMAIN Patterns[p].replacement.args |->
                        arg(Patterns[p].replacement.args[i])])
      old   == InstrAt(g.code, Position(g.ids, ref))
  IN FoldSet(LAMBDA l, acc : AddUse(acc, ref, temp[l], <<InputUse(p, m, l)[1], temp[l]>>),
             clear_instruction_inputs(SetInstr(g, ref, Replaced(old, instr)), ref),
             Replacement(p).ins)

\* Mutant: the body goes although another instruction still uses its results.
RetireBodyAlways(g, ref) ==
  LET old == InstrAt(g.code, Position(g.ids, ref))
  IN clear_instruction_inputs(SetInstr(g, ref, Replaced(old, Parse("nop", <<>>))), ref)

\* A body instruction nobody needs any more becomes a nop; one that is needed is marked.
RetireBody(g, ref) ==
  LET old == InstrAt(g.code, Position(g.ids, ref))
  IN IF \A u \in g.uses : u[1][1] # ref
     THEN clear_instruction_inputs(SetInstr(g, ref, Replaced(old, Parse("nop", <<>>))), ref)
     ELSE SetInstr(g, ref, [old EXCEPT !.in_pattern = TRUE])

Rewrite(p, m) ==
  FoldLeft(LAMBDA g, k : RetireBody(g, map_ref(m, k)),
           ReplaceTail(AddMoves(Graph, p, m), p, m,
                       [l \in Replacement(p).ins |-> TempOf(Graph, p, l)]),
           [j \in 1 .. TailPart(p) - 1 |-> TailPart(p) - j])

\* One candidate of one pattern.
TryCandidate ==
  /\ pc = "patterns"
  /\ queue # <<>>
  /\ \E m \in {Match(Head(queue)[1], Head(queue)[2])} :
       IF ~m.ok THEN UNCHANGED <<code, ids, instr_inputs, instr_uses, fictive_reg_index>>
       ELSE \E g \in {Rewrite(Head(queue)[1], m)} :
              /\ code' = g.code
              /\ ids' = g.ids
              /\ instr_inputs' = g.inputs
              /\ instr_uses' = g.uses
              /\ fictive_reg_index' = g.fictive
  /\ queue' = Tail(queue)
  /\ UNCHANGED <<walkVars, pc, original, runVars>>

\* validate_instruction_graph is a part of PatchedInputsExact.
FinishPatterns ==
  /\ pc = "patterns"
  /\ queue = <<>>
  /\ pc' = "run"
  /\ UNCHANGED <<walkVars, code, instr_inputs, instr_uses, irVars, runVars>>

-----------------------------------------------------------------------------
(* The second phase.  Values are terms: what was computed from what.       *)

Junk == <<"junk">>

\* The terms that op makes of the values of its inputs, and where they go.
Computed(instr, file) ==
  LET vals == [i \in DOMAIN instr.args |->
                 IF i \in Ops[instr.op].ins THEN file[instr.args[i]] ELSE Junk]
      extra == [l \in Ops[instr.op].reads |-> file[l]]
      term(l) == IF l \in Ops[instr.op].sets THEN <<instr.op, l, vals, extra>>
                 ELSE <<instr.op, 0, vals, extra>>
  IN [l \in instr.outs |-> IF instr.op = "move" THEN file[instr.args[2]] ELSE term(l)]

\* Locations an instruction leaves without a value it vouches for.
AfterClobbers(instr, file) ==
  [l \in DOMAIN file |-> IF l \in instr.clobs THEN Junk ELSE file[l]]

Execute(instr, file) == Computed(instr, file) @@ AfterClobbers(instr, file)

\* What the parts of the pattern behind a replacement compute from its inputs.
Expanded(p, instr, file) ==
  LET bound(a) == IF a \in Replacement(p).ins
                  THEN file[instr.args[CHOOSE i \in DOMAIN instr.args :
                                         Patterns[p].replacement.args[i] = a]]
                  ELSE Junk
      env == FoldLeft(LAMBDA e, k : Computed(Part(p, k), e) @@ e,
                      [a \in UNION {Part(p, k).ins \cup Part(p, k).outs : k \in 1 .. TailPart(p)} |->
                         bound(a)],
                      [k \in 1 .. TailPart(p) |-> k])
      out(l) == CHOOSE i \in DOMAIN instr.args : i \in Ops[instr.op].outs /\ instr.args[i] = l
  IN [l \in instr.outs |-> env[Patterns[p].replacement.args[out(l)]]]

PatternOf(op) == {p \in DOMAIN Patterns : Patterns[p].replacement.op = op}

ExecuteNew(instr, file) ==
  IF PatternOf(instr.op) = {} THEN Execute(instr, file)
  ELSE Expanded(CHOOSE p \in PatternOf(instr.op) : TRUE, instr, file)
         @@ AfterClobbers(instr, file)

\* Run a block: the registers after it and the values it shows.
RunBlock(block, file, exec(_, _)) ==
  FoldLeft(LAMBDA acc, instr :
             [file |-> exec(instr, acc.file),
              out |-> IF instr.op = "use" THEN Append(acc.out, acc.file[instr.args[1]])
                      ELSE acc.out],
           [file |-> file, out |-> <<>>], block)

RunNode ==
  /\ pc = "run"
  /\ left > 0
  /\ at # Terminal
  /\ \E old \in {RunBlock(original[at], files.old, Execute)},
        new \in {RunBlock(code[at], files.new, ExecuteNew)} :
       /\ files' = [old |-> old.file, new |-> new.file]
       /\ seen' = [old |-> old.out, new |-> new.out]
  /\ at' \in succ[at]
  /\ left' = left - 1
  /\ UNCHANGED <<walkVars, code, pc, instr_inputs, instr_uses, irVars>>

-----------------------------------------------------------------------------
\* Every reference of the function, in the order of the nodes.
AllRefs(blocks) ==
  FoldLeft(LAMBDA acc, n : acc \o [k \in DOMAIN blocks[n] |-> <<n, k>>], <<>>,
           [i \in 1 .. N |-> i - 1])

\* The candidates for a pattern are looked up by the mnemonic they have at the start.
Candidates(p, blocks) ==
  LET refs == SelectSeq(AllRefs(blocks), LAMBDA r : InstrAt(blocks, r).op = Part(p, TailPart(p)).op)
  IN [i \in DOMAIN refs |-> <<p, refs[i]>>]

InitPatterns ==
  /\ \E shape \in [Nodes \ {Terminal} -> Shapes] :
       succ = [n \in Nodes |-> IF n = Terminal THEN {} ELSE shape[n]]
  /\ Nodes \subseteq Reached
  /\ imdom = <<>>
  /\ calls = <<>>
  /\ processed = <<>>
  /\ missing_regs = {}
  /\ \E codes \in Functions : \E block \in [Nodes \ {Terminal} -> codes] :
       code = [n \in Nodes |-> IF n = Terminal THEN <<>> ELSE block[n]]
  /\ ids = [n \in Nodes |-> [k \in DOMAIN code[n] |-> <<n, k>>]]
  /\ original = code
  /\ instr_inputs = {}
  /\ instr_uses = {}
  /\ queue = <<>>
  /\ fictive_reg_index = 0
  /\ pc = "start"
  /\ at = Entry
  /\ left = MaxRun
  /\ files = [old |-> [l \in Locs |-> <<"init", l>>],
              new |-> [l \in Locs |-> <<"init", l>>]]
  /\ seen = [old |-> <<>>, new |-> <<>>]

\* compute_flowgraph_inputs_uses leaves the sources that InputsExact describes.
Start ==
  /\ pc = "start"
  /\ \E edges \in {UNION {UNION {{<<<<<<n, k>>, l>>, s>> : s \in Sources(n, k, l)} :
                                   l \in code[n][k].ins} :
                          <<n, k>> \in UNION {{<<n, k>> : k \in DOMAIN code[n]} : n \in Nodes}}} :
       /\ instr_inputs' = edges
       /\ instr_uses' = {<<<<e[2], e[1][2]>>, e[1][1]>> : e \in edges}
  /\ queue' = FoldLeft(LAMBDA acc, p : acc \o Candidates(p, code), <<>>,
                       [p \in DOMAIN Patterns |-> p])
  /\ pc' = "patterns"
  /\ UNCHANGED <<walkVars, code, ids, original, fictive_reg_index, runVars>>

RunDone == pc = "run" /\ (left = 0 \/ at = Terminal) /\ UNCHANGED allVars

NextPatterns == Start \/ TryCandidate \/ FinishPatterns \/ RunNode \/ RunDone

SpecPatterns == InitPatterns /\ [][NextPatterns]_allVars

-----------------------------------------------------------------------------
\* After every rewriting, instr_inputs is what compute_flowgraph_inputs_uses
\* would find in the code as it is now: patching the maps by hand (moves, the
\* replaced tail, retired instructions) leaves nothing stale and forgets nothing,
\* in either direction.
PatchedInputsExact ==
  /\ instr_uses = {<<<<i[2], i[1][2]>>, i[1][1]>> : i \in instr_inputs}
  /\ pc \in {"patterns", "run"} =>
       \A n \in Nodes : \A k \in DOMAIN code[n] : \A l \in code[n][k].ins :
         InputsOf(ids[n][k], l) =
           {IF s[1] < 0 THEN s ELSE ids[s[1]][s[2]] : s \in Sources(n, k, l)}

\* "the new move instruction to save the register can come before any of the
\* instructions that use it": along every path the rewritten code shows the
\* values the old code shows.
SameValues == seen.old = seen.new
=============================================================================
