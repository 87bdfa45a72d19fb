----------------------------- MODULE BuildBlocks -----------------------------
(***************************************************************************)
(* build_blocks of m2c/flow_graph.py: the passes that turn the body of a   *)
(* function (labels and instructions, with the delay slots of MIPS and     *)
(* SuperH still in place) into basic blocks in which every jump ends its   *)
(* block.  A second phase runs the body, with the semantics the processor  *)
(* gives delay slots, in lock step with the blocks.                        *)
(***************************************************************************)
EXTENDS Integers, Sequences, FiniteSets, SequencesExt

CONSTANTS
  Files,      \* the assembly files to enumerate functions of
  MaxLabels,  \* labels 1 .. MaxLabels may be defined, each at most once
  TailLabel   \* FALSE: no label directly after a slot that may be moved

\* arch "ppc" stands for all architectures without delay slots.  A body is at
\* most max of units (sequences of instructions) followed by one of ends;
\* mentioned are the labels that data of the file mentions.
ASSUME FilesAssumption ==
  \A f \in Files : /\ f.arch \in {"mips", "sh2", "ppc"}
                   /\ f.max \in Nat
                   /\ f.mentioned \subseteq 1 .. MaxLabels
ASSUME BoundAssumption == MaxLabels \in Nat /\ TailLabel \in BOOLEAN

VARIABLES
  file,     \* the file the function is in: arch, mentioned_labels
  source,   \* function.body as parsed
  body,     \* function.body after the passes that have run
  pc,       \* the pass that is running, or how build_blocks ended
  pos,      \* position of body_iter
  builder,  \* block_builder: _curr_label, _curr_instructions, _blocks
  likely,   \* branch_likely_counts
  condRet,  \* cond_return_target is set
  sp, out,  \* source run: next position; events the blocks have to repeat
  bp,       \* block run: block, offset, label to jump to at its end, and the
            \* number of steps since the last event
  last      \* last event both runs have gone through

buildVars == <<file, source, body, pos, builder, likely, condRet>>
runVars   == <<sp, out, bp, last>>
vars      == <<buildVars, pc, runVars>>

-----------------------------------------------------------------------------
(* Instructions.  A label of the source is <<n>> and internal_label derives *)
(* longer sequences from it.  A return is a jump to Ret.                   *)

Arch      == file.arch
Mentioned == file.mentioned

Ret == <<0>>

Instr(k, op, targets) ==
  [k |-> k, op |-> op, targets |-> targets, id |-> 0, inv |-> FALSE]

Op(op)       == Instr("op", op, <<>>)
Nop          == Op("nop")
B(t)         == Instr("b", "b", <<t>>)
Return       == Instr("ret", "ret", <<Ret>>)
LabelOf(ns)  == [k |-> "label", names |-> ns]

IsLabel(x)   == x.k = "label"
HasTarget(x) == x.k \in {"likely", "cond", "bt", "b"}  \* jump_target: JumpTarget
IsConditional(x) == x.k \in {"likely", "cond", "bt", "condret", "table"}
IsJump(x)    == x.k \notin {"label", "op", "call", "callr"}
IsCall(x)    == x.k \in {"call", "callr"}

HasDelaySlot(x) ==
  /\ Arch # "ppc"
  /\ \/ x.k \in {"likely", "cond", "b", "call", "callr", "ret"}
     \/ Arch = "sh2" /\ x.k = "table"

\* No output is an input and it is not a store; "add" is the op that fails
\* this.  "add" also writes the register that "callr" calls through.
Idempotent(x)      == x.op # "add"
ClobbersCallee(x)  == x.op = "add"
IsCompare(x)       == x.op = "cmp"

Targets(b) == UNION {ToSet(b[p].targets) : p \in {q \in DOMAIN b : ~IsLabel(b[q])}}

-----------------------------------------------------------------------------
(* minimize_labels: labels that neither data nor a branch uses go, adjacent *)
(* ones become one.  The entries of a jump table do not count as uses.     *)

MinimizedLabels(b) ==
  LET used == {<<n>> : n \in Mentioned}
                \cup Targets(SelectSeq(b, LAMBDA x : HasTarget(x)))
      code == {p \in DOMAIN b : ~IsLabel(b[p])} \cup {0, Len(b) + 1}
      prev(p) == Max({q \in code : q < p})
      \* cur_label when the loop comes to p
      names(p) == SelectSeq(
        FlattenSeq([k \in 1 .. p - prev(p) - 1 |-> b[prev(p) + k].names]),
        LAMBDA n : n \in used)
  IN FlattenSeq([p \in 1 .. Len(b) + 1 |->
       IF p \notin code THEN <<>>
       ELSE (IF names(p) = <<>> THEN <<>> ELSE <<LabelOf(names(p))>>)
              \o (IF p > Len(b) THEN <<>> ELSE <<b[p]>>)])

(* normalize_gcc_likely_branches: a likely branch over one instruction.    *)

Inverted(x) == [x EXCEPT !.inv = ~@, !.k = "cond"]

GccLikely(b, p) ==
  /\ b[p].k = "likely"
  /\ p + 2 <= Len(b)
  /\ ~IsLabel(b[p + 1])
  /\ IsLabel(b[p + 2])
  /\ Contains(b[p + 2].names, b[p].targets[1])

NormalizedGcc(b) ==
  FlattenSeq([p \in DOMAIN b |->
    IF GccLikely(b, p) THEN <<Inverted(b[p]), Nop>> ELSE <<b[p]>>])

-----------------------------------------------------------------------------
(* normalize_ido_likely_branches.  Positions stand for the identity of an  *)
(* Instruction, None for a missing dictionary entry.                       *)

None == 0

LabelPos(b, t) ==
  LET ps == {p \in DOMAIN b : IsLabel(b[p]) /\ Contains(b[p].names, t)}
  IN IF ps = {} THEN None ELSE CHOOSE p \in ps : TRUE

\* label_prev_instr: the instruction that falls into the label of t.
label_prev_instr(b, t) ==
  LET p == LabelPos(b, t)
  IN IF p > 1 /\ ~IsLabel(b[p - 1]) THEN p - 1 ELSE None

may_transform_branch(b, p, before, untouched, pre) ==
  LET item == b[p]
      next == b[p + 1]
      prev == IF before > 1 THEN b[before - 1] ELSE Nop  \* instr_before_instr
  IN /\ HasDelaySlot(item)
     /\ before # p + 1
     /\ b[before] = next
     /\ item.k = "likely" \/ next.op # "nop"
     /\ IF Arch = "sh2"
        THEN IsCompare(next) /\ (item.targets[1] \notin untouched \/ pre)
        ELSE item.k \in {"likely", "b"}
     /\ IsConditional(item) \/ IsLabel(prev) \/ ~HasDelaySlot(prev)

Transforms(b, p, untouched, pre) ==
  /\ p < Len(b)
  /\ ~IsLabel(b[p])
  /\ HasTarget(b[p])
  /\ ~IsLabel(b[p + 1])
  /\ label_prev_instr(b, b[p].targets[1]) # None
  /\ may_transform_branch(b, p, label_prev_instr(b, b[p].targets[1]), untouched, pre)

\* The names of every label that something other than a transformable branch
\* uses; only SuperH asks.
UntouchedTargets(b) ==
  LET names(t) == IF LabelPos(b, t) = None THEN {} ELSE ToSet(b[LabelPos(b, t)].names)
      kept == {p \in 1 .. Len(b) - 1 :
                 ~IsLabel(b[p]) /\ ~(HasTarget(b[p]) /\ Transforms(b, p, {}, TRUE))}
  IN UNION {names(<<n>>) : n \in Mentioned}
       \cup UNION {names(t) : t \in UNION {ToSet(b[p].targets) : p \in kept}}

\* body_iter hands a branch to the loop together with its successor, so an
\* item right after a branch is never looked at as a branch.
LoopItems(b) ==
  LET isItem[p \in 0 .. Len(b)] ==
        p # 0 /\ (p = 1 \/ ~(isItem[p - 1] /\ HasTarget(b[p - 1])))
  IN {p \in DOMAIN b : isItem[p]}

NormalizedIdo(b) ==
  LET untouched == UntouchedTargets(b)
      moved == {p \in LoopItems(b) : Transforms(b, p, untouched, FALSE)}
      before(p) == label_prev_instr(b, b[p].targets[1])
      \* insert_label_before: the first branch that asks names the label.
      Askers(q) == {p \in moved : before(p) = q}
      Named(q) == q > 1 /\ IsLabel(b[q - 1])
      first(q) == CHOOSE p \in Askers(q) : \A r \in Askers(q) : p <= r
      label_before_instr(q) ==
        IF Named(q) THEN b[q - 1].names[1] ELSE <<"before">> \o b[first(q)].targets[1]
      inserted(q) ==
        IF Askers(q) # {} /\ ~Named(q) THEN <<LabelOf(<<label_before_instr(q)>>)>>
        ELSE <<>>
      new(q) ==
        IF q \in moved
        THEN [b[q] EXCEPT !.targets = <<label_before_instr(before(q))>>,
                          !.k = IF @ = "likely" THEN "cond" ELSE @]
        ELSE IF q - 1 \in moved /\ b[q - 1].k # "cond" THEN Nop
        ELSE b[q]
  IN FlattenSeq([q \in DOMAIN b |-> inserted(q) \o <<new(q)>>])

-----------------------------------------------------------------------------
(* BlockBuilder.                                                           *)

NewBlock(bb) ==
  IF bb.instrs = <<>> THEN bb
  ELSE [label  |-> <<>>, instrs |-> <<>>, ok |-> bb.ok,
        blocks |-> Append(bb.blocks, [label |-> bb.label, instrs |-> bb.instrs])]

\* ok is FALSE once the assertion "Cannot have two labels in a row" failed.
SetLabel(bb, names) == [bb EXCEPT !.label = names, !.ok = @ /\ bb.label = <<>>]

Add(bb, instrs)     == [bb EXCEPT !.instrs = @ \o instrs]
Split(bb, names)    == SetLabel(NewBlock(bb), names)

-----------------------------------------------------------------------------
(* The passes, in the order build_blocks runs them.                        *)

Pass(from, to, b) ==
  /\ pc = from
  /\ body' = b
  /\ pc' = to
  /\ UNCHANGED <<file, source, pos, builder, likely, condRet, runVars>>

\* verify_no_trailing_delay_slot raises DecompFailure.
VerifyNoTrailingDelaySlot ==
  /\ pc = "start"
  /\ LET ps == {p \in DOMAIN body : ~IsLabel(body[p])}
     IN pc' = IF \E p \in ps : HasDelaySlot(body[p]) /\ \A q \in ps : q <= p
              THEN "failed"
              ELSE IF Arch = "ppc" THEN "minimize again" ELSE "minimize"
  /\ UNCHANGED <<buildVars, runVars>>

MinimizeLabels ==
  Pass("minimize", IF Arch = "mips" THEN "gcc" ELSE "ido", MinimizedLabels(body))

NormalizeGccLikelyBranches == Pass("gcc", "ido", NormalizedGcc(body))

NormalizeIdoLikelyBranches == Pass("ido", "minimize again", NormalizedIdo(body))
MinimizeLabelsAgain        == Pass("minimize again", "blocks", MinimizedLabels(body))

-----------------------------------------------------------------------------
(* process_delay_slots and process_no_delay_slots, one item per step.      *)

item         == body[pos]
SlotLabelled == IsLabel(body[pos + 1])
SlotPos      == IF SlotLabelled THEN pos + 2 ELSE pos + 1
slot         == body[SlotPos]

\* The slot is processed once more, after the branch, under its label.
ProcessAfter(bb) ==
  IF SlotLabelled THEN Add(Split(bb, body[pos + 1].names), <<slot>>) ELSE bb

Emit(bb, next) ==
  /\ builder' = bb
  /\ pos' = next
  /\ pc' = IF bb.ok THEN pc ELSE "crashed"
  /\ UNCHANGED <<file, source, body, condRet, runVars>>

Fail(how) == pc' = how /\ UNCHANGED <<buildVars, runVars>>

Processing == pc = "blocks" /\ pos <= Len(body)
InSlotArch == Processing /\ HasDelaySlot(item)

ProcessLabel ==
  /\ Processing
  /\ IsLabel(item)
  /\ Emit(Split(builder, item.names), pos + 1)
  /\ UNCHANGED likely

ProcessNoDelaySlot ==
  /\ Processing
  /\ ~IsLabel(item)
  /\ ~HasDelaySlot(item)
  /\ ~(item.k = "condret" \/ (item.k = "table" /\ Contains(item.targets, Ret)))
  /\ LET bb == Add(builder, <<item>>)
     IN Emit(IF IsJump(item) THEN NewBlock(bb) ELSE bb, pos + 1)
  /\ UNCHANGED likely

\* A conditional return becomes a branch to a return block built at the end.
ConditionalReturn == <<-1>>

ProcessConditionalReturn ==
  /\ Processing
  /\ ~HasDelaySlot(item)
  /\ item.k = "condret" \/ (item.k = "table" /\ Contains(item.targets, Ret))
  /\ builder' = NewBlock(Add(builder, <<[item EXCEPT
                  !.targets = ReplaceAll(@, Ret, ConditionalReturn)]>>))
  /\ condRet' = TRUE
  /\ pos' = pos + 1
  /\ UNCHANGED <<file, source, body, pc, likely, runVars>>

\* "Label ... refers to a delay slot; this is currently not supported."
RejectLabelledSlot ==
  /\ InSlotArch
  /\ SlotLabelled
  /\ item.k = "likely" \/ IsCall(item)
  /\ Fail("failed")

\* The slot cannot run twice: the branch goes to a block that runs a copy of
\* it and jumps on, the fall through jumps to the label.
ProcessLabelledSlot ==
  /\ InSlotArch
  /\ SlotLabelled
  /\ ~(item.k = "likely" \/ IsCall(item))
  /\ ~Idempotent(slot)
  /\ HasTarget(item)
  /\ LET names == body[pos + 1].names
         skip  == <<"skip">> \o names[1]
         b1 == NewBlock(Add(builder, <<[item EXCEPT !.targets = <<skip>>], Nop>>))
         b2 == NewBlock(Add(b1, <<B(names[1]), Nop>>))
         b3 == NewBlock(Add(SetLabel(b2, <<skip>>), <<B(item.targets[1]), slot>>))
     IN Emit(Add(SetLabel(b3, names), <<slot>>), SlotPos + 1)
  /\ UNCHANGED likely

\* The assertion "has delay slot and isn't a call" fails.
CrashLabelledSlot ==
  /\ InSlotArch
  /\ SlotLabelled
  /\ ~Idempotent(slot)
  /\ ~HasTarget(item) /\ ~IsCall(item)
  /\ Fail("crashed")

SlotReady ==
  /\ InSlotArch
  /\ SlotLabelled => Idempotent(slot) /\ ~(item.k = "likely" \/ IsCall(item))

RejectTwoDelaySlots ==
  /\ SlotReady
  /\ HasDelaySlot(slot)
  /\ Fail("failed")

\* Mutant: branch_likely_counts is not counted up.
LikelyIndexFixed(t) == 1

LikelyIndex(t) == Len(SelectSeq(likely, LAMBDA n : n = t)) + 1

\* A likely branch is inverted and skips a block that holds the slot.
ProcessLikely ==
  /\ SlotReady
  /\ ~HasDelaySlot(slot)
  /\ item.k = "likely"
  /\ LET t == item.targets[1]
         skip == <<"branchlikelyskip", LikelyIndex(t)>> \o t
         b1 == NewBlock(Add(builder, <<[Inverted(item) EXCEPT !.targets = <<skip>>], Nop>>))
         b2 == NewBlock(Add(b1, <<slot, B(t), Nop>>))
     IN /\ Emit(NewBlock(Add(SetLabel(b2, <<skip>>), <<Nop>>)), SlotPos + 1)
        /\ likely' = Append(likely, t)

RejectClobberedCall ==
  /\ SlotReady
  /\ ~HasDelaySlot(slot)
  /\ item.k = "callr"
  /\ ClobbersCallee(slot)
  /\ Fail("failed")

\* Mutant: the slot stays behind the call.
CallBeforeSlot ==
  /\ SlotReady
  /\ ~HasDelaySlot(slot)
  /\ IsCall(item)
  /\ ~(item.k = "callr" /\ ClobbersCallee(slot))
  /\ Emit(Add(builder, <<item, slot>>), SlotPos + 1)
  /\ UNCHANGED likely

\* The slot of a call moves before it.
ProcessCall ==
  /\ SlotReady
  /\ ~HasDelaySlot(slot)
  /\ IsCall(item)
  /\ ~(item.k = "callr" /\ ClobbersCallee(slot))
  /\ Emit(Add(builder, <<slot, item>>), SlotPos + 1)
  /\ UNCHANGED likely

ProcessJump ==
  /\ SlotReady
  /\ ~HasDelaySlot(slot)
  /\ IsJump(item)
  /\ item.k # "likely"
  /\ Emit(ProcessAfter(NewBlock(Add(builder, <<item, slot>>))), SlotPos + 1)
  /\ UNCHANGED likely

\* The safeguard return, and the block conditional returns jump to.
FinishBlocks ==
  /\ pc = "blocks"
  /\ pos > Len(body)
  /\ IF builder.blocks = <<>> /\ builder.instrs = <<>> THEN Fail("failed")
     ELSE LET ret == IF Arch = "ppc" THEN <<Return>> ELSE <<Return, Nop>>
              bb  == NewBlock(Add(builder, ret))
          IN /\ builder' = IF condRet
                           THEN NewBlock(Add(SetLabel(bb, <<ConditionalReturn>>), ret))
                           ELSE bb
             /\ pc' = "built"
             /\ UNCHANGED <<file, source, body, pos, likely, condRet, runVars>>

\* The caller has the blocks; the two runs begin.
StartRun == pc = "built" /\ pc' = "run" /\ UNCHANGED <<buildVars, runVars>>

-----------------------------------------------------------------------------
(* The source run: what the processor does with the parsed body.           *)

SlotAfter(p) ==
  CHOOSE q \in p + 1 .. Len(source) :
    /\ ~IsLabel(source[q])
    /\ \A r \in p + 1 .. q - 1 : IsLabel(source[r])

Event(x) == IF x.k = "op" /\ x.op # "nop" THEN <<<<"op", x.op>>>> ELSE <<>>

\* Which target is taken; 0 is the fall through, which a table does not have.
Outcomes(x) ==
  IF IsConditional(x) THEN (IF x.k = "table" THEN 1 ELSE 0) .. Len(x.targets)
  ELSE {IF IsJump(x) THEN 1 ELSE 0}

\* The condition is read first, then the slot runs (the slot of a likely
\* branch only if it is taken), then control moves.  A call through a register
\* goes where the register pointed before the slot.
SourceEvents(x, p, o) ==
  LET hasSlot == HasDelaySlot(x)
      s       == IF hasSlot THEN source[SlotAfter(p)] ELSE Nop
  IN Event(x)
     \o (IF IsConditional(x) THEN <<<<"jump", x.id, o>>>> ELSE <<>>)
     \o (IF x.k = "likely" /\ o = 0 THEN <<>> ELSE Event(s))
     \o (IF IsCall(x)
         THEN <<<<"call", IF x.k = "callr" /\ ClobbersCallee(s) THEN "before" ELSE "now">>>>
         ELSE <<>>)
     \o (IF o > 0 /\ x.targets[o] = Ret THEN <<<<"return">>>> ELSE <<>>)

Halted == -1

SourceNext(x, p, o) ==
  IF o > 0 THEN IF x.targets[o] = Ret THEN Halted ELSE LabelPos(source, x.targets[o])
  ELSE IF HasDelaySlot(x) THEN SlotAfter(p) + 1 ELSE p + 1

\* A branch in a delay slot is unpredictable, and nothing can be compared
\* with it; running off the end is the return the safeguard adds.
SourceRun ==
  /\ pc = "run"
  /\ out = <<>>
  /\ sp # Halted
  /\ IF sp > Len(source) THEN out' = <<<<"return">>>> /\ sp' = Halted
     ELSE IF IsLabel(source[sp]) THEN out' = <<>> /\ sp' = sp + 1
     ELSE /\ HasDelaySlot(source[sp]) => ~HasDelaySlot(source[SlotAfter(sp)])
          /\ \E o \in Outcomes(source[sp]) :
               /\ out' = SourceEvents(source[sp], sp, o)
               /\ sp' = SourceNext(source[sp], sp, o)
  /\ UNCHANGED <<buildVars, pc, bp, last>>

-----------------------------------------------------------------------------
(* The block run.  The jump of a block happens at its end: its condition   *)
(* is evaluated where the branch stands.                                   *)

block == builder.blocks[bp.block]
instr == block.instrs[bp.off]

InBlock == pc = "run" /\ out # <<>> /\ bp.off <= Len(block.instrs)

Advance(idle) == bp' = [bp EXCEPT !.off = @ + 1, !.idle = idle]

Silent ==
  /\ InBlock
  /\ ~IsConditional(instr) /\ ~IsCall(instr) /\ Event(instr) = <<>>
  /\ bp' = [bp EXCEPT !.off = @ + 1, !.idle = @ + 1,
                      !.target = IF IsJump(instr) THEN instr.targets[1] ELSE @]
  /\ UNCHANGED <<buildVars, pc, sp, out, last>>

Visible(e) ==
  IF Head(out) = e
  THEN out' = Tail(out) /\ last' = e /\ Advance(0) /\ UNCHANGED pc
  ELSE /\ UNCHANGED <<out, last>>
       /\ IF e = last /\ e[1] = "op" /\ Idempotent(Op(e[2]))
          THEN Advance(bp.idle + 1) /\ UNCHANGED pc       \* running it twice is fine
          ELSE pc' = "diverged" /\ UNCHANGED bp

RunOp ==
  /\ InBlock
  /\ Event(instr) # <<>>
  /\ Visible(Event(instr)[1])
  /\ UNCHANGED <<buildVars, sp>>

RunCall ==
  /\ InBlock
  /\ IsCall(instr)
  /\ Visible(<<"call", "now">>)
  /\ UNCHANGED <<buildVars, sp>>

RunCondition ==
  /\ InBlock
  /\ IsConditional(instr)
  /\ IF Head(out)[1] = "jump" /\ Head(out)[2] = instr.id
     THEN LET o == IF instr.inv THEN 1 - Head(out)[3] ELSE Head(out)[3]
          IN /\ bp' = [bp EXCEPT !.off = @ + 1, !.idle = 0,
                                 !.target = IF o = 0 THEN <<>> ELSE instr.targets[o]]
             /\ out' = Tail(out)
             /\ last' = Head(out)
             /\ UNCHANGED pc
     ELSE pc' = "diverged" /\ UNCHANGED <<bp, out, last>>
  /\ UNCHANGED <<buildVars, sp>>

BlockWith(t) ==
  {n \in DOMAIN builder.blocks : Contains(builder.blocks[n].label, t)}

Goto(n) ==
  /\ bp' = [block |-> n, off |-> 1, target |-> <<>>, idle |-> bp.idle + 1]
  /\ UNCHANGED <<pc, out, last>>

EndOfBlock ==
  /\ pc = "run"
  /\ out # <<>>
  /\ bp.off > Len(block.instrs)
  /\ IF bp.target = Ret
     THEN /\ pc' = IF out = <<<<"return">>>> THEN "returned" ELSE "diverged"
          /\ out' = <<>>
          /\ UNCHANGED <<bp, last>>
     ELSE IF bp.target = <<>> THEN Goto(bp.block + 1)
     ELSE \E n \in BlockWith(bp.target) : Goto(n)
  /\ UNCHANGED <<buildVars, sp>>

-----------------------------------------------------------------------------
(* Bodies: some units and an end, with every label somewhere or nowhere.   *)
(* Only bodies that define the labels they use are of interest.            *)

Labelled(flat, at) ==
  FlattenSeq([p \in 1 .. Len(flat) + 1 |->
    [k \in 1 .. Cardinality({n \in DOMAIN at : at[n] = p}) |->
       LabelOf(<<<<Cardinality({n \in DOMAIN at : at[n] < p}) + k>>>>)]
      \o (IF p > Len(flat) THEN <<>>
          ELSE <<[flat[p] EXCEPT !.id = IF IsConditional(flat[p]) THEN p ELSE 0]>>)])

\* Where the labels stand; they are numbered in the order of the body.
Placements(flat) ==
  {at \in UNION {[1 .. n -> 1 .. Len(flat) + 1] : n \in 0 .. MaxLabels} :
     \A m, n \in DOMAIN at : m <= n => at[m] <= at[n]}

\* The IDO pass may put a label before the delay slot of p: a likely branch
\* goes to the label right after it.
TailShared(b, p) ==
  /\ p + 1 < Len(b) /\ ~IsLabel(b[p + 1]) /\ IsLabel(b[p + 2])
  /\ \E q \in DOMAIN b : /\ b[q].k = "likely" /\ q # p
                         /\ LabelPos(b, b[q].targets[1]) = p + 2

SharedTail(b) ==
  /\ \E p \in DOMAIN b : b[p].k = "likely"
  /\ \E m \in {MinimizedLabels(b)} : \E p \in DOMAIN m :
       m[p].k \in {"likely", "b"} /\ TailShared(m, p)

IsBody(b) ==
  /\ \A t \in Targets(b) : t = Ret \/ LabelPos(b, t) # None
  /\ TailLabel \/ ~SharedTail(b)

Init ==
  /\ \E f \in Files :
       /\ file = [arch |-> f.arch, mentioned |-> f.mentioned]
       /\ \E n \in 0 .. f.max, e \in f.ends : \E us \in [1 .. n -> f.units] :
            LET flat == FlattenSeq(us) \o e
            IN \E at \in Placements(flat) : source = Labelled(flat, at)
  /\ IsBody(source)
  /\ body = source
  /\ pc = "start"
  /\ pos = 1
  /\ builder = [label |-> <<>>, instrs |-> <<>>, blocks |-> <<>>, ok |-> TRUE]
  /\ likely = <<>>
  /\ condRet = FALSE
  /\ sp = 1
  /\ out = <<>>
  /\ bp = [block |-> 1, off |-> 1, target |-> <<>>, idle |-> 0]
  /\ last = <<>>

Build ==
  \/ VerifyNoTrailingDelaySlot
  \/ MinimizeLabels
  \/ NormalizeGccLikelyBranches
  \/ NormalizeIdoLikelyBranches
  \/ MinimizeLabelsAgain
  \/ ProcessLabel
  \/ ProcessNoDelaySlot
  \/ ProcessConditionalReturn
  \/ RejectLabelledSlot
  \/ ProcessLabelledSlot
  \/ CrashLabelledSlot
  \/ RejectTwoDelaySlots
  \/ ProcessLikely
  \/ RejectClobberedCall
  \/ ProcessCall
  \/ ProcessJump
  \/ FinishBlocks
  \/ StartRun

RunBlocks == Silent \/ RunOp \/ RunCall \/ RunCondition \/ EndOfBlock

Next == Build \/ SourceRun \/ RunBlocks

Spec == Init /\ [][Next]_vars

-----------------------------------------------------------------------------
(* Properties.                                                             *)

\* The blocks of build_blocks do what the body does on the processor: the same
\* conditions are read, the same instructions and calls run, in the same order,
\* except that an instruction that is its own repetition may run twice.  Nor do
\* the blocks run on by themselves: what the body did is matched before they have
\* gone through all their instructions once without an event.
SameBehaviour ==
  /\ pc # "diverged"
  /\ pc = "run" =>
       bp.idle <= FoldSeq(LAMBDA b, sum : sum + Len(b.instrs) + 1, 0, builder.blocks)

\* No assertion of build_blocks or BlockBuilder fails.
NoAssertionFails == pc # "crashed"

\* Every branch of a finished block leads to exactly one block, whatever labels
\* the passes moved, invented and dropped: no label waits for a block when the
\* next one is set ("Cannot have two labels in a row"), and, as
\* build_graph_from_block asserts, only the delay slot follows a jump.
BranchesResolve ==
  /\ builder.ok
  /\ pc = "built" =>
       \A n \in DOMAIN builder.blocks :
         LET is == builder.blocks[n].instrs
         IN /\ \A t \in Targets(is) : t = Ret \/ Cardinality(BlockWith(t)) = 1
            /\ \A p \in DOMAIN is : IsJump(is[p]) =>
                 Len(is) <= p + (IF HasDelaySlot(is[p]) THEN 1 ELSE 0)
=============================================================================
