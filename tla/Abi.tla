--------------------------------- MODULE Abi ---------------------------------
(***************************************************************************)
(* function_abi of the architectures: which registers and stack words hold *)
(* the parameters of a function.  It is computed from the signature twice, *)
(* when the function is translated and when a call of it is, and from the  *)
(* registers that are likely to hold arguments when the signature is not   *)
(* known.                                                                  *)
(*                                                                         *)
(* A parameter is its size, its alignment and whether it is floating point;*)
(* a slot is its location (stack offset and register, None when absent)    *)
(* and the word of the parameter it holds; parameter 0 is the pointer to   *)
(* where a struct result goes.                                             *)
(***************************************************************************)
EXTENDS Integers, Sequences, FiniteSets, SequencesExt, Functions

CONSTANTS
  ParamTypes,   \* records [size, align, float]
  MaxParams,
  ReturnSizes   \* sizes of returned structs, 0 for a result that is no struct

VARIABLES arch, sig, likely, abi

vars == <<arch, sig, likely, abi>>

None == "none"
NoOffset == -1
Archs == {"o32", "ee", "ppc", "arm", "sh2"}

Signatures ==
  [params_known : {TRUE}, params : UNION {[1 .. n -> ParamTypes] : n \in 0 .. MaxParams},
   is_variadic : BOOLEAN, return_size : ReturnSizes]
  \cup [params_known : {FALSE}, params : {<<>>}, is_variadic : {FALSE}, return_size : {0}]

Slot(offset, reg, param, word) == [offset |-> offset, reg |-> reg, param |-> param, word |-> word]

RoundUp(n, align) == ((n + align - 1) \div align) * align
Words(p) == (p.size + 3) \div 4

-----------------------------------------------------------------------------
(* Known slots.  A fold over the parameters; st is the offset reached, the *)
(* slots, and whether all parameters so far are floating point.            *)

\* The words of a parameter, as a sequence of slots.
WordSlots(ind, p, first, LocOf(_)) ==
  [w \in 1 .. Words(p) |-> Slot(LocOf(first + w - 1)[1], LocOf(first + w - 1)[2], ind, w)]

A(i) == <<"a0", "a1", "a2", "a3">>[i + 1]
R(i) == <<"r0", "r1", "r2", "r3", "r4", "r5", "r6", "r7">>[i + 1]

O32Loc(i) == <<4 * i, IF i < 4 THEN A(i) ELSE None>>
ArmLoc(i) == IF i < 4 THEN <<NoOffset, R(i)>> ELSE <<4 * (i - 4), None>>
ShLoc(i)  == IF i < 4 THEN <<NoOffset, R(i + 4)>> ELSE <<4 * (i - 4), None>>

\* MipsArch: the first two parameters may go to f12 and f14; a double has a
\* second half, which a call does not pass on its own.
O32Place(st, ind, p, for_call, offset, size) ==
  LET floats == st.only_floats /\ p.float
      regs   == IF ind = 1 THEN <<"f12", "f13">> ELSE <<"f14", "f15">>
      new    == IF ind <= 2 /\ floats
                THEN <<Slot(offset, regs[1], ind, 1)>>
                     \o (IF p.size = 8 /\ ~for_call THEN <<Slot(offset + 4, regs[2], ind, 2)>> ELSE <<>>)
                ELSE WordSlots(ind, p, offset \div 4, O32Loc)
  IN [st EXCEPT !.offset = offset + size, !.only_floats = floats, !.slots = @ \o new]

\* Mutant: the alignment of a parameter is ignored.
o32_param_unaligned(st, ind, p, for_call) == O32Place(st, ind, p, for_call, st.offset, 4 * Words(p))

\* Mutant: a call counts a double as the one register it passes.
o32_param_short(st, ind, p, for_call) ==
  O32Place(st, ind, p, for_call, RoundUp(st.offset, p.align), IF for_call /\ p.float THEN 4 ELSE 4 * Words(p))

o32_param(st, ind, p, for_call) ==
  O32Place(st, ind, p, for_call, RoundUp(st.offset, p.align), 4 * Words(p))

\* ArmArch
arm_param(st, ind, p) ==
  LET offset == RoundUp(st.offset, p.align)
  IN [st EXCEPT !.offset = offset + 4 * Words(p), !.slots = @ \o WordSlots(ind, p, offset \div 4, ArmLoc)]

\* Sh2Arch, which aligns nothing.
sh2_param(st, ind, p) ==
  [st EXCEPT !.offset = @ + 4 * Words(p), !.slots = @ \o WordSlots(ind, p, st.offset \div 4, ShLoc)]

\* PpcArch: one register of its kind for every parameter.
IntRegs(a)   == IF a = "ee" THEN <<"a0", "a1", "a2">> ELSE <<"r3", "r4", "r5">>
FloatRegs(a) == IF a = "ee" THEN <<"f12", "f13">> ELSE <<"f1", "f2">>

ppc_param(st, ind, p) ==
  LET free == IF p.float THEN st.floats ELSE st.ints
  IN IF free = <<>>
     THEN [st EXCEPT !.offset = @ + 4, !.slots = Append(@, Slot(st.offset, None, ind, 1))]
     ELSE [st EXCEPT !.slots = Append(@, Slot(NoOffset, free[1], ind, 1)),
                     !.ints = IF p.float THEN @ ELSE SubSeq(@, 2, Len(@)),
                     !.floats = IF p.float THEN SubSeq(@, 2, Len(@)) ELSE @]

\* MipseeArch repeats it.
ee_param(st, ind, p) == ppc_param(st, ind, p)

\* What comes before the parameters: the pointer for a returned struct.
FirstSlot(a) ==
  [o32 |-> Slot(0, "a0", 0, 1), arm |-> Slot(NoOffset, "r0", 0, 1), sh2 |-> Slot(NoOffset, "r2", 0, 1)][a]

ReturnPointer(a, size) ==
  CASE a = "o32" -> size > 0
    [] a = "arm" -> size > 4
    [] a = "sh2" -> size > 8
    [] OTHER     -> FALSE

Start(a, s) ==
  LET ptr == ReturnPointer(a, s.return_size)
  IN [offset |-> IF ptr /\ a # "sh2" THEN 4 ELSE 0, only_floats |-> ~ptr,
      slots |-> IF ptr THEN <<FirstSlot(a)>> ELSE <<>>,
      ints |-> IntRegs(a), floats |-> FloatRegs(a)]

Layout(a, s, for_call) ==
  FoldLeftDomain(LAMBDA st, i :
                   CASE a = "o32" -> o32_param(st, i, s.params[i], for_call)
                     [] a = "arm" -> arm_param(st, i, s.params[i])
                     [] a = "sh2" -> sh2_param(st, i, s.params[i])
                     [] a = "ppc" -> ppc_param(st, i, s.params[i])
                     [] a = "ee"  -> ee_param(st, i, s.params[i]),
                 Start(a, s), s.params)

-----------------------------------------------------------------------------
(* Candidates, when there is no signature or it is variadic.               *)

default_function_abi_candidate_slots(a) ==
  CASE a = "o32" -> <<"f12", "f13", "f14", "f15", "a0", "a1", "a2", "a3">>
    [] a = "arm" -> [i \in 1 .. 4 |-> R(i - 1)]
    [] a = "sh2" -> [i \in 1 .. 4 |-> R(i + 3)]
    [] OTHER     -> IntRegs(a) \o FloatRegs(a)

VariadicCandidates(a, st) ==
  LET first == st.offset \div 4
      From(l) == [i \in 1 .. IF first < 4 THEN 4 - first ELSE 0 |-> l[first + i]]
  IN CASE a = "o32" -> From(<<"a0", "a1", "a2", "a3">>)
       [] a = "arm" -> From([i \in 1 .. 4 |-> R(i - 1)])
       [] a = "sh2" -> From([i \in 1 .. 4 |-> R(i + 3)])
       [] OTHER     -> st.ints \o st.floats

\* One of these has to be an argument for the register to be one; {} when
\* there is no such condition.
O32Require(reg) ==
  CASE reg \in {"f13", "f14"} -> {"f12"}
    [] reg = "f15" -> {"f14"}
    [] reg = "a1"  -> {"a0", "f12"}
    [] reg = "a2"  -> {"a1", "f13", "f14"}
    [] reg = "a3"  -> {"a2"}
    [] OTHER       -> {}

ArmRequire(reg) == {R(i) : i \in {j \in 0 .. 2 : R(j + 1) = reg}}

Before(regs, reg) == {regs[i] : i \in {j \in 1 .. Len(regs) - 1 : regs[j + 1] = reg}}

PpcRequire(reg) == Before(IntRegs("ppc"), reg) \cup Before(FloatRegs("ppc"), reg)
EeRequire(reg)  == Before(IntRegs("ee"), reg) \cup Before(FloatRegs("ee"), reg)

Require(a, reg) ==
  CASE a = "o32" -> O32Require(reg)
    [] a = "arm" -> ArmRequire(reg)
    [] a = "ppc" -> PpcRequire(reg)
    [] a = "ee"  -> EeRequire(reg)

\* Mutant: only the registers that were set for the call are likely.
arm_likely_as_given(lk) == lk

\* ArmArch: a likely register makes the ones before it likely.
arm_likely(lk) ==
  [r \in DOMAIN lk |->
     \/ lk[r]
     \/ \E i \in 0 .. 3 : /\ R(i) = r
                          /\ \E j \in i + 1 .. 3 : (\A k \in 0 .. j : R(k) \in DOMAIN lk) /\ lk[R(j)]]

\* The loop over the candidates; valid is valid_extra_regs.
candidate(a, all, for_call, lk, st, reg) ==
  IF \/ reg \notin DOMAIN lk
     \/ reg # all[1] /\ Require(a, reg) # {} /\ Require(a, reg) \cap st.valid = {}
  THEN st
  ELSE [valid |-> st.valid \cup {reg},
        possible |-> IF a = "o32" /\ reg \in {"f13", "f15"} /\ for_call THEN st.possible
                     ELSE IF lk[reg] THEN Append(st.possible, reg) ELSE st.possible]

\* Sh2Arch: up to the last likely register of those that are set without a gap.
sh2_possible(candidates, lk) ==
  LET set == {i \in 4 .. 7 : \A j \in 4 .. i : R(j) \in DOMAIN lk}
      upto == {i \in set : lk[R(i)]}
  IN SelectSeq(candidates, LAMBDA r : \E i \in upto, j \in 4 .. 7 : j <= i /\ R(j) = r)

function_abi(a, s, lk, for_call) ==
  LET st         == Layout(a, s, for_call)
      known      == IF s.params_known THEN st.slots ELSE <<>>
      candidates == IF ~s.params_known THEN default_function_abi_candidate_slots(a)
                    ELSE IF s.is_variadic THEN VariadicCandidates(a, st) ELSE <<>>
      likely_    == IF a = "arm" THEN arm_likely(lk) ELSE lk
  IN [arg_slots |-> known,
      possible_slots |->
        IF a = "sh2" THEN sh2_possible(candidates, lk)
        ELSE FoldLeft(LAMBDA acc, r : candidate(a, candidates, for_call, likely_, acc, r),
                      [valid |-> {known[i].reg : i \in DOMAIN known}, possible |-> <<>>], candidates).possible]

-----------------------------------------------------------------------------
(* likely says of every argument register that is set at the call whether  *)
(* it was set for the call; only signatures that are not known or variadic *)
(* depend on it.                                                           *)

ArgumentRegs(a) == ToSet(default_function_abi_candidate_slots(a))

Likelies(a, s) ==
  IF s.params_known /\ ~s.is_variadic THEN {<<>>}
  ELSE IF s.params_known THEN {[r \in ArgumentRegs(a) |-> TRUE]}
  ELSE UNION {[d -> BOOLEAN] : d \in SUBSET ArgumentRegs(a)}

Init ==
  /\ arch \in Archs
  /\ sig \in Signatures
  /\ likely \in Likelies(arch, sig)
  /\ abi = <<>>

\* translate_to_ast asks for the function itself, make_function_call for a call.
Compute ==
  /\ abi = <<>>
  /\ abi' = [callee |-> function_abi(arch, sig, likely, FALSE), caller |-> function_abi(arch, sig, likely, TRUE)]
  /\ UNCHANGED <<arch, sig, likely>>

Done == abi # <<>> /\ UNCHANGED vars

Next == Compute \/ Done

Spec == Init /\ [][Next]_vars

-----------------------------------------------------------------------------
OneRegister == arch \in {"ppc", "ee"}

\* Registers and stack words are used once: no two words of parameters share
\* one, every word of every parameter has one (every parameter, where a
\* parameter is one register), and words of an aligned parameter are aligned.
ParametersHaveTheirOwnSlots ==
  abi # <<>> /\ sig.params_known =>
    LET slots == abi.callee.arg_slots IN
    /\ \A i, j \in DOMAIN slots : i # j =>
         /\ slots[i].reg # None => slots[i].reg # slots[j].reg
         /\ slots[i].offset # NoOffset => slots[i].offset # slots[j].offset
         /\ <<slots[i].param, slots[i].word>> # <<slots[j].param, slots[j].word>>
    /\ \A p \in DOMAIN sig.params :
         {slots[i].word : i \in {k \in DOMAIN slots : slots[k].param = p}}
           = (IF OneRegister THEN {1} ELSE 1 .. Words(sig.params[p]))
    /\ arch = "o32" => \A i \in DOMAIN slots : slots[i].param > 0 /\ slots[i].word = 1 =>
                         slots[i].offset % sig.params[slots[i].param].align = 0
    /\ \A i \in DOMAIN slots : slots[i].reg # None \/ slots[i].offset # NoOffset

\* A call passes arguments where the function looks for them; a double is
\* passed as its first register alone.
CallerAndCalleeAgree ==
  abi # <<>> =>
    /\ abi.caller.arg_slots = SelectSeq(abi.callee.arg_slots, LAMBDA s : s.reg \notin {"f13", "f15"} \/ arch # "o32")
    /\ abi.caller.possible_slots = SelectSeq(abi.callee.possible_slots, LAMBDA r : r \notin {"f13", "f15"} \/ arch # "o32")

\* Guessed arguments are registers that are set, are not those of known
\* parameters, and, on architectures with one kind of register, leave no gap: an
\* argument is not dropped between two others.
GuessedArgumentsLeaveNoGap ==
  abi # <<>> =>
    LET guessed == ToSet(abi.callee.possible_slots) IN
    /\ guessed \subseteq DOMAIN likely
    /\ guessed \cap {abi.callee.arg_slots[i].reg : i \in DOMAIN abi.callee.arg_slots} = {}
    /\ arch \in {"arm", "sh2"} /\ ~sig.params_known =>
         LET regs == default_function_abi_candidate_slots(arch)
         IN \A i, j \in DOMAIN regs : i < j /\ regs[j] \in guessed => regs[i] \in guessed
=============================================================================
