------------------------------- MODULE Types -------------------------------
(***************************************************************************)
(* Type inference (types.py).                                              *)
(*                                                                         *)
(* A Type is a number; h.td[t] is its TypeData: the kinds it may still     *)
(* have, its size in bytes, and so on, None where it is unknown.  Types    *)
(* are joined by union-find: the record of a type that was joined into     *)
(* another keeps its fields and gets a parent.  h.sig are the function     *)
(* signatures, h.st the struct declarations; h.bare are types that only    *)
(* occur inside others and are never unified on their own, and h.bug tells *)
(* that an assertion of the code failed.                                   *)
(*                                                                         *)
(* Two parts of the program work on the heap: the translation of the       *)
(* functions, in any order of accesses (get_deref_field), uses (unify) and *)
(* calls (unify_with_args), and then prune_structs, which runs once over   *)
(* the structs in the order of a set of objects, that is, in any order.    *)
(***************************************************************************)
EXTENDS StructLayout

CONSTANTS Worlds,        \* heaps to start from, and the number of steps then
                         \* taken by the translation
          Offsets, Sizes \* what the loads and stores ask for

VARIABLES h,         \* the heap
          ops,       \* steps of the translation that are left
          pruned,    \* the structs prune_structs has been through
          access,    \* the last access and what it was resolved to
          layout     \* the layout of the struct the context declares

vars == <<h, ops, pruned, access, layout>>

None == -1

Regs    == {"int", "ptr", "float"}
AnyKind == Regs \cup {"fn", "void", "array", "struct"}
Signs   == {"s", "u"}

(* ---------------------- constructors of types ------------------------- *)

TypeAny    == [kind |-> AnyKind, likely |-> AnyKind, size |-> None, parent |-> None,
               sign |-> Signs, ptr_to |-> None, fn_sig |-> None, dim |-> None,
               struct |-> None, enum |-> None, within |-> {}]
OfKind(k)  == [TypeAny EXCEPT !.kind = k, !.likely = k]
any_reg    == OfKind(Regs)
any_field(s) == [OfKind(AnyKind \ {"void"}) EXCEPT !.within = {s}]
intptr     == OfKind({"int", "ptr"})
floatish   == OfKind({"float"})
int_of_size(n) == [OfKind({"int"}) EXCEPT !.size = n]
s32        == [int_of_size(4) EXCEPT !.sign = {"s"}]
u32        == [int_of_size(4) EXCEPT !.sign = {"u"}]
enum_type(e)   == [s32 EXCEPT !.enum = e]
f32        == [OfKind({"float"}) EXCEPT !.size = 4]
f64        == [OfKind({"float"}) EXCEPT !.size = 8]
reg32(likely_float) ==
    [any_reg EXCEPT !.size = 4,
                    !.likely = IF likely_float THEN {"float"} ELSE {"int", "ptr"}]
void       == [OfKind({"void"}) EXCEPT !.size = 0]
ptr(t, dim)  == [OfKind({"ptr"}) EXCEPT !.size = 4, !.ptr_to = t, !.dim = dim]
array(t, esize, dim) ==
    [OfKind({"array"}) EXCEPT !.ptr_to = t, !.dim = dim,
                              !.size = IF dim = None THEN None ELSE esize * dim]
function(sig)      == [OfKind({"fn"}) EXCEPT !.fn_sig = sig]
struct_type(s, size) == [OfKind({"struct"}) EXCEPT !.struct = s, !.size = size]

(* ------------------------ union-find, unify --------------------------- *)

RECURSIVE get_representative(_, _, _)
\* Follow the parents; steps bounds the walk, for a cycle of parents.
get_representative(td, t, steps) ==
    IF td[t].parent = None \/ steps = 0 THEN t
    ELSE get_representative(td, td[t].parent, steps - 1)
Rep(hp, t)  == get_representative(hp.td, t, Len(hp.td))
Data(hp, t) == hp.td[Rep(hp, t)]

Known(a, b)  == a # None /\ b # None
Either(a, b) == IF a # None THEN a ELSE b

\* The kinds a type of a known size cannot have.
TooWide(size) ==
    (IF size \in {None, 4, 8} THEN {} ELSE {"float"})
      \cup (IF size \in {None, 4} THEN {} ELSE {"ptr"})
      \cup (IF size = None THEN {} ELSE {"fn"})
      \cup (IF size \in {None, 0} THEN {} ELSE {"void"})

\* A mutant: only the size of the first type is kept.
JoinedFirstSize(X, Y) ==
    LET kind == (X.kind \cap Y.kind) \ TooWide(X.size) IN
    [X EXCEPT !.kind = kind, !.likely = X.likely \cap Y.likely \cap kind,
              !.sign = X.sign \cap Y.sign, !.ptr_to = Either(X.ptr_to, Y.ptr_to),
              !.fn_sig = Either(X.fn_sig, Y.fn_sig), !.dim = Either(X.dim, Y.dim),
              !.struct = Either(X.struct, Y.struct), !.enum = Either(X.enum, Y.enum),
              !.within = X.within \cup Y.within]

\* What unify works out before it touches anything.
Joined(X, Y) ==
    LET size == Either(X.size, Y.size)
        kind == (X.kind \cap Y.kind) \ TooWide(size)
    IN  [kind |-> kind, likely |-> X.likely \cap Y.likely \cap kind,
         size |-> IF kind = {"ptr"} THEN 4 ELSE size,
         parent |-> None, sign |-> X.sign \cap Y.sign,
         ptr_to |-> Either(X.ptr_to, Y.ptr_to), fn_sig |-> Either(X.fn_sig, Y.fn_sig),
         dim |-> IF Known(X.dim, Y.dim) /\ X.dim # Y.dim THEN 0 ELSE Either(X.dim, Y.dim),
         struct |-> Either(X.struct, Y.struct), enum |-> Either(X.enum, Y.enum),
         within |-> X.within \cup Y.within]

Yes(hp) == [h |-> hp, ok |-> TRUE,  bug |-> FALSE]
No(hp)  == [h |-> hp, ok |-> FALSE, bug |-> FALSE]

\* The assertions of unify on what it is about to store.
BadJoin(X, Y, m) ==
    \/ m.sign # Signs /\ m.kind \cap {"int", "ptr"} = {}
    \/ m.enum # None /\ m.kind # {"int"}
    \/ Known(X.dim, Y.dim) /\ m.kind \notin {{"array"}, {"ptr"}}

\* The parts that refuse after the types inside have been joined.
Refused(X, Y, m) ==
    \/ Known(X.dim, Y.dim) /\ m.kind = {"array"} /\ X.dim # Y.dim
    \/ Known(X.struct, Y.struct) /\ X.struct # Y.struct
    \/ Known(X.enum, Y.enum) /\ X.enum # Y.enum
    \/ Y.struct \in X.within
    \/ X.struct \in Y.within

RECURSIVE Unify(_, _, _, _), UnifyParams(_, _, _, _, _)

\* All parameters are tried, whatever happens to the earlier ones.
UnifyParams(r, ps, qs, i, seen) ==
    IF i > Len(ps) \/ i > Len(qs) THEN r
    ELSE LET u == Unify(r.h, ps[i], qs[i], seen)
         IN  UnifyParams([h |-> u.h, ok |-> r.ok /\ u.ok, bug |-> r.bug \/ u.bug],
                         ps, qs, i + 1, seen)

\* The shorter parameter list takes over the rest of the longer one.
Longer(ps, qs) == IF Len(qs) > Len(ps) THEN ps \o SubSeq(qs, Len(ps) + 1, Len(qs)) ELSE ps
Learn(S, O) ==
    IF S.known THEN S
    ELSE [S EXCEPT !.variadic = @ \/ O.variadic, !.known = O.known,
                   !.params = Longer(@, O.params)]

\* Two signatures whose types are unified learn from each other.
LearnBoth(r, s, o) ==
    LET S1 == Learn(r.h.sig[s], r.h.sig[o])
        h1 == [r.h EXCEPT !.sig[s] = S1]
    IN  IF r.ok THEN [r EXCEPT !.h = [h1 EXCEPT !.sig[o] = Learn(h1.sig[o], S1)]] ELSE r

\* FunctionSignature.unify.
UnifySig(hp, s, o, seen) ==
    LET S == hp.sig[s]  O == hp.sig[o] IN
    IF S.known /\ O.known /\ (S.variadic # O.variadic \/ Len(S.params) # Len(O.params))
    THEN No(hp)
    ELSE LearnBoth(UnifyParams(Unify(hp, S.ret, O.ret, seen), S.params, O.params, 1, seen), s, o)

\* A mutant: the types pointed to are joined, and the result ignored.
UnifyPtrAnyway(hp, X, Y, seen) ==
    IF Known(X.ptr_to, Y.ptr_to) THEN Yes(Unify(hp, X.ptr_to, Y.ptr_to, seen).h) ELSE Yes(hp)

UnifyPtr(hp, X, Y, seen) ==
    IF Known(X.ptr_to, Y.ptr_to) THEN Unify(hp, X.ptr_to, Y.ptr_to, seen) ELSE Yes(hp)

UnifyFn(r, X, Y, seen) ==
    IF r.ok /\ Known(X.fn_sig, Y.fn_sig)
    THEN LET u == UnifySig(r.h, X.fn_sig, Y.fn_sig, seen) IN [u EXCEPT !.bug = @ \/ r.bug]
    ELSE r

JoinParts(hp, X, Y, seen) == UnifyFn(UnifyPtr(hp, X, Y, seen), X, Y, seen)

\* Type.unify: true when a and b are one type from now on.  A failure keeps
\* what was joined on the way.
Unify(hp, a, b, seen) ==
    LET x == Rep(hp, a)  y == Rep(hp, b)  X == hp.td[x]  Y == hp.td[y]  m == Joined(X, Y) IN
    IF x = y THEN Yes(hp)
    ELSE IF x \in seen \/ y \in seen THEN No(hp)
    ELSE IF Known(X.size, Y.size) /\ X.size # Y.size THEN No(hp)
    ELSE IF m.kind = {} \/ m.sign = {} THEN No(hp)
    ELSE LET r   == JoinParts(hp, X, Y, seen \cup {x, y})
             bug == r.bug \/ BadJoin(X, Y, m)
         IN  IF ~r.ok \/ bug \/ Refused(X, Y, m) THEN [h |-> r.h, ok |-> FALSE, bug |-> bug]
             ELSE [h |-> [r.h EXCEPT !.td = [@ EXCEPT ![x] = m, ![y].parent = x]],
                   ok |-> TRUE, bug |-> FALSE]

\* FunctionSignature.unify_with_args: a prototype against the arguments.
UnifyWithArgs(hp, s, o) ==
    LET S == hp.sig[s]  O == hp.sig[o] IN
    IF Len(S.params) > Len(O.params) \/ (~S.variadic /\ Len(S.params) # Len(O.params))
    THEN No(hp)
    ELSE UnifyParams(Yes(hp), S.params, O.params, 1, {})

(* -------------------------- struct fields ----------------------------- *)

Bytes(hp, t)   == Data(hp, t).size
\* "get_size_bytes() or 1"
Width(hp, t)   == IF Bytes(hp, t) \in {None, 0} THEN 1 ELSE Bytes(hp, t)
NewId(hp)      == Len(hp.td) + 1
Alloc(hp, rec) == [hp EXCEPT !.td = Append(@, rec)]

Idx(i) == [k |-> "index", v |-> i]
Fld(n) == [k |-> "field", v |-> n]
NewName(off) == 100 + off        \* unkXX

Found(hp, path, t, rem) == [h |-> hp, found |-> TRUE, path |-> path, type |-> t, rem |-> rem]
Miss(hp) == [h |-> hp, found |-> FALSE, path |-> <<>>, type |-> None, rem |-> 0]

fields_containing_offset(hp, st, off) ==
    SelectSeq(st.fields, LAMBDA f : f.off <= off /\ off < f.off + Width(hp, f.type))

\* Two intervals overlap if one contains the start of the other.
Touches(hp, f, off, size) ==
    \/ off <= f.off /\ f.off < off + size
    \/ f.off <= off /\ off < f.off + Width(hp, f.type)

\* Where try_add_field may add a field.
Addable(hp, s, off, tsize) ==
    LET st == hp.st[s]  size == IF tsize \in {None, 0} THEN 1 ELSE tsize IN
    /\ ~st.is_union
    /\ st.size = None \/ (0 <= off /\ off < st.size)
    /\ \A i \in 1..Len(st.fields) : ~Touches(hp, st.fields[i], off, size)

\* The field is put in its place in the order of the offsets.
try_add_field(hp, s, off) ==
    LET new == [type |-> NewId(hp), off |-> off, name |-> NewName(off), known |-> FALSE]
        fs  == hp.st[s].fields
        lo  == SelectSeq(fs, LAMBDA f : f.off <= off)
    IN  [Alloc(hp, any_field(s)) EXCEPT
            !.st[s].fields = Append(lo, new) \o SubSeq(fs, Len(lo) + 1, Len(fs))]

\* The type itself, when it is asked for at its start.
WholeType(hp, t, off, tsize) ==
    IF off = 0 /\ (tsize = None \/ tsize = Bytes(hp, t)) THEN Found(hp, <<>>, t, 0) ELSE Miss(hp)

\* The result g of looking into field f is one more candidate.
Candidate(r, f, g, tsize) ==
    IF ~g.found THEN [r EXCEPT !.h = g.h]
    ELSE [h |-> g.h,
          results |-> Append(r.results, [path |-> <<Fld(f.name)>> \o g.path, type |-> g.type, rem |-> g.rem]),
          hit |-> tsize # None /\ tsize = Bytes(g.h, g.type) /\ g.rem = 0]

RECURSIVE get_field(_, _, _, _, _), TryFields(_, _, _, _, _, _)

\* The candidates one after the other; an exact match ends the search.
TryFields(r, fs, i, off, tsize, exact) ==
    IF i > Len(fs) \/ r.hit THEN r
    ELSE TryFields(Candidate(r, fs[i], get_field(r.h, fs[i].type, off - fs[i].off, tsize, exact), tsize),
                   fs, i + 1, off, tsize, exact)

Chosen(hp, c) == Found(hp, c.path, c.type, c.rem)

StructField(hp, t, off, tsize, exact) ==
    LET s     == Data(hp, t).struct
        st    == hp.st[s]
        all   == fields_containing_offset(hp, st, off)
        cands == IF st.is_union /\ st.preferred # None
                 THEN SelectSeq(all, LAMBDA f : f.name = st.preferred) ELSE all
        whole == IF ~st.is_stack /\ (tsize = None \/ tsize = Bytes(hp, t))
                 THEN <<[path |-> <<>>, type |-> t, rem |-> off]>> ELSE <<>>
        r     == TryFields([h |-> hp, results |-> whole, hit |-> FALSE],
                           cands, 1, off, tsize, exact)
        zero  == SelectSeq(r.results, LAMBDA c : c.rem = 0)
    IN  IF st.size # None /\ off >= st.size THEN Miss(hp)
        ELSE IF all = <<>> /\ st.has_bitfields THEN Miss(hp)
        ELSE IF r.hit THEN Chosen(r.h, r.results[Len(r.results)])
        ELSE IF zero # <<>> THEN Chosen(r.h, zero[1])
        ELSE IF exact /\ Addable(r.h, s, off, tsize)
          THEN Found(try_add_field(r.h, s, off), <<Fld(NewName(off))>>, NewId(r.h), 0)
        ELSE IF ~exact /\ r.results # <<>> THEN Chosen(r.h, r.results[1])
        ELSE WholeType(r.h, t, off, tsize)

ArrayField(hp, t, off, tsize, exact) ==
    LET D == Data(hp, t)
        size == Bytes(hp, D.ptr_to)
        r == get_field(hp, D.ptr_to, off % size, tsize, exact)
    IN  IF D.dim # None /\ off \div size >= D.dim THEN Miss(hp)
        ELSE IF r.found THEN [r EXCEPT !.path = <<Idx(off \div size)>> \o @] ELSE Miss(r.h)

get_field(hp, t, off, tsize, exact) ==
    LET k == Data(hp, t).kind IN
    IF off < 0 THEN Miss(hp)
    ELSE IF k = {"array"}  THEN ArrayField(hp, t, off, tsize, exact)
    ELSE IF k = {"struct"} THEN StructField(hp, t, off, tsize, exact)
    ELSE WholeType(hp, t, off, tsize)

get_pointer_target(hp, t) == IF Data(hp, t).kind = {"ptr"} THEN Data(hp, t).ptr_to ELSE None

\* A mutant: one element past the end of a known array is still trusted.
DimensionPlusOne(dim, index) == dim # None /\ 0 <= index /\ index <= dim

InDimension(dim, index) == dim # None /\ 0 <= index /\ index < dim

get_deref_field(hp, t, off, tsize, exact) ==
    LET target == get_pointer_target(hp, t)
        size   == Bytes(hp, target)
        index  == IF size \in {None, 0} THEN 0 ELSE off \div size
        inner  == IF size \in {None, 0} THEN off ELSE off % size
        r      == get_field(hp, target, inner, tsize, exact)
    IN  IF target = None THEN Miss(hp)
        ELSE IF index # 0 /\ ~InDimension(Data(hp, t).dim, index) THEN Miss(hp)
        ELSE IF r.found THEN [r EXCEPT !.path = <<Idx(index)>> \o @] ELSE r

(* ----------------------- prune_overlapping_fields --------------------- *)

is_int(hp, t) == Data(hp, t).kind = {"int"}

\* The fake field at the end of a struct of known size.
EndField(t, size) ==
    IF size = None THEN <<>> ELSE <<[type |-> t, off |-> size, name |-> None, known |-> TRUE]>>

\* A mutant: a field that does not fit becomes a word.
ShrunkToWord(off) == int_of_size(4)

\* A field that does not fit is cut off where the next one begins.
Shrunk(off) == IF off >= 4 THEN any_reg ELSE int_of_size(off)

\* Fields f and f2 overlap.  a holds the heap, the names of the fields f takes
\* over, the offset of the first of them and the new type f may be reset to;
\* at is that offset if f2 is taken over, g the field of f that is where f2
\* is, and u the result of unifying the two.
Conflict(a, f, f2, at, g, u) ==
    LET h1 == IF g.found THEN [u.h EXCEPT !.bug = @ \/ u.bug] ELSE g.h IN
    IF g.found /\ u.ok
      THEN [a EXCEPT !.h = h1, !.first = at, !.takes = Append(@, f2.name)]
    ELSE IF ~f2.known /\ is_int(h1, f2.type) /\ is_int(h1, f.type)
      THEN [a EXCEPT !.h = h1]
    ELSE [a EXCEPT !.h = Alloc(h1, Shrunk(at)), !.cut = TRUE, !.reset = NewId(h1),
                   !.takes = IF at = 0 THEN <<f.name>> ELSE <<>>]

TakeOver(a, f, f2, at, g) == Conflict(a, f, f2, at, g, Unify(g.h, g.type, f2.type, {}))

RECURSIVE Conflicts(_, _, _, _)
\* The inner loop.
Conflicts(a, f, later, i) ==
    IF i > Len(later) \/ a.cut THEN a
    ELSE LET f2 == later[i]  off == f2.off - f.off IN
         IF f2.off >= f.off + a.size THEN a
         ELSE Conflicts(
           IF f2.name \in a.removed THEN a
           ELSE TakeOver(a, f, f2, IF a.takes # <<>> THEN a.first ELSE off,
                         get_field(a.h, f.type, off, Bytes(a.h, f2.type), TRUE)),
           f, later, i + 1)

RECURSIVE PruneFrom(_, _, _, _, _)
\* Field i gets what its conflicts a have left it.
PruneField(a, s, end, i) ==
    PruneFrom([a.h EXCEPT !.st[s].fields[i].type = a.reset], s, end, i + 1, a.removed \cup ToSet(a.takes))

\* The loop over the fields; end is the type of the fake field.
PruneFrom(hp, s, end, i, removed) ==
    LET st == hp.st[s]  f == st.fields[i] IN
    IF i > Len(st.fields)
      THEN [hp EXCEPT !.st[s].fields = SelectSeq(@, LAMBDA x : x.name \notin removed)]
    ELSE IF f.known \/ f.name \in removed THEN PruneFrom(hp, s, end, i + 1, removed)
    ELSE PruneField(Conflicts([h |-> hp, takes |-> <<>>, first |-> 0, cut |-> FALSE, reset |-> f.type,
                               removed |-> removed, size |-> Width(hp, f.type)],
                              f, SubSeq(st.fields, i + 1, Len(st.fields)) \o EndField(end, st.size), 1),
                    s, end, i)

\* Sorted by offset, with bigger fields at the same offset first.
BiggestFirst(hp, fields) ==
    LET size == [i \in DOMAIN fields |-> Max({0, Bytes(hp, fields[i].type)})]
        Before(i, j) ==
          \/ fields[i].off < fields[j].off
          \/ fields[i].off = fields[j].off /\ size[i] > size[j]
          \/ fields[i].off = fields[j].off /\ size[i] = size[j] /\ i < j
    IN  FoldLeft(LAMBDA sorted, i : Append(sorted, fields[i]), <<>>,
                 SetToSortSeq(DOMAIN fields, Before))

prune_overlapping_fields(hp, s) ==
    IF hp.st[s].is_union THEN hp
    ELSE PruneFrom(Alloc([hp EXCEPT !.st[s].fields = BiggestFirst(hp, @)], void), s, NewId(hp), 1, {})

(* ------------------------------ printing ------------------------------ *)

min_size(hp, s) ==
    LET st == hp.st[s] IN
    IF st.size # None THEN st.size
    ELSE Max({0} \cup {st.fields[i].off + Width(hp, st.fields[i].type) : i \in 1..Len(st.fields)})

RECURSIVE Initializer(_, _, _, _, _)
\* The loop of get_initializer_fields: the sizes of fields and of padding.
Initializer(hp, st, i, pos, out) ==
    LET f == st.fields[i]  size == Bytes(hp, f.type) IN
    IF i > Len(st.fields) \/ (st.is_union /\ i > 1) THEN [ok |-> TRUE, pos |-> pos, out |-> out]
    ELSE IF f.off < pos \/ size = None THEN [ok |-> FALSE, pos |-> pos, out |-> out]
    ELSE Initializer(hp, st, i + 1, f.off + size,
                     (IF f.off > pos THEN Append(out, f.off - pos) ELSE out) \o <<size>>)

\* None when there is no initializer, otherwise the sizes of its items.
get_initializer_fields(hp, s) ==
    LET st == hp.st[s]
        r  == Initializer(hp, st, 1, 0, <<>>)
        end == min_size(hp, s)
    IN  IF st.has_bitfields \/ ~r.ok \/ (st.size # None /\ r.pos > st.size) THEN None
        ELSE FoldSeq(LAMBDA n, sum : n + sum, 0,
                     IF end > r.pos THEN Append(r.out, end - r.pos) ELSE r.out)

(* ----------------------- types of the context ------------------------- *)

Struct(size, union, stack, bits, fields) ==
    [size |-> size, fields |-> fields, is_union |-> union, is_stack |-> stack,
     has_bitfields |-> bits, preferred |-> None]

Result(hp) == [h |-> hp, type |-> Len(hp.td)]    \* the type just allocated

RECURSIVE ctype(_, _), from_ctype(_, _), KnownFields(_, _, _)

\* Type.ctype, with one pointer type, void *.
ctype(hp, t) ==
    CASE t.c = "prim"   -> Result(Alloc(hp, [int_of_size(t.size) EXCEPT !.sign = {"s"}]))
      [] t.c = "ptr"    -> Result(Alloc(Alloc(hp, void), ptr(NewId(hp), None)))
      [] t.c = "array"  -> LET e == ctype(hp, t.of)
                           IN  Result(Alloc(e.h, array(e.type, Bytes(e.h, e.type), t.dim)))
      [] t.c = "struct" -> LET h1 == from_ctype(hp, t) s == Len(hp.st) + 1
                           IN  Result(Alloc(h1, struct_type(s, h1.st[s].size)))

\* The struct s gets the field f, whose type is r.
WithField(r, s, f) ==
    [r.h EXCEPT !.st[s].fields =
                  Append(@, [type |-> r.type, off |-> f.off, name |-> f.name, known |-> TRUE]),
                !.bug = @ \/ f.size # Bytes(r.h, r.type)]

\* The fields of a declaration; those of type UNK_TYPE are left to inference.
KnownFields(hp, s, fs) ==
    IF fs = <<>> THEN hp
    ELSE IF Head(fs).unk THEN KnownFields(hp, s, Tail(fs))
    ELSE KnownFields(WithField(ctype(hp, Head(fs).type), s, Head(fs)), s, Tail(fs))

\* StructDeclaration.from_ctype: the struct is registered before its fields.
from_ctype(hp, t) ==
    LET r == do_parse_struct(t)
        h1 == [hp EXCEPT !.st  = Append(@, Struct(r.size, t.union, FALSE, r.bitfields # <<>>, <<>>)),
                         !.bug = @ \/ r.size % r.align # 0]
    IN  KnownFields(h1, Len(h1.st), SortSeq(r.fields, LAMBDA f, g : f.off < g.off))

(* ----------------------------- behaviour ------------------------------ *)

NoAccess == [at |-> None]

Init ==
    /\ \E w \in Worlds : h = w.h /\ layout = w.layout /\ ops = w.ops
    /\ pruned = {} /\ access = NoAccess

InTranslation == ops > 0 /\ pruned = {}
Types         == 1..Len(h.td)

\* A load, a store or an address through pointer p.
Access(p, off, tsize, exact) ==
    /\ InTranslation
    /\ \E r \in {get_deref_field(h, p, off, tsize, exact)} :
        /\ h' = r.h
        /\ access' = IF ~r.found THEN NoAccess
                     ELSE [at |-> p, off |-> off, exact |-> exact,
                           path |-> r.path, type |-> r.type, rem |-> r.rem]
    /\ ops' = ops - 1
    /\ UNCHANGED <<pruned, layout>>

\* A use of one value where the other is expected.
Use(a, b) ==
    /\ InTranslation
    /\ \E r \in {Unify(h, a, b, {})} : h' = [r.h EXCEPT !.bug = @ \/ r.bug]
    /\ ops' = ops - 1 /\ access' = NoAccess
    /\ UNCHANGED <<pruned, layout>>

\* A call through a prototype.
Call(s, o) ==
    /\ InTranslation
    /\ \E r \in {UnifyWithArgs(h, s, o)} : h' = [r.h EXCEPT !.bug = @ \/ r.bug]
    /\ ops' = ops - 1 /\ access' = NoAccess
    /\ UNCHANGED <<pruned, layout>>

\* prune_structs, one struct.
Prune(s) ==
    /\ s \notin pruned
    /\ h' = prune_overlapping_fields(h, s)
    /\ pruned' = pruned \cup {s}
    /\ access' = NoAccess
    /\ UNCHANGED <<ops, layout>>

Next ==
    \/ \E p \in Types, off \in Offsets, tsize \in Sizes, exact \in BOOLEAN :
          get_pointer_target(h, p) # None /\ Access(p, off, tsize, exact)
    \/ \E a, b \in Types \ h.bare : a # b /\ Use(a, b)
    \/ \E s, o \in 1..Len(h.sig) : s # o /\ Call(s, o)
    \/ \E s \in 1..Len(h.st) : Prune(s)

Spec == Init /\ [][Next]_vars

-----------------------------------------------------------------------------
(* Properties.                                                             *)

Joined2(a, b) == Rep(h, a) = Rep(h, b)

\* A type that can only be a struct, an array or a function has the
\* declaration, the element type of known size or the signature that get_field
\* and _to_ctype take for granted.
WellFormed(R) ==
    /\ R.kind # {}
    /\ R.kind = {"struct"} => R.struct # None
    /\ R.kind = {"array"}  => R.ptr_to # None /\ Bytes(h, R.ptr_to) # None
    /\ R.kind = {"fn"}     => R.fn_sig # None

\* Everything that was ever known of a type holds of its representative, and
\* the types inside two joined types are joined themselves: a unify that
\* fails halfway, or one that is refused because a type was already being
\* joined, leaves no type that is equal to another in name only.  No assertion
\* of types.py fails on the way (h.bug).
KeepsEveryFact ==
  /\ ~h.bug
  /\ \A t \in Types :
      LET D == h.td[t]  R == Data(h, t) IN
      /\ R.kind \subseteq D.kind /\ R.sign \subseteq D.sign /\ D.within \subseteq R.within
      /\ R.parent = None /\ WellFormed(R)
      /\ D.size # None   => R.size = D.size
      /\ D.struct # None => R.struct = D.struct
      /\ D.enum # None   => R.enum = D.enum
      /\ D.ptr_to # None => Joined2(D.ptr_to, R.ptr_to)
      /\ D.fn_sig # None =>
            LET S == h.sig[D.fn_sig]  O == h.sig[R.fn_sig] IN
            /\ Joined2(S.ret, O.ret)
            /\ \A i \in DOMAIN S.params \cap DOMAIN O.params : Joined2(S.params[i], O.params[i])

\* "Types cannot change except for improvements": a step of the translation
\* or of prune_structs never gives a type a kind or a size back, and types
\* that are equal stay equal.
TypesOnlyImprove ==
    [][ \A t \in Types :
          /\ Data(h', t).kind \subseteq Data(h, t).kind
          /\ Data(h', t).sign \subseteq Data(h, t).sign
          /\ Data(h, t).size # None => Data(h', t).size = Data(h, t).size
          /\ Rep(h', t) = Rep(h', Rep(h, t)) ]_vars

RECURSIVE Walk(_, _)
\* The offset and the type a path leads to, inside every array on its way.
Walk(t, path) ==
    IF path = <<>> THEN [off |-> 0, type |-> t, inside |-> TRUE]
    ELSE LET D == Data(h, t)  e == Head(path)
             f == IF e.k = "index" THEN [off |-> e.v * Bytes(h, D.ptr_to), type |-> D.ptr_to]
                  ELSE LET fs == h.st[D.struct].fields
                       IN  fs[CHOOSE i \in 1..Len(fs) : fs[i].name = e.v]
             w == Walk(f.type, Tail(path))
         IN  [w EXCEPT !.off = @ + f.off,
                       !.inside = @ /\ (e.k = "index" => D.dim = None \/ e.v < D.dim)]

\* get_field promises the field "at (offset - remaining_offset)", and nothing
\* remains when the caller asked for an exact match: the path an access is
\* printed with denotes the bytes the instruction touched.
AccessesAreExact ==
    access # NoAccess =>
      LET target == get_pointer_target(h, access.at)
          index  == Head(access.path).v
          w      == Walk(target, Tail(access.path))
      IN  /\ w.type = access.type /\ w.inside
          /\ (IF index = 0 THEN 0 ELSE index * Bytes(h, target)) + w.off + access.rem = access.off
          /\ access.exact => access.rem = 0
          /\ index # 0 => index < Data(h, access.at).dim

\* prune_overlapping_fields leaves no inferred field that overlaps another
\* one, but for two inferred integers, and the fields in order, so that the
\* struct can be printed.
PrunedFieldsAreDisjoint ==
    \A s \in pruned :
      LET fs == h.st[s].fields IN
      ~h.st[s].is_union =>
        \A i, j \in 1..Len(fs) :
          i < j /\ ~(fs[i].known /\ fs[j].known) =>
            \/ fs[i].off + Width(h, fs[i].type) <= fs[j].off
            \/ ~fs[i].known /\ ~fs[j].known /\ is_int(h, fs[i].type) /\ is_int(h, fs[j].type)

\* A struct the context declares is laid out as LayoutIsSound says, and an
\* initializer describes every byte of a struct once.
LayoutSound ==
    /\ LayoutIsSound(layout)
    /\ \A s \in 1..Len(h.st) :
         LET size == get_initializer_fields(h, s) IN size # None => size = min_size(h, s)
=============================================================================
