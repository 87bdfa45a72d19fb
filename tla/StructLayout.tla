---------------------------- MODULE StructLayout ----------------------------
(***************************************************************************)
(* The layout of C structs and unions from the context file (c_types.py:   *)
(* parse_struct_member, do_parse_struct).                                  *)
(*                                                                         *)
(* A C type is Prim(n), Unk(n) (a type named UNK_TYPEn, left for inference)*)
(* CPtr, Arr(t, dim) or Agg(union, packed, base, decls), base being the    *)
(* alignment every struct has at least (base_struct_align).  A declaration *)
(* inside a struct has a name, a type, an alignment attribute              *)
(* (0 when there is none), a packed attribute and the width of a bitfield  *)
(* (NoBits for an ordinary member); a member with name NoName and a struct *)
(* type is an anonymous struct, whose members are flattened into the       *)
(* outer one.  All sizes are bytes.                                        *)
(***************************************************************************)
EXTENDS Integers, Sequences, FiniteSets, FiniteSetsExt, SequencesExt

NoBits == -1
NoName == 0

Prim(n)      == [c |-> "prim", size |-> n, unk |-> FALSE]
Unk(n)       == [c |-> "prim", size |-> n, unk |-> TRUE]
CPtr         == [c |-> "ptr"]
Arr(t, dim)  == [c |-> "array", of |-> t, dim |-> dim]
Agg(union, packed, base, decls) ==
    [c |-> "struct", union |-> union, packed |-> packed, base |-> base, decls |-> decls]

Decl(name, t)        == [name |-> name, type |-> t, over |-> 0,
                         packed |-> FALSE, bits |-> NoBits]
BitDecl(name, t, w)  == [Decl(name, t) EXCEPT !.bits = w]

RoundUp(n, a) == ((n + a - 1) \div a) * a
Smaller(a, b) == IF a < b THEN a ELSE b
Larger(a, b)  == IF a > b THEN a ELSE b

-----------------------------------------------------------------------------
(* The running state of do_parse_struct.                                   *)

Start(base) == [offset |-> 0, bit |-> 0, align |-> base, usize |-> 0, ok |-> TRUE,
          fields |-> <<>>, bitfields |-> <<>>]

\* A mutant: pending bits are not rounded up before the next member.
NoFlush(s, union) == s

flush_bitfields(s, union) ==
    IF ~union /\ s.bit # 0 THEN [s EXCEPT !.bit = 0, !.offset = @ + 1] ELSE s

\* A member of a union starts at 0 and widens it; one of a struct moves on.
Advance(s, union, size) ==
    IF union THEN [s EXCEPT !.usize = Larger(@, size)]
             ELSE [s EXCEPT !.offset = @ + size]

\* An ordinary member.  m is the size and alignment of its type.
Placed(s, d, union, pack, m) ==
    LET salign == IF pack # 0 THEN pack ELSE Larger(m.align, d.over)
        off    == RoundUp(s.offset, salign)
    IN  Advance([s EXCEPT !.offset = off,
                          !.align  = Larger(@, salign),
                          !.fields = Append(@, [off |-> off, size |-> m.size, name |-> d.name,
                                                type |-> d.type, align |-> salign, flat |-> -1,
                                                unk |-> d.type.c = "prim" /\ d.type.unk])],
                union, m.size)

\* A bitfield: it may not straddle a boundary of its own type unless it is
\* packed, and pads no byte it can share.
PlacedBits(s, d, union, pack, m) ==
    LET last   == s.offset + (s.bit + d.bits - 1) \div 8
        moved  == s.offset \div m.size # last \div m.size /\ pack = 0
        off    == IF moved THEN ((s.offset + m.size) \div m.size) * m.size ELSE s.offset
        bit    == IF moved THEN 0 ELSE s.bit
        noted  == [s EXCEPT !.align     = Larger(@, m.align),
                            !.offset    = off,
                            !.bit       = bit,
                            !.bitfields = Append(@, [pos |-> 8 * off + bit, width |-> d.bits,
                                                     unit |-> m.size, packed |-> pack # 0])]
    IN  IF d.bits = 0 THEN [s EXCEPT !.align = Larger(@, m.align)]
        ELSE IF d.bits > 8 * m.size THEN [s EXCEPT !.ok = FALSE]
        ELSE IF union THEN [noted EXCEPT !.usize = Larger(@, m.size)]
        ELSE [noted EXCEPT !.offset = off + (bit + d.bits) \div 8,
                           !.bit    = (bit + d.bits) % 8]

\* An anonymous struct or union: its members become members of the outer one.
Flattened(s, union, pack, over, sub) ==
    LET subalign == IF pack # 0 THEN pack ELSE IF over # 0 THEN over ELSE sub.align
        off      == RoundUp(s.offset, subalign)
    IN  Advance([s EXCEPT !.offset = off,
                          !.align  = Larger(@, subalign),
                          !.fields = @ \o [i \in 1..Len(sub.fields) |->
                                            [sub.fields[i] EXCEPT !.off = @ + off, !.flat = off,
                                                                !.align = Smaller(@, subalign)]]],
                union, sub.size)

RECURSIVE parse_struct_member(_), do_parse_struct(_), ParseDecls(_, _, _)

\* Size and alignment of a type (parse_struct_member).
parse_struct_member(t) ==
    CASE t.c = "ptr"    -> [size |-> 4, align |-> 4]
      [] t.c = "prim"   -> [size |-> t.size, align |-> t.size]
      [] t.c = "array"  -> LET e == parse_struct_member(t.of)
                           IN  [size |-> e.size * t.dim, align |-> e.align]
      [] t.c = "struct" -> LET r == do_parse_struct(t)
                           IN  [size |-> r.size, align |-> r.align]

\* The loop over the declarations.
ParseDecls(s, t, i) ==
    IF i > Len(t.decls) THEN flush_bitfields(s, t.union)
    ELSE LET d    == t.decls[i]
             pack == IF t.packed \/ d.packed THEN Larger(d.over, 1) ELSE 0
         IN  ParseDecls(
                IF d.bits # NoBits
                  THEN PlacedBits(s, d, t.union, pack, parse_struct_member(d.type))
                ELSE IF d.name = NoName
                  THEN Flattened(flush_bitfields(s, t.union), t.union, pack, d.over,
                                 do_parse_struct(d.type))
                  ELSE Placed(flush_bitfields(s, t.union), d, t.union, pack,
                              parse_struct_member(d.type)),
                t, i + 1)

do_parse_struct(t) ==
    LET s == ParseDecls(Start(t.base), t, 1)
    IN  [fields |-> s.fields, bitfields |-> s.bitfields, ok |-> s.ok, union |-> t.union,
         align |-> s.align,
         size |-> RoundUp(IF t.union THEN s.usize ELSE s.offset, s.align)]

-----------------------------------------------------------------------------
(* What a layout must satisfy, for the accesses in the assembly to be      *)
(* attributed to the member the compiler meant.                            *)

FieldBits(f) == (8 * f.off) .. (8 * (f.off + f.size) - 1)
BitBits(b)   == b.pos .. (b.pos + b.width - 1)

\* No bit belongs to two members of a struct, nothing lies outside of it,
\* every member is aligned, and a bitfield that is not packed can be loaded
\* with one aligned load of its type that stays inside the struct.
LayoutIsSound(r) ==
    LET fs == r.fields  bs == r.bitfields IN
    r.ok =>
      /\ r.size % r.align = 0
      /\ \A i \in 1..Len(fs) : fs[i].off % fs[i].align = 0 /\ fs[i].off + fs[i].size <= r.size
      /\ \A i \in 1..Len(bs) : BitBits(bs[i]) \subseteq 0..(8 * r.size - 1)
      /\ \A i \in 1..Len(bs) : ~bs[i].packed =>
            LET u == 8 * bs[i].unit IN
            /\ bs[i].pos \div u = (bs[i].pos + bs[i].width - 1) \div u
            /\ u * (bs[i].pos \div u + 1) <= 8 * r.size
      /\ ~r.union =>
            /\ \A i, j \in 1..Len(fs) : 
                  \/ i >= j
                  \/ FieldBits(fs[i]) \cap FieldBits(fs[j]) = {}
                  \/ (fs[i].flat >= 0 /\ fs[i].flat = fs[j].flat)
            /\ \A i, j \in 1..Len(bs) : i < j => BitBits(bs[i]) \cap BitBits(bs[j]) = {}
            /\ \A i \in 1..Len(fs), j \in 1..Len(bs) : FieldBits(fs[i]) \cap BitBits(bs[j]) = {}
=============================================================================
