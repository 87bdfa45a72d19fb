------------------------------ MODULE MCTypes ------------------------------
(* Instances of Types for TLC. *)
EXTENDS Types

Empty == [td |-> <<>>, sig |-> <<>>, st |-> <<>>, bare |-> {}, bug |-> FALSE]

\* Members to build a struct from.
Members ==
    {Decl(1, Prim(1)), Decl(1, Prim(4)), Decl(1, Unk(4)), Decl(1, Arr(Prim(2), 3)),
     Decl(1, CPtr), BitDecl(1, Prim(1), 3), BitDecl(1, Prim(4), 14), BitDecl(1, Prim(2), 9),
     Decl(NoName, Agg(TRUE, FALSE, 1, <<Decl(1, Prim(2)), Decl(2, Prim(4))>>)),
     [Decl(1, Prim(4)) EXCEPT !.packed = TRUE],
     [Decl(1, Prim(1)) EXCEPT !.over = 4]}

Named(ms) == [i \in 1..Len(ms) |->
                IF ms[i].name # NoName THEN [ms[i] EXCEPT !.name = i]
                ELSE [ms[i] EXCEPT !.type.decls =
                        [j \in DOMAIN @ |-> [@[j] EXCEPT !.name = 10 * i + j]]]]

Contexts(k) ==
    {Agg(u, p, b, Named(ms)) : u \in BOOLEAN, p \in BOOLEAN, b \in {1, 4},
                               ms \in UNION {[1..n -> Members] : n \in {k}}}

RECURSIVE AllocAll(_, _)
AllocAll(hp, recs) == IF recs = <<>> THEN hp ELSE AllocAll(Alloc(hp, Head(recs)), Tail(recs))

\* A struct from the context, a pointer to it and nothing but an access.
WithPointer(r) == [Alloc(r.h, ptr(r.type, 2)) EXCEPT !.bare = 1..Len(r.h.td) + 1]

LayoutWorld(c, n) == [layout |-> do_parse_struct(c), ops |-> n, h |-> WithPointer(ctype(Empty, c))]

\* A stack frame of 12 bytes, in which a struct of the context may live.
WithFrame(hp) ==
    LET s  == Len(hp.st) + 1
        n  == Len(hp.td)
        h1 == [hp EXCEPT !.st = Append(@, Struct(12, FALSE, TRUE, FALSE, <<>>))]
    IN  [AllocAll(h1, <<struct_type(s, 12), ptr(n + 1, None), s32, reg32(TRUE), f64>>)
           EXCEPT !.bare = {n + 1, n + 2}]

FrameWorld(c) == [layout |-> do_parse_struct(c), ops |-> 3, h |-> WithFrame(ctype(Empty, c).h)]

\* Pointers, functions and a type that may come to point to itself.
GraphWorld ==
    [layout |-> do_parse_struct(Agg(FALSE, FALSE, 1, <<>>)), ops |-> 3,
     h |-> [Empty EXCEPT
        !.td = <<TypeAny, ptr(1, None), TypeAny, ptr(3, 2), s32, f32,
                 function(1), function(2), ptr(7, None), any_reg, ptr(5, 3), enum_type(1)>>,
        !.sig = <<[ret |-> 10, params |-> <<1>>, known |-> FALSE, variadic |-> FALSE],
                  [ret |-> 5, params |-> <<4, 6>>, known |-> TRUE, variadic |-> FALSE]>>,
        !.bare = {}]]

Frames ==
    {Agg(FALSE, FALSE, 1, <<Decl(1, Prim(4)), Decl(2, Unk(4))>>),
     Agg(FALSE, FALSE, 1, <<Decl(1, Arr(Prim(2), 2)), Decl(2, Prim(4))>>),
     Agg(TRUE, FALSE, 1, <<Decl(1, Prim(4)), Decl(2, Prim(2))>>)}

\* Arrays of structs with unknown and zero dimension, in memory and inside a
\* struct, and pointers to them.
WithArray(r, n, dim) ==
    [Alloc(Alloc(Alloc(r.h, array(r.type, 4, dim)), ptr(n + 1, None)), ptr(r.type, dim))
       EXCEPT !.bare = 1..n + 3]

ArrayWorlds ==
    {[layout |-> do_parse_struct(Agg(FALSE, FALSE, 1, <<>>)), ops |-> 1,
      h |-> WithArray(r, Len(r.h.td), dim)] :
        r \in {ctype(Empty, Agg(FALSE, FALSE, 1, <<Decl(1, Arr(Prim(2), 0)), Decl(2, Prim(4))>>))},
        dim \in {None, 0, 2}}

MCSizes == {None, 2, 4}

MCOffsets == {-4, 0, 2, 4, 8}

MCWorlds ==
  {LayoutWorld(w[1], w[2]) :
      w \in (Contexts(1) \cup Contexts(2)) \X {1} \cup Contexts(3) \X {0}}
    \cup {FrameWorld(c) : c \in Frames} \cup {GraphWorld}
    \cup ArrayWorlds
=============================================================================
