------------------------------ MODULE MCDriver -------------------------------
(***************************************************************************)
(* Two processes that build type maps from two context files, for targets  *)
(* of different alignment, and one that decompiles two functions without a *)
(* context.                                                                *)
(***************************************************************************)
EXTENDS Driver

Job(align, paths, dump) ==
  [align |-> align, paths |-> paths, use_cache |-> TRUE, dump_typemap |-> dump]

AllJobs ==
  {Job(1, <<"b">>, TRUE), Job(4, <<"b">>, TRUE), Job(4, <<"a", "b">>, TRUE),
   [Job(4, <<"b">>, TRUE) EXCEPT !.use_cache = FALSE], Job(1, <<>>, FALSE)}

TwoFunctions == <<"f", "g">>

\* What run does with its functions does not depend on what others have built:
\* it is followed when nobody has.
DecompilesAlone == step # "load" => builds = 1
=============================================================================
