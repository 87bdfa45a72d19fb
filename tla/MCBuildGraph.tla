---------------------------- MODULE MCBuildGraph -----------------------------
(***************************************************************************)
(* The blocks and jump tables the runs of BuildGraph enumerate.            *)
(***************************************************************************)
EXTENDS BuildGraph

Shape(kind, targets, names, emit_goto) ==
  [kind |-> kind, targets |-> targets, names |-> names, emit_goto |-> emit_goto]

Plain(kind, targets) == Shape(kind, targets, {}, FALSE)

AllShapes ==
  {Plain("fall", <<>>), Shape("fall", <<>>, {"a"}, FALSE), Plain("return", <<>>)}
    \cup {Plain(kind, <<b>>) : kind \in {"jump", "cond"}, b \in Blocks}
    \cup {Plain("jump", <<Missing>>), Shape("jump", <<N>>, {"b"}, FALSE)}
    \cup {Shape(kind, <<N>>, {}, TRUE) : kind \in {"jump", "cond"}}
    \cup {Shape("switch", <<>>, names, FALSE) : names \in {{}, {"a"}, {"a", "b"}, {"c"}}}
    \cup {Plain("list", <<N, 2>>), Plain("list", <<Missing>>)}

\* "c" is not provided.
SomeTables == [t \in {"a", "b"} |->
  IF t = "a" THEN <<3, N, 3, Padding, Missing>> ELSE <<2, Missing>>]
=============================================================================
