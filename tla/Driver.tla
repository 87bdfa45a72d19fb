------------------------------- MODULE Driver --------------------------------
(***************************************************************************)
(* main.run: from the context files to the printed functions.  One of the  *)
(* processes of TypeMapCache decompiles Functions with the type map it     *)
(* built; the others only build one (--dump-typemap).  Any step on a       *)
(* function, and the formatting of the declarations, may raise: the driver *)
(* has to go on with the other functions and to say what failed.           *)
(***************************************************************************)
EXTENDS TypeMapCache

CONSTANTS
  Main,      \* the process that decompiles
  Functions, \* the functions, in order
  Passes     \* options.passes

ASSUME MainAssumption == Main \in Procs
ASSUME PassesAssumption == Passes \in Nat \ {0}

\* A list; with no function at all the run only prints the declarations.
ASSUME FunctionsAssumption ==
  /\ Len(Functions) \in Nat \ {0}
  /\ DOMAIN Functions = 1..Len(Functions)

VARIABLES
  step,      \* "load", "graph", "translate", "decls", "text", "print", "exit"
  pass, k,   \* the pass, and the function the loop is at
  state,     \* of each function: "none", "valid" or "failed"
  info,      \* the pass whose translation state.info holds, 0 for none
  global_decls_exc,
  dump_typemap, \* the option
  out, return_code

driverVars == <<dump_typemap, step, pass, k, state, info, global_decls_exc, out, return_code>>

NoCode == -1

Init ==
  /\ CacheInit
  /\ step = "load" /\ pass = 1 /\ k = 1
  /\ state = [f \in DOMAIN Functions |-> "none"]
  /\ info = [f \in DOMAIN Functions |-> 0]
  /\ global_decls_exc = FALSE /\ dump_typemap = FALSE
  /\ out = <<>> /\ return_code = NoCode

\* The context files could not be read or parsed.
LoadFailed ==
  /\ step = "load" /\ pc[Main] = "failed"
  /\ step' = "exit" /\ return_code' = 1 /\ out' = Append(out, <<"comment", 0>>)
  /\ UNCHANGED <<cacheVars, pass, k, state, info, global_decls_exc, dump_typemap>>

\* --dump-typemap
DumpTypemap ==
  /\ step = "load" /\ pc[Main] = "built" /\ dump_typemap
  /\ step' = "exit" /\ return_code' = 0
  /\ UNCHANGED <<cacheVars, pass, k, state, info, global_decls_exc, dump_typemap, out>>

\* A function that was asked for by name or number does not exist.
NotFound ==
  /\ step = "load" /\ pc[Main] = "built" /\ ~dump_typemap
  /\ step' = "exit" /\ return_code' = 1
  /\ UNCHANGED <<cacheVars, pass, k, state, info, global_decls_exc, dump_typemap, out>>

Start ==
  /\ step = "load" /\ pc[Main] = "built" /\ ~dump_typemap
  /\ step' = "graph"
  /\ UNCHANGED <<cacheVars, pass, k, state, info, global_decls_exc, dump_typemap, out, return_code>>

\* The loop variable moves on, at the end of the list to the next loop.
NextFunction(from, to) ==
  IF k < Len(Functions) THEN k' = k + 1 /\ step' = from ELSE k' = 1 /\ step' = to

\* narrow_func_call_outputs and build_flowgraph
BuildFlowgraph ==
  /\ step = "graph"
  /\ \E s \in {"valid", "failed"}: state' = [state EXCEPT ![k] = s]
  /\ NextFunction("graph", "translate")
  /\ UNCHANGED <<cacheVars, pass, info, global_decls_exc, dump_typemap, out, return_code>>

\* translate_to_ast in a preliminary pass or in the last one
Translate ==
  /\ step = "translate"
  /\ \/ /\ state[k] = "failed"
        /\ UNCHANGED <<state, info>>
     \/ /\ state[k] = "valid"
        /\ info' = [info EXCEPT ![k] = pass]
        /\ UNCHANGED state
     \/ /\ state[k] = "valid"
        /\ state' = [state EXCEPT ![k] = "failed"]
        /\ UNCHANGED info
  /\ NextFunction("translate", IF pass < Passes THEN "decls" ELSE "print")
  /\ UNCHANGED <<cacheVars, pass, global_decls_exc, dump_typemap, out, return_code>>

\* global_decls in a preliminary pass, unless it failed before
PreliminaryDecls ==
  /\ step = "decls"
  /\ \E exc \in BOOLEAN: global_decls_exc' = (global_decls_exc \/ exc)
  /\ step' = "text"
  /\ UNCHANGED <<cacheVars, pass, k, state, info, dump_typemap, out, return_code>>

\* The preliminary passes are not counted.
PreliminaryTextUncounted ==
  /\ step = "text"
  /\ NextFunction("text", "translate")
  /\ UNCHANGED <<cacheVars, pass, state, info, global_decls_exc, dump_typemap, out, return_code>>

\* get_function_text in a preliminary pass, and prune_structs at its end
PreliminaryText ==
  /\ step = "text"
  /\ \/ UNCHANGED state
     \/ state[k] = "valid" /\ state' = [state EXCEPT ![k] = "failed"]
  /\ NextFunction("text", "translate")
  /\ pass' = IF k < Len(Functions) THEN pass ELSE pass + 1
  /\ UNCHANGED <<cacheVars, info, global_decls_exc, dump_typemap, out, return_code>>

\* The declarations; an exception of a preliminary pass is raised again here.
PrintDeclsDropsException ==
  /\ step = "print" /\ return_code = NoCode
  /\ \E exc \in BOOLEAN:
       /\ return_code' = IF exc THEN 1 ELSE 0
       /\ out' = Append(out, <<IF exc THEN "comment" ELSE "decls", 0>>)
  /\ UNCHANGED <<cacheVars, step, pass, k, state, info, global_decls_exc, dump_typemap>>

PrintDecls ==
  /\ step = "print" /\ return_code = NoCode
  /\ \E exc \in BOOLEAN:
       /\ return_code' = IF exc \/ global_decls_exc THEN 1 ELSE 0
       /\ out' = Append(out, <<IF exc \/ global_decls_exc THEN "comment" ELSE "decls", 0>>)
  /\ UNCHANGED <<cacheVars, step, pass, k, state, info, global_decls_exc, dump_typemap>>

\* The first failure ends the run.
PrintUntilFailure ==
  /\ step = "print" /\ return_code # NoCode
  /\ \E ok \in IF state[k] = "failed" THEN {FALSE} ELSE BOOLEAN:
       /\ out' = Append(out, IF ok THEN <<"text", k, info[k]>> ELSE <<"comment", k>>)
       /\ return_code' = IF ok THEN return_code ELSE 1
       /\ state' = [state EXCEPT ![k] = IF ok THEN @ ELSE "failed"]
       /\ NextFunction(IF ok THEN "print" ELSE "exit", "exit")
  /\ UNCHANGED <<cacheVars, pass, info, global_decls_exc, dump_typemap>>

\* A function's text, or what went wrong with it.
PrintFunction ==
  /\ step = "print" /\ return_code # NoCode
  /\ \E ok \in IF state[k] = "failed" THEN {FALSE} ELSE BOOLEAN:
       /\ out' = Append(out, IF ok THEN <<"text", k, info[k]>> ELSE <<"comment", k>>)
       /\ return_code' = IF ok THEN return_code ELSE 1
       /\ state' = [state EXCEPT ![k] = IF ok THEN @ ELSE "failed"]
  /\ NextFunction("print", "exit")
  /\ UNCHANGED <<cacheVars, pass, info, global_decls_exc, dump_typemap>>

DriverStep ==
  \/ LoadFailed \/ DumpTypemap \/ NotFound \/ Start \/ BuildFlowgraph \/ Translate \/ PreliminaryDecls
  \/ PreliminaryText \/ PrintDecls \/ PrintFunction

\* The main process builds one type map; only the others are asked again.
\* Once it has started on the functions it does not look at the files, and
\* what the others do makes no difference.
BuildNext ==
  /\ step = "load"
  /\ \/ /\ \/ \E s \in Sources, t \in Texts: EditSource(s, t)
           \/ \E p \in Procs: BuildStep(p)
           \/ \E p \in Procs \ {Main}: Exit(p) \/ \E j \in Jobs: StartBuild(p, j)
        /\ UNCHANGED dump_typemap
     \/ \E j \in Jobs: StartBuild(Main, j) /\ dump_typemap' = j.dump_typemap
  /\ UNCHANGED <<step, pass, k, state, info, global_decls_exc, out, return_code>>

Next == BuildNext \/ DriverStep

Fairness == WF_<<cacheVars, driverVars>>(DriverStep)
Spec == Init /\ [][Next]_<<cacheVars, driverVars>> /\ Fairness

-----------------------------------------------------------------------------
(* Properties.                                                             *)

\* Once the functions are being decompiled, a run ends with one entry for the
\* declarations and one for every function, in order, whatever raised; a text
\* comes from the last pass, of a function none of whose steps failed.
EveryFunctionReported ==
  /\ step = "exit" /\ (\A f \in DOMAIN Functions: state[f] # "none") =>
       /\ Len(out) = Len(Functions) + 1
       /\ \A f \in DOMAIN Functions: out[f + 1][2] = f
  /\ \A i \in DOMAIN out: out[i][1] = "text" => state[out[i][2]] = "valid" /\ out[i][3] = Passes

\* The exit status is 0 exactly when nothing failed.
StatusTellsFailure ==
  step = "exit" =>
    (return_code = 0) <=> /\ \A f \in DOMAIN Functions: dump_typemap \/ state[f] = "valid"
                          /\ ~global_decls_exc
                          /\ <<"comment", 0>> \notin {out[i]: i \in DOMAIN out}

\* A run that has its type map ends.
RunEnds == (step = "graph") ~> (step = "exit")
=============================================================================
