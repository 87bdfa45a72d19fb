---------------------------- MODULE DriverProofs -----------------------------
(***************************************************************************)
(* What a run reports and the status it ends with, for any number of       *)
(* functions and passes; and that the cache is transparent to the driver.  *)
(***************************************************************************)
EXTENDS Driver, TypeMapCacheProofs

\* The number of functions of the run.
N == Len(Functions)

\* The entries of the output.
Decls == <<"decls", 0>>
DeclsFailed == <<"comment", 0>>

\* The entry of a function that has been printed.
Entry(f) == IF state[f] = "valid" THEN <<"text", f, Passes>> ELSE <<"comment", f>>

Entries ==
  {Decls, DeclsFailed} \cup {<<"text", f, Passes>>: f \in 1..N} \cup {<<"comment", f>>: f \in 1..N}

\* The locals of run.
DriverTypeOK ==
  /\ step \in {"load", "graph", "translate", "decls", "text", "print", "exit"}
  /\ pass \in 1..Passes /\ k \in 1..N
  /\ state \in [1..N -> {"none", "valid", "failed"}]
  /\ info \in [1..N -> 0..Passes]
  /\ global_decls_exc \in BOOLEAN /\ dump_typemap \in BOOLEAN
  /\ out \in Seq(Entries) /\ return_code \in {NoCode, 0, 1}

\* Nothing is printed before the last pass.
Silent == out = <<>> /\ return_code = NoCode

\* Every function has a flow graph or has failed.
Graphed == ~dump_typemap /\ \A f \in 1..N: state[f] # "none"

\* The functions before n were translated in this pass.
Translated(n) == \A f \in 1..N: f < n /\ state[f] = "valid" => info[f] = pass

\* The declarations and the first n functions are printed, and return_code
\* tells what failed of them.
Reported(n) ==
  /\ Len(out) = n + 1
  /\ out[1] \in {Decls, DeclsFailed} /\ (global_decls_exc => out[1] = DeclsFailed)
  /\ \A f \in 1..n: out[f + 1] = Entry(f)
  /\ return_code \in {0, 1}
  /\ return_code = 0 <=> out[1] = Decls /\ \A f \in 1..n: state[f] = "valid"

\* What holds at each step of run: before anything is built,
InLoad ==
  step = "load" => Silent /\ pass = 1 /\ k = 1 /\ ~global_decls_exc /\ \A f \in 1..N: state[f] = "none"

\* while flow graphs are built, in order,
InGraph ==
  step = "graph" =>
    /\ Silent /\ ~dump_typemap /\ ~global_decls_exc
    /\ \A f \in 1..N: f < k <=> state[f] # "none"

\* while functions are translated,
InTranslate == step = "translate" => Silent /\ Graphed /\ Translated(k)

\* global_decls and the discarded text of a preliminary pass.
InPreliminary == step \in {"decls", "text"} => Silent /\ Graphed /\ pass < Passes

\* at the declarations of a preliminary pass,
InDecls == step = "decls" => k = 1

\* while the last pass prints,
InPrint ==
  step = "print" =>
    /\ Graphed /\ pass = Passes /\ Translated(N + 1)
    /\ (return_code = NoCode => out = <<>> /\ k = 1)
    /\ (return_code # NoCode => Reported(k - 1))

\* A run that ends before it decompiles: the context or a function is missing,
\* or --dump-typemap.
EndedEarly ==
  /\ \A f \in 1..N: state[f] = "none"
  /\ ~global_decls_exc
  /\ \/ return_code = 0 /\ dump_typemap /\ out = <<>>
     \/ return_code = 1 /\ ~dump_typemap /\ out = <<>>
     \/ return_code = 1 /\ out = <<DeclsFailed>>

\* and when run has returned.
InExit == step = "exit" => EndedEarly \/ (Graphed /\ Reported(N))

\* The inductive invariant of the driver.
DriverInv ==
  /\ DriverTypeOK
  /\ InLoad /\ InGraph /\ InTranslate /\ InPreliminary /\ InDecls /\ InPrint /\ InExit

-----------------------------------------------------------------------------
(* The steps of the driver keep DriverInv.                                 *)

\* There is at least one function.
LEMMA NFact == N \in Nat /\ N >= 1 /\ DOMAIN Functions = 1..N
BY FunctionsAssumption DEF N

\* DriverInv holds at the start.
LEMMA InitOK == Init => DriverInv
<1> SUFFICES ASSUME Init PROVE DriverInv
  OBVIOUS
<1>1. DriverTypeOK
  <2>1. out \in Seq(Entries) /\ return_code \in {NoCode, 0, 1}
    BY DEF Init
  <2>2. state \in [1..N -> {"none", "valid", "failed"}] /\ info \in [1..N -> 0..Passes]
    BY NFact, PassesAssumption DEF Init
  <2>3. pass \in 1..Passes /\ k \in 1..N
    BY NFact, PassesAssumption DEF Init
  <2>4. QED
    BY <2>1, <2>2, <2>3 DEF Init, DriverTypeOK
<1>2. QED
  BY <1>1, NFact
  DEF Init, DriverInv, InLoad, InGraph, InTranslate, InPreliminary, InDecls, InPrint, InExit, Silent

\* Building type maps only sets the option.
LEMMA BuildNextOK ==
  ASSUME DriverInv, BuildNext
  PROVE  DriverInv'
<1>1. dump_typemap' \in BOOLEAN
  BY JobsAssumption DEF BuildNext, DriverInv, DriverTypeOK
<1>2. DriverTypeOK'
  BY <1>1 DEF BuildNext, DriverInv, DriverTypeOK
<1>3. step = "load" /\ UNCHANGED <<step, pass, k, state, info, global_decls_exc, out, return_code>>
  BY DEF BuildNext
<1>4. InLoad'
  BY <1>3 DEF DriverInv, InLoad, Silent
<1>5. QED
  BY <1>2, <1>3, <1>4
  DEF DriverInv, InGraph, InTranslate, InPreliminary, InDecls, InPrint, InExit

\* The runs that end before they decompile.
LEMMA EarlyExitOK ==
  ASSUME DriverInv, LoadFailed \/ DumpTypemap \/ NotFound
  PROVE  DriverInv'
<1>1. /\ step = "load" /\ step' = "exit" /\ Silent /\ ~global_decls_exc
      /\ \A f \in 1..N: state[f] = "none"
  BY DEF DriverInv, InLoad, LoadFailed, DumpTypemap, NotFound
<1>2. DeclsFailed \in Entries
  BY DEF Entries
<1>3. UNCHANGED <<pass, k, state, info, global_decls_exc, dump_typemap>>
  BY DEF LoadFailed, DumpTypemap, NotFound
<1>4. \/ return_code' = 0 /\ dump_typemap /\ out' = <<>>
      \/ return_code' = 1 /\ ~dump_typemap /\ out' = <<>>
      \/ return_code' = 1 /\ out' = <<DeclsFailed>>
  <2>1. Append(<<>>, DeclsFailed) = <<DeclsFailed>>
    BY DEF DeclsFailed
  <2>2. QED
    BY <1>1, <2>1 DEF LoadFailed, DumpTypemap, NotFound, Silent, DeclsFailed
<1>5. out' \in Seq(Entries)
  <2>1. <<DeclsFailed>> \in Seq(Entries)
    BY <1>2
  <2>2. <<>> \in Seq(Entries)
    OBVIOUS
  <2>3. QED
    BY <1>4, <2>1, <2>2
<1>6. DriverTypeOK'
  BY <1>1, <1>3, <1>4, <1>5 DEF DriverInv, DriverTypeOK
<1>7. EndedEarly'
  BY <1>1, <1>3, <1>4 DEF EndedEarly, DeclsFailed
<1>8. QED
  BY <1>1, <1>6, <1>7
  DEF DriverInv, InLoad, InGraph, InTranslate, InPreliminary, InDecls, InPrint, InExit

\* The context is loaded and the functions are found.
LEMMA StartOK ==
  ASSUME DriverInv, Start
  PROVE  DriverInv'
<1>1. DriverTypeOK'
  BY DEF DriverInv, DriverTypeOK, Start
<1>2. InGraph'
  BY NFact DEF DriverInv, InLoad, InGraph, Silent, Start
<1>3. QED
  BY <1>1, <1>2
  DEF DriverInv, InLoad, InGraph, InTranslate, InPreliminary, InDecls, InPrint, InExit, Start

\* The loop variable after a step of a loop over the functions.
LEMMA NextFunctionFact ==
  ASSUME NEW from, NEW to, k \in 1..N, NextFunction(from, to)
  PROVE  /\ k' \in 1..N
         /\ \/ k < N /\ k' = k + 1 /\ step' = from
            \/ k = N /\ k' = 1 /\ step' = to
<1>1. k' = IF k < N THEN k + 1 ELSE 1
  BY DEF NextFunction, N
<1>2. step' = IF k < N THEN from ELSE to
  BY DEF NextFunction, N
<1>3. QED
  BY <1>1, <1>2, NFact

\* One flow graph, built or failed.
LEMMA BuildFlowgraphOK ==
  ASSUME DriverInv, BuildFlowgraph
  PROVE  DriverInv'
<1>1. step = "graph" /\ k \in 1..N /\ Silent /\ ~dump_typemap /\ ~global_decls_exc
  BY DEF DriverInv, DriverTypeOK, InGraph, BuildFlowgraph
<1>2. PICK s \in {"valid", "failed"}: state' = [state EXCEPT ![k] = s]
  BY DEF BuildFlowgraph
<1>3. /\ k' \in 1..N
      /\ \/ k < N /\ k' = k + 1 /\ step' = "graph"
         \/ k = N /\ k' = 1 /\ step' = "translate"
  BY <1>1, NextFunctionFact DEF BuildFlowgraph
<1>4. DriverTypeOK'
  BY <1>2, <1>3 DEF DriverInv, DriverTypeOK, BuildFlowgraph
<1>5. \A f \in 1..N: f <= k <=> state'[f] # "none"
  BY <1>1, <1>2, NFact DEF DriverInv, DriverTypeOK, InGraph, BuildFlowgraph
<1>6. InGraph'
  BY <1>1, <1>3, <1>5, NFact DEF InGraph, BuildFlowgraph, Silent
<1>7. InTranslate'
  BY <1>1, <1>3, <1>5, NFact DEF InTranslate, BuildFlowgraph, Silent, Graphed, Translated
<1>8. QED
  BY <1>3, <1>4, <1>6, <1>7
  DEF DriverInv, InLoad, InPreliminary, InDecls, InPrint, InExit

\* One function translated or failed, in any pass.
LEMMA TranslateOK ==
  ASSUME DriverInv, Translate
  PROVE  DriverInv'
<1>1. step = "translate" /\ k \in 1..N /\ pass \in 1..Passes /\ Silent /\ Graphed /\ Translated(k)
  BY DEF DriverInv, DriverTypeOK, InTranslate, Translate
<1>2. /\ k' \in 1..N
      /\ \/ k < N /\ k' = k + 1 /\ step' = "translate"
         \/ k = N /\ k' = 1 /\ step' = IF pass < Passes THEN "decls" ELSE "print"
  BY <1>1, NextFunctionFact DEF Translate
<1>3. UNCHANGED <<pass, global_decls_exc, dump_typemap, out, return_code>>
  BY DEF Translate
<1>4. \/ state[k] = "failed" /\ UNCHANGED <<state, info>>
      \/ state[k] = "valid" /\ info' = [info EXCEPT ![k] = pass] /\ UNCHANGED state
      \/ state[k] = "valid" /\ state' = [state EXCEPT ![k] = "failed"] /\ UNCHANGED info
  BY DEF Translate
<1>5. DriverTypeOK'
  BY <1>1, <1>2, <1>3, <1>4, PassesAssumption DEF DriverInv, DriverTypeOK
<1>6. Silent' /\ Graphed'
  BY <1>1, <1>3, <1>4 DEF Silent, Graphed, DriverInv, DriverTypeOK
<1>7. ASSUME NEW f \in 1..N, f <= k, state'[f] = "valid" PROVE info'[f] = pass
  <2>1. CASE f = k
    BY <1>1, <1>4, <1>7, <2>1 DEF DriverInv, DriverTypeOK
  <2>2. CASE f # k
    <3>1. f < k /\ state[f] = "valid" /\ info'[f] = info[f]
      BY <1>1, <1>4, <1>7, <2>2, NFact DEF DriverInv, DriverTypeOK
    <3>2. QED
      BY <1>1, <3>1 DEF Translated
  <2>3. QED
    BY <2>1, <2>2
<1>9. InTranslate'
  BY <1>1, <1>2, <1>3, <1>6, <1>7, NFact DEF InTranslate, Translated
<1>10. InPreliminary' /\ InDecls'
  BY <1>2, <1>3, <1>6 DEF InPreliminary, InDecls
<1>11. InPrint'
  <2>1. SUFFICES ASSUME step' = "print" PROVE InPrint'
    BY DEF InPrint
  <2>2. k = N /\ k' = 1 /\ pass = Passes
    BY <1>1, <1>2, <2>1, PassesAssumption
  <2>3. Translated(N + 1)'
    BY <1>3, <1>7, <2>2, NFact DEF Translated
  <2>4. QED
    BY <1>3, <1>6, <2>2, <2>3 DEF InPrint, Silent
<1>12. QED
  BY <1>2, <1>5, <1>9, <1>10, <1>11 DEF DriverInv, InLoad, InGraph, InExit

\* The declarations of a preliminary pass are thrown away, a failure is kept.
LEMMA PreliminaryDeclsOK ==
  ASSUME DriverInv, PreliminaryDecls
  PROVE  DriverInv'
<1>1. step = "decls" /\ step' = "text" /\ Silent /\ Graphed /\ pass < Passes
  BY DEF DriverInv, InPreliminary, PreliminaryDecls
<1>2. global_decls_exc' \in BOOLEAN
  BY DEF PreliminaryDecls
<1>3. DriverTypeOK'
  BY <1>1, <1>2 DEF DriverInv, DriverTypeOK, PreliminaryDecls
<1>4. InPreliminary'
  BY <1>1 DEF InPreliminary, PreliminaryDecls, Silent, Graphed
<1>5. QED
  BY <1>1, <1>3, <1>4 DEF DriverInv, InLoad, InGraph, InTranslate, InDecls, InPrint, InExit

\* So is the text of a function.
LEMMA PreliminaryTextOK ==
  ASSUME DriverInv, PreliminaryText
  PROVE  DriverInv'
<1>1. /\ step = "text" /\ k \in 1..N /\ pass \in 1..Passes /\ pass < Passes
      /\ Silent /\ Graphed
  BY DEF DriverInv, DriverTypeOK, InPreliminary, PreliminaryText
<1>2. /\ k' \in 1..N
      /\ \/ k < N /\ k' = k + 1 /\ step' = "text"
         \/ k = N /\ k' = 1 /\ step' = "translate"
  BY <1>1, NextFunctionFact DEF PreliminaryText
<1>3. pass' = IF k < N THEN pass ELSE pass + 1
  BY DEF PreliminaryText, N
<1>4. pass' \in 1..Passes /\ (step' = "text" => pass' < Passes)
  BY <1>1, <1>2, <1>3, NFact, PassesAssumption
<1>5. state' = state \/ state' = [state EXCEPT ![k] = "failed"]
  BY DEF PreliminaryText
<1>6. DriverTypeOK'
  BY <1>2, <1>4, <1>5 DEF DriverInv, DriverTypeOK, PreliminaryText
<1>7. Silent' /\ Graphed'
  BY <1>1, <1>5 DEF Silent, Graphed, DriverInv, DriverTypeOK, PreliminaryText
<1>8. InPreliminary'
  BY <1>2, <1>4, <1>7 DEF InPreliminary
<1>9. InTranslate'
  BY <1>2, <1>7, NFact DEF InTranslate, Translated
<1>10. QED
  BY <1>2, <1>6, <1>8, <1>9 DEF DriverInv, InLoad, InGraph, InDecls, InPrint, InExit

\* The declarations are printed, or the failure of this or an earlier pass.
LEMMA PrintDeclsOK ==
  ASSUME DriverInv, PrintDecls
  PROVE  DriverInv'
<1>1. /\ step = "print" /\ return_code = NoCode /\ out = <<>> /\ k = 1
      /\ Graphed /\ pass = Passes /\ Translated(N + 1)
  BY DEF DriverInv, InPrint, PrintDecls
<1>2. UNCHANGED <<step, pass, k, state, info, global_decls_exc, dump_typemap>>
  BY DEF PrintDecls
<1>3. \/ return_code' = 1 /\ out' = Append(out, DeclsFailed)
      \/ return_code' = 0 /\ out' = Append(out, Decls) /\ ~global_decls_exc
  BY Zenon DEF PrintDecls, Decls, DeclsFailed
<1>4. \/ return_code' = 1 /\ out' = <<DeclsFailed>>
      \/ return_code' = 0 /\ out' = <<Decls>> /\ ~global_decls_exc
  <2>1. Append(<<>>, Decls) = <<Decls>> /\ Append(<<>>, DeclsFailed) = <<DeclsFailed>>
    BY DEF Decls, DeclsFailed
  <2>2. QED
    BY <1>1, <1>3, <2>1
<1>5. out' \in Seq(Entries)
  <2>1. Decls \in Entries /\ DeclsFailed \in Entries
    BY DEF Entries
  <2>2. <<Decls>> \in Seq(Entries) /\ <<DeclsFailed>> \in Seq(Entries)
    BY <2>1
  <2>3. QED
    BY <1>4, <2>2
<1>6. DriverTypeOK'
  BY <1>2, <1>4, <1>5 DEF DriverInv, DriverTypeOK
<1>7. Reported(0)'
  <2>1. Decls # DeclsFailed
    BY DEF Decls, DeclsFailed
  <2>2. /\ Len(out') = 1 /\ out'[1] \in {Decls, DeclsFailed} /\ return_code' \in {0, 1}
        /\ return_code' = 0 <=> out'[1] = Decls
        /\ global_decls_exc' => out'[1] = DeclsFailed
    BY <1>2, <1>4, <2>1
  <2>3. QED
    BY <2>2 DEF Reported
<1>8. InPrint'
  BY <1>1, <1>2, <1>4, <1>7 DEF InPrint, Graphed, Translated, NoCode
<1>9. QED
  BY <1>1, <1>2, <1>6, <1>8
  DEF DriverInv, InLoad, InGraph, InTranslate, InPreliminary, InDecls, InExit

\* One more function is printed: its entry is appended, and the status set if
\* it failed.
LEMMA PrintFunctionReports ==
  ASSUME DriverInv, PrintFunction, NEW n \in 1..N, n = k
  PROVE  /\ Reported(n)' /\ out' \in Seq(Entries)
         /\ state' \in [1..N -> {"none", "valid", "failed"}]
         /\ Graphed' /\ Translated(N + 1)'
<1>1. /\ Graphed /\ pass = Passes /\ Translated(N + 1) /\ Reported(n - 1)
      /\ out \in Seq(Entries) /\ state \in [1..N -> {"none", "valid", "failed"}]
  BY DEF DriverInv, DriverTypeOK, InPrint, PrintFunction
<1>2. UNCHANGED <<pass, info, global_decls_exc, dump_typemap>>
  BY DEF PrintFunction
<1>3. PICK e: /\ out' = Append(out, e)
              /\ \/ /\ e = <<"text", n, Passes>> /\ state[n] = "valid"
                    /\ state' = state /\ return_code' = return_code
                 \/ /\ e = <<"comment", n>> /\ return_code' = 1
                    /\ state' = [state EXCEPT ![n] = "failed"]
  <2>1. PICK ok \in IF state[n] = "failed" THEN {FALSE} ELSE BOOLEAN:
          /\ out' = Append(out, IF ok THEN <<"text", n, info[n]>> ELSE <<"comment", n>>)
          /\ return_code' = IF ok THEN return_code ELSE 1
          /\ state' = [state EXCEPT ![n] = IF ok THEN @ ELSE "failed"]
    BY DEF PrintFunction
  <2>2. CASE ok = TRUE
    <3>1. state[n] = "valid"
      BY <1>1, <2>2 DEF Graphed
    <3>2. info[n] = Passes
      BY <1>1, <3>1, NFact DEF Translated
    <3>3. state' = state
      BY <1>1, <2>1, <2>2
    <3>4. QED
      BY <2>1, <2>2, <3>1, <3>2, <3>3
  <2>3. CASE ok = FALSE
    BY <2>1, <2>3
  <2>4. QED
    BY <2>2, <2>3
<1>4. e \in Entries
  BY <1>3 DEF Entries
<1>5. /\ out' \in Seq(Entries) /\ Len(out') = n + 1 /\ out'[n + 1] = e
      /\ \A i \in 1..n: out'[i] = out[i]
  <2>1. Len(out) = n
    BY <1>1 DEF Reported
  <2>2. QED
    BY <1>1, <1>3, <1>4, <2>1
<1>6. /\ state' \in [1..N -> {"none", "valid", "failed"}]
      /\ \A f \in 1..N: f # n => state'[f] = state[f]
      /\ state'[n] # "none"
  BY <1>1, <1>3 DEF Graphed
<1>7. Graphed' /\ Translated(N + 1)'
  BY <1>1, <1>2, <1>3 DEF Graphed, Translated
<1>8. Reported(n)'
  <2>1. out'[1] = out[1] /\ out[1] \in {Decls, DeclsFailed} /\ (global_decls_exc => out[1] = DeclsFailed)
    BY <1>1, <1>5 DEF Reported
  <2>2. ASSUME NEW f \in 1..n PROVE out'[f + 1] = Entry(f)'
    <3>1. CASE f = n
      BY <1>3, <1>5, <1>6, <3>1, NFact DEF Entry
    <3>2. CASE f # n
      <4>1. f \in 1..(n - 1) /\ f + 1 \in 1..n /\ f \in 1..N
        BY <3>2, NFact
      <4>2. out[f + 1] = Entry(f)
        BY <1>1, <4>1 DEF Reported
      <4>3. QED
        BY <1>5, <1>6, <3>2, <4>1, <4>2 DEF Entry
    <3>3. QED
      BY <3>1, <3>2
  <2>3. /\ return_code' \in {0, 1}
        /\ return_code' = 0 <=> out'[1] = Decls /\ \A f \in 1..n: state'[f] = "valid"
    <3>1. /\ return_code \in {0, 1}
          /\ return_code = 0 <=> out[1] = Decls /\ \A f \in 1..(n - 1): state[f] = "valid"
      BY <1>1 DEF Reported
    <3>2. CASE state[n] = "valid" /\ state' = state /\ return_code' = return_code
      <4>1. (\A f \in 1..n: state[f] = "valid") <=> (\A f \in 1..(n - 1): state[f] = "valid")
        BY <3>2, NFact
      <4>2. QED
        BY <2>1, <3>1, <3>2, <4>1
    <3>3. CASE return_code' = 1 /\ state' = [state EXCEPT ![n] = "failed"]
      BY <1>1, <3>3, NFact
    <3>4. QED
      BY <1>3, <3>2, <3>3
  <2>4. QED
    BY <1>2, <1>5, <2>1, <2>2, <2>3 DEF Reported
<1>9. QED
  BY <1>5, <1>6, <1>7, <1>8

\* A function is printed, or its failure of this or an earlier step.
LEMMA PrintFunctionOK ==
  ASSUME DriverInv, PrintFunction
  PROVE  DriverInv'
<1>1. PICK n \in 1..N: n = k
  BY DEF DriverInv, DriverTypeOK
<1>2. /\ Reported(n)' /\ out' \in Seq(Entries)
      /\ state' \in [1..N -> {"none", "valid", "failed"}] /\ Graphed' /\ Translated(N + 1)'
  BY <1>1, PrintFunctionReports
<1>3. return_code' \in {0, 1}
  BY <1>2 DEF Reported
<1>4. /\ k' \in 1..N
      /\ \/ n < N /\ k' = n + 1 /\ step' = "print"
         \/ n = N /\ k' = 1 /\ step' = "exit"
  BY <1>1, NextFunctionFact DEF PrintFunction
<1>5. pass = Passes /\ UNCHANGED <<pass, info, global_decls_exc, dump_typemap>>
  BY DEF DriverInv, InPrint, PrintFunction
<1>6. DriverTypeOK'
  BY <1>2, <1>3, <1>4, <1>5 DEF DriverInv, DriverTypeOK
<1>7. InPrint'
  <2>1. step' = "print" => k' - 1 = n
    BY <1>4, NFact
  <2>2. QED
    BY <1>2, <1>3, <1>5, <2>1 DEF InPrint, NoCode
<1>8. InExit'
  BY <1>2, <1>4 DEF InExit
<1>9. QED
  BY <1>4, <1>6, <1>7, <1>8
  DEF DriverInv, InLoad, InGraph, InTranslate, InPreliminary, InDecls

\* What other processes do leaves the driver alone.
LEMMA DriverStutters ==
  ASSUME DriverInv, UNCHANGED driverVars
  PROVE  DriverInv'
BY DEF driverVars, DriverInv, DriverTypeOK, InLoad, InGraph, InTranslate, InPreliminary, InDecls,
       InPrint, InExit, EndedEarly, Reported, Entry, Graphed, Translated, Silent

\* Every step keeps DriverInv.
LEMMA NextOK == DriverInv /\ [Next]_<<cacheVars, driverVars>> => DriverInv'
<1> SUFFICES ASSUME DriverInv, [Next]_<<cacheVars, driverVars>> PROVE DriverInv'
  OBVIOUS
<1>1. CASE BuildNext
  BY <1>1, BuildNextOK
<1>2. CASE LoadFailed \/ DumpTypemap \/ NotFound
  BY <1>2, EarlyExitOK
<1>3. CASE Start
  BY <1>3, StartOK
<1>4. CASE BuildFlowgraph
  BY <1>4, BuildFlowgraphOK
<1>5. CASE Translate
  BY <1>5, TranslateOK
<1>6. CASE PreliminaryDecls
  BY <1>6, PreliminaryDeclsOK
<1>7. CASE PreliminaryText
  BY <1>7, PreliminaryTextOK
<1>8. CASE PrintDecls
  BY <1>8, PrintDeclsOK
<1>9. CASE PrintFunction
  BY <1>9, PrintFunctionOK
<1>10. CASE UNCHANGED <<cacheVars, driverVars>>
  BY <1>10, DriverStutters
<1>11. QED
  BY <1>1, <1>2, <1>3, <1>4, <1>5, <1>6, <1>7, <1>8, <1>9, <1>10 DEF Next, DriverStep

-----------------------------------------------------------------------------
(* What the invariant means.                                               *)

\* Exactly the failed entry of the declarations is the comment 0.
LEMMA ReportedStatus ==
  ASSUME DriverTypeOK, Graphed, Reported(N)
  PROVE  (return_code = 0) <=> /\ \A f \in 1..N: dump_typemap \/ state[f] = "valid"
                               /\ ~global_decls_exc
                               /\ <<"comment", 0>> \notin {out[i]: i \in DOMAIN out}
<1>1. out[1] = DeclsFailed <=> <<"comment", 0>> \in {out[i]: i \in DOMAIN out}
  <2>1. 1 \in DOMAIN out /\ DOMAIN out = 1..(N + 1)
    BY NFact DEF Reported, DriverTypeOK
  <2>2. ASSUME NEW i \in 2..(N + 1) PROVE out[i] # <<"comment", 0>>
    <3>1. i - 1 \in 1..N /\ out[(i - 1) + 1] = Entry(i - 1)
      BY NFact DEF Reported
    <3>2. Entry(i - 1)[2] = i - 1
      BY DEF Entry
    <3>3. QED
      BY <3>1, <3>2
  <2>3. ASSUME NEW i \in DOMAIN out PROVE i = 1 \/ i \in 2..(N + 1)
    BY <2>1, NFact
  <2>4. QED
    BY <2>1, <2>2, <2>3 DEF DeclsFailed
<1>2. Decls # DeclsFailed
  BY DEF Decls, DeclsFailed
<1>3. QED
  BY <1>1, <1>2 DEF Reported, Graphed

\* The status, from what has been reported.
LEMMA InvImpliesStatus == DriverInv => StatusTellsFailure
<1> SUFFICES ASSUME DriverInv, step = "exit" PROVE StatusTellsFailure
  BY DEF StatusTellsFailure
<1>1. CASE Graphed /\ Reported(N)
  BY <1>1, ReportedStatus, NFact DEF DriverInv, StatusTellsFailure
<1>2. CASE EndedEarly
  <2>1. 1 \in DOMAIN Functions /\ state[1] = "none"
    BY <1>2, NFact DEF EndedEarly
  <2>2. CASE return_code = 0 /\ dump_typemap /\ out = <<>>
    BY <1>2, <2>2 DEF EndedEarly, StatusTellsFailure
  <2>3. CASE return_code = 1 /\ ~dump_typemap /\ out = <<>>
    BY <2>1, <2>3 DEF StatusTellsFailure
  <2>4. CASE return_code = 1 /\ out = <<DeclsFailed>>
    <3>1. out[1] = <<"comment", 0>> /\ 1 \in DOMAIN out
      BY <2>4 DEF DeclsFailed
    <3>2. QED
      BY <2>4, <3>1 DEF StatusTellsFailure
  <2>5. QED
    BY <1>2, <2>2, <2>3, <2>4 DEF EndedEarly
<1>3. QED
  BY <1>1, <1>2 DEF DriverInv, InExit

\* A text in the output belongs to a function that has not failed.
TextsAreValid ==
  \A i \in DOMAIN out: out[i][1] = "text" => state[out[i][2]] = "valid" /\ out[i][3] = Passes

\* So it is after any number of entries.
LEMMA ReportedTexts ==
  ASSUME DriverTypeOK, NEW n \in 0..N, Reported(n)
  PROVE  TextsAreValid
<1> SUFFICES ASSUME NEW i \in DOMAIN out, out[i][1] = "text"
             PROVE  state[out[i][2]] = "valid" /\ out[i][3] = Passes
  BY DEF TextsAreValid
<1>1. i \in 1..(n + 1)
  BY DEF DriverTypeOK, Reported
<1>2. i # 1
  <2>1. Decls[1] # "text" /\ DeclsFailed[1] # "text"
    BY DEF Decls, DeclsFailed
  <2>2. QED
    BY <2>1 DEF Reported
<1>3. i - 1 \in 1..n /\ (i - 1) + 1 = i
  BY <1>1, <1>2, NFact
<1>4. out[i] = Entry(i - 1)
  BY <1>3 DEF Reported
<1>5. state[i - 1] = "valid"
  BY <1>4 DEF Entry
<1>6. out[i] = <<"text", i - 1, Passes>>
  BY <1>4, <1>5 DEF Entry
<1>7. QED
  BY <1>5, <1>6

\* The report, one entry per function.
LEMMA InvImpliesReport == DriverInv => EveryFunctionReported
<1> SUFFICES ASSUME DriverInv PROVE EveryFunctionReported
  OBVIOUS
<1>1. ASSUME step = "exit", \A f \in DOMAIN Functions: state[f] # "none"
      PROVE  Len(out) = Len(Functions) + 1 /\ \A f \in DOMAIN Functions: out[f + 1][2] = f
  <2>1. ~EndedEarly
    BY <1>1, NFact DEF EndedEarly
  <2>2. Reported(N)
    BY <1>1, <2>1 DEF DriverInv, InExit
  <2>3. ASSUME NEW f \in 1..N PROVE out[f + 1][2] = f
    <3>1. out[f + 1] = Entry(f)
      BY <2>2 DEF Reported
    <3>2. QED
      BY <3>1 DEF Entry
  <2>4. Len(out) = N + 1
    BY <2>2 DEF Reported
  <2>5. QED
    BY <2>3, <2>4, NFact DEF N
<1>2. TextsAreValid
  <2>1. CASE out = <<>>
    BY <2>1 DEF TextsAreValid
  <2>2. CASE step = "print" /\ return_code # NoCode
    <3>1. k - 1 \in 0..N /\ Reported(k - 1)
      BY <2>2, NFact DEF DriverInv, DriverTypeOK, InPrint
    <3>2. QED
      BY <3>1, ReportedTexts DEF DriverInv
  <2>3. CASE step = "exit" /\ Reported(N)
    BY <2>3, NFact, ReportedTexts DEF DriverInv
  <2>4. CASE step = "exit" /\ EndedEarly
    <3>1. CASE out = <<DeclsFailed>>
      <4>1. DOMAIN out = {1} /\ out[1][1] = "comment"
        BY <3>1 DEF DeclsFailed
      <4>2. QED
        BY <4>1 DEF TextsAreValid
    <3>2. QED
      BY <2>1, <2>4, <3>1 DEF EndedEarly
  <2>5. QED
    BY <2>1, <2>2, <2>3, <2>4
    DEF DriverInv, DriverTypeOK, InLoad, InGraph, InTranslate, InPreliminary, InPrint, InExit, Silent
<1>3. QED
  BY <1>1, <1>2 DEF EveryFunctionReported, TextsAreValid

-----------------------------------------------------------------------------
(* The theorems.                                                           *)

\* The driver's loops keep their indices in range, and what each one has done
\* so far is what the next one needs.
THEOREM DriverInvariant == Spec => []DriverInv
BY InitOK, NextOK, PTL DEF Spec

\* A run that gets to its functions reports each of them once, in order,
\* whichever steps raised in whichever pass; it never prints the text of a
\* function that failed, or of a pass before the last.
THEOREM AllReported == Spec => []EveryFunctionReported
BY DriverInvariant, InvImpliesReport, PTL

\* The exit status of main.run is 0 exactly when no function, no declaration
\* and no context file failed.
THEOREM StatusCorrect == Spec => []StatusTellsFailure
BY DriverInvariant, InvImpliesStatus, PTL

\* The processes around a run of the driver get the type maps that they would
\* have got without any cache, if those that use one cache file at one time
\* build the same.
THEOREM DriverCacheIsTransparent ==
  ASSUME ~Conflicts
  PROVE  Spec => CacheIsTransparent
<1>1. Init => CacheInv /\ SharedInv /\ Abstract!SpecInit
  BY CacheInitOK, SharedInitOK DEF Init
<1>2. CacheInv /\ SharedInv /\ [Next]_<<cacheVars, driverVars>>
        => CacheInv' /\ SharedInv' /\ [Abstract!SpecNext]_(Abstract!specVars)
  <2> SUFFICES ASSUME CacheInv, SharedInv, [Next]_<<cacheVars, driverVars>>
               PROVE  CacheInv' /\ SharedInv' /\ [Abstract!SpecNext]_(Abstract!specVars)
    OBVIOUS
  <2>1. CASE BuildNext
    <3>1. CacheNext
      BY <2>1, MainAssumption DEF BuildNext, CacheNext
    <3>2. QED
      BY <3>1, CacheNextOK
  <2>2. CASE DriverStep
    <3>1. UNCHANGED cacheVars
      BY <2>2 DEF DriverStep, LoadFailed, DumpTypemap, NotFound, Start, BuildFlowgraph, Translate,
                  PreliminaryDecls, PreliminaryText, PrintDecls, PrintFunction
    <3>2. QED
      BY <3>1, CacheStutters
  <2>3. CASE UNCHANGED <<cacheVars, driverVars>>
    BY <2>3, CacheStutters
  <2>4. QED
    BY <2>1, <2>2, <2>3 DEF Next
<1>3. QED
  BY <1>1, <1>2, PTL DEF Spec, CacheIsTransparent, Abstract!TypeMapSpecification
=============================================================================
