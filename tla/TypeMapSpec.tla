---------------------------- MODULE TypeMapSpec ------------------------------
(***************************************************************************)
(* What building a type map promises, without a cache: a process reads     *)
(* its context files one after the other, whatever they hold at that       *)
(* moment, and gets the type map of exactly those texts for its target.    *)
(***************************************************************************)
EXTENDS Integers, Sequences

CONSTANTS
  Procs,
  Jobs,   \* what a process may be asked to build: [align, paths, use_cache,
          \* dump_typemap]
  Sources, Texts,
  Bad     \* a text that does not parse

VARIABLES
  texts,  \* the contents of the context files
  job,    \* what a process builds, NoJob when it builds nothing
  got,    \* the texts it has read
  typemap \* the type map it got: <<>> while it has none

specVars == <<texts, job, got, typemap>>

NoJob == [align |-> 0, paths |-> <<>>, use_cache |-> FALSE, dump_typemap |-> FALSE]

SpecInit ==
  /\ texts \in [Sources -> Texts]
  /\ job = [p \in Procs |-> NoJob]
  /\ got = [p \in Procs |-> <<>>]
  /\ typemap = [p \in Procs |-> <<>>]

Edit(s, t) ==
  /\ texts' = [texts EXCEPT ![s] = t]
  /\ UNCHANGED <<job, got, typemap>>

Begin(p, j) ==
  /\ job[p] = NoJob
  /\ job' = [job EXCEPT ![p] = j]
  /\ got' = [got EXCEPT ![p] = <<>>]
  /\ typemap' = [typemap EXCEPT ![p] = <<>>]
  /\ UNCHANGED texts

ReadNext(p) ==
  /\ job[p] # NoJob /\ Len(got[p]) < Len(job[p].paths)
  /\ got' = [got EXCEPT ![p] = Append(@, texts[job[p].paths[Len(@) + 1]])]
  /\ UNCHANGED <<texts, job, typemap>>

\* The type map is a function of the alignment and the texts read.
Deliver(p) ==
  /\ job[p] # NoJob /\ Len(got[p]) = Len(job[p].paths)
  /\ \A i \in DOMAIN got[p]: got[p][i] # Bad
  /\ typemap' = [typemap EXCEPT ![p] = <<job[p].align>> \o got[p]]
  /\ job' = [job EXCEPT ![p] = NoJob]
  /\ UNCHANGED <<texts, got>>

\* A syntax error or a crash.
GiveUp(p) ==
  /\ job[p] # NoJob
  /\ job' = [job EXCEPT ![p] = NoJob]
  /\ UNCHANGED <<texts, got, typemap>>

SpecNext ==
  \/ \E s \in Sources, t \in Texts: Edit(s, t)
  \/ \E p \in Procs:
       \/ \E j \in Jobs: Begin(p, j)
       \/ ReadNext(p)
       \/ Deliver(p)
       \/ GiveUp(p)

TypeMapSpecification == SpecInit /\ [][SpecNext]_specVars
=============================================================================
