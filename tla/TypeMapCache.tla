---------------------------- MODULE TypeMapCache -----------------------------
(***************************************************************************)
(* _build_typemap with its cache files.  Several m2c processes build type  *)
(* maps from the same context files, which somebody edits meanwhile; the   *)
(* pickle beside a context file is truncated by opening it, written and    *)
(* read in pieces, and left behind half written by a crash.  Nothing keeps *)
(* the pieces of one process from those of another.                        *)
(*                                                                         *)
(* A type map is the sequence of what it was computed from, [align, text,  *)
(* ...]; source_hash is such a sequence as well, so the hash function is   *)
(* taken to be injective.                                                  *)
(***************************************************************************)
EXTENDS Integers, Sequences

CONSTANTS
  Procs, Jobs, Sources, Texts, Bad, MaxBuilds, MaxEdits,
  Conflicts  \* TRUE: builds for different targets or of different texts may
             \* use a cache file at the same time

\* What _build_typemap is called with; an alignment is a positive size.
ASSUME JobsAssumption ==
  Jobs \subseteq [align: Nat \ {0}, paths: Seq(Sources), use_cache: BOOLEAN, dump_typemap: BOOLEAN]

VARIABLES
  texts, cache_files,     \* the file system
  pc, job, got,           \* where each process is, what it builds, what it has read
  typemap, source_hash,   \* the locals of _build_typemap
  loading,                \* the part of the cache file read so far
  result,                 \* the type map returned
  builds, edits           \* bounds

cacheVars == <<texts, cache_files, pc, job, got, typemap, source_hash, loading, result, builds,
               edits>>

NoJob == [align |-> 0, paths |-> <<>>, use_cache |-> FALSE, dump_typemap |-> FALSE]
NoTypeMap == [source_hash |-> <<>>, data |-> <<>>]

\* A pickle is written in two parts; a part that was never written reads as Hole.
Parts == 1..2
Part(tm, k) == [tm |-> tm, k |-> k]
Hole == Part(NoTypeMap, 0)
NoFile    == [exists |-> FALSE, parts |-> <<>>]
EmptyFile == [exists |-> TRUE, parts |-> <<>>]

\* A part is written at the writer's own offset.
Written(file, part) ==
  [exists |-> TRUE,
   parts |-> [i \in 1..(IF part.k > Len(file.parts) THEN part.k ELSE Len(file.parts)) |->
                IF i = part.k THEN part ELSE IF i <= Len(file.parts) THEN file.parts[i] ELSE Hole]]

\* All parts were written, by whomever; the first one begins with source_hash.
Complete(parts) == Len(parts) = 2 /\ parts[1].k = 1 /\ parts[2].k = 2

Unpickled(parts) == [source_hash |-> parts[1].tm.source_hash, data |-> parts[2].tm.data]

-----------------------------------------------------------------------------

\* A root hash that forgets the target.
RootWithoutAlign(align) == <<"root", 0>>

\* The hash the cache is valid for: version and alignment, then every text.
RootHash(align) == <<"root", align>>

Hash(parent, text) == Append(parent, text)

Path(p) == job[p].paths[Len(got[p])]

Goto(p, l) == pc' = [pc EXCEPT ![p] = l]

\* The locals of _build_typemap are gone when it returns or dies.
Leave(p, l) ==
  /\ Goto(p, l)
  /\ job' = [job EXCEPT ![p] = NoJob]
  /\ typemap' = [typemap EXCEPT ![p] = NoTypeMap]
  /\ source_hash' = [source_hash EXCEPT ![p] = <<>>]
  /\ loading' = [loading EXCEPT ![p] = <<>>]

CacheInit ==
  /\ texts \in {[s \in Sources |-> t]: t \in Texts \ {Bad}}
  /\ cache_files = [s \in Sources |-> NoFile]
  /\ pc = [p \in Procs |-> "idle"]
  /\ job = [p \in Procs |-> NoJob]
  /\ got = [p \in Procs |-> <<>>]
  /\ typemap = [p \in Procs |-> NoTypeMap]
  /\ source_hash = [p \in Procs |-> <<>>]
  /\ loading = [p \in Procs |-> <<>>]
  /\ result = [p \in Procs |-> <<>>]
  /\ builds = 0 /\ edits = 0

-----------------------------------------------------------------------------
(* Conflicts = FALSE: while two processes use a cache file, they build the *)
(* same type map.                                                          *)

Files(j) == {j.paths[i] : i \in DOMAIN j.paths}

\* The processes that may read or write the cache file of s.
Users(s) == {p \in Procs : job[p].use_cache /\ s \in Files(job[p])}

\* j may join p: it is for the same target, reads every context file once, and
\* finds those that p has read as p did.
Agrees(p, j) ==
  /\ job[p].align = j.align /\ job[p].paths = j.paths
  /\ \A m, n \in DOMAIN j.paths : j.paths[m] = j.paths[n] => m = n
  /\ \A i \in DOMAIN got[p] : got[p][i] = texts[j.paths[i]]

MayStart(j) ==
  \/ Conflicts
  \/ ~j.use_cache
  \/ \A s \in Files(j) : \A p \in Users(s) : Agrees(p, j)

MayEdit(s) == Conflicts \/ \A p, q \in Users(s) : p = q

-----------------------------------------------------------------------------

EditSource(s, t) ==
  /\ edits < MaxEdits /\ t # texts[s]
  /\ MayEdit(s)
  /\ edits' = edits + 1
  /\ texts' = [texts EXCEPT ![s] = t]
  /\ UNCHANGED <<cache_files, pc, job, got, typemap, source_hash, loading, result, builds>>

StartBuild(p, j) ==
  /\ pc[p] = "idle" /\ builds < MaxBuilds
  /\ MayStart(j)
  /\ builds' = builds + 1
  /\ job' = [job EXCEPT ![p] = j]
  /\ got' = [got EXCEPT ![p] = <<>>]
  /\ result' = [result EXCEPT ![p] = <<>>]
  /\ typemap' = [typemap EXCEPT ![p] = [source_hash |-> RootHash(j.align), data |-> <<j.align>>]]
  /\ Goto(p, "read")
  /\ UNCHANGED <<texts, cache_files, source_hash, loading, edits>>

\* read_text of the next source, its hash, and the check for a cache file.
ReadSource(p) ==
  /\ pc[p] = "read" /\ Len(got[p]) < Len(job[p].paths)
  /\ \E s \in {job[p].paths[Len(got[p]) + 1]}:
       /\ got' = [got EXCEPT ![p] = Append(@, texts[s])]
       /\ source_hash' = [source_hash EXCEPT ![p] = Hash(typemap[p].source_hash, texts[s])]
       /\ Goto(p, IF job[p].use_cache /\ cache_files[s].exists THEN "load" ELSE "parse")
  /\ loading' = [loading EXCEPT ![p] = <<>>]
  /\ UNCHANGED <<texts, cache_files, job, typemap, result, builds, edits>>

\* pickle.load reads the file piece by piece.
LoadPart(p) ==
  /\ pc[p] = "load"
  /\ \E k \in {Len(loading[p]) + 1}:
       /\ k \in DOMAIN cache_files[Path(p)].parts
       /\ loading' = [loading EXCEPT ![p] = Append(@, cache_files[Path(p)].parts[k])]
       /\ Goto(p, IF k = 2 THEN "check" ELSE "load")
  /\ UNCHANGED <<texts, cache_files, job, got, typemap, source_hash, result, builds, edits>>

\* The file ends early.
LoadFails(p) ==
  /\ pc[p] = "load" /\ Len(loading[p]) + 1 \notin DOMAIN cache_files[Path(p)].parts
  /\ Goto(p, "parse")
  /\ UNCHANGED <<texts, cache_files, job, got, typemap, source_hash, loading, result, builds, edits>>

\* The cached type map replaces the one built so far if its hash is right; the
\* parts of two dumps may fit together, or make pickle.load raise.
UseCache(p) ==
  /\ pc[p] = "check"
  /\ \/ /\ Complete(loading[p]) /\ Unpickled(loading[p]).source_hash = source_hash[p]
        /\ typemap' = [typemap EXCEPT ![p] = Unpickled(loading[p])]
        /\ Goto(p, "read")
     \/ /\ \/ ~Complete(loading[p])
           \/ Unpickled(loading[p]).source_hash # source_hash[p]
           \/ loading[p][1].tm # loading[p][2].tm
        /\ Goto(p, "parse") /\ UNCHANGED typemap
  /\ UNCHANGED <<texts, cache_files, job, got, source_hash, loading, result, builds, edits>>

\* parse_c and the visitor add the source to the type map.
Parse(p) ==
  /\ pc[p] = "parse" /\ got[p][Len(got[p])] # Bad
  /\ typemap' = [typemap EXCEPT ![p] = [source_hash |-> source_hash[p],
                                        data |-> Append(@.data, got[p][Len(got[p])])]]
  /\ Goto(p, IF job[p].use_cache THEN "open" ELSE "read")
  /\ UNCHANGED <<texts, cache_files, job, got, source_hash, loading, result, builds, edits>>

SyntaxError(p) ==
  /\ pc[p] = "parse" /\ got[p][Len(got[p])] = Bad
  /\ Leave(p, "failed")
  /\ UNCHANGED <<texts, cache_files, got, result, builds, edits>>

\* open("wb") truncates.
OpenCache(p) ==
  /\ pc[p] = "open"
  /\ cache_files' = [cache_files EXCEPT ![Path(p)] = EmptyFile]
  /\ Goto(p, "dump1")
  /\ UNCHANGED <<texts, job, got, typemap, source_hash, loading, result, builds, edits>>

DumpPart(p) ==
  /\ pc[p] \in {"dump1", "dump2"}
  /\ cache_files' = [cache_files EXCEPT ![Path(p)] =
                       Written(@, Part(typemap[p], IF pc[p] = "dump1" THEN 1 ELSE 2))]
  /\ Goto(p, IF pc[p] = "dump1" THEN "dump2" ELSE "read")
  /\ UNCHANGED <<texts, job, got, typemap, source_hash, loading, result, builds, edits>>

\* The cache cannot be written: a warning, and the build goes on.
WriteFails(p) ==
  /\ pc[p] \in {"open", "dump1", "dump2"}
  /\ Goto(p, "read")
  /\ UNCHANGED <<texts, cache_files, job, got, typemap, source_hash, loading, result, builds, edits>>

Return(p) ==
  /\ pc[p] = "read" /\ Len(got[p]) = Len(job[p].paths)
  /\ result' = [result EXCEPT ![p] = typemap[p].data]
  /\ Leave(p, "built")
  /\ UNCHANGED <<texts, cache_files, got, builds, edits>>

Crash(p) ==
  /\ pc[p] \notin {"idle", "built", "failed"}
  /\ Leave(p, "idle")
  /\ UNCHANGED <<texts, cache_files, got, result, builds, edits>>

BuildStep(p) ==
  \/ ReadSource(p) \/ LoadPart(p) \/ LoadFails(p) \/ UseCache(p) \/ Parse(p) \/ SyntaxError(p)
  \/ OpenCache(p) \/ DumpPart(p) \/ WriteFails(p) \/ Return(p) \/ Crash(p)

\* A process that has its type map can be asked again.
Exit(p) ==
  /\ pc[p] \in {"built", "failed"}
  /\ Goto(p, "idle")
  /\ UNCHANGED <<texts, cache_files, job, got, typemap, source_hash, loading, result, builds, edits>>

CacheNext ==
  \/ \E s \in Sources, t \in Texts: EditSource(s, t)
  \/ \E p \in Procs: (\E j \in Jobs: StartBuild(p, j)) \/ BuildStep(p) \/ Exit(p)

CacheSpec == CacheInit /\ [][CacheNext]_cacheVars

-----------------------------------------------------------------------------
(* Properties.                                                             *)

Abstract == INSTANCE TypeMapSpec WITH typemap <- result

\* Whatever the caches hold and whoever edits, truncates, writes at the same
\* time or crashes: a process gets the type map of the texts it has read itself,
\* for its own target.
CacheIsTransparent == Abstract!TypeMapSpecification
=============================================================================
