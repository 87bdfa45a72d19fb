------------------------- MODULE TypeMapCacheProofs --------------------------
(***************************************************************************)
(* That the cache is transparent, for any number of processes, context     *)
(* files, texts, jobs, builds and edits.                                   *)
(***************************************************************************)
EXTENDS TypeMapCache, TLAPS

\* A process that does not build.
Idle == {"idle", "built", "failed"}
\* The type map holds every text that was read.
Settled == {"read", "open", "dump1", "dump2"}
\* The last text read is not in the type map yet.
Pending == {"load", "check", "parse"}

\* No text of r has a syntax error.
Clean(r) == \A i \in DOMAIN r: r[i] # Bad

\* The hash and the type map of the texts r.
HashOf(align, r) == <<"root", align>> \o r
DataOf(align, r) == <<align>> \o r
TypeMapOf(align, r) == [source_hash |-> HashOf(align, r), data |-> DataOf(align, r)]

\* The only type maps that exist anywhere, in memory or in a file: the hash of
\* each one tells what it was computed from.
TypeMaps ==
  {NoTypeMap} \cup {TypeMapOf(a, r): a \in Nat, r \in {q \in Seq(Texts): Clean(q)}}

\* The hashes that occur.
Hashes == {<<>>} \cup {HashOf(a, r): a \in Nat, r \in Seq(Texts)}

\* A cache file: the parts that were written, each with the type map it is of.
FileParts == [tm: TypeMaps, k: 0..2]
CacheFiles == [exists: BOOLEAN, parts: Seq(FileParts)]

\* The type invariant; its part on type maps is what makes a hash decide.
CacheTypeOK ==
  /\ texts \in [Sources -> Texts]
  /\ cache_files \in [Sources -> CacheFiles]
  /\ pc \in [Procs -> Idle \cup Settled \cup Pending]
  /\ job \in [Procs -> Jobs \cup {NoJob}]
  /\ got \in [Procs -> Seq(Texts)]
  /\ typemap \in [Procs -> TypeMaps]
  /\ source_hash \in [Procs -> Hashes]
  /\ loading \in [Procs -> Seq(FileParts)]

\* A process has a job exactly while it builds, and has read at most its files.
HasJob(p) ==
  /\ pc[p] \in Idle <=> job[p] = NoJob
  /\ Len(got[p]) <= Len(job[p].paths) \/ pc[p] \in Idle

\* What the locals of _build_typemap are at each step.
SettledOK(p) ==
  pc[p] \in Settled => Clean(got[p]) /\ typemap[p] = TypeMapOf(job[p].align, got[p])

\* A text was read: the hash knows it, the type map does not yet.
PendingOK(p) ==
  pc[p] \in Pending =>
    /\ source_hash[p] = HashOf(job[p].align, got[p])
    /\ \E r \in Seq(Texts), t \in Texts:
         got[p] = Append(r, t) /\ Clean(r) /\ typemap[p] = TypeMapOf(job[p].align, r)

ProcOK(p) == HasJob(p) /\ SettledOK(p) /\ PendingOK(p)

\* The inductive invariant of the cache.
CacheInv == CacheTypeOK /\ \A p \in Procs: ProcOK(p)

\* What _build_typemap has to find or make for the texts p has read.
Target(p) == TypeMapOf(job[p].align, got[p])

\* A process that is about to use, or uses, the cache file of the text it has
\* read last.
Caching == {"load", "check", "open", "dump1", "dump2"}

\* Every part of the cache file of s that was written at all is of tm.
PartsAre(s, tm) ==
  \A i \in DOMAIN cache_files[s].parts :
    cache_files[s].parts[i].k = 0 \/ cache_files[s].parts[i].tm = tm

\* Only users of the cache come to a cache file.
UserOK(p) == pc[p] \in Caching => job[p].use_cache /\ got[p] # <<>>

\* Two users of one file agree: what they have read so far is the same, as far
\* as both have come.
PairOK(p, q) ==
  \A s \in Sources : p # q /\ p \in Users(s) /\ q \in Users(s) =>
    /\ job[p].align = job[q].align /\ job[p].paths = job[q].paths
    /\ \A m, n \in DOMAIN job[p].paths : job[p].paths[m] = job[p].paths[n] => m = n
    /\ \A i \in DOMAIN got[p] : got[p][i] = texts[job[p].paths[i]]

\* A file is never a mixture: it holds parts of one dump, as many as the last
\* process that truncated it, or one that agreed with it, came to write.
FileOK(s) == \E tm \in TypeMaps : PartsAre(s, tm)

\* Whatever is in the file that p writes is of the type map p writes.
WriteOK(p) == pc[p] \in {"dump1", "dump2"} => PartsAre(Path(p), Target(p))

\* If the part that p has read is of the type map p looks for, then so is what
\* p will read; a part of another type map has another hash.
ReadOK(p) ==
  /\ pc[p] = "load" => Len(loading[p]) <= 1
  /\ pc[p] \in {"load", "check"} /\ loading[p] # <<>>
       /\ loading[p][1].k # 0 /\ loading[p][1].tm = Target(p) =>
         /\ Len(loading[p]) = 1 => PartsAre(Path(p), Target(p))
         /\ Len(loading[p]) = 2 => loading[p][2].k = 0 \/ loading[p][2].tm = Target(p)

\* The inductive invariant of the files that several processes share.
SharedInv ==
  /\ \A s \in Sources : FileOK(s)
  /\ \A p \in Procs : UserOK(p) /\ WriteOK(p) /\ ReadOK(p)
  /\ \A p, q \in Procs : PairOK(p, q)

-----------------------------------------------------------------------------
(* Hashes and type maps as sequences.                                      *)

\* Hash(parent, text) is the hash of one more text.
LEMMA HashAppend ==
  ASSUME NEW a, NEW r \in Seq(Texts), NEW t \in Texts
  PROVE  Append(HashOf(a, r), t) = HashOf(a, Append(r, t))
BY DEF HashOf

\* The visitor adds one more text to the type map.
LEMMA DataAppend ==
  ASSUME NEW a, NEW r \in Seq(Texts), NEW t \in Texts
  PROVE  Append(DataOf(a, r), t) = DataOf(a, Append(r, t))
BY DEF DataOf

\* The hash tells the alignment and the texts.
LEMMA HashInjective ==
  ASSUME NEW a, NEW b, NEW q \in Seq(Texts), NEW r \in Seq(Texts), HashOf(a, q) = HashOf(b, r)
  PROVE  a = b /\ q = r
<1>1. Len(HashOf(a, q)) = Len(q) + 2 /\ Len(HashOf(b, r)) = Len(r) + 2
  BY DEF HashOf
<1>2. HashOf(a, q)[2] = a /\ HashOf(b, r)[2] = b
  BY DEF HashOf
<1>3. ASSUME NEW i \in 1..Len(q) PROVE q[i] = r[i]
  <2>1. HashOf(a, q)[i + 2] = q[i] /\ HashOf(b, r)[i + 2] = r[i]
    BY <1>1 DEF HashOf
  <2>2. QED
    BY <2>1
<1>4. QED
  BY <1>1, <1>2, <1>3

\* One more good text.
LEMMA CleanAppend ==
  ASSUME NEW r \in Seq(Texts), NEW t \in Texts, Clean(r), t # Bad
  PROVE  Clean(Append(r, t))
BY DEF Clean

\* A type map of good texts exists.
LEMMA IsTypeMap ==
  ASSUME NEW a \in Nat, NEW r \in Seq(Texts), Clean(r)
  PROVE  TypeMapOf(a, r) \in TypeMaps
BY DEF TypeMaps

\* A hash of texts exists.
LEMMA IsHash ==
  ASSUME NEW a \in Nat, NEW r \in Seq(Texts)
  PROVE  HashOf(a, r) \in Hashes
BY DEF Hashes

\* A type map with the hash of some texts holds exactly those texts: what a
\* cache file offers is right whenever its hash is.
LEMMA HashDecides ==
  ASSUME NEW tm \in TypeMaps, NEW a \in Nat, NEW r \in Seq(Texts), tm.source_hash = HashOf(a, r)
  PROVE  tm = TypeMapOf(a, r) /\ Clean(r)
<1>1. tm # NoTypeMap
  <2>1. NoTypeMap.source_hash = <<>>
    BY DEF NoTypeMap
  <2>2. Len(HashOf(a, r)) = Len(r) + 2
    BY DEF HashOf
  <2>3. QED
    BY <2>1, <2>2
<1>2. PICK b \in Nat, q \in Seq(Texts): tm = TypeMapOf(b, q) /\ Clean(q)
  BY <1>1 DEF TypeMaps
<1>3. HashOf(b, q) = HashOf(a, r)
  BY <1>2 DEF TypeMapOf
<1>4. QED
  BY <1>2, <1>3, HashInjective

\* A pickle part written into a file leaves a file of such parts.
LEMMA WrittenFile ==
  ASSUME NEW file \in CacheFiles, NEW tm \in TypeMaps, NEW k \in 1..2
  PROVE  Written(file, Part(tm, k)) \in CacheFiles
<1>1. NoTypeMap \in TypeMaps
  BY DEF TypeMaps
<1>2. Hole \in FileParts /\ Part(tm, k) \in FileParts /\ Part(tm, k).k = k
  BY <1>1 DEF Hole, Part, FileParts
<1>3. PICK n \in Nat: n = IF k > Len(file.parts) THEN k ELSE Len(file.parts)
  BY DEF CacheFiles
<1>4. [i \in 1..n |-> IF i = k THEN Part(tm, k)
                      ELSE IF i <= Len(file.parts) THEN file.parts[i] ELSE Hole]
        \in Seq(FileParts)
  <2>1. ASSUME NEW i \in 1..n
        PROVE  (IF i = k THEN Part(tm, k)
                ELSE IF i <= Len(file.parts) THEN file.parts[i] ELSE Hole) \in FileParts
    BY <1>2 DEF CacheFiles
  <2>2. QED
    BY <2>1
<1>5. QED
  BY <1>2, <1>3, <1>4 DEF Written, CacheFiles

-----------------------------------------------------------------------------
(* The steps: each keeps CacheInv and is a step of TypeMapSpec or none.    *)

USE DEF Goto

\* What a job is.
LEMMA JobType ==
  ASSUME NEW j \in Jobs
  PROVE  j.align \in Nat /\ j.paths \in Seq(Sources) /\ j # NoJob
BY JobsAssumption DEF NoJob

\* What a process does leaves the others as they are.
LEMMA OtherProcess ==
  ASSUME NEW q, ProcOK(q), pc'[q] = pc[q], job'[q] = job[q], got'[q] = got[q],
         typemap'[q] = typemap[q], source_hash'[q] = source_hash[q]
  PROVE  ProcOK(q)'
BY DEF ProcOK, HasJob, SettledOK, PendingOK

\* At the start the cache is that of the abstract specification.
LEMMA CacheInitOK == CacheInit => CacheInv /\ Abstract!SpecInit
<1> SUFFICES ASSUME CacheInit PROVE CacheInv /\ Abstract!SpecInit
  OBVIOUS
<1>1. CacheTypeOK
  <2>1. NoTypeMap \in TypeMaps /\ <<>> \in Hashes
    BY DEF TypeMaps, Hashes
  <2>2. NoFile \in CacheFiles
    BY DEF NoFile, CacheFiles
  <2>3. <<>> \in Seq(Texts) /\ <<>> \in Seq(FileParts)
    OBVIOUS
  <2>4. QED
    BY <2>1, <2>2, <2>3 DEF CacheInit, CacheTypeOK, Idle
<1>2. ASSUME NEW p \in Procs PROVE ProcOK(p)
  BY DEF CacheInit, ProcOK, HasJob, SettledOK, PendingOK, Idle, Settled, Pending
<1>3. Abstract!SpecInit
  BY DEF CacheInit, Abstract!SpecInit, NoJob, Abstract!NoJob
<1>4. QED
  BY <1>1, <1>2, <1>3 DEF CacheInv

\* A process that leaves _build_typemap.
LEMMA Leaves ==
  ASSUME CacheInv, NEW p \in Procs, NEW l \in Idle, Leave(p, l),
         UNCHANGED <<texts, cache_files, got>>
  PROVE  CacheInv'
<1>1. CacheTypeOK'
  <2>1. NoTypeMap \in TypeMaps /\ <<>> \in Hashes /\ <<>> \in Seq(FileParts)
    BY DEF TypeMaps, Hashes
  <2>2. QED
    BY <2>1 DEF CacheInv, CacheTypeOK, Leave
<1>2. ProcOK(p)'
  BY DEF CacheInv, CacheTypeOK, Leave, ProcOK, HasJob, SettledOK, PendingOK, Idle, Settled, Pending
<1>3. ASSUME NEW q \in Procs, q # p PROVE ProcOK(q)'
  BY <1>3, OtherProcess DEF CacheInv, CacheTypeOK, Leave
<1>4. QED
  BY <1>1, <1>2, <1>3 DEF CacheInv

\* A step that only moves on, and reads or writes a cache file.
LEMMA MovesOn ==
  ASSUME CacheInv, NEW p \in Procs, NEW l, Goto(p, l),
         \/ pc[p] \in Settled /\ l \in Settled
         \/ pc[p] \in Pending /\ l \in Pending
         \/ pc[p] \in Idle /\ l \in Idle,
         UNCHANGED <<texts, job, got, typemap, source_hash>>,
         cache_files' \in [Sources -> CacheFiles],
         loading' \in [Procs -> Seq(FileParts)]
  PROVE  CacheInv'
<1>1. CacheTypeOK'
  BY DEF CacheInv, CacheTypeOK
<1>2. ProcOK(p)'
  BY DEF CacheInv, CacheTypeOK, ProcOK, HasJob, SettledOK, PendingOK, Idle, Settled, Pending
<1>3. ASSUME NEW q \in Procs, q # p PROVE ProcOK(q)'
  BY <1>3, OtherProcess DEF CacheInv, CacheTypeOK
<1>4. QED
  BY <1>1, <1>2, <1>3 DEF CacheInv

\* Editing a context file is editing it in the abstract specification.
LEMMA EditSourceStep ==
  ASSUME CacheInv, NEW s \in Sources, NEW t \in Texts, EditSource(s, t)
  PROVE  CacheInv' /\ Abstract!Edit(s, t)
<1>1. CacheTypeOK'
  BY DEF CacheInv, CacheTypeOK, EditSource
<1>2. ASSUME NEW q \in Procs PROVE ProcOK(q)'
  BY OtherProcess DEF CacheInv, EditSource
<1>3. Abstract!Edit(s, t)
  BY DEF EditSource, Abstract!Edit
<1>4. QED
  BY <1>1, <1>2, <1>3 DEF CacheInv

\* So is starting a build,
LEMMA StartBuildStep ==
  ASSUME CacheInv, NEW p \in Procs, NEW j \in Jobs, StartBuild(p, j)
  PROVE  CacheInv' /\ Abstract!Begin(p, j)
<1>1. /\ <<>> \in Seq(Texts) /\ Clean(<<>>)
      /\ TypeMapOf(j.align, <<>>) = [source_hash |-> RootHash(j.align), data |-> <<j.align>>]
  BY DEF Clean, TypeMapOf, HashOf, DataOf, RootHash
<1>2. TypeMapOf(j.align, <<>>) \in TypeMaps
  BY <1>1, JobType, IsTypeMap
<1>3. CacheTypeOK'
  BY <1>1, <1>2 DEF CacheInv, CacheTypeOK, StartBuild, Settled
<1>4. ProcOK(p)'
  <2>1. /\ pc'[p] = "read" /\ job'[p] = j /\ got'[p] = <<>>
        /\ typemap'[p] = TypeMapOf(j.align, <<>>)
    BY <1>1 DEF CacheInv, CacheTypeOK, StartBuild
  <2>2. QED
    BY <1>1, <2>1, JobType DEF ProcOK, HasJob, SettledOK, PendingOK, Idle, Settled, Pending
<1>5. ASSUME NEW q \in Procs, q # p PROVE ProcOK(q)'
  BY <1>5, OtherProcess DEF CacheInv, CacheTypeOK, StartBuild
<1>6. Abstract!Begin(p, j)
  BY DEF CacheInv, ProcOK, HasJob, Idle, StartBuild, Abstract!Begin, NoJob, Abstract!NoJob
<1>7. QED
  BY <1>3, <1>4, <1>5, <1>6 DEF CacheInv

\* and reading a context file.
LEMMA ReadSourceStep ==
  ASSUME CacheInv, NEW p \in Procs, ReadSource(p)
  PROVE  CacheInv' /\ Abstract!ReadNext(p)
<1>1. /\ pc[p] = "read" /\ job[p] \in Jobs /\ got[p] \in Seq(Texts)
      /\ Clean(got[p]) /\ typemap[p] = TypeMapOf(job[p].align, got[p])
  BY DEF ReadSource, CacheInv, CacheTypeOK, ProcOK, HasJob, SettledOK, Settled, Idle
<1>2. /\ job[p].align \in Nat /\ job[p].paths \in Seq(Sources) /\ job[p] # NoJob
  BY <1>1, JobType
<1>3. PICK s \in Sources: s = job[p].paths[Len(got[p]) + 1]
  BY <1>1, <1>2 DEF ReadSource
<1>4. PICK t \in Texts: t = texts[s]
  BY DEF CacheInv, CacheTypeOK
<1>5. Append(got[p], t) \in Seq(Texts) /\ Len(Append(got[p], t)) = Len(got[p]) + 1
  BY <1>1
<1>6. typemap[p].source_hash = HashOf(job[p].align, got[p])
  BY <1>1 DEF TypeMapOf
<1>7. /\ Hash(typemap[p].source_hash, t) = HashOf(job[p].align, Append(got[p], t))
      /\ HashOf(job[p].align, Append(got[p], t)) \in Hashes
  <2>1. HashOf(job[p].align, Append(got[p], t)) \in Hashes
    BY <1>2, <1>5, IsHash
  <2>2. Append(HashOf(job[p].align, got[p]), t) = HashOf(job[p].align, Append(got[p], t))
    BY <1>1, HashAppend
  <2>3. QED
    BY <1>6, <2>1, <2>2 DEF Hash
<1>8. /\ got' = [got EXCEPT ![p] = Append(got[p], t)]
      /\ source_hash' = [source_hash EXCEPT ![p] = HashOf(job[p].align, Append(got[p], t))]
      /\ \E l \in {"load", "parse"}: pc' = [pc EXCEPT ![p] = l]
  BY <1>3, <1>4, <1>7 DEF ReadSource
<1>9. CacheTypeOK'
  <2>1. loading' \in [Procs -> Seq(FileParts)]
    BY DEF ReadSource, CacheInv, CacheTypeOK
  <2>2. QED
    BY <1>5, <1>7, <1>8, <2>1 DEF ReadSource, CacheInv, CacheTypeOK, Pending
<1>10. ProcOK(p)'
  <2>1. /\ pc'[p] \in Pending /\ pc'[p] \notin Idle /\ pc'[p] \notin Settled
        /\ got'[p] = Append(got[p], t) /\ job'[p] = job[p] /\ typemap'[p] = typemap[p]
        /\ source_hash'[p] = HashOf(job[p].align, Append(got[p], t))
    BY <1>8 DEF ReadSource, CacheInv, CacheTypeOK, Pending, Idle, Settled
  <2>2. HasJob(p)'
    BY <1>1, <1>2, <1>5, <2>1 DEF ReadSource, HasJob
  <2>3. PendingOK(p)'
    BY <1>1, <2>1 DEF PendingOK
  <2>4. QED
    BY <2>1, <2>2, <2>3 DEF ProcOK, SettledOK
<1>11. ASSUME NEW q \in Procs, q # p PROVE ProcOK(q)'
  BY <1>11, <1>8, OtherProcess DEF ReadSource, CacheInv, CacheTypeOK
<1>12. Abstract!ReadNext(p)
  BY <1>2, <1>3, <1>4, <1>8 DEF ReadSource, Abstract!ReadNext, NoJob, Abstract!NoJob
<1>13. QED
  BY <1>9, <1>10, <1>11, <1>12 DEF CacheInv

\* Reading a part of a pickle is a stutter.
LEMMA LoadPartStep ==
  ASSUME CacheInv, NEW p \in Procs, LoadPart(p)
  PROVE  CacheInv' /\ UNCHANGED <<texts, job, got, result>>
<1>1. pc[p] = "load" /\ job[p] \in Jobs
  BY DEF LoadPart, CacheInv, CacheTypeOK, ProcOK, HasJob, Idle
<1>2. Len(got[p]) \in 1..Len(job[p].paths) /\ job[p].paths \in Seq(Sources)
  <2>1. PICK r \in Seq(Texts), t \in Texts: got[p] = Append(r, t)
    BY <1>1 DEF CacheInv, ProcOK, PendingOK, Pending
  <2>2. Len(got[p]) = Len(r) + 1
    BY <2>1
  <2>3. QED
    BY <1>1, <2>2, JobType DEF CacheInv, ProcOK, HasJob, Idle
<1>3. Path(p) \in Sources
  BY <1>2 DEF Path
<1>4. PICK n \in {Len(loading[p]) + 1}:
        /\ n \in DOMAIN cache_files[Path(p)].parts
        /\ loading' = [loading EXCEPT ![p] = Append(@, cache_files[Path(p)].parts[n])]
        /\ Goto(p, IF n = 2 THEN "check" ELSE "load")
  BY DEF LoadPart
<1>5. cache_files[Path(p)].parts[n] \in FileParts
  BY <1>3, <1>4 DEF CacheInv, CacheTypeOK, CacheFiles
<1>6. loading' \in [Procs -> Seq(FileParts)]
  BY <1>4, <1>5 DEF CacheInv, CacheTypeOK
<1>7. PICK l \in Pending: Goto(p, l)
  BY <1>4 DEF Pending
<1>8. CacheInv'
  BY <1>1, <1>6, <1>7, MovesOn DEF LoadPart, CacheInv, CacheTypeOK, Pending
<1>9. QED
  BY <1>8 DEF LoadPart

\* A pickle that does not load is a stutter.
LEMMA LoadFailsStep ==
  ASSUME CacheInv, NEW p \in Procs, LoadFails(p)
  PROVE  CacheInv' /\ UNCHANGED <<texts, job, got, result>>
BY MovesOn DEF LoadFails, CacheInv, CacheTypeOK, Pending

\* A hit gives the type map of the texts that were read: the first part by its
\* hash, the second because the parts are of one dump.
LEMMA UseCacheStep ==
  ASSUME CacheInv, NEW p \in Procs, ReadOK(p), UseCache(p)
  PROVE  CacheInv' /\ UNCHANGED <<texts, job, got, result>>
<1>1. pc[p] = "check" /\ job[p] \in Jobs /\ got[p] \in Seq(Texts)
      /\ source_hash[p] = HashOf(job[p].align, got[p])
  BY DEF UseCache, CacheInv, CacheTypeOK, ProcOK, HasJob, PendingOK, Pending, Idle
<1>2. CASE /\ Complete(loading[p]) /\ Unpickled(loading[p]).source_hash = source_hash[p]
           /\ typemap' = [typemap EXCEPT ![p] = Unpickled(loading[p])]
           /\ Goto(p, "read")
  <2>1. PICK tm \in TypeMaps: tm = loading[p][1].tm
    <3>1. loading[p] \in Seq(FileParts) /\ Len(loading[p]) = 2
      BY <1>2 DEF Complete, CacheInv, CacheTypeOK
    <3>2. loading[p][1] \in FileParts
      BY <3>1
    <3>3. QED
      BY <3>2 DEF FileParts
  <2>2. tm.source_hash = source_hash[p]
    BY <1>2, <2>1 DEF Unpickled
  <2>3. tm = TypeMapOf(job[p].align, got[p]) /\ Clean(got[p])
    BY <1>1, <2>2, JobType, HashDecides
  <2>4. loading[p][2].tm = tm
    <3>1. /\ Len(loading[p]) = 2 /\ loading[p] # <<>>
          /\ loading[p][1].k # 0 /\ loading[p][2].k # 0
      BY <1>2 DEF Complete
    <3>2. QED
      BY <1>1, <2>1, <2>3, <3>1 DEF ReadOK, Target
  <2>5. Unpickled(loading[p]) = tm
    BY <2>1, <2>3, <2>4 DEF Unpickled, TypeMapOf
  <2>6. typemap' = [typemap EXCEPT ![p] = tm] /\ pc' = [pc EXCEPT ![p] = "read"]
    BY <1>2, <2>5
  <2>7. CacheTypeOK'
    BY <2>6 DEF UseCache, CacheInv, CacheTypeOK, Settled
  <2>8. ProcOK(p)'
    <3>1. typemap'[p] = tm /\ pc'[p] = "read" /\ job'[p] = job[p] /\ got'[p] = got[p]
      BY <2>6 DEF UseCache, CacheInv, CacheTypeOK
    <3>2. QED
      BY <1>1, <2>3, <3>1, JobType
      DEF CacheInv, ProcOK, HasJob, SettledOK, PendingOK, Idle, Settled, Pending
  <2>9. ASSUME NEW q \in Procs, q # p PROVE ProcOK(q)'
    BY <2>6, <2>9, OtherProcess DEF UseCache, CacheInv, CacheTypeOK
  <2>10. QED
    BY <2>7, <2>8, <2>9 DEF CacheInv, UseCache
<1>3. CASE Goto(p, "parse") /\ UNCHANGED typemap
  BY <1>1, <1>3, MovesOn DEF UseCache, CacheInv, CacheTypeOK, Pending
<1>4. QED
  BY <1>2, <1>3 DEF UseCache

\* So does parsing.
LEMMA ParseStep ==
  ASSUME CacheInv, NEW p \in Procs, Parse(p)
  PROVE  CacheInv' /\ UNCHANGED <<texts, job, got, result>>
<1>1. pc[p] = "parse" /\ job[p] \in Jobs /\ got[p] \in Seq(Texts) /\ job[p].align \in Nat
      /\ source_hash[p] = HashOf(job[p].align, got[p])
  BY JobType DEF Parse, CacheInv, CacheTypeOK, ProcOK, HasJob, PendingOK, Pending, Idle
<1>2. PICK r \in Seq(Texts), t \in Texts:
        got[p] = Append(r, t) /\ Clean(r) /\ typemap[p] = TypeMapOf(job[p].align, r)
  BY <1>1 DEF CacheInv, ProcOK, PendingOK, Pending
<1>3. got[p][Len(got[p])] = t
  BY <1>2
<1>4. Clean(got[p])
  BY <1>2, <1>3, CleanAppend DEF Parse
<1>5. Append(typemap[p].data, t) = DataOf(job[p].align, got[p])
  <2>1. typemap[p].data = DataOf(job[p].align, r)
    BY <1>2 DEF TypeMapOf
  <2>2. QED
    BY <1>2, <2>1, DataAppend
<1>6. /\ typemap' = [typemap EXCEPT ![p] = TypeMapOf(job[p].align, got[p])]
      /\ \E l \in {"open", "read"}: pc' = [pc EXCEPT ![p] = l]
  BY <1>1, <1>3, <1>5 DEF Parse, TypeMapOf
<1>7. CacheTypeOK'
  <2>1. TypeMapOf(job[p].align, got[p]) \in TypeMaps
    BY <1>1, <1>4, IsTypeMap
  <2>2. typemap' \in [Procs -> TypeMaps]
    BY <1>6, <2>1 DEF CacheInv, CacheTypeOK
  <2>3. pc' \in [Procs -> Idle \cup Settled \cup Pending]
    BY <1>6 DEF CacheInv, CacheTypeOK, Settled
  <2>4. QED
    BY <2>2, <2>3 DEF Parse, CacheInv, CacheTypeOK
<1>8. ProcOK(p)'
  <2>1. /\ pc'[p] \in Settled /\ pc'[p] \notin Idle /\ pc'[p] \notin Pending
        /\ typemap'[p] = TypeMapOf(job[p].align, got[p])
        /\ job'[p] = job[p] /\ got'[p] = got[p]
    BY <1>6 DEF Parse, CacheInv, CacheTypeOK, Settled, Idle, Pending
  <2>2. QED
    BY <1>1, <1>4, <2>1, JobType
    DEF CacheInv, ProcOK, HasJob, SettledOK, PendingOK, Idle
<1>9. ASSUME NEW q \in Procs, q # p PROVE ProcOK(q)'
  BY <1>6, <1>9, OtherProcess DEF Parse, CacheInv, CacheTypeOK
<1>10. QED
  BY <1>7, <1>8, <1>9 DEF CacheInv, Parse

\* Truncating a cache file is a stutter,
LEMMA OpenCacheStep ==
  ASSUME CacheInv, NEW p \in Procs, OpenCache(p)
  PROVE  CacheInv' /\ UNCHANGED <<texts, job, got, result>>
<1>1. EmptyFile \in CacheFiles
  BY DEF EmptyFile, CacheFiles
<1>2. cache_files' \in [Sources -> CacheFiles]
  BY <1>1 DEF OpenCache, CacheInv, CacheTypeOK
<1>3. QED
  BY <1>2, MovesOn DEF OpenCache, CacheInv, CacheTypeOK, Settled

\* and writing a part of one,
LEMMA DumpPartStep ==
  ASSUME CacheInv, NEW p \in Procs, DumpPart(p)
  PROVE  CacheInv' /\ UNCHANGED <<texts, job, got, result>>
<1>1. PICK n \in 1..2: n = IF pc[p] = "dump1" THEN 1 ELSE 2
  OBVIOUS
<1>2. cache_files' = [cache_files EXCEPT ![Path(p)] = Written(@, Part(typemap[p], n))]
  BY <1>1 DEF DumpPart
<1>3. typemap[p] \in TypeMaps
  BY DEF CacheInv, CacheTypeOK
<1>4. ASSUME NEW s \in Sources PROVE cache_files'[s] \in CacheFiles
  <2>1. cache_files[s] \in CacheFiles
    BY DEF CacheInv, CacheTypeOK
  <2>2. Written(cache_files[s], Part(typemap[p], n)) \in CacheFiles
    BY <1>3, <2>1, WrittenFile
  <2>3. QED
    BY <1>2, <2>1, <2>2 DEF CacheInv, CacheTypeOK
<1>5. cache_files' \in [Sources -> CacheFiles]
  BY <1>2, <1>4 DEF CacheInv, CacheTypeOK
<1>6. PICK l \in Settled: Goto(p, l) /\ pc[p] \in Settled
  BY DEF DumpPart, Settled
<1>7. CacheInv'
  BY <1>5, <1>6, MovesOn DEF DumpPart, CacheInv, CacheTypeOK
<1>8. QED
  BY <1>7 DEF DumpPart

\* and failing to.
LEMMA WriteFailsStep ==
  ASSUME CacheInv, NEW p \in Procs, WriteFails(p)
  PROVE  CacheInv' /\ UNCHANGED <<texts, job, got, result>>
BY MovesOn DEF WriteFails, CacheInv, CacheTypeOK, Settled

\* A process that is asked again starts from what it left.
LEMMA ExitStep ==
  ASSUME CacheInv, NEW p \in Procs, Exit(p)
  PROVE  CacheInv' /\ UNCHANGED <<texts, job, got, result>>
BY MovesOn DEF Exit, CacheInv, CacheTypeOK, Idle

\* A syntax error fails the build in both specifications.
LEMMA SyntaxErrorStep ==
  ASSUME CacheInv, NEW p \in Procs, SyntaxError(p)
  PROVE  CacheInv' /\ Abstract!GiveUp(p)
<1>1. CacheInv'
  BY Leaves DEF SyntaxError, Idle
<1>2. job[p] # NoJob
  BY DEF CacheInv, ProcOK, HasJob, Idle, SyntaxError
<1>3. QED
  BY <1>1, <1>2 DEF SyntaxError, Leave, Abstract!GiveUp, NoJob, Abstract!NoJob

\* So does a crash, wherever it happens.
LEMMA CrashStep ==
  ASSUME CacheInv, NEW p \in Procs, Crash(p)
  PROVE  CacheInv' /\ Abstract!GiveUp(p)
<1>1. CacheInv'
  BY Leaves DEF Crash, Idle
<1>2. job[p] # NoJob
  BY DEF CacheInv, ProcOK, HasJob, Idle, Crash
<1>3. QED
  BY <1>1, <1>2 DEF Crash, Leave, Abstract!GiveUp, NoJob, Abstract!NoJob

\* The type map that is returned is that of the texts that were read.
LEMMA ReturnStep ==
  ASSUME CacheInv, NEW p \in Procs, Return(p)
  PROVE  CacheInv' /\ Abstract!Deliver(p)
<1>1. CacheInv'
  BY Leaves DEF Return, Idle
<1>2. job[p] # NoJob /\ Clean(got[p]) /\ typemap[p] = TypeMapOf(job[p].align, got[p])
  BY DEF CacheInv, ProcOK, HasJob, SettledOK, Idle, Settled, Return
<1>3. typemap[p].data = <<job[p].align>> \o got[p]
  BY <1>2 DEF TypeMapOf, DataOf
<1>4. QED
  BY <1>1, <1>2, <1>3 DEF Return, Leave, Clean, Abstract!Deliver, NoJob, Abstract!NoJob

-----------------------------------------------------------------------------
(* The steps: each keeps SharedInv, as long as no builds conflict.         *)

\* A process that comes to a cache file is a user of it.
LEMMA InFiles ==
  ASSUME CacheInv, NEW p \in Procs, UserOK(p), pc[p] \in Caching
  PROVE  Path(p) \in Sources /\ p \in Users(Path(p)) /\ Len(got[p]) \in DOMAIN job[p].paths
<1>1. job[p] \in Jobs /\ got[p] \in Seq(Texts) /\ Len(got[p]) <= Len(job[p].paths)
  BY DEF CacheInv, CacheTypeOK, ProcOK, HasJob, Caching, Idle
<1>2. job[p].paths \in Seq(Sources) /\ job[p].use_cache /\ got[p] # <<>>
  BY <1>1, JobType DEF UserOK
<1>3. Len(got[p]) \in DOMAIN job[p].paths
  BY <1>1, <1>2
<1>4. QED
  BY <1>2, <1>3 DEF Path, Users, Files

\* Two processes that come to one cache file look for the same type map.
LEMMA SamePath ==
  ASSUME CacheInv, SharedInv, NEW p \in Procs, NEW q \in Procs,
         pc[p] \in Caching, pc[q] \in Caching, Path(p) = Path(q)
  PROVE  Target(p) = Target(q)
<1>1. CASE p = q
  BY <1>1
<1>2. CASE p # q
  <2>1. /\ UserOK(p) /\ UserOK(q) /\ PairOK(p, q) /\ PairOK(q, p)
        /\ got[p] \in Seq(Texts) /\ got[q] \in Seq(Texts)
    BY DEF SharedInv, CacheInv, CacheTypeOK
  <2>2. /\ Path(p) \in Sources /\ p \in Users(Path(p)) /\ q \in Users(Path(p))
        /\ Len(got[p]) \in DOMAIN job[p].paths /\ Len(got[q]) \in DOMAIN job[q].paths
    BY <2>1, InFiles
  <2>3. /\ job[p].align = job[q].align /\ job[p].paths = job[q].paths
        /\ \A m, n \in DOMAIN job[p].paths : job[p].paths[m] = job[p].paths[n] => m = n
        /\ \A i \in DOMAIN got[p] : got[p][i] = texts[job[p].paths[i]]
        /\ \A i \in DOMAIN got[q] : got[q][i] = texts[job[p].paths[i]]
    BY <1>2, <2>1, <2>2 DEF PairOK
  <2>4. Len(got[p]) = Len(got[q])
    BY <2>2, <2>3 DEF Path
  <2>5. got[p] = got[q]
    BY <2>1, <2>3, <2>4
  <2>6. QED
    BY <2>3, <2>5 DEF Target
<1>3. QED
  BY <1>1, <1>2

\* What holds of a process that does nothing goes on to hold, if its cache file
\* does not come to hold parts of another type map.
LEMMA OtherUser ==
  ASSUME NEW q, UserOK(q), WriteOK(q), ReadOK(q),
         pc'[q] = pc[q], job'[q] = job[q], got'[q] = got[q], loading'[q] = loading[q],
         pc[q] \in Caching /\ PartsAre(Path(q), Target(q)) => PartsAre(Path(q), Target(q))'
  PROVE  UserOK(q)' /\ WriteOK(q)' /\ ReadOK(q)'
<1>1. Path(q)' = Path(q) /\ Target(q)' = Target(q)
  BY DEF Path, Target
<1>2. UserOK(q)'
  BY DEF UserOK
<1>3. WriteOK(q)'
  BY <1>1 DEF WriteOK, Caching
<1>4. ReadOK(q)'
  BY <1>1 DEF ReadOK, Caching
<1>5. QED
  BY <1>2, <1>3, <1>4

\* A step of p that leaves the files and what everybody builds alone.
LEMMA QuietStep ==
  ASSUME SharedInv, NEW p \in Procs, UNCHANGED <<texts, cache_files, job, got>>,
         \A q \in Procs : q # p => pc'[q] = pc[q] /\ loading'[q] = loading[q],
         UserOK(p)', WriteOK(p)', ReadOK(p)'
  PROVE  SharedInv'
<1>1. ASSUME NEW s \in Sources PROVE FileOK(s)'
  BY DEF SharedInv, FileOK, PartsAre
<1>2. ASSUME NEW q \in Procs, q # p PROVE UserOK(q)' /\ WriteOK(q)' /\ ReadOK(q)'
  <2>1. (PartsAre(Path(q), Target(q)))' <=> PartsAre(Path(q), Target(q))
    BY DEF PartsAre, Path, Target
  <2>2. QED
    BY <1>2, <2>1, OtherUser DEF SharedInv
<1>3. ASSUME NEW q \in Procs, NEW r \in Procs PROVE PairOK(q, r)'
  BY DEF SharedInv, PairOK, Users
<1>4. QED
  BY <1>1, <1>2, <1>3 DEF SharedInv

\* A process that leaves is no user any more.
LEMMA SharedLeaves ==
  ASSUME CacheInv, SharedInv, NEW p \in Procs, NEW l \in Idle, Leave(p, l),
         UNCHANGED <<texts, cache_files, got>>
  PROVE  SharedInv'
<1>1. /\ pc'[p] = l /\ job'[p] = NoJob /\ loading'[p] = <<>>
      /\ \A q \in Procs : q # p => pc'[q] = pc[q] /\ job'[q] = job[q] /\ loading'[q] = loading[q]
  BY DEF Leave, CacheInv, CacheTypeOK
<1>2. ASSUME NEW s \in Sources PROVE FileOK(s)'
  BY DEF SharedInv, FileOK, PartsAre
<1>3. UserOK(p)' /\ WriteOK(p)' /\ ReadOK(p)'
  BY <1>1 DEF UserOK, WriteOK, ReadOK, Caching, Idle
<1>4. ASSUME NEW q \in Procs, q # p PROVE UserOK(q)' /\ WriteOK(q)' /\ ReadOK(q)'
  <2>1. (PartsAre(Path(q), Target(q)))' <=> PartsAre(Path(q), Target(q))
    BY <1>1, <1>4 DEF PartsAre, Path, Target
  <2>2. QED
    BY <1>1, <1>4, <2>1, OtherUser DEF SharedInv
<1>5. ASSUME NEW q \in Procs, NEW r \in Procs PROVE PairOK(q, r)'
  <2>1. CASE q = p \/ r = p
    BY <1>1, <2>1 DEF PairOK, Users, NoJob
  <2>2. CASE q # p /\ r # p
    BY <1>1, <2>2 DEF SharedInv, PairOK, Users
  <2>3. QED
    BY <2>1, <2>2
<1>6. QED
  BY <1>2, <1>3, <1>4, <1>5 DEF SharedInv

\* At the start there is no file and no user.
LEMMA SharedInitOK == CacheInit => SharedInv
<1> SUFFICES ASSUME CacheInit PROVE SharedInv
  OBVIOUS
<1>1. ASSUME NEW s \in Sources PROVE FileOK(s)
  <2>1. cache_files[s].parts = <<>> /\ NoTypeMap \in TypeMaps
    BY DEF CacheInit, NoFile, TypeMaps
  <2>2. PartsAre(s, NoTypeMap)
    BY <2>1 DEF PartsAre
  <2>3. QED
    BY <2>1, <2>2 DEF FileOK
<1>2. ASSUME NEW p \in Procs PROVE UserOK(p) /\ WriteOK(p) /\ ReadOK(p)
  BY DEF CacheInit, UserOK, WriteOK, ReadOK, Caching
<1>3. ASSUME NEW p \in Procs, NEW q \in Procs PROVE PairOK(p, q)
  BY DEF CacheInit, PairOK, Users, NoJob
<1>4. QED
  BY <1>1, <1>2, <1>3 DEF SharedInv

\* Nobody edits a text whose cache file has several users.
LEMMA SharedEdit ==
  ASSUME ~Conflicts, CacheInv, SharedInv, NEW s \in Sources, NEW t \in Texts, EditSource(s, t)
  PROVE  SharedInv'
<1>1. UNCHANGED <<cache_files, pc, job, got, loading>> /\ texts' = [texts EXCEPT ![s] = t]
  BY DEF EditSource
<1>2. ASSUME NEW u \in Sources PROVE FileOK(u)'
  BY <1>1 DEF SharedInv, FileOK, PartsAre
<1>3. ASSUME NEW q \in Procs PROVE UserOK(q)' /\ WriteOK(q)' /\ ReadOK(q)'
  BY <1>1 DEF SharedInv, UserOK, WriteOK, ReadOK, PartsAre, Path, Target
<1>4. ASSUME NEW p \in Procs, NEW q \in Procs PROVE PairOK(p, q)'
  <2> SUFFICES ASSUME NEW u \in Sources, p # q, (p \in Users(u))', (q \in Users(u))'
               PROVE  (/\ job[p].align = job[q].align /\ job[p].paths = job[q].paths
                       /\ \A m, n \in DOMAIN job[p].paths :
                            job[p].paths[m] = job[p].paths[n] => m = n
                       /\ \A i \in DOMAIN got[p] : got[p][i] = texts[job[p].paths[i]])'
    BY DEF PairOK
  <2>1. p \in Users(u) /\ q \in Users(u)
    BY <1>1 DEF Users
  <2>2. /\ job[p].align = job[q].align /\ job[p].paths = job[q].paths
        /\ \A m, n \in DOMAIN job[p].paths : job[p].paths[m] = job[p].paths[n] => m = n
        /\ \A i \in DOMAIN got[p] : got[p][i] = texts[job[p].paths[i]]
    BY <2>1 DEF SharedInv, PairOK
  <2>3. job[p].use_cache /\ job[q].use_cache
    BY <2>1 DEF Users
  <2>4. job[p] # NoJob
    BY <2>3 DEF NoJob
  <2>5. /\ job[p] \in Jobs /\ job[p].paths \in Seq(Sources) /\ got[p] \in Seq(Texts)
        /\ Len(got[p]) <= Len(job[p].paths)
    BY <2>4, JobType DEF CacheInv, CacheTypeOK, ProcOK, HasJob
  <2>6. ASSUME NEW i \in DOMAIN got[p] PROVE got[p][i] = texts'[job[p].paths[i]]
    <3>1. i \in DOMAIN job[p].paths /\ job[p].paths[i] \in Sources
      BY <2>5
    <3>2. job[p].paths[i] # s
      <4>1. SUFFICES ASSUME job[p].paths[i] = s PROVE FALSE
        OBVIOUS
      <4>2. p \in Users(s) /\ q \in Users(s)
        BY <2>2, <2>3, <3>1, <4>1 DEF Users, Files
      <4>3. QED
        BY <4>2 DEF EditSource, MayEdit
    <3>3. QED
      BY <1>1, <2>2, <3>1, <3>2 DEF CacheInv, CacheTypeOK
  <2>7. QED
    BY <1>1, <2>2, <2>6
<1>5. QED
  BY <1>2, <1>3, <1>4 DEF SharedInv

\* A build that starts agrees with the users of its files.
LEMMA SharedStart ==
  ASSUME ~Conflicts, CacheInv, SharedInv, NEW p \in Procs, NEW j \in Jobs, StartBuild(p, j)
  PROVE  SharedInv'
<1>1. /\ UNCHANGED <<texts, cache_files, loading>>
      /\ pc'[p] = "read" /\ job'[p] = j /\ got'[p] = <<>>
      /\ \A q \in Procs : q # p => pc'[q] = pc[q] /\ job'[q] = job[q] /\ got'[q] = got[q]
  BY DEF StartBuild, CacheInv, CacheTypeOK
<1>2. ASSUME NEW s \in Sources PROVE FileOK(s)'
  BY <1>1 DEF SharedInv, FileOK, PartsAre
<1>3. UserOK(p)' /\ WriteOK(p)' /\ ReadOK(p)'
  BY <1>1 DEF UserOK, WriteOK, ReadOK, Caching
<1>4. ASSUME NEW q \in Procs, q # p PROVE UserOK(q)' /\ WriteOK(q)' /\ ReadOK(q)'
  <2>1. (PartsAre(Path(q), Target(q)))' <=> PartsAre(Path(q), Target(q))
    BY <1>1, <1>4 DEF PartsAre, Path, Target
  <2>2. QED
    BY <1>1, <1>4, <2>1, OtherUser DEF SharedInv
<1>5. ASSUME NEW s \in Sources, NEW q \in Procs, q # p, (p \in Users(s))', (q \in Users(s))'
      PROVE  Agrees(q, j)
  <2>1. j.use_cache /\ s \in Files(j)
    BY <1>1, <1>5 DEF Users
  <2>2. q \in Users(s)
    BY <1>1, <1>5 DEF Users
  <2>3. QED
    BY <2>1, <2>2 DEF StartBuild, MayStart
<1>6. ASSUME NEW q \in Procs, NEW r \in Procs PROVE PairOK(q, r)'
  <2>1. CASE q = p
    BY <1>1, <1>5, <2>1 DEF PairOK, Agrees
  <2>2. CASE q # p /\ r = p
    BY <1>1, <1>5, <2>2 DEF PairOK, Agrees
  <2>3. CASE q # p /\ r # p
    BY <1>1, <2>3 DEF SharedInv, PairOK, Users
  <2>4. QED
    BY <2>1, <2>2, <2>3
<1>7. QED
  BY <1>2, <1>3, <1>4, <1>6 DEF SharedInv

\* A text is read as it is, and the cache is loaded from the start.
LEMMA SharedRead ==
  ASSUME CacheInv, SharedInv, NEW p \in Procs, ReadSource(p)
  PROVE  SharedInv'
<1>1. /\ pc[p] = "read" /\ got[p] \in Seq(Texts) /\ job[p] \in Jobs
      /\ job[p].paths \in Seq(Sources)
  BY JobType DEF ReadSource, CacheInv, CacheTypeOK, ProcOK, HasJob, Idle
<1>2. PICK s \in Sources: s = job[p].paths[Len(got[p]) + 1]
  BY <1>1 DEF ReadSource
<1>3. PICK t \in Texts: t = texts[s]
  BY DEF CacheInv, CacheTypeOK
<1>4. /\ UNCHANGED <<texts, cache_files, job>>
      /\ got'[p] = Append(got[p], t) /\ loading'[p] = <<>>
      /\ pc'[p] \in {"load", "parse"} /\ (pc'[p] = "load" => job[p].use_cache)
      /\ \A q \in Procs : q # p => pc'[q] = pc[q] /\ got'[q] = got[q] /\ loading'[q] = loading[q]
  BY <1>2, <1>3 DEF ReadSource, CacheInv, CacheTypeOK
<1>5. ASSUME NEW u \in Sources PROVE FileOK(u)'
  BY <1>4 DEF SharedInv, FileOK, PartsAre
<1>6. UserOK(p)' /\ WriteOK(p)' /\ ReadOK(p)'
  <2>1. UserOK(p)'
    BY <1>1, <1>4 DEF UserOK, Caching
  <2>2. WriteOK(p)' /\ ReadOK(p)'
    BY <1>4 DEF WriteOK, ReadOK
  <2>3. QED
    BY <2>1, <2>2
<1>7. ASSUME NEW q \in Procs, q # p PROVE UserOK(q)' /\ WriteOK(q)' /\ ReadOK(q)'
  <2>1. (PartsAre(Path(q), Target(q)))' <=> PartsAre(Path(q), Target(q))
    BY <1>4, <1>7 DEF PartsAre, Path, Target
  <2>2. QED
    BY <1>4, <1>7, <2>1, OtherUser DEF SharedInv
<1>8. ASSUME NEW q \in Procs, NEW r \in Procs PROVE PairOK(q, r)'
  <2>1. \A i \in DOMAIN got'[p] : i \in DOMAIN got[p] \/ i = Len(got[p]) + 1
    BY <1>1, <1>4
  <2>2. /\ \A i \in DOMAIN got[p] : got'[p][i] = got[p][i]
        /\ got'[p][Len(got[p]) + 1] = texts[job[p].paths[Len(got[p]) + 1]]
    BY <1>1, <1>2, <1>3, <1>4
  <2>3. CASE q = p
    BY <1>4, <2>1, <2>2, <2>3 DEF SharedInv, PairOK, Users
  <2>4. CASE q # p
    BY <1>4, <2>4 DEF SharedInv, PairOK, Users
  <2>5. QED
    BY <2>3, <2>4
<1>9. QED
  BY <1>5, <1>6, <1>7, <1>8 DEF SharedInv

\* The first part read tells of which type map all the others are: as long as
\* the file is not truncated and written by somebody who builds another.
LEMMA SharedLoad ==
  ASSUME CacheInv, SharedInv, NEW p \in Procs, LoadPart(p)
  PROVE  SharedInv'
<1>1. PICK n:
        /\ n = Len(loading[p]) + 1
        /\ n \in DOMAIN cache_files[Path(p)].parts
        /\ loading' = [loading EXCEPT ![p] = Append(@, cache_files[Path(p)].parts[n])]
        /\ Goto(p, IF n = 2 THEN "check" ELSE "load")
  BY DEF LoadPart
<1>2. /\ pc[p] = "load" /\ loading[p] \in Seq(FileParts) /\ UserOK(p) /\ ReadOK(p)
      /\ UNCHANGED <<texts, cache_files, job, got>>
  BY DEF LoadPart, CacheInv, CacheTypeOK, SharedInv
<1>3. (Len(loading[p]) = 0 /\ n = 1) \/ (Len(loading[p]) = 1 /\ n = 2)
  <2>1. Len(loading[p]) \in Nat /\ Len(loading[p]) <= 1
    BY <1>2 DEF ReadOK
  <2>2. \A m \in Nat : m <= 1 => m = 0 \/ m = 1
    OBVIOUS
  <2>3. Len(loading[p]) = 0 \/ Len(loading[p]) = 1
    BY <2>1, <2>2
  <2>4. n = Len(loading[p]) + 1
    BY <1>1
  <2>5. CASE Len(loading[p]) = 0
    BY <2>4, <2>5
  <2>6. CASE Len(loading[p]) = 1
    BY <2>4, <2>6
  <2>7. QED
    BY <2>3, <2>5, <2>6
<1>4. Path(p) \in Sources
  BY <1>2, InFiles DEF Caching
<1>5. PICK part: part = cache_files[Path(p)].parts[n]
  OBVIOUS
<1>6. /\ loading'[p] = Append(loading[p], part)
      /\ pc'[p] = IF n = 2 THEN "check" ELSE "load"
      /\ \A q \in Procs : q # p => pc'[q] = pc[q] /\ loading'[q] = loading[q]
  BY <1>1, <1>5 DEF CacheInv, CacheTypeOK
<1>7. /\ Path(p)' = Path(p) /\ Target(p)' = Target(p)
      /\ (PartsAre(Path(p), Target(p)))' <=> PartsAre(Path(p), Target(p))
  BY <1>2 DEF Path, Target, PartsAre
<1>8. UserOK(p)' /\ WriteOK(p)'
  BY <1>2, <1>6 DEF UserOK, WriteOK, Caching
<1>9. ReadOK(p)'
  <2>1. CASE Len(loading[p]) = 0
    <3>1. /\ Len(loading'[p]) = 1 /\ loading'[p][1] = part /\ n = 1 /\ pc'[p] = "load"
      BY <1>2, <1>3, <1>6, <2>1
    <3>2. ASSUME part.k # 0, part.tm = Target(p) PROVE PartsAre(Path(p), Target(p))
      <4>1. PICK tm \in TypeMaps: PartsAre(Path(p), tm)
        BY <1>4 DEF SharedInv, FileOK
      <4>2. tm = Target(p)
        BY <1>1, <1>5, <3>2, <4>1 DEF PartsAre
      <4>3. QED
        BY <4>1, <4>2
    <3>3. QED
      BY <1>7, <3>1, <3>2 DEF ReadOK
  <2>2. CASE Len(loading[p]) = 1
    <3>1. /\ Len(loading'[p]) = 2 /\ loading'[p][1] = loading[p][1] /\ loading'[p][2] = part
          /\ n = 2 /\ pc'[p] = "check" /\ loading[p] # <<>>
      BY <1>2, <1>3, <1>6, <2>2
    <3>2. ASSUME loading[p][1].k # 0, loading[p][1].tm = Target(p)
          PROVE  part.k = 0 \/ part.tm = Target(p)
      <4>1. PartsAre(Path(p), Target(p))
        BY <1>2, <2>2, <3>1, <3>2 DEF ReadOK
      <4>2. QED
        BY <1>1, <1>5, <4>1 DEF PartsAre
    <3>3. QED
      BY <1>7, <3>1, <3>2 DEF ReadOK
  <2>3. QED
    BY <1>3, <2>1, <2>2
<1>10. QED
  BY <1>2, <1>6, <1>8, <1>9, QuietStep

\* These steps end the use of a cache file, or begin to write it.
LEMMA SharedMoves ==
  ASSUME CacheInv, SharedInv, NEW p \in Procs,
         LoadFails(p) \/ UseCache(p) \/ Parse(p) \/ WriteFails(p) \/ Exit(p)
  PROVE  SharedInv'
<1>1. PICK l \in {"read", "parse", "open", "idle"}: pc' = [pc EXCEPT ![p] = l]
  BY DEF LoadFails, UseCache, Parse, WriteFails, Exit
<1>2. UNCHANGED <<texts, cache_files, job, got, loading>>
  BY DEF LoadFails, UseCache, Parse, WriteFails, Exit
<1>3. pc'[p] = l /\ \A q \in Procs : q # p => pc'[q] = pc[q]
  BY <1>1 DEF CacheInv, CacheTypeOK
<1>4. WriteOK(p)' /\ ReadOK(p)'
  BY <1>3 DEF WriteOK, ReadOK
<1>5. UserOK(p)'
  <2>1. CASE l # "open"
    BY <1>3, <2>1 DEF UserOK, Caching
  <2>2. CASE l = "open"
    <3>1. Parse(p) /\ job[p].use_cache
      BY <1>3, <2>2 DEF LoadFails, UseCache, Parse, WriteFails, Exit, CacheInv, CacheTypeOK
    <3>2. got[p] # <<>>
      BY <3>1 DEF Parse, CacheInv, ProcOK, PendingOK, Pending
    <3>3. QED
      BY <1>2, <3>1, <3>2 DEF UserOK
  <2>3. QED
    BY <2>1, <2>2
<1>6. QED
  BY <1>2, <1>3, <1>4, <1>5, QuietStep

\* Truncating: no part is left that could be of another type map.
LEMMA SharedOpen ==
  ASSUME CacheInv, SharedInv, NEW p \in Procs, OpenCache(p)
  PROVE  SharedInv'
<1>1. /\ UNCHANGED <<texts, job, got, loading>>
      /\ pc'[p] = "dump1" /\ \A q \in Procs : q # p => pc'[q] = pc[q]
      /\ pc[p] = "open" /\ UserOK(p)
  BY DEF OpenCache, CacheInv, CacheTypeOK, SharedInv
<1>2. Path(p) \in Sources
  BY <1>1, InFiles DEF Caching
<1>3. /\ cache_files'[Path(p)].parts = <<>>
      /\ \A s \in Sources : s # Path(p) => cache_files'[s] = cache_files[s]
  BY <1>2 DEF OpenCache, EmptyFile, CacheInv, CacheTypeOK
<1>4. ASSUME NEW s \in Sources, NEW tm, PartsAre(s, tm) \/ s = Path(p) PROVE PartsAre(s, tm)'
  BY <1>3, <1>4 DEF PartsAre
<1>5. \A q \in Procs : Path(q)' = Path(q) /\ Target(q)' = Target(q)
  BY <1>1 DEF Path, Target
<1>6. ASSUME NEW s \in Sources PROVE FileOK(s)'
  BY <1>4 DEF SharedInv, FileOK
<1>7. UserOK(p)' /\ WriteOK(p)' /\ ReadOK(p)'
  <2>1. WriteOK(p)'
    BY <1>2, <1>4, <1>5 DEF WriteOK
  <2>2. UserOK(p)' /\ ReadOK(p)'
    BY <1>1 DEF UserOK, ReadOK, Caching
  <2>3. QED
    BY <2>1, <2>2
<1>8. ASSUME NEW q \in Procs, q # p PROVE UserOK(q)' /\ WriteOK(q)' /\ ReadOK(q)'
  <2>1. ASSUME pc[q] \in Caching, PartsAre(Path(q), Target(q))
        PROVE  PartsAre(Path(q), Target(q))'
    <3>1. Path(q) \in Sources
      BY <2>1, InFiles DEF SharedInv
    <3>2. QED
      BY <1>4, <1>5, <2>1, <3>1
  <2>2. QED
    BY <1>1, <1>8, <2>1, OtherUser DEF SharedInv
<1>9. ASSUME NEW q \in Procs, NEW r \in Procs PROVE PairOK(q, r)'
  BY <1>1 DEF SharedInv, PairOK, Users
<1>10. QED
  BY <1>6, <1>7, <1>8, <1>9 DEF SharedInv

\* A part written into a file of parts of tm, or into nothing.
LEMMA WrittenParts ==
  ASSUME NEW file \in CacheFiles, NEW tm, NEW n \in 1..2,
         \A i \in DOMAIN file.parts : file.parts[i].k = 0 \/ file.parts[i].tm = tm,
         NEW i \in DOMAIN Written(file, Part(tm, n)).parts
  PROVE  \/ Written(file, Part(tm, n)).parts[i].k = 0
         \/ Written(file, Part(tm, n)).parts[i].tm = tm
<1>1. Part(tm, n).k = n /\ Part(tm, n).tm = tm /\ Hole.k = 0
  BY DEF Part, Hole
<1>2. file.parts \in Seq(FileParts)
  BY DEF CacheFiles
<1>3. Written(file, Part(tm, n)).parts[i] =
        IF i = n THEN Part(tm, n) ELSE IF i <= Len(file.parts) THEN file.parts[i] ELSE Hole
  BY <1>1 DEF Written
<1>4. i \in Nat \ {0}
  BY <1>1, <1>2 DEF Written
<1>5. QED
  BY <1>1, <1>2, <1>3, <1>4

\* Writing: whoever else comes to this file looks for the same type map.
LEMMA SharedDump ==
  ASSUME CacheInv, SharedInv, NEW p \in Procs, DumpPart(p)
  PROVE  SharedInv'
<1>1. /\ UNCHANGED <<texts, job, got, loading>>
      /\ pc'[p] \in {"dump2", "read"} /\ \A q \in Procs : q # p => pc'[q] = pc[q]
      /\ pc[p] \in {"dump1", "dump2"} /\ UserOK(p) /\ WriteOK(p)
  BY DEF DumpPart, CacheInv, CacheTypeOK, SharedInv
<1>2. Path(p) \in Sources
  BY <1>1, InFiles DEF Caching
<1>3. typemap[p] = Target(p) /\ Target(p) \in TypeMaps
  BY <1>1 DEF CacheInv, CacheTypeOK, ProcOK, SettledOK, Settled, Target
<1>4. PICK n \in 1..2: n = IF pc[p] = "dump1" THEN 1 ELSE 2
  OBVIOUS
<1>5. /\ cache_files'[Path(p)] = Written(cache_files[Path(p)], Part(Target(p), n))
      /\ \A s \in Sources : s # Path(p) => cache_files'[s] = cache_files[s]
      /\ cache_files[Path(p)] \in CacheFiles
  BY <1>2, <1>3, <1>4 DEF DumpPart, CacheInv, CacheTypeOK
<1>6. ASSUME NEW tm, tm = Target(p) PROVE PartsAre(Path(p), tm)'
  <2>1. PartsAre(Path(p), Target(p)) /\ Path(p)' = Path(p)
    BY <1>1 DEF WriteOK, Path
  <2>2. QED
    BY <1>5, <1>6, <2>1, WrittenParts DEF PartsAre
<1>7. \A q \in Procs : Path(q)' = Path(q) /\ Target(q)' = Target(q)
  BY <1>1 DEF Path, Target
<1>8. ASSUME NEW s \in Sources PROVE FileOK(s)'
  <2>1. CASE s = Path(p)
    BY <1>3, <1>6, <1>7, <2>1 DEF FileOK
  <2>2. CASE s # Path(p)
    BY <1>5, <2>2 DEF SharedInv, FileOK, PartsAre
  <2>3. QED
    BY <2>1, <2>2
<1>9. UserOK(p)' /\ WriteOK(p)' /\ ReadOK(p)'
  <2>1. WriteOK(p)'
    BY <1>6, <1>7 DEF WriteOK
  <2>2. UserOK(p)' /\ ReadOK(p)'
    BY <1>1 DEF UserOK, ReadOK, Caching
  <2>3. QED
    BY <2>1, <2>2
<1>10. ASSUME NEW q \in Procs, q # p PROVE UserOK(q)' /\ WriteOK(q)' /\ ReadOK(q)'
  <2>1. ASSUME pc[q] \in Caching, PartsAre(Path(q), Target(q))
        PROVE  PartsAre(Path(q), Target(q))'
    <3>1. Path(q) \in Sources
      BY <2>1, InFiles DEF SharedInv
    <3>2. CASE Path(q) = Path(p)
      <4>1. Target(q) = Target(p)
        BY <1>1, <2>1, <3>2, SamePath DEF Caching
      <4>2. QED
        BY <1>6, <1>7, <3>2, <4>1
    <3>3. CASE Path(q) # Path(p)
      BY <1>5, <1>7, <2>1, <3>1, <3>3 DEF PartsAre
    <3>4. QED
      BY <3>2, <3>3
  <2>2. QED
    BY <1>1, <1>10, <2>1, OtherUser DEF SharedInv
<1>11. ASSUME NEW q \in Procs, NEW r \in Procs PROVE PairOK(q, r)'
  BY <1>1 DEF SharedInv, PairOK, Users
<1>12. QED
  BY <1>8, <1>9, <1>10, <1>11 DEF SharedInv

-----------------------------------------------------------------------------
(* Every step.                                                             *)

\* A step of _build_typemap keeps the invariant; what it shows outside is a
\* step of the cacheless specification.
LEMMA BuildStepOK ==
  ASSUME CacheInv, SharedInv, NEW p \in Procs, BuildStep(p)
  PROVE  CacheInv' /\ SharedInv' /\ [Abstract!SpecNext]_(Abstract!specVars)
<1> USE DEF Abstract!SpecNext, Abstract!specVars
<1>1. CASE ReadSource(p)
  BY <1>1, ReadSourceStep, SharedRead
<1>2. CASE LoadPart(p)
  BY <1>2, LoadPartStep, SharedLoad
<1>3. CASE LoadFails(p)
  BY <1>3, LoadFailsStep, SharedMoves
<1>4. CASE UseCache(p)
  BY <1>4, UseCacheStep, SharedMoves DEF SharedInv
<1>5. CASE Parse(p)
  BY <1>5, ParseStep, SharedMoves
<1>6. CASE SyntaxError(p)
  BY <1>6, SyntaxErrorStep, SharedLeaves DEF SyntaxError, Idle
<1>7. CASE OpenCache(p)
  BY <1>7, OpenCacheStep, SharedOpen
<1>8. CASE DumpPart(p)
  BY <1>8, DumpPartStep, SharedDump
<1>9. CASE WriteFails(p)
  BY <1>9, WriteFailsStep, SharedMoves
<1>10. CASE Return(p)
  BY <1>10, ReturnStep, SharedLeaves DEF Return, Idle
<1>11. CASE Crash(p)
  BY <1>11, CrashStep, SharedLeaves DEF Crash, Idle
<1>12. QED
  BY <1>1, <1>2, <1>3, <1>4, <1>5, <1>6, <1>7, <1>8, <1>9, <1>10, <1>11 DEF BuildStep

\* Every step keeps both invariants and is a step or a stutter of the abstract one.
LEMMA CacheNextOK ==
  ASSUME ~Conflicts, CacheInv, SharedInv, CacheNext
  PROVE  CacheInv' /\ SharedInv' /\ [Abstract!SpecNext]_(Abstract!specVars)
<1> USE DEF Abstract!SpecNext, Abstract!specVars
<1>1. CASE \E s \in Sources, t \in Texts: EditSource(s, t)
  BY <1>1, EditSourceStep, SharedEdit
<1>2. CASE \E p \in Procs: \E j \in Jobs: StartBuild(p, j)
  BY <1>2, StartBuildStep, SharedStart
<1>3. CASE \E p \in Procs: BuildStep(p)
  BY <1>3, BuildStepOK
<1>4. CASE \E p \in Procs: Exit(p)
  BY <1>4, ExitStep, SharedMoves
<1>5. QED
  BY <1>1, <1>2, <1>3, <1>4 DEF CacheNext

\* So are steps that leave the cache alone.
LEMMA CacheStutters ==
  ASSUME CacheInv, SharedInv, UNCHANGED cacheVars
  PROVE  CacheInv' /\ SharedInv' /\ [Abstract!SpecNext]_(Abstract!specVars)
<1>1. CacheTypeOK'
  BY DEF CacheInv, CacheTypeOK, cacheVars
<1>2. ASSUME NEW q \in Procs PROVE ProcOK(q)'
  BY OtherProcess DEF CacheInv, cacheVars
<1>3. SharedInv'
  <2>1. ASSUME NEW s \in Sources PROVE FileOK(s)'
    BY DEF cacheVars, SharedInv, FileOK, PartsAre
  <2>2. ASSUME NEW q \in Procs PROVE UserOK(q)' /\ WriteOK(q)' /\ ReadOK(q)'
    BY DEF cacheVars, SharedInv, UserOK, WriteOK, ReadOK, PartsAre, Path, Target
  <2>3. ASSUME NEW q \in Procs, NEW r \in Procs PROVE PairOK(q, r)'
    BY DEF cacheVars, SharedInv, PairOK, Users
  <2>4. QED
    BY <2>1, <2>2, <2>3 DEF SharedInv
<1>4. QED
  BY <1>1, <1>2, <1>3 DEF CacheInv, cacheVars, Abstract!specVars

-----------------------------------------------------------------------------

\* _build_typemap with its cache implements _build_typemap without one: with
\* any number of processes that edit, truncate, write, read and crash, a type
\* map that is returned is that of the texts its process has read, if those that
\* use one cache file at one time build the same.
THEOREM CacheRefines ==
  ASSUME ~Conflicts
  PROVE  CacheSpec => CacheIsTransparent
<1>1. CacheInit => CacheInv /\ SharedInv /\ Abstract!SpecInit
  BY CacheInitOK, SharedInitOK
<1>2. CacheInv /\ SharedInv /\ [CacheNext]_cacheVars
        => CacheInv' /\ SharedInv' /\ [Abstract!SpecNext]_(Abstract!specVars)
  BY CacheNextOK, CacheStutters
<1>3. QED
  BY <1>1, <1>2, PTL DEF CacheSpec, CacheIsTransparent, Abstract!TypeMapSpecification
=============================================================================
