-------------------------- MODULE InputsUsesProofs ---------------------------
(***************************************************************************)
(* Proofs about InputsUses, for every graph, block and location: at the    *)
(* end of the walk the inputs are exactly the values that arrive along     *)
(* some path, and the registers a caller must set are reported.            *)
(***************************************************************************)
EXTENDS InputsUses, FiniteSetTheorems, WellFoundedInduction, TLAPS

-----------------------------------------------------------------------------
(* Least and largest numbers.                                              *)

\* A non-empty set of naturals has a least element.
LEMMA NatMin ==
  ASSUME NEW S, S \subseteq Nat, S # {}
  PROVE  \E x \in S : \A y \in S : x <= y
<1>1. PICK x \in S : \A y \in S : ~ (<<y, x>> \in OpToRel(<, Nat))
  BY NatLessThanWellFounded, WFMin, Zenon
<1>2. ASSUME NEW y \in S PROVE x <= y
  <2>1. <<y, x>> \notin {ss \in Nat \X Nat : ss[1] < ss[2]}
    BY <1>1 DEF OpToRel
  <2>2. y \in Nat /\ x \in Nat
    OBVIOUS
  <2>3. ~ (y < x)
    BY <2>1, <2>2
  <2> QED BY <2>2, <2>3
<1> QED BY <1>2

\* A non-empty set of naturals up to m has a largest element.
LEMMA BoundedMax ==
  ASSUME NEW m \in Nat, NEW S, S \subseteq 0 .. m, S # {}
  PROVE  \E x \in S : \A y \in S : x >= y
<1> DEFINE T == {m - y : y \in S}
<1>1. T \subseteq Nat /\ T # {}
  <2>1. \A y \in S : m - y \in Nat
    OBVIOUS
  <2> QED BY <2>1
<1>2. PICK t \in T : \A u \in T : t <= u
  BY <1>1, NatMin, Zenon
<1>3. PICK x \in S : t = m - x
  BY <1>2
<1>4. ASSUME NEW y \in S PROVE x >= y
  <2>1. t <= m - y BY <1>2
  <2> QED BY <2>1, <1>3
<1> QED BY <1>4

\* There are finitely many nodes, N of them.
LEMMA NodesFinite == IsFiniteSet(Nodes) /\ Cardinality(Nodes) = N
  BY NAssumption, FS_Interval DEF Nodes

-----------------------------------------------------------------------------
(* Reachability.                                                           *)

Edges == [Nodes -> SUBSET Nodes]

\* The nodes that f leads to from start: what every set closed under f holds.
Reach(start, f) ==
  {n \in Nodes : \A S \in SUBSET Nodes :
     start \subseteq S /\ (\A m \in S : f[m] \subseteq S) => n \in S}

\* A node reaches itself.
LEMMA ReachStart ==
  ASSUME NEW start \in SUBSET Nodes, NEW f
  PROVE  start \subseteq Reach(start, f)
  BY DEF Reach

\* One more edge stays in what is reached.
LEMMA ReachStep ==
  ASSUME NEW start, NEW f, NEW m \in Reach(start, f), f[m] \subseteq Nodes
  PROVE  f[m] \subseteq Reach(start, f)
  BY DEF Reach

\* Every closed set around the start holds all that is reached.
LEMMA ReachLeast ==
  ASSUME NEW start, NEW f, NEW S \in SUBSET Nodes, start \subseteq S,
         \A m \in S : f[m] \subseteq S
  PROVE  Reach(start, f) \subseteq S
  BY DEF Reach

\* S and what one more edge leads to.
Grow(S, f) == S \cup UNION {f[n] : n \in S}

\* w is the list of what 0, 1, .. m edges lead to.
GrowsTo(w, start, f, m) ==
  w = [k \in 0 .. m |-> IF k = 0 THEN start ELSE Grow(w[k - 1], f)]

\* That list exists: the shortest one that did not could be made from the one
\* before it.
LEMMA GrowthExists ==
  ASSUME NEW start, NEW f, NEW m \in Nat
  PROVE  \E w : GrowsTo(w, start, f, m)
<1> DEFINE bad == {k \in Nat : ~ \E w : GrowsTo(w, start, f, k)}
<1> SUFFICES ASSUME bad # {} PROVE FALSE
  OBVIOUS
<1>1. bad \subseteq Nat
  OBVIOUS
<1> HIDE DEF bad
<1>2. PICK k \in bad : \A j \in bad : k <= j
  BY <1>1, NatMin, Zenon
<1>3. k \in Nat /\ ~ \E w : GrowsTo(w, start, f, k)
  BY DEF bad
<1>4. CASE k = 0
  <2> DEFINE w == [j \in 0 .. 0 |-> start]
  <2>1. w = [j \in 0 .. 0 |-> IF j = 0 THEN start ELSE Grow(w[j - 1], f)]
    OBVIOUS
  <2>2. GrowsTo(w, start, f, 0)
    BY <2>1 DEF GrowsTo
  <2> QED BY <2>2, <1>3, <1>4
<1>5. CASE k # 0
  <2>1. k - 1 \in Nat /\ k - 1 \notin bad
    BY <1>1, <1>2, <1>3, <1>5
  <2>2. PICK v : GrowsTo(v, start, f, k - 1)
    BY <2>1 DEF bad
  <2> DEFINE w == [j \in 0 .. k |-> IF j = k THEN Grow(v[k - 1], f) ELSE v[j]]
  <2>3. \A j \in 0 .. k - 1 : v[j] = IF j = 0 THEN start ELSE Grow(v[j - 1], f)
    BY <2>2, <1>3 DEF GrowsTo
  <2>4. \A j \in 0 .. k - 1 : w[j] = v[j]
    BY <1>3
  <2>5. w[k] = Grow(w[k - 1], f)
    BY <2>4, <1>3, <1>5
  <2>6. DOMAIN w = 0 .. k /\ w = [j \in 0 .. k |-> w[j]]
    OBVIOUS
  <2> HIDE DEF w
  <2>7. \A j \in 0 .. k : w[j] = IF j = 0 THEN start ELSE Grow(w[j - 1], f)
    <3> TAKE j \in 0 .. k
    <3>1. CASE j = k
      BY <3>1, <2>5, <1>5
    <3>2. CASE j # k
      <4>1. j \in 0 .. k - 1 /\ (j # 0 => j - 1 \in 0 .. k - 1)
        BY <3>2, <1>3
      <4> QED BY <4>1, <2>3, <2>4
    <3> QED BY <3>1, <3>2
  <2>8. w = [j \in 0 .. k |-> IF j = 0 THEN start ELSE Grow(w[j - 1], f)]
    BY <2>6, <2>7
  <2> QED BY <2>8, <1>3 DEF GrowsTo
<1> QED BY <1>4, <1>5

\* Closure is the last element of such a list.
LEMMA ClosureGrows ==
  ASSUME NEW start, NEW f
  PROVE  \E w : GrowsTo(w, start, f, N) /\ Closure(start, f) = w[N]
<1>1. \E w : GrowsTo(w, start, f, N)
  BY NAssumption, GrowthExists
<1> DEFINE w == CHOOSE v : GrowsTo(v, start, f, N)
<1>2. GrowsTo(w, start, f, N)
  BY <1>1
<1>3. Closure(start, f) = w[N]
  BY DEF Closure, GrowsTo, Grow
<1> QED BY <1>2, <1>3

\* One more edge from a set that is not closed adds a node to it.
LEMMA GrowthAdds ==
  ASSUME NEW f \in Edges, NEW S \in SUBSET Nodes
  PROVE  /\ Grow(S, f) \in SUBSET Nodes /\ S \subseteq Grow(S, f)
         /\ (\A m \in S : f[m] \subseteq S) => Grow(S, f) = S
         /\ ~ (\A m \in S : f[m] \subseteq S) =>
              /\ Cardinality(S) \in Nat /\ Cardinality(Grow(S, f)) \in Nat
              /\ Cardinality(S) < Cardinality(Grow(S, f))
<1>1. \A m \in S : f[m] \subseteq Nodes
  BY DEF Edges
<1>2. Grow(S, f) \in SUBSET Nodes /\ S \subseteq Grow(S, f)
  BY <1>1 DEF Grow
<1>3. (\A m \in S : f[m] \subseteq S) => Grow(S, f) = S
  BY DEF Grow
<1>4. ASSUME ~ (\A m \in S : f[m] \subseteq S)
      PROVE  /\ Cardinality(S) \in Nat /\ Cardinality(Grow(S, f)) \in Nat
             /\ Cardinality(S) < Cardinality(Grow(S, f))
  <2>1. S # Grow(S, f)
    BY <1>4 DEF Grow
  <2>2. PICK T \in SUBSET Nodes : T = Grow(S, f)
    BY <1>2
  <2>3. IsFiniteSet(T) /\ IsFiniteSet(S)
    BY NodesFinite, FS_Subset
  <2>4. S \in SUBSET T /\ S # T
    BY <1>2, <2>1, <2>2
  <2>5. Cardinality(S) <= Cardinality(T) /\ Cardinality(S) # Cardinality(T)
    BY <2>3, <2>4, FS_Subset
  <2>6. Cardinality(S) \in Nat /\ Cardinality(T) \in Nat
    BY <2>3, FS_CardinalityType
  <2> QED BY <2>2, <2>5, <2>6
<1> QED BY <1>2, <1>3, <1>4

\* What the iteration of Closure has after k edges.
GrownTo(S, start, f, k) ==
  /\ S \in SUBSET Nodes
  /\ start \subseteq S /\ S \subseteq Reach(start, f)
  /\ (\A m \in S : f[m] \subseteq S) \/ Cardinality(S) >= k

\* The iteration of Closure stops growing after N edges at most, so that it
\* finds all that the edges lead to and nothing else.
LEMMA ClosureIsReach ==
  ASSUME NEW start \in SUBSET Nodes, NEW f \in Edges
  PROVE  Closure(start, f) = Reach(start, f)
<1>1. PICK w : GrowsTo(w, start, f, N) /\ Closure(start, f) = w[N]
  BY ClosureGrows
<1>2. \A k \in 0 .. N : w[k] = IF k = 0 THEN start ELSE Grow(w[k - 1], f)
  BY <1>1 DEF GrowsTo
<1> DEFINE bad == {k \in 0 .. N : ~ GrownTo(w[k], start, f, k)}
<1>3. ASSUME NEW k \in 0 .. N, k # 0, GrownTo(w[k - 1], start, f, k - 1)
      PROVE  GrownTo(w[k], start, f, k)
  <2>1. PICK S \in SUBSET Nodes : S = w[k - 1]
    BY <1>3 DEF GrownTo
  <2>2. /\ start \subseteq S /\ S \subseteq Reach(start, f)
        /\ (\A m \in S : f[m] \subseteq S) \/ Cardinality(S) >= k - 1
    BY <1>3, <2>1 DEF GrownTo
  <2>3. w[k] = Grow(S, f)
    BY <1>2, <1>3, <2>1
  <2>4. PICK T \in SUBSET Nodes : T = Grow(S, f)
    BY GrowthAdds
  <2>5. /\ S \subseteq T
        /\ (\A m \in S : f[m] \subseteq S) => T = S
        /\ ~ (\A m \in S : f[m] \subseteq S) =>
              /\ Cardinality(S) \in Nat /\ Cardinality(T) \in Nat
              /\ Cardinality(S) < Cardinality(T)
    BY <2>4, GrowthAdds
  <2>6. T \subseteq Reach(start, f)
    <3>1. \A m \in S : f[m] \subseteq Reach(start, f)
      <4> TAKE m \in S
      <4>1. f[m] \subseteq Nodes /\ m \in Reach(start, f)
        BY <2>2 DEF Edges
      <4> QED BY <4>1, ReachStep
    <3> QED BY <2>2, <2>4, <3>1 DEF Grow
  <2>7. (\A m \in T : f[m] \subseteq T) \/ Cardinality(T) >= k
    <3>1. CASE \A m \in S : f[m] \subseteq S
      BY <2>5, <3>1
    <3>2. CASE ~ (\A m \in S : f[m] \subseteq S)
      <4>1. Cardinality(S) >= k - 1
        BY <2>2, <3>2
      <4> QED BY <2>5, <3>2, <4>1, NAssumption
    <3> QED BY <3>1, <3>2
  <2> QED BY <2>2, <2>3, <2>4, <2>5, <2>6, <2>7 DEF GrownTo
<1>4. GrownTo(w[0], start, f, 0)
  <2>1. w[0] = start
    BY <1>2, NAssumption
  <2>2. Cardinality(start) >= 0
    BY NodesFinite, FS_Subset, FS_CardinalityType
  <2> QED BY <2>1, <2>2, ReachStart DEF GrownTo
<1>5. bad = {}
  <2> SUFFICES ASSUME bad # {} PROVE FALSE
    OBVIOUS
  <2>1. bad \subseteq Nat
    BY NAssumption
  <2> HIDE DEF bad
  <2>2. PICK k \in bad : \A j \in bad : k <= j
    BY <2>1, NatMin, Zenon
  <2>3. k \in 0 .. N /\ ~ GrownTo(w[k], start, f, k)
    BY DEF bad
  <2>4. k # 0
    BY <1>4, <2>3
  <2>5. k - 1 \in 0 .. N /\ k - 1 \notin bad
    BY <2>2, <2>3, <2>4, NAssumption
  <2>6. GrownTo(w[k - 1], start, f, k - 1)
    BY <2>5 DEF bad
  <2> QED BY <1>3, <2>3, <2>4, <2>6
<1>6. GrownTo(w[N], start, f, N)
  BY <1>5, NAssumption
<1>7. PICK S \in SUBSET Nodes : S = w[N]
  BY <1>6 DEF GrownTo
<1>8. start \subseteq S /\ S \subseteq Reach(start, f)
  BY <1>6, <1>7 DEF GrownTo
<1>9. \A m \in S : f[m] \subseteq S
  <2>1. CASE Cardinality(S) >= N
    <3>1. Cardinality(S) = Cardinality(Nodes)
      <4>1. Cardinality(S) <= Cardinality(Nodes) /\ Cardinality(S) \in Nat
        BY NodesFinite, FS_Subset, FS_CardinalityType
      <4> QED BY <4>1, <2>1, NodesFinite, NAssumption
    <3>2. S = Nodes
      BY <3>1, NodesFinite, FS_Subset
    <3> QED BY <3>2 DEF Edges
  <2> QED BY <2>1, <1>6, <1>7 DEF GrownTo
<1>10. Reach(start, f) \subseteq S
  BY <1>8, <1>9, ReachLeast
<1> QED BY <1>1, <1>7, <1>8, <1>10

-----------------------------------------------------------------------------
(* Paths.                                                                  *)

\* f without the edges that lead into D, and f with no edge out of T.
Without(f, D) == [m \in Nodes |-> f[m] \ D]
Stop(f, T) == [m \in Nodes |-> IF m \in T THEN {} ELSE f[m]]

\* y is after x along f exactly when x is after y along g.
Converse(f, g) == \A m, n \in Nodes : n \in f[m] <=> m \in g[n]

\* Every path from the root to n goes through d.
Cuts(d, n, root, f) == n \notin Reach({root} \ {d}, Without(f, {d}))

\* Parts of a graph are graphs, and what is reached are nodes.
LEMMA EdgesTypes ==
  ASSUME NEW f \in Edges
  PROVE  /\ \A D : Without(f, D) \in Edges
         /\ \A T : Stop(f, T) \in Edges
         /\ \A start : Reach(start, f) \in SUBSET Nodes
         /\ \A m \in Nodes : f[m] \in SUBSET Nodes
  BY DEF Edges, Without, Stop, Reach

\* What is reached is closed under the edges.
LEMMA ReachClosed ==
  ASSUME NEW start, NEW f \in Edges, NEW m \in Reach(start, f)
  PROVE  f[m] \subseteq Reach(start, f)
<1>1. f[m] \subseteq Nodes
  BY EdgesTypes DEF Reach
<1> QED BY <1>1, ReachStep

\* What is reached from nodes that are reached is reached.
LEMMA ReachTransitive ==
  ASSUME NEW from, NEW start, NEW f \in Edges, from \subseteq Reach(start, f)
  PROVE  Reach(from, f) \subseteq Reach(start, f)
<1>1. PICK S \in SUBSET Nodes : S = Reach(start, f)
  BY EdgesTypes
<1>2. \A m \in S : f[m] \subseteq S
  BY <1>1, ReachClosed
<1> QED BY <1>1, <1>2, ReachLeast

\* Fewer edges and a smaller start reach no more.
LEMMA ReachMonotone ==
  ASSUME NEW f \in Edges, NEW g \in Edges, \A m \in Nodes : f[m] \subseteq g[m],
         NEW from, NEW start \in SUBSET Nodes, from \subseteq start
  PROVE  Reach(from, f) \subseteq Reach(start, g)
<1>1. PICK S \in SUBSET Nodes : S = Reach(start, g)
  BY EdgesTypes
<1>2. \A m \in S : f[m] \subseteq S
  BY <1>1, ReachClosed
<1>3. from \subseteq S
  BY <1>1, ReachStart
<1> QED BY <1>1, <1>2, <1>3, ReachLeast

\* Nothing is reached from no node.
LEMMA ReachNothing ==
  ASSUME NEW f
  PROVE  Reach({}, f) = {}
<1>1. \A n \in Nodes : ~ (\A S \in SUBSET Nodes :
          {} \subseteq S /\ (\A m \in S : f[m] \subseteq S) => n \in S)
  <2> SUFFICES ASSUME NEW n \in Nodes,
                      \A S \in SUBSET Nodes :
                        {} \subseteq S /\ (\A m \in S : f[m] \subseteq S) => n \in S
               PROVE  FALSE
    OBVIOUS
  <2>1. {} \in SUBSET Nodes
    OBVIOUS
  <2> QED BY <2>1
<1> QED BY <1>1 DEF Reach

\* A path that misses d is one of the graph without d.
LEMMA MissingPath ==
  ASSUME NEW f \in Edges, NEW h \in Edges, \A m \in Nodes : h[m] \subseteq f[m],
         NEW root \in Nodes, NEW start, start \subseteq {root}, NEW d,
         d \notin Reach(start, h), NEW n \in Reach(start, h)
  PROVE  ~ Cuts(d, n, root, f)
<1> DEFINE all == Reach(start, h)
           part == Reach({root} \ {d}, Without(f, {d}))
           S == all \cap part
<1>1. all \in SUBSET Nodes /\ part \in SUBSET Nodes
  BY EdgesTypes
<1>2. start \subseteq S
  <2>1. start \subseteq all
    BY ReachStart
  <2>2. start \subseteq {root} \ {d}
    BY <2>1
  <2>3. {root} \ {d} \subseteq part
    <3>1. ({root} \ {d}) \in SUBSET Nodes
      OBVIOUS
    <3> QED BY <3>1, ReachStart
  <2> QED BY <2>1, <2>2, <2>3
<1>3. ASSUME NEW m \in S PROVE h[m] \subseteq S
  <2>1. m \in Nodes
    BY <1>1
  <2>2. h[m] \subseteq all
    BY ReachClosed
  <2>3. Without(f, {d})[m] \subseteq part
    BY EdgesTypes, ReachClosed
  <2>4. h[m] \subseteq Without(f, {d})[m]
    BY <2>1, <2>2 DEF Without
  <2> QED BY <2>2, <2>3, <2>4
<1>4. S \in SUBSET Nodes
  BY <1>1
<1> HIDE DEF S
<1>5. all \subseteq S
  BY <1>2, <1>3, <1>4, ReachLeast
<1>6. n \in part
  BY <1>5 DEF S
<1> QED BY <1>6 DEF Cuts

\* A set of reached nodes, each of which can be reached only through another
\* one of the set, is empty: the first of them on a path would have none.
LEMMA FirstOnPath ==
  ASSUME NEW f \in Edges, NEW root \in Nodes, NEW U, U \subseteq Reach({root}, f),
         root \notin U,
         \A n \in U : \E d \in U : d # n /\ Cuts(d, n, root, f)
  PROVE  U = {}
<1> DEFINE S == Reach({root}, Without(f, U))
<1>1. S \in SUBSET Nodes
  BY EdgesTypes
<1>2. {root} \subseteq S
  BY ReachStart
<1>3. \A m \in S : f[m] \subseteq S
  <2> SUFFICES ASSUME NEW m \in S, NEW n \in f[m], n \notin S PROVE FALSE
    OBVIOUS
  <2>1. m \in Nodes
    BY <1>1
  <2>2. Without(f, U)[m] \subseteq S
    BY EdgesTypes, ReachClosed
  <2>3. n \in U
    BY <2>1, <2>2 DEF Without
  <2>4. PICK d \in U : d # n /\ Cuts(d, n, root, f)
    BY <2>3
  <2>5. \A k \in Nodes : Without(f, U)[k] \subseteq Without(f, {d})[k]
    BY <2>4 DEF Without
  <2>6. S \subseteq Reach({root} \ {d}, Without(f, {d}))
    <3>1. {root} \subseteq {root} \ {d} /\ ({root} \ {d}) \in SUBSET Nodes
      BY <2>4
    <3> QED BY <2>5, <3>1, EdgesTypes, ReachMonotone
  <2>7. Without(f, {d})[m] \subseteq Reach({root} \ {d}, Without(f, {d}))
    BY <2>6, EdgesTypes, ReachClosed
  <2>8. n \in Without(f, {d})[m]
    BY <2>1, <2>4 DEF Without
  <2> QED BY <2>4, <2>7, <2>8 DEF Cuts
<1>4. U \cap S = {}
  <2>1. Nodes \ U \in SUBSET Nodes /\ {root} \subseteq Nodes \ U
    OBVIOUS
  <2>2. \A m \in Nodes \ U : Without(f, U)[m] \subseteq Nodes \ U
    BY EdgesTypes DEF Without
  <2>3. S \subseteq Nodes \ U
    BY <2>1, <2>2, ReachLeast
  <2> QED BY <2>3
<1> HIDE DEF S
<1>5. Reach({root}, f) \subseteq S
  BY <1>1, <1>2, <1>3, ReachLeast
<1> QED BY <1>4, <1>5

\* What the search backwards from n, up to d and the nodes of T, finds.
Searched(n, d, T, g) == Reach(g[n], Stop(g, T \cup {d}))

\* From everything the search finds a path that meets T no more leads to n.
LEMMA SearchedArrives ==
  ASSUME NEW f \in Edges, NEW g \in Edges, Converse(f, g), NEW n \in Nodes, NEW d, NEW T,
         NEW x \in Searched(n, d, T, g)
  PROVE  n \in Reach(f[x], Stop(f, T))
<1> DEFINE S == {y \in Nodes : n \in Reach(f[y], Stop(f, T))}
<1>1. g[n] \subseteq S
  <2> SUFFICES ASSUME NEW y \in g[n] PROVE y \in S
    OBVIOUS
  <2>1. y \in Nodes /\ n \in f[y] /\ f[y] \in SUBSET Nodes
    BY EdgesTypes DEF Converse
  <2>2. f[y] \subseteq Reach(f[y], Stop(f, T))
    BY <2>1, ReachStart
  <2> QED BY <2>1, <2>2
<1>2. ASSUME NEW m \in S, NEW y \in Stop(g, T \cup {d})[m] PROVE y \in S
  <2>1. m \in Nodes /\ m \notin T /\ y \in g[m]
    BY <1>2 DEF Stop
  <2>2. y \in Nodes /\ m \in f[y] /\ f[y] \in SUBSET Nodes
    BY <2>1, EdgesTypes DEF Converse
  <2>3. m \in Reach(f[y], Stop(f, T))
    BY <2>2, ReachStart
  <2>4. Stop(f, T)[m] \subseteq Reach(f[y], Stop(f, T))
    BY <2>3, EdgesTypes, ReachClosed
  <2>5. f[m] \subseteq Reach(f[y], Stop(f, T))
    BY <2>1, <2>4 DEF Stop
  <2>6. Reach(f[m], Stop(f, T)) \subseteq Reach(f[y], Stop(f, T))
    BY <2>5, EdgesTypes, ReachTransitive
  <2> QED BY <2>2, <2>6
<1>3. S \in SUBSET Nodes
  OBVIOUS
<1> HIDE DEF S
<1>4. Reach(g[n], Stop(g, T \cup {d})) \subseteq S
  BY <1>1, <1>2, <1>3, ReachLeast
<1> QED BY <1>4 DEF Searched, S

\* A path that meets T no more and leads to n starts at an edge the search has
\* followed or goes through d.
LEMMA ArrivalSearched ==
  ASSUME NEW f \in Edges, NEW g \in Edges, Converse(f, g), NEW n \in Nodes, NEW d, NEW T,
         NEW from \in SUBSET Nodes, n \in Reach(from, Stop(f, T))
  PROVE  LET inner == {n} \cup {x \in Searched(n, d, T, g) : x # d /\ x \notin T}
         IN \/ from \cap inner # {}
            \/ d \in Searched(n, d, T, g) /\ d \notin T /\ d \in Reach(from, Stop(f, T))
<1> DEFINE seen == Searched(n, d, T, g)
           inner == {n} \cup {x \in seen : x # d /\ x \notin T}
           all == Reach(from, Stop(f, T))
           S == all \ inner
<1> SUFFICES ASSUME from \cap inner = {}
             PROVE  d \in seen /\ d \notin T /\ d \in all
  OBVIOUS
<1>1. all \in SUBSET Nodes /\ from \subseteq all
  BY EdgesTypes, ReachStart
<1>2. S \in SUBSET Nodes /\ from \subseteq S /\ n \notin S
  BY <1>1
<1>3. \A x \in inner : x \in Nodes /\ g[x] \subseteq seen
  <2> TAKE x \in inner
  <2>1. CASE x = n
    <3>1. g[n] \in SUBSET Nodes
      BY EdgesTypes
    <3> QED BY <2>1, <3>1, ReachStart DEF Searched
  <2>2. CASE x # n
    <3>1. x \in seen /\ x # d /\ x \notin T /\ x \in Nodes
      BY <2>2, EdgesTypes DEF Searched, Reach
    <3>2. Stop(g, T \cup {d})[x] \subseteq seen
      BY <3>1, EdgesTypes, ReachClosed DEF Searched
    <3> QED BY <3>1, <3>2 DEF Stop
  <2> QED BY <2>1, <2>2
<1> HIDE DEF seen
<1>4. \E y \in S : ~ (Stop(f, T)[y] \subseteq S)
  <2> SUFFICES ASSUME \A y \in S : Stop(f, T)[y] \subseteq S PROVE FALSE
    OBVIOUS
  <2> HIDE DEF S
  <2>1. all \subseteq S
    BY <1>2, ReachLeast
  <2> QED BY <1>2, <2>1
<1>5. PICK y \in S : \E x \in Stop(f, T)[y] : x \notin S
  BY <1>4
<1>6. PICK x \in Stop(f, T)[y] : x \notin S
  BY <1>5
<1>7. y \in Nodes /\ y \in all /\ y \notin inner
  BY <1>1, <1>5
<1>8. y \notin T /\ x \in f[y]
  BY <1>6, <1>7 DEF Stop
<1>9. x \in all
  BY <1>6, <1>7, EdgesTypes, ReachClosed
<1>10. x \in inner /\ x \in Nodes
  BY <1>1, <1>6, <1>9
<1>11. y \in seen
  BY <1>3, <1>7, <1>8, <1>10 DEF Converse
<1>12. y = d
  BY <1>7, <1>8, <1>11
<1> QED BY <1>7, <1>8, <1>11, <1>12

\* The search does not go past d to the root if every path to n goes through d.
LEMMA SearchStopsAtCut ==
  ASSUME NEW f \in Edges, NEW g \in Edges, Converse(f, g), NEW n \in Nodes, NEW d, NEW T,
         NEW root, d # n, Cuts(d, n, root, f)
  PROVE  root \notin Searched(n, d, T, g) \ {d}
<1> DEFINE h == Without(f, {d})
           S == {y \in Nodes : y = d \/ n \in Reach({y}, h)}
<1>1. g[n] \subseteq S
  <2> SUFFICES ASSUME NEW y \in g[n] PROVE y \in S
    OBVIOUS
  <2>1. y \in Nodes /\ n \in f[y] /\ {y} \in SUBSET Nodes
    BY EdgesTypes DEF Converse
  <2>2. y \in Reach({y}, h)
    BY <2>1, ReachStart
  <2>3. h[y] \subseteq Reach({y}, h)
    BY <2>2, EdgesTypes, ReachClosed
  <2>4. n \in h[y]
    BY <2>1 DEF Without
  <2> QED BY <2>1, <2>3, <2>4
<1>2. ASSUME NEW m \in S, NEW y \in Stop(g, T \cup {d})[m] PROVE y \in S
  <2>1. m \in Nodes /\ m # d /\ y \in g[m] /\ n \in Reach({m}, h)
    BY <1>2 DEF Stop
  <2>2. y \in Nodes /\ m \in f[y] /\ {y} \in SUBSET Nodes
    BY <2>1, EdgesTypes DEF Converse
  <2>3. y \in Reach({y}, h)
    BY <2>2, ReachStart
  <2>4. h[y] \subseteq Reach({y}, h)
    BY <2>3, EdgesTypes, ReachClosed
  <2>5. m \in h[y]
    BY <2>1, <2>2 DEF Without
  <2>6. Reach({m}, h) \subseteq Reach({y}, h)
    <3>1. {m} \subseteq Reach({y}, h)
      BY <2>4, <2>5
    <3> QED BY <3>1, EdgesTypes, ReachTransitive
  <2> QED BY <2>1, <2>2, <2>6
<1>3. S \in SUBSET Nodes
  OBVIOUS
<1> HIDE DEF S
<1>4. Reach(g[n], Stop(g, T \cup {d})) \subseteq S
  BY <1>1, <1>2, <1>3, ReachLeast
<1> SUFFICES ASSUME root \in Searched(n, d, T, g) \ {d} PROVE FALSE
  OBVIOUS
<1>5. root # d /\ n \in Reach({root}, h)
  BY <1>4 DEF Searched, S
<1>6. {root} \ {d} = {root}
  BY <1>5
<1> QED BY <1>5, <1>6 DEF Cuts

\* Some path to a node that is reached meets T for the last time somewhere, or
\* not at all.
LEMMA SomethingArrives ==
  ASSUME NEW f \in Edges, NEW start \in SUBSET Nodes, NEW T, NEW n \in Reach(start, f)
  PROVE  \/ n \in Reach(start, Stop(f, T))
         \/ \E m \in T \cap Nodes : n \in Reach(f[m], Stop(f, T))
<1> DEFINE arrives(x) == \/ x \in Reach(start, Stop(f, T))
                         \/ \E m \in T \cap Nodes : x \in Reach(f[m], Stop(f, T))
           S == {x \in Nodes : arrives(x)}
<1>1. start \subseteq S
  BY ReachStart
<1>2. ASSUME NEW x \in S, NEW y \in f[x] PROVE y \in S
  <2>1. x \in Nodes /\ y \in Nodes /\ f[x] \in SUBSET Nodes
    BY EdgesTypes
  <2>2. CASE x \in T
    <3>1. y \in Reach(f[x], Stop(f, T))
      BY <2>1, ReachStart
    <3> QED BY <2>1, <2>2, <3>1
  <2>3. CASE x \notin T
    <3>1. Stop(f, T)[x] = f[x]
      BY <2>1, <2>3 DEF Stop
    <3>2. CASE x \in Reach(start, Stop(f, T))
      <4>1. y \in Reach(start, Stop(f, T))
        BY <3>1, <3>2, EdgesTypes, ReachClosed
      <4> QED BY <2>1, <4>1
    <3>3. ASSUME NEW m \in T \cap Nodes, x \in Reach(f[m], Stop(f, T)) PROVE y \in S
      <4>1. y \in Reach(f[m], Stop(f, T))
        BY <3>1, <3>3, EdgesTypes, ReachClosed
      <4> QED BY <2>1, <4>1
    <3> QED BY <3>2, <3>3
  <2> QED BY <2>2, <2>3
<1>3. S \in SUBSET Nodes
  OBVIOUS
<1> HIDE DEF S
<1>4. Reach(start, f) \subseteq S
  BY <1>1, <1>2, <1>3, ReachLeast
<1> QED BY <1>4 DEF S

-----------------------------------------------------------------------------
(* The graph and the code the walk is given.                               *)

\* A graph in which every node but the TerminalNode is reached and no edge
\* leads back to the entry; an immediate dominator is another node that
\* dominates, which is all the walk needs of it.
GraphOK ==
  /\ succ \in Edges
  /\ \A m \in Nodes : Entry \notin succ[m]
  /\ Nodes \ {Terminal} \subseteq Reached
  /\ imdom[Entry] = -1
  /\ \A n \in Nodes \ {Entry} : imdom[n] \in Nodes \ {n} /\ Dominates(imdom[n], n)

\* Lists of instructions about locations; the TerminalNode has none.
CodeOK ==
  /\ \A n \in Nodes : DOMAIN code[n] = 1 .. Len(code[n]) /\ Len(code[n]) \in Nat
  /\ \A n \in Nodes : \A k \in DOMAIN code[n] :
       code[n][k].ins \cup code[n][k].outs \cup code[n][k].clobs \subseteq Locs
  /\ code[Terminal] = <<>>

\* The parents as a function, and the nodes that touch l.
Up == [m \in Nodes |-> parents(m)]
Touched(l) == {m \in Nodes : Touches(m, l) # {}}

\* What l is after a node that touches it.
LastValue(m, l) ==
  IF l \in code[m][Max(Touches(m, l))].outs THEN <<m, Max(Touches(m, l))>> ELSE Unset

\* What l is before the function, and what it can be after the instructions of n.
InitialValue(l) == IF l \in Regs THEN PrologueRef(l) ELSE Unset
AtEnd(n, l) == ValuesAt(n, Len(code[n]) + 1, l)

\* What phi_loc_sources visits.
Seen(n, l) == Searched(n, imdom[n], Touched(l), Up)

\* Every search of the walk, and every path of its specification, is Reach.
LEMMA SearchesAreReach ==
  ASSUME GraphOK
  PROVE  /\ Up \in Edges /\ Converse(succ, Up)
         /\ Reached = Reach({Entry}, succ)
         /\ \A d, n \in Nodes : Dominates(d, n) <=> Cuts(d, n, Entry, succ)
         /\ \A from \in SUBSET Nodes : \A l :
              Flow(from, l) = Reach(from, Stop(succ, Touched(l)))
         /\ \A n \in Nodes : \A l :
              Closure(parents(n), [m \in Nodes |-> IF m = imdom[n] \/ Touches(m, l) # {}
                                                   THEN {} ELSE parents(m)]) = Seen(n, l)
         /\ \A n \in Nodes :
              Closure(parents(n), [m \in Nodes |-> IF m = imdom[n] THEN {} ELSE parents(m)])
                = Searched(n, imdom[n], {}, Up)
<1>1. succ \in Edges /\ Entry \in Nodes
  BY NAssumption DEF GraphOK, Nodes, Entry
<1>2. Up \in Edges /\ Converse(succ, Up)
  BY <1>1 DEF Up, Edges, Converse, parents
<1>3. Reached = Reach({Entry}, succ)
  BY <1>1, ClosureIsReach DEF Reached
<1>4. ASSUME NEW d \in Nodes, NEW n \in Nodes
      PROVE  Dominates(d, n) <=> Cuts(d, n, Entry, succ)
  <2>1. [m \in Nodes |-> succ[m] \ {d}] = Without(succ, {d})
    BY DEF Without
  <2>2. ({Entry} \ {d}) \in SUBSET Nodes /\ Without(succ, {d}) \in Edges
    BY <1>1, EdgesTypes
  <2>3. Closure({Entry} \ {d}, Without(succ, {d})) = Reach({Entry} \ {d}, Without(succ, {d}))
    BY <2>2, ClosureIsReach
  <2> QED BY <2>1, <2>3 DEF Dominates, Cuts
<1>5. ASSUME NEW from \in SUBSET Nodes, NEW l
      PROVE  Flow(from, l) = Reach(from, Stop(succ, Touched(l)))
  <2>1. [m \in Nodes |-> IF Touches(m, l) = {} THEN succ[m] ELSE {}] = Stop(succ, Touched(l))
    BY DEF Stop, Touched
  <2>2. Stop(succ, Touched(l)) \in Edges
    BY <1>1, EdgesTypes
  <2>3. Closure(from, Stop(succ, Touched(l))) = Reach(from, Stop(succ, Touched(l)))
    BY <2>2, ClosureIsReach
  <2> QED BY <2>1, <2>3 DEF Flow
<1>6. ASSUME NEW n \in Nodes, NEW T,
             NEW f, f = [m \in Nodes |-> IF m = imdom[n] \/ m \in T THEN {} ELSE parents(m)]
      PROVE  Closure(parents(n), f) = Searched(n, imdom[n], T, Up)
  <2>1. f = Stop(Up, T \cup {imdom[n]})
    BY <1>6 DEF Stop, Up
  <2>2. parents(n) \in SUBSET Nodes /\ parents(n) = Up[n]
    BY DEF parents, Up
  <2>3. f \in Edges
    BY <1>2, <2>1, EdgesTypes
  <2>4. Closure(parents(n), f) = Reach(parents(n), f)
    BY <2>2, <2>3, ClosureIsReach
  <2> QED BY <2>1, <2>2, <2>4 DEF Searched
<1>7. ASSUME NEW n \in Nodes, NEW l
      PROVE  Closure(parents(n), [m \in Nodes |-> IF m = imdom[n] \/ Touches(m, l) # {}
                                                  THEN {} ELSE parents(m)]) = Seen(n, l)
  <2>1. PICK f : f = [m \in Nodes |-> IF m = imdom[n] \/ m \in Touched(l) THEN {} ELSE parents(m)]
    OBVIOUS
  <2>2. f = [m \in Nodes |-> IF m = imdom[n] \/ Touches(m, l) # {} THEN {} ELSE parents(m)]
    BY <2>1 DEF Touched
  <2>3. Closure(parents(n), f) = Searched(n, imdom[n], Touched(l), Up)
    BY <1>6, <2>1
  <2> QED BY <2>2, <2>3 DEF Seen
<1>8. ASSUME NEW n \in Nodes
      PROVE  Closure(parents(n), [m \in Nodes |-> IF m = imdom[n] THEN {} ELSE parents(m)])
               = Searched(n, imdom[n], {}, Up)
  <2>1. PICK f : f = [m \in Nodes |-> IF m = imdom[n] \/ m \in {} THEN {} ELSE parents(m)]
    OBVIOUS
  <2>2. f = [m \in Nodes |-> IF m = imdom[n] THEN {} ELSE parents(m)]
    BY <2>1
  <2>3. Closure(parents(n), f) = Searched(n, imdom[n], {}, Up)
    BY <1>6, <2>1
  <2> QED BY <2>2, <2>3
<1> QED BY <1>2, <1>3, <1>4, <1>5, <1>7, <1>8

\* Max of numbers up to m is the largest of them.
LEMMA MaxPicked ==
  ASSUME NEW m \in Nat, NEW S, S \subseteq 0 .. m, S # {}
  PROVE  Max(S) \in S /\ \A y \in S : Max(S) >= y
<1>1. \E x \in S : \A y \in S : x >= y
  BY BoundedMax, Zenon
<1> QED BY <1>1 DEF Max

\* The last position that touches l is one of them.
LEMMA LastTouch ==
  ASSUME CodeOK, NEW n \in Nodes, NEW l, NEW S, S \subseteq Touches(n, l), S # {}
  PROVE  Max(S) \in S /\ Max(S) \in Nat /\ Max(S) \in DOMAIN code[n] /\ \A k \in S : Max(S) >= k
<1>1. Len(code[n]) \in Nat /\ DOMAIN code[n] = 1 .. Len(code[n]) /\ S \subseteq DOMAIN code[n]
  BY DEF CodeOK, Touches
<1>2. S \subseteq 0 .. Len(code[n])
  BY <1>1
<1>3. Max(S) \in S /\ \A k \in S : Max(S) >= k
  BY <1>1, <1>2, MaxPicked
<1> QED BY <1>1, <1>3

\* Nothing is touched before the first instruction, and after the last one l is
\* what the node left.
LEMMA ValuesAtEnds ==
  ASSUME CodeOK, NEW n \in Nodes, NEW l
  PROVE  /\ ValuesAt(n, 1, l) = Arriving(n, l)
         /\ \A k \in Nat : k > Len(code[n]) => ValuesAt(n, k, l) = AtEnd(n, l)
         /\ AtEnd(n, l) = IF n \in Touched(l) THEN {LastValue(n, l)} ELSE Arriving(n, l)
<1>1. Len(code[n]) \in Nat /\ \A j \in Touches(n, l) : j \in 1 .. Len(code[n])
  BY DEF CodeOK, Touches
<1>2. {j \in Touches(n, l) : j < 1} = {}
  BY <1>1
<1>3. \A k \in Nat : k > Len(code[n]) => {j \in Touches(n, l) : j < k} = Touches(n, l)
  BY <1>1
<1>4. {j \in Touches(n, l) : j < Len(code[n]) + 1} = Touches(n, l)
  BY <1>1
<1>5. ValuesAt(n, 1, l) = Arriving(n, l)
  BY <1>2 DEF ValuesAt
<1>6. \A k \in Nat : k > Len(code[n]) => ValuesAt(n, k, l) = AtEnd(n, l)
  BY <1>3, <1>4 DEF ValuesAt, AtEnd
<1>7. AtEnd(n, l) = IF n \in Touched(l) THEN {LastValue(n, l)} ELSE Arriving(n, l)
  BY <1>4 DEF ValuesAt, AtEnd, Touched, LastValue
<1> QED BY <1>5, <1>6, <1>7

\* The values that arrive, with the paths as Reach.
LEMMA ArrivingByPaths ==
  ASSUME GraphOK, NEW n \in Nodes, NEW l
  PROVE  Arriving(n, l) =
           {LastValue(m, l) : m \in {m \in Touched(l) : n \in Reach(succ[m], Stop(succ, Touched(l)))}}
             \cup (IF n \in Reach({Entry}, Stop(succ, Touched(l))) THEN {InitialValue(l)} ELSE {})
<1>1. \A from \in SUBSET Nodes : Flow(from, l) = Reach(from, Stop(succ, Touched(l)))
  BY SearchesAreReach
<1>2. {Entry} \in SUBSET Nodes /\ \A m \in Nodes : succ[m] \in SUBSET Nodes
  BY NAssumption DEF GraphOK, Edges, Nodes, Entry
<1>3. \A m \in Nodes : Flow(succ[m], l) = Reach(succ[m], Stop(succ, Touched(l)))
  BY <1>1, <1>2
<1>4. {m \in Nodes : Touches(m, l) # {} /\ n \in Flow(succ[m], l)}
        = {m \in Touched(l) : n \in Reach(succ[m], Stop(succ, Touched(l)))}
  BY <1>3 DEF Touched
<1>5. Flow({Entry}, l) = Reach({Entry}, Stop(succ, Touched(l)))
  BY <1>1, <1>2
<1> QED BY <1>4, <1>5 DEF Arriving, LastValue, InitialValue

\* Some value arrives at every node that is reached.
LEMMA SomeValueArrives ==
  ASSUME GraphOK, NEW n \in Reached, NEW l
  PROVE  Arriving(n, l) # {}
<1>1. n \in Reach({Entry}, succ) /\ succ \in Edges /\ {Entry} \in SUBSET Nodes
  BY SearchesAreReach, NAssumption DEF GraphOK, Nodes, Entry
<1>2. n \in Nodes
  BY <1>1 DEF Reach
<1>3. \/ n \in Reach({Entry}, Stop(succ, Touched(l)))
      \/ \E m \in Touched(l) \cap Nodes : n \in Reach(succ[m], Stop(succ, Touched(l)))
  BY <1>1, SomethingArrives
<1> DEFINE from == {m \in Touched(l) : n \in Reach(succ[m], Stop(succ, Touched(l)))}
           paths == n \in Reach({Entry}, Stop(succ, Touched(l)))
<1>4. Arriving(n, l) = {LastValue(m, l) : m \in from}
                         \cup (IF paths THEN {InitialValue(l)} ELSE {})
  BY <1>2, ArrivingByPaths
<1>5. from # {} \/ paths
  BY <1>3
<1> HIDE DEF from, paths
<1> QED BY <1>4, <1>5

\* At the entry only the value from before the function arrives.
LEMMA ArrivingAtEntry ==
  ASSUME GraphOK, NEW l
  PROVE  Arriving(Entry, l) = {InitialValue(l)}
<1>1. Entry \in Nodes /\ {Entry} \in SUBSET Nodes /\ succ \in Edges
  BY NAssumption DEF GraphOK, Nodes, Entry
<1>2. Entry \in Reach({Entry}, Stop(succ, Touched(l)))
  BY <1>1, ReachStart
<1>3. ASSUME NEW m \in Nodes PROVE Entry \notin Reach(succ[m], Stop(succ, Touched(l)))
  <2>1. Nodes \ {Entry} \in SUBSET Nodes /\ succ[m] \subseteq Nodes \ {Entry}
    BY <1>1 DEF GraphOK, Edges
  <2>2. \A x \in Nodes \ {Entry} : Stop(succ, Touched(l))[x] \subseteq Nodes \ {Entry}
    BY <1>1 DEF GraphOK, Edges, Stop
  <2>3. Reach(succ[m], Stop(succ, Touched(l))) \subseteq Nodes \ {Entry}
    BY <2>1, <2>2, ReachLeast
  <2> QED BY <2>3
<1>4. {m \in Touched(l) : Entry \in Reach(succ[m], Stop(succ, Touched(l)))} = {}
  BY <1>3 DEF Touched
<1> QED BY <1>1, <1>2, <1>4, ArrivingByPaths

\* What arrives at n is what the touching nodes that phi_loc_sources meets
\* leave, and what the immediate dominator leaves if it meets that.
LEMMA ArrivingFromDominator ==
  ASSUME GraphOK, CodeOK, NEW n \in Nodes \ {Entry}, NEW l
  PROVE  Arriving(n, l) =
           {LastValue(m, l) : m \in (Seen(n, l) \cap Touched(l)) \ {imdom[n]}}
             \cup (IF imdom[n] \in Seen(n, l) THEN AtEnd(imdom[n], l) ELSE {})
<1> DEFINE T == Touched(l)
           seen == Seen(n, l)
<1>1. PICK d : d = imdom[n]
  OBVIOUS
<1>2. /\ d \in Nodes /\ d # n /\ Cuts(d, n, Entry, succ)
      /\ succ \in Edges /\ Up \in Edges /\ Converse(succ, Up)
      /\ Entry \in Nodes /\ {Entry} \in SUBSET Nodes
      /\ seen = Searched(n, d, T, Up)
  BY <1>1, SearchesAreReach, NAssumption DEF GraphOK, Seen, Nodes, Entry
<1>3. seen \subseteq Nodes /\ T \subseteq Nodes
  BY <1>2 DEF Searched, Reach, Touched
<1> DEFINE comes(from, x) == x \in Reach(from, Stop(succ, T))
           through(from) == d \in seen /\ d \notin T /\ comes(from, d)
<1>4. \A x \in seen : comes(succ[x], n)
  BY <1>2, SearchedArrives
<1>5. ASSUME NEW from \in SUBSET Nodes, through(from) PROVE comes(from, n)
  <2>1. Stop(succ, T)[d] = succ[d]
    BY <1>2, <1>5 DEF Stop
  <2>2. succ[d] \subseteq Reach(from, Stop(succ, T))
    BY <1>2, <1>5, <2>1, EdgesTypes, ReachClosed
  <2>3. Reach(succ[d], Stop(succ, T)) \subseteq Reach(from, Stop(succ, T))
    BY <1>2, <2>2, EdgesTypes, ReachTransitive
  <2> QED BY <1>4, <1>5, <2>3
<1>6. ASSUME NEW from \in SUBSET Nodes, comes(from, n)
      PROVE  \/ from \cap ({n} \cup {x \in seen : x # d /\ x \notin T}) # {}
             \/ through(from)
  BY <1>2, <1>6, ArrivalSearched
<1>7. ASSUME NEW m \in T
      PROVE  comes(succ[m], n) <=> m \in seen \ {d} \/ (d \in seen /\ m = d) \/ through(succ[m])
  <2>1. m \in Nodes /\ succ[m] \in SUBSET Nodes
    BY <1>2, <1>3 DEF Edges
  <2>2. ASSUME NEW x \in succ[m], x = n \/ (x \in seen /\ x # d /\ x \notin T) PROVE m \in seen
    <3>1. m \in Up[x] /\ x \in Nodes
      BY <1>2, <2>1 DEF Converse
    <3>2. CASE x = n
      <4>1. Up[n] \in SUBSET Nodes
        BY <1>2 DEF Edges
      <4> QED BY <1>2, <3>1, <3>2, <4>1, ReachStart DEF Searched
    <3>3. CASE x \in seen /\ x # d /\ x \notin T
      <4>1. Stop(Up, T \cup {d})[x] \subseteq seen
        BY <1>2, <3>3, EdgesTypes, ReachClosed DEF Searched
      <4> QED BY <3>1, <3>3, <4>1 DEF Stop
    <3> QED BY <2>2, <3>2, <3>3
  <2>3. ASSUME comes(succ[m], n)
        PROVE  m \in seen \ {d} \/ (d \in seen /\ m = d) \/ through(succ[m])
    BY <1>6, <2>1, <2>2, <2>3
  <2>4. ASSUME m \in seen \ {d} \/ (d \in seen /\ m = d) \/ through(succ[m])
        PROVE  comes(succ[m], n)
    BY <1>4, <1>5, <2>1, <2>4
  <2> QED BY <2>3, <2>4
<1>8. comes({Entry}, n) <=> through({Entry})
  <2>1. Entry \notin seen \ {d}
    BY <1>2, SearchStopsAtCut
  <2>2. comes({Entry}, n) => through({Entry})
    BY <1>2, <1>6, <2>1
  <2> QED BY <1>2, <1>5, <2>2
<1>9. Arriving(n, l) = {LastValue(m, l) : m \in {m \in T : comes(succ[m], n)}}
                         \cup (IF comes({Entry}, n) THEN {InitialValue(l)} ELSE {})
  BY ArrivingByPaths
<1>10. Arriving(d, l) = {LastValue(m, l) : m \in {m \in T : comes(succ[m], d)}}
                          \cup (IF comes({Entry}, d) THEN {InitialValue(l)} ELSE {})
  BY <1>2, ArrivingByPaths
<1>11. AtEnd(d, l) = IF d \in T THEN {LastValue(d, l)} ELSE Arriving(d, l)
  BY <1>2, ValuesAtEnds
<1> SUFFICES Arriving(n, l) = {LastValue(m, l) : m \in (seen \cap T) \ {d}}
                                \cup (IF d \in seen THEN AtEnd(d, l) ELSE {})
  BY <1>1
<1> HIDE DEF seen, T, comes
<1>12. CASE d \notin seen
  <2>1. {m \in T : comes(succ[m], n)} = (seen \cap T) \ {d}
    BY <1>7, <1>12
  <2> QED BY <1>1, <1>8, <1>9, <1>12, <2>1
<1>13. CASE d \in seen /\ d \in T
  <2>1. {m \in T : comes(succ[m], n)} = ((seen \cap T) \ {d}) \cup {d}
    BY <1>7, <1>13
  <2> QED BY <1>1, <1>8, <1>9, <1>11, <1>13, <2>1
<1>14. CASE d \in seen /\ d \notin T
  <2>1. {m \in T : comes(succ[m], n)} = ((seen \cap T) \ {d}) \cup {m \in T : comes(succ[m], d)}
    BY <1>7, <1>14
  <2>2. {LastValue(m, l) : m \in {m \in T : comes(succ[m], n)}}
          = {LastValue(m, l) : m \in (seen \cap T) \ {d}}
              \cup {LastValue(m, l) : m \in {m \in T : comes(succ[m], d)}}
    BY <2>1
  <2> QED BY <1>1, <1>8, <1>9, <1>10, <1>11, <1>14, <2>2
<1> QED BY <1>12, <1>13, <1>14

\* A reference is never Unset, which stands for a location without a value.
LEMMA UnsetIsNoReference ==
  /\ \A m \in Nat : \A k : <<m, k>> # Unset
  /\ \A l : PrologueRef(l) # Unset
  BY DEF Unset, PrologueRef

\* The immediate dominator of a node that is reached is reached.
LEMMA DominatorReached ==
  ASSUME GraphOK, NEW n \in Reached, n # Entry
  PROVE  imdom[n] \in Reached
<1>1. /\ succ \in Edges /\ Entry \in Nodes /\ Reached = Reach({Entry}, succ)
      /\ n \in Nodes /\ n \in Reach({Entry}, succ)
  BY SearchesAreReach, NAssumption DEF GraphOK, Nodes, Entry, Reach
<1>2. PICK d \in Nodes : d = imdom[n]
  BY <1>1 DEF GraphOK
<1>3. Cuts(d, n, Entry, succ)
  BY <1>1, <1>2, SearchesAreReach DEF GraphOK
<1>4. d \in Reach({Entry}, succ)
  <2> SUFFICES ASSUME d \notin Reach({Entry}, succ) PROVE FALSE
    OBVIOUS
  <2>1. \A m \in Nodes : succ[m] \subseteq succ[m]
    OBVIOUS
  <2>2. {Entry} \subseteq {Entry}
    OBVIOUS
  <2>3. ~ Cuts(d, n, Entry, succ)
    BY <1>1, <2>1, <2>2, MissingPath
  <2> QED BY <1>3, <2>3
<1> QED BY <1>1, <1>2, <1>4

\* phi_loc_sources returns the values that arrive, given what its immediate
\* dominator leaves, and no source if the location may be without a value.
LEMMA PhiSources ==
  ASSUME GraphOK, CodeOK, NEW n \in Reached, n # Entry, NEW l
  PROVE  phi_loc_sources(n, l, Sources(imdom[n], Len(code[imdom[n]]) + 1, l)) = Sources(n, 1, l)
<1> DEFINE setters == {m \in Seen(n, l) \ {imdom[n]} : Touches(m, l) # {}}
           last(m) == Max(Touches(m, l))
<1>1. n \in Nodes \ {Entry} /\ imdom[n] \in Nodes /\ imdom[n] \in Reached
  BY DominatorReached, SearchesAreReach DEF GraphOK, Reach
<1>2. PICK d \in Nodes : d = imdom[n]
  BY <1>1
<1>3. PICK srcs : srcs = Sources(d, Len(code[d]) + 1, l)
  OBVIOUS
<1>4. PICK end : end = AtEnd(d, l)
  OBVIOUS
<1>5. srcs = IF Unset \in end THEN {} ELSE end
  BY <1>3, <1>4 DEF Sources, AtEnd
<1>6. end # {}
  <2>1. Arriving(d, l) # {}
    BY <1>1, <1>2, SomeValueArrives
  <2> QED BY <1>4, <2>1, ValuesAtEnds
<1>7. phi_loc_sources(n, l, srcs) =
        IF \/ d \in Seen(n, l) /\ srcs = {}
           \/ \E m \in setters : l \notin code[m][last(m)].outs
        THEN {}
        ELSE {<<m, last(m)>> : m \in setters} \cup (IF d \in Seen(n, l) THEN srcs ELSE {})
  <2>1. PICK s : s = Closure(parents(n), [m \in Nodes |-> IF m = imdom[n] \/ Touches(m, l) # {}
                                                          THEN {} ELSE parents(m)])
    OBVIOUS
  <2>2. s = Seen(n, l)
    BY <1>1, <2>1, SearchesAreReach
  <2> QED BY <1>2, <2>1, <2>2 DEF phi_loc_sources
<1>8. setters = (Seen(n, l) \cap Touched(l)) \ {d} /\ setters \subseteq Nodes
  BY <1>2 DEF Touched, Seen, Searched, Reach
<1>9. Arriving(n, l) = {LastValue(m, l) : m \in setters}
                         \cup (IF d \in Seen(n, l) THEN end ELSE {})
  BY <1>1, <1>2, <1>4, <1>8, ArrivingFromDominator
<1>10. \A m \in setters : LastValue(m, l) = IF l \in code[m][last(m)].outs THEN <<m, last(m)>> ELSE Unset
  BY DEF LastValue
<1>11. \A m \in setters : <<m, last(m)>> # Unset
  BY <1>8, UnsetIsNoReference, NAssumption DEF Nodes
<1>12. Sources(n, 1, l) = IF Unset \in Arriving(n, l) THEN {} ELSE Arriving(n, l)
  BY <1>1, ValuesAtEnds DEF Sources
<1> HIDE DEF setters, last
<1>13. phi_loc_sources(n, l, srcs) = Sources(n, 1, l)
  <2>1. CASE d \in Seen(n, l) /\ Unset \in end
    BY <1>5, <1>7, <1>9, <1>12, <2>1
  <2>2. CASE \E m \in setters : l \notin code[m][last(m)].outs
    BY <1>7, <1>9, <1>10, <1>12, <2>2
  <2>3. CASE /\ ~ (d \in Seen(n, l) /\ Unset \in end)
             /\ ~ \E m \in setters : l \notin code[m][last(m)].outs
    <3>1. {LastValue(m, l) : m \in setters} = {<<m, last(m)>> : m \in setters}
      BY <1>10, <2>3
    <3>2. Unset \notin Arriving(n, l)
      BY <1>9, <1>11, <2>3, <3>1
    <3>3. ~ (d \in Seen(n, l) /\ srcs = {})
      BY <1>5, <1>6, <2>3
    <3>4. d \in Seen(n, l) => srcs = end
      BY <1>5, <2>3
    <3> QED BY <1>7, <1>9, <1>12, <2>3, <3>1, <3>2, <3>3, <3>4
  <2> QED BY <2>1, <2>2, <2>3
<1> QED BY <1>2, <1>3, <1>13

\* A location that nothing between the immediate dominator and n touches
\* arrives as the dominator leaves it.
LEMMA UntouchedSources ==
  ASSUME GraphOK, CodeOK, NEW n \in Reached, n # Entry,
         NEW l \in Locs \ locs_clobbered_until_dominator(n)
  PROVE  Sources(imdom[n], Len(code[imdom[n]]) + 1, l) = Sources(n, 1, l)
<1>1. n \in Nodes \ {Entry} /\ imdom[n] \in Nodes /\ Up \in Edges
  BY SearchesAreReach DEF GraphOK, Reach
<1>2. PICK d \in Nodes : d = imdom[n]
  BY <1>1
<1>3. PICK all : all = Searched(n, d, {}, Up)
  OBVIOUS
<1>4. Seen(n, l) \subseteq all
  <2>1. \A m \in Nodes : Stop(Up, Touched(l) \cup {d})[m] \subseteq Stop(Up, {} \cup {d})[m]
    BY DEF Stop
  <2>2. Up[n] \in SUBSET Nodes /\ Up[n] \subseteq Up[n]
    BY <1>1, EdgesTypes
  <2>3. Stop(Up, Touched(l) \cup {d}) \in Edges /\ Stop(Up, {} \cup {d}) \in Edges
    BY <1>1, EdgesTypes
  <2>4. Reach(Up[n], Stop(Up, Touched(l) \cup {d})) \subseteq Reach(Up[n], Stop(Up, {} \cup {d}))
    BY <2>1, <2>2, <2>3, ReachMonotone
  <2> QED BY <1>2, <1>3, <2>4 DEF Seen, Searched
<1>5. \A m \in all \ {d} : Touches(m, l) = {}
  <2>1. PICK s : s = Closure(parents(n), [m \in Nodes |-> IF m = imdom[n] THEN {} ELSE parents(m)])
    OBVIOUS
  <2>2. s = all
    BY <1>1, <1>2, <1>3, <2>1, SearchesAreReach
  <2>3. locs_clobbered_until_dominator(n) = {k \in Locs : \E m \in all \ {d} : Touches(m, k) # {}}
    BY <1>2, <2>1, <2>2 DEF locs_clobbered_until_dominator
  <2> QED BY <2>3
<1>6. (Seen(n, l) \cap Touched(l)) \ {d} = {}
  BY <1>4, <1>5 DEF Touched
<1>7. Arriving(n, l) = {LastValue(m, l) : m \in (Seen(n, l) \cap Touched(l)) \ {d}}
                         \cup (IF d \in Seen(n, l) THEN AtEnd(d, l) ELSE {})
  BY <1>1, <1>2, ArrivingFromDominator
<1>8. Arriving(n, l) = IF d \in Seen(n, l) THEN AtEnd(d, l) ELSE {}
  BY <1>6, <1>7
<1>9. Arriving(n, l) = AtEnd(d, l)
  BY <1>8, SomeValueArrives
<1>10. ValuesAt(n, 1, l) = Arriving(n, l)
  BY <1>1, ValuesAtEnds
<1> QED BY <1>2, <1>9, <1>10 DEF Sources, AtEnd

\* The sources process_node hands to a node it dominates are those of the paths.
LEMMA ChildSourcesExact ==
  ASSUME GraphOK, CodeOK, NEW n \in Reached, n # Entry, NEW loc_srcs,
         \A l \in Locs : loc_srcs[l] = Sources(imdom[n], Len(code[imdom[n]]) + 1, l)
  PROVE  \A l \in Locs : ChildSources(n, loc_srcs)[l] = Sources(n, 1, l)
<1> TAKE l \in Locs
<1>1. loc_srcs[l] = Sources(imdom[n], Len(code[imdom[n]]) + 1, l)
  OBVIOUS
<1>2. CASE l \in locs_clobbered_until_dominator(n)
  <2>1. ChildSources(n, loc_srcs)[l] = phi_loc_sources(n, l, loc_srcs[l])
    BY <1>2 DEF ChildSources
  <2> QED BY <1>1, <2>1, PhiSources
<1>3. CASE l \notin locs_clobbered_until_dominator(n)
  <2>1. ChildSources(n, loc_srcs)[l] = loc_srcs[l]
    BY <1>3 DEF ChildSources
  <2>2. l \in Locs \ locs_clobbered_until_dominator(n)
    BY <1>3
  <2>3. Sources(imdom[n], Len(code[imdom[n]]) + 1, l) = Sources(n, 1, l)
    BY <2>2, UntouchedSources
  <2> QED BY <1>1, <2>1, <2>3
<1> QED BY <1>2, <1>3

\* What one instruction does to the sources of a location.
LEMMA InstructionSources ==
  ASSUME CodeOK, NEW n \in Nodes, NEW k \in DOMAIN code[n], NEW l
  PROVE  Sources(n, k + 1, l) = CASE l \in code[n][k].outs -> {<<n, k>>}
                                  [] l \in code[n][k].clobs \ code[n][k].outs -> {}
                                  [] OTHER -> Sources(n, k, l)
<1>1. k \in Nat /\ \A j \in Touches(n, l) : j \in Nat
  BY DEF CodeOK, Touches
<1>2. PICK upto : upto = {j \in Touches(n, l) : j < k + 1}
  OBVIOUS
<1>3. ValuesAt(n, k + 1, l) =
        IF upto = {} THEN Arriving(n, l)
        ELSE IF l \in code[n][Max(upto)].outs THEN {<<n, Max(upto)>>} ELSE {Unset}
  BY <1>2 DEF ValuesAt
<1>4. CASE k \in Touches(n, l)
  <2>1. upto # {} /\ upto \subseteq Touches(n, l) /\ k \in upto /\ \A j \in upto : j <= k
    BY <1>1, <1>2, <1>4
  <2>2. Max(upto) = k
    <3>1. Max(upto) \in upto /\ Max(upto) \in Nat /\ Max(upto) >= k
      BY <2>1, LastTouch
    <3> QED BY <1>1, <2>1, <3>1
  <2>3. ValuesAt(n, k + 1, l) = IF l \in code[n][k].outs THEN {<<n, k>>} ELSE {Unset}
    BY <1>3, <2>1, <2>2
  <2>4. l \in code[n][k].outs \/ l \in code[n][k].clobs
    BY <1>4 DEF Touches
  <2>5. <<n, k>> # Unset
    BY UnsetIsNoReference, NAssumption DEF Nodes
  <2>6. Sources(n, k + 1, l) = IF l \in code[n][k].outs THEN {<<n, k>>} ELSE {}
    BY <2>3, <2>5 DEF Sources
  <2> QED BY <2>4, <2>6
<1>5. CASE k \notin Touches(n, l)
  <2>1. upto = {j \in Touches(n, l) : j < k}
    BY <1>1, <1>2, <1>5
  <2>2. ValuesAt(n, k + 1, l) = ValuesAt(n, k, l)
    BY <1>3, <2>1 DEF ValuesAt
  <2>3. l \notin code[n][k].outs /\ l \notin code[n][k].clobs
    BY <1>5 DEF Touches
  <2> QED BY <2>2, <2>3 DEF Sources
<1> QED BY <1>4, <1>5

-----------------------------------------------------------------------------
(* The inductive invariant.                                                *)

\* References, and calls of process_node.
Refs == Int \X Nat

CallSet == [node : Nodes, at : Nat \ {0}, child : Nat \ {0}, loc_srcs : [Locs -> SUBSET Refs]]

\* The type invariant.
WalkTypeOK ==
  /\ calls \in Seq(CallSet)
  /\ pc \in {"walk", "done"}
  /\ processed \in Seq(Nodes)

\* A call that is made for a node that is reached knows the sources of every
\* location at the instruction it has come to.
SourcesOK ==
  \A j \in DOMAIN calls : calls[j].node \in Reached =>
    \A l \in Locs : calls[j].loc_srcs[l] = Sources(calls[j].node, calls[j].at, l)

\* Nothing but the values that arrive is recorded.
InputsSound ==
  /\ \A n \in Nodes : \A k \in DOMAIN code[n] : \A l \in code[n][k].ins :
       InputsOf(<<n, k>>, l) \subseteq Sources(n, k, l)
  /\ Terminal \in Reached =>
       \A l \in ReturnRegs : InputsOf(EpilogueRef(l), l) \subseteq Sources(Terminal, 1, l)

\* Instruction k of n is recorded, and so is what it misses.
Recorded(n, k) ==
  \A l \in code[n][k].ins :
    /\ Sources(n, k, l) \subseteq InputsOf(<<n, k>>, l)
    /\ l \in Regs /\ Sources(n, k, l) = {} /\ ~(code[n][k].call /\ l \in ArgRegs)
         => l \in missing_regs

\* The dependencies of the TerminalNode are recorded.
EpilogueRecorded ==
  Terminal \in Reached =>
    \A l \in ReturnRegs : Sources(Terminal, 1, l) \subseteq InputsOf(EpilogueRef(l), l)

\* Instructions of n before `at` and nodes it dominates before `child` are done.
DoneUpTo(n, at, child) ==
  /\ \A k \in DOMAIN code[n] : k < at => Recorded(n, k)
  /\ n = Terminal /\ at > 1 => EpilogueRecorded
  /\ \A j \in DOMAIN immediately_dominates(n) :
       j < child => immediately_dominates(n)[j] \in ToSet(processed)

\* Nothing of n is left to do.
Finished(n) ==
  /\ \A k \in DOMAIN code[n] : Recorded(n, k)
  /\ n = Terminal => EpilogueRecorded
  /\ \A m \in Nodes : imdom[m] = n => m \in ToSet(processed)

\* Every call has done what it has passed, and a node whose call has returned
\* is finished.
ProgressOK ==
  /\ Entry \in ToSet(processed)
  /\ \A j \in DOMAIN calls : DoneUpTo(calls[j].node, calls[j].at, calls[j].child)
  /\ \A n \in ToSet(processed) : Finished(n) \/ \E j \in DOMAIN calls : calls[j].node = n
  /\ pc = "done" => calls = <<>>

\* The inductive invariant.
WalkInv ==
  /\ GraphOK
  /\ CodeOK
  /\ WalkTypeOK
  /\ SourcesOK
  /\ InputsSound
  /\ ProgressOK

-----------------------------------------------------------------------------
(* Lists, and what a step leaves alone.                                    *)

\* The elements of S with k - 1 smaller ones exist for every k: counting the
\* smaller ones is injective, and there are as many counts as elements.
LEMMA AscendingHasAll ==
  ASSUME NEW S \in SUBSET Nodes
  PROVE  /\ Ascending(S) \in Seq(S) /\ DOMAIN Ascending(S) = 1 .. Len(Ascending(S))
         /\ ToSet(Ascending(S)) = S
<1> DEFINE below(b) == {c \in S : c < b}
           rank(b) == Cardinality(below(b))
           count == Cardinality(S)
<1>0. S \subseteq Int
  BY NAssumption DEF Nodes
<1>1. IsFiniteSet(S) /\ count \in Nat
  <2>1. IsFiniteSet(S)
    BY NodesFinite, FS_Subset
  <2> QED BY <2>1, FS_CardinalityType
<1>2. \A b \in S : IsFiniteSet(below(b)) /\ rank(b) \in Nat
  <2> SUFFICES ASSUME NEW b \in S PROVE IsFiniteSet(below(b)) /\ rank(b) \in Nat
    OBVIOUS
  <2>1. below(b) \in SUBSET S
    OBVIOUS
  <2> HIDE DEF below
  <2> QED BY <1>1, <2>1, FS_Subset, FS_CardinalityType
<1>3. \A b, c \in S : b < c => rank(b) < rank(c)
  <2> SUFFICES ASSUME NEW b \in S, NEW c \in S, b < c PROVE rank(b) < rank(c)
    OBVIOUS
  <2>1. below(b) \in SUBSET below(c) /\ b \in below(c) /\ b \notin below(b)
    <3>1. b \in Int /\ c \in Int
      BY <1>0
    <3>2. b \in below(c) /\ b \notin below(b)
      BY <3>1
    <3>3. ASSUME NEW d \in S, d < b PROVE d < c
      BY <1>0, <3>1, <3>3
    <3> QED BY <3>2, <3>3
  <2>2. IsFiniteSet(below(c)) /\ IsFiniteSet(below(b)) /\ rank(b) \in Nat /\ rank(c) \in Nat
    BY <1>2
  <2> HIDE DEF below
  <2>3. Cardinality(below(b)) <= Cardinality(below(c)) /\ Cardinality(below(b)) # Cardinality(below(c))
    BY <2>1, <2>2, FS_Subset
  <2> QED BY <2>2, <2>3
<1>4. \A b \in S : rank(b) < count
  <2> SUFFICES ASSUME NEW b \in S PROVE rank(b) < count
    OBVIOUS
  <2>1. below(b) \in SUBSET S /\ b \notin below(b)
    BY <1>0
  <2>2. rank(b) \in Nat
    BY <1>2
  <2> HIDE DEF below
  <2>3. Cardinality(below(b)) <= count /\ Cardinality(below(b)) # count
    BY <1>1, <2>1, FS_Subset
  <2> QED BY <1>1, <2>2, <2>3
<1> HIDE DEF below
<1>5. \A b, c \in S : rank(b) = rank(c) => b = c
  BY <1>0, <1>2, <1>3
<1>6. \A k \in 1 .. count : \E b \in S : rank(b) = k - 1
  <2> DEFINE f == [b \in S |-> rank(b) + 1]
  <2>1. f \in [S -> 1 .. count]
    BY <1>1, <1>2, <1>4
  <2>2. IsInjective(f)
    BY <1>2, <1>5 DEF IsInjective
  <2>3. f \in Injection(S, 1 .. count)
    BY <2>1, <2>2 DEF Injection
  <2>4. IsFiniteSet(1 .. count) /\ Cardinality(1 .. count) = count
    BY <1>1, FS_Interval
  <2> HIDE DEF f
  <2>5. f \in Surjection(S, 1 .. count)
    BY <2>3, <2>4, FS_Injection
  <2>6. \A k \in 1 .. count : \E b \in S : f[b] = k
    BY <2>5 DEF Surjection
  <2> QED BY <2>6, <1>1, <1>2 DEF f
<1>7. Ascending(S) = [k \in 1 .. count |-> CHOOSE b \in S : rank(b) = k - 1]
  BY DEF Ascending, below
<1>8. \A k \in 1 .. count : Ascending(S)[k] \in S /\ rank(Ascending(S)[k]) = k - 1
  BY <1>6, <1>7
<1>9. DOMAIN Ascending(S) = 1 .. count
  BY <1>7
<1>10. Ascending(S) \in Seq(S)
  BY <1>1, <1>7, <1>8
<1> HIDE DEF count
<1>11. \A b \in S : \E k \in 1 .. count : Ascending(S)[k] = b
  <2> TAKE b \in S
  <2>1. rank(b) + 1 \in 1 .. count
    BY <1>1, <1>2, <1>4
  <2>2. rank(Ascending(S)[rank(b) + 1]) = rank(b) /\ Ascending(S)[rank(b) + 1] \in S
    BY <1>2, <1>8, <2>1
  <2> QED BY <2>1, <2>2, <1>5
<1>12. ToSet(Ascending(S)) = S
  BY <1>8, <1>9, <1>11 DEF ToSet
<1> QED BY <1>9, <1>10, <1>12

\* The children of process_node are the nodes n is the immediate dominator of.
LEMMA DominatedNodes ==
  ASSUME NEW n
  PROVE  /\ DOMAIN immediately_dominates(n) = 1 .. Len(immediately_dominates(n))
         /\ Len(immediately_dominates(n)) \in Nat
         /\ \A j \in DOMAIN immediately_dominates(n) :
              /\ immediately_dominates(n)[j] \in Nodes
              /\ imdom[immediately_dominates(n)[j]] = n
         /\ \A m \in Nodes : imdom[m] = n =>
              \E j \in DOMAIN immediately_dominates(n) : immediately_dominates(n)[j] = m
<1> DEFINE S == {m \in Nodes : imdom[m] = n}
<1>1. S \in SUBSET Nodes
  OBVIOUS
<1>2. PICK s : s = immediately_dominates(n)
  OBVIOUS
<1> HIDE DEF S
<1>3. s \in Seq(S) /\ DOMAIN s = 1 .. Len(s) /\ ToSet(s) = S
  BY <1>1, <1>2, AscendingHasAll DEF immediately_dominates, S
<1>4. Len(s) \in Nat /\ \A j \in DOMAIN s : s[j] \in S
  BY <1>3
<1>5. \A m \in S : \E j \in DOMAIN s : s[j] = m
  BY <1>3 DEF ToSet
<1> QED BY <1>2, <1>3, <1>4, <1>5 DEF S

\* Appending keeps what was there and adds one element at the end.
LEMMA AppendIndex ==
  ASSUME NEW T, NEW s \in Seq(T), NEW x \in T
  PROVE  /\ Append(s, x) \in Seq(T) /\ Len(s) \in Nat /\ Len(Append(s, x)) = Len(s) + 1
         /\ DOMAIN Append(s, x) = 1 .. Len(s) + 1
         /\ Append(s, x)[Len(s) + 1] = x
         /\ \A j \in 1 .. Len(s) : Append(s, x)[j] = s[j]
  OBVIOUS

\* The top of a stack and what is below it.
LEMMA StackTop ==
  ASSUME NEW T, NEW s \in Seq(T), s # <<>>
  PROVE  /\ Len(s) \in Nat \ {0} /\ DOMAIN s = 1 .. Len(s)
         /\ Last(s) = s[Len(s)] /\ Last(s) \in T
         /\ Front(s) \in Seq(T) /\ Len(Front(s)) = Len(s) - 1
         /\ DOMAIN Front(s) = 1 .. Len(s) - 1
         /\ \A j \in 1 .. Len(s) - 1 : Front(s)[j] = s[j]
<1>1. /\ Len(s) \in Nat \ {0}
      /\ DOMAIN s = 1 .. Len(s)
      /\ \A k \in 1 .. Len(s) : s[k] \in T
  OBVIOUS
<1>2. /\ Front(s) \in Seq(T)
      /\ Len(Front(s)) = Len(s) - 1
      /\ \A k \in 1 .. Len(s) - 1 : Front(s)[k] = s[k]
  BY <1>1 DEF Front
<1>3. DOMAIN Front(s) = 1 .. Len(s) - 1
  BY <1>2
<1>4. Last(s) = s[Len(s)] /\ Last(s) \in T
  BY <1>1 DEF Last
<1> QED BY <1>1, <1>2, <1>3, <1>4

\* A stack with another top.
LEMMA TopSet ==
  ASSUME NEW T, NEW s \in Seq(T), s # <<>>, NEW c \in T
  PROVE  /\ Append(Front(s), c) \in Seq(T) /\ Len(Append(Front(s), c)) = Len(s)
         /\ DOMAIN Append(Front(s), c) = 1 .. Len(s)
         /\ Append(Front(s), c)[Len(s)] = c
         /\ \A j \in 1 .. Len(s) - 1 : Append(Front(s), c)[j] = s[j]
<1>1. /\ Len(s) \in Nat \ {0} /\ Front(s) \in Seq(T) /\ Len(Front(s)) = Len(s) - 1
      /\ \A j \in 1 .. Len(s) - 1 : Front(s)[j] = s[j]
  BY StackTop
<1>2. PICK f \in Seq(T) : /\ f = Front(s) /\ Len(f) = Len(s) - 1
                         /\ \A j \in 1 .. Len(s) - 1 : f[j] = s[j]
  BY <1>1, Zenon
<1>3. PICK g \in Seq(T) : g = Append(f, c)
  BY AppendIndex
<1>4. /\ Len(g) = Len(f) + 1 /\ DOMAIN g = 1 .. Len(f) + 1 /\ g[Len(f) + 1] = c
      /\ \A j \in 1 .. Len(f) : g[j] = f[j]
  BY <1>3, AppendIndex
<1>5. Len(f) + 1 = Len(s)
  BY <1>1, <1>2
<1>6. /\ Len(g) = Len(s) /\ DOMAIN g = 1 .. Len(s) /\ g[Len(s)] = c
      /\ \A j \in 1 .. Len(s) - 1 : g[j] = s[j]
  BY <1>1, <1>2, <1>4, <1>5
<1> QED BY <1>2, <1>3, <1>6

\* One more node is processed.
LEMMA AppendSet ==
  ASSUME NEW T, NEW s \in Seq(T), NEW x \in T
  PROVE  Append(s, x) \in Seq(T) /\ ToSet(Append(s, x)) = ToSet(s) \cup {x}
<1>1. /\ DOMAIN Append(s, x) = 1 .. Len(s) + 1
      /\ \A k \in 1 .. Len(s) : Append(s, x)[k] = s[k]
      /\ Append(s, x)[Len(s) + 1] = x
      /\ DOMAIN s = 1 .. Len(s)
      /\ Len(s) \in Nat
  OBVIOUS
<1> QED BY <1>1 DEF ToSet

\* The walk leaves the graph and the code alone, and all that is said of paths.
LEMMA GraphUnchanged ==
  ASSUME UNCHANGED graphVars
  PROVE  /\ GraphOK => GraphOK'
         /\ CodeOK => CodeOK'
         /\ Reached' = Reached
         /\ code' = code /\ imdom' = imdom
         /\ \A n, k, l : Sources(n, k, l)' = Sources(n, k, l)
         /\ \A n : immediately_dominates(n)' = immediately_dominates(n)
<1>1. succ' = succ /\ code' = code /\ imdom' = imdom
  BY DEF graphVars
<1>2. Reached' = Reached
  BY <1>1 DEF Reached
<1>3. \A d, n : Dominates(d, n)' <=> Dominates(d, n)
  BY <1>1 DEF Dominates
<1>4. GraphOK => GraphOK'
  BY <1>1, <1>2, <1>3 DEF GraphOK
<1>5. CodeOK => CodeOK'
  BY <1>1 DEF CodeOK
<1>6. \A m, l : Touches(m, l)' = Touches(m, l)
  BY <1>1 DEF Touches
<1>7. ASSUME NEW from, NEW l PROVE Flow(from, l)' = Flow(from, l)
  <2>1. PICK f : f = [m \in Nodes |-> IF Touches(m, l) = {} THEN succ[m] ELSE {}]
    OBVIOUS
  <2>2. f = [m \in Nodes |-> IF Touches(m, l) = {} THEN succ[m] ELSE {}]'
    BY <1>1, <1>6, <2>1
  <2> QED BY <2>1, <2>2 DEF Flow
<1>8. ASSUME NEW n, NEW l PROVE Arriving(n, l)' = Arriving(n, l)
  <2>1. {m \in Nodes : Touches(m, l) # {} /\ n \in Flow(succ[m], l)}'
          = {m \in Nodes : Touches(m, l) # {} /\ n \in Flow(succ[m], l)}
    BY <1>1, <1>6, <1>7
  <2> QED BY <1>1, <1>6, <1>7, <2>1 DEF Arriving
<1>9. \A n, k, l : ValuesAt(n, k, l)' = ValuesAt(n, k, l)
  BY <1>1, <1>6, <1>8 DEF ValuesAt
<1>10. \A n, k, l : Sources(n, k, l)' = Sources(n, k, l)
  BY <1>9 DEF Sources
<1>11. \A n : immediately_dominates(n)' = immediately_dominates(n)
  BY <1>1 DEF immediately_dominates
<1> QED BY <1>1, <1>2, <1>4, <1>5, <1>10, <1>11

\* add_instruction_use adds the sources the call on top knows of what is read.
LEMMA AddUsesInputs ==
  ASSUME NEW reads, AddUses(reads)
  PROVE  \A use, l, src : src \in InputsOf(use, l)' <=>
           \/ src \in InputsOf(use, l)
           \/ <<use, l>> \in reads /\ src \in top.loc_srcs[l]
<1> DEFINE edges == UNION {{<<r, src>> : src \in top.loc_srcs[r[2]]} : r \in reads}
<1> TAKE use, l, src
<1>1. instr_inputs' = instr_inputs \cup edges
  BY DEF AddUses
<1>2. (\E e \in edges : e[1] = <<use, l>> /\ e[2] = src)
        <=> <<use, l>> \in reads /\ src \in top.loc_srcs[l]
  <2>1. ASSUME NEW e \in edges, e[1] = <<use, l>>, e[2] = src
        PROVE  <<use, l>> \in reads /\ src \in top.loc_srcs[l]
    <3>1. PICK r \in reads : \E s \in top.loc_srcs[r[2]] : e = <<r, s>>
      OBVIOUS
    <3>2. PICK s \in top.loc_srcs[r[2]] : e = <<r, s>>
      BY <3>1
    <3>3. e[1] = r /\ e[2] = s
      BY <3>2
    <3>4. r = <<use, l>> /\ s = src /\ <<use, l>>[2] = l
      BY <2>1, <3>3
    <3> QED BY <3>4
  <2>2. ASSUME <<use, l>> \in reads, src \in top.loc_srcs[l]
        PROVE  \E e \in edges : e[1] = <<use, l>> /\ e[2] = src
    <3>1. PICK r \in reads : r = <<use, l>> /\ r[2] = l
      BY <2>2
    <3>2. src \in top.loc_srcs[r[2]]
      BY <2>2, <3>1
    <3>3. <<r, src>> \in edges
      BY <3>2
    <3>4. <<r, src>>[1] = r /\ <<r, src>>[2] = src
      OBVIOUS
    <3> HIDE DEF edges
    <3> QED BY <3>1, <3>3, <3>4
  <2> QED BY <2>1, <2>2
<1> HIDE DEF edges
<1>3. src \in InputsOf(use, l) <=> \E i \in instr_inputs : i[1] = <<use, l>> /\ i[2] = src
  BY DEF InputsOf
<1>4. src \in InputsOf(use, l)' <=> \E i \in instr_inputs' : i[1] = <<use, l>> /\ i[2] = src
  BY DEF InputsOf
<1> QED BY <1>1, <1>2, <1>3, <1>4

\* What is done stays done.
LEMMA ProgressGrows ==
  ASSUME UNCHANGED graphVars,
         \A use, l, src : src \in InputsOf(use, l) => src \in InputsOf(use, l)',
         missing_regs \subseteq missing_regs',
         ToSet(processed) \subseteq ToSet(processed)'
  PROVE  /\ \A n, k : Recorded(n, k) => Recorded(n, k)'
         /\ EpilogueRecorded => EpilogueRecorded'
         /\ \A n, at, child : DoneUpTo(n, at, child) => DoneUpTo(n, at, child)'
         /\ \A n : Finished(n) => Finished(n)'
<1>1. /\ Reached' = Reached /\ code' = code /\ imdom' = imdom
      /\ \A n, k, l : Sources(n, k, l)' = Sources(n, k, l)
      /\ \A n : immediately_dominates(n)' = immediately_dominates(n)
  BY GraphUnchanged
<1>2. ASSUME NEW n, NEW k, Recorded(n, k) PROVE Recorded(n, k)'
  BY <1>1, <1>2 DEF Recorded
<1>3. EpilogueRecorded => EpilogueRecorded'
  BY <1>1 DEF EpilogueRecorded
<1>4. ASSUME NEW n, NEW at, NEW child, DoneUpTo(n, at, child) PROVE DoneUpTo(n, at, child)'
  BY <1>1, <1>2, <1>3, <1>4 DEF DoneUpTo
<1>5. ASSUME NEW n, Finished(n) PROVE Finished(n)'
  BY <1>1, <1>2, <1>3, <1>5 DEF Finished
<1> QED BY <1>2, <1>3, <1>4, <1>5

\* Nothing a call has done depends on the inputs if they stay, too.
LEMMA InputsUnchanged ==
  ASSUME UNCHANGED <<graphVars, instr_inputs>>
  PROVE  /\ \A use, l : InputsOf(use, l)' = InputsOf(use, l)
         /\ InputsSound => InputsSound'
<1>1. \A use, l : InputsOf(use, l)' = InputsOf(use, l)
  BY DEF InputsOf
<1>2. /\ Reached' = Reached /\ code' = code
      /\ \A n, k, l : Sources(n, k, l)' = Sources(n, k, l)
  BY GraphUnchanged
<1> QED BY <1>1, <1>2 DEF InputsSound

-----------------------------------------------------------------------------
(* The steps of the walk.                                                  *)

\* The call on top.
LEMMA TopCall ==
  ASSUME WalkInv, Busy
  PROVE  /\ top \in CallSet /\ Len(calls) \in Nat \ {0} /\ DOMAIN calls = 1 .. Len(calls)
         /\ top = calls[Len(calls)]
         /\ top.node \in Nodes /\ top.at \in Nat \ {0} /\ top.child \in Nat \ {0}
         /\ top.loc_srcs \in [Locs -> SUBSET Refs]
         /\ top.node \in Reached =>
              \A l \in Locs : top.loc_srcs[l] = Sources(top.node, top.at, l)
         /\ DoneUpTo(top.node, top.at, top.child)
<1>1. calls \in Seq(CallSet) /\ calls # <<>>
  BY DEF WalkInv, WalkTypeOK, Busy
<1>2. /\ Len(calls) \in Nat \ {0} /\ DOMAIN calls = 1 .. Len(calls)
      /\ calls[Len(calls)] \in CallSet
  BY <1>1
<1>3. top = calls[Len(calls)]
  BY <1>1 DEF top, Last
<1>4. Len(calls) \in DOMAIN calls
  BY <1>2
<1>5. PICK t \in CallSet : t = top
  BY <1>2, <1>3
<1>6. /\ t.node \in Nodes /\ t.at \in Nat \ {0} /\ t.child \in Nat \ {0}
      /\ t.loc_srcs \in [Locs -> SUBSET Refs]
  BY DEF CallSet
<1>7. /\ t.node \in Reached => \A l \in Locs : t.loc_srcs[l] = Sources(t.node, t.at, l)
      /\ DoneUpTo(t.node, t.at, t.child)
  BY <1>3, <1>4, <1>5 DEF WalkInv, SourcesOK, ProgressOK
<1> QED BY <1>2, <1>3, <1>5, <1>6, <1>7

\* Calls in which the top one alone is another, c, keep what is said of every
\* call if c has it.
LEMMA TopReplaced ==
  ASSUME WalkInv, Busy, UNCHANGED <<graphVars, pc, processed>>,
         \A use, l, src : src \in InputsOf(use, l) => src \in InputsOf(use, l)',
         missing_regs \subseteq missing_regs',
         NEW c \in CallSet, calls' = Append(Front(calls), c), c.node = top.node,
         c.node \in Reached => \A l \in Locs : c.loc_srcs[l] = Sources(c.node, c.at, l),
         DoneUpTo(c.node, c.at, c.child)'
  PROVE  WalkTypeOK' /\ SourcesOK' /\ ProgressOK'
<1>1. /\ Reached' = Reached
      /\ \A n, k, l : Sources(n, k, l)' = Sources(n, k, l)
  BY GraphUnchanged
<1>2. /\ Len(calls) \in Nat \ {0} /\ DOMAIN calls = 1 .. Len(calls)
      /\ top = calls[Len(calls)] /\ calls \in Seq(CallSet) /\ calls # <<>>
  BY TopCall DEF WalkInv, WalkTypeOK, Busy
<1>3. PICK stack : stack = calls'
  OBVIOUS
<1>4. /\ stack \in Seq(CallSet) /\ DOMAIN stack = 1 .. Len(calls)
      /\ stack[Len(calls)] = c
      /\ \A j \in 1 .. Len(calls) - 1 : stack[j] = calls[j]
  <2>1. stack = Append(Front(calls), c)
    BY <1>3
  <2>2. calls \in Seq(CallSet)
    BY <1>2
  <2>3. calls # <<>>
    BY <1>2
  <2>4. /\ Append(Front(calls), c) \in Seq(CallSet) /\ Len(Append(Front(calls), c)) = Len(calls)
        /\ DOMAIN Append(Front(calls), c) = 1 .. Len(calls)
        /\ Append(Front(calls), c)[Len(calls)] = c
        /\ \A j \in 1 .. Len(calls) - 1 : Append(Front(calls), c)[j] = calls[j]
    BY <2>2, <2>3, TopSet
  <2> QED BY <2>1, <2>4
<1>5. \A j \in DOMAIN stack : j = Len(calls) \/ (j \in 1 .. Len(calls) - 1 /\ j \in DOMAIN calls)
  BY <1>2, <1>4
<1>6. WalkTypeOK'
  <2>1. pc' = pc /\ processed' = processed
    OBVIOUS
  <2> QED BY <1>3, <1>4, <2>1 DEF WalkInv, WalkTypeOK
<1>7. \A j \in DOMAIN stack : stack[j].node \in Reached =>
        \A l \in Locs : stack[j].loc_srcs[l] = Sources(stack[j].node, stack[j].at, l)
  BY <1>4, <1>5 DEF WalkInv, SourcesOK
<1>8. SourcesOK'
  BY <1>1, <1>3, <1>7 DEF SourcesOK
<1>9. \A n, at, child : DoneUpTo(n, at, child) => DoneUpTo(n, at, child)'
  BY ProgressGrows
<1>10. \A j \in DOMAIN stack : DoneUpTo(stack[j].node, stack[j].at, stack[j].child)'
  <2> TAKE j \in DOMAIN stack
  <2>1. CASE j = Len(calls)
    BY <1>4, <2>1
  <2>2. CASE j \in 1 .. Len(calls) - 1 /\ j \in DOMAIN calls
    <3>1. PICK b : b = calls[j]
      OBVIOUS
    <3>2. DoneUpTo(b.node, b.at, b.child)
      BY <2>2, <3>1 DEF WalkInv, ProgressOK
    <3>3. DoneUpTo(b.node, b.at, b.child)'
      BY <1>9, <3>2
    <3> QED BY <1>4, <2>2, <3>1, <3>3
  <2> QED BY <1>5, <2>1, <2>2
<1>11. \A n : Finished(n) => Finished(n)'
  BY ProgressGrows
<1>12. \A n \in ToSet(processed) : Finished(n)' \/ \E j \in DOMAIN stack : stack[j].node = n
  <2> TAKE n \in ToSet(processed)
  <2>1. CASE Finished(n)
    BY <1>11, <2>1
  <2>2. CASE \E j \in DOMAIN calls : calls[j].node = n
    <3>1. PICK j \in DOMAIN calls : calls[j].node = n
      BY <2>2
    <3>2. j \in DOMAIN stack
      BY <1>2, <1>4
    <3>3. stack[j].node = n
      BY <1>2, <1>4, <1>5, <3>1, <3>2
    <3> QED BY <3>2, <3>3
  <2> QED BY <2>1, <2>2 DEF WalkInv, ProgressOK
<1>13. ProgressOK'
  <2>1. Entry \in ToSet(processed') /\ pc' # "done"
    BY DEF WalkInv, ProgressOK, Busy
  <2>2. processed' = processed
    OBVIOUS
  <2> QED BY <1>3, <1>10, <1>12, <2>1, <2>2 DEF ProgressOK
<1> QED BY <1>6, <1>8, <1>13

\* process_node at an instruction keeps the invariant.
LEMMA InstructionKeeps ==
  ASSUME WalkInv, ProcessInstruction
  PROVE  WalkInv'
<1>1. PICK n, k : n = top.node /\ k = top.at
  OBVIOUS
<1>2. PICK ir : ir = code[n][k]
  OBVIOUS
<1>3. Busy /\ k <= Len(code[n]) /\ UNCHANGED <<graphVars, pc, processed>>
  BY <1>1 DEF ProcessInstruction
<1>4. /\ n \in Nodes /\ k \in DOMAIN code[n] /\ n \in Reached
      /\ ir.ins \subseteq Locs
  <2>1. n \in Nodes /\ k \in Nat \ {0}
    BY <1>1, <1>3, TopCall
  <2>2. k \in DOMAIN code[n] /\ ir.ins \subseteq Locs
    BY <1>2, <1>3, <2>1 DEF WalkInv, CodeOK
  <2>3. code[Terminal] = <<>>
    BY DEF WalkInv, CodeOK
  <2>4. Len(code[Terminal]) = 0
    BY <2>3
  <2>5. n # Terminal
    BY <1>3, <2>1, <2>4
  <2> QED BY <2>1, <2>2, <2>5 DEF WalkInv, GraphOK
<1>5. \A l \in Locs : top.loc_srcs[l] = Sources(n, k, l)
  BY <1>1, <1>3, <1>4, TopCall
<1> DEFINE reads == {<<<<n, k>>, l>> : l \in ir.ins}
           new == [l \in Locs |-> CASE l \in ir.outs -> {<<n, k>>}
                                    [] l \in ir.clobs \ ir.outs -> {}
                                    [] OTHER -> top.loc_srcs[l]]
<1>6. AddUses(reads)
  BY <1>1, <1>2 DEF ProcessInstruction
<1>7. missing_regs' = missing_regs \cup
        {l \in ir.ins \cap Regs : top.loc_srcs[l] = {} /\ ~(ir.call /\ l \in ArgRegs)}
  BY <1>1, <1>2 DEF ProcessInstruction
<1>8. PICK c : c = [top EXCEPT !.at = @ + 1, !.loc_srcs = new]
  OBVIOUS
<1>9. calls' = Append(Front(calls), c)
  BY <1>1, <1>2, <1>8 DEF ProcessInstruction, SetTop
<1> HIDE DEF new
<1>10. /\ c \in CallSet
       /\ c.node = n /\ c.at = k + 1 /\ c.child = top.child /\ c.loc_srcs = new
  <2>1. PICK t \in CallSet : t = top
    BY <1>3, TopCall
  <2>2. new \in [Locs -> SUBSET Refs]
    <3>1. <<n, k>> \in Refs
      BY <1>1, <1>3, TopCall, NAssumption DEF Refs, Nodes
    <3>2. top.loc_srcs \in [Locs -> SUBSET Refs]
      BY <1>3, TopCall
    <3> QED BY <3>1, <3>2 DEF new
  <2>3. t.at \in Nat \ {0} /\ t.node = n /\ t.at = k
    BY <1>1, <2>1 DEF CallSet
  <2>4. c = [node |-> t.node, at |-> t.at + 1, child |-> t.child, loc_srcs |-> new]
    BY <1>8, <2>1 DEF CallSet
  <2> QED BY <2>1, <2>2, <2>3, <2>4 DEF CallSet
<1>11. \A l \in Locs : c.loc_srcs[l] = Sources(c.node, c.at, l)
  <2> TAKE l \in Locs
  <2>1. c.loc_srcs[l] = CASE l \in ir.outs -> {<<n, k>>}
                          [] l \in ir.clobs \ ir.outs -> {}
                          [] OTHER -> Sources(n, k, l)
    BY <1>5, <1>10 DEF new
  <2>2. Sources(n, k + 1, l) = CASE l \in ir.outs -> {<<n, k>>}
                                 [] l \in ir.clobs \ ir.outs -> {}
                                 [] OTHER -> Sources(n, k, l)
    BY <1>2, <1>4, InstructionSources DEF WalkInv
  <2> QED BY <1>10, <2>1, <2>2
<1>12. \A use, l, src : src \in InputsOf(use, l)' <=>
         src \in InputsOf(use, l) \/ (<<use, l>> \in reads /\ src \in top.loc_srcs[l])
  BY <1>6, AddUsesInputs
<1>13. \A l \in ir.ins : <<<<n, k>>, l>> \in reads
  OBVIOUS
<1>14. \A use, l : <<use, l>> \in reads => use = <<n, k>> /\ l \in ir.ins
  OBVIOUS
<1> HIDE DEF reads
<1>15. UNCHANGED graphVars
  BY <1>3
<1>16. /\ Reached' = Reached /\ code' = code
       /\ \A m, j, l : Sources(m, j, l)' = Sources(m, j, l)
  BY <1>15, GraphUnchanged
<1>17. InputsSound'
  <2>1. ASSUME NEW m \in Nodes, NEW j \in DOMAIN code[m], NEW l \in code[m][j].ins,
               NEW src \in InputsOf(<<m, j>>, l)'
        PROVE  src \in Sources(m, j, l)
    <3>1. CASE src \in InputsOf(<<m, j>>, l)
      BY <3>1 DEF WalkInv, InputsSound
    <3>2. CASE <<<<m, j>>, l>> \in reads /\ src \in top.loc_srcs[l]
      <4>1. <<m, j>> = <<n, k>> /\ l \in ir.ins
        BY <1>14, <3>2
      <4>2. m = n /\ j = k /\ l \in Locs
        BY <1>4, <4>1
      <4> QED BY <1>5, <3>2, <4>2
    <3> QED BY <1>12, <2>1, <3>1, <3>2
  <2>2. ASSUME NEW l \in ReturnRegs PROVE InputsOf(EpilogueRef(l), l)' \subseteq InputsOf(EpilogueRef(l), l)
    <3>1. EpilogueRef(l) # <<n, k>>
      BY <1>4, NAssumption DEF EpilogueRef, Nodes
    <3> QED BY <1>12, <1>14, <3>1
  <2>3. \A m \in Nodes : \A j \in DOMAIN code[m] : \A l \in code[m][j].ins :
          InputsOf(<<m, j>>, l)' \subseteq Sources(m, j, l)
    BY <2>1
  <2>4. Terminal \in Reached =>
          \A l \in ReturnRegs : InputsOf(EpilogueRef(l), l)' \subseteq Sources(Terminal, 1, l)
    BY <2>2 DEF WalkInv, InputsSound
  <2> QED BY <1>16, <2>3, <2>4 DEF InputsSound
<1>18. Recorded(n, k)'
  <2>1. ASSUME NEW l \in ir.ins
        PROVE  /\ Sources(n, k, l) \subseteq InputsOf(<<n, k>>, l)'
               /\ l \in Regs /\ Sources(n, k, l) = {} /\ ~(ir.call /\ l \in ArgRegs)
                    => l \in missing_regs'
    <3>1. top.loc_srcs[l] = Sources(n, k, l)
      BY <1>4, <1>5
    <3> QED BY <1>7, <1>12, <1>13, <3>1
  <2> QED BY <1>2, <1>16, <2>1 DEF Recorded
<1>19. DoneUpTo(c.node, c.at, c.child)'
  <2>1. \A use, l, src : src \in InputsOf(use, l) => src \in InputsOf(use, l)'
    BY <1>12
  <2>2. missing_regs \subseteq missing_regs' /\ ToSet(processed) \subseteq ToSet(processed)'
    BY <1>3, <1>7
  <2>3. DoneUpTo(n, k, top.child)
    BY <1>1, <1>3, TopCall
  <2>4. PICK ch : ch = top.child
    OBVIOUS
  <2>5. DoneUpTo(n, k, ch)'
    BY <1>15, <2>1, <2>2, <2>3, <2>4, ProgressGrows
  <2>6. \A j \in DOMAIN code[n] : j < k + 1 => j < k \/ j = k
    BY <1>4 DEF WalkInv, CodeOK
  <2>7. n # Terminal
    BY <1>4 DEF WalkInv, CodeOK
  <2>8. DoneUpTo(n, k + 1, ch)'
    BY <1>16, <1>18, <2>5, <2>6, <2>7 DEF DoneUpTo
  <2> QED BY <1>10, <2>4, <2>8
<1>20. WalkTypeOK' /\ SourcesOK' /\ ProgressOK'
  <2>1. \A use, l, src : src \in InputsOf(use, l) => src \in InputsOf(use, l)'
    BY <1>12
  <2>2. missing_regs \subseteq missing_regs'
    BY <1>7
  <2>3. c.node = top.node
    BY <1>1, <1>10
  <2> QED BY <1>3, <1>9, <1>10, <1>11, <1>19, <2>1, <2>2, <2>3, TopReplaced
<1> QED BY <1>15, <1>17, <1>20, GraphUnchanged DEF WalkInv

\* process_node at the TerminalNode keeps the invariant.
LEMMA TerminalKeeps ==
  ASSUME WalkInv, ProcessTerminal
  PROVE  WalkInv'
<1> DEFINE reads == {<<EpilogueRef(l), l>> : l \in ReturnRegs}
<1>1. /\ Busy /\ top.node = Terminal /\ top.at = 1 /\ AddUses(reads)
      /\ UNCHANGED <<graphVars, pc, processed, missing_regs>>
  BY DEF ProcessTerminal
<1>2. PICK t \in CallSet : t = top
  BY <1>1, TopCall
<1>3. PICK c : c = [t EXCEPT !.at = @ + 1]
  OBVIOUS
<1>4. calls' = Append(Front(calls), c)
  BY <1>2, <1>3 DEF ProcessTerminal, SetTop
<1>5. /\ c \in CallSet /\ c.node = Terminal /\ c.at = 2 /\ c.child = t.child
      /\ c.loc_srcs = t.loc_srcs
  BY <1>1, <1>2, <1>3 DEF CallSet
<1>6. Terminal \in Nodes /\ code[Terminal] = <<>>
  BY NAssumption DEF WalkInv, CodeOK, Terminal, Nodes
<1>7. \A l : Sources(Terminal, 2, l) = Sources(Terminal, 1, l)
  <2>1. Len(code[Terminal]) = 0
    BY <1>6
  <2>2. \A l : \A k \in Nat : k > 0 => ValuesAt(Terminal, k, l) = AtEnd(Terminal, l)
    BY <1>6, <2>1, ValuesAtEnds DEF WalkInv
  <2>3. \A l : ValuesAt(Terminal, 2, l) = ValuesAt(Terminal, 1, l)
    BY <2>2
  <2> QED BY <2>3 DEF Sources
<1>8. Terminal \in Reached => \A l \in Locs : t.loc_srcs[l] = Sources(Terminal, 1, l)
  BY <1>1, <1>2, TopCall
<1>9. c.node \in Reached => \A l \in Locs : c.loc_srcs[l] = Sources(c.node, c.at, l)
  BY <1>5, <1>7, <1>8
<1>10. \A use, l, src : src \in InputsOf(use, l)' <=>
         src \in InputsOf(use, l) \/ (<<use, l>> \in reads /\ src \in t.loc_srcs[l])
  BY <1>1, <1>2, AddUsesInputs
<1>11. \A l \in ReturnRegs : <<EpilogueRef(l), l>> \in reads
  OBVIOUS
<1>12. \A use, l : <<use, l>> \in reads => l \in ReturnRegs /\ use = EpilogueRef(l)
  OBVIOUS
<1> HIDE DEF reads
<1>13. UNCHANGED graphVars
  BY <1>1
<1>14. /\ Reached' = Reached /\ code' = code
       /\ \A m, j, l : Sources(m, j, l)' = Sources(m, j, l)
  BY <1>13, GraphUnchanged
<1>15. ReturnRegs \subseteq Locs
  BY LocsAssumption
<1>16. InputsSound'
  <2>1. ASSUME NEW m \in Nodes, NEW j, NEW l PROVE InputsOf(<<m, j>>, l)' \subseteq InputsOf(<<m, j>>, l)
    <3>1. EpilogueRef(l) # <<m, j>>
      BY NAssumption DEF EpilogueRef, Nodes
    <3> QED BY <1>10, <1>12, <3>1
  <2>2. ASSUME Terminal \in Reached, NEW l \in ReturnRegs, NEW src \in InputsOf(EpilogueRef(l), l)'
        PROVE  src \in Sources(Terminal, 1, l)
    <3>1. CASE src \in InputsOf(EpilogueRef(l), l)
      BY <2>2, <3>1 DEF WalkInv, InputsSound
    <3>2. CASE src \in t.loc_srcs[l]
      BY <1>8, <1>15, <2>2, <3>2
    <3> QED BY <1>10, <2>2, <3>1, <3>2
  <2>3. \A m \in Nodes : \A j \in DOMAIN code[m] : \A l \in code[m][j].ins :
          InputsOf(<<m, j>>, l)' \subseteq Sources(m, j, l)
    BY <2>1 DEF WalkInv, InputsSound
  <2>4. Terminal \in Reached =>
          \A l \in ReturnRegs : InputsOf(EpilogueRef(l), l)' \subseteq Sources(Terminal, 1, l)
    BY <2>2
  <2> QED BY <1>14, <2>3, <2>4 DEF InputsSound
<1>17. EpilogueRecorded'
  <2>1. Terminal \in Reached =>
          \A l \in ReturnRegs : Sources(Terminal, 1, l) \subseteq InputsOf(EpilogueRef(l), l)'
    BY <1>8, <1>10, <1>11, <1>15
  <2> QED BY <1>14, <2>1 DEF EpilogueRecorded
<1>18. \A use, l, src : src \in InputsOf(use, l) => src \in InputsOf(use, l)'
  BY <1>10
<1>19. missing_regs \subseteq missing_regs' /\ ToSet(processed) \subseteq ToSet(processed)'
  BY <1>1
<1>20. DoneUpTo(c.node, c.at, c.child)'
  <2>1. DoneUpTo(Terminal, 1, t.child)
    BY <1>1, <1>2, TopCall
  <2>2. DoneUpTo(Terminal, 1, t.child)'
    BY <1>13, <1>18, <1>19, <2>1, ProgressGrows
  <2>3. DOMAIN code[Terminal] = {}
    BY <1>6
  <2>4. DoneUpTo(Terminal, 2, t.child)'
    BY <1>14, <1>17, <2>2, <2>3 DEF DoneUpTo
  <2> QED BY <1>5, <2>4
<1>21. WalkTypeOK' /\ SourcesOK' /\ ProgressOK'
  BY <1>1, <1>4, <1>5, <1>9, <1>18, <1>19, <1>20, TopReplaced
<1> QED BY <1>13, <1>16, <1>21, GraphUnchanged DEF WalkInv

\* The sources of a node that is visited are references.
LEMMA ChildSourcesType ==
  ASSUME GraphOK, CodeOK, NEW n \in Nodes, NEW loc_srcs \in [Locs -> SUBSET Refs]
  PROVE  ChildSources(n, loc_srcs) \in [Locs -> SUBSET Refs]
<1>1. ASSUME NEW l \in Locs PROVE phi_loc_sources(n, l, loc_srcs[l]) \subseteq Refs
  <2> DEFINE setters == {m \in Seen(n, l) \ {imdom[n]} : Touches(m, l) # {}}
             last(m) == Max(Touches(m, l))
  <2>1. phi_loc_sources(n, l, loc_srcs[l]) =
          IF \/ imdom[n] \in Seen(n, l) /\ loc_srcs[l] = {}
             \/ \E m \in setters : l \notin code[m][last(m)].outs
          THEN {}
          ELSE {<<m, last(m)>> : m \in setters}
                 \cup (IF imdom[n] \in Seen(n, l) THEN loc_srcs[l] ELSE {})
    <3>1. PICK s : s = Closure(parents(n), [m \in Nodes |-> IF m = imdom[n] \/ Touches(m, l) # {}
                                                            THEN {} ELSE parents(m)])
      OBVIOUS
    <3>2. s = Seen(n, l)
      BY <3>1, SearchesAreReach
    <3> QED BY <3>1, <3>2 DEF phi_loc_sources
  <2>2. \A m \in setters : <<m, last(m)>> \in Refs
    <3> TAKE m \in setters
    <3>1. m \in Nodes /\ Touches(m, l) # {} /\ Touches(m, l) \subseteq Touches(m, l)
      BY DEF Seen, Searched, Reach
    <3>2. last(m) \in Nat
      BY <3>1, LastTouch
    <3> QED BY <3>1, <3>2, NAssumption DEF Refs, Nodes
  <2>3. loc_srcs[l] \subseteq Refs
    OBVIOUS
  <2> HIDE DEF setters, last
  <2> QED BY <2>1, <2>2, <2>3
<1> QED BY <1>1 DEF ChildSources

\* When a call has no instruction left it knows what its node leaves.
LEMMA SourcesAtEnd ==
  ASSUME WalkInv, Busy, InstructionsDone, top.node \in Reached
  PROVE  \A l \in Locs : top.loc_srcs[l] = Sources(top.node, Len(code[top.node]) + 1, l)
<1>1. PICK n, k : n = top.node /\ k = top.at
  OBVIOUS
<1>2. n \in Nodes /\ k \in Nat
  BY <1>1, TopCall
<1>3. k > Len(code[n])
  <2>1. code[Terminal] = <<>> /\ Len(<<>>) = 0
    BY DEF WalkInv, CodeOK
  <2>2. k > IF n = Terminal THEN 1 ELSE Len(code[n])
    BY <1>1 DEF InstructionsDone
  <2>3. CASE n = Terminal
    <3>1. Len(code[n]) = 0 /\ k > 1
      BY <2>1, <2>2, <2>3
    <3> QED BY <1>2, <3>1
  <2> QED BY <2>2, <2>3
<1>4. \A l : ValuesAt(n, k, l) = AtEnd(n, l)
  BY <1>2, <1>3, ValuesAtEnds DEF WalkInv
<1>5. \A l \in Locs : top.loc_srcs[l] = Sources(n, k, l)
  BY <1>1, TopCall
<1> QED BY <1>1, <1>4, <1>5 DEF Sources, AtEnd

\* Visiting a node that is immediately dominated keeps the invariant.
LEMMA DominatedKeeps ==
  ASSUME WalkInv, ProcessDominated
  PROVE  WalkInv'
<1>1. PICK k : k = top.child
  OBVIOUS
<1>2. PICK n : n = immediately_dominates(top.node)[k]
  OBVIOUS
<1>3. /\ Busy /\ InstructionsDone /\ k <= Len(immediately_dominates(top.node))
      /\ processed' = Append(processed, n)
      /\ UNCHANGED <<graphVars, pc, instr_inputs, instr_uses, missing_regs>>
  BY <1>1, <1>2 DEF ProcessDominated
<1>4. PICK t \in CallSet : t = top
  BY <1>3, TopCall
<1>5. t.node \in Nodes /\ t.at \in Nat \ {0} /\ t.child \in Nat \ {0}
      /\ t.loc_srcs \in [Locs -> SUBSET Refs]
  BY DEF CallSet
<1>6. k \in DOMAIN immediately_dominates(t.node)
  BY <1>1, <1>3, <1>4, <1>5, DominatedNodes
<1>7. n \in Nodes /\ imdom[n] = t.node /\ n # Entry
  <2>1. n \in Nodes /\ imdom[n] = t.node
    BY <1>2, <1>4, <1>6, DominatedNodes
  <2>2. imdom[Entry] = -1 /\ t.node # -1
    BY <1>5, NAssumption DEF WalkInv, GraphOK, Nodes
  <2> QED BY <2>1, <2>2
<1>8. PICK c : c = [t EXCEPT !.child = @ + 1]
  OBVIOUS
<1>9. PICK srcs : srcs = ChildSources(n, t.loc_srcs)
  OBVIOUS
<1>10. PICK d : d = Call(n, srcs)
  OBVIOUS
<1>11. calls' = Append(Append(Front(calls), c), d)
  BY <1>1, <1>2, <1>4, <1>8, <1>9, <1>10 DEF ProcessDominated
<1>12. /\ c \in CallSet /\ c.node = t.node /\ c.at = t.at /\ c.child = k + 1
       /\ c.loc_srcs = t.loc_srcs
  BY <1>1, <1>4, <1>5, <1>8 DEF CallSet
<1>13. srcs \in [Locs -> SUBSET Refs]
  BY <1>5, <1>7, <1>9, ChildSourcesType DEF WalkInv
<1>14. /\ d \in CallSet /\ d.node = n /\ d.at = 1 /\ d.child = 1 /\ d.loc_srcs = srcs
  BY <1>7, <1>10, <1>13 DEF Call, CallSet
<1>15. n \in Reached => \A l \in Locs : srcs[l] = Sources(n, 1, l)
  <2> SUFFICES ASSUME n \in Reached PROVE \A l \in Locs : srcs[l] = Sources(n, 1, l)
    OBVIOUS
  <2>1. t.node \in Reached
    BY <1>7, DominatorReached DEF WalkInv
  <2>2. \A l \in Locs : t.loc_srcs[l] = Sources(t.node, Len(code[t.node]) + 1, l)
    BY <1>3, <1>4, <2>1, SourcesAtEnd
  <2>3. \A l \in Locs : t.loc_srcs[l] = Sources(imdom[n], Len(code[imdom[n]]) + 1, l)
    BY <1>7, <2>2
  <2> QED BY <1>7, <1>9, <2>3, ChildSourcesExact DEF WalkInv
<1>16. UNCHANGED graphVars /\ UNCHANGED <<graphVars, instr_inputs>>
  BY <1>3
<1>17. /\ Reached' = Reached /\ code' = code
       /\ \A m, j, l : Sources(m, j, l)' = Sources(m, j, l)
       /\ \A m : immediately_dominates(m)' = immediately_dominates(m)
  BY <1>16, GraphUnchanged
<1>18. PICK size \in Nat \ {0} : /\ size = Len(calls) /\ DOMAIN calls = 1 .. size
                                /\ calls[size] = t
  BY <1>3, <1>4, TopCall
<1>19. PICK stack : stack = calls'
  OBVIOUS
<1>20. /\ stack \in Seq(CallSet) /\ DOMAIN stack = 1 .. size + 1
       /\ stack[size] = c /\ stack[size + 1] = d
       /\ \A j \in 1 .. size - 1 : stack[j] = calls[j]
  <2>1. calls \in Seq(CallSet)
    BY DEF WalkInv, WalkTypeOK
  <2>2. calls # <<>>
    BY <1>3 DEF Busy
  <2>3. PICK g \in Seq(CallSet) : g = Append(Front(calls), c)
    BY <1>12, <2>1, <2>2, TopSet
  <2>4. Len(g) = size /\ g[size] = c /\ \A j \in 1 .. size - 1 : g[j] = calls[j]
    <3>1. /\ Len(g) = Len(calls) /\ g[Len(calls)] = c
          /\ \A j \in 1 .. Len(calls) - 1 : g[j] = calls[j]
      BY <1>12, <2>1, <2>2, <2>3, TopSet
    <3> QED BY <1>18, <3>1
  <2>5. /\ Append(g, d) \in Seq(CallSet) /\ DOMAIN Append(g, d) = 1 .. size + 1
        /\ Append(g, d)[size + 1] = d
        /\ \A j \in 1 .. size : Append(g, d)[j] = g[j]
    BY <1>14, <2>4, AppendIndex
  <2>6. stack = Append(g, d)
    BY <1>11, <1>19, <2>3
  <2> QED BY <1>18, <2>4, <2>5, <2>6
<1>21. \A j \in DOMAIN stack :
         j = size + 1 \/ j = size \/ (j \in 1 .. size - 1 /\ j \in DOMAIN calls)
  BY <1>18, <1>20
<1>22. processed' \in Seq(Nodes) /\ ToSet(processed') = ToSet(processed) \cup {n}
  BY <1>3, <1>7, AppendSet DEF WalkInv, WalkTypeOK
<1>23. WalkTypeOK'
  BY <1>3, <1>19, <1>20, <1>22 DEF WalkInv, WalkTypeOK
<1>24. SourcesOK'
  <2>1. \A j \in DOMAIN stack : stack[j].node \in Reached =>
          \A l \in Locs : stack[j].loc_srcs[l] = Sources(stack[j].node, stack[j].at, l)
    <3> TAKE j \in DOMAIN stack
    <3>1. CASE j = size + 1
      BY <1>14, <1>15, <1>20, <3>1
    <3>2. CASE j = size
      BY <1>3, <1>4, <1>12, <1>20, <3>2, TopCall
    <3>3. CASE j \in 1 .. size - 1 /\ j \in DOMAIN calls
      BY <1>20, <3>3 DEF WalkInv, SourcesOK
    <3> QED BY <1>21, <3>1, <3>2, <3>3
  <2> QED BY <1>17, <1>19, <2>1 DEF SourcesOK
<1>25. InputsSound'
  BY <1>16, InputsUnchanged DEF WalkInv
<1>26. /\ \A m, at, child : DoneUpTo(m, at, child) => DoneUpTo(m, at, child)'
       /\ \A m : Finished(m) => Finished(m)'
  <2>1. \A use, l, src : src \in InputsOf(use, l) => src \in InputsOf(use, l)'
    BY <1>16, InputsUnchanged
  <2>2. missing_regs \subseteq missing_regs' /\ ToSet(processed) \subseteq ToSet(processed)'
    BY <1>3, <1>22
  <2> QED BY <1>16, <2>1, <2>2, ProgressGrows
<1>27. \A j \in DOMAIN stack : DoneUpTo(stack[j].node, stack[j].at, stack[j].child)'
  <2> TAKE j \in DOMAIN stack
  <2>1. CASE j = size + 1
    <3>1. \A m \in Nodes : DOMAIN code[m] = 1 .. Len(code[m]) /\ Len(code[m]) \in Nat
      BY DEF WalkInv, CodeOK
    <3>2. \A i \in DOMAIN immediately_dominates(n) : ~ (i < 1)
      BY DominatedNodes
    <3>3. DoneUpTo(n, 1, 1)'
      BY <1>7, <1>17, <3>1, <3>2 DEF DoneUpTo
    <3> QED BY <1>14, <1>20, <2>1, <3>3
  <2>2. CASE j = size
    <3>1. DoneUpTo(t.node, t.at, k)
      BY <1>1, <1>3, <1>4, TopCall
    <3>2. DoneUpTo(t.node, t.at, k)'
      BY <1>26, <3>1
    <3>3. \A i \in DOMAIN immediately_dominates(t.node) : i < k + 1 => i < k \/ i = k
      BY <1>1, <1>4, <1>5, DominatedNodes
    <3>4. immediately_dominates(t.node)[k] \in ToSet(processed')
      BY <1>2, <1>4, <1>22
    <3>5. DoneUpTo(t.node, t.at, k + 1)'
      BY <1>17, <3>2, <3>3, <3>4 DEF DoneUpTo
    <3> QED BY <1>12, <1>20, <2>2, <3>5
  <2>3. CASE j \in 1 .. size - 1 /\ j \in DOMAIN calls
    <3>1. PICK b : b = calls[j]
      OBVIOUS
    <3>2. DoneUpTo(b.node, b.at, b.child)
      BY <2>3, <3>1 DEF WalkInv, ProgressOK
    <3>3. DoneUpTo(b.node, b.at, b.child)'
      BY <1>26, <3>2
    <3> QED BY <1>20, <2>3, <3>1, <3>3
  <2> QED BY <1>21, <2>1, <2>2, <2>3
<1>28. \A m \in ToSet(processed') : Finished(m)' \/ \E j \in DOMAIN stack : stack[j].node = m
  <2> TAKE m \in ToSet(processed')
  <2>1. CASE m = n
    <3>1. size + 1 \in DOMAIN stack
      BY <1>18, <1>20
    <3> QED BY <1>14, <1>20, <2>1, <3>1
  <2>2. CASE m \in ToSet(processed)
    <3>1. CASE Finished(m)
      BY <1>26, <3>1
    <3>2. ASSUME NEW j \in DOMAIN calls, calls[j].node = m
          PROVE  \E i \in DOMAIN stack : stack[i].node = m
      <4>1. j \in DOMAIN stack /\ (j = size \/ j \in 1 .. size - 1)
        BY <1>18, <1>20
      <4>2. stack[j].node = m
        BY <1>12, <1>18, <1>20, <3>2, <4>1
      <4> QED BY <4>1, <4>2
    <3> QED BY <2>2, <3>1, <3>2 DEF WalkInv, ProgressOK
  <2> QED BY <1>22, <2>1, <2>2
<1>29. ProgressOK'
  <2>1. Entry \in ToSet(processed') /\ pc' # "done"
    BY <1>3, <1>22 DEF WalkInv, ProgressOK, Busy
  <2> QED BY <1>19, <1>27, <1>28, <2>1 DEF ProgressOK
<1> QED BY <1>16, <1>23, <1>24, <1>25, <1>29, GraphUnchanged DEF WalkInv

\* The end of a call keeps the invariant: its node is finished.
LEMMA ReturnKeeps ==
  ASSUME WalkInv, Return
  PROVE  WalkInv'
<1>1. /\ Busy /\ InstructionsDone
      /\ top.child > Len(immediately_dominates(top.node))
      /\ calls' = Front(calls)
      /\ pc' = IF Len(calls) = 1 THEN "done" ELSE pc
      /\ UNCHANGED <<graphVars, processed, instr_inputs, instr_uses, missing_regs>>
  BY DEF Return
<1>2. PICK t \in CallSet : t = top
  BY <1>1, TopCall
<1>3. t.node \in Nodes /\ t.at \in Nat \ {0} /\ t.child \in Nat \ {0}
  BY DEF CallSet
<1>4. PICK size \in Nat \ {0} : /\ size = Len(calls) /\ DOMAIN calls = 1 .. size
                               /\ calls[size] = t
  BY <1>1, <1>2, TopCall
<1>5. PICK stack : stack = calls'
  OBVIOUS
<1>6. /\ stack \in Seq(CallSet) /\ DOMAIN stack = 1 .. size - 1 /\ Len(stack) = size - 1
      /\ \A j \in 1 .. size - 1 : stack[j] = calls[j]
  <2>1. calls \in Seq(CallSet)
    BY DEF WalkInv, WalkTypeOK
  <2>2. calls # <<>>
    BY <1>1 DEF Busy
  <2>3. /\ Front(calls) \in Seq(CallSet) /\ Len(Front(calls)) = size - 1
        /\ DOMAIN Front(calls) = 1 .. size - 1
        /\ \A j \in 1 .. size - 1 : Front(calls)[j] = calls[j]
    BY <1>4, <2>1, <2>2, StackTop
  <2> QED BY <1>1, <1>5, <2>3
<1>7. UNCHANGED graphVars /\ UNCHANGED <<graphVars, instr_inputs>>
  BY <1>1
<1>8. /\ Reached' = Reached /\ code' = code
      /\ \A m, j, l : Sources(m, j, l)' = Sources(m, j, l)
  BY <1>7, GraphUnchanged
<1>9. Finished(t.node)
  <2>1. DoneUpTo(t.node, t.at, t.child)
    BY <1>1, <1>2, TopCall
  <2>2. t.at > IF t.node = Terminal THEN 1 ELSE Len(code[t.node])
    BY <1>1, <1>2 DEF InstructionsDone
  <2>3. /\ DOMAIN code[t.node] = 1 .. Len(code[t.node]) /\ Len(code[t.node]) \in Nat
        /\ DOMAIN code[Terminal] = {}
    BY <1>3 DEF WalkInv, CodeOK
  <2>4. \A k \in DOMAIN code[t.node] : k < t.at
    <3>1. CASE t.node = Terminal
      BY <2>3, <3>1
    <3>2. CASE t.node # Terminal
      BY <1>3, <2>2, <2>3, <3>2
    <3> QED BY <3>1, <3>2
  <2>5. t.node = Terminal => EpilogueRecorded
    BY <2>1, <2>2 DEF DoneUpTo
  <2>6. \A m \in Nodes : imdom[m] = t.node => m \in ToSet(processed)
    <3> SUFFICES ASSUME NEW m \in Nodes, imdom[m] = t.node PROVE m \in ToSet(processed)
      OBVIOUS
    <3>1. PICK j \in DOMAIN immediately_dominates(t.node) : immediately_dominates(t.node)[j] = m
      BY DominatedNodes
    <3>2. j < t.child
      BY <1>1, <1>2, <1>3, DominatedNodes
    <3> QED BY <2>1, <3>1, <3>2 DEF DoneUpTo
  <2> QED BY <2>1, <2>4, <2>5, <2>6 DEF DoneUpTo, Finished
<1>10. WalkTypeOK'
  BY <1>1, <1>5, <1>6 DEF WalkInv, WalkTypeOK
<1>11. SourcesOK'
  <2>1. \A j \in DOMAIN stack : stack[j].node \in Reached =>
          \A l \in Locs : stack[j].loc_srcs[l] = Sources(stack[j].node, stack[j].at, l)
    BY <1>4, <1>6 DEF WalkInv, SourcesOK
  <2> QED BY <1>5, <1>8, <2>1 DEF SourcesOK
<1>12. InputsSound'
  BY <1>7, InputsUnchanged DEF WalkInv
<1>13. /\ \A m, at, child : DoneUpTo(m, at, child) => DoneUpTo(m, at, child)'
       /\ \A m : Finished(m) => Finished(m)'
  <2>1. \A use, l, src : src \in InputsOf(use, l) => src \in InputsOf(use, l)'
    BY <1>7, InputsUnchanged
  <2>2. missing_regs \subseteq missing_regs' /\ ToSet(processed) \subseteq ToSet(processed)'
    BY <1>1
  <2> QED BY <1>7, <2>1, <2>2, ProgressGrows
<1>14. \A j \in DOMAIN stack : DoneUpTo(stack[j].node, stack[j].at, stack[j].child)'
  <2> TAKE j \in DOMAIN stack
  <2>1. PICK b : b = stack[j]
    OBVIOUS
  <2>2. DoneUpTo(b.node, b.at, b.child)
    BY <1>4, <1>6, <2>1 DEF WalkInv, ProgressOK
  <2>3. DoneUpTo(b.node, b.at, b.child)'
    BY <1>13, <2>2
  <2> QED BY <2>1, <2>3
<1>15. \A m \in ToSet(processed) : Finished(m)' \/ \E j \in DOMAIN stack : stack[j].node = m
  <2> TAKE m \in ToSet(processed)
  <2>1. CASE Finished(m)
    BY <1>13, <2>1
  <2>2. ASSUME NEW j \in DOMAIN calls, calls[j].node = m
        PROVE  Finished(m)' \/ \E i \in DOMAIN stack : stack[i].node = m
    <3>1. CASE j = size
      BY <1>4, <1>9, <1>13, <2>2, <3>1
    <3>2. CASE j # size
      <4>1. j \in DOMAIN stack
        BY <1>4, <1>6, <3>2
      <4> QED BY <1>6, <2>2, <4>1
    <3> QED BY <3>1, <3>2
  <2> QED BY <2>1, <2>2 DEF WalkInv, ProgressOK
<1>16. pc' = "done" => stack = <<>>
  <2>1. pc' = "done" => size = 1
    BY <1>1, <1>4 DEF Busy
  <2> QED BY <1>6, <2>1
<1>17. ProgressOK'
  <2>1. Entry \in ToSet(processed') /\ ToSet(processed') = ToSet(processed)
    BY <1>1 DEF WalkInv, ProgressOK
  <2> QED BY <1>5, <1>14, <1>15, <1>16, <2>1 DEF ProgressOK
<1> QED BY <1>7, <1>10, <1>11, <1>12, <1>17, GraphUnchanged DEF WalkInv

-----------------------------------------------------------------------------
(* The start.                                                              *)

\* The entry dominates every node.
LEMMA EntryDominates ==
  ASSUME succ \in Edges, NEW n \in Nodes
  PROVE  Dominates(Entry, n)
<1>1. PICK f : f = [m \in Nodes |-> succ[m] \ {Entry}]
  OBVIOUS
<1>2. f \in Edges
  BY <1>1 DEF Edges
<1>3. {Entry} \ {Entry} = {} /\ {} \in SUBSET Nodes
  OBVIOUS
<1>4. Closure({}, f) = {}
  BY <1>2, <1>3, ClosureIsReach, ReachNothing
<1> QED BY <1>1, <1>3, <1>4 DEF Dominates

\* Some strict dominator has the highest rank, so that max() finds one.
LEMMA ImmediateDominatorPicked ==
  ASSUME succ \in Edges, NEW n \in Nodes \ {Entry}
  PROVE  ImmediateDominator(n) \in Nodes \ {n} /\ Dominates(ImmediateDominator(n), n)
<1> DEFINE strict == {d \in Nodes \ {n} : Dominates(d, n)}
           doms(d) == {e \in Nodes : Dominates(e, d)}
           rank(d) == N * Cardinality(doms(d)) + d
           ranks == {rank(d) : d \in strict}
<1>1. Entry \in strict
  BY EntryDominates, NAssumption DEF Nodes, Entry
<1>2. ASSUME NEW d \in Nodes PROVE rank(d) \in 0 .. N * N + N
  <2>1. PICK s \in SUBSET Nodes : s = doms(d)
    OBVIOUS
  <2>2. Cardinality(s) \in Nat /\ Cardinality(s) <= N
    BY NodesFinite, FS_Subset, FS_CardinalityType
  <2>3. PICK c \in 0 .. N : c = Cardinality(doms(d))
    BY <2>1, <2>2, NAssumption
  <2>4. \A a, b \in Nat : a <= b => b * a \in Nat /\ b * a <= b * b
    OBVIOUS
  <2>5. N * c \in Nat /\ N * c <= N * N /\ N * N \in Nat /\ c \in Nat
    BY <2>4, NAssumption
  <2>6. d \in Nat /\ d <= N
    BY NAssumption DEF Nodes
  <2> HIDE DEF doms
  <2>7. rank(d) = N * c + d
    BY <2>3
  <2> HIDE DEF rank
  <2> QED BY <2>5, <2>6, <2>7, NAssumption
<1> HIDE DEF rank
<1>3. ranks # {} /\ ranks \subseteq 0 .. N * N + N /\ N * N + N \in Nat
  <2>1. \A d \in strict : rank(d) \in 0 .. N * N + N
    BY <1>2
  <2>2. ranks # {}
    BY <1>1
  <2>3. \A a \in Nat : a * a + a \in Nat
    OBVIOUS
  <2> QED BY <2>1, <2>2, <2>3, NAssumption
<1> HIDE DEF ranks
<1>4. PICK r \in ranks : \A q \in ranks : r >= q
  BY <1>3, BoundedMax, Zenon
<1>5. \E d \in strict : \A e \in strict : rank(d) >= rank(e)
  BY <1>4 DEF ranks
<1> HIDE DEF strict
<1>6. (CHOOSE d \in strict : \A e \in strict : rank(d) >= rank(e)) \in strict
  BY <1>5
<1>7. ImmediateDominator(n) = CHOOSE d \in strict : \A e \in strict : rank(d) >= rank(e)
  BY DEF ImmediateDominator, strict, rank, doms
<1>8. ImmediateDominator(n) \in strict
  BY <1>6, <1>7
<1> QED BY <1>8 DEF strict

\* The walk starts with a graph the lemmas are about, if no edge leads back to
\* the first block.
LEMMA InitGraph ==
  ASSUME Init, EntryIsNoTarget
  PROVE  GraphOK /\ CodeOK
<1>1. Entry \in Nodes /\ Terminal \in Nodes /\ Entry # Terminal
  BY NAssumption DEF Entry, Terminal, Nodes
<1>2. \A s \in Shapes : s \in SUBSET Nodes
  BY <1>1 DEF Shapes, Targets
<1>3. PICK shape \in [Nodes \ {Terminal} -> Shapes] :
        succ = [n \in Nodes |-> IF n = Terminal THEN {} ELSE shape[n]]
  BY DEF Init
<1>4. succ \in Edges /\ \A m \in Nodes : Entry \notin succ[m]
  <2>1. succ \in Edges
    BY <1>2, <1>3 DEF Edges
  <2>2. \A m \in Nodes : Entry \notin succ[m]
    BY DEF EntryIsNoTarget, parents
  <2> QED BY <2>1, <2>2
<1>5. /\ Nodes \ {Terminal} \subseteq Reached
      /\ imdom = [n \in Nodes |-> IF n = Entry THEN -1 ELSE ImmediateDominator(n)]
  BY DEF Init
<1>6. GraphOK
  <2>1. imdom[Entry] = -1
    BY <1>1, <1>5
  <2>2. ASSUME NEW n \in Nodes \ {Entry} PROVE imdom[n] \in Nodes \ {n} /\ Dominates(imdom[n], n)
    <3>1. imdom[n] = ImmediateDominator(n)
      BY <1>5
    <3> QED BY <1>4, <3>1, ImmediateDominatorPicked
  <2> QED BY <1>4, <1>5, <2>1, <2>2 DEF GraphOK
<1>7. PICK codes \in Functions : \E block \in [Nodes \ {Terminal} -> codes] :
        code = [n \in Nodes |-> IF n = Terminal THEN <<>> ELSE block[n]]
  BY DEF Init
<1>8. PICK block \in [Nodes \ {Terminal} -> codes] :
        code = [n \in Nodes |-> IF n = Terminal THEN <<>> ELSE block[n]]
  BY <1>7
<1>9. code[Terminal] = <<>>
  BY <1>1, <1>8
<1>10. ASSUME NEW n \in Nodes
       PROVE  /\ DOMAIN code[n] = 1 .. Len(code[n]) /\ Len(code[n]) \in Nat
              /\ \A k \in DOMAIN code[n] :
                   code[n][k].ins \cup code[n][k].outs \cup code[n][k].clobs \subseteq Locs
  <2>1. CASE n = Terminal
    BY <1>9, <2>1
  <2>2. CASE n # Terminal
    <3>1. PICK b \in codes : b = code[n]
      BY <1>8, <2>2
    <3>2. /\ b \in Seq(ToSet(b))
          /\ \A ir \in ToSet(b) : ir.ins \cup ir.outs \cup ir.clobs \subseteq Locs
      BY FunctionsAssumption
    <3>3. DOMAIN b = 1 .. Len(b) /\ Len(b) \in Nat /\ \A k \in DOMAIN b : b[k] \in ToSet(b)
      <4>1. PICK T : T = ToSet(b)
        OBVIOUS
      <4>2. b \in Seq(T)
        BY <3>2, <4>1
      <4> QED BY <4>1, <4>2
    <3> QED BY <3>1, <3>2, <3>3
  <2> QED BY <2>1, <2>2
<1>11. CodeOK
  BY <1>9, <1>10 DEF CodeOK
<1> QED BY <1>6, <1>11

\* The invariant holds at the start.
LEMMA InitKeeps ==
  ASSUME Init, EntryIsNoTarget
  PROVE  WalkInv
<1>1. GraphOK /\ CodeOK
  BY InitGraph
<1>2. PICK c : c = Call(Entry, [l \in Locs |-> IF l \in Regs THEN {PrologueRef(l)} ELSE {}])
  OBVIOUS
<1>3. /\ calls = <<c>> /\ pc = "walk" /\ processed = <<Entry>> /\ instr_inputs = {}
  BY <1>2 DEF Init
<1>4. Entry \in Nodes
  BY NAssumption DEF Entry, Nodes
<1>5. /\ c \in CallSet /\ c.node = Entry /\ c.at = 1 /\ c.child = 1
      /\ c.loc_srcs = [l \in Locs |-> IF l \in Regs THEN {PrologueRef(l)} ELSE {}]
  <2>1. \A l \in Locs : PrologueRef(l) \in Refs
    BY LocsAssumption DEF PrologueRef, Refs
  <2>2. [l \in Locs |-> IF l \in Regs THEN {PrologueRef(l)} ELSE {}] \in [Locs -> SUBSET Refs]
    BY <2>1
  <2> QED BY <1>2, <1>4, <2>2 DEF Call, CallSet
<1>6. DOMAIN calls = {1} /\ calls[1] = c /\ calls \in Seq(CallSet)
  BY <1>3, <1>5
<1>7. WalkTypeOK
  BY <1>3, <1>4, <1>6 DEF WalkTypeOK
<1>8. SourcesOK
  <2>1. ASSUME NEW l \in Locs PROVE c.loc_srcs[l] = Sources(Entry, 1, l)
    <3>1. ValuesAt(Entry, 1, l) = {InitialValue(l)}
      BY <1>1, <1>4, ValuesAtEnds, ArrivingAtEntry
    <3>2. c.loc_srcs[l] = IF l \in Regs THEN {PrologueRef(l)} ELSE {}
      BY <1>5
    <3> QED BY <3>1, <3>2, UnsetIsNoReference DEF Sources, InitialValue
  <2> QED BY <1>5, <1>6, <2>1 DEF SourcesOK
<1>9. InputsSound
  <2>1. \A use, l : InputsOf(use, l) = {}
    BY <1>3 DEF InputsOf
  <2> QED BY <2>1 DEF InputsSound
<1>10. ToSet(processed) = {Entry}
  BY <1>3 DEF ToSet
<1>11. DoneUpTo(Entry, 1, 1)
  <2>1. DOMAIN code[Entry] = 1 .. Len(code[Entry]) /\ Len(code[Entry]) \in Nat
    BY <1>1, <1>4 DEF CodeOK
  <2> QED BY <2>1, DominatedNodes DEF DoneUpTo
<1>12. ProgressOK
  BY <1>3, <1>5, <1>6, <1>10, <1>11 DEF ProgressOK
<1> QED BY <1>1, <1>7, <1>8, <1>9, <1>12 DEF WalkInv

\* Every step keeps the invariant.
LEMMA WalkKept ==
  ASSUME WalkInv, [Next]_vars
  PROVE  WalkInv'
<1>1. CASE ProcessInstruction
  BY <1>1, InstructionKeeps
<1>2. CASE ProcessTerminal
  BY <1>2, TerminalKeeps
<1>3. CASE ProcessDominated
  BY <1>3, DominatedKeeps
<1>4. CASE Return
  BY <1>4, ReturnKeeps
<1>5. CASE UNCHANGED vars
  <2>1. UNCHANGED graphVars /\ UNCHANGED <<graphVars, instr_inputs>>
        /\ UNCHANGED <<calls, pc, processed, missing_regs>>
    BY <1>5 DEF vars
  <2>2. GraphOK' /\ CodeOK' /\ InputsSound'
    BY <2>1, GraphUnchanged, InputsUnchanged DEF WalkInv
  <2>3. WalkTypeOK'
    BY <2>1 DEF WalkInv, WalkTypeOK
  <2>4. SourcesOK'
    BY <2>1, GraphUnchanged DEF WalkInv, SourcesOK
  <2>5. /\ \A m, at, child : DoneUpTo(m, at, child) => DoneUpTo(m, at, child)'
        /\ \A m : Finished(m) => Finished(m)'
    <3>1. \A use, l, src : src \in InputsOf(use, l) => src \in InputsOf(use, l)'
      BY <2>1, InputsUnchanged
    <3>2. missing_regs \subseteq missing_regs' /\ ToSet(processed) \subseteq ToSet(processed)'
      BY <2>1
    <3> QED BY <2>1, <3>1, <3>2, ProgressGrows
  <2>6. PICK stack : stack = calls
    OBVIOUS
  <2>7. \A j \in DOMAIN stack : DoneUpTo(stack[j].node, stack[j].at, stack[j].child)'
    <3> TAKE j \in DOMAIN stack
    <3>1. DoneUpTo(stack[j].node, stack[j].at, stack[j].child)
      BY <2>6 DEF WalkInv, ProgressOK
    <3>2. PICK b : b = stack[j]
      OBVIOUS
    <3> QED BY <2>5, <3>1, <3>2
  <2>8. \A n \in ToSet(processed) : Finished(n)' \/ \E j \in DOMAIN stack : stack[j].node = n
    BY <2>5, <2>6 DEF WalkInv, ProgressOK
  <2>9. ProgressOK'
    <3>1. calls' = stack /\ processed' = processed /\ pc' = pc
      BY <2>1, <2>6
    <3>2. Entry \in ToSet(processed) /\ (pc = "done" => stack = <<>>)
      BY <2>6 DEF WalkInv, ProgressOK
    <3> QED BY <2>7, <2>8, <3>1, <3>2 DEF ProgressOK
  <2> QED BY <2>2, <2>3, <2>4, <2>9 DEF WalkInv
<1>6. CASE Done
  BY <1>5, <1>6 DEF Done
<1> QED BY <1>1, <1>2, <1>3, <1>4, <1>5, <1>6 DEF Next

-----------------------------------------------------------------------------
(* The theorems.                                                           *)

\* The walk is a depth-first walk of the dominator tree that has passed every
\* source it holds along the tree: what a call knows of a location is what the
\* paths to its instruction say, what it has recorded is right, and what has
\* returned is finished.  The first block must not be the target of a branch.
THEOREM WalkCorrect == Spec => [](EntryIsNoTarget => WalkInv)
<1>1. Init => (EntryIsNoTarget => WalkInv)
  BY InitKeeps
<1>2. (EntryIsNoTarget => WalkInv) /\ [Next]_vars => (EntryIsNoTarget => WalkInv)'
  <2> SUFFICES ASSUME EntryIsNoTarget => WalkInv, [Next]_vars, EntryIsNoTarget'
               PROVE  WalkInv'
    OBVIOUS
  <2>1. UNCHANGED graphVars
    BY DEF Next, ProcessInstruction, ProcessTerminal, ProcessDominated, Return, Done, vars
  <2>2. EntryIsNoTarget
    BY <2>1 DEF EntryIsNoTarget, parents, graphVars
  <2> QED BY <2>2, WalkKept
<1> QED BY <1>1, <1>2, PTL DEF Spec

\* "This will eventually reach every node": when no call is left, every node
\* that is reached is finished.
LEMMA AllFinished ==
  ASSUME WalkInv, pc = "done"
  PROVE  \A n \in Reached : Finished(n)
<1>1. /\ succ \in Edges /\ Entry \in Nodes /\ Reached = Reach({Entry}, succ)
      /\ Reached \in SUBSET Nodes
  BY SearchesAreReach, NAssumption DEF WalkInv, GraphOK, Nodes, Entry, Reach
<1>2. calls = <<>>
  BY DEF WalkInv, ProgressOK
<1>3. \A n \in ToSet(processed) : Finished(n)
  <2>1. DOMAIN calls = {}
    BY <1>2
  <2> QED BY <2>1 DEF WalkInv, ProgressOK
<1> DEFINE U == Reached \ ToSet(processed)
<1>4. U \subseteq Reach({Entry}, succ) /\ Entry \notin U
  BY <1>1 DEF WalkInv, ProgressOK
<1>5. ASSUME NEW n \in U PROVE \E d \in U : d # n /\ Cuts(d, n, Entry, succ)
  <2>1. n \in Nodes /\ n # Entry /\ n \in Reached
    BY <1>1, <1>4
  <2>2. PICK d \in Nodes : d = imdom[n]
    BY <2>1 DEF WalkInv, GraphOK
  <2>3. d # n /\ Cuts(d, n, Entry, succ)
    BY <2>1, <2>2, SearchesAreReach DEF WalkInv, GraphOK
  <2>4. d \in Reached
    BY <2>1, <2>2, DominatorReached DEF WalkInv
  <2>5. d \notin ToSet(processed)
    BY <1>3, <2>1, <2>2 DEF Finished
  <2> QED BY <2>3, <2>4, <2>5
<1> HIDE DEF U
<1>6. U = {}
  BY <1>1, <1>4, <1>5, FirstOnPath
<1> QED BY <1>3, <1>6 DEF U

\* The invariant contains the exactness of the inputs at the end.
LEMMA WalkGivesInputs == WalkInv => SourcesExact
<1> SUFFICES ASSUME WalkInv, pc = "done"
             PROVE  /\ \A n \in Nodes : \A k \in DOMAIN code[n] : \A l \in code[n][k].ins :
                         InputsOf(<<n, k>>, l) = Sources(n, k, l)
                    /\ Terminal \in Reached =>
                         \A l \in ReturnRegs : InputsOf(EpilogueRef(l), l) = Sources(Terminal, 1, l)
  BY DEF SourcesExact
<1>1. \A n \in Reached : Finished(n)
  BY AllFinished
<1>2. ASSUME NEW n \in Nodes, NEW k \in DOMAIN code[n], NEW l \in code[n][k].ins
      PROVE  InputsOf(<<n, k>>, l) = Sources(n, k, l)
  <2>1. n # Terminal
    BY DEF WalkInv, CodeOK
  <2>2. n \in Reached
    BY <2>1 DEF WalkInv, GraphOK
  <2>3. Recorded(n, k)
    BY <1>1, <2>2 DEF Finished
  <2> QED BY <2>3 DEF Recorded, WalkInv, InputsSound
<1>3. ASSUME Terminal \in Reached, NEW l \in ReturnRegs
      PROVE  InputsOf(EpilogueRef(l), l) = Sources(Terminal, 1, l)
  <2>1. EpilogueRecorded
    BY <1>1, <1>3 DEF Finished
  <2> QED BY <1>3, <2>1 DEF EpilogueRecorded, WalkInv, InputsSound
<1> QED BY <1>2, <1>3

\* The sources found over the dominator tree are exactly the writes that reach
\* the read along some path, for every graph whose first block is not the
\* target of a branch, and every code.
THEOREM InputsCorrect == Spec => []InputsExact
<1>1. Spec => [](EntryIsNoTarget => WalkInv)
  BY WalkCorrect
<1>2. (EntryIsNoTarget => WalkInv) => InputsExact
  BY WalkGivesInputs DEF InputsExact
<1> QED BY <1>1, <1>2, PTL

\* What the invariant says of reads that may see the caller's value.
LEMMA WalkGivesImplicit == WalkInv => ImplicitInputsComplete
<1> SUFFICES ASSUME WalkInv, pc = "done",
                    NEW n \in Nodes, NEW k \in DOMAIN code[n], NEW l \in code[n][k].ins \cap Regs,
                    ~code[n][k].call, PrologueRef(l) \in ValuesAt(n, k, l)
             PROVE  l \in implicit_input_regs
  BY DEF ImplicitInputsComplete
<1>1. n \in Reached
  BY DEF WalkInv, CodeOK, GraphOK
<1>2. Recorded(n, k)
  BY <1>1, AllFinished DEF Finished
<1> DEFINE called == {i \in instr_inputs : i[1][1][1] >= 0 /\ i[2][1] = -1}
<1>3. l \in {i[1][2] : i \in called} \/ l \in missing_regs
  <2>1. CASE Unset \in ValuesAt(n, k, l)
    <3>1. Sources(n, k, l) = {}
      BY <2>1 DEF Sources
    <3> QED BY <1>2, <3>1 DEF Recorded
  <2>2. CASE Unset \notin ValuesAt(n, k, l)
    <3>1. PrologueRef(l) \in InputsOf(<<n, k>>, l)
      BY <1>2, <2>2 DEF Sources, Recorded
    <3>2. PICK i \in instr_inputs : i[1] = <<<<n, k>>, l>> /\ i[2] = PrologueRef(l)
      BY <3>1 DEF InputsOf
    <3>3. i[1][1][1] = n /\ i[2][1] = -1 /\ i[1][2] = l
      BY <3>2 DEF PrologueRef
    <3>4. n >= 0
      BY NAssumption DEF Nodes
    <3> QED BY <3>3, <3>4
  <2> QED BY <2>1, <2>2
<1> QED BY <1>3 DEF implicit_input_regs

\* Every register that an instruction other than a call can read before the
\* function has written it is reported as an implicit input, if the first block
\* is not the target of a branch.
THEOREM ImplicitInputsCorrect == Spec => [](EntryIsNoTarget => ImplicitInputsComplete)
<1>1. Spec => [](EntryIsNoTarget => WalkInv)
  BY WalkCorrect
<1>2. (EntryIsNoTarget => WalkInv) => (EntryIsNoTarget => ImplicitInputsComplete)
  BY WalkGivesImplicit
<1> QED BY <1>1, <1>2, PTL
=============================================================================
