-------------------------- MODULE TopicScenesProofs --------------------------
(***************************************************************************)
(* Proofs about TopicScenes, for any atoms, similarities, thresholds and   *)
(* bounds, with requests, failures and crashes wherever they may come.     *)
(***************************************************************************)
EXTENDS TopicScenes, FiniteSetTheorems, WellFoundedInduction, TLAPS

-----------------------------------------------------------------------------
\* Induction and recursion, as facts about sets and functions.

\* A set of natural numbers has a least one.
LEMMA LeastNat ==
  ASSUME NEW T \in SUBSET Nat, T # {}
  PROVE  \E m \in T : \A k \in T : m <= k
<1> DEFINE R == {p \in Nat \X Nat : p[1] < p[2]}
<1>1. OpToRel(<, Nat) = R
  BY DEF OpToRel
<1>2. IsWellFoundedOn(R, Nat)
  BY <1>1, NatLessThanWellFounded
<1> HIDE DEF R
<1>3. PICK m \in T : \A k \in T : ~(<<k, m>> \in R)
  BY <1>2, WFMin
<1>4. ASSUME NEW k \in T, k < m
      PROVE  FALSE
  <2> DEFINE p == <<k, m>>
  <2>1. p \in Nat \X Nat /\ p[1] < p[2]
    BY <1>4
  <2>2. p \in R
    BY <2>1 DEF R
  <2>q. QED
    BY <1>3, <2>2
<1>q. QED
  BY <1>4

\* Induction up to n.
LEMMA UpTo ==
  ASSUME NEW n \in Nat, NEW T, 0 \in T,
         \A i \in 1..n : i - 1 \in T => i \in T
  PROVE  0..n \subseteq T
<1>1. SUFFICES ASSUME (0..n) \ T # {}
               PROVE  FALSE
  OBVIOUS
<1> DEFINE U == (0..n) \ T
<1>2. U \in SUBSET Nat
  OBVIOUS
<1> HIDE DEF U
<1>3. PICK m \in U : \A k \in U : m <= k
  BY <1>1, <1>2, LeastNat DEF U
<1>4. m \in 1..n /\ m - 1 \notin U
  BY <1>3 DEF U
<1>q. QED
  BY <1>4 DEF U

\* A recursion over 0..n has a solution.
Solves(f, n, b, step) ==
  f = [i \in 0..n |-> IF i = 0 THEN b ELSE step[<<i, f[i - 1]>>]]

LEMMA Recursion ==
  ASSUME NEW n \in Nat, NEW S, NEW b \in S, NEW step \in [(1..n) \X S -> S]
  PROVE  \E f \in [0..n -> S] : Solves(f, n, b, step)
<1> DEFINE T == {i \in 0..n : \E f \in [0..i -> S] : Solves(f, i, b, step)}
<1>1. 0 \in T
  <2> DEFINE f == [i \in 0..0 |-> b]
  <2>1. Solves(f, 0, b, step) /\ f \in [0..0 -> S]
    BY DEF Solves
  <2>q. QED
    BY <2>1
<1>2. ASSUME NEW i \in 1..n, i - 1 \in T
      PROVE  i \in T
  <2>1. PICK g \in [0..(i - 1) -> S] : Solves(g, i - 1, b, step)
    BY <1>2
  <2> DEFINE f == [j \in 0..i |-> IF j = i THEN step[<<i, g[i - 1]>>] ELSE g[j]]
  <2>2. /\ \A j \in 0..(i - 1) : f[j] = g[j]
        /\ f[i] = step[<<i, g[i - 1]>>]
    OBVIOUS
  <2>3. f \in [0..i -> S]
    BY <2>1
  <2> HIDE DEF f
  <2>4. ASSUME NEW j \in 0..i
        PROVE  f[j] = IF j = 0 THEN b ELSE step[<<j, f[j - 1]>>]
    <3>1. CASE j = 0
      <4>1. 0 \in 0..(i - 1)
        OBVIOUS
      <4>2. g[0] = b
        BY <2>1, <4>1 DEF Solves
      <4>q. QED
        BY <2>2, <3>1, <4>1, <4>2
    <3>2. CASE j \in 1..(i - 1)
      <4>1. j \in 0..(i - 1) /\ j - 1 \in 0..(i - 1) /\ j # 0
        BY <3>2
      <4>2. g[j] = step[<<j, g[j - 1]>>]
        BY <2>1, <4>1 DEF Solves
      <4>q. QED
        BY <2>2, <4>1, <4>2
    <3>3. CASE j = i
      <4>1. i - 1 \in 0..(i - 1) /\ i # 0
        OBVIOUS
      <4>q. QED
        BY <2>2, <3>3, <4>1
    <3>q. QED
      BY <3>1, <3>2, <3>3
  <2>5. f = [j \in 0..i |-> f[j]]
    BY <2>3
  <2>6. Solves(f, i, b, step)
    BY <2>4, <2>5 DEF Solves
  <2>q. QED
    BY <2>3, <2>6
<1> HIDE DEF T
<1>3. 0..n \subseteq T
  BY <1>1, <1>2, UpTo
<1>q. QED
  BY <1>3 DEF T

-----------------------------------------------------------------------------
\* Clusters.

\* Those of the first n atoms that found a cluster, given the founders before n.
NewFounders(A, n, before) == before \cup {a \in {n} \cap A : \A f \in before : ~Near(a, f)}

Grows(f, A) ==
  f = [n \in 0..NumAtoms |-> IF n = 0 THEN {} ELSE NewFounders(A, n, f[n - 1])]

FoundedBy(f, A) ==
  /\ f[0] = {}
  /\ \A n \in 1..NumAtoms : f[n] = NewFounders(A, n, f[n - 1])
  /\ Founders(A) = f[NumAtoms]

LEMMA FoundersAre ==
  ASSUME NEW A \in SUBSET Atoms
  PROVE  \E f \in [0..NumAtoms -> SUBSET Atoms] : FoundedBy(f, A)
<1> DEFINE S == SUBSET Atoms
           step == [p \in (1..NumAtoms) \X S |-> NewFounders(A, p[1], p[2])]
<1>1. NumAtoms \in Nat /\ {} \in S
  BY TopicAssumption
<1>2. \A n \in 1..NumAtoms, before \in S : NewFounders(A, n, before) \in S
  BY DEF NewFounders
<1>3. step \in [(1..NumAtoms) \X S -> S]
  BY <1>2
<1>4. \A n \in 1..NumAtoms, before \in S : step[<<n, before>>] = NewFounders(A, n, before)
  OBVIOUS
<1> HIDE DEF S, step
<1>5. PICK g \in [0..NumAtoms -> S] : Solves(g, NumAtoms, {}, step)
  BY <1>1, <1>3, Recursion
<1>6. Grows(g, A)
  <2>1. \A n \in 0..NumAtoms : g[n] = IF n = 0 THEN {} ELSE step[<<n, g[n - 1]>>]
    BY <1>5 DEF Solves
  <2>2. ASSUME NEW n \in 1..NumAtoms
        PROVE  step[<<n, g[n - 1]>>] = NewFounders(A, n, g[n - 1])
    <3>1. n - 1 \in 0..NumAtoms
      BY <1>1
    <3>2. g[n - 1] \in S
      BY <1>5, <3>1
    <3>q. QED
      BY <1>4, <3>2
  <2>3. \A n \in 0..NumAtoms : n = 0 \/ n \in 1..NumAtoms
    BY <1>1
  <2>4. \A n \in 0..NumAtoms : g[n] = IF n = 0 THEN {} ELSE NewFounders(A, n, g[n - 1])
    BY <2>1, <2>2, <2>3, Zenon
  <2>5. g = [n \in 0..NumAtoms |-> g[n]]
    BY <1>5
  <2>q. QED
    BY <2>4, <2>5 DEF Grows
<1> DEFINE f == CHOOSE h : Grows(h, A)
<1>7. Grows(f, A)
  BY <1>6
<1>8. Founders(A) = f[NumAtoms]
  BY DEF Founders, Grows, NewFounders
<1> HIDE DEF f
<1>9. f[0] = {} /\ \A n \in 1..NumAtoms : f[n] = NewFounders(A, n, f[n - 1])
  <2>1. \A n \in 0..NumAtoms : f[n] = IF n = 0 THEN {} ELSE NewFounders(A, n, f[n - 1])
    BY <1>7, Zenon DEF Grows
  <2>2. 0 \in 0..NumAtoms
    BY <1>1
  <2>3. f[0] = {}
    BY <2>1, <2>2, Zenon
  <2>4. \A n \in 1..NumAtoms : n \in 0..NumAtoms /\ n # 0
    BY <1>1
  <2>q. QED
    BY <2>1, <2>3, <2>4, Zenon
<1> DEFINE T == {n \in 0..NumAtoms : f[n] \in S}
<1>10. 0 \in T
  <2>1. 0 \in 0..NumAtoms /\ f[0] \in S
    BY <1>1, <1>9
  <2>q. QED
    BY <2>1
<1>11. ASSUME NEW n \in 1..NumAtoms, n - 1 \in T
       PROVE  n \in T
  BY <1>2, <1>9, <1>11
<1> HIDE DEF T
<1>12. 0..NumAtoms \subseteq T
  BY <1>1, <1>10, <1>11, UpTo
<1>13. DOMAIN f = 0..NumAtoms /\ f = [n \in 0..NumAtoms |-> f[n]]
  BY <1>7 DEF Grows
<1>14. f \in [0..NumAtoms -> S]
  BY <1>12, <1>13 DEF T
<1>q. QED
  BY <1>8, <1>9, <1>14 DEF FoundedBy, S

\* A founder is one of the atoms; one that is no founder is near an earlier one.
LEMMA FoundersCover ==
  ASSUME NEW A \in SUBSET Atoms
  PROVE  /\ Founders(A) \subseteq A
         /\ \A a \in A \ Founders(A) : \E f \in Founders(A) : f < a /\ Near(a, f)
<1>1. PICK up \in [0..NumAtoms -> SUBSET Atoms] : FoundedBy(up, A)
  BY FoundersAre
<1>2. NumAtoms \in Nat
  BY TopicAssumption
<1>3. /\ up[0] = {}
      /\ \A n \in 1..NumAtoms : up[n] = NewFounders(A, n, up[n - 1])
      /\ Founders(A) = up[NumAtoms]
  BY <1>1 DEF FoundedBy
<1> DEFINE T == {n \in 0..NumAtoms : \A a \in up[n] : a \in A /\ a <= n}
<1>4. 0 \in T
  BY <1>2, <1>3
<1>5. ASSUME NEW n \in 1..NumAtoms, n - 1 \in T
      PROVE  n \in T
  <2>1. up[n] = NewFounders(A, n, up[n - 1])
    BY <1>3
  <2>2. ASSUME NEW a \in up[n]
        PROVE  a \in A /\ a <= n
    <3>1. a \in up[n - 1] \/ a \in {n} \cap A
      BY <2>1 DEF NewFounders
    <3>2. CASE a \in up[n - 1]
      <4>1. a \in A /\ a <= n - 1
        BY <1>5, <3>2
      <4>2. a \in Int
        BY <4>1 DEF Atoms
      <4>q. QED
        BY <1>2, <4>1, <4>2
    <3>q. QED
      BY <1>2, <3>1, <3>2
  <2>q. QED
    BY <2>2
<1> HIDE DEF T
<1>6. 0..NumAtoms \subseteq T
  BY <1>2, <1>4, <1>5, UpTo
<1>7. NumAtoms \in T
  BY <1>2, <1>6
<1>8. Founders(A) \subseteq A
  BY <1>3, <1>7 DEF T
<1>9. ASSUME NEW n \in 0..NumAtoms
      PROVE  up[n] \subseteq Founders(A)
  <2> DEFINE U == {m \in 0..NumAtoms : m >= n => up[n] \subseteq up[m]}
  <2>1. 0 \in U
    BY <1>2
  <2>2. ASSUME NEW m \in 1..NumAtoms, m - 1 \in U
        PROVE  m \in U
    <3>1. up[m - 1] \subseteq up[m]
      BY <1>3 DEF NewFounders
    <3>2. m >= n => m = n \/ m - 1 >= n
      OBVIOUS
    <3>q. QED
      BY <2>2, <3>1, <3>2
  <2> HIDE DEF U
  <2>3. 0..NumAtoms \subseteq U
    BY <1>2, <2>1, <2>2, UpTo
  <2>4. NumAtoms \in U
    BY <1>2, <2>3
  <2>q. QED
    BY <1>2, <1>3, <2>4 DEF U
<1>10. ASSUME NEW a \in A \ Founders(A)
       PROVE  \E f \in Founders(A) : f < a /\ Near(a, f)
  <2>1. a \in 1..NumAtoms /\ a - 1 \in 0..NumAtoms /\ a \in 0..NumAtoms
    BY <1>2 DEF Atoms
  <2>2. a \notin up[a]
    BY <1>9, <2>1
  <2>3. up[a] = NewFounders(A, a, up[a - 1])
    BY <1>3, <2>1
  <2>4. PICK f \in up[a - 1] : Near(a, f)
    BY <2>2, <2>3 DEF NewFounders
  <2>5. f \in A /\ f <= a - 1
    BY <1>6, <2>1 DEF T
  <2>6. f < a
    BY <2>1, <2>5 DEF Atoms
  <2>q. QED
    BY <1>9, <2>1, <2>4, <2>6
<1>q. QED
  BY <1>8, <1>10

LEMMA JoinsOne ==
  ASSUME NEW F \in SUBSET Atoms, NEW a \in Atoms, NEW f \in F, NEW g \in F,
         Joins(a, f, F), Joins(a, g, F)
  PROVE  f = g
<1> SUFFICES ASSUME f # g
             PROVE  FALSE
  OBVIOUS
<1>1. /\ <<a, f>> \in Atoms \X Atoms /\ <<a, g>> \in Atoms \X Atoms
      /\ Similarity \in [Atoms \X Atoms -> 0..100]
  BY TopicAssumption
<1>2. Similarity[<<a, f>>] \in Int /\ Similarity[<<a, g>>] \in Int /\ f \in Int /\ g \in Int
  BY <1>1 DEF Atoms
<1>3. f < a /\ g < a
  BY DEF Joins
<1>4. \/ Similarity[<<a, g>>] < Similarity[<<a, f>>]
      \/ Similarity[<<a, g>>] = Similarity[<<a, f>>] /\ f < g
  BY <1>3 DEF Joins
<1>5. \/ Similarity[<<a, f>>] < Similarity[<<a, g>>]
      \/ Similarity[<<a, f>>] = Similarity[<<a, g>>] /\ g < f
  BY <1>3 DEF Joins
<1>q. QED
  BY <1>2, <1>4, <1>5

\* The most similar founder, the first of several, is there as soon as one is near.
LEMMA JoinsSome ==
  ASSUME NEW F \in SUBSET Atoms, NEW a \in Atoms, \E f \in F : f < a /\ Near(a, f)
  PROVE  \E f \in F : Joins(a, f, F)
<1> DEFINE sim == [f \in F |-> Similarity[<<a, f>>]]
<1>1. ASSUME NEW f \in F
      PROVE  sim[f] \in 0..100 /\ sim[f] = Similarity[<<a, f>>] /\ f \in Nat
  <2>1. <<a, f>> \in Atoms \X Atoms /\ f \in Nat
    BY DEF Atoms
  <2>2. Similarity[<<a, f>>] \in 0..100
    BY <2>1, TopicAssumption
  <2>3. sim[f] = Similarity[<<a, f>>]
    OBVIOUS
  <2>q. QED
    BY <2>1, <2>2, <2>3
<1> HIDE DEF sim
<1> DEFINE N == {f \in F : f < a /\ Near(a, f)}
           far == {100 - sim[f] : f \in N}
<1>2. far \in SUBSET Nat /\ far # {}
  <2>1. \A f \in N : f \in F
    OBVIOUS
  <2>2. N # {}
    OBVIOUS
  <2> HIDE DEF N
  <2>3. ASSUME NEW f \in N
        PROVE  100 - sim[f] \in Nat
    <3>1. sim[f] \in 0..100
      BY <1>1, <2>1
    <3>q. QED
      BY <3>1
  <2>q. QED
    BY <2>2, <2>3 DEF far
<1>3. PICK d \in far : \A k \in far : d <= k
  BY <1>2, LeastNat
<1> DEFINE B == {f \in N : 100 - sim[f] = d}
<1>4. B \in SUBSET Nat /\ B # {}
  BY <1>1, <1>3
<1>5. PICK m \in B : \A k \in B : m <= k
  BY <1>4, LeastNat
<1>6. /\ m \in F /\ m < a /\ Near(a, m) /\ 100 - sim[m] = d
      /\ sim[m] \in Int /\ sim[m] = Similarity[<<a, m>>] /\ m \in Nat /\ d \in Nat
  BY <1>1, <1>2, <1>3, <1>5
<1>7. ASSUME NEW g \in F \ {m}, g < a
      PROVE  \/ Similarity[<<a, g>>] < Similarity[<<a, m>>]
             \/ Similarity[<<a, g>>] = Similarity[<<a, m>>] /\ m < g
  <2> HIDE DEF far, B
  <2>0. sim[g] \in Int /\ sim[g] = Similarity[<<a, g>>] /\ g \in Nat
    BY <1>1
  <2>1. CASE ~Near(a, g)
    <3>1. sim[m] >= TopicPercent /\ ~(sim[g] >= TopicPercent)
      BY <1>6, <2>0, <2>1 DEF Near
    <3>q. QED
      BY <1>6, <2>0, <3>1, TopicAssumption
  <2>2. CASE Near(a, g)
    <3>1. g \in N /\ 100 - sim[g] \in far
      BY <1>7, <2>2 DEF far
    <3>2. d <= 100 - sim[g]
      BY <1>3, <3>1
    <3>3. CASE 100 - sim[g] = d
      <4>1. m <= g
        BY <1>5, <3>1, <3>3 DEF B
      <4>2. m < g /\ sim[g] = sim[m]
        BY <1>6, <1>7, <2>0, <3>3, <4>1
      <4>q. QED
        BY <1>6, <2>0, <4>2
    <3>4. CASE d < 100 - sim[g]
      BY <1>6, <2>0, <3>4
    <3>q. QED
      BY <1>6, <2>0, <3>2, <3>3, <3>4
  <2>q. QED
    BY <2>1, <2>2
<1>q. QED
  BY <1>6, <1>7 DEF Joins

ClusterOf(f, A) ==
  {f} \cup {a \in A \ Founders(A) : Joins(a, f, Founders(A))}

LEMMA ClustersAre ==
  ASSUME NEW A
  PROVE  Clusters(A) = {ClusterOf(f, A) : f \in Founders(A)}
  BY DEF Clusters, ClusterOf

\* clusterAtoms loses no atom and puts none into two clusters, whatever the
\* similarities and however many founders tie (core.ts:565-595).
THEOREM ClustersPartition ==
  ASSUME NEW A \in SUBSET Atoms
  PROVE  /\ UNION Clusters(A) = A
         /\ \A c \in Clusters(A) : c # {}
         /\ \A c, d \in Clusters(A) : c # d => c \cap d = {}
<1> DEFINE F == Founders(A)
<1>1. F \subseteq A /\ F \in SUBSET Atoms
  BY FoundersCover
<1>2. Clusters(A) = {ClusterOf(f, A) : f \in F}
  BY ClustersAre
<1>3. \A f \in F : f \in ClusterOf(f, A) /\ ClusterOf(f, A) \subseteq A
  BY <1>1 DEF ClusterOf
<1>4. ASSUME NEW a \in A
      PROVE  \E f \in F : a \in ClusterOf(f, A)
  <2>1. CASE a \in F
    BY <1>3, <2>1
  <2>2. CASE a \notin F
    <3>1. \E f \in F : f < a /\ Near(a, f)
      BY <2>2, FoundersCover
    <3>2. PICK f \in F : Joins(a, f, F)
      BY <1>1, <3>1, JoinsSome
    <3>q. QED
      BY <2>2, <3>2 DEF ClusterOf
  <2>q. QED
    BY <2>1, <2>2
<1>5. ASSUME NEW f \in F, NEW g \in F, NEW a \in ClusterOf(f, A) \cap ClusterOf(g, A)
      PROVE  f = g
  <2>1. CASE a \in F
    BY <2>1 DEF ClusterOf
  <2>2. CASE a \notin F
    <3>1. Joins(a, f, F) /\ Joins(a, g, F) /\ a \in Atoms
      BY <1>1, <2>2 DEF ClusterOf
    <3>q. QED
      BY <1>1, <3>1, JoinsOne
  <2>q. QED
    BY <2>1, <2>2
<1> HIDE DEF F
<1>6. UNION Clusters(A) = A
  BY <1>2, <1>3, <1>4
<1>7. \A c \in Clusters(A) : c # {}
  BY <1>2, <1>3
<1>8. \A c, d \in Clusters(A) : c # d => c \cap d = {}
  BY <1>2, <1>5
<1>q. QED
  BY <1>6, <1>7, <1>8

-----------------------------------------------------------------------------
\* The invariant.

\* The scenes the loop at hand has yet to visit, and those in service that are not
\* among them.
Pending == DOMAIN seen \ visited
Placed == ActiveScenes \ Pending

Placing == pc \in {"placing", "superseding"}

\* What the pass does when its call returns concerns a scene it has yet to visit.
TaskInv ==
  /\ pc = "superseding" => task.id \in Pending /\ task.heir \in 1..born /\ ~clean
  /\ pc = "asked" => task.id \in Pending

\* As long as nobody else writes, a scene the pass has read stays in service
\* until its turn comes.
StillInv == ~disturbed => Pending \subseteq ActiveScenes

\* The clusters that are no longer to be placed have one scene each.
PlacedInv ==
  Placing /\ ~disturbed =>
    /\ clusters \subseteq Clusters(active)
    /\ {scenes[i].members : i \in Placed} = Clusters(active) \ clusters
    /\ \A i, k \in Placed : i # k => scenes[i].members # scenes[k].members

\* Once all are placed, narration writes each scene back with the members it has.
CleanInv ==
  clean =>
    /\ {scenes[i].members : i \in ActiveScenes} = Clusters(active)
    /\ \A i, k \in ActiveScenes : i # k => scenes[i].members # scenes[k].members
    /\ pc \in {"narrating", "asked"} =>
         \A i \in DOMAIN seen :
           scenes[i].status = "active" /\ scenes[i].members = seen[i].members

IInv == TypeOK /\ TaskInv /\ StillInv /\ PlacedInv /\ CleanInv

\* A row is written as the call names it, but for whether it is rendered; the other
\* rows stay.
Wrote(i, row) ==
  /\ scenes' \in [Ids -> Scene]
  /\ \A k \in Ids \ {i} : scenes'[k] = scenes[k]
  /\ scenes'[i].status = row.status
  /\ scenes'[i].members = row.members
  /\ scenes'[i].from = row.from
  /\ scenes'[i].by = row.by

Goes == awaited' \in BOOLEAN /\ faults' \in 0..MaxFaults

LEMMA Numbers ==
  /\ MaxScenes \in Nat /\ MaxFaults \in Nat /\ MaxWrites \in Nat
  /\ Ids = 1..MaxScenes
  BY TopicAssumption DEF Ids

LEMMA EmptySeen ==
  /\ DOMAIN <<>> = {}
  OBVIOUS

LEMMA Done ==
  ASSUME TypeOK, NEW i \in Ids, NEW row \in Scene, NEW retitled \in BOOLEAN,
         UpsertDone(i, row, retitled)
  PROVE  Wrote(i, row) /\ Goes
<1>1. scenes \in [Ids -> Scene] /\ scenes[i] \in Scene
  BY DEF TypeOK
<1>2. scenes[i].rendered \in BOOLEAN
  BY <1>1 DEF Scene
<1>3. NeedsEmbedding(i, retitled) \in BOOLEAN
  BY <1>2 DEF NeedsEmbedding
<1>4. scenes' = [scenes EXCEPT ![i] = [row EXCEPT !.rendered = TRUE]]
  BY DEF UpsertDone
<1>5. [row EXCEPT !.rendered = TRUE] \in Scene
  BY DEF Scene
<1>6. Wrote(i, row)
  BY <1>1, <1>4, <1>5 DEF Wrote, Scene
<1>q. QED
  BY <1>3, <1>6 DEF UpsertDone, Goes, TypeOK

LEMMA Throws ==
  ASSUME TypeOK, NEW i \in Ids, NEW row \in Scene, NEW retitled \in BOOLEAN,
         UpsertThrows(i, row, retitled)
  PROVE  Wrote(i, row) /\ Goes /\ Leave
<1>1. scenes \in [Ids -> Scene] /\ scenes[i] \in Scene
  BY DEF TypeOK
<1> DEFINE drawn == ~NeedsEmbedding(i, retitled)
<1>2. drawn \in BOOLEAN
  OBVIOUS
<1>3. scenes' = [scenes EXCEPT ![i] = [row EXCEPT !.rendered = drawn]] /\ Leave
  BY DEF UpsertThrows
<1> HIDE DEF drawn
<1>4. [row EXCEPT !.rendered = drawn] \in Scene
  BY <1>2 DEF Scene
<1>5. Wrote(i, row)
  BY <1>1, <1>3, <1>4 DEF Wrote, Scene
<1>6. faults' \in 0..MaxFaults
  BY Numbers DEF UpsertThrows, Fault, TypeOK
<1>q. QED
  BY <1>3, <1>5, <1>6 DEF Goes, Leave

\* What a call of upsertScene leaves out, and what it is given.
LEMMA RowIs ==
  ASSUME TypeOK, NEW i \in Ids, NEW status \in {"active", "retired"},
         NEW members \in SUBSET Atoms
  PROVE  /\ Row(i, status, members) \in Scene
         /\ Row(i, status, members).status = status
         /\ Row(i, status, members).members = members
         /\ Row(i, status, members).from = scenes[i].from
         /\ Row(i, status, members).by = scenes[i].by
<1>1. scenes[i] \in Scene
  BY DEF TypeOK
<1>q. QED
  BY <1>1 DEF Row, Scene

LEMMA CreateIs ==
  ASSUME NEW c \in SUBSET Atoms, NEW from \in SUBSET Ids
  PROVE  /\ Create(c, from) \in Scene
         /\ Create(c, from).status = "active"
         /\ Create(c, from).members = c
         /\ Create(c, from).from = from
         /\ Create(c, from).by = {}
<1>1. {} \in SUBSET Ids /\ NoText \in (SUBSET Atoms) \cup {NoText}
  OBVIOUS
<1>q. QED
  BY <1>1 DEF Create, NoScene, Scene

LEMMA NoSceneIs == NoScene \in Scene /\ NoScene.status = "absent"
<1>1. {} \in SUBSET Ids /\ {} \in SUBSET Atoms /\ NoText \in (SUBSET Atoms) \cup {NoText}
  OBVIOUS
<1>q. QED
  BY <1>1 DEF NoScene, Scene

\* Scenes in service have been given an id.
LEMMA ActiveAreBorn ==
  ASSUME TypeOK
  PROVE  /\ ActiveScenes \subseteq 1..born
         /\ 1..born \subseteq Ids
         /\ \A i \in Ids : i > born => i \notin ActiveScenes /\ i \notin DOMAIN seen
<1>1. \A i \in Ids : i > born => scenes[i].status = "absent"
  BY NoSceneIs DEF TypeOK
<1>2. ActiveScenes \subseteq 1..born
  BY <1>1, Numbers DEF ActiveScenes, TypeOK
<1>q. QED
  BY <1>2, Numbers DEF TypeOK

-----------------------------------------------------------------------------
\* Types.

PassTypes ==
  /\ pc \in {"idle", "episodes", "placing", "superseding", "narrating", "asked", "core"}
  /\ clusters \subseteq SUBSET Atoms
  /\ DOMAIN seen \subseteq 1..born
  /\ \A i \in DOMAIN seen : seen[i] \in Scene /\ seen[i].status = "active"
  /\ visited \subseteq DOMAIN seen
  /\ task \in [id : 0..MaxScenes, heir : 0..MaxScenes, live : SUBSET Atoms]
  /\ failed \in BOOLEAN

StoreTypes ==
  /\ known \subseteq Atoms
  /\ active \subseteq known
  /\ scenes \in [Ids -> Scene]
  /\ born \in 0..MaxScenes
  /\ writes \in 0..MaxWrites
  /\ \A i \in Ids : i > born => scenes[i] = NoScene
  /\ fresh \in BOOLEAN /\ dirty \in BOOLEAN

LEMMA TypesAre ==
  TypeOK <=> /\ PassTypes /\ StoreTypes /\ faults \in 0..MaxFaults
             /\ awaited \in BOOLEAN /\ disturbed \in BOOLEAN /\ clean \in BOOLEAN
  BY DEF TypeOK, PassTypes, StoreTypes

LEMMA NoTaskIs == NoTask \in [id : 0..MaxScenes, heir : 0..MaxScenes, live : SUBSET Atoms]
<1>1. 0 \in 0..MaxScenes /\ {} \in SUBSET Atoms
  BY Numbers
<1>q. QED
  BY <1>1 DEF NoTask

\* A pass that ends leaves nothing in memory.
LEMMA Left ==
  ASSUME Leave
  PROVE  /\ PassTypes' /\ awaited' \in BOOLEAN
         /\ TaskInv' /\ StillInv' /\ PlacedInv'
<1>1. /\ pc' = "idle" /\ seen' = <<>> /\ clusters' = {} /\ visited' = {} /\ task' = NoTask
      /\ failed' = FALSE
  BY DEF Leave
<1>2. DOMAIN seen' = {}
  BY <1>1, EmptySeen
<1>3. PassTypes'
  BY <1>1, <1>2, NoTaskIs DEF PassTypes
<1>4. Pending' = {}
  BY <1>2 DEF Pending
<1>q. QED
  BY <1>1, <1>3, <1>4 DEF Leave, TaskInv, StillInv, PlacedInv, Placing

\* The store after one scene was written, under an id there was or a new one.
LEMMA StoreKept ==
  ASSUME TypeOK, NEW i \in 1..born', born' \in born..MaxScenes, NEW row, Wrote(i, row),
         UNCHANGED <<known, active, writes, fresh, dirty>>
  PROVE  StoreTypes'
<1>1. /\ scenes' \in [Ids -> Scene]
      /\ \A k \in Ids \ {i} : scenes'[k] = scenes[k]
  BY DEF Wrote
<1>2. born \in 0..MaxScenes /\ born' \in 0..MaxScenes /\ MaxScenes \in Nat
  BY Numbers DEF TypeOK
<1>3. ASSUME NEW k \in Ids, k > born'
      PROVE  scenes'[k] = NoScene
  <2>1. k \in Int /\ k # i /\ k > born
    BY <1>2, <1>3 DEF Ids
  <2>q. QED
    BY <1>1, <2>1 DEF TypeOK
<1>q. QED
  BY <1>1, <1>2, <1>3 DEF TypeOK, StoreTypes

LEMMA SceneSeen ==
  ASSUME TypeOK, NEW i \in DOMAIN seen
  PROVE  /\ i \in Ids /\ i \in 1..born
         /\ seen[i] \in Scene /\ seen[i].members \in SUBSET Atoms
         /\ seen[i].hash \in (SUBSET Atoms) \cup {NoText}
<1>1. i \in 1..born /\ seen[i] \in Scene
  BY DEF TypeOK
<1>q. QED
  BY <1>1, ActiveAreBorn DEF Scene

-----------------------------------------------------------------------------
\* What each step of a pass does.

\* The cluster has a scene, and the pass goes on.
Went(i, c) ==
  /\ clusters' = clusters \ {c}
  /\ visited' = visited \cup {i}
  /\ UNCHANGED <<pc, seen, task, failed>>

LEMMA KeepIs ==
  ASSUME TypeOK, NEW c \in clusters, NEW i \in DOMAIN seen, Keep(c, i)
  PROVE  /\ Wrote(i, Row(i, "active", c))
         /\ scenes'[i].status = "active" /\ scenes'[i].members = c
         /\ scenes'[i].from = scenes[i].from /\ scenes'[i].by = scenes[i].by
         /\ i \in Pending /\ pc = "placing"
         /\ Went(i, c) \/ Leave
         /\ UNCHANGED <<known, active, born, writes, fresh, dirty, disturbed>>
         /\ clean' = FALSE
         /\ TypeOK'
<1>1. i \in Ids /\ i \in 1..born
  BY SceneSeen
<1>2. c \in SUBSET Atoms
  BY DEF TypeOK
<1> DEFINE row == Row(i, "active", c)
<1>3. /\ row \in Scene /\ row.status = "active" /\ row.members = c
      /\ row.from = scenes[i].from /\ row.by = scenes[i].by
  BY <1>1, <1>2, RowIs
<1> HIDE DEF row
<1>4. /\ \/ UpsertDone(i, row, FALSE) /\ Went(i, c)
         \/ UpsertThrows(i, row, FALSE)
      /\ UNCHANGED <<known, active, born, writes, fresh, dirty, disturbed>>
      /\ clean' = FALSE /\ i \in BestFor(c) /\ pc = "placing"
  BY DEF Keep, Went, row
<1>5. Wrote(i, row) /\ Goes
  BY <1>1, <1>3, <1>4, Done, Throws
<1>6. Went(i, c) \/ Leave
  BY <1>1, <1>3, <1>4, Throws
<1>7. i \in Pending
  BY <1>4 DEF BestFor, Pending
<1>8. /\ scenes'[i].status = "active" /\ scenes'[i].members = c
      /\ scenes'[i].from = scenes[i].from /\ scenes'[i].by = scenes[i].by
  BY <1>3, <1>5 DEF Wrote
<1>9. PassTypes'
  <2>1. CASE Leave
    BY <2>1, Left
  <2>2. CASE Went(i, c)
    BY <1>4, <2>2 DEF Went, PassTypes, TypeOK
  <2>q. QED
    BY <1>6, <2>1, <2>2
<1>10. StoreTypes'
  <2>1. born' \in born..MaxScenes /\ i \in 1..born'
    BY <1>1, <1>4, Numbers DEF TypeOK
  <2>q. QED
    BY <1>4, <1>5, <2>1, StoreKept
<1>11. disturbed' \in BOOLEAN /\ clean' \in BOOLEAN
  BY <1>4 DEF TypeOK
<1>12. TypeOK'
  BY <1>5, <1>9, <1>10, <1>11 DEF TypeOK, Goes, PassTypes, StoreTypes
<1>q. QED
  BY <1>4, <1>5, <1>6, <1>7, <1>8, <1>12 DEF row

LEMMA SpawnIs ==
  ASSUME TypeOK, NEW c \in clusters, Spawn(c)
  PROVE  /\ Wrote(born + 1, Create(c, {}))
         /\ scenes'[born + 1].status = "active" /\ scenes'[born + 1].members = c
         /\ born + 1 \in Ids /\ born' = born + 1
         /\ pc = "placing"
         /\ \/ clusters' = clusters \ {c} /\ UNCHANGED <<pc, seen, visited, task, failed>>
            \/ Leave
         /\ UNCHANGED <<known, active, writes, fresh, dirty, disturbed>>
         /\ clean' = FALSE
         /\ TypeOK'
<1> DEFINE row == Create(c, {})
           i == born + 1
<1>0. c \in SUBSET Atoms /\ {} \in SUBSET Ids
  BY DEF TypeOK
<1>1. row \in Scene /\ row.status = "active" /\ row.members = c
  BY <1>0, CreateIs
<1>2. born < MaxScenes /\ born' = i /\ pc = "placing"
  BY DEF Spawn
<1>3. i \in Ids /\ i \in 1..born' /\ born' \in born..MaxScenes
  BY <1>2, Numbers DEF TypeOK
<1>4. /\ \/ /\ UpsertDone(i, row, TRUE)
            /\ clusters' = clusters \ {c} /\ UNCHANGED <<pc, seen, visited, task, failed>>
         \/ UpsertThrows(i, row, TRUE)
      /\ UNCHANGED <<known, active, writes, fresh, dirty, disturbed>>
      /\ clean' = FALSE
  BY DEF Spawn
<1> HIDE DEF row, i
<1>5. Wrote(i, row) /\ Goes
  BY <1>1, <1>3, <1>4, Done, Throws
<1>6. \/ clusters' = clusters \ {c} /\ UNCHANGED <<pc, seen, visited, task, failed>>
      \/ Leave
  BY <1>1, <1>3, <1>4, Throws
<1>8. scenes'[i].status = "active" /\ scenes'[i].members = c
  BY <1>1, <1>5 DEF Wrote
<1>9. PassTypes'
  <2>1. CASE Leave
    BY <2>1, Left
  <2>2. CASE clusters' = clusters \ {c} /\ UNCHANGED <<pc, seen, visited, task, failed>>
    <3>1. 1..born \subseteq 1..born'
      BY <1>2 DEF TypeOK, i
    <3>q. QED
      BY <2>2, <3>1 DEF PassTypes, TypeOK
  <2>q. QED
    BY <1>6, <2>1, <2>2
<1>10. StoreTypes'
  BY <1>3, <1>4, <1>5, StoreKept
<1>11. disturbed' \in BOOLEAN /\ clean' \in BOOLEAN
  BY <1>4 DEF TypeOK
<1>12. TypeOK'
  BY <1>5, <1>9, <1>10, <1>11 DEF TypeOK, Goes, PassTypes, StoreTypes
<1>q. QED
  BY <1>2, <1>3, <1>4, <1>5, <1>6, <1>8, <1>12 DEF row, i

LEMMA ReorganizeIs ==
  ASSUME TypeOK, NEW c \in clusters, NEW i \in DOMAIN seen, Reorganize(c, i)
  PROVE  /\ Wrote(born + 1, Create(c, {i}))
         /\ scenes'[born + 1].status = "active" /\ scenes'[born + 1].members = c
         /\ scenes'[born + 1].from = {i}
         /\ born + 1 \in Ids /\ born' = born + 1
         /\ i \in Pending /\ pc = "placing"
         /\ \/ /\ clusters' = clusters \ {c} /\ UNCHANGED <<seen, visited, failed>>
               /\ pc' = "superseding" /\ task'.id = i /\ task'.heir = born + 1
            \/ Leave
         /\ UNCHANGED <<known, active, writes, fresh, dirty, disturbed>>
         /\ clean' = FALSE
         /\ TypeOK'
<1> DEFINE row == Create(c, {i})
           h == born + 1
<1>0. c \in SUBSET Atoms /\ {i} \in SUBSET Ids /\ i \in 1..born
  BY SceneSeen DEF TypeOK
<1>1. row \in Scene /\ row.status = "active" /\ row.members = c /\ row.from = {i}
  <2> DEFINE from == {i}
  <2>1. from \in SUBSET Ids
    BY <1>0
  <2> HIDE DEF from
  <2>2. /\ Create(c, from) \in Scene /\ Create(c, from).status = "active"
        /\ Create(c, from).members = c /\ Create(c, from).from = from
    BY <1>0, <2>1, CreateIs
  <2>q. QED
    BY <2>2, Zenon DEF from
<1>2. born < MaxScenes /\ born' = h /\ pc = "placing" /\ i \in BestFor(c)
  BY DEF Reorganize
<1>3. h \in Ids /\ h \in 1..born' /\ born' \in born..MaxScenes
  BY <1>2, Numbers DEF TypeOK
<1> DEFINE Goes2 == /\ clusters' = clusters \ {c} /\ UNCHANGED <<seen, visited, failed>>
                    /\ pc' = "superseding" /\ task' = [id |-> i, heir |-> h, live |-> {}]
<1>4. /\ \/ UpsertDone(h, row, TRUE) /\ Goes2
         \/ UpsertThrows(h, row, TRUE)
      /\ UNCHANGED <<known, active, writes, fresh, dirty, disturbed>>
      /\ clean' = FALSE
  BY DEF Reorganize
<1>p. i \in Pending
  BY <1>2 DEF BestFor, Pending
<1> HIDE DEF row
<1>5. Wrote(h, row) /\ Goes
  BY <1>1, <1>3, <1>4, Done, Throws
<1>6. Goes2 \/ Leave
  BY <1>1, <1>3, <1>4, Throws
<1>8. /\ scenes'[h].status = "active" /\ scenes'[h].members = c
      /\ scenes'[h].from = {i}
  BY <1>1, <1>5 DEF Wrote
<1>9. PassTypes'
  <2>1. CASE Leave
    BY <2>1, Left
  <2>2. CASE Goes2
    <3>1. 1..born \subseteq 1..born'
      BY <1>2 DEF TypeOK
    <3>2. task' \in [id : 0..MaxScenes, heir : 0..MaxScenes, live : SUBSET Atoms]
      <4>1. i \in 0..MaxScenes /\ h \in 0..MaxScenes
        BY <1>0, <1>3, Numbers DEF TypeOK
      <4>2. {} \in SUBSET Atoms
        OBVIOUS
      <4> HIDE DEF h
      <4>q. QED
        BY <2>2, <4>1, <4>2
    <3>q. QED
      BY <2>2, <3>1, <3>2 DEF PassTypes, TypeOK
  <2>q. QED
    BY <1>6, <2>1, <2>2
<1>10. StoreTypes'
  BY <1>3, <1>4, <1>5, StoreKept
<1>11. disturbed' \in BOOLEAN /\ clean' \in BOOLEAN
  BY <1>4 DEF TypeOK
<1>12. TypeOK'
  BY <1>5, <1>9, <1>10, <1>11 DEF TypeOK, Goes, PassTypes, StoreTypes
<1>13. \/ /\ clusters' = clusters \ {c} /\ UNCHANGED <<seen, visited, failed>>
          /\ pc' = "superseding" /\ task'.id = i /\ task'.heir = h
       \/ Leave
  BY <1>6
<1>q. QED
  BY <1>2, <1>3, <1>4, <1>5, <1>8, <1>12, <1>13, <1>p DEF row

\* A scene is taken out of service.
LEMMA SupersedeIs ==
  ASSUME TypeOK, TaskInv, Supersede
  PROVE  LET i == task.id
         IN  /\ i \in Pending /\ i \in Ids /\ pc = "superseding"
             /\ \E row : Wrote(i, row)
             /\ scenes'[i].status = "retired" /\ scenes'[i].by = {task.heir}
             /\ \/ /\ visited' = visited \cup {i} /\ pc' = "placing"
                   /\ UNCHANGED <<clusters, seen, failed>>
                \/ Leave
             /\ UNCHANGED <<known, active, born, writes, fresh, dirty, disturbed, clean>>
             /\ TypeOK'
<1> DEFINE i == task.id
           row == [Row(i, "retired", seen[i].members) EXCEPT !.by = {task.heir}]
<1>0. pc = "superseding" /\ i \in Pending /\ task.heir \in 1..born
  BY DEF Supersede, TaskInv
<1>1. i \in DOMAIN seen /\ i \in Ids /\ i \in 1..born /\ seen[i].members \in SUBSET Atoms
  BY <1>0, SceneSeen DEF Pending
<1>2. /\ Row(i, "retired", seen[i].members) \in Scene
      /\ Row(i, "retired", seen[i].members).status = "retired"
  BY <1>1, RowIs
<1>3. {task.heir} \in SUBSET Ids
  BY <1>0, ActiveAreBorn
<1>4. row \in Scene /\ row.status = "retired" /\ row.by = {task.heir}
  BY <1>2, <1>3 DEF Scene
<1> DEFINE On == /\ visited' = visited \cup {i} /\ pc' = "placing" /\ task' = NoTask
                 /\ UNCHANGED <<clusters, seen, failed>>
<1>5. /\ \/ UpsertDone(i, row, FALSE) /\ On
         \/ UpsertThrows(i, row, FALSE)
      /\ UNCHANGED <<known, active, born, writes, fresh, dirty, disturbed, clean>>
  BY DEF Supersede
<1> HIDE DEF row, i
<1>6. Wrote(i, row) /\ Goes
  BY <1>1, <1>4, <1>5, Done, Throws
<1>7. On \/ Leave
  BY <1>1, <1>4, <1>5, Throws
<1>8. scenes'[i].status = "retired" /\ scenes'[i].by = {task.heir}
  BY <1>4, <1>6 DEF Wrote
<1>9. PassTypes'
  <2>1. CASE Leave
    BY <2>1, Left
  <2>2. CASE On
    BY <1>1, <1>5, <2>2, NoTaskIs DEF PassTypes, TypeOK
  <2>q. QED
    BY <1>7, <2>1, <2>2
<1>10. StoreTypes'
  <2>1. born' \in born..MaxScenes /\ i \in 1..born'
    BY <1>1, <1>5, Numbers DEF TypeOK
  <2>q. QED
    BY <1>5, <1>6, <2>1, StoreKept
<1>11. disturbed' \in BOOLEAN /\ clean' \in BOOLEAN
  BY <1>5 DEF TypeOK
<1>12. TypeOK'
  BY <1>6, <1>9, <1>10, <1>11 DEF TypeOK, Goes, PassTypes, StoreTypes
<1>13. \E r : Wrote(i, r)
  BY <1>6
<1>q. QED
  BY <1>0, <1>1, <1>5, <1>7, <1>8, <1>12, <1>13 DEF i

LEMMA RetireIs ==
  ASSUME TypeOK, NEW i \in DOMAIN seen, Retire(i)
  PROVE  /\ i \in Pending /\ i \in Ids /\ pc = "placing"
         /\ \E row : Wrote(i, row)
         /\ scenes'[i].status = "retired" /\ clusters = {}
         /\ \/ visited' = visited \cup {i} /\ UNCHANGED <<pc, clusters, seen, task, failed>>
            \/ Leave
         /\ UNCHANGED <<known, active, born, writes, fresh, dirty, disturbed>>
         /\ clean' = FALSE
         /\ TypeOK'
<1> DEFINE row == Row(i, "retired", seen[i].members)
<1>1. i \in Ids /\ i \in 1..born /\ seen[i].members \in SUBSET Atoms
  BY SceneSeen
<1>2. row \in Scene /\ row.status = "retired"
  BY <1>1, RowIs
<1> HIDE DEF row
<1> DEFINE On == visited' = visited \cup {i} /\ UNCHANGED <<pc, clusters, seen, task, failed>>
<1>5. /\ \/ UpsertDone(i, row, FALSE) /\ On
         \/ UpsertThrows(i, row, FALSE)
      /\ UNCHANGED <<known, active, born, writes, fresh, dirty, disturbed>>
      /\ clean' = FALSE /\ pc = "placing" /\ clusters = {} /\ NextRow(i)
  BY DEF Retire, row
<1>6. Wrote(i, row) /\ Goes
  BY <1>1, <1>2, <1>5, Done, Throws
<1>7. On \/ Leave
  BY <1>1, <1>2, <1>5, Throws
<1>8. scenes'[i].status = "retired"
  BY <1>2, <1>6 DEF Wrote
<1>9. PassTypes'
  <2>1. CASE Leave
    BY <2>1, Left
  <2>2. CASE On
    BY <1>1, <1>5, <2>2 DEF PassTypes, TypeOK
  <2>q. QED
    BY <1>7, <2>1, <2>2
<1>10. StoreTypes'
  <2>1. born' \in born..MaxScenes /\ i \in 1..born'
    BY <1>1, <1>5, Numbers DEF TypeOK
  <2>q. QED
    BY <1>5, <1>6, <2>1, StoreKept
<1>11. disturbed' \in BOOLEAN /\ clean' \in BOOLEAN
  BY <1>5 DEF TypeOK
<1>12. TypeOK'
  BY <1>6, <1>9, <1>10, <1>11 DEF TypeOK, Goes, PassTypes, StoreTypes
<1>13. i \in Pending
  BY <1>5 DEF NextRow, Pending
<1>14. \E r : Wrote(i, r)
  BY <1>6
<1>q. QED
  BY <1>1, <1>5, <1>7, <1>8, <1>12, <1>13, <1>14

LEMMA NarratedIs ==
  ASSUME TypeOK, TaskInv, NEW ok \in BOOLEAN, NEW retitled \in BOOLEAN,
         Narrated(ok, retitled)
  PROVE  LET i == task.id
         IN  /\ i \in Pending /\ i \in Ids /\ pc = "asked"
             /\ \E row : Wrote(i, row)
             /\ scenes'[i].status = "active" /\ scenes'[i].members = seen[i].members
             /\ \/ /\ visited' = visited \cup {i} /\ pc' = "narrating"
                   /\ UNCHANGED <<clusters, seen>>
                \/ Leave
             /\ UNCHANGED <<known, active, born, writes, fresh, dirty, disturbed, clean>>
             /\ TypeOK'
<1> DEFINE i == task.id
           text == IF ok THEN task.live ELSE seen[i].hash
           row == [Row(i, "active", seen[i].members) EXCEPT !.hash = text]
<1>0. pc = "asked" /\ i \in Pending
  BY DEF Narrated, TaskInv
<1>1. /\ i \in DOMAIN seen /\ i \in Ids /\ i \in 1..born
      /\ seen[i].members \in SUBSET Atoms
      /\ seen[i].hash \in (SUBSET Atoms) \cup {NoText}
  BY <1>0, SceneSeen DEF Pending
<1>2. /\ Row(i, "active", seen[i].members) \in Scene
      /\ Row(i, "active", seen[i].members).status = "active"
      /\ Row(i, "active", seen[i].members).members = seen[i].members
  BY <1>1, RowIs
<1>3. text \in (SUBSET Atoms) \cup {NoText}
  BY <1>1 DEF TypeOK
<1> DEFINE On == /\ visited' = visited \cup {i} /\ pc' = "narrating" /\ task' = NoTask
                 /\ failed' = (failed \/ ~ok)
                 /\ UNCHANGED <<clusters, seen>>
<1>5. /\ \/ UpsertDone(i, row, retitled) /\ On
         \/ UpsertThrows(i, row, retitled)
      /\ UNCHANGED <<known, active, born, writes, fresh, dirty, disturbed, clean>>
  BY DEF Narrated
<1> HIDE DEF text
<1>4. row \in Scene /\ row.status = "active" /\ row.members = seen[i].members
  BY <1>2, <1>3 DEF Scene
<1> HIDE DEF row, i
<1>6. Wrote(i, row) /\ Goes
  BY <1>1, <1>4, <1>5, Done, Throws
<1>7. On \/ Leave
  BY <1>1, <1>4, <1>5, Throws
<1>8. scenes'[i].status = "active" /\ scenes'[i].members = seen[i].members
  BY <1>4, <1>6 DEF Wrote
<1>9. PassTypes'
  <2>1. CASE Leave
    BY <2>1, Left
  <2>2. CASE On
    BY <1>1, <1>5, <2>2, NoTaskIs DEF PassTypes, TypeOK
  <2>q. QED
    BY <1>7, <2>1, <2>2
<1>10. StoreTypes'
  <2>1. born' \in born..MaxScenes /\ i \in 1..born'
    BY <1>1, <1>5, Numbers DEF TypeOK
  <2>q. QED
    BY <1>5, <1>6, <2>1, StoreKept
<1>11. disturbed' \in BOOLEAN /\ clean' \in BOOLEAN
  BY <1>5 DEF TypeOK
<1>12. TypeOK'
  BY <1>6, <1>9, <1>10, <1>11 DEF TypeOK, Goes, PassTypes, StoreTypes
<1>13. \E r : Wrote(i, r)
  BY <1>6
<1>q. QED
  BY <1>0, <1>1, <1>5, <1>7, <1>8, <1>12, <1>13 DEF i

-----------------------------------------------------------------------------
\* The invariant is preserved.

LEMMA WroteActive ==
  ASSUME NEW i \in Ids, NEW row, Wrote(i, row), scenes'[i].status = "active"
  PROVE  ActiveScenes' = ActiveScenes \cup {i}
  BY DEF Wrote, ActiveScenes

LEMMA WroteRetired ==
  ASSUME NEW i \in Ids, NEW row, Wrote(i, row), scenes'[i].status = "retired"
  PROVE  ActiveScenes' = ActiveScenes \ {i}
  BY DEF Wrote, ActiveScenes

LEMMA PlacedIds == Placed \subseteq Ids
  BY DEF Placed, ActiveScenes

\* A cluster that gets a scene is one that had none.
LEMMA OneMorePlaced ==
  ASSUME PlacedInv, Placing, ~disturbed, NEW c \in clusters, NEW h \in Ids,
         h \notin Placed, NEW row, Wrote(h, row), scenes'[h].members = c,
         Placed' = Placed \cup {h}, clusters' = clusters \ {c}, active' = active
  PROVE  PlacedInv'
<1>1. /\ clusters \subseteq Clusters(active)
      /\ {scenes[i].members : i \in Placed} = Clusters(active) \ clusters
      /\ \A i, k \in Placed : i # k => scenes[i].members # scenes[k].members
  BY DEF PlacedInv
<1>2. \A i \in Placed : scenes'[i] = scenes[i]
  BY PlacedIds DEF Wrote
<1>3. clusters' \subseteq Clusters(active) /\ Clusters(active)' = Clusters(active)
  BY <1>1
<1>4. \A i \in Placed : scenes[i].members # c
  BY <1>1
<1>5. {scenes'[i].members : i \in Placed'} = Clusters(active) \ clusters'
  <2>1. {scenes'[i].members : i \in Placed'} = {scenes[i].members : i \in Placed} \cup {c}
    BY <1>2
  <2>q. QED
    BY <1>1, <2>1
<1>6. \A i, k \in Placed' : i # k => scenes'[i].members # scenes'[k].members
  BY <1>1, <1>2, <1>4
<1>q. QED
  BY <1>3, <1>5, <1>6 DEF PlacedInv

LEMMA AsManyPlaced ==
  ASSUME PlacedInv, Placing, NEW h \in Ids, h \notin Placed, NEW row, Wrote(h, row),
         Placed' = Placed, clusters' = clusters, active' = active, disturbed' = disturbed
  PROVE  PlacedInv'
<1>1. \A i \in Placed : scenes'[i] = scenes[i]
  BY PlacedIds DEF Wrote
<1>2. {scenes'[i].members : i \in Placed'} = {scenes[i].members : i \in Placed}
  BY <1>1
<1>q. QED
  BY <1>1, <1>2 DEF PlacedInv

LEMMA BeginKeeps ==
  ASSUME IInv, Begin
  PROVE  IInv'
<1>1. /\ pc' = "placing" /\ clusters' = Clusters(active) /\ seen' = Snapshot
      /\ visited' = {} /\ disturbed' = FALSE /\ awaited' = FALSE
      /\ UNCHANGED <<known, active, scenes, born, writes, fresh, dirty, failed, task, faults,
                     clean>>
  BY DEF Begin, storeVars, owedVars
<1>2. DOMAIN seen' = ActiveScenes /\ \A i \in ActiveScenes : seen'[i] = scenes[i]
  BY <1>1 DEF Snapshot
<1>3. TypeOK'
  <2>1. active \in SUBSET Atoms
    BY DEF IInv, TypeOK
  <2>2. clusters' \subseteq SUBSET Atoms
    BY <1>1, <2>1, ClustersPartition
  <2>3. DOMAIN seen' \subseteq 1..born'
    BY <1>1, <1>2, ActiveAreBorn DEF IInv
  <2>4. \A i \in DOMAIN seen' : seen'[i] \in Scene /\ seen'[i].status = "active"
    BY <1>2 DEF ActiveScenes, IInv, TypeOK
  <2>5. PassTypes'
    BY <1>1, <2>2, <2>3, <2>4 DEF PassTypes, IInv, TypeOK
  <2>6. StoreTypes'
    BY <1>1 DEF StoreTypes, IInv, TypeOK
  <2>q. QED
    BY <1>1, <2>5, <2>6 DEF PassTypes, StoreTypes, IInv, TypeOK
<1>4. Pending' = ActiveScenes /\ ActiveScenes' = ActiveScenes /\ Placed' = {}
  BY <1>1, <1>2 DEF Pending, ActiveScenes, Placed
<1>5. TaskInv' /\ StillInv'
  BY <1>1, <1>4 DEF TaskInv, StillInv
<1>6. PlacedInv'
  BY <1>1, <1>4 DEF PlacedInv
<1>7. CleanInv'
  BY <1>1, <1>4 DEF CleanInv, IInv
<1>q. QED
  BY <1>3, <1>5, <1>6, <1>7 DEF IInv

LEMMA KeepKeeps ==
  ASSUME IInv, NEW c \in clusters, NEW i \in DOMAIN seen, Keep(c, i)
  PROVE  IInv'
<1>0. TypeOK /\ StillInv /\ PlacedInv
  BY DEF IInv
<1>1. /\ Wrote(i, Row(i, "active", c))
      /\ scenes'[i].status = "active" /\ scenes'[i].members = c
      /\ i \in Pending /\ pc = "placing" /\ i \in Ids
      /\ Went(i, c) \/ Leave
      /\ UNCHANGED <<active, disturbed>>
      /\ clean' = FALSE
      /\ TypeOK'
  BY <1>0, KeepIs, SceneSeen
<1>2. CleanInv'
  BY <1>1 DEF CleanInv
<1>3. ASSUME Went(i, c)
      PROVE  TaskInv' /\ StillInv' /\ PlacedInv'
  <2>1. Pending' = Pending \ {i}
    BY <1>3 DEF Pending, Went
  <2>2. ActiveScenes' = ActiveScenes \cup {i}
    BY <1>1, WroteActive
  <2>3. Placed' = Placed \cup {i} /\ i \notin Placed
    BY <1>1, <2>1, <2>2 DEF Placed
  <2>4. TaskInv'
    BY <1>1, <1>3 DEF TaskInv, Went
  <2>5. StillInv'
    BY <1>0, <1>1, <2>1, <2>2 DEF StillInv
  <2>6. CASE ~disturbed
    <3>1. Placing /\ clusters' = clusters \ {c}
      BY <1>1, <1>3 DEF Placing, Went
    <3>2. PlacedInv'
      BY <1>0, <1>1, <2>3, <2>6, <3>1, OneMorePlaced
    <3>q. QED
      BY <2>4, <2>5, <3>2
  <2>7. CASE disturbed
    BY <1>1, <2>4, <2>5, <2>7 DEF PlacedInv
  <2>q. QED
    BY <2>6, <2>7
<1>q. QED
  BY <1>1, <1>2, <1>3, Left DEF IInv

\* What Spawn and Reorganize have in common.
LEMMA NewPlaced ==
  ASSUME TypeOK, StillInv, PlacedInv, pc = "placing", NEW c \in clusters, NEW row,
         born + 1 \in Ids, Wrote(born + 1, row), scenes'[born + 1].status = "active",
         scenes'[born + 1].members = c, clusters' = clusters \ {c},
         UNCHANGED <<seen, visited, active, disturbed>>
  PROVE  StillInv' /\ PlacedInv'
<1> DEFINE h == born + 1
<1>1. h \in Ids /\ h > born
  BY DEF TypeOK
<1>2. h \notin ActiveScenes /\ h \notin DOMAIN seen
  BY <1>1, ActiveAreBorn
<1> HIDE DEF h
<1>3. ActiveScenes' = ActiveScenes \cup {h}
  BY <1>1, WroteActive DEF h
<1>4. Pending' = Pending
  BY DEF Pending
<1>5. Placed' = Placed \cup {h} /\ h \notin Placed
  BY <1>2, <1>3, <1>4 DEF Placed, Pending
<1>6. StillInv'
  BY <1>3, <1>4 DEF StillInv
<1>7. CASE ~disturbed
  <2>1. Placing
    BY DEF Placing
  <2>2. Wrote(h, row) /\ scenes'[h].members = c
    BY DEF h
  <2>3. PlacedInv'
    BY <1>1, <1>5, <1>7, <2>1, <2>2, OneMorePlaced
  <2>q. QED
    BY <1>6, <2>3
<1>8. CASE disturbed
  BY <1>6, <1>8 DEF PlacedInv
<1>q. QED
  BY <1>7, <1>8

LEMMA SpawnKeeps ==
  ASSUME IInv, NEW c \in clusters, Spawn(c)
  PROVE  IInv'
<1>0. TypeOK /\ StillInv /\ PlacedInv
  BY DEF IInv
<1>1. /\ Wrote(born + 1, Create(c, {}))
      /\ scenes'[born + 1].status = "active" /\ scenes'[born + 1].members = c
      /\ born + 1 \in Ids /\ pc = "placing"
      /\ \/ clusters' = clusters \ {c} /\ UNCHANGED <<pc, seen, visited, task>>
         \/ Leave
      /\ UNCHANGED <<active, disturbed>>
      /\ clean' = FALSE
      /\ TypeOK'
  BY <1>0, SpawnIs
<1>2. CleanInv'
  BY <1>1 DEF CleanInv
<1>3. ASSUME clusters' = clusters \ {c}, UNCHANGED <<pc, seen, visited, task>>
      PROVE  TaskInv' /\ StillInv' /\ PlacedInv'
  <2>1. StillInv' /\ PlacedInv'
    BY <1>0, <1>1, <1>3, NewPlaced
  <2>2. TaskInv'
    BY <1>1, <1>3 DEF TaskInv
  <2>q. QED
    BY <2>1, <2>2
<1>q. QED
  BY <1>1, <1>2, <1>3, Left DEF IInv

LEMMA ReorganizeKeeps ==
  ASSUME IInv, NEW c \in clusters, NEW i \in DOMAIN seen, Reorganize(c, i)
  PROVE  IInv'
<1>0. TypeOK /\ StillInv /\ PlacedInv
  BY DEF IInv
<1> DEFINE On == /\ clusters' = clusters \ {c} /\ UNCHANGED <<seen, visited>>
                 /\ pc' = "superseding" /\ task'.id = i /\ task'.heir = born + 1
<1>1. /\ Wrote(born + 1, Create(c, {i}))
      /\ scenes'[born + 1].status = "active" /\ scenes'[born + 1].members = c
      /\ born + 1 \in Ids /\ born' = born + 1
      /\ i \in Pending /\ pc = "placing"
      /\ On \/ Leave
      /\ UNCHANGED <<active, disturbed>>
      /\ clean' = FALSE
      /\ TypeOK'
  BY <1>0, ReorganizeIs
<1>2. CleanInv'
  BY <1>1 DEF CleanInv
<1>3. ASSUME On
      PROVE  TaskInv' /\ StillInv' /\ PlacedInv'
  <2>1. StillInv' /\ PlacedInv'
    BY <1>0, <1>1, <1>3, NewPlaced
  <2>2. task'.id \in Pending'
    BY <1>1, <1>3 DEF Pending
  <2>3. task'.heir \in 1..born'
    BY <1>1, <1>3, Numbers
  <2>4. TaskInv'
    BY <1>1, <1>3, <2>2, <2>3 DEF TaskInv
  <2>q. QED
    BY <2>1, <2>4
<1>q. QED
  BY <1>1, <1>2, <1>3, Left DEF IInv

\* What Supersede and Retire have in common.
LEMMA OneLessPending ==
  ASSUME StillInv, PlacedInv, Placing, NEW i \in Pending, i \in Ids, NEW row, Wrote(i, row),
         scenes'[i].status = "retired", visited' = visited \cup {i},
         UNCHANGED <<clusters, seen, active, disturbed>>
  PROVE  StillInv' /\ PlacedInv'
<1>1. ActiveScenes' = ActiveScenes \ {i}
  BY WroteRetired
<1>2. Pending' = Pending \ {i}
  BY DEF Pending
<1>3. Placed' = Placed /\ i \notin Placed
  BY <1>1, <1>2 DEF Placed
<1>4. StillInv'
  BY <1>1, <1>2 DEF StillInv
<1>5. PlacedInv'
  BY <1>3, AsManyPlaced
<1>q. QED
  BY <1>4, <1>5

LEMMA SupersedeKeeps ==
  ASSUME IInv, Supersede
  PROVE  IInv'
<1>0. TypeOK /\ StillInv /\ PlacedInv /\ TaskInv
  BY DEF IInv
<1> DEFINE i == task.id
           On == visited' = visited \cup {i} /\ pc' = "placing" /\ UNCHANGED <<clusters, seen>>
<1>1. /\ i \in Pending /\ i \in Ids /\ pc = "superseding"
      /\ \E row : Wrote(i, row)
      /\ scenes'[i].status = "retired"
      /\ On \/ Leave
      /\ UNCHANGED <<active, disturbed, clean>>
      /\ TypeOK'
  BY <1>0, SupersedeIs
<1> HIDE DEF i
<1>2. CleanInv'
  BY <1>0, <1>1 DEF CleanInv, TaskInv
<1>3. ASSUME On
      PROVE  TaskInv' /\ StillInv' /\ PlacedInv'
  <2>1. Placing
    BY <1>1 DEF Placing
  <2>2. StillInv' /\ PlacedInv'
    BY <1>0, <1>1, <1>3, <2>1, OneLessPending
  <2>3. TaskInv'
    BY <1>3 DEF TaskInv
  <2>q. QED
    BY <2>2, <2>3
<1>q. QED
  BY <1>1, <1>2, <1>3, Left DEF IInv

LEMMA RetireKeeps ==
  ASSUME IInv, NEW i \in DOMAIN seen, Retire(i)
  PROVE  IInv'
<1>0. TypeOK /\ StillInv /\ PlacedInv
  BY DEF IInv
<1> DEFINE On == visited' = visited \cup {i} /\ UNCHANGED <<pc, clusters, seen, task>>
<1>1. /\ i \in Pending /\ i \in Ids /\ pc = "placing"
      /\ \E row : Wrote(i, row)
      /\ scenes'[i].status = "retired"
      /\ On \/ Leave
      /\ UNCHANGED <<active, disturbed>>
      /\ clean' = FALSE
      /\ TypeOK'
  BY <1>0, RetireIs
<1>2. CleanInv'
  BY <1>1 DEF CleanInv
<1>3. ASSUME On
      PROVE  TaskInv' /\ StillInv' /\ PlacedInv'
  <2>1. Placing
    BY <1>1 DEF Placing
  <2>2. StillInv' /\ PlacedInv'
    BY <1>0, <1>1, <1>3, <2>1, OneLessPending
  <2>3. TaskInv'
    BY <1>1, <1>3 DEF TaskInv
  <2>q. QED
    BY <2>2, <2>3
<1>q. QED
  BY <1>1, <1>2, <1>3, Left DEF IInv

LEMMA ReconciledKeeps ==
  ASSUME IInv, Reconciled
  PROVE  IInv'
<1>1. /\ pc = "placing" /\ clusters = {} /\ DOMAIN seen \subseteq visited
      /\ pc' = "narrating" /\ seen' = Snapshot /\ visited' = {} /\ clean' = ~disturbed
      /\ UNCHANGED <<known, active, scenes, born, writes, fresh, dirty, failed, clusters, task,
                     awaited, faults, disturbed>>
  BY DEF Reconciled, storeVars, owedVars
<1>2. DOMAIN seen' = ActiveScenes /\ \A i \in ActiveScenes : seen'[i] = scenes[i]
  BY <1>1 DEF Snapshot
<1>3. TypeOK'
  <2>1. DOMAIN seen' \subseteq 1..born'
    BY <1>1, <1>2, ActiveAreBorn DEF IInv
  <2>2. \A i \in DOMAIN seen' : seen'[i] \in Scene /\ seen'[i].status = "active"
    BY <1>2 DEF ActiveScenes, IInv, TypeOK
  <2>3. PassTypes'
    BY <1>1, <2>1, <2>2 DEF PassTypes, IInv, TypeOK
  <2>4. StoreTypes'
    BY <1>1 DEF StoreTypes, IInv, TypeOK
  <2>q. QED
    BY <1>1, <2>3, <2>4 DEF PassTypes, StoreTypes, IInv, TypeOK
<1>4. Pending = {} /\ Placed = ActiveScenes /\ Placing
  BY <1>1 DEF Pending, Placed, Placing
<1>5. Pending' = ActiveScenes /\ ActiveScenes' = ActiveScenes
  BY <1>1, <1>2 DEF Pending, ActiveScenes
<1>6. TaskInv' /\ StillInv' /\ PlacedInv'
  BY <1>1, <1>5 DEF TaskInv, StillInv, PlacedInv, Placing
<1>7. CASE disturbed
  BY <1>1, <1>3, <1>6, <1>7 DEF IInv, CleanInv
<1>8. CASE ~disturbed
  <2>1. /\ {scenes[i].members : i \in ActiveScenes} = Clusters(active)
        /\ \A i, k \in ActiveScenes : i # k => scenes[i].members # scenes[k].members
    BY <1>1, <1>4, <1>8 DEF IInv, PlacedInv
  <2>2. \A i \in DOMAIN seen' :
          scenes'[i].status = "active" /\ scenes'[i].members = seen'[i].members
    BY <1>1, <1>2 DEF ActiveScenes
  <2>3. CleanInv'
    BY <1>1, <1>5, <2>1, <2>2 DEF CleanInv
  <2>q. QED
    BY <1>3, <1>6, <2>3 DEF IInv
<1>q. QED
  BY <1>7, <1>8 DEF IInv, TypeOK

LEMMA UpToDateKeeps ==
  ASSUME IInv, NEW i \in DOMAIN seen, UpToDate(i)
  PROVE  IInv'
<1>1. /\ pc = "narrating" /\ i \in Pending /\ visited' = visited \cup {i}
      /\ UNCHANGED <<known, active, scenes, born, writes, fresh, dirty, failed, pc, clusters,
                     seen, task, awaited, faults, disturbed, clean>>
  BY DEF UpToDate, NextRow, Pending, storeVars, owedVars
<1>2. TypeOK'
  BY <1>1 DEF IInv, TypeOK
<1>3. Pending' \subseteq Pending /\ ActiveScenes' = ActiveScenes
  BY <1>1 DEF Pending, ActiveScenes
<1>4. TaskInv' /\ StillInv' /\ PlacedInv' /\ CleanInv'
  BY <1>1, <1>3 DEF IInv, TaskInv, StillInv, PlacedInv, Placing, CleanInv
<1>q. QED
  BY <1>2, <1>4 DEF IInv

LEMMA AskNarrationKeeps ==
  ASSUME IInv, NEW i \in DOMAIN seen, AskNarration(i)
  PROVE  IInv'
<1>1. /\ pc = "narrating" /\ i \in Pending /\ pc' = "asked"
      /\ task' = [id |-> i, heir |-> 0, live |-> Live(i)]
      /\ awaited' \in BOOLEAN
      /\ UNCHANGED <<known, active, scenes, born, writes, fresh, dirty, failed, clusters, seen,
                     visited, faults, disturbed, clean>>
  BY DEF AskNarration, NextRow, Pending, storeVars, owedVars
<1>2. /\ task' \in [id : 0..MaxScenes, heir : 0..MaxScenes, live : SUBSET Atoms]
      /\ task'.id = i
  <2>1. i \in 0..MaxScenes /\ 0 \in 0..MaxScenes
    BY SceneSeen, Numbers DEF IInv
  <2>2. Live(i) \in SUBSET Atoms
    BY DEF Live, IInv, TypeOK
  <2>q. QED
    BY <1>1, <2>1, <2>2
<1>3. TypeOK'
  BY <1>1, <1>2 DEF IInv, TypeOK
<1>4. Pending' = Pending /\ ActiveScenes' = ActiveScenes
  BY <1>1 DEF Pending, ActiveScenes
<1>5. TaskInv' /\ StillInv' /\ PlacedInv' /\ CleanInv'
  BY <1>1, <1>2, <1>4 DEF IInv, TaskInv, StillInv, PlacedInv, Placing, CleanInv
<1>q. QED
  BY <1>3, <1>5 DEF IInv

LEMMA NarratedKeeps ==
  ASSUME IInv, NEW ok \in BOOLEAN, NEW retitled \in BOOLEAN, Narrated(ok, retitled)
  PROVE  IInv'
<1>0. TypeOK /\ StillInv /\ TaskInv /\ CleanInv
  BY DEF IInv
<1> DEFINE i == task.id
           On == /\ visited' = visited \cup {i} /\ pc' = "narrating"
                 /\ UNCHANGED <<clusters, seen>>
<1>1. /\ i \in Pending /\ i \in Ids /\ pc = "asked"
      /\ \E row : Wrote(i, row)
      /\ scenes'[i].status = "active" /\ scenes'[i].members = seen[i].members
      /\ On \/ Leave
      /\ UNCHANGED <<active, disturbed, clean>>
      /\ TypeOK'
  BY <1>0, NarratedIs
<1> HIDE DEF i
<1>2. PICK row : Wrote(i, row)
  BY <1>1
<1>3. i \in DOMAIN seen
  BY <1>1 DEF Pending
<1>4. ASSUME clean
      PROVE  CleanInv'
  <2>1. /\ {scenes[k].members : k \in ActiveScenes} = Clusters(active)
        /\ \A k, l \in ActiveScenes : k # l => scenes[k].members # scenes[l].members
        /\ \A k \in DOMAIN seen :
             scenes[k].status = "active" /\ scenes[k].members = seen[k].members
    BY <1>0, <1>1, <1>4 DEF CleanInv
  <2>2. ActiveScenes' = ActiveScenes
    <3>1. ActiveScenes' = ActiveScenes \cup {i} /\ i \in ActiveScenes
      BY <1>1, <1>2, <1>3, <2>1, WroteActive DEF ActiveScenes
    <3>q. QED
      BY <3>1
  <2>3. \A k \in Ids : scenes'[k].members = scenes[k].members
    BY <1>1, <1>2, <1>3, <2>1 DEF Wrote
  <2>4. ActiveScenes \subseteq Ids
    BY DEF ActiveScenes
  <2>5. {scenes'[k].members : k \in ActiveScenes'} = {scenes[k].members : k \in ActiveScenes}
    BY <2>2, <2>3, <2>4
  <2>6. \A k \in DOMAIN seen :
          scenes'[k].status = "active" /\ scenes'[k].members = seen[k].members
    <3>1. \A k \in DOMAIN seen : k \in Ids
      BY <1>0, SceneSeen
    <3>q. QED
      BY <1>1, <1>2, <2>1, <2>3, <3>1 DEF Wrote
  <2>7. pc' \in {"narrating", "asked"} => seen' = seen
    BY <1>1 DEF Leave
  <2>8. \A k, l \in ActiveScenes' : k # l => scenes'[k].members # scenes'[l].members
    BY <2>1, <2>2, <2>3, <2>4
  <2>9. {scenes'[k].members : k \in ActiveScenes'} = Clusters(active')
    BY <1>1, <2>1, <2>5
  <2>10. pc' \in {"narrating", "asked"} =>
           \A k \in DOMAIN seen' :
             scenes'[k].status = "active" /\ scenes'[k].members = seen'[k].members
    BY <2>6, <2>7
  <2>q. QED
    BY <2>8, <2>9, <2>10 DEF CleanInv
<1>5. CleanInv'
  <2>1. clean' = clean
    BY <1>1
  <2>q. QED
    BY <1>4, <2>1 DEF CleanInv
<1>6. ASSUME On
      PROVE  TaskInv' /\ StillInv' /\ PlacedInv'
  <2>1. Pending' \subseteq Pending
    BY <1>6 DEF Pending
  <2>2. ActiveScenes \subseteq ActiveScenes'
    BY <1>1, <1>2, WroteActive
  <2>q. QED
    BY <1>0, <1>1, <1>6, <2>1, <2>2 DEF TaskInv, StillInv, PlacedInv, Placing
<1>q. QED
  BY <1>1, <1>5, <1>6, Left DEF IInv

\* The pass is over, and the store is what it was but for its mark.
LEMMA LeaveKeeps ==
  ASSUME IInv, Leave, faults' \in 0..MaxFaults, dirty' \in BOOLEAN,
         UNCHANGED <<storeVars, fresh, disturbed, clean>>
  PROVE  IInv'
<1>1. UNCHANGED <<known, active, scenes, born, writes, fresh, disturbed, clean>> /\ pc' = "idle"
  BY DEF storeVars, Leave
<1>2. StoreTypes'
  BY <1>1 DEF StoreTypes, IInv, TypeOK
<1>3. TypeOK'
  BY <1>1, <1>2, Left DEF IInv, TypeOK, PassTypes, StoreTypes
<1>4. CleanInv'
  BY <1>1 DEF IInv, CleanInv, ActiveScenes
<1>q. QED
  BY <1>3, <1>4, Left DEF IInv

LEMMA PassEndsKeeps ==
  ASSUME IInv, PassEnds
  PROVE  IInv'
<1>1. /\ Leave /\ faults' \in 0..MaxFaults /\ dirty' \in BOOLEAN
      /\ UNCHANGED <<storeVars, fresh, disturbed, clean>>
  BY DEF PassEnds, IInv, TypeOK
<1>q. QED
  BY <1>1, LeaveKeeps

LEMMA CrashKeeps ==
  ASSUME IInv, Crash
  PROVE  IInv'
<1>1. /\ Leave /\ faults' \in 0..MaxFaults /\ dirty' \in BOOLEAN
      /\ UNCHANGED <<storeVars, fresh, disturbed, clean>>
  BY Numbers DEF Crash, Fault, IInv, TypeOK
<1>q. QED
  BY <1>1, LeaveKeeps

\* Before the scenes and after them.
LEMMA CommitL1Keeps ==
  ASSUME IInv, CommitL1
  PROVE  IInv'
<1>1. /\ pc' = "episodes" /\ fresh' = FALSE /\ awaited' = TRUE
      /\ UNCHANGED <<known, active, scenes, born, writes, clusters, seen, visited, task,
                     dirty, failed, faults, disturbed, clean>>
  BY DEF CommitL1, storeVars
<1>2. TypeOK'
  BY <1>1 DEF IInv, TypeOK
<1>3. Pending' = Pending /\ ActiveScenes' = ActiveScenes
  BY <1>1 DEF Pending, ActiveScenes
<1>4. TaskInv' /\ StillInv' /\ PlacedInv' /\ CleanInv'
  BY <1>1, <1>3 DEF IInv, TaskInv, StillInv, PlacedInv, Placing, CleanInv
<1>q. QED
  BY <1>2, <1>4 DEF IInv

LEMMA AskCoreKeeps ==
  ASSUME IInv, AskCore
  PROVE  IInv'
<1>1. /\ pc' = "core" /\ seen' = <<>> /\ visited' = {} /\ awaited' = TRUE
      /\ UNCHANGED <<known, active, scenes, born, writes, fresh, dirty, failed, clusters,
                     task, faults, disturbed, clean>>
  BY DEF AskCore, storeVars, owedVars
<1>2. DOMAIN seen' = {}
  BY <1>1, EmptySeen
<1>3. TypeOK'
  BY <1>1, <1>2 DEF IInv, TypeOK
<1>4. Pending' = {} /\ ActiveScenes' = ActiveScenes
  BY <1>1, <1>2 DEF Pending, ActiveScenes
<1>5. TaskInv' /\ StillInv' /\ PlacedInv' /\ CleanInv'
  BY <1>1, <1>4 DEF IInv, TaskInv, StillInv, PlacedInv, Placing, CleanInv
<1>q. QED
  BY <1>3, <1>5 DEF IInv

LEMMA TurnsChangeKeeps ==
  ASSUME IInv, TurnsChange
  PROVE  IInv'
<1>1. /\ fresh' \in BOOLEAN /\ dirty' \in BOOLEAN
      /\ UNCHANGED <<known, active, scenes, born, writes, pc, clusters, seen, visited, task,
                     awaited, failed, faults, disturbed, clean>>
  BY DEF TurnsChange, storeVars, passVars, IInv, TypeOK
<1>2. TypeOK'
  BY <1>1 DEF IInv, TypeOK
<1>3. TaskInv' /\ StillInv' /\ PlacedInv' /\ CleanInv'
  BY <1>1 DEF IInv, TaskInv, StillInv, PlacedInv, Placing, Placed, Pending, CleanInv,
              ActiveScenes
<1>q. QED
  BY <1>2, <1>3 DEF IInv

\* After a request the pass goes on with what it has read.
LEMMA WriteKeeps ==
  ASSUME IInv, Write, StoreTypes', born' = born
  PROVE  IInv'
<1>1. /\ disturbed' = TRUE /\ clean' = FALSE
      /\ UNCHANGED <<pc, clusters, seen, visited, task, awaited, failed, faults>>
  BY DEF Write, passVars
<1>2. TypeOK'
  BY <1>1 DEF IInv, TypeOK, StoreTypes
<1>3. StillInv' /\ PlacedInv' /\ CleanInv'
  BY <1>1 DEF StillInv, PlacedInv, CleanInv
<1>4. TaskInv'
  BY <1>1 DEF IInv, TaskInv, Pending
<1>q. QED
  BY <1>2, <1>3, <1>4 DEF IInv

LEMMA RequestKeeps ==
  ASSUME IInv,
         \/ \E a \in Atoms : StoreAtom(a) \/ DropAtom(a) \/ DeleteAtom(a)
         \/ \E i \in Ids : \/ RemoveScene(i)
                         \/ \E M \in SUBSET Atoms, status \in {"active", "retired"} :
                              EditScene(i, M, status)
  PROVE  IInv'
<1>0. StoreTypes /\ TypeOK
  BY DEF IInv, TypeOK, StoreTypes
<1>1. ASSUME Write
      PROVE  writes' \in 0..MaxWrites /\ fresh' \in BOOLEAN
  BY <1>0, <1>1, Numbers DEF Write, StoreTypes
<1>2. ASSUME NEW a \in Atoms, StoreAtom(a) \/ DropAtom(a) \/ DeleteAtom(a)
      PROVE  IInv'
  <2>1. /\ Write /\ UNCHANGED <<scenes, born>> /\ known' \subseteq Atoms
        /\ active' \subseteq known' /\ dirty' \in BOOLEAN
    BY <1>0, <1>2 DEF StoreAtom, DropAtom, DeleteAtom, StoreTypes
  <2>2. StoreTypes'
    BY <1>0, <1>1, <2>1 DEF StoreTypes
  <2>q. QED
    BY <2>1, <2>2, WriteKeeps
<1>3. ASSUME NEW i \in Ids, RemoveScene(i)
      PROVE  IInv'
  <2>1. /\ Write /\ UNCHANGED <<known, active, born, dirty>>
        /\ scenes' = [scenes EXCEPT ![i] = NoScene]
    BY <1>3 DEF RemoveScene
  <2>2. StoreTypes'
    BY <1>0, <1>1, <2>1, NoSceneIs DEF StoreTypes
  <2>q. QED
    BY <2>1, <2>2, WriteKeeps
<1>4. ASSUME NEW i \in Ids, NEW M \in SUBSET Atoms, NEW status \in {"active", "retired"},
             EditScene(i, M, status)
      PROVE  IInv'
  <2>1. Write /\ UNCHANGED <<known, active, born, dirty>> /\ scenes[i].status # "absent"
    BY <1>4 DEF EditScene
  <2>2. PICK drawn \in {TRUE, scenes[i].rendered} :
          scenes' = [scenes EXCEPT ![i] = [Row(i, status, M) EXCEPT !.rendered = drawn]]
    BY <1>4 DEF EditScene
  <2>3. drawn \in BOOLEAN
    BY <1>0 DEF StoreTypes, Scene
  <2>4. Row(i, status, M) \in Scene
    BY <1>0, RowIs
  <2>5. [Row(i, status, M) EXCEPT !.rendered = drawn] \in Scene
    BY <2>3, <2>4 DEF Scene
  <2>6. ~(i > born)
    BY <1>0, <2>1, NoSceneIs DEF StoreTypes
  <2>7. StoreTypes'
    <3>1. scenes' \in [Ids -> Scene]
      BY <1>0, <2>2, <2>5 DEF StoreTypes
    <3>2. \A k \in Ids : k > born' => scenes'[k] = NoScene
      BY <1>0, <2>1, <2>2, <2>6 DEF StoreTypes
    <3>q. QED
      BY <1>0, <1>1, <2>1, <3>1, <3>2 DEF StoreTypes
  <2>q. QED
    BY <2>1, <2>7, WriteKeeps
<1>q. QED
  BY <1>2, <1>3, <1>4

LEMMA InitHolds ==
  ASSUME Init
  PROVE  IInv
<1>1. /\ known \in Initial /\ active = known /\ scenes = [i \in Ids |-> NoScene]
      /\ born = 0 /\ writes = 0 /\ faults = 0 /\ pc = "idle" /\ clusters = {}
      /\ seen = <<>> /\ visited = {} /\ task = NoTask /\ awaited = FALSE
      /\ disturbed = FALSE /\ clean = FALSE
      /\ fresh = TRUE /\ dirty = FALSE /\ failed = FALSE
  BY DEF Init
<1>2. known \subseteq Atoms
  BY <1>1, TopicAssumption
<1>3. scenes \in [Ids -> Scene] /\ \A i \in Ids : scenes[i] = NoScene
  BY <1>1, NoSceneIs
<1>t. fresh \in BOOLEAN /\ dirty \in BOOLEAN
  BY <1>1
<1>4. StoreTypes
  BY <1>1, <1>2, <1>3, <1>t, Numbers DEF StoreTypes
<1>5. DOMAIN seen = {}
  BY <1>1, EmptySeen
<1>6. PassTypes
  BY <1>1, <1>5, NoTaskIs DEF PassTypes
<1>7. TypeOK
  <2>1. faults \in 0..MaxFaults
    BY <1>1, Numbers
  <2>2. awaited \in BOOLEAN /\ disturbed \in BOOLEAN /\ clean \in BOOLEAN
    BY <1>1
  <2>q. QED
    BY <1>4, <1>6, <2>1, <2>2, TypesAre
<1>8. TaskInv /\ StillInv /\ PlacedInv /\ CleanInv
  BY <1>1, <1>5 DEF TaskInv, StillInv, PlacedInv, Placing, CleanInv, Pending
<1>q. QED
  BY <1>7, <1>8 DEF IInv

LEMMA StepKeeps ==
  ASSUME IInv, Step
  PROVE  IInv'
<1>1. CASE Begin
  BY <1>1, BeginKeeps
<1>2. ASSUME NEW c \in clusters, NEW i \in DOMAIN seen, Keep(c, i) \/ Reorganize(c, i)
      PROVE  IInv'
  BY <1>2, KeepKeeps, ReorganizeKeeps
<1>3. ASSUME NEW c \in clusters, Spawn(c)
      PROVE  IInv'
  BY <1>3, SpawnKeeps
<1>4. CASE Supersede
  BY <1>4, SupersedeKeeps
<1>5. ASSUME NEW i \in DOMAIN seen, Retire(i) \/ UpToDate(i) \/ AskNarration(i)
      PROVE  IInv'
  BY <1>5, RetireKeeps, UpToDateKeeps, AskNarrationKeeps
<1>6. CASE Reconciled
  BY <1>6, ReconciledKeeps
<1>7. CASE Narrate
  BY <1>7, NarratedKeeps DEF Narrate
<1>8. CASE NarrationFails
  BY <1>8, NarratedKeeps DEF NarrationFails
<1>9. CASE CommitL1 \/ AskCore \/ PassEnds
  BY <1>9, CommitL1Keeps, AskCoreKeeps, PassEndsKeeps
<1>q. QED
  BY <1>1, <1>2, <1>3, <1>4, <1>5, <1>6, <1>7, <1>8, <1>9 DEF Step

LEMMA StutterKeeps ==
  ASSUME IInv, UNCHANGED vars
  PROVE  IInv'
<1>1. UNCHANGED <<known, active, scenes, born, writes, pc, clusters, seen, visited, task,
                  awaited, fresh, dirty, failed, faults, disturbed, clean>>
  BY DEF vars, storeVars, passVars, owedVars
<1>q. QED
  BY <1>1 DEF IInv, TypeOK, TaskInv, StillInv, PlacedInv, Placing, Placed, Pending, CleanInv,
              ActiveScenes

LEMMA NextKeeps ==
  ASSUME IInv, [Next]_vars
  PROVE  IInv'
<1>1. CASE Step
  BY <1>1, StepKeeps
<1>2. CASE Crash
  BY <1>2, CrashKeeps
<1>3. CASE TurnsChange
  BY <1>3, TurnsChangeKeeps
<1>4. CASE UNCHANGED vars
  BY <1>4, StutterKeeps
<1>q. QED
  BY <1>1, <1>2, <1>3, <1>4, RequestKeeps DEF Next

\* What the pass holds in memory agrees with the scenes it has yet to visit and those it
\* has placed, at every step of it, request or crash (core.ts:1205-1373).
THEOREM Invariance == Spec => []IInv
<1>1. IInv /\ [Next]_vars => IInv'
  BY NextKeeps
<1>q. QED
  BY <1>1, InitHolds, PTL DEF Spec

\* Rows, snapshot and task keep their types, and no scene is there before its id
\* was given out, for any atoms, thresholds and bounds (core.ts:1205-1290, :1373).
THEOREM TopicTypeCorrect == Spec => []TypeOK
<1>1. IInv => TypeOK
  BY DEF IInv
<1>q. QED
  BY <1>1, Invariance, PTL

\* Whatever broken passes, removed scenes and edited members a pass began with, once
\* it has reconciled a store that stood still each cluster of the active atoms has one
\* scene in service, and no two scenes share an atom (core.ts:1205-1290).
THEOREM TopicsAreClusters == Spec => []TopicsMatchClusters
<1>1. ASSUME IInv, clean
      PROVE  /\ {scenes[i].members : i \in ActiveScenes} = Clusters(active)
             /\ \A i, k \in ActiveScenes :
                  i # k => scenes[i].members \cap scenes[k].members = {}
  <2>1. /\ {scenes[i].members : i \in ActiveScenes} = Clusters(active)
        /\ \A i, k \in ActiveScenes : i # k => scenes[i].members # scenes[k].members
    BY <1>1 DEF IInv, CleanInv
  <2>2. \A c, d \in Clusters(active) : c # d => c \cap d = {}
    <3>1. active \in SUBSET Atoms
      BY <1>1 DEF IInv, TypeOK
    <3>q. QED
      BY <3>1, ClustersPartition
  <2>3. \A i \in ActiveScenes : scenes[i].members \in Clusters(active)
    BY <2>1
  <2>q. QED
    BY <2>1, <2>2, <2>3
<1>2. IInv => TopicsMatchClusters
  BY <1>1 DEF TopicsMatchClusters
<1>q. QED
  BY <1>2, Invariance, PTL

-----------------------------------------------------------------------------
\* Overlaps.

LEMMA Shares ==
  ASSUME NEW c \in SUBSET Atoms, NEW M \in SUBSET Atoms
  PROVE  /\ Overlap(c, M) \in Nat /\ Union(c, M) \in Nat
         /\ Cardinality(c) \in Nat /\ Cardinality(M) \in Nat
         /\ Cardinality(c) <= Union(c, M) /\ Cardinality(M) <= Union(c, M)
         /\ IsFiniteSet(c) /\ IsFiniteSet(M)
<1>1. IsFiniteSet(Atoms)
  BY TopicAssumption, FS_Interval DEF Atoms
<1>2. IsFiniteSet(c) /\ IsFiniteSet(M) /\ IsFiniteSet(c \cup M) /\ IsFiniteSet(c \cap M)
  <2>1. c \cup M \in SUBSET Atoms /\ c \cap M \in SUBSET Atoms
    OBVIOUS
  <2>q. QED
    BY <1>1, <2>1, FS_Subset
<1>3. /\ Cardinality(c) \in Nat /\ Cardinality(M) \in Nat
      /\ Cardinality(c \cup M) \in Nat /\ Cardinality(c \cap M) \in Nat
  BY <1>2, FS_CardinalityType
<1>4. c \in SUBSET (c \cup M) /\ M \in SUBSET (c \cup M)
  OBVIOUS
<1>5. Cardinality(c) <= Cardinality(c \cup M) /\ Cardinality(M) <= Cardinality(c \cup M)
  BY <1>2, <1>4, FS_Subset
<1>q. QED
  BY <1>2, <1>3, <1>5 DEF Overlap, Union

\* What a set shares with two that are apart is at most the set.
LEMMA SharesApart ==
  ASSUME NEW c \in SUBSET Atoms, NEW M \in SUBSET Atoms, NEW N \in SUBSET Atoms,
         M \cap N = {}
  PROVE  Cardinality(c \cap M) + Cardinality(c \cap N) <= Cardinality(c)
<1> DEFINE x == c \cap M
           y == c \cap N
<1>1. x \cap y = {} /\ x \cup y \in SUBSET c /\ x \in SUBSET c /\ y \in SUBSET c
  OBVIOUS
<1>2. IsFiniteSet(c)
  BY Shares
<1> HIDE DEF x, y
<1>3. IsFiniteSet(x) /\ IsFiniteSet(y)
  BY <1>1, <1>2, FS_Subset
<1>4. Cardinality(x \cup y) = Cardinality(x) + Cardinality(y) - Cardinality(x \cap y)
  BY <1>3, FS_Union
<1>5. Cardinality(x \cap y) = 0
  BY <1>1, FS_EmptySet
<1>6. Cardinality(x) \in Nat /\ Cardinality(y) \in Nat /\ Cardinality(c) \in Nat
  BY <1>2, <1>3, FS_CardinalityType
<1>7. Cardinality(x \cup y) <= Cardinality(c)
  BY <1>1, <1>2, FS_Subset
<1>q. QED
  BY <1>4, <1>5, <1>6, <1>7 DEF x, y

LEMMA Products ==
  ASSUME NEW a \in Nat, NEW b \in Nat, NEW u \in Nat, NEW w \in Nat, 2 * a > u, 2 * b < w
  PROVE  a * w > b * u
<1>1. 2 * a >= u + 1 /\ w >= 2 * b + 1
  OBVIOUS
<1>2. \A p, q, r \in Nat : p >= q => p * r >= q * r
  OBVIOUS
<1>3. (2 * a) * w >= (u + 1) * w
  BY <1>1, <1>2
<1>4. w * (u + 1) >= (2 * b + 1) * (u + 1)
  BY <1>1, <1>2
<1>5. 2 * (a * w) >= 2 * (b * u) + 1
  BY <1>3, <1>4
<1>6. a * w \in Int /\ b * u \in Int
  OBVIOUS
<1>q. QED
  BY <1>5, <1>6

\* Where a cluster shares most of its union with a scene, a scene apart from that one
\* is farther from it,
LEMMA ApartIsFarther ==
  ASSUME NEW c \in SUBSET Atoms, NEW M \in SUBSET Atoms, NEW N \in SUBSET Atoms,
         M \cap N = {}, MostlyShared(c, M)
  PROVE  CloserTo(c, M, N) /\ ~CloserTo(c, N, M)
<1> DEFINE a == Overlap(c, M)
           b == Overlap(c, N)
           u == Union(c, M)
           w == Union(c, N)
<1>1. a \in Nat /\ b \in Nat /\ u \in Nat /\ w \in Nat
  BY Shares
<1>2. a + b <= Cardinality(c)
  BY SharesApart DEF Overlap
<1>3. Cardinality(c) \in Nat /\ Cardinality(c) <= u /\ Cardinality(c) <= w
  BY Shares
<1>4. 2 * a > u
  BY DEF MostlyShared
<1> HIDE DEF a, b, u, w
<1>5. 2 * b < w
  BY <1>1, <1>2, <1>3, <1>4
<1>6. a * w > b * u /\ a * w \in Int /\ b * u \in Int
  BY <1>1, <1>4, <1>5, Products
<1>7. a * w >= b * u /\ ~(b * u >= a * w)
  BY <1>6
<1>q. QED
  BY <1>7 DEF CloserTo, a, b, u, w

\* and no cluster apart from that one matches the scene.
LEMMA ApartDoesNotMatch ==
  ASSUME MatchPercent = 50, NEW c \in SUBSET Atoms, NEW d \in SUBSET Atoms,
         NEW M \in SUBSET Atoms, c \cap d = {}, MostlyShared(c, M)
  PROVE  ~Matches(d, M) /\ Matches(c, M) /\ Overlap(c, M) > 0
<1>1. Cardinality(M \cap c) + Cardinality(M \cap d) <= Cardinality(M)
  BY SharesApart
<1>2. M \cap c = c \cap M /\ M \cap d = d \cap M
  OBVIOUS
<1>3. /\ Overlap(c, M) \in Nat /\ Overlap(d, M) \in Nat
      /\ Union(c, M) \in Nat /\ Union(d, M) \in Nat /\ Cardinality(M) \in Nat
      /\ Cardinality(M) <= Union(c, M) /\ Cardinality(M) <= Union(d, M)
  BY Shares
<1>4. Overlap(c, M) + Overlap(d, M) <= Cardinality(M)
  BY <1>1, <1>2 DEF Overlap
<1>5. 2 * Overlap(c, M) > Union(c, M)
  BY DEF MostlyShared
<1>6. 2 * Overlap(d, M) < Union(d, M)
  BY <1>3, <1>4, <1>5
<1>7. 100 * Overlap(c, M) >= 50 * Union(c, M) /\ ~(100 * Overlap(d, M) >= 50 * Union(d, M))
  BY <1>3, <1>5, <1>6
<1>8. Overlap(c, M) > 0
  BY <1>3, <1>5
<1>q. QED
  BY <1>7, <1>8 DEF Matches

\* The scene that a cluster mostly shares is the only one it may be given.
LEMMA BestIsOnly ==
  ASSUME MatchPercent = 50, TypeOK, SeenApart, NEW c \in SUBSET Atoms, NEW i \in Pending,
         MostlyShared(c, seen[i].members)
  PROVE  /\ i \in BestFor(c) /\ Matches(c, seen[i].members)
         /\ \A k \in BestFor(c) : k = i
<1>1. \A k \in Pending : k \in DOMAIN seen /\ seen[k].members \in SUBSET Atoms
  BY SceneSeen DEF Pending
<1>2. Matches(c, seen[i].members) /\ Overlap(c, seen[i].members) > 0
  <2>1. {} \in SUBSET Atoms /\ c \cap {} = {}
    OBVIOUS
  <2>q. QED
    BY <1>1, <2>1, ApartDoesNotMatch
<1>3. ASSUME NEW k \in Pending, k # i
      PROVE  /\ CloserTo(c, seen[i].members, seen[k].members)
             /\ ~CloserTo(c, seen[k].members, seen[i].members)
  <2>1. seen[i].members \cap seen[k].members = {}
    BY <1>1, <1>3 DEF SeenApart
  <2>q. QED
    BY <1>1, <2>1, ApartIsFarther
<1>4. CloserTo(c, seen[i].members, seen[i].members)
  <2>1. /\ Overlap(c, seen[i].members) \in Nat /\ Union(c, seen[i].members) \in Nat
    BY <1>1, Shares
  <2>2. \A p, q \in Nat : p * q >= p * q
    OBVIOUS
  <2>q. QED
    BY <2>1, <2>2 DEF CloserTo
<1>5. i \in BestFor(c)
  BY <1>2, <1>3, <1>4 DEF BestFor, Pending
<1>6. ASSUME NEW k \in BestFor(c), k # i
      PROVE  FALSE
  <2>1. k \in Pending /\ CloserTo(c, seen[k].members, seen[i].members)
    BY DEF BestFor, Pending
  <2>q. QED
    BY <1>3, <1>6, <2>1
<1>q. QED
  BY <1>2, <1>5, <1>6

-----------------------------------------------------------------------------
\* Identity.

\* The cluster has been given the scene it mostly shares, or one derived from that.
Has(c, i) ==
  /\ i \in visited
  /\ \E h \in Placed :
       /\ scenes[h].members = c
       /\ IF Reorganizes(seen[i].members, c) THEN InheritsFrom(h, i) ELSE h = i

\* The derived one is there, and the scene it replaces is about to be retired.
Inherits(c, i) ==
  /\ pc = "superseding" /\ task.id = i
  /\ Reorganizes(seen[i].members, c)
  /\ task.heir \in Placed
  /\ scenes[task.heir].members = c
  /\ i \in scenes[task.heir].from

Kept(c, i) ==
  IF c \in clusters THEN i \in Pending /\ (pc = "superseding" => task.id # i)
                    ELSE Has(c, i) \/ Inherits(c, i)

\* While the pass places clusters, the scene that one mostly shares waits for it.
IdInv ==
  Placing /\ ~disturbed /\ SeenApart =>
    \A c \in Clusters(active), i \in DOMAIN seen :
      MostlyShared(c, seen[i].members) => Kept(c, i)

\* A step that writes neither a scene visited nor one placed leaves what a cluster has.
LEMMA HasStays ==
  ASSUME TypeOK, NEW c, NEW i \in DOMAIN seen, Has(c, i), NEW w \in Ids, w \notin Placed,
         w \notin visited, NEW row, Wrote(w, row), Placed \subseteq Placed',
         visited \subseteq visited', seen' = seen
  PROVE  Has(c, i)'
<1>1. i \in visited /\ i \in Ids
  BY SceneSeen DEF Has
<1>2. PICK h \in Placed :
        /\ scenes[h].members = c
        /\ IF Reorganizes(seen[i].members, c) THEN InheritsFrom(h, i) ELSE h = i
  BY DEF Has
<1>3. scenes'[h] = scenes[h] /\ scenes'[i] = scenes[i]
  BY <1>1, <1>2, PlacedIds DEF Wrote
<1>4. InheritsFrom(h, i) => InheritsFrom(h, i)'
  BY <1>3 DEF InheritsFrom
<1>5. h \in Placed' /\ i \in visited'
  BY <1>1, <1>2
<1>6. IF Reorganizes(seen'[i].members, c) THEN InheritsFrom(h, i)' ELSE h = i
  BY <1>2, <1>4
<1>q. QED
  BY <1>2, <1>3, <1>5, <1>6 DEF Has

\* The hypotheses of IdInv, before and after a step that places.
LEMMA BeginIds ==
  ASSUME IInv, Begin
  PROVE  IdInv'
<1>1. pc' = "placing" /\ clusters' = Clusters(active) /\ visited' = {} /\ active' = active
  BY DEF Begin, storeVars
<1>2. Pending' = DOMAIN seen'
  BY <1>1 DEF Pending
<1>q. QED
  BY <1>1, <1>2 DEF IdInv, Kept

LEMMA ClusterTypes ==
  ASSUME TypeOK
  PROVE  /\ \A c \in Clusters(active) : c \in SUBSET Atoms
         /\ \A c, d \in Clusters(active) : c # d => c \cap d = {}
<1>1. active \in SUBSET Atoms
  BY DEF TypeOK
<1>q. QED
  BY <1>1, ClustersPartition

\* Only the cluster that mostly shares a scene is given it.
LEMMA GivenTo ==
  ASSUME MatchPercent = 50, TypeOK, SeenApart, NEW c \in Clusters(active),
         NEW d \in Clusters(active), NEW i \in Pending, MostlyShared(c, seen[i].members),
         NEW k \in BestFor(d), Matches(d, seen[k].members)
  PROVE  c = d <=> k = i
<1>1. i \in DOMAIN seen /\ seen[i].members \in SUBSET Atoms
  BY SceneSeen DEF Pending
<1>2. c \in SUBSET Atoms /\ d \in SUBSET Atoms /\ (c # d => c \cap d = {})
  BY ClusterTypes
<1>3. CASE c = d
  BY <1>2, <1>3, BestIsOnly
<1>4. CASE c # d
  <2>1. ~Matches(d, seen[i].members)
    BY <1>1, <1>2, <1>4, ApartDoesNotMatch
  <2>q. QED
    BY <1>4, <2>1
<1>q. QED
  BY <1>3, <1>4

LEMMA KeepIds ==
  ASSUME MatchPercent = 50, IInv, IdInv, NEW d \in clusters, NEW k \in DOMAIN seen, Keep(d, k)
  PROVE  IdInv'
<1>0. TypeOK
  BY DEF IInv
<1>1. /\ Wrote(k, Row(k, "active", d))
      /\ scenes'[k].status = "active" /\ scenes'[k].members = d
      /\ k \in Pending /\ pc = "placing" /\ k \in Ids
      /\ Went(k, d) \/ Leave
      /\ UNCHANGED <<active, disturbed>>
  BY <1>0, KeepIs, SceneSeen
<1>2. k \in BestFor(d) /\ Matches(d, seen[k].members) /\ ~Reorganizes(seen[k].members, d)
  BY DEF Keep
<1>3. CASE Leave
  BY <1>3 DEF Leave, IdInv, Placing
<1>4. CASE Went(k, d)
  <2>1. SUFFICES ASSUME ~disturbed, SeenApart, NEW c \in Clusters(active), NEW i \in DOMAIN seen,
                        MostlyShared(c, seen[i].members)
                 PROVE  Kept(c, i)'
    BY <1>1, <1>4 DEF IdInv, Went, SeenApart
  <2>2. Placing /\ pc' = "placing"
    BY <1>1, <1>4 DEF Placing, Went
  <2>3. Kept(c, i)
    BY <2>1, <2>2 DEF IdInv
  <2>4. d \in Clusters(active)
    BY <2>1, <2>2 DEF IInv, PlacedInv
  <2>5. Pending' = Pending \ {k} /\ ActiveScenes' = ActiveScenes \cup {k}
    BY <1>1, <1>4, WroteActive DEF Pending, Went
  <2>6. Placed' = Placed \cup {k} /\ k \notin Placed /\ k \notin visited
    BY <1>1, <2>5 DEF Placed, Pending
  <2>7. CASE c \in clusters
    <3>1. i \in Pending
      BY <2>3, <2>7 DEF Kept
    <3>2. c = d <=> k = i
      BY <1>0, <1>2, <2>1, <2>4, <3>1, GivenTo
    <3>3. CASE c = d
      <4>1. i \in visited' /\ i \in Placed' /\ scenes'[i].members = c /\ c \notin clusters'
        BY <1>1, <1>4, <2>6, <3>2, <3>3 DEF Went
      <4>2. ~Reorganizes(seen'[i].members, c)
        BY <1>2, <1>4, <3>2, <3>3 DEF Went
      <4>3. Has(c, i)'
        BY <4>1, <4>2 DEF Has
      <4>q. QED
        BY <4>1, <4>3 DEF Kept
    <3>4. CASE c # d
      <4>1. i \in Pending' /\ c \in clusters'
        BY <1>4, <2>5, <2>7, <3>1, <3>2, <3>4 DEF Went
      <4>q. QED
        BY <2>2, <4>1 DEF Kept
    <3>q. QED
      BY <3>3, <3>4
  <2>8. CASE c \notin clusters
    <3>1. Has(c, i)
      BY <1>1, <2>3, <2>8 DEF Kept, Inherits
    <3>2. Has(c, i)'
      BY <1>0, <1>1, <1>4, <2>6, <3>1, HasStays DEF Went
    <3>3. c \notin clusters'
      BY <1>4, <2>8 DEF Went
    <3>q. QED
      BY <3>2, <3>3 DEF Kept
  <2>q. QED
    BY <2>7, <2>8
<1>q. QED
  BY <1>1, <1>3, <1>4

LEMMA SpawnIds ==
  ASSUME MatchPercent = 50, IInv, IdInv, NEW d \in clusters, Spawn(d)
  PROVE  IdInv'
<1> DEFINE w == born + 1
           On == clusters' = clusters \ {d} /\ UNCHANGED <<pc, seen, visited, task>>
<1>0. TypeOK
  BY DEF IInv
<1>1. /\ Wrote(w, Create(d, {}))
      /\ scenes'[w].status = "active" /\ scenes'[w].members = d
      /\ w \in Ids /\ pc = "placing"
      /\ On \/ Leave
      /\ UNCHANGED <<active, disturbed>>
  BY <1>0, SpawnIs
<1>2. \A k \in BestFor(d) : ~Matches(d, seen[k].members)
  BY DEF Spawn
<1>w. w > born
  BY <1>0 DEF TypeOK
<1> HIDE DEF w
<1>v. w \notin ActiveScenes /\ w \notin DOMAIN seen /\ w \notin visited
  BY <1>0, <1>1, <1>w, ActiveAreBorn DEF TypeOK
<1>3. CASE Leave
  BY <1>3 DEF Leave, IdInv, Placing
<1>4. CASE On
  <2>1. SUFFICES ASSUME ~disturbed, SeenApart, NEW c \in Clusters(active), NEW i \in DOMAIN seen,
                        MostlyShared(c, seen[i].members)
                 PROVE  Kept(c, i)'
    BY <1>1, <1>4 DEF IdInv, SeenApart
  <2>2. Placing /\ pc' = "placing"
    BY <1>1, <1>4 DEF Placing
  <2>3. Kept(c, i)
    BY <2>1, <2>2 DEF IdInv
  <2>5. Pending' = Pending /\ ActiveScenes' = ActiveScenes \cup {w}
    BY <1>1, <1>4, WroteActive DEF Pending
  <2>6. Placed \subseteq Placed' /\ w \notin Placed
    BY <1>v, <2>5 DEF Placed
  <2>7. CASE c \in clusters
    <3>1. i \in Pending
      BY <2>3, <2>7 DEF Kept
    <3>2. c # d
      <4>1. c \in SUBSET Atoms
        BY <1>0, ClusterTypes
      <4>q. QED
        BY <1>0, <1>2, <2>1, <3>1, <4>1, BestIsOnly
    <3>3. i \in Pending' /\ c \in clusters'
      BY <1>4, <2>5, <2>7, <3>1, <3>2
    <3>q. QED
      BY <2>2, <3>3 DEF Kept
  <2>8. CASE c \notin clusters
    <3>1. Has(c, i)
      BY <1>1, <2>3, <2>8 DEF Kept, Inherits
    <3>2. Has(c, i)'
      BY <1>0, <1>1, <1>v, <1>4, <2>6, <3>1, HasStays
    <3>3. c \notin clusters'
      BY <1>4, <2>8
    <3>q. QED
      BY <3>2, <3>3 DEF Kept
  <2>q. QED
    BY <2>7, <2>8
<1>q. QED
  BY <1>1, <1>3, <1>4

LEMMA ReorganizeIds ==
  ASSUME MatchPercent = 50, IInv, IdInv, NEW d \in clusters, NEW k \in DOMAIN seen,
         Reorganize(d, k)
  PROVE  IdInv'
<1> DEFINE w == born + 1
           On == /\ clusters' = clusters \ {d} /\ UNCHANGED <<seen, visited>>
                 /\ pc' = "superseding" /\ task'.id = k /\ task'.heir = w
<1>0. TypeOK
  BY DEF IInv
<1>1. /\ Wrote(w, Create(d, {k}))
      /\ scenes'[w].status = "active" /\ scenes'[w].members = d /\ scenes'[w].from = {k}
      /\ w \in Ids /\ pc = "placing"
      /\ On \/ Leave
      /\ UNCHANGED <<active, disturbed>>
  BY <1>0, ReorganizeIs
<1>2. k \in BestFor(d) /\ Matches(d, seen[k].members) /\ Reorganizes(seen[k].members, d)
  BY DEF Reorganize
<1>w. w > born
  BY <1>0 DEF TypeOK
<1> HIDE DEF w
<1>v. w \notin ActiveScenes /\ w \notin DOMAIN seen /\ w \notin visited
  BY <1>0, <1>1, <1>w, ActiveAreBorn DEF TypeOK
<1>3. CASE Leave
  BY <1>3 DEF Leave, IdInv, Placing
<1>4. CASE On
  <2>1. SUFFICES ASSUME ~disturbed, SeenApart, NEW c \in Clusters(active), NEW i \in DOMAIN seen,
                        MostlyShared(c, seen[i].members)
                 PROVE  Kept(c, i)'
    BY <1>1, <1>4 DEF IdInv, SeenApart
  <2>2. Placing
    BY <1>1 DEF Placing
  <2>3. Kept(c, i)
    BY <2>1, <2>2 DEF IdInv
  <2>4. d \in Clusters(active)
    BY <2>1, <2>2 DEF IInv, PlacedInv
  <2>5. Pending' = Pending /\ ActiveScenes' = ActiveScenes \cup {w}
    BY <1>1, <1>4, WroteActive DEF Pending
  <2>6. Placed' = Placed \cup {w} /\ w \notin Placed
    BY <1>v, <2>5 DEF Placed, Pending
  <2>7. CASE c \in clusters
    <3>1. i \in Pending
      BY <2>3, <2>7 DEF Kept
    <3>2. c = d <=> k = i
      BY <1>0, <1>2, <2>1, <2>4, <3>1, GivenTo
    <3>3. CASE c = d
      <4>1. task'.id = i /\ task'.heir \in Placed' /\ scenes'[task'.heir].members = c
        BY <1>1, <1>4, <2>6, <3>2, <3>3
      <4>2. i \in scenes'[task'.heir].from /\ c \notin clusters'
        BY <1>1, <1>4, <3>2, <3>3
      <4>3. Reorganizes(seen'[i].members, c)
        BY <1>2, <1>4, <3>2, <3>3
      <4>4. Inherits(c, i)'
        BY <1>4, <4>1, <4>2, <4>3 DEF Inherits
      <4>q. QED
        BY <4>2, <4>4 DEF Kept
    <3>4. CASE c # d
      <4>1. i \in Pending' /\ c \in clusters' /\ task'.id # i
        BY <1>4, <2>5, <2>7, <3>1, <3>2, <3>4
      <4>q. QED
        BY <4>1 DEF Kept
    <3>q. QED
      BY <3>3, <3>4
  <2>8. CASE c \notin clusters
    <3>1. Has(c, i)
      BY <1>1, <2>3, <2>8 DEF Kept, Inherits
    <3>2. Has(c, i)'
      BY <1>0, <1>1, <1>v, <1>4, <2>6, <3>1, HasStays
    <3>3. c \notin clusters'
      BY <1>4, <2>8
    <3>q. QED
      BY <3>2, <3>3 DEF Kept
  <2>q. QED
    BY <2>7, <2>8
<1>q. QED
  BY <1>1, <1>3, <1>4

LEMMA SupersedeIds ==
  ASSUME IInv, IdInv, Supersede
  PROVE  IdInv'
<1> DEFINE w == task.id
           h == task.heir
           On == visited' = visited \cup {w} /\ pc' = "placing" /\ UNCHANGED <<clusters, seen>>
<1>0. TypeOK /\ TaskInv
  BY DEF IInv
<1>1. /\ w \in Pending /\ w \in Ids /\ pc = "superseding"
      /\ \E row : Wrote(w, row)
      /\ scenes'[w].status = "retired" /\ scenes'[w].by = {h}
      /\ On \/ Leave
      /\ UNCHANGED <<active, disturbed>>
  BY <1>0, SupersedeIs
<1> HIDE DEF w, h
<1>2. PICK row : Wrote(w, row)
  BY <1>1
<1>3. CASE Leave
  BY <1>3 DEF Leave, IdInv, Placing
<1>4. CASE On
  <2>1. SUFFICES ASSUME ~disturbed, SeenApart, NEW c \in Clusters(active), NEW i \in DOMAIN seen,
                        MostlyShared(c, seen[i].members)
                 PROVE  Kept(c, i)'
    BY <1>1, <1>4 DEF IdInv, SeenApart
  <2>2. Placing
    BY <1>1 DEF Placing
  <2>3. Kept(c, i)
    BY <2>1, <2>2 DEF IdInv
  <2>5. Pending' = Pending \ {w} /\ ActiveScenes' = ActiveScenes \ {w}
    BY <1>1, <1>2, <1>4, WroteRetired DEF Pending
  <2>6. Placed' = Placed /\ w \notin Placed /\ w \notin visited
    BY <1>1, <2>5 DEF Placed, Pending
  <2>7. CASE c \in clusters
    <3>1. i \in Pending /\ i # w
      BY <1>1, <2>3, <2>7 DEF Kept, w
    <3>q. QED
      BY <1>4, <2>5, <2>7, <3>1 DEF Kept
  <2>8. CASE c \notin clusters /\ Has(c, i)
    <3>1. Has(c, i)'
      BY <1>0, <1>1, <1>2, <1>4, <2>6, <2>8, HasStays
    <3>q. QED
      BY <1>4, <2>8, <3>1 DEF Kept
  <2>9. CASE c \notin clusters /\ Inherits(c, i)
    <3>0. PICK g : g = h
      OBVIOUS
    <3>1. /\ w = i /\ g \in Placed /\ scenes[g].members = c /\ i \in scenes[g].from
          /\ Reorganizes(seen[i].members, c)
      BY <2>9, <3>0 DEF Inherits, w, h
    <3>2. scenes'[g] = scenes[g]
      BY <1>2, <2>6, <3>1, PlacedIds DEF Wrote
    <3>3. InheritsFrom(g, i)'
      BY <1>1, <3>0, <3>1, <3>2 DEF InheritsFrom
    <3>4. Has(c, i)'
      BY <1>4, <2>6, <3>1, <3>2, <3>3 DEF Has
    <3>q. QED
      BY <1>4, <2>9, <3>4 DEF Kept
  <2>q. QED
    BY <2>3, <2>7, <2>8, <2>9 DEF Kept
<1>q. QED
  BY <1>1, <1>3, <1>4

LEMMA RetireIds ==
  ASSUME IInv, IdInv, NEW w \in DOMAIN seen, Retire(w)
  PROVE  IdInv'
<1> DEFINE On == visited' = visited \cup {w} /\ UNCHANGED <<pc, clusters, seen, task>>
<1>0. TypeOK
  BY DEF IInv
<1>1. /\ w \in Pending /\ w \in Ids /\ pc = "placing" /\ clusters = {}
      /\ \E row : Wrote(w, row)
      /\ scenes'[w].status = "retired"
      /\ On \/ Leave
      /\ UNCHANGED <<active, disturbed>>
  BY <1>0, RetireIs
<1>2. PICK row : Wrote(w, row)
  BY <1>1
<1>3. CASE Leave
  BY <1>3 DEF Leave, IdInv, Placing
<1>4. CASE On
  <2>1. SUFFICES ASSUME ~disturbed, SeenApart, NEW c \in Clusters(active), NEW i \in DOMAIN seen,
                        MostlyShared(c, seen[i].members)
                 PROVE  Kept(c, i)'
    BY <1>1, <1>4 DEF IdInv, SeenApart
  <2>2. Placing
    BY <1>1 DEF Placing
  <2>3. Has(c, i)
    BY <1>1, <2>1, <2>2 DEF IdInv, Kept, Inherits
  <2>5. Pending' = Pending \ {w} /\ ActiveScenes' = ActiveScenes \ {w}
    BY <1>1, <1>2, <1>4, WroteRetired DEF Pending
  <2>6. Placed' = Placed /\ w \notin Placed /\ w \notin visited
    BY <1>1, <2>5 DEF Placed, Pending
  <2>7. Has(c, i)'
    BY <1>0, <1>1, <1>2, <1>4, <2>3, <2>6, HasStays
  <2>q. QED
    BY <1>1, <1>4, <2>7 DEF Kept
<1>q. QED
  BY <1>1, <1>3, <1>4

LEMMA NextIds ==
  ASSUME MatchPercent = 50, IInv, IdInv, [Next]_vars
  PROVE  IdInv'
<1>1. CASE Begin
  BY <1>1, BeginIds
<1>2. ASSUME NEW c \in clusters, NEW i \in DOMAIN seen, Keep(c, i) \/ Reorganize(c, i)
      PROVE  IdInv'
  BY <1>2, KeepIds, ReorganizeIds
<1>3. ASSUME NEW c \in clusters, Spawn(c)
      PROVE  IdInv'
  BY <1>3, SpawnIds
<1>4. CASE Supersede
  BY <1>4, SupersedeIds
<1>5. ASSUME NEW i \in DOMAIN seen, Retire(i) \/ UpToDate(i) \/ AskNarration(i)
      PROVE  IdInv'
  <2>1. CASE Retire(i)
    BY <2>1, RetireIds
  <2>2. CASE UpToDate(i) \/ AskNarration(i)
    BY <2>2 DEF UpToDate, AskNarration, IdInv, Placing
  <2>q. QED
    BY <1>5, <2>1, <2>2
<1>6. CASE Reconciled \/ CommitL1 \/ AskCore
  BY <1>6 DEF Reconciled, CommitL1, AskCore, IdInv, Placing
<1>7. ASSUME NEW ok \in BOOLEAN, NEW retitled \in BOOLEAN, Narrated(ok, retitled)
      PROVE  IdInv'
  <2>1. pc' = "narrating" \/ Leave
    BY <1>7, NarratedIs DEF IInv
  <2>q. QED
    BY <2>1 DEF Leave, IdInv, Placing
<1>8. CASE PassEnds \/ Crash
  BY <1>8 DEF PassEnds, Crash, Leave, IdInv, Placing
<1>9. CASE Step
  BY <1>1, <1>2, <1>3, <1>4, <1>5, <1>6, <1>7, <1>8, <1>9 DEF Step, Narrate, NarrationFails
<1>10. ASSUME Write
       PROVE  IdInv'
  BY <1>10 DEF Write, IdInv
<1>11. ASSUME NEW a \in Atoms, StoreAtom(a) \/ DropAtom(a) \/ DeleteAtom(a)
       PROVE  IdInv'
  BY <1>10, <1>11 DEF StoreAtom, DropAtom, DeleteAtom
<1>12. ASSUME NEW i \in Ids, RemoveScene(i)
       PROVE  IdInv'
  BY <1>10, <1>12 DEF RemoveScene
<1>13. ASSUME NEW i \in Ids, NEW M \in SUBSET Atoms, NEW status \in {"active", "retired"},
              EditScene(i, M, status)
       PROVE  IdInv'
  BY <1>10, <1>13 DEF EditScene
<1>14. CASE TurnsChange \/ UNCHANGED vars
  <2>1. UNCHANGED <<active, scenes, pc, clusters, seen, visited, task, disturbed>>
    BY <1>14 DEF TurnsChange, vars, storeVars, passVars
  <2>q. QED
    BY <2>1 DEF IdInv, Placing, SeenApart, Kept, Has, Inherits, InheritsFrom, Pending, Placed,
                ActiveScenes
<1>q. QED
  BY <1>8, <1>9, <1>11, <1>12, <1>13, <1>14 DEF Next

\* No step of a pass puts a retired scene back into service.
LEMMA RetiredStays ==
  ASSUME IInv, [Next]_vars, NEW j \in Ids, ~disturbed', scenes[j].status = "retired"
  PROVE  scenes'[j].status = "retired"
<1>0. TypeOK /\ TaskInv /\ StillInv
  BY DEF IInv
<1>1. j \notin ActiveScenes /\ j \in 1..born
  <2>1. j \notin ActiveScenes
    BY DEF ActiveScenes
  <2>2. ~(j > born)
    BY <1>0, NoSceneIs DEF TypeOK
  <2>q. QED
    BY <1>0, <2>1, <2>2, Numbers DEF TypeOK
<1>2. ASSUME NEW w \in Ids, NEW row, Wrote(w, row), w # j
      PROVE  scenes'[j].status = "retired"
  BY <1>2 DEF Wrote
<1>3. ASSUME ~disturbed, NEW w \in Pending
      PROVE  w # j
  BY <1>0, <1>1, <1>3 DEF StillInv
<1>4. ASSUME NEW c \in clusters, NEW i \in DOMAIN seen, Keep(c, i)
      PROVE  scenes'[j].status = "retired"
  <2>1. /\ Wrote(i, Row(i, "active", c)) /\ i \in Pending /\ disturbed' = disturbed
        /\ i \in Ids
    BY <1>0, <1>4, KeepIs, SceneSeen
  <2>q. QED
    BY <1>2, <1>3, <2>1
<1>5. born + 1 # j
  BY <1>0, <1>1 DEF TypeOK
<1>6. ASSUME NEW c \in clusters, NEW i \in DOMAIN seen, Reorganize(c, i)
      PROVE  scenes'[j].status = "retired"
  <2>1. Wrote(born + 1, Create(c, {i})) /\ born + 1 \in Ids
    BY <1>0, <1>6, ReorganizeIs
  <2>q. QED
    BY <1>2, <1>5, <2>1
<1>7. ASSUME NEW c \in clusters, Spawn(c)
      PROVE  scenes'[j].status = "retired"
  <2>1. Wrote(born + 1, Create(c, {})) /\ born + 1 \in Ids
    BY <1>0, <1>7, SpawnIs
  <2>q. QED
    BY <1>2, <1>5, <2>1
<1>8. CASE Supersede
  <2>1. /\ task.id \in Pending /\ task.id \in Ids /\ disturbed' = disturbed
        /\ \E row : Wrote(task.id, row)
    BY <1>0, <1>8, SupersedeIs
  <2>q. QED
    BY <1>2, <1>3, <2>1
<1>9. ASSUME NEW i \in DOMAIN seen, Retire(i)
      PROVE  scenes'[j].status = "retired"
  <2>1. /\ i \in Pending /\ i \in Ids /\ disturbed' = disturbed /\ \E row : Wrote(i, row)
    BY <1>0, <1>9, RetireIs
  <2>q. QED
    BY <1>2, <1>3, <2>1
<1>10. ASSUME NEW ok \in BOOLEAN, NEW retitled \in BOOLEAN, Narrated(ok, retitled)
       PROVE  scenes'[j].status = "retired"
  <2>1. /\ task.id \in Pending /\ task.id \in Ids /\ disturbed' = disturbed
        /\ \E row : Wrote(task.id, row)
    BY <1>0, <1>10, NarratedIs
  <2>q. QED
    BY <1>2, <1>3, <2>1
<1>11. CASE CommitL1 \/ Begin \/ Reconciled \/ AskCore \/ PassEnds \/ Crash
  BY <1>11 DEF CommitL1, Begin, Reconciled, AskCore, PassEnds, Crash, storeVars
<1>12. ASSUME NEW i \in DOMAIN seen, UpToDate(i) \/ AskNarration(i)
       PROVE  scenes'[j].status = "retired"
  BY <1>12 DEF UpToDate, AskNarration, storeVars
<1>13. CASE Step
  BY <1>4, <1>6, <1>7, <1>8, <1>9, <1>10, <1>11, <1>12, <1>13 DEF Step, Narrate, NarrationFails
<1>14. ~Write
  BY DEF Write
<1>15. CASE TurnsChange \/ UNCHANGED vars
  BY <1>15 DEF TurnsChange, vars, storeVars
<1>q. QED
  BY <1>11, <1>13, <1>14, <1>15
  DEF Next, StoreAtom, DropAtom, DeleteAtom, RemoveScene, EditScene

LEMMA IdsAreKept ==
  ASSUME IInv, IdInv, Reconciled, ~disturbed, SeenApart,
         NEW c \in Clusters(active), NEW i \in DOMAIN seen, MostlyShared(c, seen[i].members)
  PROVE  KeepsIdentity(c, i)
<1>1. pc = "placing" /\ clusters = {} /\ DOMAIN seen \subseteq visited
  BY DEF Reconciled
<1>2. Placed = ActiveScenes
  BY <1>1 DEF Placed, Pending
<1>3. Has(c, i)
  BY <1>1 DEF IdInv, Placing, Kept, Inherits
<1>q. QED
  BY <1>2, <1>3 DEF Has, KeepsIdentity

\* A topic that is mostly the same keeps its scene, or gets one derived from it, and no
\* pass revives a retired one, however clusters and scenes tie (core.ts:1205-1290, :1373).
\* The threshold is the one the program has (core.ts:72): below it another cluster may
\* take the scene first, above it the scene may not match.
THEOREM TopicsKeepTheirIds ==
  ASSUME MatchPercent = 50
  PROVE  Spec => TopicIdsAreStable
<1>1. Init => IdInv
  BY DEF Init, IdInv, Placing
<1>2. IInv /\ IdInv /\ [Next]_vars => IdInv'
  BY NextIds
<1>3. Spec => []IdInv
  BY <1>1, <1>2, Invariance, PTL DEF Spec
<1>4. IInv /\ IdInv /\ [Next]_vars =>
        [Reconciled /\ ~disturbed /\ SeenApart =>
           \A c \in Clusters(active), i \in DOMAIN seen :
             MostlyShared(c, seen[i].members) => KeepsIdentity(c, i)]_vars
  BY IdsAreKept
<1>5. Spec => TopicsKeepIdentity
  BY <1>3, <1>4, Invariance, PTL DEF Spec, TopicsKeepIdentity
<1>6. IInv /\ [Next]_vars =>
        [\A i \in Ids :
           ~disturbed' /\ scenes[i].status = "retired" => scenes'[i].status = "retired"]_vars
  BY RetiredStays
<1>7. Spec => RetirementIsFinal
  BY <1>6, Invariance, PTL DEF Spec, RetirementIsFinal
<1>q. QED
  BY <1>5, <1>7 DEF TopicIdsAreStable
=============================================================================
