------------------------- MODULE ConsolidationProofs -------------------------
(***************************************************************************)
(* Proofs about Consolidation, for any atoms, replies, neighbours,         *)
(* settings and prompt lengths, and any number of candidates and entries;  *)
(* the last, that it implements the planning of DistillPass.               *)
(***************************************************************************)
EXTENDS Consolidation, WellFoundedInduction, SequenceTheorems, TLAPS

-----------------------------------------------------------------------------
\* Induction and recursion, as facts about sets and functions.

\* A set of natural numbers has a least one.
LEMMA LeastNat ==
  ASSUME NEW T \in SUBSET Nat, T # {}
  PROVE  \E m \in T : \A k \in T : m <= k
<1> DEFINE R == {p \in Nat \X Nat : p[1] < p[2]}
<1>1. OpToRel(<, Nat) = R
  BY DEF OpToRel
<1>2. IsWellFoundedOn(R, Nat)
  BY <1>1, NatLessThanWellFounded
<1> HIDE DEF R
<1>3. PICK m \in T : \A k \in T : ~(<<k, m>> \in R)
  BY <1>2, WFMin
<1>4. ASSUME NEW k \in T, k < m
      PROVE  FALSE
  <2> DEFINE p == <<k, m>>
  <2>1. p \in Nat \X Nat /\ p[1] < p[2]
    BY <1>4
  <2>2. p \in R
    BY <2>1 DEF R
  <2>q. QED
    BY <1>3, <2>2
<1>q. QED
  BY <1>4

\* Induction up to n.
LEMMA UpTo ==
  ASSUME NEW n \in Nat, NEW T, 0 \in T,
         \A i \in 1..n : i - 1 \in T => i \in T
  PROVE  0..n \subseteq T
<1>1. SUFFICES ASSUME (0..n) \ T # {}
               PROVE  FALSE
  OBVIOUS
<1> DEFINE U == (0..n) \ T
<1>2. U \in SUBSET Nat
  OBVIOUS
<1> HIDE DEF U
<1>3. PICK m \in U : \A k \in U : m <= k
  BY <1>1, <1>2, LeastNat DEF U
<1>4. m \in 1..n /\ m - 1 \notin U
  BY <1>3 DEF U
<1>q. QED
  BY <1>4 DEF U

\* A recursion over 0..n has a solution.
Solves(f, n, b, step) ==
  f = [i \in 0..n |-> IF i = 0 THEN b ELSE step[<<i, f[i - 1]>>]]

LEMMA Recursion ==
  ASSUME NEW n \in Nat, NEW S, NEW b \in S, NEW step \in [(1..n) \X S -> S]
  PROVE  \E f \in [0..n -> S] : Solves(f, n, b, step)
<1> DEFINE T == {i \in 0..n : \E f \in [0..i -> S] : Solves(f, i, b, step)}
<1>1. 0 \in T
  <2> DEFINE f == [i \in 0..0 |-> b]
  <2>1. Solves(f, 0, b, step) /\ f \in [0..0 -> S]
    BY DEF Solves
  <2>q. QED
    BY <2>1
<1>2. ASSUME NEW i \in 1..n, i - 1 \in T
      PROVE  i \in T
  <2>1. PICK g \in [0..(i - 1) -> S] : Solves(g, i - 1, b, step)
    BY <1>2
  <2> DEFINE f == [j \in 0..i |-> IF j = i THEN step[<<i, g[i - 1]>>] ELSE g[j]]
  <2>2. /\ \A j \in 0..(i - 1) : f[j] = g[j]
        /\ f[i] = step[<<i, g[i - 1]>>]
    OBVIOUS
  <2>3. f \in [0..i -> S]
    BY <2>1
  <2> HIDE DEF f
  <2>4. ASSUME NEW j \in 0..i
        PROVE  f[j] = IF j = 0 THEN b ELSE step[<<j, f[j - 1]>>]
    <3>1. CASE j = 0
      <4>1. 0 \in 0..(i - 1)
        OBVIOUS
      <4>2. g[0] = b
        BY <2>1, <4>1 DEF Solves
      <4>q. QED
        BY <2>2, <3>1, <4>1, <4>2
    <3>2. CASE j \in 1..(i - 1)
      <4>1. j \in 0..(i - 1) /\ j - 1 \in 0..(i - 1) /\ j # 0
        BY <3>2
      <4>2. g[j] = step[<<j, g[j - 1]>>]
        BY <2>1, <4>1 DEF Solves
      <4>q. QED
        BY <2>2, <4>1, <4>2
    <3>3. CASE j = i
      <4>1. i - 1 \in 0..(i - 1) /\ i # 0
        OBVIOUS
      <4>q. QED
        BY <2>2, <3>3, <4>1
    <3>q. QED
      BY <3>1, <3>2, <3>3
  <2>5. f = [j \in 0..i |-> f[j]]
    BY <2>3
  <2>6. Solves(f, i, b, step)
    BY <2>4, <2>5 DEF Solves
  <2>q. QED
    BY <2>3, <2>6
<1> HIDE DEF T
<1>3. 0..n \subseteq T
  BY <1>1, <1>2, UpTo
<1>q. QED
  BY <1>3 DEF T

-----------------------------------------------------------------------------
\* Kept.

KeepNext(seq, S, i, acc) == IF seq[i] \in S THEN Append(acc, seq[i]) ELSE acc

Keeps(f, seq, S) ==
  f = [i \in 0..Len(seq) |-> IF i = 0 THEN <<>> ELSE KeepNext(seq, S, i, f[i - 1])]

KeptBy(f, seq, S) ==
  /\ f[0] = <<>>
  /\ \A i \in 1..Len(seq) : f[i] = KeepNext(seq, S, i, f[i - 1])
  /\ Kept(seq, S) = f[Len(seq)]

LEMMA KeptIs ==
  ASSUME NEW U, NEW seq \in Seq(U), NEW S
  PROVE  \E f \in [0..Len(seq) -> Seq(U)] : KeptBy(f, seq, S)
<1> DEFINE n == Len(seq)
           step == [p \in (1..n) \X Seq(U) |-> KeepNext(seq, S, p[1], p[2])]
<1>1. n \in Nat /\ <<>> \in Seq(U)
  OBVIOUS
<1>2. \A i \in 1..n, acc \in Seq(U) : KeepNext(seq, S, i, acc) \in Seq(U)
  BY DEF KeepNext
<1>3. step \in [(1..n) \X Seq(U) -> Seq(U)]
  BY <1>2
<1>4. \A i \in 1..n, acc \in Seq(U) : step[<<i, acc>>] = KeepNext(seq, S, i, acc)
  OBVIOUS
<1> HIDE DEF step
<1>5. PICK g \in [0..n -> Seq(U)] : Solves(g, n, <<>>, step)
  BY <1>1, <1>3, Recursion
<1>6. Keeps(g, seq, S)
  <2>1. \A i \in 0..n : g[i] = IF i = 0 THEN <<>> ELSE step[<<i, g[i - 1]>>]
    BY <1>5 DEF Solves
  <2>2. \A i \in 1..n : step[<<i, g[i - 1]>>] = KeepNext(seq, S, i, g[i - 1])
    BY <1>1, <1>4, <1>5
  <2>3. \A i \in 0..n : g[i] = IF i = 0 THEN <<>> ELSE KeepNext(seq, S, i, g[i - 1])
    <3>1. \A i \in 0..n : i = 0 \/ i \in 1..n
      BY <1>1
    <3>q. QED
      BY <2>1, <2>2, <3>1, Zenon
  <2>4. g = [i \in 0..n |-> g[i]]
    BY <1>5
  <2>q. QED
    BY <2>3, <2>4 DEF Keeps
<1> DEFINE f == CHOOSE h : Keeps(h, seq, S)
<1>7. Keeps(f, seq, S)
  BY <1>6
<1>8. Kept(seq, S) = f[n]
  BY DEF Kept, Keeps, KeepNext
<1> HIDE DEF f
<1>9. f[0] = <<>> /\ \A i \in 1..n : f[i] = KeepNext(seq, S, i, f[i - 1])
  BY <1>1, <1>7 DEF Keeps
<1> DEFINE T == {i \in 0..n : f[i] \in Seq(U)}
<1>10. 0 \in T
  <2>1. 0 \in 0..n /\ f[0] \in Seq(U)
    BY <1>1, <1>9
  <2>q. QED
    BY <2>1
<1>11. ASSUME NEW i \in 1..n, i - 1 \in T
       PROVE  i \in T
  BY <1>2, <1>9, <1>11
<1> HIDE DEF T
<1>12. 0..n \subseteq T
  BY <1>1, <1>10, <1>11, UpTo
<1>13. f \in [0..n -> Seq(U)]
  BY <1>7, <1>12 DEF T, Keeps
<1>q. QED
  BY <1>8, <1>9, <1>13 DEF KeptBy

\* The sequence of the elements kept is one, and has each of them.
HasEach(kept, seq, S) ==
  \A i \in DOMAIN seq : seq[i] \in S => \E k \in DOMAIN kept : kept[k] = seq[i]

LEMMA KeptHas ==
  ASSUME NEW U, NEW seq \in Seq(U), NEW S
  PROVE  Kept(seq, S) \in Seq(U \cap S) /\ HasEach(Kept(seq, S), seq, S)
<1> DEFINE n == Len(seq)
<1>1. n \in Nat /\ DOMAIN seq = 1..n /\ \A i \in 1..n : seq[i] \in U
  OBVIOUS
<1>2. PICK f \in [0..Len(seq) -> Seq(U)] : KeptBy(f, seq, S)
  BY KeptIs
<1>3. /\ f[0] = <<>> /\ f \in [0..n -> Seq(U)]
      /\ \A i \in 1..n : f[i] = KeepNext(seq, S, i, f[i - 1])
      /\ Kept(seq, S) = f[n]
  BY <1>2 DEF KeptBy
<1> HIDE DEF n
<1> DEFINE Has(i) == /\ f[i] \in Seq(U \cap S)
                     /\ \A j \in 1..i : seq[j] \in S =>
                          \E k \in DOMAIN f[i] : f[i][k] = seq[j]
           T == {i \in 0..n : Has(i)}
<1>4. 0 \in T
  BY <1>1, <1>3
<1>5. ASSUME NEW i \in 1..n, i - 1 \in T
      PROVE  i \in T
  <2>1. Has(i - 1) /\ f[i] = KeepNext(seq, S, i, f[i - 1])
    BY <1>3, <1>5
  <2>2. CASE seq[i] \notin S
    <3>1. f[i] = f[i - 1]
      BY <2>1, <2>2 DEF KeepNext
    <3>2. \A j \in 1..i : seq[j] \in S => j \in 1..(i - 1)
      BY <2>2
    <3>q. QED
      BY <2>1, <3>1, <3>2
  <2>3. CASE seq[i] \in S
    <3> DEFINE old == f[i - 1]  new == f[i]
    <3>1. seq[i] \in U \cap S /\ old \in Seq(U \cap S) /\ new = Append(old, seq[i])
      BY <1>1, <2>1, <2>3 DEF KeepNext
    <3>2. \A j \in 1..(i - 1) : seq[j] \in S => \E k \in DOMAIN old : old[k] = seq[j]
      BY <2>1
    <3> HIDE DEF old, new
    <3>3. /\ new \in Seq(U \cap S) /\ DOMAIN old \subseteq DOMAIN new
          /\ \A k \in DOMAIN old : new[k] = old[k]
          /\ Len(old) + 1 \in DOMAIN new /\ new[Len(old) + 1] = seq[i]
      BY <3>1
    <3>4. \A j \in 1..(i - 1) : seq[j] \in S => \E k \in DOMAIN new : new[k] = seq[j]
      BY <3>2, <3>3
    <3>5. \A j \in 1..i : j = i \/ j \in 1..(i - 1)
      OBVIOUS
    <3>6. \A j \in 1..i : seq[j] \in S => \E k \in DOMAIN new : new[k] = seq[j]
      BY <3>3, <3>4, <3>5
    <3>q. QED
      BY <3>3, <3>6 DEF new
  <2>q. QED
    BY <2>2, <2>3
<1> HIDE DEF T
<1>6. 0..n \subseteq T
  BY <1>1, <1>4, <1>5, UpTo
<1>7. Has(n)
  BY <1>1, <1>6 DEF T
<1>8. HasEach(f[n], seq, S)
  BY <1>1, <1>7 DEF HasEach
<1>q. QED
  BY <1>1, <1>3, <1>7, <1>8

LEMMA KeptEach ==
  ASSUME NEW U, NEW seq \in Seq(U), NEW S, NEW i \in DOMAIN seq, seq[i] \in S
  PROVE  \E k \in DOMAIN Kept(seq, S) : Kept(seq, S)[k] = seq[i]
<1> DEFINE kept == Kept(seq, S)
<1>1. HasEach(kept, seq, S)
  BY KeptHas
<1> HIDE DEF kept
<1>2. \E k \in DOMAIN kept : kept[k] = seq[i]
  BY <1>1 DEF HasEach
<1>q. QED
  BY <1>2 DEF kept

\* If it is all of them, nothing changes.
LEMMA KeptAll ==
  ASSUME NEW U, NEW seq \in Seq(U), NEW S, U \subseteq S
  PROVE  Kept(seq, S) = seq
<1> DEFINE n == Len(seq)
<1>1. n \in Nat /\ DOMAIN seq = 1..n /\ \A i \in 1..n : seq[i] \in U
  OBVIOUS
<1>2. PICK f \in [0..Len(seq) -> Seq(U)] : KeptBy(f, seq, S)
  BY KeptIs
<1>3. /\ f[0] = <<>> /\ f \in [0..n -> Seq(U)]
      /\ \A i \in 1..n : f[i] = KeepNext(seq, S, i, f[i - 1])
      /\ Kept(seq, S) = f[n]
  BY <1>2 DEF KeptBy
<1> HIDE DEF n
<1> DEFINE Same(i) == Len(f[i]) = i /\ \A j \in 1..i : f[i][j] = seq[j]
           T == {i \in 0..n : Same(i)}
<1>4. 0 \in T
  BY <1>1, <1>3
<1>5. ASSUME NEW i \in 1..n, i - 1 \in T
      PROVE  i \in T
  <2> DEFINE old == f[i - 1]  new == f[i]
  <2>1. /\ old \in Seq(U) /\ new = Append(old, seq[i]) /\ seq[i] \in U
        /\ Len(old) = i - 1 /\ \A j \in 1..(i - 1) : old[j] = seq[j]
    BY <1>1, <1>3, <1>5 DEF KeepNext
  <2> HIDE DEF old, new
  <2>2. Len(new) = i /\ new[i] = seq[i] /\ \A j \in 1..(i - 1) : new[j] = seq[j]
    BY <2>1
  <2>3. \A j \in 1..i : j = i \/ j \in 1..(i - 1)
    OBVIOUS
  <2>q. QED
    BY <2>2, <2>3 DEF new
<1> HIDE DEF T
<1>6. 0..n \subseteq T
  BY <1>1, <1>4, <1>5, UpTo
<1>7. Same(n) /\ f[n] \in Seq(U)
  <2>1. n \in 0..n
    BY <1>1
  <2>2. n \in T /\ f[n] \in Seq(U)
    BY <1>3, <1>6, <2>1
  <2>q. QED
    BY <2>2 DEF T
<1>q. QED
  BY <1>1, <1>3, <1>7, SeqEqual DEF n

-----------------------------------------------------------------------------
\* Batches that follow each other.

Tile(x, y) == [j \in 1..(y - x) |-> x + j]

\* The batches of cs are the numbers after `from up to `to, in order.
TiledBy(cs, from, to, b) ==
  /\ b \in [0..Len(cs) -> from..to]
  /\ b[0] = from /\ b[Len(cs)] = to
  /\ \A k \in 1..Len(cs) : b[k - 1] <= b[k] /\ cs[k] = Tile(b[k - 1], b[k])

Tiles(cs, from, to) ==
  /\ cs \in Seq(Seq(Nat))
  /\ from <= to
  /\ \E b : TiledBy(cs, from, to, b)

LEMMA TileIs ==
  ASSUME NEW x \in Nat, NEW y \in Nat, x <= y
  PROVE  /\ Tile(x, y) \in Seq(Nat) /\ Tile(x, y) \in Seq(1..y)
         /\ Len(Tile(x, y)) = y - x /\ DOMAIN Tile(x, y) = 1..(y - x)
         /\ \A j \in 1..(y - x) : Tile(x, y)[j] = x + j
BY DEF Tile

LEMMA NoTiles ==
  ASSUME NEW x \in Nat
  PROVE  Tiles(<<>>, x, x)
<1> DEFINE b == [k \in 0..0 |-> x]
<1>1. TiledBy(<<>>, x, x, b)
  BY DEF TiledBy
<1> HIDE DEF b
<1>q. QED
  BY <1>1 DEF Tiles

LEMMA OneMoreTile ==
  ASSUME NEW x \in Nat, NEW y \in Nat, NEW z \in Nat, y <= z,
         NEW cs, Tiles(cs, x, y)
  PROVE  Tiles(Append(cs, Tile(y, z)), x, z)
<1> DEFINE n == Len(cs)
           new == Append(cs, Tile(y, z))
<1>a. cs \in Seq(Seq(Nat)) /\ x <= y
  BY DEF Tiles
<1>b. Tile(y, z) \in Seq(Nat)
  BY TileIs
<1>1. cs \in Seq(Seq(Nat)) /\ n \in Nat /\ Tile(y, z) \in Seq(Nat) /\ x <= y
  BY <1>a, <1>b
<1>2. PICK b : TiledBy(cs, x, y, b)
  BY DEF Tiles
<1> DEFINE c == [k \in 0..(n + 1) |-> IF k = n + 1 THEN z ELSE b[k]]
<1>3. /\ new \in Seq(Seq(Nat)) /\ Len(new) = n + 1 /\ new[n + 1] = Tile(y, z)
      /\ \A k \in 1..n : new[k] = cs[k]
  BY <1>1
<1> HIDE DEF new
<1>4. b \in [0..n -> x..y] /\ b[0] = x /\ b[n] = y
  BY <1>2 DEF TiledBy
<1>5. \A k \in 1..n : b[k - 1] <= b[k] /\ cs[k] = Tile(b[k - 1], b[k])
  BY <1>2 DEF TiledBy
<1> HIDE DEF n
<1>6. /\ \A k \in 0..n : c[k] = b[k]
      /\ c[n + 1] = z /\ c \in [0..(n + 1) -> x..z]
  BY <1>1, <1>4
<1> HIDE DEF c
<1>7. ASSUME NEW k \in 1..(n + 1)
      PROVE  c[k - 1] <= c[k] /\ new[k] = Tile(c[k - 1], c[k])
  <2>1. CASE k = n + 1
    BY <1>1, <1>3, <1>4, <1>6, <2>1
  <2>2. CASE k \in 1..n
    <3>1. k \in 0..n /\ k - 1 \in 0..n
      BY <1>1, <2>2
    <3>q. QED
      BY <1>3, <1>5, <1>6, <2>2, <3>1
  <2>q. QED
    BY <1>1, <2>1, <2>2
<1>8. TiledBy(new, x, z, c)
  BY <1>1, <1>3, <1>4, <1>6, <1>7 DEF TiledBy
<1>q. QED
  BY <1>1, <1>3, <1>8 DEF Tiles, new

LEMMA FirstTile ==
  ASSUME NEW x \in Nat, NEW z \in Nat, NEW cs, Tiles(cs, x, z), cs # <<>>
  PROVE  \E y \in x..z : Head(cs) = Tile(x, y) /\ Tiles(Tail(cs), y, z)
<1> DEFINE n == Len(cs)
           rest == Tail(cs)
<1>1. /\ cs \in Seq(Seq(Nat)) /\ n \in Nat \ {0}
      /\ Head(cs) = cs[1] /\ rest \in Seq(Seq(Nat)) /\ Len(rest) = n - 1
      /\ \A k \in 1..(n - 1) : rest[k] = cs[k + 1]
  BY DEF Tiles
<1>2. PICK b : TiledBy(cs, x, z, b)
  BY DEF Tiles
<1>4. b \in [0..n -> x..z] /\ b[0] = x /\ b[n] = z
  BY <1>2 DEF TiledBy
<1>5. \A k \in 1..n : b[k - 1] <= b[k] /\ cs[k] = Tile(b[k - 1], b[k])
  BY <1>2 DEF TiledBy
<1> HIDE DEF n, rest
<1> DEFINE y == b[1]
           c == [k \in 0..(n - 1) |-> b[k + 1]]
<1>6. y \in x..z /\ cs[1] = Tile(x, y)
  <2>1. 1 \in 1..n /\ 1 \in 0..n /\ 1 - 1 = 0
    BY <1>1
  <2>q. QED
    BY <1>4, <1>5, <2>1
<1>t. \A k \in 1..(n - 1) : c[k - 1] <= c[k] /\ rest[k] = Tile(c[k - 1], c[k])
  <2>1. ASSUME NEW k \in 1..(n - 1)
        PROVE  c[k - 1] <= c[k] /\ rest[k] = Tile(c[k - 1], c[k])
    <3>1. k + 1 \in 1..n /\ k \in 0..(n - 1) /\ k - 1 \in 0..(n - 1) /\ (k - 1) + 1 = k
          /\ (k + 1) - 1 = k
      BY <1>1
    <3>2. c[k] = b[k + 1] /\ c[k - 1] = b[k]
      BY <3>1
    <3>3. b[(k + 1) - 1] <= b[k + 1] /\ cs[k + 1] = Tile(b[(k + 1) - 1], b[k + 1])
      BY <1>5, <3>1
    <3>q. QED
      BY <1>1, <3>1, <3>2, <3>3
  <2>q. QED
    BY <2>1
<1>7. \A k \in 0..(n - 1) : b[k + 1] \in y..z
  <2> DEFINE T == {k \in 0..(n - 1) : b[k + 1] \in y..z}
  <2>1. 0 \in T
    BY <1>1, <1>4, <1>6
  <2>2. ASSUME NEW k \in 1..(n - 1), k - 1 \in T
        PROVE  k \in T
    <3>1. k + 1 \in 0..n /\ k + 1 \in 1..n /\ k \in 0..(n - 1) /\ k \in 0..n
      BY <1>1
    <3>2. b[k] \in y..z
      BY <2>2
    <3>3. b[k] <= b[k + 1] /\ b[k + 1] \in x..z
      BY <1>4, <1>5, <3>1
    <3>q. QED
      BY <1>6, <3>1, <3>2, <3>3
  <2> HIDE DEF T
  <2>3. n - 1 \in Nat
    BY <1>1
  <2>4. 0..(n - 1) \subseteq T
    BY <2>1, <2>2, <2>3, UpTo
  <2>q. QED
    BY <2>4 DEF T
<1>8. c \in [0..(n - 1) -> y..z] /\ c[0] = y /\ c[n - 1] = z
  BY <1>1, <1>4, <1>6, <1>7
<1> HIDE DEF c
<1>9. TiledBy(rest, y, z, c)
  BY <1>1, <1>8, <1>t DEF TiledBy
<1>q. QED
  BY <1>1, <1>6, <1>9 DEF Tiles, rest

LEMMA TileConcat ==
  ASSUME NEW x \in Nat, NEW y \in Nat, NEW z \in Nat, x <= y, y <= z
  PROVE  Tile(x, y) \o Tile(y, z) = Tile(x, z)
<1> DEFINE p == Tile(x, y)  q == Tile(y, z)  r == Tile(x, z)
<1>1. p \in Seq(Nat) /\ Len(p) = y - x /\ \A j \in 1..(y - x) : p[j] = x + j
  BY TileIs
<1>2. q \in Seq(Nat) /\ Len(q) = z - y /\ \A j \in 1..(z - y) : q[j] = y + j
  BY TileIs
<1>3. r \in Seq(Nat) /\ Len(r) = z - x /\ \A j \in 1..(z - x) : r[j] = x + j
  <2>1. x <= z
    OBVIOUS
  <2>q. QED
    BY <2>1, TileIs
<1> HIDE DEF p, q, r
<1>4. /\ p \o q \in Seq(Nat) /\ Len(p \o q) = (y - x) + (z - y)
      /\ \A j \in 1..((y - x) + (z - y)) :
           (p \o q)[j] = IF j <= y - x THEN p[j] ELSE q[j - (y - x)]
  <2>1. /\ p \o q \in Seq(Nat) /\ Len(p \o q) = Len(p) + Len(q)
        /\ \A j \in 1..(Len(p) + Len(q)) :
             (p \o q)[j] = IF j <= Len(p) THEN p[j] ELSE q[j - Len(p)]
    BY <1>1, <1>2, ConcatProperties
  <2>q. QED
    BY <1>1, <1>2, <2>1
<1>5. Len(p \o q) = z - x
  BY <1>4
<1>6. ASSUME NEW j \in 1..(z - x)
      PROVE  (p \o q)[j] = r[j]
  <2>1. j \in 1..((y - x) + (z - y))
    OBVIOUS
  <2>2. CASE j <= y - x
    <3>1. j \in 1..(y - x)
      BY <2>2
    <3>q. QED
      BY <1>1, <1>3, <1>4, <2>1, <2>2, <3>1
  <2>3. CASE ~(j <= y - x)
    <3>1. j - (y - x) \in 1..(z - y)
      BY <2>3
    <3>q. QED
      BY <1>2, <1>3, <1>4, <2>1, <2>3, <3>1
  <2>q. QED
    BY <2>2, <2>3
<1>7. p \o q = r
  BY <1>3, <1>4, <1>5, <1>6, SeqEqual
<1>q. QED
  BY <1>7 DEF p, q, r

\* Together they are the numbers after x up to y.
Flattens(g, cs) ==
  g = [i \in 1..Len(cs) |-> IF i = 1 THEN cs[i] ELSE g[i - 1] \o cs[i]]

LEMMA TilesFlat ==
  ASSUME NEW x \in Nat, NEW y \in Nat, NEW cs, Tiles(cs, x, y)
  PROVE  FlattenSeq(cs) = Tile(x, y)
<1> DEFINE n == Len(cs)
<1>1. cs \in Seq(Seq(Nat)) /\ n \in Nat
  BY DEF Tiles
<1>2. PICK b : TiledBy(cs, x, y, b)
  BY DEF Tiles
<1>3. b \in [0..n -> x..y] /\ b[0] = x /\ b[n] = y
  BY <1>2 DEF TiledBy
<1>4. \A k \in 1..n : b[k - 1] <= b[k] /\ cs[k] = Tile(b[k - 1], b[k])
  BY <1>2 DEF TiledBy
<1>a. \A k \in 0..n : b[k] \in Nat /\ x <= b[k]
  BY <1>3
<1>5. CASE n = 0
  <2>1. cs = <<>> /\ x = y
    BY <1>1, <1>3, <1>5
  <2>2. Tile(x, y) = <<>>
    BY <2>1 DEF Tile
  <2>3. FlattenSeq(cs) = cs
    BY <1>5 DEF FlattenSeq
  <2>q. QED
    BY <2>1, <2>2, <2>3
<1>6. CASE n > 0
  <2> DEFINE h == [i \in 1..n |-> Tile(x, b[i])]
  <2>1. ASSUME NEW i \in 1..n
        PROVE  h[i] = IF i = 1 THEN cs[i] ELSE h[i - 1] \o cs[i]
    <3>1. CASE i = 1
      <4>1. i - 1 = 0
        BY <3>1
      <4>q. QED
        BY <1>3, <1>4, <3>1, <4>1
    <3>2. CASE i # 1
      <4>1. i - 1 \in 1..n /\ i - 1 \in 0..n /\ i \in 0..n
        BY <1>1, <3>2
      <4>2. Tile(x, b[i - 1]) \o Tile(b[i - 1], b[i]) = Tile(x, b[i])
        BY <1>4, <1>a, <4>1, TileConcat
      <4>3. h[i - 1] = Tile(x, b[i - 1]) /\ h[i] = Tile(x, b[i])
        BY <4>1
      <4>4. cs[i] = Tile(b[i - 1], b[i])
        BY <1>4
      <4>q. QED
        BY <3>2, <4>2, <4>3, <4>4
    <3>q. QED
      BY <3>1, <3>2
  <2>2. h = [i \in 1..n |-> h[i]]
    OBVIOUS
  <2> HIDE DEF h
  <2>3. Flattens(h, cs)
    BY <2>1, <2>2 DEF Flattens
  <2> DEFINE g == CHOOSE g : Flattens(g, cs)
  <2>4. Flattens(g, cs)
    BY <2>3
  <2>5. FlattenSeq(cs) = g[n]
    BY <1>6 DEF FlattenSeq, Flattens
  <2> HIDE DEF g
  <2>6. \A i \in 1..n : g[i] = IF i = 1 THEN cs[i] ELSE g[i - 1] \o cs[i]
    BY <2>4 DEF Flattens
  <2>7. \A i \in 1..n : h[i] = IF i = 1 THEN cs[i] ELSE h[i - 1] \o cs[i]
    BY <2>1
  <2> DEFINE T == {i \in 0..n : i = 0 \/ g[i] = h[i]}
  <2>8. 0 \in T
    BY <1>1
  <2>9. ASSUME NEW i \in 1..n, i - 1 \in T
        PROVE  i \in T
    BY <1>1, <2>6, <2>7, <2>9
  <2> HIDE DEF T
  <2>10. 0..n \subseteq T
    BY <1>1, <2>8, <2>9, UpTo
  <2>11. n \in 0..n /\ n \in 1..n /\ n # 0
    BY <1>1, <1>6
  <2>12. g[n] = h[n]
    BY <2>10, <2>11 DEF T
  <2>q. QED
    BY <1>3, <2>5, <2>11, <2>12 DEF h
<1>q. QED
  BY <1>1, <1>5, <1>6

LEMMA TileAppend ==
  ASSUME NEW x \in Nat, NEW i \in Nat \ {0}, x <= i - 1
  PROVE  Append(Tile(x, i - 1), i) = Tile(x, i)
<1> DEFINE p == Tile(x, i - 1)  q == Tile(x, i)
<1>1. p \in Seq(Nat) /\ Len(p) = i - 1 - x /\ \A j \in 1..(i - 1 - x) : p[j] = x + j
  <2>1. i - 1 \in Nat
    OBVIOUS
  <2>q. QED
    BY <2>1, TileIs
<1>2. q \in Seq(Nat) /\ Len(q) = i - x /\ \A j \in 1..(i - x) : q[j] = x + j
  <2>1. x <= i
    OBVIOUS
  <2>q. QED
    BY <2>1, TileIs
<1> HIDE DEF p, q
<1>3. /\ Append(p, i) \in Seq(Nat) /\ Len(Append(p, i)) = i - x
      /\ Append(p, i)[i - x] = i
      /\ \A j \in 1..(i - 1 - x) : Append(p, i)[j] = p[j]
  BY <1>1
<1>4. ASSUME NEW j \in 1..(i - x)
      PROVE  Append(p, i)[j] = q[j]
  <2>1. j = i - x \/ j \in 1..(i - 1 - x)
    OBVIOUS
  <2>q. QED
    BY <1>1, <1>2, <1>3, <2>1
<1>5. Append(p, i) = q
  BY <1>2, <1>3, <1>4, SeqEqual
<1>q. QED
  BY <1>5 DEF p, q

-----------------------------------------------------------------------------
\* Packed.

\* A batch of several is not too many and not too long.
Within(chunk, s, nbs) ==
  /\ Len(chunk) <= s.batch
  /\ s.chars > 0 /\ Len(chunk) > 1 => PromptChars(chunk, nbs) <= s.chars

Pieces == [full : Seq(Seq(Nat)), current : Seq(Nat)]
NoPiece == [full |-> <<>>, current |-> <<>>]

Packs(f, n, s, nbs) ==
  f = [i \in 0..n |-> IF i = 0 THEN [full |-> <<>>, current |-> <<>>]
                               ELSE Pack(f[i - 1], i, s, nbs)]

PackedBy(f, n, s, nbs) ==
  /\ f[0] = NoPiece
  /\ \A i \in 1..n : f[i] = Pack(f[i - 1], i, s, nbs)
  /\ Greedy(n, s, nbs) = IF f[n].current = <<>> THEN f[n].full
                                                ELSE Append(f[n].full, f[n].current)

LEMMA GreedyIs ==
  ASSUME NEW n \in Nat, NEW s, NEW nbs
  PROVE  \E f \in [0..n -> Pieces] : PackedBy(f, n, s, nbs)
<1> DEFINE step == [p \in (1..n) \X Pieces |-> Pack(p[2], p[1], s, nbs)]
<1>1. NoPiece \in Pieces
  BY DEF Pieces, NoPiece
<1>2. \A i \in 1..n, acc \in Pieces : Pack(acc, i, s, nbs) \in Pieces
  <2>1. TAKE i \in 1..n, acc \in Pieces
  <2>2. /\ Append(acc.current, i) \in Seq(Nat) /\ <<i>> \in Seq(Nat)
        /\ Append(acc.full, acc.current) \in Seq(Seq(Nat))
    BY DEF Pieces
  <2>3. [acc EXCEPT !.current = Append(acc.current, i)] \in Pieces
    BY <2>2 DEF Pieces
  <2>4. [full |-> Append(acc.full, acc.current), current |-> <<i>>] \in Pieces
    BY <2>2 DEF Pieces
  <2>q. QED
    BY <2>3, <2>4, Zenon DEF Pack
<1>3. step \in [(1..n) \X Pieces -> Pieces]
  BY <1>2
<1>4. \A i \in 1..n, acc \in Pieces : step[<<i, acc>>] = Pack(acc, i, s, nbs)
  OBVIOUS
<1> HIDE DEF step
<1>5. PICK g \in [0..n -> Pieces] : Solves(g, n, NoPiece, step)
  BY <1>1, <1>3, Recursion
<1>6. Packs(g, n, s, nbs)
  <2>1. \A i \in 0..n : g[i] = IF i = 0 THEN NoPiece ELSE step[<<i, g[i - 1]>>]
    BY <1>5 DEF Solves
  <2>2. \A i \in 1..n : step[<<i, g[i - 1]>>] = Pack(g[i - 1], i, s, nbs)
    BY <1>1, <1>4, <1>5
  <2>3. \A i \in 0..n : g[i] = IF i = 0 THEN NoPiece ELSE Pack(g[i - 1], i, s, nbs)
    <3>1. \A i \in 0..n : i = 0 \/ i \in 1..n
      OBVIOUS
    <3>q. QED
      BY <2>1, <2>2, <3>1, Zenon
  <2>4. g = [i \in 0..n |-> g[i]]
    BY <1>5
  <2>q. QED
    BY <2>3, <2>4 DEF Packs, NoPiece
<1> DEFINE f == CHOOSE h : Packs(h, n, s, nbs)
<1>7. Packs(f, n, s, nbs)
  BY <1>6
<1>8. Greedy(n, s, nbs) = IF f[n].current = <<>> THEN f[n].full
                                                 ELSE Append(f[n].full, f[n].current)
  BY DEF Greedy, Packs
<1> HIDE DEF f
<1>9. f[0] = NoPiece /\ \A i \in 1..n : f[i] = Pack(f[i - 1], i, s, nbs)
  BY <1>7 DEF Packs, NoPiece
<1> DEFINE T == {i \in 0..n : f[i] \in Pieces}
<1>10. 0 \in T
  <2>1. 0 \in 0..n /\ f[0] \in Pieces
    BY <1>1, <1>9
  <2>q. QED
    BY <2>1
<1>11. ASSUME NEW i \in 1..n, i - 1 \in T
       PROVE  i \in T
  BY <1>2, <1>9, <1>11
<1> HIDE DEF T
<1>12. 0..n \subseteq T
  BY <1>10, <1>11, UpTo
<1>13. f \in [0..n -> Pieces]
  BY <1>7, <1>12 DEF T, Packs
<1>q. QED
  BY <1>8, <1>9, <1>13 DEF PackedBy

\* What is filled so far is the first i candidates, within the limits.
Filled(acc, i, s, nbs) ==
  \E y \in 0..i :
    /\ Tiles(acc.full, 0, y)
    /\ acc.current = Tile(y, i)
    /\ i > 0 => y < i
    /\ \A k \in DOMAIN acc.full : Within(acc.full[k], s, nbs)
    /\ Within(acc.current, s, nbs)

LEMMA PackFills ==
  ASSUME NEW s \in [batch : Nat \ {0}, chars : Int], NEW nbs,
         NEW i \in Nat \ {0}, NEW acc \in Pieces, Filled(acc, i - 1, s, nbs)
  PROVE  Filled(Pack(acc, i, s, nbs), i, s, nbs)
<1>1. PICK y \in 0..(i - 1) :
        /\ Tiles(acc.full, 0, y)
        /\ acc.current = Tile(y, i - 1)
        /\ i - 1 > 0 => y < i - 1
        /\ \A k \in DOMAIN acc.full : Within(acc.full[k], s, nbs)
        /\ Within(acc.current, s, nbs)
  BY DEF Filled
<1> DEFINE tentative == Append(acc.current, i)
           fits == \/ acc.current = <<>>
                   \/ Len(tentative) <= s.batch /\ PromptChars(tentative, nbs) <= s.chars
           new == Pack(acc, i, s, nbs)
<1>2. tentative = Tile(y, i) /\ Len(tentative) = i - y
  <2>1. tentative = Tile(y, i)
    <3>1. y \in Nat /\ y <= i - 1
      OBVIOUS
    <3>2. Append(Tile(y, i - 1), i) = Tile(y, i)
      BY <3>1, TileAppend
    <3>q. QED
      BY <1>1, <3>2
  <2>2. Len(Tile(y, i)) = i - y
    BY TileIs
  <2>q. QED
    BY <2>1, <2>2
<1>3. Len(acc.current) = i - 1 - y
  <2>1. i - 1 \in Nat /\ y \in Nat /\ y <= i - 1
    OBVIOUS
  <2>q. QED
    BY <1>1, <2>1, TileIs
<1>4. CASE fits
  <2>1. new.full = acc.full /\ new.current = tentative
    <3>1. new = [acc EXCEPT !.current = tentative]
      BY <1>4, Zenon DEF Pack
    <3>q. QED
      BY <3>1 DEF Pieces
  <2>2. Within(tentative, s, nbs)
    <3>1. CASE acc.current = <<>>
      <4>1. Len(tentative) = 1
        BY <1>2, <1>3, <3>1
      <4>q. QED
        BY <4>1 DEF Within
    <3>2. CASE acc.current # <<>>
      BY <1>4, <3>2 DEF Within
    <3>q. QED
      BY <3>1, <3>2
  <2>3. y \in 0..i /\ y < i
    OBVIOUS
  <2> HIDE DEF new, tentative, fits
  <2>4. Filled(new, i, s, nbs)
    BY <1>1, <1>2, <2>1, <2>2, <2>3 DEF Filled
  <2>q. QED
    BY <2>4 DEF new
<1>5. CASE ~fits
  <2>1. new.full = Append(acc.full, acc.current) /\ new.current = <<i>>
    BY <1>5 DEF Pack
  <2>2. <<i>> = Tile(i - 1, i) /\ Within(<<i>>, s, nbs)
    <3>1. Len(<<i>>) = 1
      OBVIOUS
    <3>q. QED
      BY <3>1 DEF Within, Tile
  <2>3. i - 1 \in 0..i /\ i - 1 < i /\ i - 1 \in Nat /\ y \in Nat /\ y <= i - 1 /\ 0 \in Nat
    OBVIOUS
  <2>4. Tiles(Append(acc.full, acc.current), 0, i - 1)
    BY <1>1, <2>3, OneMoreTile
  <2>5. \A k \in DOMAIN Append(acc.full, acc.current) :
          Within(Append(acc.full, acc.current)[k], s, nbs)
    <3>1. acc.full \in Seq(Seq(Nat)) /\ acc.current \in Seq(Nat)
      BY DEF Pieces
    <3>2. TAKE k \in DOMAIN Append(acc.full, acc.current)
    <3>3. \/ k \in DOMAIN acc.full /\ Append(acc.full, acc.current)[k] = acc.full[k]
          \/ Append(acc.full, acc.current)[k] = acc.current
      BY <3>1
    <3>q. QED
      BY <1>1, <3>3
  <2> HIDE DEF new, tentative, fits
  <2>6. Filled(new, i, s, nbs)
    BY <2>1, <2>2, <2>3, <2>4, <2>5 DEF Filled
  <2>q. QED
    BY <2>6 DEF new
<1>q. QED
  BY <1>4, <1>5

LEMMA GreedyTiles ==
  ASSUME NEW n \in Nat, NEW s \in [batch : Nat \ {0}, chars : Int], NEW nbs
  PROVE  /\ Tiles(Greedy(n, s, nbs), 0, n)
         /\ \A k \in DOMAIN Greedy(n, s, nbs) : Within(Greedy(n, s, nbs)[k], s, nbs)
<1>1. PICK f \in [0..n -> Pieces] : PackedBy(f, n, s, nbs)
  BY GreedyIs
<1> DEFINE T == {i \in 0..n : Filled(f[i], i, s, nbs)}
<1>2. 0 \in T
  <2>1. f[0] = NoPiece
    BY <1>1 DEF PackedBy
  <2>2. Tile(0, 0) = <<>> /\ Within(<<>>, s, nbs) /\ Tiles(<<>>, 0, 0) /\ 0 \in 0..0
    BY NoTiles DEF Tile, Within
  <2>3. Filled(NoPiece, 0, s, nbs)
    BY <2>2 DEF Filled, NoPiece
  <2>q. QED
    BY <2>1, <2>3
<1>3. ASSUME NEW i \in 1..n, i - 1 \in T
      PROVE  i \in T
  <2>1. i - 1 \in 0..n /\ i \in 0..n /\ i \in Nat \ {0}
    OBVIOUS
  <2>2. f[i - 1] \in Pieces /\ Filled(f[i - 1], i - 1, s, nbs)
    BY <1>3, <2>1
  <2>3. f[i] = Pack(f[i - 1], i, s, nbs)
    BY <1>1 DEF PackedBy
  <2>q. QED
    BY <2>1, <2>2, <2>3, PackFills
<1> HIDE DEF T
<1>4. 0..n \subseteq T
  BY <1>2, <1>3, UpTo
<1> DEFINE acc == f[n]
           all == Greedy(n, s, nbs)
<1>5. acc \in Pieces /\ Filled(acc, n, s, nbs)
  <2>1. n \in 0..n
    OBVIOUS
  <2>q. QED
    BY <1>1, <1>4, <2>1 DEF T
<1>6. all = IF acc.current = <<>> THEN acc.full ELSE Append(acc.full, acc.current)
  BY <1>1 DEF PackedBy
<1> HIDE DEF acc, all
<1>7. PICK y \in 0..n :
        /\ Tiles(acc.full, 0, y)
        /\ acc.current = Tile(y, n)
        /\ n > 0 => y < n
        /\ \A k \in DOMAIN acc.full : Within(acc.full[k], s, nbs)
        /\ Within(acc.current, s, nbs)
  BY <1>5 DEF Filled
<1>8. Len(acc.current) = n - y
  <2>1. y \in Nat /\ y <= n
    OBVIOUS
  <2>q. QED
    BY <1>7, <2>1, TileIs
<1>9. CASE acc.current = <<>>
  <2>1. y = n
    BY <1>8, <1>9
  <2>2. all = acc.full
    BY <1>6, <1>9
  <2>3. Tiles(all, 0, n) /\ \A k \in DOMAIN all : Within(all[k], s, nbs)
    BY <1>7, <2>1, <2>2
  <2>q. QED
    BY <2>3 DEF all
<1>10. CASE acc.current # <<>>
  <2>1. all = Append(acc.full, acc.current)
    BY <1>6, <1>10
  <2>2. Tiles(all, 0, n)
    <3>1. 0 \in Nat /\ y \in Nat /\ y <= n
      OBVIOUS
    <3>q. QED
      BY <1>7, <2>1, <3>1, OneMoreTile
  <2>3. \A k \in DOMAIN all : Within(all[k], s, nbs)
    <3>1. acc.full \in Seq(Seq(Nat)) /\ acc.current \in Seq(Nat)
      BY <1>5 DEF Pieces
    <3>2. TAKE k \in DOMAIN all
    <3>3. \/ k \in DOMAIN acc.full /\ all[k] = acc.full[k]
          \/ all[k] = acc.current
      BY <2>1, <3>1
    <3>q. QED
      BY <1>7, <3>3
  <2>q. QED
    BY <2>2, <2>3 DEF all
<1>q. QED
  BY <1>9, <1>10

LEMMA FixedStrideTiles ==
  ASSUME NEW n \in Nat, NEW batch \in Nat \ {0}
  PROVE  /\ Tiles(FixedStride(n, batch), 0, n)
         /\ \A k \in DOMAIN FixedStride(n, batch) : Len(FixedStride(n, batch)[k]) <= batch
<1> DEFINE m == (n + batch - 1) \div batch
           cs == FixedStride(n, batch)
           b == [k \in 0..m |-> IF k * batch <= n THEN k * batch ELSE n]
<1>1. m \in Nat /\ n <= m * batch /\ m * batch <= n + batch - 1
  OBVIOUS
<1>2. cs = [k \in 1..m |-> [j \in 1..(IF k * batch <= n THEN batch ELSE n - (k - 1) * batch) |->
                              (k - 1) * batch + j]]
  BY DEF FixedStride
<1> HIDE DEF m, cs
<1>3. ASSUME NEW k \in 0..m
      PROVE  k * batch \in Nat
  OBVIOUS
<1>4. ASSUME NEW k \in 1..m
      PROVE  (k - 1) * batch <= n /\ (k - 1) * batch \in Nat /\ k * batch = (k - 1) * batch + batch
  <2>1. k * batch = (k - 1) * batch + batch
    OBVIOUS
  <2>2. (m - k) * batch >= 0 /\ m * batch = (m - k) * batch + k * batch
    BY <1>1
  <2>3. (k - 1) * batch \in Nat
    OBVIOUS
  <2>q. QED
    BY <1>1, <2>1, <2>2, <2>3
<1>5. ASSUME NEW k \in 1..m
      PROVE  /\ b[k - 1] <= b[k] /\ cs[k] = Tile(b[k - 1], b[k])
             /\ cs[k] \in Seq(Nat) /\ Len(cs[k]) <= batch
  <2>1. k \in 0..m /\ k - 1 \in 0..m
    BY <1>1
  <2> DEFINE x == (k - 1) * batch
             y == IF k * batch <= n THEN k * batch ELSE n
  <2>2. b[k - 1] = x /\ b[k] = y
    BY <1>4, <2>1
  <2>3. x \in Nat /\ x <= n /\ k * batch = x + batch
    BY <1>4
  <2>4. cs[k] = [j \in 1..(IF k * batch <= n THEN batch ELSE n - x) |-> x + j]
    BY <1>2
  <2> HIDE DEF x
  <2>5. y \in Nat /\ x <= y /\ y - x <= batch
        /\ (IF k * batch <= n THEN batch ELSE n - x) = y - x
    BY <2>3
  <2> HIDE DEF y
  <2>6. cs[k] = Tile(x, y)
    BY <2>4, <2>5 DEF Tile
  <2>7. Tile(x, y) \in Seq(Nat) /\ Len(Tile(x, y)) = y - x
    BY <2>3, <2>5, TileIs
  <2>q. QED
    BY <2>2, <2>5, <2>6, <2>7
<1>6. cs \in Seq(Seq(Nat)) /\ Len(cs) = m /\ DOMAIN cs = 1..m
  <2>1. DOMAIN cs = 1..m /\ cs = [k \in 1..m |-> cs[k]]
    BY <1>2
  <2>2. cs \in [1..m -> Seq(Nat)]
    BY <1>5, <2>1
  <2>q. QED
    BY <1>1, <2>1, <2>2
<1>7. b[0] = 0 /\ b[m] = n /\ b \in [0..m -> 0..n]
  <2>1. 0 \in 0..m /\ m \in 0..m /\ 0 * batch = 0
    BY <1>1
  <2>2. b[m] = n
    BY <1>1, <2>1
  <2>3. \A k \in 0..m : b[k] \in 0..n
    BY <1>3
  <2>q. QED
    BY <2>1, <2>2, <2>3
<1> HIDE DEF b
<1>8. TiledBy(cs, 0, n, b)
  BY <1>5, <1>6, <1>7 DEF TiledBy
<1>9. Tiles(cs, 0, n)
  BY <1>6, <1>8 DEF Tiles
<1>q. QED
  BY <1>5, <1>6, <1>9 DEF cs

\* The batches are all the candidates, in order, and each is within the limits.
LEMMA PackedTiles ==
  ASSUME NEW n \in Nat, NEW s \in [batch : Nat \ {0}, chars : Int], NEW nbs
  PROVE  /\ Tiles(Packed(n, s, nbs), 0, n)
         /\ \A k \in DOMAIN Packed(n, s, nbs) : Within(Packed(n, s, nbs)[k], s, nbs)
<1>1. CASE s.chars <= 0
  <2>1. Packed(n, s, nbs) = FixedStride(n, s.batch)
    BY <1>1 DEF Packed
  <2>2. s.batch \in Nat \ {0} /\ ~(s.chars > 0)
    BY <1>1
  <2>q. QED
    BY <2>1, <2>2, FixedStrideTiles DEF Within
<1>2. CASE ~(s.chars <= 0)
  <2>1. Packed(n, s, nbs) = Greedy(n, s, nbs)
    BY <1>2 DEF Packed
  <2>q. QED
    BY <2>1, GreedyTiles
<1>q. QED
  BY <1>1, <1>2

LEMMA FunctionIsSeq ==
  ASSUME NEW S, NEW m \in Nat, NEW f \in [1..m -> S]
  PROVE  f \in Seq(S)
OBVIOUS

\* Each batch is of numbers up to the last.
LEMMA TilesIn ==
  ASSUME NEW x \in Nat, NEW n \in Nat, NEW cs, Tiles(cs, x, n)
  PROVE  cs \in Seq(Seq(1..n))
<1>1. cs \in Seq(Seq(Nat)) /\ Len(cs) \in Nat
  BY DEF Tiles
<1>2. PICK b : TiledBy(cs, x, n, b)
  BY DEF Tiles
<1>3. ASSUME NEW k \in 1..Len(cs)
      PROVE  cs[k] \in Seq(1..n)
  <2>1. k \in 0..Len(cs) /\ k - 1 \in 0..Len(cs)
    BY <1>1
  <2>2. b[k - 1] \in x..n /\ b[k] \in x..n /\ b[k - 1] <= b[k]
        /\ cs[k] = Tile(b[k - 1], b[k])
    BY <1>2, <2>1 DEF TiledBy
  <2> DEFINE u == b[k - 1]  v == b[k]
  <2>3. u \in Nat /\ v \in Nat /\ u <= v /\ v <= n /\ cs[k] = Tile(u, v)
    BY <2>2
  <2> HIDE DEF u, v
  <2>4. Tile(u, v) \in Seq(Nat) /\ Len(Tile(u, v)) = v - u
        /\ \A j \in 1..(v - u) : Tile(u, v)[j] = u + j
    BY <2>3, TileIs
  <2>5. \A j \in 1..(v - u) : u + j \in 1..n
    BY <2>3
  <2>q. QED
    BY <2>3, <2>4, <2>5
<1> DEFINE Z == Seq(1..n)
<1>4. \A k \in 1..Len(cs) : cs[k] \in Z
  BY <1>3
<1> HIDE DEF Z
<1>5. cs \in Seq(Z)
  <2>1. \A k \in 1..Len(cs) : cs[k] \in Z
    BY <1>4
  <2>2. cs = [k \in 1..Len(cs) |-> cs[k]]
    BY <1>1
  <2>3. cs \in [1..Len(cs) -> Z]
    BY <2>1, <2>2
  <2>q. QED
    BY <1>1, <2>3, FunctionIsSeq
<1>q. QED
  BY <1>5 DEF Z

-----------------------------------------------------------------------------
\* The parsers.

LEMMA Given ==
  /\ Neighbours \subseteq SUBSET AtomIds
  /\ \A x \in Extractions : x.items \in Seq(AtomIds \cup {Nothing, Prose})
  /\ \A e \in Entries : DOMAIN e.targets = 1..Len(e.targets)
  /\ Settings \subseteq [batch : Nat \ {0}, chars : Int]
BY ConsolidationAssumption, Zenon DEF ConsolidationAssumption

\* The candidates of an extraction that is accepted are all its objects.
LEMMA CandidatesAreObjects ==
  ASSUME NEW x \in Extractions, ParsedCandidates(x).ok
  PROVE  /\ ParsedCandidates(x).candidates \in Seq(AtomIds)
         /\ ParsedCandidates(x).candidates = Kept(x.items, Objects)
<1> DEFINE U == AtomIds \cup {Nothing, Prose}
           objects == IF x.form = "lines" THEN Kept(x.items, Objects) ELSE x.items
<1>1. x.items \in Seq(U)
  BY Given, Zenon
<1>2. /\ ParsedCandidates(x).candidates = objects
      /\ \A i \in DOMAIN objects : objects[i] \in AtomIds
  <2>1. /\ ParsedCandidates(x).candidates = objects
        /\ ParsedCandidates(x).ok = (/\ \A i \in DOMAIN objects : objects[i] \in AtomIds
                                     /\ x.form = "array" \/ objects # <<>>)
    BY DEF ParsedCandidates
  <2>q. QED
    BY <2>1
<1>3. Kept(x.items, Objects) \in Seq(U \cap Objects)
  BY <1>1, KeptHas
<1>4. CASE x.form = "lines"
  <2>1. objects = Kept(x.items, Objects)
    BY <1>4
  <2> HIDE DEF objects, U
  <2>2. objects \in Seq(AtomIds)
    BY <1>2, <1>3, <2>1
  <2>q. QED
    BY <1>2, <2>1, <2>2
<1>5. CASE x.form # "lines"
  <2>1. objects = x.items
    BY <1>5
  <2> HIDE DEF objects, U
  <2>2. objects \in Seq(AtomIds)
    BY <1>1, <1>2, <2>1
  <2>3. AtomIds \subseteq Objects
    BY DEF Objects
  <2>4. Kept(objects, Objects) = objects
    BY <2>2, <2>3, KeptAll
  <2>q. QED
    BY <1>2, <2>1, <2>2, <2>4
<1>q. QED
  BY <1>4, <1>5

\* A decision has as many targets as its action takes, all of them shown.
Fits(d, nbs) ==
  /\ d \in Decision
  /\ d.targets \subseteq nbs
  /\ d.action \in {"store", "skip"} => d.targets = {}
  /\ d.action = "update" => Cardinality(d.targets) = 1
  /\ d.action = "merge" => Cardinality(d.targets) >= 2

LEMMA DecidedFits ==
  ASSUME NEW e \in Entries, NEW nbs \in SUBSET AtomIds, ValidEntry(e, nbs)
  PROVE  Fits(Decided(e), nbs) /\ Decided(e) # Undecided
<1>1. DOMAIN e.targets = 1..Len(e.targets)
  BY Given, Zenon
<1>2. /\ e.action \in Actions
      /\ Cardinality(Named(e.targets)) = Len(e.targets)
      /\ Named(e.targets) \subseteq nbs
      /\ e.action \in {"store", "skip"} => Len(e.targets) = 0
      /\ e.action = "update" => Len(e.targets) = 1
      /\ e.action = "merge" => Len(e.targets) >= 2
  BY DEF ValidEntry
<1>3. Decided(e) = [action |-> e.action, targets |-> Named(e.targets)]
  BY DEF Decided
<1>4. Len(e.targets) = 0 => Named(e.targets) = {}
  BY <1>1 DEF Named
<1>5. Decided(e) \in Decision
  BY <1>2, <1>3 DEF Decision
<1>6. Decided(e).action = e.action /\ Decided(e).targets = Named(e.targets)
  BY <1>3
<1>7. Decided(e) # Undecided
  <2>1. Undecided.action = "undecided" /\ "undecided" \notin Actions
    BY DEF Undecided, Actions
  <2>q. QED
    BY <1>2, <1>6, <2>1
<1>q. QED
  BY <1>2, <1>4, <1>5, <1>6, <1>7 DEF Fits

LEMMA SingleFits ==
  ASSUME NEW e \in Entries, NEW nbs \in SUBSET AtomIds, ParsedSingle(e, nbs) # Undecided
  PROVE  ValidEntry(e, nbs) /\ ParsedSingle(e, nbs) = Decided(e) /\ Fits(Decided(e), nbs)
BY DecidedFits DEF ParsedSingle

Outcomes == Decision \cup {Undecided}

\* The entries of a reply that can be taken for candidate n of its prompt.
Usable(entries, numbered, n, nbs) ==
  {k \in DOMAIN entries : /\ numbered => entries[k].candidate = n
                          /\ ValidEntry(entries[k], nbs)}

IsFirst(d, entries, usable) ==
  IF usable = {} THEN d = Undecided
  ELSE \E k \in usable : /\ \A j \in usable : k <= j
                         /\ d = Decided(entries[k])

\* One more entry is looked at.
LEMMA AcceptOne ==
  ASSUME NEW entries \in Seq(Entries), NEW allowed \in Seq(SUBSET AtomIds),
         NEW k \in 1..Len(entries), NEW out \in [DOMAIN allowed -> Outcomes],
         \A i \in DOMAIN allowed :
           IsFirst(out[i], entries,
                   Usable(entries, TRUE, i, allowed[i]) \cap (1..(k - 1)))
  PROVE  LET new == Accept(entries[k], out, allowed)
         IN /\ new \in [DOMAIN allowed -> Outcomes]
            /\ \A i \in DOMAIN allowed :
                 IsFirst(new[i], entries, Usable(entries, TRUE, i, allowed[i]) \cap (1..k))
<1> DEFINE e == entries[k]
           new == Accept(e, out, allowed)
           U(i) == Usable(entries, TRUE, i, allowed[i])
           taken == /\ e.candidate \in DOMAIN out
                    /\ out[e.candidate] = Undecided
                    /\ ValidEntry(e, allowed[e.candidate])
<1>1. e \in Entries /\ k \in DOMAIN entries /\ k \in Nat
  OBVIOUS
<1>2. new = IF taken THEN [out EXCEPT ![e.candidate] = Decided(e)] ELSE out
  BY DEF Accept
<1>3. \A i \in DOMAIN allowed : allowed[i] \in SUBSET AtomIds
  OBVIOUS
<1>4. \A i \in DOMAIN allowed : k \in U(i) <=> e.candidate = i /\ ValidEntry(e, allowed[i])
  <2>1. TAKE i \in DOMAIN allowed
  <2>2. k \in Usable(entries, TRUE, i, allowed[i])
          <=> /\ k \in DOMAIN entries
              /\ TRUE => entries[k].candidate = i
              /\ ValidEntry(entries[k], allowed[i])
    BY Zenon DEF Usable
  <2>q. QED
    BY <1>1, <2>2
<1>5. \A i \in DOMAIN allowed : \A j \in U(i) :
        /\ j \in Nat /\ ValidEntry(entries[j], allowed[i])
        /\ entries[j] \in Entries /\ Decided(entries[j]) # Undecided
  <2>1. TAKE i \in DOMAIN allowed
  <2>3. TAKE j \in U(i)
  <2>2. j \in DOMAIN entries /\ ValidEntry(entries[j], allowed[i])
    BY DEF Usable
  <2>q. QED
    BY <1>3, <2>2, DecidedFits
<1>6. taken => Decided(e) \in Decision
  <2>1. taken => e.candidate \in DOMAIN allowed
    OBVIOUS
  <2>q. QED
    BY <1>1, <1>3, <2>1, DecidedFits DEF Fits
<1>7. new \in [DOMAIN allowed -> Outcomes]
  BY <1>2, <1>6 DEF Outcomes
<1>8. ASSUME NEW i \in DOMAIN allowed
      PROVE  IsFirst(new[i], entries, U(i) \cap (1..k))
  <2> DEFINE A == U(i) \cap (1..(k - 1))
             B == U(i) \cap (1..k)
  <2>1. B = IF k \in U(i) THEN A \cup {k} ELSE A
    <3>1. \A j \in 1..k : j = k \/ j \in 1..(k - 1)
      BY <1>1
    <3>2. k \in 1..k /\ (1..(k - 1)) \subseteq 1..k
      BY <1>1
    <3>q. QED
      BY <3>1, <3>2
  <2>2. \A j \in A : j < k /\ j \in Nat
    OBVIOUS
  <2>3. IsFirst(out[i], entries, A)
    OBVIOUS
  <2>4. A # {} => out[i] # Undecided
    <3>1. \A j \in A : j \in U(i)
      OBVIOUS
    <3> HIDE DEF A, U
    <3>q. QED
      BY <1>5, <2>3, <3>1 DEF IsFirst
  <2>5. CASE taken /\ e.candidate = i
    <3>1. k \in U(i) /\ A = {} /\ new[i] = Decided(e)
      BY <1>2, <1>4, <2>4, <2>5
    <3>2. B = {k}
      BY <2>1, <3>1
    <3> HIDE DEF A, U
    <3>q. QED
      BY <1>1, <3>1, <3>2 DEF IsFirst
  <2>6. CASE ~(taken /\ e.candidate = i)
    <3>1. new[i] = out[i]
      BY <1>2, <2>6
    <3>2. CASE k \notin U(i)
      BY <2>1, <2>3, <3>1, <3>2
    <3>3. CASE k \in U(i)
      <4>1. e.candidate = i /\ ValidEntry(e, allowed[i]) /\ i \in DOMAIN out
        BY <1>4, <3>3
      <4>2. out[i] # Undecided
        BY <2>6, <4>1
      <4>3. B = A \cup {k}
        BY <2>1, <3>3
      <4> HIDE DEF A, B, U, taken
      <4>4. A # {}
        BY <2>3, <4>2 DEF IsFirst
      <4>5. PICK a \in A : (\A j \in A : a <= j) /\ out[i] = Decided(entries[a])
        BY <2>3, <4>4 DEF IsFirst
      <4>6. a \in B /\ B # {} /\ \A j \in B : a <= j
        BY <1>1, <2>2, <4>3, <4>5
      <4>7. IsFirst(out[i], entries, B)
        BY <4>5, <4>6 DEF IsFirst
      <4>q. QED
        BY <3>1, <4>7 DEF B
    <3>q. QED
      BY <3>2, <3>3
  <2>q. QED
    BY <2>5, <2>6
<1>q. QED
  BY <1>7, <1>8

\* Each candidate of a batch gets the first entry that can be taken for it.
Accepts(f, entries, allowed) ==
  f = [k \in 0..Len(entries) |->
         IF k = 0 THEN [j \in DOMAIN allowed |-> Undecided]
         ELSE Accept(entries[k], f[k - 1], allowed)]

LEMMA BatchIsFirst ==
  ASSUME NEW text, NEW allowed \in Seq(SUBSET AtomIds),
         Read(text, Len(allowed)) \in Seq(Entries)
  PROVE  /\ ParsedBatch(text, allowed) \in [DOMAIN allowed -> Outcomes]
         /\ \A i \in DOMAIN allowed :
              IsFirst(ParsedBatch(text, allowed)[i], Read(text, Len(allowed)),
                      Usable(Read(text, Len(allowed)), TRUE, i, allowed[i]))
<1> DEFINE entries == Read(text, Len(allowed))
           n == Len(entries)
           S == [DOMAIN allowed -> Outcomes]
           none == [j \in DOMAIN allowed |-> Undecided]
           f == CHOOSE h : Accepts(h, entries, allowed)
           First(k, out) ==
             \A i \in DOMAIN allowed :
               IsFirst(out[i], entries, Usable(entries, TRUE, i, allowed[i]) \cap (1..k))
<1>1. ParsedBatch(text, allowed) = f[n]
  BY DEF ParsedBatch, Accepts
<1>2. entries \in Seq(Entries) /\ n \in Nat /\ DOMAIN entries = 1..n
  OBVIOUS
<1>3. none \in S /\ First(0, none)
  <2>1. none \in S /\ \A i \in DOMAIN allowed : none[i] = Undecided
    BY DEF Outcomes
  <2>2. \A U : U \cap (1..0) = {}
    OBVIOUS
  <2> HIDE DEF entries, none
  <2>3. \A i \in DOMAIN allowed : IsFirst(none[i], entries, {})
    BY <2>1 DEF IsFirst
  <2>q. QED
    BY <2>1, <2>2, <2>3
<1> HIDE DEF entries
<1>4. \A k \in 1..n, out \in S :
        First(k - 1, out) =>
          Accept(entries[k], out, allowed) \in S /\ First(k, Accept(entries[k], out, allowed))
  <2>1. TAKE k \in 1..n, out \in S
  <2>2. HAVE First(k - 1, out)
  <2>3. \A i \in DOMAIN allowed :
          IsFirst(out[i], entries, Usable(entries, TRUE, i, allowed[i]) \cap (1..(k - 1)))
    BY <2>2
  <2>q. QED
    BY <1>2, <2>3, AcceptOne
<1> HIDE DEF S, First, none
\* A solution of the recursion: what the states of the reading can be.
<1> DEFINE P == {p \in (0..n) \X S : First(p[1], p[2])}
           step == [p \in (1..n) \X P |->
                      IF p[2][1] = p[1] - 1
                        THEN <<p[1], Accept(entries[p[1]], p[2][2], allowed)>>
                        ELSE p[2]]
<1>5. <<0, none>> \in P
  BY <1>2, <1>3
<1>6. step \in [(1..n) \X P -> P]
  <2>1. ASSUME NEW k \in 1..n, NEW q \in P, q[1] = k - 1
        PROVE  <<k, Accept(entries[k], q[2], allowed)>> \in P
    <3>1. q[2] \in S /\ First(k - 1, q[2])
      BY <2>1
    <3>2. Accept(entries[k], q[2], allowed) \in S /\ First(k, Accept(entries[k], q[2], allowed))
      BY <1>4, <3>1
    <3>q. QED
      BY <1>2, <3>2
  <2> HIDE DEF P
  <2>q. QED
    BY <2>1
<1>7. PICK g \in [0..n -> P] : Solves(g, n, <<0, none>>, step)
  <2> HIDE DEF P, step
  <2>q. QED
    BY <1>2, <1>5, <1>6, Recursion
<1>8. \A k \in 1..n, q \in P : q[1] = k - 1 =>
        step[<<k, q>>] = <<k, Accept(entries[k], q[2], allowed)>>
  OBVIOUS
<1>9. \A q \in P : q[1] \in 0..n /\ q[2] \in S /\ First(q[1], q[2]) /\ q = <<q[1], q[2]>>
  OBVIOUS
<1> HIDE DEF P, step
<1>10. g[0] = <<0, none>> /\ \A k \in 1..n : g[k] = step[<<k, g[k - 1]>>]
  <2>1. \A k \in 0..n : g[k] = IF k = 0 THEN <<0, none>> ELSE step[<<k, g[k - 1]>>]
    BY <1>7 DEF Solves
  <2>2. 0 \in 0..n /\ \A k \in 1..n : k \in 0..n /\ k # 0
    BY <1>2
  <2>q. QED
    BY <2>1, <2>2, Zenon
<1> DEFINE T == {k \in 0..n : g[k][1] = k}
<1>11. 0 \in T
  BY <1>2, <1>10
<1>12. ASSUME NEW k \in 1..n, k - 1 \in T
       PROVE  k \in T /\ g[k] = <<k, Accept(entries[k], g[k - 1][2], allowed)>>
  <2>1. k - 1 \in 0..n /\ k \in 0..n
    BY <1>2
  <2>2. g[k - 1] \in P /\ g[k - 1][1] = k - 1
    BY <1>7, <1>12, <2>1
  <2>3. g[k] = <<k, Accept(entries[k], g[k - 1][2], allowed)>>
    BY <1>8, <1>10, <2>2
  <2>q. QED
    BY <2>1, <2>3
<1>13. 0..n \subseteq T
  <2> HIDE DEF T
  <2>q. QED
    BY <1>2, <1>11, <1>12, UpTo
<1> DEFINE h == [k \in 0..n |-> g[k][2]]
<1>14. Accepts(h, entries, allowed)
  <2>1. ASSUME NEW k \in 0..n
        PROVE  h[k] = IF k = 0 THEN none ELSE Accept(entries[k], h[k - 1], allowed)
    <3>1. CASE k = 0
      BY <1>10, <3>1
    <3>2. CASE k # 0
      <4>1. k \in 1..n /\ k - 1 \in 0..n
        BY <1>2, <3>2
      <4>2. k - 1 \in T
        BY <1>13, <4>1
      <4>3. g[k] = <<k, Accept(entries[k], g[k - 1][2], allowed)>>
        BY <1>12, <4>1, <4>2
      <4>4. h[k] = g[k][2] /\ h[k - 1] = g[k - 1][2]
        BY <4>1
      <4>5. g[k][2] = Accept(entries[k], g[k - 1][2], allowed)
        BY <4>3
      <4> HIDE DEF h
      <4>q. QED
        BY <3>2, <4>4, <4>5
    <3>q. QED
      BY <3>1, <3>2
  <2>2. h = [k \in 0..n |-> h[k]]
    OBVIOUS
  <2> HIDE DEF h
  <2>q. QED
    BY <2>1, <2>2 DEF Accepts, none
<1> HIDE DEF h, T
<1>15. Accepts(f, entries, allowed)
  BY <1>14 DEF entries
<1> HIDE DEF f
<1>16. f[0] = none /\ \A k \in 1..n : f[k] = Accept(entries[k], f[k - 1], allowed)
  <2>1. \A k \in 0..n : f[k] = IF k = 0 THEN none ELSE Accept(entries[k], f[k - 1], allowed)
    BY <1>15 DEF Accepts, none
  <2>2. 0 \in 0..n /\ \A k \in 1..n : k \in 0..n /\ k # 0
    BY <1>2
  <2>q. QED
    BY <2>1, <2>2, Zenon
<1> DEFINE R == {k \in 0..n : f[k] \in S /\ First(k, f[k])}
<1>17. 0 \in R
  BY <1>2, <1>3, <1>16
<1>18. ASSUME NEW k \in 1..n, k - 1 \in R
       PROVE  k \in R
  <2>1. f[k - 1] \in S /\ First(k - 1, f[k - 1]) /\ k \in 0..n
    BY <1>2, <1>18
  <2>q. QED
    BY <1>4, <1>16, <2>1
<1> HIDE DEF R
<1>19. 0..n \subseteq R
  BY <1>2, <1>17, <1>18, UpTo
<1>20. f[n] \in S /\ First(n, f[n])
  <2>1. n \in 0..n
    BY <1>2
  <2>q. QED
    BY <1>19, <2>1 DEF R
<1>21. ASSUME NEW i \in DOMAIN allowed
       PROVE  IsFirst(f[n][i], entries, Usable(entries, TRUE, i, allowed[i]))
  <2> DEFINE U == Usable(entries, TRUE, i, allowed[i])
  <2>1. U \subseteq 1..n
    BY <1>2 DEF Usable
  <2> HIDE DEF U
  <2>2. U \cap (1..n) = U
    BY <2>1
  <2>3. IsFirst(f[n][i], entries, U \cap (1..n))
    BY <1>20 DEF First, U
  <2>4. IsFirst(f[n][i], entries, U)
    BY <2>2, <2>3
  <2>q. QED
    BY <2>4 DEF U
<1>q. QED
  BY <1>1, <1>20, <1>21 DEF S, entries

\* The entries of a reply, in whichever form it has.
LEMMA EntriesRead ==
  ASSUME NEW text \in BatchReplies, NEW n
  PROVE  Read(text, n) \in Seq(Entries)
<1>1. BoundedSeq(Entries, MaxEntries) \subseteq Seq(Entries) /\ <<>> \in Seq(Entries)
  BY DEF BoundedSeq, SeqOf
<1>2. text.array \in Seq(Entries) /\ text.lines \in Seq(Entries)
  BY <1>1 DEF BatchReplies
<1>q. QED
  BY <1>2 DEF Read

\* Of the candidates that a batch reply left open none is forgotten.
LEMMA LeftOpenHas ==
  ASSUME NEW n \in Nat, NEW parsed \in [1..n -> Outcomes], start \in Nat
  PROVE  /\ LeftOpen(parsed) \in Seq((start + 1)..(start + n))
         /\ \A j \in 1..n : parsed[j] = Undecided => start + j \in Range(LeftOpen(parsed))
<1> DEFINE U == (start + 1)..(start + n)
           seq == [j \in DOMAIN parsed |-> start + j]
           S == {start + j : j \in {k \in DOMAIN parsed : parsed[k] = Undecided}}
<1>1. LeftOpen(parsed) = Kept(seq, S)
  BY DEF LeftOpen
<1>2. seq \in Seq(U) /\ DOMAIN seq = 1..n /\ \A j \in 1..n : seq[j] = start + j
  <2>1. seq = [j \in 1..n |-> start + j]
    OBVIOUS
  <2>2. \A j \in 1..n : start + j \in U
    OBVIOUS
  <2> HIDE DEF U
  <2>q. QED
    BY <2>1, <2>2
<1>3. \A j \in 1..n : parsed[j] = Undecided => start + j \in S
  OBVIOUS
<1> HIDE DEF U, seq, S
<1>a. seq \in Seq(U)
  BY <1>2
<1>4. Kept(seq, S) \in Seq(U \cap S)
  BY <1>a, KeptHas
<1>5. \A j \in DOMAIN seq :
        seq[j] \in S => \E k \in DOMAIN Kept(seq, S) : Kept(seq, S)[k] = seq[j]
  <2>1. TAKE j \in DOMAIN seq
  <2>2. HAVE seq[j] \in S
  <2>q. QED
    BY <1>a, <2>2, KeptEach
<1>6. Kept(seq, S) \in Seq(U)
  BY <1>4
<1>7. \A j \in 1..n : parsed[j] = Undecided => start + j \in Range(Kept(seq, S))
  BY <1>2, <1>3, <1>5 DEF Range
<1>q. QED
  BY <1>1, <1>6, <1>7 DEF U

LEMMA TilesEmpty ==
  ASSUME NEW x, NEW y, Tiles(<<>>, x, y)
  PROVE  x = y
<1>1. PICK b : TiledBy(<<>>, x, y, b)
  BY DEF Tiles
<1>q. QED
  BY <1>1 DEF TiledBy

-----------------------------------------------------------------------------
\* The inductive invariant.

Answers == [about : Seq(Nat), numbered : BOOLEAN, entries : Seq(Entries),
            without : SUBSET AtomIds]

TypeInv ==
  /\ TypeOK
  /\ chunks \in Seq(Seq(DOMAIN candidates))
  /\ said \in Seq(Answers)

\* Nothing is decided, or there is a place for every decision.
Untouched ==
  /\ decisions = <<>> /\ said = <<>> /\ chunks = <<>> /\ retries = <<>>
  /\ start = 0 /\ settled = 0 /\ consumed = {}

Deciding ==
  Len(shown) = Len(candidates) /\ Len(decisions) = Len(candidates)

PhaseInv ==
  /\ pc \in {"extract", "retrieve"} => Untouched
  /\ pc = "retrieve" => Len(shown) < Len(candidates)
  /\ pc \in {"decide", "planned"} => Deciding
  /\ pc = "failed" => Untouched \/ Deciding
  /\ pc = "planned" => settled = Len(candidates) /\ retries = <<>> /\ chunks = <<>>
  /\ pc \in {"retrieve", "decide", "planned"} => candidates = Kept(reply.items, Objects)

\* The batches to be asked about are the candidates after those asked about.
BatchInv ==
  Deciding =>
    /\ IF set.batch > 1 /\ Len(candidates) > 1 THEN Tiles(chunks, start, Len(candidates))
                                               ELSE chunks = <<>>
    /\ \A k \in DOMAIN chunks : Within(chunks[k], set, shown)

\* A candidate without a decision will be asked about.
DecisionInv ==
  \A i \in DOMAIN decisions :
    \/ Fits(decisions[i], shown[i])
    \/ /\ decisions[i] = Undecided
       /\ i \in Range(retries) \/ (chunks # <<>> /\ i > start)

\* No settled decision names what one before it consumes.
SettledInv ==
  /\ settled > 0 => retries = <<>> /\ chunks = <<>>
  /\ \A i \in 1..settled :
       /\ ConsumedBy(decisions[i], candidates[i]) \subseteq consumed
       /\ \A j \in 1..(i - 1) :
            ConsumedBy(decisions[j], candidates[j]) \cap decisions[i].targets = {}

\* The decision d of candidate i is the first that its last answer a gives it.
IsAnswered(a, i, d, nbs) ==
  a.about # <<>> =>
    \E n \in DOMAIN a.about :
      /\ \A m \in DOMAIN a.about : a.about[m] = i <=> m = n
      /\ IsFirst(d, a.entries, Usable(a.entries, a.numbered, n, nbs \ a.without))

SaidInv == \A i \in DOMAIN said : IsAnswered(said[i], i, decisions[i], shown[i])

IInv == TypeInv /\ PhaseInv /\ BatchInv /\ DecisionInv /\ SettledInv /\ SaidInv

LEMMA InitInv == Init => IInv
<1> SUFFICES ASSUME Init
             PROVE  IInv
  OBVIOUS
<1>1. TypeInv
  BY DEF Init, TypeInv, TypeOK
<1>2. Untouched /\ pc = "extract" /\ candidates = <<>>
  BY DEF Init, Untouched
<1>3. PhaseInv
  BY <1>2 DEF PhaseInv
<1>4. BatchInv
  BY <1>2 DEF BatchInv, Untouched
<1>5. DecisionInv /\ SettledInv /\ SaidInv
  BY <1>2 DEF DecisionInv, SettledInv, SaidInv, Untouched
<1>q. QED
  BY <1>1, <1>3, <1>4, <1>5 DEF IInv

LEMMA ThrowInv ==
  ASSUME IInv, Throw, set' = set
  PROVE  IInv'
<1>1. /\ pc' = "failed"
      /\ candidates' = candidates /\ shown' = shown /\ decisions' = decisions
      /\ chunks' = chunks /\ start' = start /\ retries' = retries
      /\ settled' = settled /\ consumed' = consumed /\ said' = said
  BY DEF Throw
<1>2. TypeInv'
  BY <1>1 DEF IInv, TypeInv, TypeOK
<1>3. PhaseInv'
  <2>1. Untouched \/ Deciding
    BY DEF IInv, TypeInv, TypeOK, PhaseInv
  <2>2. Untouched' \/ Deciding'
    BY <1>1, <2>1 DEF Untouched, Deciding
  <2>q. QED
    BY <1>1, <2>2 DEF PhaseInv
<1>4. BatchInv'
  BY <1>1 DEF IInv, BatchInv, Deciding
<1>5. DecisionInv'
  BY <1>1 DEF IInv, DecisionInv
<1>6. SettledInv'
  BY <1>1 DEF IInv, SettledInv
<1>7. SaidInv'
  BY <1>1 DEF IInv, SaidInv
<1>q. QED
  BY <1>2, <1>3, <1>4, <1>5, <1>6, <1>7 DEF IInv

LEMMA RetrievedInv ==
  ASSUME IInv, pc \in {"extract", "retrieve"}, set' = set,
         NEW found \in Seq(AtomIds), found = Kept(reply'.items, Objects),
         NEW nbs \in Seq(SUBSET AtomIds), Len(nbs) <= Len(found),
         Retrieved(found, nbs)
  PROVE  IInv'
<1> DEFINE n == Len(found)
<1>1. /\ candidates' = found /\ shown' = nbs
      /\ start' = 0 /\ settled' = 0 /\ consumed' = {}
      /\ Untouched /\ n \in Nat /\ DOMAIN found = 1..n /\ Len(nbs) \in Nat
      /\ set \in [batch : Nat \ {0}, chars : Int] /\ set \in Settings /\ set' = set
  BY Given DEF Retrieved, IInv, PhaseInv, Untouched, TypeInv, TypeOK
<1>2. CASE Len(nbs) < Len(found)
  <2>1. /\ pc' = "retrieve" /\ decisions' = <<>> /\ chunks' = <<>> /\ retries' = <<>>
        /\ said' = <<>>
    BY <1>1, <1>2 DEF Retrieved, Untouched
  <2>2. TypeInv'
    BY <1>1, <2>1 DEF TypeInv, TypeOK
  <2>3. PhaseInv'
    BY <1>1, <1>2, <2>1 DEF PhaseInv, Untouched
  <2>4. BatchInv'
    BY <1>1, <1>2 DEF BatchInv, Deciding
  <2>5. DecisionInv' /\ SettledInv' /\ SaidInv'
    BY <1>1, <2>1 DEF DecisionInv, SettledInv, SaidInv
  <2>q. QED
    BY <2>2, <2>3, <2>4, <2>5 DEF IInv
<1>3. CASE ~(Len(nbs) < Len(found))
  <2> DEFINE single == set.batch <= 1 \/ n <= 1
             packed == Packed(n, set, nbs)
  <2>1. /\ pc' = "decide" /\ Len(nbs) = n
        /\ decisions' = [i \in 1..n |-> Undecided]
        /\ said' = [i \in 1..n |-> Unsaid]
        /\ chunks' = IF single THEN <<>> ELSE packed
        /\ retries' = IF single THEN [i \in 1..n |-> i] ELSE <<>>
    <3>1. /\ pc' = "decide"
          /\ decisions' = [i \in DOMAIN found |-> Undecided]
          /\ said' = [i \in DOMAIN found |-> Unsaid]
          /\ chunks' = IF single THEN <<>> ELSE packed
          /\ retries' = IF single THEN [i \in DOMAIN found |-> i] ELSE <<>>
      BY <1>3, Zenon DEF Retrieved
    <3>2. Len(nbs) = n
      BY <1>1, <1>3
    <3>q. QED
      BY <1>1, <3>1, <3>2, Zenon
  <2>2. Tiles(packed, 0, n) /\ \A k \in DOMAIN packed : Within(packed[k], set, nbs)
    BY <1>1, PackedTiles
  <2>3. packed \in Seq(Seq(1..n))
    BY <1>1, <2>2, TilesIn
  <2>4. n > 0 => packed # <<>>
    BY <2>2, TilesEmpty
  <2> HIDE DEF packed
  <2>5. set.batch > 1 /\ n > 1 <=> ~single
    BY <1>1
  <2> HIDE DEF single
  <2>6. TypeInv'
    <3>1. decisions' \in Seq(Decision \cup {Undecided}) /\ Len(decisions') = n
      BY <1>1, <2>1
    <3>2. said' \in Seq(Answers) /\ Len(said') = n
      <4>1. Unsaid \in Answers
        BY DEF Unsaid, Answers
      <4> HIDE DEF n
      <4>q. QED
        BY <1>1, <2>1, <4>1
    <3>3. chunks' \in Seq(Seq(1..n)) /\ \A k \in DOMAIN chunks' : chunks'[k] \in Seq(1..n)
      <4> DEFINE Z == Seq(1..n)
      <4>1. packed \in Seq(Z)
        BY <2>3
      <4> HIDE DEF Z
      <4>2. <<>> \in Seq(Z) /\ (chunks' = <<>> \/ chunks' = packed)
        BY <2>1
      <4>3. chunks' \in Seq(Z)
        BY <4>1, <4>2
      <4>4. \A k \in DOMAIN chunks' : chunks'[k] \in Z
        BY <4>3
      <4>q. QED
        BY <4>3, <4>4 DEF Z
    <3>4. retries' \in Seq(1..n)
      <4>1. [i \in 1..n |-> i] \in Seq(1..n) /\ <<>> \in Seq(1..n)
        BY <1>1
      <4>2. retries' = <<>> \/ retries' = [i \in 1..n |-> i]
        BY <2>1
      <4>q. QED
        BY <4>1, <4>2
    <3>q. QED
      BY <1>1, <2>1, <3>1, <3>2, <3>3, <3>4 DEF TypeInv, TypeOK
  <2>7. Len(decisions') = n
    BY <1>1, <2>1
  <2>8. PhaseInv'
    BY <1>1, <2>1, <2>7 DEF PhaseInv, Deciding
  <2>9. BatchInv'
    BY <1>1, <2>1, <2>2, <2>5 DEF BatchInv
  <2>10. DecisionInv'
    <3>1. ASSUME NEW i \in 1..n
          PROVE  i \in Range(retries') \/ (chunks' # <<>> /\ i > start')
      <4>1. CASE single
        <5>1. i \in DOMAIN retries' /\ retries'[i] = i
          BY <2>1, <4>1
        <5>q. QED
          BY <5>1 DEF Range
      <4>2. CASE ~single
        BY <1>1, <2>1, <2>4, <4>2
      <4>q. QED
        BY <4>1, <4>2
    <3>2. DOMAIN decisions' = 1..n /\ \A i \in 1..n : decisions'[i] = Undecided
      BY <2>1
    <3>q. QED
      BY <3>1, <3>2 DEF DecisionInv
  <2>11. SettledInv'
    BY <1>1 DEF SettledInv
  <2>12. SaidInv'
    BY <2>1 DEF SaidInv, IsAnswered, Unsaid
  <2>q. QED
    BY <2>6, <2>8, <2>9, <2>10, <2>11, <2>12 DEF IInv
<1>q. QED
  BY <1>2, <1>3

LEMMA ExtractInv == IInv /\ Extract => IInv'
<1> SUFFICES ASSUME IInv, Extract
             PROVE  IInv'
  OBVIOUS
<1>1. PICK x \in Extractions :
        /\ reply' = x
        /\ IF ParsedCandidates(x).ok THEN Retrieved(ParsedCandidates(x).candidates, <<>>)
                                     ELSE Throw
  BY DEF Extract
<1>2. pc = "extract" /\ set' = set
  BY DEF Extract
<1>3. CASE ParsedCandidates(x).ok
  <2> DEFINE found == ParsedCandidates(x).candidates
  <2>1. found \in Seq(AtomIds) /\ found = Kept(reply'.items, Objects)
    BY <1>1, <1>3, CandidatesAreObjects
  <2>2. Retrieved(found, <<>>)
    BY <1>1, <1>3
  <2> HIDE DEF found
  <2>3. <<>> \in Seq(SUBSET AtomIds) /\ Len(<<>>) <= Len(found)
    BY <2>1
  <2>q. QED
    BY <1>2, <2>1, <2>2, <2>3, RetrievedInv
<1>4. CASE ~ParsedCandidates(x).ok
  BY <1>1, <1>2, <1>4, ThrowInv
<1>q. QED
  BY <1>3, <1>4

LEMMA RetrieveInv == IInv /\ Retrieve => IInv'
<1> SUFFICES ASSUME IInv, Retrieve
             PROVE  IInv'
  OBVIOUS
<1>1. PICK nbs \in Neighbours : Retrieved(candidates, Append(shown, nbs))
  BY DEF Retrieve
<1>2. pc = "retrieve" /\ set' = set /\ reply' = reply
  BY DEF Retrieve
<1>3. /\ candidates \in Seq(AtomIds) /\ shown \in Seq(SUBSET AtomIds)
      /\ Len(shown) < Len(candidates) /\ candidates = Kept(reply'.items, Objects)
  BY <1>2 DEF IInv, TypeInv, TypeOK, PhaseInv
<1>4. nbs \in SUBSET AtomIds
  BY Given, Zenon
<1>5. Append(shown, nbs) \in Seq(SUBSET AtomIds) /\ Len(Append(shown, nbs)) <= Len(candidates)
  BY <1>3, <1>4
<1>q. QED
  BY <1>1, <1>2, <1>3, <1>5, RetrievedInv

\* An answer about one candidate.
LEMMA AloneIsAnswered ==
  ASSUME NEW i \in Nat, NEW e \in Entries, NEW nbs \in SUBSET AtomIds,
         NEW without \in SUBSET AtomIds, ValidEntry(e, nbs \ without)
  PROVE  /\ IsAnswered(Answer(<<i>>, FALSE, <<e>>, without), i, Decided(e), nbs)
         /\ Answer(<<i>>, FALSE, <<e>>, without) \in Answers
<1> DEFINE a == Answer(<<i>>, FALSE, <<e>>, without)
           u == Usable(<<e>>, FALSE, 1, nbs \ without)
<1>1. /\ a.about = <<i>> /\ a.numbered = FALSE /\ a.entries = <<e>>
      /\ a.without = without /\ a \in Answers
  BY DEF Answer, Answers
<1>2. 1 \in u /\ u \subseteq {1}
  <2>1. DOMAIN <<e>> = {1} /\ <<e>>[1] = e
    OBVIOUS
  <2>2. \A k : k \in u <=> /\ k \in DOMAIN <<e>>
                           /\ FALSE => <<e>>[k].candidate = 1
                           /\ ValidEntry(<<e>>[k], nbs \ without)
    BY Zenon DEF Usable
  <2> HIDE DEF u
  <2>q. QED
    BY <2>1, <2>2, Zenon
<1> HIDE DEF a, u
<1>3. IsFirst(Decided(e), <<e>>, u)
  <2>1. <<e>>[1] = e
    OBVIOUS
  <2>2. u = {1}
    BY <1>2
  <2>3. 1 \in u /\ \A j \in u : 1 <= j
    BY <2>2
  <2>4. \E k \in u : /\ \A j \in u : k <= j
                     /\ Decided(e) = Decided(<<e>>[k])
    BY <2>1, <2>3
  <2>q. QED
    BY <1>2, <2>4, Zenon DEF IsFirst
<1>4. IsAnswered(a, i, Decided(e), nbs)
  <2>1. 1 \in DOMAIN <<i>> /\ \A m \in DOMAIN <<i>> : <<i>>[m] = i <=> m = 1
    OBVIOUS
  <2>2. IsFirst(Decided(e), a.entries, Usable(a.entries, a.numbered, 1, nbs \ a.without))
    BY <1>1, <1>3, Zenon DEF u
  <2>3. /\ 1 \in DOMAIN a.about
        /\ \A m \in DOMAIN a.about : a.about[m] = i <=> m = 1
    BY <1>1, <2>1
  <2>q. QED
    BY <2>2, <2>3, Zenon DEF IsAnswered
<1>q. QED
  BY <1>1, <1>4 DEF a

LEMMA OneReplaced ==
  ASSUME NEW S, NEW f \in Seq(S), NEW i \in 1..Len(f), NEW v \in S
  PROVE  LET new == [f EXCEPT ![i] = v]
         IN /\ new \in Seq(S) /\ Len(new) = Len(f)
            /\ \A j \in 1..Len(f) : new[j] = IF j = i THEN v ELSE f[j]
<1> DEFINE m == Len(f)
           new == [f EXCEPT ![i] = v]
<1>1. m \in Nat /\ f \in [1..m -> S]
  OBVIOUS
<1> HIDE DEF m
<1>2. new \in [1..m -> S]
  BY <1>1 DEF m
<1>3. \A j \in 1..m : new[j] = IF j = i THEN v ELSE f[j]
  BY <1>1
<1> HIDE DEF new
<1>4. new \in Seq(S) /\ Len(new) = m
  BY <1>1, <1>2, FunctionIsSeq
<1>q. QED
  BY <1>3, <1>4 DEF m, new

\* One decision is made anew, from an answer about its candidate alone.
LEMMA OneSaid ==
  ASSUME IInv, Deciding, NEW i \in DOMAIN decisions, NEW e \in Entries,
         NEW without \in SUBSET AtomIds, ValidEntry(e, shown[i] \ without),
         shown' = shown,
         decisions' = [decisions EXCEPT ![i] = Decided(e)],
         said' = [said EXCEPT ![i] = Answer(<<i>>, FALSE, <<e>>, without)]
  PROVE  /\ SaidInv'
         /\ decisions' \in Seq(Outcomes) /\ Len(decisions') = Len(decisions)
         /\ said' \in Seq(Answers) /\ Len(said') = Len(said)
         /\ Fits(decisions'[i], shown[i])
         /\ \A j \in DOMAIN decisions : j # i => decisions'[j] = decisions[j]
<1>1. /\ decisions \in Seq(Outcomes) /\ said \in Seq(Answers) /\ Len(said) = Len(decisions)
      /\ shown \in Seq(SUBSET AtomIds) /\ Len(shown) = Len(decisions)
  BY DEF IInv, TypeInv, TypeOK, Deciding, Outcomes
<1>2. i \in Nat /\ shown[i] \in SUBSET AtomIds
  BY <1>1
<1>3. Decided(e) \in Outcomes /\ Fits(Decided(e), shown[i])
  <2>1. shown[i] \ without \in SUBSET AtomIds
    BY <1>2
  <2>2. Fits(Decided(e), shown[i] \ without)
    BY <2>1, DecidedFits
  <2>q. QED
    BY <2>2 DEF Fits, Outcomes
<1> DEFINE a == Answer(<<i>>, FALSE, <<e>>, without)
<1>4. IsAnswered(a, i, Decided(e), shown[i]) /\ a \in Answers
  BY <1>2, AloneIsAnswered
<1> HIDE DEF a
<1>5. /\ decisions' \in Seq(Outcomes) /\ Len(decisions') = Len(decisions)
      /\ decisions'[i] = Decided(e)
      /\ \A j \in DOMAIN decisions : j # i => decisions'[j] = decisions[j]
  BY <1>1, <1>3
<1>6. /\ said' \in Seq(Answers) /\ Len(said') = Len(said)
      /\ said'[i] = a
      /\ \A j \in DOMAIN decisions : j # i => said'[j] = said[j]
  <2>1. said' = [said EXCEPT ![i] = a] /\ i \in 1..Len(said)
    BY <1>1 DEF a
  <2>2. DOMAIN decisions = 1..Len(said)
    BY <1>1
  <2> DEFINE new == [said EXCEPT ![i] = a]
  <2>a. said \in Seq(Answers) /\ i \in 1..Len(said) /\ a \in Answers
    BY <1>1, <1>4, <2>1
  <2>b. /\ new \in Seq(Answers) /\ Len(new) = Len(said)
        /\ \A j \in 1..Len(said) : new[j] = IF j = i THEN a ELSE said[j]
    BY <2>a, OneReplaced
  <2> HIDE DEF new
  <2>c. said' = new
    BY <2>1 DEF new
  <2>3. /\ said' \in Seq(Answers) /\ Len(said') = Len(said)
        /\ \A j \in 1..Len(said) : said'[j] = IF j = i THEN a ELSE said[j]
    BY <2>b, <2>c
  <2>q. QED
    BY <2>1, <2>2, <2>3
<1>7. DOMAIN said' = DOMAIN decisions /\ DOMAIN said = DOMAIN decisions
  BY <1>1, <1>6
<1>8. SaidInv
  BY DEF IInv
<1>9. SaidInv'
  <2>1. ASSUME NEW j \in DOMAIN said'
        PROVE  IsAnswered(said'[j], j, decisions'[j], shown'[j])
    <3>1. CASE j = i
      BY <1>4, <1>5, <1>6, <3>1
    <3>2. CASE j # i
      BY <1>5, <1>6, <1>7, <1>8, <3>2 DEF SaidInv
    <3>q. QED
      BY <3>1, <3>2
  <2>q. QED
    BY <2>1 DEF SaidInv
<1>q. QED
  BY <1>3, <1>5, <1>6, <1>9

LEMMA DecideAloneInv == IInv /\ DecideAlone => IInv'
<1> SUFFICES ASSUME IInv, DecideAlone
             PROVE  IInv'
  OBVIOUS
<1> DEFINE i == Head(retries)
<1>1. pc = "decide" /\ retries # <<>> /\ set' = set /\ reply' = reply
  BY DEF DecideAlone
<1>2. /\ TypeOK /\ Deciding
      /\ candidates \in Seq(AtomIds) /\ shown \in Seq(SUBSET AtomIds)
      /\ retries \in Seq(DOMAIN candidates) /\ DOMAIN candidates = DOMAIN decisions
      /\ DOMAIN candidates = DOMAIN shown
  BY <1>1 DEF IInv, TypeInv, TypeOK, PhaseInv, Deciding
<1>3. i \in DOMAIN decisions /\ shown[i] \in SUBSET AtomIds /\ shown[i] \ {} = shown[i]
  BY <1>1, <1>2
<1>4. PICK e \in Entries :
        IF ParsedSingle(e, shown[i]) = Undecided THEN Throw
        ELSE /\ decisions' = [decisions EXCEPT ![i] = ParsedSingle(e, shown[i])]
             /\ said' = [said EXCEPT ![i] = Answer(<<i>>, FALSE, <<e>>, {})]
             /\ retries' = Tail(retries)
             /\ UNCHANGED <<pc, candidates, shown, chunks, start, settled, consumed>>
  BY Zenon DEF DecideAlone
<1>5. CASE ParsedSingle(e, shown[i]) = Undecided
  BY <1>1, <1>4, <1>5, ThrowInv
<1>6. CASE ParsedSingle(e, shown[i]) # Undecided
  <2>1. /\ decisions' = [decisions EXCEPT ![i] = ParsedSingle(e, shown[i])]
        /\ said' = [said EXCEPT ![i] = Answer(<<i>>, FALSE, <<e>>, {})]
        /\ retries' = Tail(retries)
        /\ pc' = pc /\ candidates' = candidates /\ shown' = shown /\ chunks' = chunks
        /\ start' = start /\ settled' = settled /\ consumed' = consumed
    BY <1>4, <1>6
  <2>2. ValidEntry(e, shown[i]) /\ ParsedSingle(e, shown[i]) = Decided(e)
    BY <1>3, <1>6, SingleFits
  <2>3. Tail(retries) \in Seq(DOMAIN candidates)
        /\ \A j : j \in Range(retries) /\ j # i => j \in Range(Tail(retries))
    <3>1. /\ Tail(retries) \in Seq(DOMAIN candidates) /\ Len(retries) \in Nat \ {0}
          /\ Len(Tail(retries)) = Len(retries) - 1
          /\ \A k \in 1..(Len(retries) - 1) : Tail(retries)[k] = retries[k + 1]
          /\ retries[1] = i
      BY <1>1, <1>2
    <3> HIDE DEF i
    <3>2. ASSUME NEW j, j \in Range(retries), j # i
          PROVE  j \in Range(Tail(retries))
      <4>1. PICK k \in DOMAIN retries : retries[k] = j
        BY <3>2 DEF Range
      <4>2. k \in 2..Len(retries)
        BY <1>2, <3>1, <3>2, <4>1
      <4>3. k - 1 \in DOMAIN Tail(retries) /\ Tail(retries)[k - 1] = j
        BY <3>1, <4>1, <4>2
      <4>q. QED
        BY <4>3 DEF Range
    <3>q. QED
      BY <3>1, <3>2
  <2> HIDE DEF i
  <2>4. /\ SaidInv'
        /\ decisions' \in Seq(Outcomes) /\ Len(decisions') = Len(decisions)
        /\ said' \in Seq(Answers) /\ Len(said') = Len(said)
        /\ Fits(decisions'[i], shown[i])
        /\ \A j \in DOMAIN decisions : j # i => decisions'[j] = decisions[j]
    <3>1. {} \in SUBSET AtomIds /\ ValidEntry(e, shown[i] \ {})
      BY <1>3, <2>2
    <3>2. decisions' = [decisions EXCEPT ![i] = Decided(e)]
      BY <2>1, <2>2
    <3>q. QED
      BY <1>2, <1>3, <2>1, <3>1, <3>2, OneSaid
  <2>5. TypeInv'
    BY <1>1, <2>1, <2>3, <2>4 DEF IInv, TypeInv, TypeOK, Outcomes
  <2>6. PhaseInv'
    <3>1. Deciding'
      BY <1>2, <2>1, <2>4 DEF Deciding
    <3>q. QED
      BY <1>1, <2>1, <3>1 DEF IInv, PhaseInv
  <2>7. BatchInv'
    BY <1>1, <1>2, <2>1 DEF IInv, BatchInv
  <2>8. DecisionInv'
    <3>1. ASSUME NEW j \in DOMAIN decisions
          PROVE  \/ Fits(decisions'[j], shown'[j])
                 \/ /\ decisions'[j] = Undecided
                    /\ j \in Range(retries') \/ (chunks' # <<>> /\ j > start')
      <4>1. CASE j = i
        BY <2>1, <2>4, <4>1
      <4>2. CASE j # i
        <5>1. \/ Fits(decisions[j], shown[j])
              \/ /\ decisions[j] = Undecided
                 /\ j \in Range(retries) \/ (chunks # <<>> /\ j > start)
          BY DEF IInv, DecisionInv
        <5>q. QED
          BY <2>1, <2>3, <2>4, <4>2, <5>1
      <4>q. QED
        BY <4>1, <4>2
    <3>2. DOMAIN decisions' = DOMAIN decisions
      BY <2>1
    <3>q. QED
      BY <3>1, <3>2 DEF DecisionInv
  <2>9. SettledInv'
    <3>1. settled \in Nat /\ ~(settled > 0)
      BY <1>1, <1>2 DEF IInv, SettledInv, TypeOK
    <3>q. QED
      BY <2>1, <3>1 DEF SettledInv
  <2>q. QED
    BY <2>4, <2>5, <2>6, <2>7, <2>8, <2>9 DEF IInv
<1>q. QED
  BY <1>5, <1>6

LEMMA FirstFits ==
  ASSUME NEW entries \in Seq(Entries), NEW nbs \in SUBSET AtomIds, NEW numbered, NEW n, NEW d,
         IsFirst(d, entries, Usable(entries, numbered, n, nbs))
  PROVE  d = Undecided \/ Fits(d, nbs)
<1> DEFINE u == Usable(entries, numbered, n, nbs)
<1>1. \A k \in u : k \in DOMAIN entries /\ ValidEntry(entries[k], nbs)
  BY DEF Usable
<1>2. \A k \in u : Fits(Decided(entries[k]), nbs)
  BY <1>1, DecidedFits
<1> HIDE DEF u
<1>3. d = Undecided \/ \E k \in u : d = Decided(entries[k])
  BY Zenon DEF IsFirst, u
<1>q. QED
  BY <1>2, <1>3

\* The next batch is a run of candidates from `start on.
LEMMA NextBatch ==
  ASSUME IInv, pc = "decide", chunks # <<>>
  PROVE  \E y \in start..Len(candidates) :
           /\ Head(chunks) = Tile(start, y)
           /\ Tiles(Tail(chunks), y, Len(candidates))
<1>1. /\ start \in Nat /\ Len(candidates) \in Nat
      /\ Tiles(chunks, start, Len(candidates))
  BY DEF IInv, TypeInv, TypeOK, PhaseInv, BatchInv
<1>q. QED
  BY <1>1, FirstTile

LEMMA DecideBatchInv == IInv /\ DecideBatch => IInv'
<1> SUFFICES ASSUME IInv, DecideBatch
             PROVE  IInv'
  OBVIOUS
<1> DEFINE N == Len(candidates)
           chunk == Head(chunks)
           allowed == Allowed(chunk)
<1>1. /\ pc = "decide" /\ retries = <<>> /\ chunks # <<>>
      /\ set' = set /\ pc' = pc /\ reply' = reply /\ candidates' = candidates
      /\ shown' = shown /\ settled' = settled /\ consumed' = consumed
      /\ chunks' = Tail(chunks)
  BY DEF DecideBatch
<1>2. PICK text \in BatchReplies :
        LET parsed == ParsedBatch(text, allowed)
        IN /\ decisions' = [i \in DOMAIN decisions |->
                              IF i \in (start + 1)..(start + Len(chunk))
                                THEN parsed[i - start] ELSE decisions[i]]
           /\ retries' = LeftOpen(parsed)
           /\ said' = [i \in DOMAIN said |->
                         IF i \in Range(chunk)
                           THEN Answer(chunk, TRUE, Read(text, Len(chunk)), {}) ELSE said[i]]
           /\ start' = start + Len(chunk)
  BY Zenon DEF DecideBatch
<1>3. /\ Deciding /\ N \in Nat /\ start \in Nat /\ Len(shown) = N
      /\ shown \in Seq(SUBSET AtomIds) /\ candidates \in Seq(AtomIds) /\ DOMAIN candidates = 1..N
      /\ decisions \in Seq(Outcomes) /\ DOMAIN decisions = 1..N
      /\ said \in Seq(Answers) /\ DOMAIN said = 1..N
      /\ chunks \in Seq(Seq(DOMAIN candidates))
      /\ settled \in 0..N /\ settled \in Nat
  BY <1>1 DEF IInv, TypeInv, TypeOK, PhaseInv, Deciding, Outcomes
<1>4. PICK y \in start..N : chunk = Tile(start, y) /\ Tiles(Tail(chunks), y, N)
  BY <1>1, NextBatch
<1> DEFINE len == y - start
<1>5. y \in Nat /\ len \in Nat /\ start <= y /\ y <= N
  BY <1>3
<1>6. /\ chunk \in Seq(Nat) /\ Len(chunk) = len /\ DOMAIN chunk = 1..len
      /\ \A j \in 1..len : chunk[j] = start + j
  <2>1. /\ Tile(start, y) \in Seq(Nat) /\ Len(Tile(start, y)) = len
        /\ DOMAIN Tile(start, y) = 1..len
        /\ \A j \in 1..len : Tile(start, y)[j] = start + j
    BY <1>3, <1>5, TileIs
  <2>2. chunk = Tile(start, y)
    BY <1>4
  <2> HIDE DEF chunk
  <2>q. QED
    BY <2>1, <2>2
<1>7. Range(chunk) = (start + 1)..y
  <2> HIDE DEF chunk
  <2>1. \A i \in (start + 1)..y : i - start \in 1..len /\ start + (i - start) = i
    BY <1>3, <1>5
  <2>2. \A j \in 1..len : start + j \in (start + 1)..y
    BY <1>3, <1>5
  <2>q. QED
    BY <1>6, <2>1, <2>2 DEF Range
<1>8. /\ allowed \in Seq(SUBSET AtomIds) /\ Len(allowed) = len /\ DOMAIN allowed = 1..len
      /\ \A j \in 1..len : allowed[j] = shown[start + j]
  <2>1. allowed = SubSeq(shown, start + 1, start + Len(chunk))
    BY DEF Allowed
  <2>2. start + Len(chunk) = y
    BY <1>3, <1>5, <1>6
  <2>3. allowed = SubSeq(shown, start + 1, y)
    BY <2>1, <2>2
  <2> HIDE DEF allowed
  <2>4. (IF start + 1 <= y THEN y - (start + 1) + 1 ELSE 0) = len
    BY <1>3, <1>5
  <2>5. start + 1 \in 1..(Len(shown) + 1) /\ y \in 0..Len(shown)
    BY <1>3, <1>5
  <2> DEFINE sub == SubSeq(shown, start + 1, y)
  <2>6. sub \in Seq(SUBSET AtomIds) /\ Len(sub) = len
    BY <1>3, <2>4, <2>5, SubSeqProperties
  <2>7. \A j \in 1..len : sub[j] = shown[start + j]
    <3>1. \A j \in 1..len : sub[j] = shown[(start + 1) + j - 1]
      BY <1>3, <2>4, <2>5, SubSeqProperties
    <3>2. \A j \in 1..len : (start + 1) + j - 1 = start + j
      BY <1>3
    <3>q. QED
      BY <3>1, <3>2
  <2> HIDE DEF sub
  <2>q. QED
    BY <2>3, <2>6, <2>7 DEF sub
<1> DEFINE entries == Read(text, len)
           parsed == ParsedBatch(text, allowed)
<1>9. entries \in Seq(Entries)
  BY EntriesRead
<1>10. /\ parsed \in [1..len -> Outcomes]
       /\ \A j \in 1..len : IsFirst(parsed[j], entries, Usable(entries, TRUE, j, allowed[j]))
  <2> HIDE DEF allowed
  <2>1. Read(text, Len(allowed)) = entries
    BY <1>8
  <2> HIDE DEF entries
  <2>2. /\ ParsedBatch(text, allowed) \in [DOMAIN allowed -> Outcomes]
        /\ \A i \in DOMAIN allowed :
              IsFirst(ParsedBatch(text, allowed)[i], Read(text, Len(allowed)),
                      Usable(Read(text, Len(allowed)), TRUE, i, allowed[i]))
    BY <1>8, <1>9, <2>1, BatchIsFirst
  <2>q. QED
    BY <1>8, <2>1, <2>2
<1> HIDE DEF parsed, allowed, entries
<1>11. /\ decisions' = [i \in 1..N |-> IF i \in (start + 1)..y THEN parsed[i - start]
                                                             ELSE decisions[i]]
       /\ retries' = LeftOpen(parsed)
       /\ said' = [i \in 1..N |-> IF i \in (start + 1)..y THEN Answer(chunk, TRUE, entries, {})
                                                          ELSE said[i]]
       /\ start' = y
  <2>1. start + len = y
    BY <1>3, <1>5
  <2>2. /\ decisions' = [i \in DOMAIN decisions |->
                              IF i \in (start + 1)..(start + Len(chunk))
                                THEN parsed[i - start] ELSE decisions[i]]
        /\ retries' = LeftOpen(parsed)
        /\ said' = [i \in DOMAIN said |->
                         IF i \in Range(chunk)
                           THEN Answer(chunk, TRUE, Read(text, Len(chunk)), {}) ELSE said[i]]
        /\ start' = start + Len(chunk)
    BY <1>2 DEF parsed, allowed
  <2>3. entries = Read(text, Len(chunk))
    BY <1>6 DEF entries
  <2> HIDE DEF chunk, len
  <2>q. QED
    BY <1>3, <1>6, <1>7, <2>1, <2>2, <2>3
<1> DEFINE a == Answer(chunk, TRUE, entries, {})
<1>12. a \in Answers /\ a.about = chunk /\ a.numbered = TRUE /\ a.entries = entries
       /\ a.without = {}
  BY <1>6, <1>9 DEF Answer, Answers
<1> HIDE DEF a, chunk, N
<1>13. \A i \in (start + 1)..y : /\ i - start \in 1..len /\ start + (i - start) = i
                                 /\ i \in 1..N
  BY <1>3, <1>5
<1> HIDE DEF len
<1>14. /\ LeftOpen(parsed) \in Seq(1..N)
       /\ \A i \in (start + 1)..y : parsed[i - start] = Undecided => i \in Range(LeftOpen(parsed))
  <2>1. /\ LeftOpen(parsed) \in Seq((start + 1)..(start + len))
        /\ \A j \in 1..len : parsed[j] = Undecided => start + j \in Range(LeftOpen(parsed))
    BY <1>3, <1>5, <1>10, LeftOpenHas
  <2>2. (start + 1)..(start + len) \subseteq 1..N
    BY <1>3, <1>5 DEF len
  <2>3. LeftOpen(parsed) \in Seq(1..N)
    BY <2>1, <2>2, SeqMonotonic
  <2>q. QED
    BY <1>13, <2>1, <2>3
<1>15. decisions' \in Seq(Outcomes) /\ Len(decisions') = N
  <2>1. decisions' \in [1..N -> Outcomes]
    <3>1. \A i \in 1..N : decisions[i] \in Outcomes
      BY <1>3
    <3>2. \A i \in (start + 1)..y : parsed[i - start] \in Outcomes
      BY <1>10, <1>13
    <3>q. QED
      BY <1>11, <3>1, <3>2
  <2>q. QED
    BY <1>3, <2>1, FunctionIsSeq
<1>16. said' \in Seq(Answers) /\ Len(said') = N
  <2>1. said' \in [1..N -> Answers]
    <3>1. \A i \in 1..N : said[i] \in Answers
      BY <1>3
    <3>2. said' = [i \in 1..N |-> IF i \in (start + 1)..y THEN a ELSE said[i]]
      BY <1>11 DEF a
    <3>q. QED
      BY <1>12, <3>1, <3>2
  <2>q. QED
    BY <1>3, <2>1, FunctionIsSeq
<1>17. /\ chunks' \in Seq(Seq(1..N)) /\ \A k \in DOMAIN chunks' : chunks'[k] \in Seq(1..N)
       /\ \A k \in DOMAIN chunks' : k + 1 \in DOMAIN chunks /\ chunks'[k] = chunks[k + 1]
  <2> DEFINE Z == Seq(1..N)
  <2>1. chunks \in Seq(Z)
    BY <1>3
  <2> HIDE DEF Z
  <2>2. chunks' \in Seq(Z) /\ \A k \in DOMAIN chunks' : chunks'[k] \in Z
    BY <1>1, <2>1
  <2>3. \A k \in DOMAIN chunks' : k + 1 \in DOMAIN chunks /\ chunks'[k] = chunks[k + 1]
    BY <1>1, <2>1
  <2>q. QED
    BY <2>2, <2>3 DEF Z
<1>18. TypeInv'
  <2>1. TypeOK
    BY DEF IInv, TypeInv
  <2>2. start' \in 0..N
    BY <1>3, <1>5, <1>11
  <2>3. Len(candidates') = N /\ DOMAIN candidates' = 1..N
    BY <1>1, <1>3 DEF N
  <2>4. TypeOK'
    BY <1>1, <1>3, <1>11, <1>14, <1>15, <1>16, <1>17, <2>1, <2>2, <2>3 DEF TypeOK, Outcomes
  <2>q. QED
    BY <1>16, <1>17, <2>3, <2>4 DEF TypeInv
<1>19. Deciding'
  BY <1>1, <1>3, <1>15 DEF Deciding, N
<1>20. PhaseInv'
  BY <1>1, <1>19 DEF IInv, PhaseInv
<1>21. BatchInv'
  <2>1. /\ set.batch > 1 /\ Len(candidates) > 1
        /\ \A k \in DOMAIN chunks : Within(chunks[k], set, shown)
    BY <1>1, <1>3 DEF IInv, BatchInv
  <2>2. Tiles(chunks', start', Len(candidates'))
    BY <1>1, <1>4, <1>11 DEF N
  <2>3. \A k \in DOMAIN chunks' : Within(chunks'[k], set', shown')
    BY <1>1, <1>17, <2>1
  <2>q. QED
    BY <1>1, <2>1, <2>2, <2>3 DEF BatchInv
<1>22. DecisionInv'
  <2>1. ASSUME NEW i \in 1..N
        PROVE  \/ Fits(decisions'[i], shown'[i])
               \/ /\ decisions'[i] = Undecided
                  /\ i \in Range(retries') \/ (chunks' # <<>> /\ i > start')
    <3>1. CASE i \in (start + 1)..y
      <4>1. decisions'[i] = parsed[i - start] /\ i - start \in 1..len
            /\ allowed[i - start] = shown[i]
        BY <1>8, <1>11, <1>13, <3>1
      <4>2. /\ IsFirst(parsed[i - start], entries, Usable(entries, TRUE, i - start, shown[i]))
            /\ shown[i] \in SUBSET AtomIds
        <5>1. IsFirst(parsed[i - start], entries,
                      Usable(entries, TRUE, i - start, allowed[i - start]))
          BY <1>10, <4>1
        <5>2. shown[i] \in SUBSET AtomIds
          BY <1>3 DEF N
        <5>q. QED
          BY <4>1, <5>1, <5>2
      <4>3. parsed[i - start] = Undecided \/ Fits(parsed[i - start], shown[i])
        BY <1>9, <4>2, FirstFits
      <4>q. QED
        BY <1>1, <1>11, <1>14, <3>1, <4>1, <4>3
    <3>2. CASE i \notin (start + 1)..y
      <4>1. decisions'[i] = decisions[i]
        BY <1>11, <3>2
      <4>2. \/ Fits(decisions[i], shown[i])
            \/ /\ decisions[i] = Undecided
               /\ i \in Range(retries) \/ (chunks # <<>> /\ i > start)
        BY <1>3 DEF IInv, DecisionInv
      <4>3. i \notin Range(retries)
        BY <1>1 DEF Range
      <4>4. i > start => i > y
        BY <1>3, <1>5, <3>2
      <4>5. i > y => chunks' # <<>>
        <5>1. chunks' = <<>> => y = N
          BY <1>1, <1>4, TilesEmpty
        <5>q. QED
          BY <1>3, <1>5, <5>1
      <4>q. QED
        BY <1>1, <1>11, <4>1, <4>2, <4>3, <4>4, <4>5
    <3>q. QED
      BY <3>1, <3>2
  <2>2. DOMAIN decisions' = 1..N
    BY <1>11
  <2>q. QED
    BY <2>1, <2>2 DEF DecisionInv
<1>23. SettledInv'
  <2>1. ~(settled > 0)
    BY <1>1 DEF IInv, SettledInv
  <2>q. QED
    BY <1>1, <1>3, <2>1 DEF SettledInv
<1>24. SaidInv'
  <2>1. ASSUME NEW i \in 1..N
        PROVE  IsAnswered(said'[i], i, decisions'[i], shown'[i])
    <3>1. CASE i \in (start + 1)..y
      <4> DEFINE n == i - start
      <4>1. decisions'[i] = parsed[n] /\ n \in 1..len /\ start + n = i /\ said'[i] = a
            /\ allowed[n] = shown[i]
        BY <1>8, <1>11, <1>13, <3>1 DEF a
      <4>2. n \in DOMAIN a.about /\ \A m \in DOMAIN a.about : a.about[m] = i <=> m = n
        <5>1. \A m \in 1..len : start + m = i <=> m = n
          <6>1. i \in Int /\ start \in Int /\ len \in Int
            BY <1>3, <1>5, <3>1 DEF len
          <6>q. QED
            BY <6>1
        <5>q. QED
          BY <1>6, <1>12, <4>1, <5>1
      <4> HIDE DEF n
      <4>3. shown[i] \ {} = shown[i]
        BY <1>3 DEF N
      <4>4. IsFirst(parsed[n], entries, Usable(entries, TRUE, n, allowed[n]))
        BY <1>10, <4>1
      <4>5. IsFirst(parsed[n], a.entries, Usable(a.entries, a.numbered, n, shown[i] \ a.without))
        BY <1>12, <4>1, <4>3, <4>4, Zenon
      <4>6. IsAnswered(a, i, parsed[n], shown[i])
        BY <4>2, <4>5, Zenon DEF IsAnswered
      <4>q. QED
        BY <1>1, <4>1, <4>6
    <3>2. CASE i \notin (start + 1)..y
      <4>1. decisions'[i] = decisions[i] /\ said'[i] = said[i]
        BY <1>11, <3>2
      <4>2. IsAnswered(said[i], i, decisions[i], shown[i])
        BY <1>3 DEF IInv, SaidInv
      <4>q. QED
        BY <1>1, <4>1, <4>2
    <3>q. QED
      BY <3>1, <3>2
  <2>2. DOMAIN said' = 1..N
    BY <1>11
  <2>q. QED
    BY <2>1, <2>2 DEF SaidInv
<1>q. QED
  BY <1>18, <1>20, <1>21, <1>22, <1>23, <1>24 DEF IInv

\* Before the next decision is settled there is one for every candidate.
LEMMA AllDecided ==
  ASSUME IInv, Deciding, retries = <<>>, chunks = <<>>
  PROVE  \A i \in DOMAIN decisions : Fits(decisions[i], shown[i])
<1>1. \A i : i \notin Range(retries)
  BY DEF Range
<1>q. QED
  BY <1>1 DEF IInv, DecisionInv

LEMMA ReconcilingFacts ==
  ASSUME IInv, Reconciling
  PROVE  /\ pc = "decide" /\ retries = <<>> /\ chunks = <<>> /\ Deciding
         /\ candidates \in Seq(AtomIds) /\ shown \in Seq(SUBSET AtomIds)
         /\ DOMAIN candidates = DOMAIN decisions /\ DOMAIN shown = DOMAIN decisions
         /\ settled \in Nat /\ settled + 1 \in DOMAIN decisions
         /\ settled + 1 \in 0..Len(candidates)
         /\ \A j \in 1..settled : j \in DOMAIN decisions
         /\ consumed \in SUBSET AtomIds
         /\ \A i \in DOMAIN decisions : Fits(decisions[i], shown[i])
<1>1. pc = "decide" /\ retries = <<>> /\ chunks = <<>> /\ settled < Len(candidates)
  BY DEF Reconciling
<1>2. /\ Deciding /\ candidates \in Seq(AtomIds) /\ shown \in Seq(SUBSET AtomIds)
      /\ decisions \in Seq(Outcomes) /\ settled \in 0..Len(candidates) /\ consumed \subseteq AtomIds
  BY <1>1 DEF IInv, TypeInv, TypeOK, PhaseInv, Outcomes
<1>3. /\ DOMAIN candidates = DOMAIN decisions /\ DOMAIN shown = DOMAIN decisions
      /\ DOMAIN decisions = 1..Len(candidates) /\ Len(candidates) \in Nat
  BY <1>2 DEF Deciding
<1>4. \A i \in DOMAIN decisions : Fits(decisions[i], shown[i])
  BY <1>1, <1>2, AllDecided
<1>q. QED
  BY <1>1, <1>2, <1>3, <1>4

LEMMA SettleInv == IInv /\ Settle => IInv'
<1> SUFFICES ASSUME IInv, Settle
             PROVE  IInv'
  OBVIOUS
<1> DEFINE i == settled + 1
           d == decisions[i]
<1>1. /\ Reconciling
      /\ ~Claimed(d)
      /\ consumed' = consumed \cup ConsumedBy(d, candidates[i])
      /\ settled' = i
      /\ set' = set /\ pc' = pc /\ reply' = reply /\ candidates' = candidates
      /\ shown' = shown /\ decisions' = decisions /\ chunks' = chunks /\ start' = start
      /\ retries' = retries /\ said' = said
  BY DEF Settle
<1>2. /\ pc = "decide" /\ retries = <<>> /\ chunks = <<>> /\ Deciding
      /\ shown \in Seq(SUBSET AtomIds) /\ DOMAIN shown = DOMAIN decisions
      /\ settled \in Nat /\ i \in DOMAIN decisions /\ i \in 0..Len(candidates)
      /\ consumed \in SUBSET AtomIds
  BY <1>1, ReconcilingFacts
<1>3. Fits(d, shown[i])
  BY <1>1, <1>2, ReconcilingFacts
<1>4. d.targets \subseteq AtomIds /\ (d.targets \cap consumed # {} => FALSE)
  <2>1. shown[i] \in SUBSET AtomIds /\ d.targets \subseteq shown[i]
    BY <1>2, <1>3 DEF Fits
  <2>2. d.action \in Actions /\ (d.action \in {"store", "skip"} => d.targets = {})
    BY <1>3 DEF Fits, Decision
  <2>3. d.action \in {"update", "merge"} => d.targets \cap consumed = {}
    BY <1>1 DEF Claimed
  <2>q. QED
    BY <2>1, <2>2, <2>3 DEF Actions
<1>5. ConsumedBy(d, candidates[i]) \subseteq AtomIds
  BY <1>4 DEF ConsumedBy
<1>6. TypeInv'
  <2>1. consumed' \subseteq AtomIds
    BY <1>1, <1>2, <1>5
  <2>q. QED
    BY <1>1, <1>2, <2>1 DEF IInv, TypeInv, TypeOK
<1>7. PhaseInv'
  <2>1. Deciding'
    BY <1>1, <1>2 DEF Deciding
  <2>q. QED
    BY <1>1, <1>2, <2>1 DEF IInv, PhaseInv
<1>8. BatchInv' /\ DecisionInv' /\ SaidInv'
  BY <1>1, <1>2 DEF IInv, BatchInv, DecisionInv, SaidInv, Deciding
<1>9. SettledInv'
  <2> HIDE DEF d
  <2>1. \A j \in 1..settled :
          /\ ConsumedBy(decisions[j], candidates[j]) \subseteq consumed
          /\ \A k \in 1..(j - 1) :
               ConsumedBy(decisions[k], candidates[k]) \cap decisions[j].targets = {}
    BY DEF IInv, SettledInv
  <2>2. \A k \in 1..settled : ConsumedBy(decisions[k], candidates[k]) \cap d.targets = {}
    BY <1>4, <2>1
  <2>3. ASSUME NEW j \in 1..settled'
        PROVE  /\ ConsumedBy(decisions'[j], candidates'[j]) \subseteq consumed'
               /\ \A k \in 1..(j - 1) :
                    ConsumedBy(decisions'[k], candidates'[k]) \cap decisions'[j].targets = {}
    <3>1. CASE j = i
      <4>1. j - 1 = settled /\ decisions'[j] = d
        BY <1>1, <1>2, <3>1 DEF d
      <4>q. QED
        BY <1>1, <2>2, <3>1, <4>1
    <3>2. CASE j # i
      <4>1. j \in 1..settled
        BY <1>1, <1>2, <3>2
      <4>q. QED
        BY <1>1, <2>1, <4>1
    <3>q. QED
      BY <3>1, <3>2
  <2>q. QED
    BY <1>1, <1>2, <2>3 DEF SettledInv
<1>q. QED
  BY <1>6, <1>7, <1>8, <1>9 DEF IInv

LEMMA ReplanInv == IInv /\ Replan => IInv'
<1> SUFFICES ASSUME IInv, Replan
             PROVE  IInv'
  OBVIOUS
<1> DEFINE i == settled + 1
           nbs == shown[i] \ consumed
<1>1. Reconciling /\ set' = set /\ reply' = reply
  BY DEF Replan
<1>2. /\ pc = "decide" /\ retries = <<>> /\ chunks = <<>> /\ Deciding
      /\ shown \in Seq(SUBSET AtomIds) /\ DOMAIN shown = DOMAIN decisions
      /\ settled \in Nat /\ i \in DOMAIN decisions /\ i \in 0..Len(candidates)
      /\ consumed \in SUBSET AtomIds
      /\ \A j \in 1..settled : j \in DOMAIN decisions
  BY <1>1, ReconcilingFacts
<1>3. nbs \in SUBSET AtomIds
  BY <1>2
<1>4. PICK e \in Entries :
        LET decision == ParsedSingle(e, nbs)
        IN IF decision = Undecided THEN Throw
           ELSE /\ decisions' = [decisions EXCEPT ![i] = decision]
                /\ said' = [said EXCEPT ![i] = Answer(<<i>>, FALSE, <<e>>, consumed)]
                /\ consumed' = consumed \cup ConsumedBy(decision, candidates[i])
                /\ settled' = i
                /\ UNCHANGED <<pc, candidates, shown, chunks, start, retries>>
  BY Zenon DEF Replan
<1>5. CASE ParsedSingle(e, nbs) = Undecided
  BY <1>1, <1>4, <1>5, ThrowInv
<1>6. CASE ParsedSingle(e, nbs) # Undecided
  <2> DEFINE d == Decided(e)
  <2>1. ValidEntry(e, nbs) /\ ParsedSingle(e, nbs) = d /\ Fits(d, nbs)
    BY <1>3, <1>6, SingleFits
  <2>2. /\ decisions' = [decisions EXCEPT ![i] = d]
        /\ said' = [said EXCEPT ![i] = Answer(<<i>>, FALSE, <<e>>, consumed)]
        /\ consumed' = consumed \cup ConsumedBy(d, candidates[i])
        /\ settled' = i
        /\ pc' = pc /\ candidates' = candidates /\ shown' = shown /\ chunks' = chunks
        /\ start' = start /\ retries' = retries
    BY <1>4, <1>6, <2>1
  <2>3. /\ SaidInv'
        /\ decisions' \in Seq(Outcomes) /\ Len(decisions') = Len(decisions)
        /\ said' \in Seq(Answers) /\ Len(said') = Len(said)
        /\ Fits(decisions'[i], shown[i])
        /\ \A j \in DOMAIN decisions : j # i => decisions'[j] = decisions[j]
    <3> HIDE DEF i, d
    <3>1. ValidEntry(e, shown[i] \ consumed)
      BY <2>1
    <3>2. decisions' = [decisions EXCEPT ![i] = Decided(e)]
      BY <2>2 DEF d
    <3>q. QED
      BY <1>2, <2>2, <3>1, <3>2, OneSaid
  <2>4. d.targets \cap consumed = {} /\ d.targets \subseteq AtomIds
    BY <1>3, <2>1 DEF Fits
  <2>5. decisions'[i] = d /\ DOMAIN decisions' = DOMAIN decisions
    <3>1. decisions \in Seq(Outcomes)
      BY DEF IInv, TypeInv, TypeOK, Outcomes
    <3>q. QED
      BY <1>2, <2>2, <3>1
  <2> HIDE DEF d
  <2>6. TypeInv'
    <3>1. consumed' \subseteq AtomIds
      BY <1>2, <2>2, <2>4 DEF ConsumedBy
    <3>q. QED
      BY <1>1, <1>2, <2>2, <2>3, <3>1 DEF IInv, TypeInv, TypeOK, Outcomes
  <2>7. PhaseInv'
    <3>1. Deciding'
      BY <1>2, <2>2, <2>3 DEF Deciding
    <3>q. QED
      BY <1>1, <1>2, <2>2, <3>1 DEF IInv, PhaseInv
  <2>8. BatchInv'
    BY <1>1, <1>2, <2>2 DEF IInv, BatchInv
  <2>9. DecisionInv'
    <3>1. \A j \in DOMAIN decisions : Fits(decisions[j], shown[j])
      BY <1>1, ReconcilingFacts
    <3>2. \A j \in DOMAIN decisions' : Fits(decisions'[j], shown'[j])
      BY <2>2, <2>3, <2>5, <3>1
    <3>q. QED
      BY <3>2 DEF DecisionInv
  <2>10. SettledInv'
    <3>1. \A j \in 1..settled :
            /\ ConsumedBy(decisions[j], candidates[j]) \subseteq consumed
            /\ \A k \in 1..(j - 1) :
                 ConsumedBy(decisions[k], candidates[k]) \cap decisions[j].targets = {}
      BY DEF IInv, SettledInv
    <3>2. \A k \in 1..settled : ConsumedBy(decisions[k], candidates[k]) \cap d.targets = {}
      BY <2>4, <3>1
    <3>3. \A k \in 1..settled : decisions'[k] = decisions[k] /\ k # i
      BY <1>2, <2>3
    <3>4. ASSUME NEW j \in 1..settled'
          PROVE  /\ ConsumedBy(decisions'[j], candidates'[j]) \subseteq consumed'
                 /\ \A k \in 1..(j - 1) :
                      ConsumedBy(decisions'[k], candidates'[k]) \cap decisions'[j].targets = {}
      <4>1. CASE j = i
        <5>1. j - 1 = settled /\ decisions'[j] = d
          BY <1>2, <2>5, <4>1
        <5>q. QED
          BY <2>2, <3>2, <3>3, <4>1, <5>1
      <4>2. CASE j # i
        <5>1. j \in 1..settled /\ \A k \in 1..(j - 1) : k \in 1..settled
          BY <1>2, <2>2, <4>2
        <5>q. QED
          BY <2>2, <3>1, <3>3, <5>1
      <4>q. QED
        BY <4>1, <4>2
    <3>q. QED
      BY <1>2, <2>2, <3>4 DEF SettledInv
  <2>q. QED
    BY <2>3, <2>6, <2>7, <2>8, <2>9, <2>10 DEF IInv
<1>q. QED
  BY <1>5, <1>6

LEMMA PlanInv == IInv /\ Plan => IInv'
<1> SUFFICES ASSUME IInv, Plan
             PROVE  IInv'
  OBVIOUS
<1>1. /\ pc = "decide" /\ retries = <<>> /\ chunks = <<>> /\ settled = Len(candidates)
      /\ pc' = "planned"
      /\ set' = set /\ reply' = reply /\ candidates' = candidates /\ shown' = shown
      /\ decisions' = decisions /\ chunks' = chunks /\ start' = start
      /\ retries' = retries /\ settled' = settled /\ consumed' = consumed /\ said' = said
  BY DEF Plan
<1>2. TypeInv'
  BY <1>1 DEF IInv, TypeInv, TypeOK
<1>3. PhaseInv'
  <2>1. Deciding
    BY <1>1 DEF IInv, PhaseInv
  <2>2. Deciding'
    BY <1>1, <2>1 DEF Deciding
  <2>q. QED
    BY <1>1, <2>2 DEF IInv, PhaseInv
<1>4. BatchInv' /\ DecisionInv' /\ SettledInv' /\ SaidInv'
  BY <1>1 DEF IInv, BatchInv, DecisionInv, SettledInv, SaidInv, Deciding
<1>q. QED
  BY <1>2, <1>3, <1>4 DEF IInv

LEMMA NextInv == IInv /\ [Next]_vars => IInv'
<1> SUFFICES ASSUME IInv, [Next]_vars
             PROVE  IInv'
  OBVIOUS
<1>1. CASE Extract
  BY <1>1, ExtractInv
<1>2. CASE Retrieve
  BY <1>2, RetrieveInv
<1>3. CASE DecideBatch
  BY <1>3, DecideBatchInv
<1>4. CASE DecideAlone
  BY <1>4, DecideAloneInv
<1>5. CASE Settle
  BY <1>5, SettleInv
<1>6. CASE Replan
  BY <1>6, ReplanInv
<1>7. CASE Plan
  BY <1>7, PlanInv
<1>8. CASE CallFails
  <2>1. Throw /\ set' = set
    BY <1>8 DEF CallFails
  <2>q. QED
    BY <2>1, ThrowInv
<1>9. CASE UNCHANGED vars
  <2>1. /\ set' = set /\ pc' = pc /\ reply' = reply /\ candidates' = candidates
        /\ shown' = shown /\ decisions' = decisions /\ chunks' = chunks /\ start' = start
        /\ retries' = retries /\ settled' = settled /\ consumed' = consumed /\ said' = said
    BY <1>9 DEF vars
  <2>2. TypeInv'
    BY <2>1 DEF IInv, TypeInv, TypeOK
  <2>3. PhaseInv'
    BY <2>1 DEF IInv, PhaseInv, Untouched, Deciding
  <2>4. BatchInv' /\ DecisionInv' /\ SettledInv' /\ SaidInv'
    BY <2>1 DEF IInv, BatchInv, DecisionInv, SettledInv, SaidInv, Deciding
  <2>q. QED
    BY <2>2, <2>3, <2>4 DEF IInv
<1>q. QED
  BY <1>1, <1>2, <1>3, <1>4, <1>5, <1>6, <1>7, <1>8, <1>9 DEF Next

LEMMA Invariance == Spec => []IInv
<1>1. IInv /\ [Next]_vars => IInv'
  BY NextInv
<1>q. QED
  BY InitInv, <1>1, PTL DEF Spec

-----------------------------------------------------------------------------
\* The theorems.

\* A pass in the making is well-formed: the program's distillOncePass keeps one
\* decision and one answer for every candidate, whatever the replies are.
THEOREM PlanTypeCorrect == Spec => []TypeOK
<1>1. IInv => TypeOK
  BY DEF IInv, TypeInv
<1>q. QED
  BY <1>1, Invariance, PTL

\* A plan that is carried out is sound: every candidate has a decision, whose targets
\* are as many as its action takes, were shown with that candidate and are not what an
\* earlier decision takes out of service.
THEOREM ThePlanIsSound == Spec => []PlanIsSound
<1>1. ASSUME IInv
      PROVE  PlanIsSound
  <2> SUFFICES ASSUME pc = "planned"
               PROVE  PlanIsSound
    BY DEF PlanIsSound
  <2>1. /\ Deciding /\ settled = Len(candidates) /\ retries = <<>> /\ chunks = <<>>
        /\ decisions \in Seq(Outcomes)
    BY <1>1 DEF IInv, PhaseInv, TypeInv, TypeOK, Outcomes
  <2>2. Len(decisions) = Len(candidates) /\ DOMAIN decisions = 1..settled
    BY <2>1 DEF Deciding
  <2>3. \A i \in DOMAIN decisions : Fits(decisions[i], shown[i])
    BY <1>1, <2>1, AllDecided
  <2>4. ASSUME NEW i \in DOMAIN decisions
        PROVE  LET d == decisions[i]
               IN /\ d.targets \subseteq shown[i]
                  /\ CASE d.action \in {"store", "skip"} -> d.targets = {}
                       [] d.action = "update" -> Cardinality(d.targets) = 1
                       [] d.action = "merge" -> Cardinality(d.targets) >= 2
                       [] OTHER -> FALSE
                  /\ \A j \in 1..(i - 1) :
                       ConsumedBy(decisions[j], candidates[j]) \cap d.targets = {}
    <3> DEFINE d == decisions[i]
    <3>1. Fits(d, shown[i])
      BY <2>3
    <3>2. \A j \in 1..(i - 1) : ConsumedBy(decisions[j], candidates[j]) \cap d.targets = {}
      BY <1>1, <2>2 DEF IInv, SettledInv
    <3> HIDE DEF d
    <3>3. d.targets \subseteq shown[i] /\ d.action \in {"store", "update", "merge", "skip"}
      <4>1. d \in Decision /\ d.targets \subseteq shown[i]
        BY <3>1 DEF Fits
      <4>2. d.action \in Actions
        BY <4>1 DEF Decision
      <4>q. QED
        BY <4>1, <4>2 DEF Actions
    <3>4. (CASE d.action \in {"store", "skip"} -> d.targets = {}
             [] d.action = "update" -> Cardinality(d.targets) = 1
             [] d.action = "merge" -> Cardinality(d.targets) >= 2
             [] OTHER -> FALSE)
      BY <3>1, <3>3 DEF Fits
    <3>q. QED
      BY <3>2, <3>3, <3>4 DEF d
  <2>q. QED
    BY <2>2, <2>4, Zenon DEF PlanIsSound
<1>q. QED
  BY <1>1, Invariance, PTL

\* No candidate gets the decision of another, or one that no reply gave it: what stands
\* is the first usable entry of the last reply about it, under the number it had there.
THEOREM EveryDecisionIsTheModels == Spec => []DecisionsAreTheModels
<1>1. ASSUME IInv
      PROVE  DecisionsAreTheModels
  <2>1. ASSUME NEW i \in DOMAIN said, said[i].about # <<>>
        PROVE  LET n == CHOOSE n \in DOMAIN said[i].about : said[i].about[n] = i
                   entries == said[i].entries
                   usable == {k \in DOMAIN entries :
                                /\ said[i].numbered => entries[k].candidate = n
                                /\ ValidEntry(entries[k], shown[i] \ said[i].without)}
               IN IF usable = {} THEN decisions[i] = Undecided
                  ELSE \E k \in usable : /\ \A j \in usable : k <= j
                                         /\ decisions[i] = Decided(entries[k])
    <3> DEFINE a == said[i]
               nbs == shown[i] \ a.without
               n == CHOOSE n \in DOMAIN a.about : a.about[n] = i
    <3>1. IsAnswered(a, i, decisions[i], shown[i])
      BY <1>1 DEF IInv, SaidInv
    <3>2. PICK m \in DOMAIN a.about :
            /\ \A l \in DOMAIN a.about : a.about[l] = i <=> l = m
            /\ IsFirst(decisions[i], a.entries, Usable(a.entries, a.numbered, m, nbs))
      BY <2>1, <3>1, Zenon DEF IsAnswered
    <3>3. n = m
      BY <3>2
    <3>4. IsFirst(decisions[i], a.entries, Usable(a.entries, a.numbered, n, nbs))
      BY <3>2, <3>3
    <3>q. QED
      BY <3>4, Zenon DEF IsFirst, Usable
  <2>q. QED
    BY <2>1, Zenon DEF DecisionsAreTheModels
<1>q. QED
  BY <1>1, Invariance, PTL

\* No candidate gets lost: those that are decided on are all the objects of the reply,
\* the batches still to be asked about are those not asked about yet, in order, and no
\* batch of several is over the limits, whatever the limits and the prompts' lengths.
THEOREM NoCandidateIsLost == Spec => []NothingDropped
<1>1. ASSUME IInv
      PROVE  NothingDropped
  <2> SUFFICES ASSUME pc \in {"decide", "planned"}
               PROVE  NothingDropped
    BY DEF NothingDropped
  <2>1. /\ Deciding /\ candidates = Kept(reply.items, Objects)
        /\ start \in Nat /\ Len(candidates) \in Nat
    BY <1>1 DEF IInv, PhaseInv, TypeInv, TypeOK
  <2>2. ASSUME set.batch > 1, Len(candidates) > 1
        PROVE  FlattenSeq(chunks) = [k \in 1..(Len(candidates) - start) |-> start + k]
    <3>1. Tiles(chunks, start, Len(candidates))
      BY <1>1, <2>1, <2>2 DEF IInv, BatchInv
    <3>2. FlattenSeq(chunks) = Tile(start, Len(candidates))
      BY <2>1, <3>1, TilesFlat
    <3>q. QED
      BY <3>2 DEF Tile
  <2>3. \A k \in DOMAIN chunks : Within(chunks[k], set, shown)
    BY <1>1, <2>1 DEF IInv, BatchInv
  <2>q. QED
    BY <2>1, <2>2, <2>3 DEF NothingDropped, Within
<1>q. QED
  BY <1>1, Invariance, PTL
-----------------------------------------------------------------------------
\* What DistillPass sees of a pass in the making.

LEMMA KeptShort ==
  ASSUME NEW U, NEW seq \in Seq(U), NEW S
  PROVE  Len(Kept(seq, S)) <= Len(seq)
<1> DEFINE n == Len(seq)
<1>1. n \in Nat /\ DOMAIN seq = 1..n /\ \A i \in 1..n : seq[i] \in U
  OBVIOUS
<1>2. PICK f \in [0..Len(seq) -> Seq(U)] : KeptBy(f, seq, S)
  BY KeptIs
<1>3. /\ f[0] = <<>> /\ f \in [0..n -> Seq(U)]
      /\ \A i \in 1..n : f[i] = KeepNext(seq, S, i, f[i - 1])
      /\ Kept(seq, S) = f[n]
  BY <1>2 DEF KeptBy
<1> HIDE DEF n
<1> DEFINE T == {i \in 0..n : Len(f[i]) <= i}
<1>4. 0 \in T
  BY <1>1, <1>3
<1>5. ASSUME NEW i \in 1..n, i - 1 \in T
      PROVE  i \in T
  <2> DEFINE old == f[i - 1]  new == f[i]
  <2>1. /\ old \in Seq(U) /\ new \in {old, Append(old, seq[i])} /\ seq[i] \in U
        /\ Len(old) <= i - 1
    BY <1>1, <1>3, <1>5 DEF KeepNext
  <2> HIDE DEF old, new
  <2>2. Len(new) <= i
    BY <2>1
  <2>q. QED
    BY <2>2 DEF new
<1> HIDE DEF T
<1>6. 0..n \subseteq T
  BY <1>1, <1>4, <1>5, UpTo
<1>7. n \in 0..n
  BY <1>1
<1>8. Len(f[n]) <= n
  BY <1>6, <1>7 DEF T
<1>q. QED
  BY <1>3, <1>8 DEF n

\* No more candidates than a reply has objects, and each looked up what a search finds.
SeenInv ==
  /\ Len(candidates) <= MaxCandidates
  /\ \A i \in DOMAIN shown : shown[i] \in Neighbours

LEMMA FewCandidates ==
  ASSUME NEW x \in Extractions, ParsedCandidates(x).ok
  PROVE  Len(ParsedCandidates(x).candidates) <= MaxCandidates
<1> DEFINE found == ParsedCandidates(x).candidates
<1>1. found \in Seq(AtomIds) /\ found = Kept(x.items, Objects)
  BY CandidatesAreObjects
<1>2. x.items \in Seq(AtomIds \cup {Nothing, Prose}) /\ Len(x.items) <= MaxCandidates
  BY Given, CandidatesAssumption, Zenon DEF CandidatesAssumption
<1> HIDE DEF found
<1>3. Len(found) <= Len(x.items)
  BY <1>1, <1>2, KeptShort
<1>q. QED
  BY <1>1, <1>2, <1>3, CandidatesAssumption DEF found

LEMMA SeenNext ==
  ASSUME IInv, SeenInv, [Next]_vars
  PROVE  SeenInv'
<1>1. CASE Extract
  <2>1. PICK x \in Extractions :
          IF ParsedCandidates(x).ok THEN Retrieved(ParsedCandidates(x).candidates, <<>>)
                                    ELSE Throw
    BY <1>1 DEF Extract
  <2>2. CASE ParsedCandidates(x).ok
    <3>1. candidates' = ParsedCandidates(x).candidates /\ shown' = <<>>
      BY <2>1, <2>2 DEF Retrieved
    <3>q. QED
      BY <2>2, <3>1, FewCandidates DEF SeenInv
  <2>3. CASE ~ParsedCandidates(x).ok
    BY <2>1, <2>3 DEF Throw, SeenInv
  <2>q. QED
    BY <2>2, <2>3
<1>2. CASE Retrieve
  <2>1. PICK nbs \in Neighbours : Retrieved(candidates, Append(shown, nbs))
    BY <1>2 DEF Retrieve
  <2>2. candidates' = candidates /\ shown' = Append(shown, nbs)
    BY <2>1 DEF Retrieved
  <2>3. shown \in Seq(SUBSET AtomIds) /\ nbs \in SUBSET AtomIds
    BY Given, Zenon DEF IInv, TypeInv, TypeOK
  <2>4. \A i \in DOMAIN Append(shown, nbs) :
          \/ i \in DOMAIN shown /\ Append(shown, nbs)[i] = shown[i]
          \/ Append(shown, nbs)[i] = nbs
    BY <2>3
  <2>q. QED
    BY <2>1, <2>2, <2>4 DEF SeenInv
<1>3. CASE candidates' = candidates /\ shown' = shown
  BY <1>3 DEF SeenInv
<1>4. DecideBatch \/ DecideAlone \/ Settle \/ Replan \/ Plan \/ CallFails \/ UNCHANGED vars
        => candidates' = candidates /\ shown' = shown
  BY DEF DecideBatch, DecideAlone, Settle, Replan, Plan, CallFails, Throw, vars
<1>q. QED
  BY <1>1, <1>2, <1>3, <1>4 DEF Next

LEMMA OneCardinality == \A S : Pass!Cardinality(S) = Cardinality(S)
BY DEF Pass!Cardinality, Cardinality

\* The atoms a search may find are the ones that are active for the pass.
LEMMA ActiveAreFound == Pass!Active = UNION Neighbours
<1>1. UNION Neighbours \subseteq AtomIds
  BY Given
<1>2. Pass!Atoms = AtomIds
  BY DEF Pass!Atoms
<1>3. \A a \in AtomIds : PassStatus[a] = "active" <=> a \in UNION Neighbours
  BY DEF PassStatus
<1>q. QED
  BY <1>1, <1>2, <1>3 DEF Pass!Active

\* A finished plan is one of those DistillPass lets a pass have.
PlannedInv ==
  pc = "planned" => \E n \in 0..MaxCandidates : PassPlan \in Pass!PlansOn(UNION Neighbours, n)

LEMMA APlanOfThePass == IInv /\ SeenInv /\ PlanIsSound => PlannedInv
<1> SUFFICES ASSUME IInv, SeenInv, PlanIsSound, pc = "planned"
             PROVE  \E n \in 0..MaxCandidates : PassPlan \in Pass!PlansOn(UNION Neighbours, n)
  BY DEF PlannedInv
<1> DEFINE n == Len(candidates)
           F == UNION Neighbours
<1>1. /\ n \in Nat /\ candidates \in Seq(AtomIds) /\ DOMAIN candidates = 1..n
      /\ decisions \in Seq(Outcomes) /\ DOMAIN decisions = 1..n /\ DOMAIN shown = 1..n
      /\ Deciding /\ retries = <<>> /\ chunks = <<>>
  <2>1. /\ candidates \in Seq(AtomIds) /\ decisions \in Seq(Outcomes)
        /\ shown \in Seq(SUBSET AtomIds)
        /\ Deciding /\ retries = <<>> /\ chunks = <<>>
    BY DEF IInv, PhaseInv, TypeInv, TypeOK, Outcomes
  <2>q. QED
    BY <2>1 DEF Deciding
<1>2. n \in 0..MaxCandidates
  BY <1>1, CandidatesAssumption DEF SeenInv
<1>3. \A i \in 1..n :
        Fits(decisions[i], shown[i]) /\ shown[i] \subseteq F /\ candidates[i] \in AtomIds
  <2>1. \A i \in 1..n : Fits(decisions[i], shown[i])
    BY <1>1, AllDecided
  <2>2. \A i \in 1..n : shown[i] \in Neighbours
    BY <1>1 DEF SeenInv
  <2>q. QED
    BY <1>1, <2>1, <2>2
<1> DEFINE op(i) == [action |-> decisions[i].action, new |-> candidates[i],
                     targets |-> decisions[i].targets]
<1>4. PassPlan = [i \in 1..n |-> op(i)]
  BY <1>1 DEF PassPlan
<1>5. ASSUME NEW i \in 1..n
      PROVE  op(i) \in Pass!OpsOn(F)
  <2> DEFINE d == decisions[i]
  <2>1. Fits(d, shown[i]) /\ shown[i] \subseteq F /\ candidates[i] \in AtomIds
    BY <1>3
  <2> HIDE DEF d, F
  <2>2. d.action \in {"store", "update", "merge", "skip"} /\ d.targets \in SUBSET F
    BY <2>1 DEF Fits, Decision, Actions
  <2> DEFINE o == [action |-> d.action, new |-> candidates[i], targets |-> d.targets]
  <2>3. /\ o \in [action : {"store", "update", "merge", "skip"}, new : AtomIds, targets : SUBSET F]
        /\ o.action = d.action /\ o.targets = d.targets
    BY <2>1, <2>2
  <2>4. /\ o.action \in {"store", "skip"} => o.targets = {}
        /\ o.action = "update" => Cardinality(o.targets) = 1
        /\ o.action = "merge" => Cardinality(o.targets) >= 2
        /\ o.action \in {"store", "update", "merge", "skip"}
    BY <2>1, <2>2, <2>3 DEF Fits
  <2> HIDE DEF o
  <2>5. (CASE o.action \in {"store", "skip"} -> o.targets = {}
           [] o.action = "update" -> Cardinality(o.targets) = 1
           [] o.action = "merge"  -> Cardinality(o.targets) >= 2)
    BY <2>4
  <2>6. o \in Pass!OpsOn(F)
    BY <2>3, <2>5, OneCardinality DEF Pass!OpsOn
  <2>q. QED
    BY <2>6 DEF d, o
<1>6. ASSUME NEW i \in 1..n
      PROVE  PassPlan[i].targets \cap Pass!ConsumedBefore(PassPlan, i) = {}
  <2>1. \A j \in 1..n : /\ PassPlan[j].targets = decisions[j].targets
                        /\ Pass!ConsumedBy(PassPlan[j]) = ConsumedBy(decisions[j], candidates[j])
    BY <1>4 DEF Pass!ConsumedBy, ConsumedBy
  <2>2. \A j \in 1..(i - 1) : j \in 1..n
    BY <1>1
  <2>3. \A j \in 1..(i - 1) :
          ConsumedBy(decisions[j], candidates[j]) \cap decisions[i].targets = {}
    BY <1>1 DEF PlanIsSound
  <2>q. QED
    BY <2>1, <2>2, <2>3 DEF Pass!ConsumedBefore
<1>7. PassPlan \in [1..n -> Pass!OpsOn(F)]
  BY <1>4, <1>5
<1>8. PassPlan \in Pass!PlansOn(F, n)
  BY <1>6, <1>7 DEF Pass!PlansOn
<1>q. QED
  BY <1>2, <1>8

LEMMA PlanningIsUnseen ==
  ASSUME pc \notin {"planned", "failed"}, pc' \notin {"planned", "failed"}
  PROVE  UNCHANGED <<PassPc, PassPlan>>
BY DEF PassPc, PassPlan

LEMMA ThrowIsPlanningFails ==
  ASSUME pc \notin {"planned", "failed"}, Throw
  PROVE  Pass!PlanningFails
<1>1. PassPc = "planning"
  BY DEF PassPc
<1>2. PassPc' = "idle" /\ PassPlan' = <<>>
  BY DEF Throw, PassPc, PassPlan
<1>q. QED
  BY <1>1, <1>2 DEF Pass!PlanningFails, Pass!Leave, Pass!NotNarrating, Pass!storeVars

LEMMA StepIsOfThePass ==
  ASSUME PlannedInv', [Next]_vars
  PROVE  [Pass!Plan \/ Pass!PlanningFails]_<<PassPc, PassPlan>>
<1>1. CASE Plan
  <2>1. PassPc = "planning" /\ PassPc' = "planned" /\ pc' = "planned"
    BY <1>1 DEF Plan, PassPc
  <2>2. \E n \in 0..MaxCandidates : PassPlan' \in Pass!PlansOn(Pass!Active, n)
    BY <2>1, ActiveAreFound DEF PlannedInv
  <2>q. QED
    BY <2>1, <2>2 DEF Pass!Plan, Pass!storeVars
<1>2. CASE pc \notin {"planned", "failed"} /\ pc' \notin {"planned", "failed"}
  BY <1>2, PlanningIsUnseen
<1>3. CASE pc \notin {"planned", "failed"} /\ Throw
  BY <1>3, ThrowIsPlanningFails
<1>4. CASE UNCHANGED vars
  BY <1>4 DEF vars, PassPc, PassPlan
<1>5. Next /\ ~Plan => /\ pc \notin {"planned", "failed"}
                       /\ pc' \in {"retrieve", "decide"} \/ Throw \/ pc' = pc
  <2>1. Extract \/ Retrieve =>
          pc \in {"extract", "retrieve"} /\ (pc' \in {"retrieve", "decide"} \/ Throw)
    BY DEF Extract, Retrieve, Retrieved
  <2>2. DecideBatch \/ DecideAlone \/ Settle \/ Replan => pc = "decide" /\ (pc' = pc \/ Throw)
    BY DEF DecideBatch, DecideAlone, Settle, Replan, Reconciling
  <2>3. CallFails => pc \in {"extract", "retrieve", "decide"} /\ Throw
    BY DEF CallFails, Reconciling
  <2>q. QED
    BY <2>1, <2>2, <2>3 DEF Next
<1>q. QED
  BY <1>1, <1>2, <1>3, <1>4, <1>5

\* The refinement: to DistillPass, which plans in one step, the making of a plan is a
\* pass that plans, and then has a plan that it may have or leaves as after a failed
\* call; whatever the replies were and however they were asked for.
THEOREM PlanningIsOneStep == Spec => ImplementsPlan
<1>1. Init => SeenInv /\ PassPc = "planning"
  BY CandidatesAssumption DEF Init, SeenInv, PassPc
<1>2. IInv /\ SeenInv /\ [Next]_vars => SeenInv'
  BY SeenNext
<1>3. IInv /\ SeenInv /\ PlanIsSound => PlannedInv
  BY APlanOfThePass
<1>4. PlannedInv' /\ [Next]_vars
        => [Pass!Plan \/ Pass!PlanningFails]_<<PassPc, PassPlan>>
  BY StepIsOfThePass
<1>q. QED
  BY <1>1, <1>2, <1>3, <1>4, Invariance, ThePlanIsSound, PTL DEF Spec, ImplementsPlan

\* What the pass carries out is a plan that it may have, and one whose decisions name
\* only what was shown with that very candidate.
THEOREM ThePlanIsCarriedOut == Spec => PlanCanBeCarriedOut
BY ThePlanIsSound, PlanningIsOneStep, PTL DEF PlanCanBeCarriedOut
=============================================================================
