-------------------------- MODULE DisclosureProofs --------------------------
(***************************************************************************)
(* Proofs about MerkleChain and Disclosure: seals of any number of events, *)
(* trees of any shape, any number of seals, directories, disclosures,      *)
(* deaths and damaged lines.                                               *)
(*                                                                         *)
(* A root binds every leaf under it and how many they are; what verifies   *)
(* along a leaf's audit path is that leaf; a chain hash binds every event  *)
(* up to its place.  So lines that hang together with a signed root are    *)
(* the sealed ones, whichever runs left them there.                        *)
(*                                                                         *)
(* Conversely the verifier's walk, by shifts of two indices, meets along   *)
(* the producer's path the head of one block after another, so what a      *)
(* producer draws is accepted.                                             *)
(***************************************************************************)
EXTENDS Disclosure, FiniteSetTheorems, SequenceTheorems, WellFoundedInduction, TLAPS

(* Every set of numbers has a least one: what the inductions below use.    *)
LEMMA LeastNat ==
    ASSUME NEW T \in SUBSET Nat, T # {}
    PROVE  \E x \in T : \A y \in T : x <= y
<1> DEFINE R == OpToRel(<, Nat)
<1>1. IsWellFoundedOn(R, Nat)
  BY NatLessThanWellFounded
<1>2. \E x \in T : \A y \in T : <<y, x>> \notin R
  <2> HIDE DEF R
  <2> QED
    BY <1>1, WFMin
<1>3. \A x, y \in Nat : <<x, y>> \in R <=> x < y
  BY DEF OpToRel
<1>4. PICK x \in T : \A y \in T : <<y, x>> \notin R
  BY <1>2
<1>5. x \in Nat /\ \A y \in T : y \in Nat
  OBVIOUS
<1>6. \A y \in T : x <= y
  <2> SUFFICES ASSUME NEW y \in T PROVE x <= y
    OBVIOUS
  <2>1. ~ (y < x)
    BY <1>3, <1>4, <1>5
  <2> QED
    BY <1>5, <2>1
<1> QED
  BY <1>4, <1>6

---------------------------------------------------------------------------
(* The split: doubling reaches a power of two short of n. *)

Doubles(f, n, m) == f = [k \in m..n |-> IF 2 * k < n THEN f[2 * k] ELSE k]

LEMMA DoublesExist ==
    ASSUME NEW n \in Nat \ {0}
    PROVE  \E f : Doubles(f, n, 1)
<1> DEFINE Bad == {j \in 0..n : ~ \E f : Doubles(f, n, n + 1 - j)}
<1>1. SUFFICES ASSUME Bad # {} PROVE FALSE
  <2>1. n \notin Bad /\ n \in 0..n /\ n + 1 - n = 1
    BY <1>1
  <2> QED
    BY <2>1
<1>2. PICK j \in Bad : \A i \in Bad : j <= i
  <2>1. Bad \in SUBSET Nat
    OBVIOUS
  <2> HIDE DEF Bad
  <2> QED
    BY <1>1, <2>1, LeastNat
<1>3. j \in 0..n /\ ~ \E f : Doubles(f, n, n + 1 - j)
  BY <1>2
<1>4. CASE j = 0
  <2> DEFINE f == [k \in (n + 1)..n |-> k]
  <2>1. (n + 1)..n = {}
    OBVIOUS
  <2>2. f = [k \in (n + 1)..n |-> IF 2 * k < n THEN f[2 * k] ELSE k]
    BY <2>1
  <2>3. Doubles(f, n, n + 1 - j)
    BY <1>4, <2>2 DEF Doubles
  <2> QED
    BY <1>3, <2>3
<1>5. CASE j # 0
  <2> DEFINE m == n + 1 - j
  <2>1. j - 1 \in 0..n /\ j - 1 \notin Bad /\ n + 1 - (j - 1) = m + 1 /\ m \in 1..n
    BY <1>2, <1>3, <1>5
  <2>2. PICK f : Doubles(f, n, m + 1)
    BY <2>1
  <2> HIDE DEF m, Bad
  <2> DEFINE g == [k \in m..n |-> IF k = m THEN (IF 2 * m < n THEN f[2 * m] ELSE m) ELSE f[k]]
  <2>3. \A k \in (m + 1)..n : f[k] = IF 2 * k < n THEN f[2 * k] ELSE k
    BY <2>2 DEF Doubles
  <2>4. ASSUME NEW k \in m..n
        PROVE  g[k] = IF 2 * k < n THEN g[2 * k] ELSE k
    <3>1. 2 * k < n => 2 * k \in (m + 1)..n
      BY <2>1
    <3>2. 2 * k < n => g[2 * k] = f[2 * k]
      BY <2>1, <3>1
    <3>3. CASE k = m
      BY <3>2, <3>3
    <3>4. CASE k # m
      BY <2>1, <2>3, <3>2, <3>4
    <3> QED
      BY <3>3, <3>4
  <2>5. g = [k \in m..n |-> g[k]]
    OBVIOUS
  <2> HIDE DEF g
  <2>6. [k \in m..n |-> g[k]] = [k \in m..n |-> IF 2 * k < n THEN g[2 * k] ELSE k]
    BY <2>4
  <2>7. Doubles(g, n, m)
    BY <2>5, <2>6 DEF Doubles
  <2> QED
    BY <1>3, <2>7 DEF m
<1> QED
  BY <1>4, <1>5

(* Both halves of a split have leaves, and fewer than the whole. *)
LEMMA SplitInside ==
    ASSUME NEW n \in Nat, n >= 2
    PROVE  SplitPoint(n) \in 1..(n - 1)
<1> DEFINE f == CHOOSE f : Doubles(f, n, 1)
<1>1. Doubles(f, n, 1)
  BY DoublesExist
<1>2. SplitPoint(n) = f[1]
  BY DEF SplitPoint, Doubles
<1> HIDE DEF f
<1>3. \A k \in 1..n : f[k] = IF 2 * k < n THEN f[2 * k] ELSE k
  BY <1>1 DEF Doubles
<1> DEFINE Bad == {j \in 1..(n - 1) : f[n - j] \notin 1..(n - 1)}
<1>4. Bad = {}
  <2> SUFFICES ASSUME Bad # {} PROVE FALSE
    OBVIOUS
  <2>1. PICK j \in Bad : \A i \in Bad : j <= i
    <3>1. Bad \in SUBSET Nat
      OBVIOUS
    <3> HIDE DEF Bad
    <3> QED
      BY <3>1, LeastNat
  <2>2. j \in 1..(n - 1) /\ f[n - j] \notin 1..(n - 1) /\ n - j \in 1..n
    BY <2>1
  <2>3. 2 * (n - j) < n /\ f[n - j] = f[2 * (n - j)]
    BY <1>3, <2>2
  <2> DEFINE i == n - 2 * (n - j)
  <2>4. i \in 1..(n - 1) /\ i < j /\ n - i = 2 * (n - j)
    BY <2>2, <2>3
  <2>5. i \in Bad
    BY <2>2, <2>3, <2>4
  <2> QED
    BY <2>1, <2>2, <2>4, <2>5
<1>5. n - 1 \notin Bad /\ n - 1 \in 1..(n - 1) /\ n - (n - 1) = 1
  BY <1>4
<1> QED
  BY <1>2, <1>5

---------------------------------------------------------------------------
(* The tree. *)

RootsOver(leaves, f, w) ==
    [s \in 0..(Len(leaves) - w) |->
        CASE w = 0 -> EmptyTree
          [] w = 1 -> leaves[s + 1]
          [] OTHER -> LET k == SplitPoint(w)
                      IN  NodeHash(f[k][s], f[w - k][s + k])]

Roots(leaves, f, m) == f = [w \in 0..m |-> RootsOver(leaves, f, w)]

LEMMA RootsAlike ==
    ASSUME NEW leaves, NEW n \in Nat, Len(leaves) = n, NEW w \in 0..n, NEW f, NEW g,
           \A v \in 0..(w - 1) : f[v] = g[v]
    PROVE  RootsOver(leaves, f, w) = RootsOver(leaves, g, w)
<1>1. CASE w < 2
  BY <1>1 DEF RootsOver
<1>2. CASE w >= 2
  <2>1. SplitPoint(w) \in 0..(w - 1) /\ w - SplitPoint(w) \in 0..(w - 1)
    BY <1>2, SplitInside
  <2> DEFINE k == SplitPoint(w)
  <2>2. f[k] = g[k] /\ f[w - k] = g[w - k]
    BY <2>1
  <2>3. \A h : RootsOver(leaves, h, w) =
                [s \in 0..(Len(leaves) - w) |-> NodeHash(h[k][s], h[w - k][s + k])]
    BY <1>2 DEF RootsOver
  <2> HIDE DEF k
  <2> QED
    BY <2>2, <2>3, Zenon
<1> QED
  BY <1>1, <1>2

LEMMA RootsExist ==
    ASSUME NEW leaves, NEW n \in Nat, Len(leaves) = n
    PROVE  \E f : Roots(leaves, f, n)
<1> DEFINE Bad == {m \in 0..n : ~ \E f : Roots(leaves, f, m)}
<1>1. SUFFICES ASSUME Bad # {} PROVE FALSE
  <2>1. n \in Bad \/ \E f : Roots(leaves, f, n)
    OBVIOUS
  <2> HIDE DEF Bad
  <2> QED
    BY <1>1, <2>1
<1>2. PICK m \in Bad : \A i \in Bad : m <= i
  <2>1. Bad \in SUBSET Nat
    OBVIOUS
  <2> HIDE DEF Bad
  <2> QED
    BY <1>1, <2>1, LeastNat
<1>3. m \in 0..n /\ ~ \E f : Roots(leaves, f, m)
  BY <1>2
<1>4. PICK f : m > 0 => Roots(leaves, f, m - 1)
  BY <1>2
<1> HIDE DEF Bad
<1> DEFINE g == [w \in 0..m |-> IF w = m THEN RootsOver(leaves, f, m) ELSE f[w]]
<1>5. \A w \in 0..(m - 1) : f[w] = RootsOver(leaves, f, w)
  BY <1>3, <1>4 DEF Roots
<1>6. ASSUME NEW w \in 0..m
      PROVE  g[w] = RootsOver(leaves, g, w)
  <2>1. \A v \in 0..(w - 1) : f[v] = g[v]
    BY <1>3
  <2>2. g[w] = RootsOver(leaves, f, w)
    BY <1>3, <1>5
  <2> HIDE DEF g
  <2> QED
    BY <1>3, <2>1, <2>2, RootsAlike
<1>7. g = [w \in 0..m |-> g[w]]
  OBVIOUS
<1> HIDE DEF g
<1>8. [w \in 0..m |-> g[w]] = [w \in 0..m |-> RootsOver(leaves, g, w)]
  BY <1>6
<1>9. Roots(leaves, g, m)
  BY <1>7, <1>8 DEF Roots
<1> QED
  BY <1>3, <1>9

(* What the heads of a tree are. *)
LEMMA RootsAre ==
    ASSUME NEW leaves, NEW n \in Nat, Len(leaves) = n,
           NEW w \in 0..n, NEW s \in 0..(n - w)
    PROVE  /\ w = 0 => SubtreeRoots(leaves)[w][s] = EmptyTree
           /\ w = 1 => SubtreeRoots(leaves)[w][s] = leaves[s + 1]
           /\ w >= 2 => SubtreeRoots(leaves)[w][s] =
                          NodeHash(SubtreeRoots(leaves)[SplitPoint(w)][s],
                                   SubtreeRoots(leaves)[w - SplitPoint(w)][s + SplitPoint(w)])
<1> DEFINE f == CHOOSE f : Roots(leaves, f, n)
<1>1. Roots(leaves, f, n)
  BY RootsExist
<1>2. SubtreeRoots(leaves) = f
  BY Zenon DEF SubtreeRoots, Roots, RootsOver
<1> HIDE DEF f
<1>3. f[w] = RootsOver(leaves, f, w)
  BY <1>1 DEF Roots
<1>4. f[w][s] = CASE w = 0 -> EmptyTree
                  [] w = 1 -> leaves[s + 1]
                  [] OTHER -> NodeHash(f[SplitPoint(w)][s], f[w - SplitPoint(w)][s + SplitPoint(w)])
  BY <1>3 DEF RootsOver
<1> QED
  BY <1>2, <1>4

AreLeaves(leaves) ==
    /\ Len(leaves) \in Nat
    /\ \A i \in 1..Len(leaves) : leaves[i] = LeafHash(leaves[i][2])

Root(leaves, w, s) == SubtreeRoots(leaves)[w][s]

(* Which of the three a head is says how many leaves are under it. *)
LEMMA HeadShows ==
    ASSUME NEW leaves, AreLeaves(leaves), NEW w \in 0..Len(leaves), NEW s \in 0..(Len(leaves) - w)
    PROVE  /\ w = 0 => Root(leaves, w, s) = EmptyTree
           /\ w = 1 => Root(leaves, w, s) = LeafHash(leaves[s + 1][2])
           /\ w >= 2 => \E k \in 1..(w - 1) :
                /\ k = SplitPoint(w)
                /\ k \in 0..Len(leaves) /\ w - k \in 0..Len(leaves)
                /\ s \in 0..(Len(leaves) - k) /\ s + k \in 0..(Len(leaves) - (w - k))
                /\ Root(leaves, w, s) = NodeHash(Root(leaves, k, s), Root(leaves, w - k, s + k))
<1> DEFINE n == Len(leaves)
<1>1. n \in Nat
  BY DEF AreLeaves
<1>2. w = 1 => s + 1 \in 1..n
  BY <1>1
<1>3. CASE w < 2
  BY <1>1, <1>2, <1>3, RootsAre DEF AreLeaves, Root
<1>4. CASE w >= 2
  <2> DEFINE k == SplitPoint(w)
  <2>1. k \in 1..(w - 1)
    BY <1>1, <1>4, SplitInside
  <2>2. Root(leaves, w, s) = NodeHash(Root(leaves, k, s), Root(leaves, w - k, s + k))
    BY <1>1, <1>4, RootsAre DEF Root
  <2> HIDE DEF k
  <2>3. /\ k \in 0..n /\ w - k \in 0..n
        /\ s \in 0..(n - k) /\ s + k \in 0..(n - (w - k))
    BY <1>1, <2>1
  <2> QED
    BY <1>4, <2>1, <2>2, <2>3 DEF k
<1> QED
  BY <1>1, <1>3, <1>4

(* The three shapes of a head, and what each binds. *)
LEMMA ShapesApart ==
    /\ \A c : EmptyTree # LeafHash(c)
    /\ \A l, r : EmptyTree # NodeHash(l, r)
    /\ \A c, l, r : LeafHash(c) # NodeHash(l, r)
    /\ \A c, d : LeafHash(c) = LeafHash(d) => c = d
    /\ \A l, r, x, y : NodeHash(l, r) = NodeHash(x, y) => l = x /\ r = y
<1>1. \A c, d : LeafHash(c) = LeafHash(d) => c = d
  BY DEF LeafHash
<1>2. \A l, r, x, y : NodeHash(l, r) = NodeHash(x, y) => l = x /\ r = y
  BY DEF NodeHash
<1>3. \A c, l, r : Len(EmptyTree) = 1 /\ Len(LeafHash(c)) = 2 /\ Len(NodeHash(l, r)) = 3
  BY DEF EmptyTree, LeafHash, NodeHash
<1> QED
  BY <1>1, <1>2, <1>3

LEMMA NodesApart ==
    ASSUME NEW l, NEW r, NEW x, NEW y, NodeHash(l, r) = NodeHash(x, y)
    PROVE  l = x /\ r = y
BY DEF NodeHash

(* A head binds the leaves under it, and how many they are. *)
Binds(a, b, v) ==
    \A w \in 0..Len(b) : \A s \in 0..(Len(a) - v), t \in 0..(Len(b) - w) :
        Root(a, v, s) = Root(b, w, t) => v = w /\ \A j \in 1..v : a[s + j] = b[t + j]

LEMMA HeadBindsStep ==
    ASSUME NEW a, AreLeaves(a), NEW b, AreLeaves(b), NEW v \in 0..Len(a),
           \A i \in 0..(v - 1) : Binds(a, b, i)
    PROVE  Binds(a, b, v)
<1>1. Len(a) \in Nat /\ Len(b) \in Nat
  BY DEF AreLeaves
<1>2. SUFFICES ASSUME NEW w \in 0..Len(b), NEW s \in 0..(Len(a) - v), NEW t \in 0..(Len(b) - w),
                      Root(a, v, s) = Root(b, w, t)
               PROVE  v = w /\ \A j \in 1..v : a[s + j] = b[t + j]
  BY DEF Binds
<1> DEFINE r == Root(a, v, s)
<1>6. /\ w = 0 => r = EmptyTree
      /\ w = 1 => r = LeafHash(b[t + 1][2])
      /\ w >= 2 => \E x, y : r = NodeHash(x, y)
  <2>1. /\ w = 0 => Root(b, w, t) = EmptyTree
        /\ w = 1 => Root(b, w, t) = LeafHash(b[t + 1][2])
    BY HeadShows
  <2>2. w >= 2 => \E x, y : Root(b, w, t) = NodeHash(x, y)
    <3> SUFFICES ASSUME w >= 2 PROVE \E x, y : Root(b, w, t) = NodeHash(x, y)
      OBVIOUS
    <3>1. PICK k \in 1..(w - 1) : Root(b, w, t) = NodeHash(Root(b, k, t), Root(b, w - k, t + k))
      BY HeadShows
    <3> QED
      BY <3>1
  <2> QED
    BY <1>2, <2>1, <2>2
<1>3. CASE v = 0
  <2>1. Root(a, v, s) = EmptyTree
    BY <1>3, HeadShows
  <2>2. w = 0
    <3>1. w # 1
      BY <1>6, <2>1, ShapesApart
    <3>2. ~ (w >= 2)
      BY <1>6, <2>1, ShapesApart
    <3> QED
      BY <1>1, <3>1, <3>2
  <2> QED
    BY <1>3, <2>2
<1>4. CASE v = 1
  <2>1. Root(a, v, s) = LeafHash(a[s + 1][2])
    BY <1>4, HeadShows
  <2>2. w = 1
    <3>1. w # 0
      BY <1>6, <2>1, ShapesApart
    <3>2. ~ (w >= 2)
      BY <1>6, <2>1, ShapesApart
    <3> QED
      BY <1>1, <3>1, <3>2
  <2>3. LeafHash(a[s + 1][2]) = LeafHash(b[t + 1][2])
    BY <1>6, <2>1, <2>2
  <2>4. s + 1 \in 1..Len(a) /\ t + 1 \in 1..Len(b)
    BY <1>1, <1>4, <2>2
  <2>5. a[s + 1] = b[t + 1]
    BY <2>3, <2>4 DEF AreLeaves
  <2> QED
    BY <1>4, <2>2, <2>5
<1>5. CASE v >= 2
  <2>1. PICK k \in 1..(v - 1) :
          /\ k \in 0..Len(a) /\ v - k \in 0..Len(a)
          /\ s \in 0..(Len(a) - k) /\ s + k \in 0..(Len(a) - (v - k))
          /\ Root(a, v, s) = NodeHash(Root(a, k, s), Root(a, v - k, s + k))
    BY <1>5, HeadShows
  <2>2. w >= 2
    <3>1. w # 0
      BY <1>6, <2>1, ShapesApart
    <3>2. w # 1
      BY <1>6, <2>1, ShapesApart
    <3> QED
      BY <1>1, <3>1, <3>2
  <2>3. PICK l \in 1..(w - 1) :
          /\ l \in 0..Len(b) /\ w - l \in 0..Len(b)
          /\ t \in 0..(Len(b) - l) /\ t + l \in 0..(Len(b) - (w - l))
          /\ Root(b, w, t) = NodeHash(Root(b, l, t), Root(b, w - l, t + l))
    BY <2>2, HeadShows
  <2>4. Root(a, k, s) = Root(b, l, t) /\ Root(a, v - k, s + k) = Root(b, w - l, t + l)
    <3>1. NodeHash(Root(a, k, s), Root(a, v - k, s + k)) = NodeHash(Root(b, l, t), Root(b, w - l, t + l))
      BY <1>2, <2>1, <2>3
    <3> QED
      BY <3>1, NodesApart
  <2>5. k \in 0..(v - 1) /\ v - k \in 0..(v - 1)
    BY <1>1, <2>1
  <2>6. Binds(a, b, k) /\ Binds(a, b, v - k)
    BY <2>5
  <2>7. k = l /\ \A j \in 1..k : a[s + j] = b[t + j]
    <3>1. /\ l \in 0..Len(b) /\ s \in 0..(Len(a) - k) /\ t \in 0..(Len(b) - l)
          /\ Root(a, k, s) = Root(b, l, t)
      BY <2>1, <2>3, <2>4
    <3>2. Binds(a, b, k)
      BY <2>6
    <3> QED
      BY <3>1, <3>2, Zenon DEF Binds
  <2>8. v - k = w - l /\ \A j \in 1..(v - k) : a[(s + k) + j] = b[(t + l) + j]
    <3>1. /\ w - l \in 0..Len(b) /\ s + k \in 0..(Len(a) - (v - k)) /\ t + l \in 0..(Len(b) - (w - l))
          /\ Root(a, v - k, s + k) = Root(b, w - l, t + l)
      BY <2>1, <2>3, <2>4
    <3> QED
      BY <2>6, <3>1, Zenon DEF Binds
  <2>9. v = w
    BY <1>1, <2>1, <2>3, <2>7, <2>8
  <2>10. ASSUME NEW j \in 1..v PROVE a[s + j] = b[t + j]
    <3>1. CASE j <= k
      BY <2>1, <2>7, <3>1
    <3>2. CASE j > k
      <4>1. j - k \in 1..(v - k)
        BY <1>1, <2>1, <3>2
      <4>2. a[(s + k) + (j - k)] = b[(t + l) + (j - k)]
        BY <2>8, <4>1
      <4>3. (s + k) + (j - k) = s + j /\ (t + l) + (j - k) = t + j
        BY <1>1, <2>1, <2>3, <2>7
      <4> QED
        BY <4>2, <4>3
    <3> QED
      BY <2>1, <3>1, <3>2
  <2> QED
    BY <2>9, <2>10
<1> QED
  BY <1>1, <1>3, <1>4, <1>5

LEMMA HeadBinds ==
    ASSUME NEW a, AreLeaves(a), NEW b, AreLeaves(b), NEW v \in 0..Len(a)
    PROVE  Binds(a, b, v)
<1> DEFINE Bad == {i \in 0..Len(a) : ~ Binds(a, b, i)}
<1>1. Bad \in SUBSET Nat
  BY DEF AreLeaves
<1>2. SUFFICES ASSUME Bad # {} PROVE FALSE
  OBVIOUS
<1>3. PICK m \in Bad : \A i \in Bad : m <= i
  <2> HIDE DEF Bad
  <2> QED
    BY <1>1, <1>2, LeastNat
<1>4. m \in 0..Len(a) /\ Len(a) \in Nat /\ ~ Binds(a, b, m)
  BY DEF AreLeaves
<1>5. \A i \in 0..(m - 1) : i \in 0..Len(a) /\ i \notin Bad
  BY <1>1, <1>3, <1>4
<1>6. \A i \in 0..(m - 1) : Binds(a, b, i)
  BY <1>5
<1> QED
  BY <1>4, <1>6, HeadBindsStep

---------------------------------------------------------------------------
(* The audit path. *)

PathsOver(leaves, index, f, w) ==
    [s \in 0..(Len(leaves) - w) |->
        LET k == SplitPoint(w)
        IN  IF w <= 1 THEN << >>
            ELSE IF index < s + k THEN Append(f[k][s], SubtreeRoots(leaves)[w - k][s + k])
            ELSE Append(f[w - k][s + k], SubtreeRoots(leaves)[k][s])]

AuditPaths(leaves, index, f, m) == f = [w \in 0..m |-> PathsOver(leaves, index, f, w)]

LEMMA PathsAlike ==
    ASSUME NEW leaves, NEW n \in Nat, Len(leaves) = n, NEW index, NEW w \in 0..n, NEW f, NEW g,
           \A v \in 0..(w - 1) : f[v] = g[v]
    PROVE  PathsOver(leaves, index, f, w) = PathsOver(leaves, index, g, w)
<1>1. CASE w <= 1
  BY <1>1 DEF PathsOver
<1>2. CASE w >= 2
  <2> DEFINE k == SplitPoint(w)
  <2>1. k \in 0..(w - 1) /\ w - k \in 0..(w - 1)
    BY <1>2, SplitInside
  <2>2. f[k] = g[k] /\ f[w - k] = g[w - k]
    BY <2>1
  <2>3. \A h : PathsOver(leaves, index, h, w) =
                [s \in 0..(Len(leaves) - w) |->
                   IF index < s + k THEN Append(h[k][s], SubtreeRoots(leaves)[w - k][s + k])
                   ELSE Append(h[w - k][s + k], SubtreeRoots(leaves)[k][s])]
    BY <1>2 DEF PathsOver
  <2> HIDE DEF k
  <2> QED
    BY <2>2, <2>3, Zenon
<1> QED
  BY <1>1, <1>2

LEMMA PathsExist ==
    ASSUME NEW leaves, NEW n \in Nat, Len(leaves) = n, NEW index
    PROVE  \E f : AuditPaths(leaves, index, f, n)
<1> DEFINE Bad == {m \in 0..n : ~ \E f : AuditPaths(leaves, index, f, m)}
<1>1. SUFFICES ASSUME Bad # {} PROVE FALSE
  <2>1. n \in Bad \/ \E f : AuditPaths(leaves, index, f, n)
    OBVIOUS
  <2> HIDE DEF Bad
  <2> QED
    BY <1>1, <2>1
<1>2. PICK m \in Bad : \A i \in Bad : m <= i
  <2>1. Bad \in SUBSET Nat
    OBVIOUS
  <2> HIDE DEF Bad
  <2> QED
    BY <1>1, <2>1, LeastNat
<1>3. m \in 0..n /\ ~ \E f : AuditPaths(leaves, index, f, m)
  BY <1>2
<1>4. PICK f : m > 0 => AuditPaths(leaves, index, f, m - 1)
  BY <1>2
<1> HIDE DEF Bad
<1> DEFINE g == [w \in 0..m |-> IF w = m THEN PathsOver(leaves, index, f, m) ELSE f[w]]
<1>5. \A w \in 0..(m - 1) : f[w] = PathsOver(leaves, index, f, w)
  BY <1>3, <1>4 DEF AuditPaths
<1>6. ASSUME NEW w \in 0..m
      PROVE  g[w] = PathsOver(leaves, index, g, w)
  <2>1. \A v \in 0..(w - 1) : f[v] = g[v]
    BY <1>3
  <2>2. g[w] = PathsOver(leaves, index, f, w)
    BY <1>3, <1>5
  <2> HIDE DEF g
  <2> QED
    BY <1>3, <2>1, <2>2, PathsAlike
<1>7. g = [w \in 0..m |-> g[w]]
  OBVIOUS
<1> HIDE DEF g
<1>8. [w \in 0..m |-> g[w]] = [w \in 0..m |-> PathsOver(leaves, index, g, w)]
  BY <1>6
<1>9. AuditPaths(leaves, index, g, m)
  BY <1>7, <1>8 DEF AuditPaths
<1> QED
  BY <1>3, <1>9

(* Everything an audit path is made of: heads, from the leaf's sibling up. *)
IsPathOver(leaves, index, f) ==
    \A w \in 0..Len(leaves) : \A s \in 0..(Len(leaves) - w) :
        /\ w <= 1 => f[w][s] = << >>
        /\ w >= 2 =>
             LET k == SplitPoint(w)
             IN  f[w][s] = IF index < s + k THEN Append(f[k][s], Root(leaves, w - k, s + k))
                           ELSE Append(f[w - k][s + k], Root(leaves, k, s))

LEMMA AuditPathIs ==
    ASSUME NEW leaves, NEW n \in Nat, Len(leaves) = n, NEW index
    PROVE  \E f : IsPathOver(leaves, index, f) /\ AuditPath(leaves, index) = f[n][0]
<1> DEFINE f == CHOOSE f : AuditPaths(leaves, index, f, n)
<1>1. AuditPaths(leaves, index, f, n)
  BY PathsExist
<1>2. AuditPath(leaves, index) = f[n][0]
  BY Zenon DEF AuditPath, AuditPaths, PathsOver
<1> HIDE DEF f
<1>3. \A w \in 0..n : f[w] = PathsOver(leaves, index, f, w)
  BY <1>1 DEF AuditPaths
<1>4. ASSUME NEW w \in 0..n, NEW s \in 0..(n - w)
      PROVE  f[w][s] = LET k == SplitPoint(w)
                       IN  IF w <= 1 THEN << >>
                           ELSE IF index < s + k THEN Append(f[k][s], SubtreeRoots(leaves)[w - k][s + k])
                           ELSE Append(f[w - k][s + k], SubtreeRoots(leaves)[k][s])
  BY <1>3 DEF PathsOver
<1>5. IsPathOver(leaves, index, f)
  BY <1>4 DEF IsPathOver, Root
<1> QED
  BY <1>2, <1>5

LEMMA PathIsSeq ==
    ASSUME NEW leaves, Len(leaves) \in Nat, NEW index, NEW f, IsPathOver(leaves, index, f)
    PROVE  \E U : \A w \in 0..Len(leaves) : \A s \in 0..(Len(leaves) - w) : f[w][s] \in Seq(U)
<1> DEFINE n == Len(leaves)
           U == {Root(leaves, w, s) : w \in 0..n, s \in 0..n}
<1>0. \A w \in 0..n, s \in 0..n : Root(leaves, w, s) \in U
  OBVIOUS
<1> HIDE DEF U
<1> DEFINE Good(w) == \A s \in 0..(n - w) : f[w][s] \in Seq(U)
           Bad == {w \in 0..n : ~ Good(w)}
<1>1. SUFFICES ASSUME Bad # {} PROVE FALSE
  <2>1. \A w \in 0..n : w \in Bad \/ Good(w)
    OBVIOUS
  <2>2. \A w \in 0..n : Good(w)
    <3> HIDE DEF Bad, Good
    <3> QED
      BY <1>1, <2>1
  <2> QED
    BY <2>2
<1>2. PICK w \in Bad : \A i \in Bad : w <= i
  <2>1. Bad \in SUBSET Nat
    OBVIOUS
  <2> HIDE DEF Bad
  <2> QED
    BY <1>1, <2>1, LeastNat
<1>3. w \in 0..n /\ n \in Nat /\ ~ Good(w)
  OBVIOUS
<1>6. \A i \in 0..(w - 1) : Good(i)
  <2>1. \A i \in 0..(w - 1) : i \in 0..n /\ i \notin Bad
    <3> HIDE DEF Good
    <3>1. \A i \in 0..(w - 1) : i \in 0..n /\ ~ (w <= i)
      BY <1>3
    <3> HIDE DEF Bad
    <3> QED
      BY <1>2, <3>1
  <2> QED
    BY <2>1
<1> HIDE DEF Bad
<1>4. PICK s \in 0..(n - w) : f[w][s] \notin Seq(U)
  BY <1>3
<1>7. CASE w <= 1
  <2>1. f[w][s] = << >>
    BY <1>3, <1>7 DEF IsPathOver
  <2> QED
    BY <1>4, <2>1
<1>8. CASE w >= 2
  <2> DEFINE k == SplitPoint(w)
  <2>1. k \in 1..(w - 1)
    BY <1>3, <1>8, SplitInside
  <2>2. f[w][s] = IF index < s + k THEN Append(f[k][s], Root(leaves, w - k, s + k))
                  ELSE Append(f[w - k][s + k], Root(leaves, k, s))
    BY <1>3, <1>8 DEF IsPathOver
  <2> HIDE DEF k
  <2>3. /\ k \in 0..(w - 1) /\ w - k \in 0..(w - 1)
        /\ s \in 0..(n - k) /\ s + k \in 0..(n - (w - k))
        /\ k \in 0..n /\ w - k \in 0..n /\ s \in 0..n /\ s + k \in 0..n
    BY <1>3, <2>1
  <2>4. f[k][s] \in Seq(U) /\ f[w - k][s + k] \in Seq(U)
    BY <1>6, <2>3
  <2>5. Root(leaves, w - k, s + k) \in U /\ Root(leaves, k, s) \in U
    BY <1>0, <2>3
  <2>6. /\ Append(f[k][s], Root(leaves, w - k, s + k)) \in Seq(U)
        /\ Append(f[w - k][s + k], Root(leaves, k, s)) \in Seq(U)
    BY <2>4, <2>5
  <2> QED
    BY <1>4, <2>2, <2>6
<1> QED
  BY <1>3, <1>7, <1>8

DistinctLeaves(leaves) == \A i, j \in 1..Len(leaves) : leaves[i] = leaves[j] => i = j

---------------------------------------------------------------------------
(* Numbers: halves, powers of two, and the levels of a tree. *)

LEMMA HalfIs ==
    ASSUME NEW x \in Nat
    PROVE  /\ x \div 2 \in Nat
           /\ \/ x = 2 * (x \div 2) /\ x % 2 = 0
              \/ x = 2 * (x \div 2) + 1 /\ x % 2 = 1
OBVIOUS

(* b is two to the power h: what 1 has become after h doublings. *)
TwoTo(h, b) == \E f : f[0] = 1 /\ f[h] = b /\ \A i \in 1..h : f[i] = 2 * f[i - 1]
Pow(h) == CHOOSE b : TwoTo(h, b)

LEMMA TwoToIs ==
    ASSUME NEW h \in Nat, NEW f, f[0] = 1, \A i \in 1..h : f[i] = 2 * f[i - 1],
           NEW g, g[0] = 1, \A i \in 1..h : g[i] = 2 * g[i - 1]
    PROVE  f[h] = g[h]
<1> DEFINE Bad == {i \in 0..h : f[i] # g[i]}
<1>1. SUFFICES ASSUME Bad # {} PROVE FALSE
  OBVIOUS
<1>2. PICK i \in Bad : \A j \in Bad : i <= j
  <2>1. Bad \in SUBSET Nat
    OBVIOUS
  <2> HIDE DEF Bad
  <2> QED
    BY <1>1, <2>1, LeastNat
<1>3. i \in 1..h /\ f[i] # g[i] /\ i - 1 \in 0..h
  BY <1>2
<1>4. i - 1 \notin Bad
  BY <1>2, <1>3
<1> QED
  BY <1>3, <1>4

LEMMA PowIs ==
    /\ Pow(0) = 1
    /\ \A h \in Nat : Pow(h) \in Nat \ {0} /\ Pow(h + 1) = 2 * Pow(h)
<1> DEFINE Grows(h) == \E f : /\ f[0] = 1 /\ \A i \in 1..h : f[i] = 2 * f[i - 1]
                              /\ \A i \in 0..h : f[i] \in Nat \ {0}
           Bad == {h \in Nat : ~ Grows(h)}
<1>1. Bad = {}
  <2>1. SUFFICES ASSUME Bad # {} PROVE FALSE
    OBVIOUS
  <2>2. PICK h \in Bad : \A j \in Bad : h <= j
    <3>1. Bad \in SUBSET Nat
      OBVIOUS
    <3> HIDE DEF Bad
    <3> QED
      BY <2>1, <3>1, LeastNat
  <2>3. h \in Nat /\ ~ Grows(h)
    BY <2>2
  <2>4. CASE h = 0
    <3> DEFINE f == [i \in {0} |-> 1]
    <3>1. f[0] = 1 /\ \A i \in 0..0 : f[i] \in Nat \ {0}
      OBVIOUS
    <3> HIDE DEF f
    <3> QED
      BY <2>3, <2>4, <3>1
  <2>5. CASE h # 0
    <3>1. h - 1 \in Nat /\ h - 1 \notin Bad
      BY <2>2, <2>3, <2>5
    <3>2. PICK f : /\ f[0] = 1 /\ \A i \in 1..(h - 1) : f[i] = 2 * f[i - 1]
                   /\ \A i \in 0..(h - 1) : f[i] \in Nat \ {0}
      BY <3>1
    <3> DEFINE g == [i \in 0..h |-> IF i = h THEN 2 * f[h - 1] ELSE f[i]]
    <3>4. g[0] = 1 /\ g[h] = 2 * f[h - 1] /\ \A i \in 0..(h - 1) : g[i] = f[i]
      BY <2>3, <2>5, <3>2
    <3>5. ASSUME NEW i \in 1..h
          PROVE  g[i] = 2 * g[i - 1]
      <4>1. i - 1 \in 0..(h - 1) /\ (i = h \/ i \in 1..(h - 1))
        BY <2>3
      <4>2. g[i - 1] = f[i - 1] /\ (i # h => i \in 0..(h - 1))
        BY <3>4, <4>1
      <4> HIDE DEF g
      <4> QED
        BY <3>2, <3>4, <4>1, <4>2
    <3>6. \A i \in 0..h : g[i] \in Nat \ {0}
      <4>1. \A i \in 0..h : i = h \/ i \in 0..(h - 1)
        BY <2>3
      <4>2. h - 1 \in 0..(h - 1)
        BY <2>3, <2>5
      <4> HIDE DEF g
      <4> QED
        BY <3>2, <3>4, <4>1, <4>2
    <3>3. /\ g[0] = 1 /\ \A i \in 1..h : g[i] = 2 * g[i - 1]
          /\ \A i \in 0..h : g[i] \in Nat \ {0}
      BY <3>4, <3>5, <3>6
    <3> HIDE DEF g
    <3> QED
      BY <2>3, <3>3
  <2> QED
    BY <2>4, <2>5
<1>2. \A h \in Nat : Grows(h)
  BY <1>1
<1>3. ASSUME NEW h \in Nat, NEW f, f[0] = 1, \A i \in 1..h : f[i] = 2 * f[i - 1]
      PROVE  Pow(h) = f[h]
  <2>1. TwoTo(h, f[h])
    BY <1>3 DEF TwoTo
  <2>2. TwoTo(h, Pow(h))
    BY <2>1 DEF Pow
  <2>3. PICK g : g[0] = 1 /\ g[h] = Pow(h) /\ \A i \in 1..h : g[i] = 2 * g[i - 1]
    BY <2>2 DEF TwoTo
  <2>4. f[h] = g[h]
    BY <1>3, <2>3, TwoToIs
  <2> QED
    BY <2>3, <2>4
<1>4. ASSUME NEW h \in Nat
      PROVE  Pow(h) \in Nat \ {0} /\ Pow(h + 1) = 2 * Pow(h) /\ Pow(0) = 1
  <2>1. PICK f : /\ f[0] = 1 /\ \A i \in 1..(h + 1) : f[i] = 2 * f[i - 1]
                 /\ \A i \in 0..(h + 1) : f[i] \in Nat \ {0}
    <3>1. h + 1 \in Nat
      OBVIOUS
    <3> HIDE DEF Bad
    <3> QED
      BY <1>2, <3>1
  <2>2. Pow(h + 1) = f[h + 1] /\ Pow(h) = f[h] /\ Pow(0) = f[0]
    BY <1>3, <2>1
  <2>3. h + 1 \in 1..(h + 1) /\ (h + 1) - 1 = h /\ h \in 0..(h + 1)
    OBVIOUS
  <2> QED
    BY <2>1, <2>2, <2>3
<1> QED
  BY <1>4

(* Powers of two that differ are at least a factor of two apart, and their *)
(* products are powers.                                                    *)
LEMMA PowSum ==
    ASSUME NEW g \in Nat, NEW d \in Nat
    PROVE  Pow(g + d) = Pow(d) * Pow(g)
<1> DEFINE Bad == {i \in Nat : Pow(g + i) # Pow(i) * Pow(g)}
<1>1. SUFFICES ASSUME Bad # {} PROVE FALSE
  OBVIOUS
<1>2. PICK i \in Bad : \A j \in Bad : i <= j
  <2>1. Bad \in SUBSET Nat
    OBVIOUS
  <2> HIDE DEF Bad
  <2> QED
    BY <1>1, <2>1, LeastNat
<1>3. i \in Nat /\ Pow(g + i) # Pow(i) * Pow(g) /\ Pow(g) \in Nat
  BY <1>2, PowIs
<1>4. i # 0
  BY <1>3, PowIs
<1> DEFINE j == i - 1
<1>5. j \in Nat /\ i = j + 1 /\ g + i = (g + j) + 1 /\ g + j \in Nat
  BY <1>3, <1>4
<1>6. Pow(g + j) = Pow(j) * Pow(g)
  BY <1>2, <1>5
<1> HIDE DEF j
<1>7. Pow(i) = 2 * Pow(j) /\ Pow(g + i) = 2 * Pow(g + j) /\ Pow(j) \in Nat
  BY <1>5, PowIs
<1>8. 2 * (Pow(j) * Pow(g)) = (2 * Pow(j)) * Pow(g)
  BY <1>3, <1>7
<1> QED
  BY <1>3, <1>6, <1>7, <1>8

LEMMA PowLess ==
    ASSUME NEW g \in Nat, NEW h \in Nat, g < h
    PROVE  2 * Pow(g) <= Pow(h)
<1> DEFINE d == h - (g + 1)
<1>1. d \in Nat /\ h = (g + 1) + d /\ g + 1 \in Nat
  OBVIOUS
<1> HIDE DEF d
<1>2. Pow(h) = Pow(d) * Pow(g + 1) /\ Pow(d) \in Nat \ {0} /\ Pow(g + 1) = 2 * Pow(g) /\ Pow(g) \in Nat
  BY <1>1, PowIs, PowSum
<1>3. Pow(d) * Pow(g + 1) >= Pow(g + 1)
  <2>1. \A x \in Nat \ {0}, y \in Nat : x * y >= y
    OBVIOUS
  <2> QED
    BY <1>1, <1>2, <2>1, PowIs
<1> QED
  BY <1>2, <1>3

(* The split is at the largest power of two short of n. *)
LEMMA SplitIs ==
    ASSUME NEW n \in Nat, n >= 2
    PROVE  \E g \in Nat : SplitPoint(n) = Pow(g) /\ Pow(g) < n /\ n <= 2 * Pow(g)
<1> DEFINE f == CHOOSE f : Doubles(f, n, 1)
<1>1. Doubles(f, n, 1)
  BY DoublesExist
<1>2. SplitPoint(n) = f[1]
  BY DEF SplitPoint, Doubles
<1> HIDE DEF f
<1>3. \A k \in 1..n : f[k] = IF 2 * k < n THEN f[2 * k] ELSE k
  BY <1>1 DEF Doubles
<1> DEFINE Reached(x) == \E g \in Nat : x = Pow(g) /\ Pow(g) < n /\ n <= 2 * Pow(g)
           Bad == {j \in 1..n : \E i \in Nat : Pow(i) = n - j /\ Pow(i) < n /\ ~ Reached(f[n - j])}
<1>4. Bad = {}
  <2>1. SUFFICES ASSUME Bad # {} PROVE FALSE
    OBVIOUS
  <2>2. PICK j \in Bad : \A i \in Bad : j <= i
    <3>1. Bad \in SUBSET Nat
      OBVIOUS
    <3> HIDE DEF Bad
    <3> QED
      BY <2>1, <3>1, LeastNat
  <2>3. PICK i \in Nat : Pow(i) = n - j /\ Pow(i) < n /\ ~ Reached(f[n - j])
    BY <2>2
  <2> DEFINE p == Pow(i)
  <2>4. p \in 1..(n - 1) /\ j = n - p /\ n - j = p /\ Pow(i + 1) = 2 * p
    BY <2>2, <2>3, PowIs
  <2> HIDE DEF p
  <2>5. CASE 2 * p < n
    <3>1. f[p] = f[2 * p] /\ n - 2 * p \in 1..n /\ n - (n - 2 * p) = 2 * p
      BY <1>3, <2>4, <2>5
    <3>2. n - 2 * p \in Bad
      BY <2>3, <2>4, <2>5, <3>1
    <3> QED
      BY <2>2, <2>4, <3>2
  <2>6. CASE ~ (2 * p < n)
    <3>1. f[p] = p /\ n <= 2 * p
      BY <1>3, <2>4, <2>6
    <3>2. Reached(f[p])
      BY <2>3, <2>4, <3>1 DEF p
    <3> QED
      BY <2>3, <2>4, <3>2
  <2> QED
    BY <2>5, <2>6
<1>5. Reached(f[1])
  <2>1. n - 1 \in 1..n /\ n - (n - 1) = 1 /\ Pow(0) = 1 /\ 1 < n /\ 0 \in Nat
    BY PowIs
  <2>2. n - 1 \notin Bad
    BY <1>4
  <2>3. \A j \in 1..n : j \notin Bad => \A i \in Nat : Pow(i) = n - j /\ Pow(i) < n => Reached(f[n - j])
    <3> HIDE DEF Reached
    <3> QED
      OBVIOUS
  <2> HIDE DEF Bad, Reached
  <2>4. Pow(0) = n - (n - 1) /\ Pow(0) < n
    BY <2>1
  <2>5. Reached(f[n - (n - 1)])
    BY <2>1, <2>2, <2>3, <2>4
  <2> QED
    BY <2>1, <2>5
<1> QED
  BY <1>2, <1>5

(* And the only one. *)
LEMMA SplitOnly ==
    ASSUME NEW n \in Nat, n >= 2, NEW g \in Nat, Pow(g) < n, n <= 2 * Pow(g)
    PROVE  SplitPoint(n) = Pow(g)
<1>1. PICK h \in Nat : SplitPoint(n) = Pow(h) /\ Pow(h) < n /\ n <= 2 * Pow(h)
  BY SplitIs
<1>2. Pow(g) \in Nat /\ Pow(h) \in Nat
  BY PowIs
<1>3. ~ (g < h) /\ ~ (h < g)
  BY <1>1, <1>2, PowLess
<1> QED
  BY <1>1, <1>3

(* Every number is short of twice itself by a power of two. *)
LEMMA PowAbove ==
    ASSUME NEW w \in Nat \ {0}
    PROVE  \E h \in Nat : w <= Pow(h) /\ Pow(h) < 2 * w
<1>1. CASE w = 1
  BY <1>1, PowIs
<1>2. CASE w # 1
  <2>1. PICK g \in Nat : Pow(g) < w /\ w <= 2 * Pow(g)
    BY <1>2, SplitIs
  <2>2. g + 1 \in Nat /\ Pow(g + 1) = 2 * Pow(g) /\ Pow(g) \in Nat
    BY PowIs
  <2> QED
    BY <2>1, <2>2
<1> QED
  BY <1>1, <1>2

(* x - 1, h times halved, is y: the place at level h of the last of the    *)
(* first x leaves.                                                         *)
Level(x, h, y) == y \in Nat /\ y * Pow(h) < x /\ x <= (y + 1) * Pow(h)

LEMMA LevelHalf ==
    ASSUME NEW x \in Nat, NEW h \in Nat, NEW y, Level(x, h, y)
    PROVE  Level(x, h + 1, y \div 2)
<1> DEFINE t == y \div 2
           p == Pow(h)
           q == t * p
<1>1. y \in Nat /\ p \in Nat \ {0} /\ Pow(h + 1) = 2 * p
  BY PowIs DEF Level
<1>2. t \in Nat /\ (y = 2 * t \/ y = 2 * t + 1)
  BY <1>1, HalfIs
<1> HIDE DEF t, p
<1>3. q \in Nat /\ t * (2 * p) = 2 * q /\ (t + 1) * (2 * p) = 2 * q + 2 * p
  BY <1>1, <1>2
<1>4. /\ y = 2 * t => y * p = 2 * q /\ (y + 1) * p = 2 * q + p
      /\ y = 2 * t + 1 => y * p = 2 * q + p /\ (y + 1) * p = 2 * q + 2 * p
  BY <1>1, <1>2
<1>5. y * p < x /\ x <= (y + 1) * p
  BY DEF Level, p
<1> HIDE DEF q
<1>6. 2 * q < x /\ x <= 2 * q + 2 * p
  BY <1>1, <1>2, <1>3, <1>4, <1>5
<1> QED
  BY <1>1, <1>2, <1>3, <1>6 DEF Level, t

LEMMA MulLess ==
    ASSUME NEW x \in Nat, NEW y \in Nat, NEW p \in Nat, x * p < y * p
    PROVE  x < y
<1>1. SUFFICES ASSUME x >= y PROVE FALSE
  OBVIOUS
<1> DEFINE d == x - y
<1>2. d \in Nat /\ x = y + d
  BY <1>1
<1> HIDE DEF d
<1>3. (y + d) * p = y * p + d * p /\ d * p \in Nat /\ y * p \in Nat
  BY <1>2
<1> QED
  BY <1>2, <1>3

LEMMA LevelOnly ==
    ASSUME NEW x \in Nat, NEW h \in Nat, NEW y, NEW z, Level(x, h, y), Level(x, h, z)
    PROVE  y = z
<1>1. y \in Nat /\ z \in Nat /\ Pow(h) \in Nat
  BY PowIs DEF Level
<1>2. y * Pow(h) \in Nat /\ z * Pow(h) \in Nat /\ (y + 1) * Pow(h) \in Nat /\ (z + 1) * Pow(h) \in Nat
  BY <1>1
<1>3. y * Pow(h) < (z + 1) * Pow(h) /\ z * Pow(h) < (y + 1) * Pow(h)
  BY <1>2 DEF Level
<1>4. y < z + 1 /\ z < y + 1
  BY <1>1, <1>3, MulLess
<1> QED
  BY <1>1, <1>4

LEMMA LevelZero ==
    ASSUME NEW y \in Nat
    PROVE  Level(y + 1, 0, y)
BY PowIs DEF Level

(* How often a number can be halved is the power of two in it. *)
Zeros(f, n) == f = [k \in 1..n |-> IF k % 2 = 1 THEN 0 ELSE 1 + f[k \div 2]]

LEMMA ZerosExist ==
    ASSUME NEW n \in Nat
    PROVE  \E f : Zeros(f, n)
<1> DEFINE Bad == {m \in Nat : ~ \E f : Zeros(f, m)}
<1>1. SUFFICES ASSUME Bad # {} PROVE FALSE
  OBVIOUS
<1>2. PICK m \in Bad : \A i \in Bad : m <= i
  <2>1. Bad \in SUBSET Nat
    OBVIOUS
  <2> HIDE DEF Bad
  <2> QED
    BY <1>1, <2>1, LeastNat
<1>3. m \in Nat /\ ~ \E f : Zeros(f, m)
  BY <1>2
<1>4. PICK f : m > 0 => Zeros(f, m - 1)
  BY <1>2
<1> HIDE DEF Bad
<1> DEFINE g == [k \in 1..m |-> IF k = m THEN (IF m % 2 = 1 THEN 0 ELSE 1 + f[m \div 2]) ELSE f[k]]
<1>5. \A k \in 1..(m - 1) : f[k] = IF k % 2 = 1 THEN 0 ELSE 1 + f[k \div 2]
  BY <1>3, <1>4 DEF Zeros
<1>6. ASSUME NEW k \in 1..m
      PROVE  g[k] = IF k % 2 = 1 THEN 0 ELSE 1 + g[k \div 2]
  <2>1. \A j \in 1..(m - 1) : g[j] = f[j]
    BY <1>3
  <2>2. g[k] = IF k % 2 = 1 THEN 0 ELSE 1 + f[k \div 2]
    BY <1>3, <1>5
  <2>3. k % 2 # 1 => k \div 2 \in 1..(m - 1)
    BY <1>3, HalfIs
  <2> HIDE DEF g
  <2> QED
    BY <2>1, <2>2, <2>3
<1>7. g = [k \in 1..m |-> g[k]]
  OBVIOUS
<1> HIDE DEF g
<1>8. [k \in 1..m |-> g[k]] = [k \in 1..m |-> IF k % 2 = 1 THEN 0 ELSE 1 + g[k \div 2]]
  BY <1>6
<1>9. Zeros(g, m)
  BY <1>7, <1>8 DEF Zeros
<1> QED
  BY <1>3, <1>9

LEMMA ZerosAre ==
    ASSUME NEW u \in Nat, NEW d \in Nat
    PROVE  TrailingZeros((2 * u + 1) * Pow(d)) = d
<1> DEFINE n == (2 * u + 1) * Pow(d)
           f == CHOOSE f : Zeros(f, n)
           at(i) == (2 * u + 1) * Pow(i)
<1>1. \A i \in Nat : at(i) \in Nat \ {0} /\ at(i + 1) = 2 * at(i) /\ at(0) = 2 * u + 1
  <2> SUFFICES ASSUME NEW i \in Nat
               PROVE  at(i) \in Nat \ {0} /\ at(i + 1) = 2 * at(i) /\ at(0) = 2 * u + 1
    OBVIOUS
  <2> DEFINE p == Pow(i)
  <2>1. p \in Nat \ {0} /\ Pow(i + 1) = 2 * p /\ Pow(0) = 1
    BY PowIs
  <2> HIDE DEF p
  <2>2. (2 * u + 1) * (2 * p) = 2 * ((2 * u + 1) * p) /\ (2 * u + 1) * p \in Nat
        /\ (2 * u + 1) * p = 2 * (u * p) + p /\ u * p \in Nat
    BY <2>1
  <2>3. (2 * u + 1) * p # 0
    BY <2>1, <2>2
  <2> QED
    BY <2>1, <2>2, <2>3 DEF p
<1> HIDE DEF at
<1>2. n = at(d) /\ n \in Nat
  BY <1>1 DEF at
<1> HIDE DEF n
<1>3. Zeros(f, n)
  BY <1>2, ZerosExist
<1>4. TrailingZeros(n) = f[n]
  BY DEF TrailingZeros, Zeros
<1> HIDE DEF f
<1>5. \A k \in 1..n : f[k] = IF k % 2 = 1 THEN 0 ELSE 1 + f[k \div 2]
  BY <1>3 DEF Zeros
<1> DEFINE Bad == {i \in 0..d : at(i) <= n /\ f[at(i)] # i}
<1>6. Bad = {}
  <2>1. SUFFICES ASSUME Bad # {} PROVE FALSE
    OBVIOUS
  <2>2. PICK i \in Bad : \A j \in Bad : i <= j
    <3>1. Bad \in SUBSET Nat
      OBVIOUS
    <3> HIDE DEF Bad
    <3> QED
      BY <2>1, <3>1, LeastNat
  <2>3. i \in 0..d /\ at(i) <= n /\ f[at(i)] # i /\ at(i) \in 1..n
    BY <1>1, <1>2, <2>2
  <2>4. CASE i = 0
    <3>1. at(i) % 2 = 1
      BY <1>1, <2>4
    <3> QED
      BY <1>5, <2>3, <2>4, <3>1
  <2>5. CASE i # 0
    <3> DEFINE j == i - 1
    <3>1. j \in Nat /\ j \in 0..d /\ i = j + 1
      BY <2>3, <2>5
    <3> HIDE DEF j
    <3>2. at(i) = 2 * at(j) /\ at(j) \in Nat \ {0}
      BY <1>1, <3>1
    <3>3. at(i) % 2 # 1 /\ at(i) \div 2 = at(j) /\ at(j) <= n
      <4> DEFINE x == at(i)
                 y == at(j)
      <4>1. x \in Nat /\ y \in Nat /\ x = 2 * y /\ x <= n
        BY <2>3, <3>2
      <4> HIDE DEF x, y
      <4>2. x % 2 # 1 /\ x \div 2 = y /\ y <= n
        BY <1>2, <4>1, HalfIs
      <4> QED
        BY <4>2 DEF x, y
    <3>4. f[at(i)] = 1 + f[at(j)]
      BY <1>5, <2>3, <3>3
    <3>5. j \notin Bad
      BY <2>2, <3>1
    <3>6. f[at(j)] = j
      BY <3>1, <3>3, <3>5
    <3> QED
      BY <2>3, <3>1, <3>4, <3>6
  <2> QED
    BY <2>4, <2>5
<1>7. d \in 0..d /\ at(d) <= n /\ d \notin Bad
  BY <1>2, <1>6
<1>8. f[n] = d
  BY <1>2, <1>7
<1> QED
  BY <1>4, <1>8 DEF n

(* Every number is an odd one times a power of two. *)
LEMMA OddPart ==
    ASSUME NEW x \in Nat \ {0}
    PROVE  \E u, d \in Nat : x = (2 * u + 1) * Pow(d)
<1> DEFINE Fine(y) == \E u, d \in Nat : y = (2 * u + 1) * Pow(d)
           Bad == {y \in Nat \ {0} : ~ Fine(y)}
<1>1. SUFFICES ASSUME Bad # {} PROVE FALSE
  OBVIOUS
<1>2. PICK y \in Bad : \A i \in Bad : y <= i
  <2>1. Bad \in SUBSET Nat
    OBVIOUS
  <2> HIDE DEF Bad
  <2> QED
    BY <1>1, <2>1, LeastNat
<1>3. y \in Nat \ {0} /\ ~ Fine(y)
  BY <1>2
<1> DEFINE t == y \div 2
<1>4. t \in Nat /\ (y = 2 * t \/ y = 2 * t + 1)
  BY <1>3, HalfIs
<1> HIDE DEF t
<1>5. CASE y = 2 * t + 1
  <2>1. y = (2 * t + 1) * Pow(0) /\ 0 \in Nat
    BY <1>4, <1>5, PowIs
  <2> QED
    BY <1>3, <1>4, <2>1
<1>6. CASE y = 2 * t
  <2>1. t \in Nat \ {0} /\ t < y
    BY <1>3, <1>4, <1>6
  <2>2. t \notin Bad
    BY <1>2, <1>3, <2>1
  <2>3. PICK u, d \in Nat : t = (2 * u + 1) * Pow(d)
    BY <2>1, <2>2
  <2>4. Pow(d + 1) = 2 * Pow(d) /\ Pow(d) \in Nat /\ d + 1 \in Nat
    BY PowIs
  <2>5. (2 * u + 1) * (2 * Pow(d)) = 2 * ((2 * u + 1) * Pow(d))
    BY <2>4
  <2>6. y = (2 * u + 1) * Pow(d + 1)
    BY <1>6, <2>3, <2>4, <2>5
  <2> QED
    BY <1>3, <2>4, <2>6
<1> QED
  BY <1>4, <1>5, <1>6

(* Halving changes the places of a walk and nothing else. *)
Halved(w) == [w EXCEPT !.fn = @ \div 2, !.sn = @ \div 2]
Halves(f, w, times) == f = [i \in 0..times |-> IF i = 0 THEN w ELSE Halved(f[i - 1])]

LEMMA HalvesExist ==
    ASSUME NEW w, NEW times \in Nat
    PROVE  \E f : Halves(f, w, times)
<1> DEFINE Bad == {m \in Nat : ~ \E f : Halves(f, w, m)}
<1>1. SUFFICES ASSUME Bad # {} PROVE FALSE
  OBVIOUS
<1>2. PICK m \in Bad : \A i \in Bad : m <= i
  <2>1. Bad \in SUBSET Nat
    OBVIOUS
  <2> HIDE DEF Bad
  <2> QED
    BY <1>1, <2>1, LeastNat
<1>3. m \in Nat /\ ~ \E f : Halves(f, w, m)
  BY <1>2
<1>4. PICK f : m > 0 => Halves(f, w, m - 1)
  BY <1>2
<1> HIDE DEF Bad
<1> DEFINE g == [i \in 0..m |-> IF i = 0 THEN w ELSE IF i = m THEN Halved(f[m - 1]) ELSE f[i]]
<1>5. \A i \in 0..(m - 1) : f[i] = IF i = 0 THEN w ELSE Halved(f[i - 1])
  BY <1>3, <1>4 DEF Halves
<1>6. ASSUME NEW i \in 0..m
      PROVE  g[i] = IF i = 0 THEN w ELSE Halved(g[i - 1])
  <2>1. \A j \in 0..(m - 1) : g[j] = f[j]
    BY <1>3, <1>5
  <2>2. g[i] = IF i = 0 THEN w ELSE Halved(f[i - 1])
    BY <1>3, <1>5
  <2>3. i # 0 => i - 1 \in 0..(m - 1)
    BY <1>3
  <2> HIDE DEF g
  <2> QED
    BY <2>1, <2>2, <2>3
<1>7. g = [i \in 0..m |-> g[i]]
  OBVIOUS
<1> HIDE DEF g
<1>8. [i \in 0..m |-> g[i]] = [i \in 0..m |-> IF i = 0 THEN w ELSE Halved(g[i - 1])]
  BY <1>6
<1>9. Halves(g, w, m)
  BY <1>7, <1>8 DEF Halves
<1> QED
  BY <1>3, <1>9

IsPlaced(w) == w = [w EXCEPT !.fn = w.fn, !.sn = w.sn] /\ "fn" \in DOMAIN w /\ "sn" \in DOMAIN w

(* v is w halved i times, in places fn and sn. *)
HalvedTo(w, i, v, fn, sn) ==
    /\ v = [w EXCEPT !.fn = fn, !.sn = sn]
    /\ i = 0 => fn = w.fn /\ sn = w.sn
    /\ i = 1 => fn = w.fn \div 2 /\ sn = w.sn \div 2
    /\ \A x, h \in Nat : Level(x, h, w.fn) => Level(x, h + i, fn)
    /\ \A x, h \in Nat : Level(x, h, w.sn) => Level(x, h + i, sn)

LEMMA HalvedNever ==
    ASSUME NEW w, IsPlaced(w)
    PROVE  HalvedTo(w, 0, w, w.fn, w.sn)
<1>1. \A h \in Nat : h + 0 = h
  OBVIOUS
<1> QED
  BY <1>1 DEF HalvedTo, IsPlaced

LEMMA HalvedAgain ==
    ASSUME NEW w, IsPlaced(w), NEW i \in Nat, NEW v, NEW fn, NEW sn, HalvedTo(w, i, v, fn, sn)
    PROVE  HalvedTo(w, i + 1, Halved(v), fn \div 2, sn \div 2)
<1>1. v = [w EXCEPT !.fn = fn, !.sn = sn] /\ "fn" \in DOMAIN w /\ "sn" \in DOMAIN w
  BY DEF HalvedTo, IsPlaced
<1>2. Halved(v) = [w EXCEPT !.fn = fn \div 2, !.sn = sn \div 2]
  BY <1>1 DEF Halved
<1>3. ASSUME NEW x \in Nat, NEW h \in Nat, NEW y, Level(x, h + i, y)
      PROVE  Level(x, h + (i + 1), y \div 2)
  <2>1. h + i \in Nat /\ (h + i) + 1 = h + (i + 1)
    OBVIOUS
  <2> QED
    BY <1>3, <2>1, LevelHalf
<1>4. /\ \A x, h \in Nat : Level(x, h, w.fn) => Level(x, h + (i + 1), fn \div 2)
      /\ \A x, h \in Nat : Level(x, h, w.sn) => Level(x, h + (i + 1), sn \div 2)
  BY <1>3 DEF HalvedTo
<1>5. i + 1 = 1 => fn = w.fn /\ sn = w.sn
  BY DEF HalvedTo
<1> QED
  BY <1>2, <1>4, <1>5 DEF HalvedTo

LEMMA HalveIs ==
    ASSUME NEW w, IsPlaced(w), NEW times \in Nat
    PROVE  \E fn, sn : HalvedTo(w, times, Halve(w, times), fn, sn)
<1> DEFINE f == CHOOSE f : Halves(f, w, times)
           Bad == {i \in 0..times : ~ \E fn, sn : HalvedTo(w, i, f[i], fn, sn)}
<1>1. Halves(f, w, times)
  BY HalvesExist
<1>2. Halve(w, times) = f[times]
  BY Zenon DEF Halve, Halves, Halved
<1> HIDE DEF f
<1>3. \A i \in 0..times : f[i] = IF i = 0 THEN w ELSE Halved(f[i - 1])
  BY <1>1 DEF Halves
<1>4. Bad = {}
  <2>1. SUFFICES ASSUME Bad # {} PROVE FALSE
    OBVIOUS
  <2>2. PICK i \in Bad : \A j \in Bad : i <= j
    <3>1. Bad \in SUBSET Nat
      OBVIOUS
    <3> HIDE DEF Bad
    <3> QED
      BY <2>1, <3>1, LeastNat
  <2>3. i \in 0..times /\ ~ \E fn, sn : HalvedTo(w, i, f[i], fn, sn)
    BY <2>2
  <2>4. CASE i = 0
    <3>1. f[0] = w
      BY <1>3, <2>3
    <3> QED
      BY <2>3, <2>4, <3>1, HalvedNever
  <2>5. CASE i # 0
    <3> DEFINE j == i - 1
    <3>1. j \in 0..times /\ i = j + 1 /\ j \in Nat /\ j < i
      BY <2>3, <2>5
    <3>5. f[i] = Halved(f[j])
      BY <1>3, <2>3, <2>5
    <3> HIDE DEF j
    <3>2. j \notin Bad
      <4> HIDE DEF Bad
      <4> QED
        BY <2>2, <2>3, <3>1
    <3>3. PICK fn, sn : HalvedTo(w, j, f[j], fn, sn)
      BY <3>1, <3>2
    <3>6. HalvedTo(w, i, f[i], fn \div 2, sn \div 2)
      BY <3>1, <3>3, <3>5, HalvedAgain
    <3> QED
      BY <2>3, <3>6
  <2> QED
    BY <2>4, <2>5
<1>5. times \in 0..times /\ times \notin Bad
  BY <1>4
<1> QED
  BY <1>2, <1>5

LEMMA RiseIs ==
    ASSUME NEW q \in Nat, NEW d \in Nat
    PROVE  Rise((2 * q + 1) * Pow(d)) = d + 1
BY ZerosAre DEF Rise

LEMMA RiseNat ==
    ASSUME NEW fn \in Nat \ {0}
    PROVE  Rise(fn) \in Nat
BY OddPart, RiseIs

(* A left child takes its sibling from the right, and rises one level. *)
LEMMA LeftChild ==
    ASSUME NEW w, NEW n \in Nat, NEW h \in Nat, NEW q \in Nat, w.fn = 2 * q, Level(n, h, w.sn),
           (2 * q + 1) * Pow(h) < n
    PROVE  w.sn # 0 /\ ~ FromLeft(w)
<1> DEFINE sn == w.sn
           p == Pow(h)
<1>1. sn \in Nat /\ p \in Nat /\ n <= (sn + 1) * p
  BY PowIs DEF Level
<1> HIDE DEF p
<1>2. (2 * q + 1) * p < n
  BY DEF p
<1> HIDE DEF sn
<1>3. (2 * q + 1) * p < (sn + 1) * p
  <2>1. (2 * q + 1) * p \in Nat /\ (sn + 1) * p \in Nat
    BY <1>1
  <2> QED
    BY <1>1, <1>2, <2>1
<1>4. 2 * q + 1 < sn + 1
  BY <1>1, <1>3, MulLess
<1>5. (2 * q) % 2 # 1
  BY HalfIs
<1> QED
  BY <1>1, <1>4, <1>5 DEF FromLeft, sn

(* A right child, seen from the level of its own block: it is odd there,   *)
(* or the last of its level until it is.                                   *)
LEMMA RightChild ==
    ASSUME NEW w, NEW n \in Nat, NEW g \in Nat, NEW q \in Nat, NEW d \in Nat,
           w.fn = (2 * q + 1) * Pow(d), Level(n, g, w.sn),
           w.fn * Pow(g) < n, d = 0 \/ n <= (w.fn + 1) * Pow(g)
    PROVE  w.fn \in Nat \ {0} /\ w.sn # 0 /\ FromLeft(w) /\ Rise(w.fn) = d + 1
<1> DEFINE sn == w.sn
           fn == w.fn
           p == Pow(g)
<1>1. sn \in Nat /\ p \in Nat /\ n <= (sn + 1) * p /\ sn * p < n
  BY PowIs DEF Level
<1>2. fn \in Nat \ {0}
  <2>1. Pow(d) \in Nat \ {0}
    BY PowIs
  <2>2. \A y \in Nat \ {0} : (2 * q + 1) * y \in Nat \ {0}
    <3> SUFFICES ASSUME NEW y \in Nat \ {0} PROVE (2 * q + 1) * y \in Nat \ {0}
      OBVIOUS
    <3>1. (2 * q + 1) * y = 2 * (q * y) + y /\ q * y \in Nat
      OBVIOUS
    <3> QED
      BY <3>1
  <2> QED
    BY <2>1, <2>2
<1>3. Rise(fn) = d + 1
  BY RiseIs
<1>4. d = 0 => fn % 2 = 1
  <2>1. d = 0 => fn = 2 * q + 1
    BY PowIs
  <2> QED
    BY <2>1
<1>5. fn * p < n /\ (d = 0 \/ n <= (fn + 1) * p)
  OBVIOUS
<1> HIDE DEF fn, sn, p
<1>6. fn * p \in Nat /\ sn * p \in Nat /\ (fn + 1) * p \in Nat /\ (sn + 1) * p \in Nat
  BY <1>1, <1>2
<1>7. fn < sn + 1
  <2>1. fn * p < (sn + 1) * p
    BY <1>1, <1>5, <1>6
  <2> QED
    BY <1>1, <1>2, <2>1, MulLess
<1>8. d # 0 => sn < fn + 1
  <2>1. d # 0 => sn * p < (fn + 1) * p
    BY <1>1, <1>5, <1>6
  <2> QED
    BY <1>1, <1>2, <2>1, MulLess
<1>9. d # 0 => fn = sn
  BY <1>1, <1>2, <1>7, <1>8
<1> QED
  BY <1>1, <1>2, <1>3, <1>4, <1>7, <1>9 DEF FromLeft, fn, sn

IsStep(w) == \E fn, sn \in Nat : \E r : \E ok \in BOOLEAN : w = [fn |-> fn, sn |-> sn, r |-> r, ok |-> ok]

(* v is w risen by t levels with hash r. *)
Risen(w, t, v, r) ==
    /\ IsStep(v) /\ v.ok = w.ok /\ v.r = r
    /\ \A x, h \in Nat : Level(x, h, w.fn) => Level(x, h + t, v.fn)
    /\ \A x, h \in Nat : Level(x, h, w.sn) => Level(x, h + t, v.sn)

LEMMA HalveRises ==
    ASSUME NEW w, IsStep(w), NEW t \in Nat, NEW r
    PROVE  Risen(w, t, Halve([w EXCEPT !.r = r], t), r)
<1>1. PICK fn \in Nat, sn \in Nat :
        \E r0 : \E ok \in BOOLEAN : w = [fn |-> fn, sn |-> sn, r |-> r0, ok |-> ok]
  BY DEF IsStep
<1>2. PICK r0 : \E ok \in BOOLEAN : w = [fn |-> fn, sn |-> sn, r |-> r0, ok |-> ok]
  BY <1>1
<1>3. PICK ok \in BOOLEAN : w = [fn |-> fn, sn |-> sn, r |-> r0, ok |-> ok]
  BY <1>2
<1> DEFINE u == [fn |-> fn, sn |-> sn, r |-> r, ok |-> ok]
<1>4. [w EXCEPT !.r = r] = u /\ w.fn = fn /\ w.sn = sn /\ w.ok = ok
  BY <1>3
<1>5. IsPlaced(u) /\ u.fn = fn /\ u.sn = sn
  BY DEF IsPlaced
<1> HIDE DEF u
<1>6. PICK a, b : HalvedTo(u, t, Halve(u, t), a, b)
  BY <1>5, HalveIs
<1>7. /\ \A x, h \in Nat : Level(x, h, fn) => Level(x, h + t, a)
      /\ \A x, h \in Nat : Level(x, h, sn) => Level(x, h + t, b)
  BY <1>5, <1>6 DEF HalvedTo
<1>8. a \in Nat /\ b \in Nat
  <2>1. Level(fn + 1, 0, fn) /\ Level(sn + 1, 0, sn) /\ fn + 1 \in Nat /\ sn + 1 \in Nat
    BY LevelZero
  <2>2. Level(fn + 1, 0 + t, a) /\ Level(sn + 1, 0 + t, b)
    BY <1>7, <2>1
  <2> QED
    BY <2>2 DEF Level
<1>9. Halve(u, t) = [fn |-> a, sn |-> b, r |-> r, ok |-> ok]
  <2>1. Halve(u, t) = [u EXCEPT !.fn = a, !.sn = b]
    BY <1>6 DEF HalvedTo
  <2> QED
    BY <2>1 DEF u
<1> DEFINE v == Halve(u, t)
<1>10. v.fn = a /\ v.sn = b /\ v.r = r /\ v.ok = ok
  BY <1>9
<1>11. IsStep(v)
  BY <1>8, <1>9, Zenon DEF IsStep
<1> HIDE DEF v
<1>12. Risen(w, t, v, r)
  BY <1>4, <1>7, <1>10, <1>11 DEF Risen
<1> QED
  BY <1>4, <1>12 DEF v

(* One sibling, from the right or from the left. *)
LEMMA ClimbIs ==
    ASSUME NEW w, IsStep(w), NEW p
    PROVE  /\ w.sn = 0 => IsStep(Climb(w, p)) /\ Climb(w, p).ok = FALSE
           /\ w.sn # 0 /\ ~ FromLeft(w) => Risen(w, 1, Climb(w, p), NodeHash(w.r, p))
           /\ w.sn # 0 /\ FromLeft(w) => w.fn \in Nat \ {0} /\ Risen(w, Rise(w.fn), Climb(w, p), NodeHash(p, w.r))
<1>1. w.fn \in Nat /\ w.sn \in Nat
  BY DEF IsStep
<1>2. CASE w.sn = 0
  <2>1. Climb(w, p) = [w EXCEPT !.ok = FALSE]
    BY <1>2 DEF Climb
  <2>2. PICK fn \in Nat, sn \in Nat :
          \E r0 : \E ok \in BOOLEAN : w = [fn |-> fn, sn |-> sn, r |-> r0, ok |-> ok]
    BY DEF IsStep
  <2>3. PICK r0 : \E ok \in BOOLEAN : w = [fn |-> fn, sn |-> sn, r |-> r0, ok |-> ok]
    BY <2>2
  <2>6. PICK ok \in BOOLEAN : w = [fn |-> fn, sn |-> sn, r |-> r0, ok |-> ok]
    BY <2>3
  <2>4. Climb(w, p) = [fn |-> fn, sn |-> sn, r |-> r0, ok |-> FALSE]
    BY <2>1, <2>6
  <2>5. IsStep(Climb(w, p))
    BY <2>4, Zenon DEF IsStep
  <2> QED
    BY <1>2, <2>4, <2>5
<1>3. CASE w.sn # 0 /\ ~ FromLeft(w)
  <2>1. Climb(w, p) = Halve([w EXCEPT !.r = NodeHash(w.r, p)], 1)
    BY <1>3 DEF Climb, IsStep
  <2> QED
    BY <1>3, <2>1, HalveRises
<1>4. CASE w.sn # 0 /\ FromLeft(w)
  <2>1. Climb(w, p) = Halve([w EXCEPT !.r = NodeHash(p, w.r)], Rise(w.fn))
    BY <1>4 DEF Climb, IsStep
  <2>2. w.fn \in Nat \ {0}
    BY <1>1, <1>4 DEF FromLeft
  <2> QED
    BY <1>4, <2>1, <2>2, HalveRises, RiseNat
<1> QED
  BY <1>2, <1>3, <1>4

---------------------------------------------------------------------------
(* The subtree over w leaves from s on is block q of level h in a tree of  *)
(* n leaves: full, or the last of its level.                               *)
Block(n, h, q, w, s) ==
    /\ h \in Nat /\ q \in Nat /\ w \in Nat \ {0} /\ s \in Nat
    /\ s = q * Pow(h) /\ s + w <= n
    /\ w <= Pow(h) /\ Pow(h) < 2 * w
    /\ w = Pow(h) \/ s + w = n

LEMMA WholeBlock ==
    ASSUME NEW n \in Nat \ {0}
    PROVE  \E h \in Nat : Block(n, h, 0, n, 0)
<1>1. PICK h \in Nat : n <= Pow(h) /\ Pow(h) < 2 * n
  BY PowAbove
<1>2. 0 = 0 * Pow(h)
  BY PowIs
<1> QED
  BY <1>1, <1>2 DEF Block

LEMMA OneBlock ==
    ASSUME NEW n \in Nat, NEW h, NEW q, NEW s, Block(n, h, q, 1, s)
    PROVE  h = 0 /\ q = s
<1>1. h \in Nat /\ Pow(h) < 2 /\ Pow(h) \in Nat /\ Pow(0) = 1 /\ s = q * Pow(h) /\ q \in Nat
  BY PowIs DEF Block
<1>2. 0 < h => 2 * Pow(0) <= Pow(h)
  BY <1>1, PowLess
<1>3. h = 0
  BY <1>1, <1>2
<1> QED
  BY <1>1, <1>3

(* The halves of a block are blocks. *)
LEMMA BlockHalves ==
    ASSUME NEW n \in Nat, NEW h, NEW q, NEW w, NEW s, Block(n, h, q, w, s), w >= 2
    PROVE  \E g \in Nat :
             /\ h = g + 1 /\ SplitPoint(w) = Pow(g) /\ Pow(g) \in 1..(w - 1) /\ w <= 2 * Pow(g)
             /\ (2 * q + 1) * Pow(g) = s + Pow(g)
             /\ Block(n, g, 2 * q, Pow(g), s)
             /\ \E e, d \in Nat :
                  /\ g = e + d
                  /\ Block(n, e, (2 * q + 1) * Pow(d), w - Pow(g), s + Pow(g))
                  /\ d = 0 \/ s + w = n
<1>1. /\ h \in Nat /\ q \in Nat /\ w \in Nat \ {0} /\ s \in Nat
      /\ s = q * Pow(h) /\ s + w <= n
      /\ w <= Pow(h) /\ Pow(h) < 2 * w
      /\ w = Pow(h) \/ s + w = n
  BY DEF Block
<1>2. PICK g \in Nat : SplitPoint(w) = Pow(g) /\ Pow(g) < w /\ w <= 2 * Pow(g)
  BY <1>1, SplitIs
<1> DEFINE k == Pow(g)
<1>3. k \in Nat \ {0} /\ Pow(g + 1) = 2 * k /\ Pow(h) \in Nat
  BY <1>1, PowIs
<1>4. h = g + 1
  <2>1. ~ (h < g + 1)
    <3>1. ~ (h < g) /\ h # g
      BY <1>1, <1>2, <1>3, PowLess
    <3> QED
      BY <1>1, <3>1
  <2>2. ~ (g + 1 < h)
    <3>1. g + 1 < h => 2 * Pow(g + 1) <= Pow(h)
      BY <1>1, PowLess
    <3> QED
      BY <1>1, <1>2, <1>3, <3>1
  <2> QED
    BY <1>1, <2>1, <2>2
<1>5. s = q * (2 * k) /\ (w = 2 * k \/ s + w = n)
  BY <1>1, <1>3, <1>4
<1> HIDE DEF k
<1>6. q * (2 * k) = (2 * q) * k /\ (2 * q + 1) * k = (2 * q) * k + k
  BY <1>1, <1>3
<1>7. k \in 1..(w - 1) /\ w <= 2 * k
  BY <1>1, <1>2, <1>3 DEF k
<1>8. (2 * q + 1) * k = s + k
  BY <1>5, <1>6
<1>9. Block(n, g, 2 * q, k, s)
  BY <1>1, <1>3, <1>5, <1>6, <1>7 DEF Block, k
<1>10. PICK e \in Nat : w - k <= Pow(e) /\ Pow(e) < 2 * (w - k)
  <2>1. w - k \in Nat \ {0}
    BY <1>1, <1>7
  <2> QED
    BY <2>1, PowAbove
<1>11. ~ (g < e) /\ Pow(e) \in Nat
  <2>1. g < e => 2 * k <= Pow(e)
    BY PowLess DEF k
  <2> QED
    BY <1>1, <1>3, <1>7, <1>10, <2>1, PowIs
<1> DEFINE d == g - e
<1>12. d \in Nat /\ g = e + d
  BY <1>11
<1> HIDE DEF d
<1>13. k = Pow(d) * Pow(e) /\ Pow(d) \in Nat /\ Pow(e) \in Nat
  BY <1>12, PowSum, PowIs DEF k
<1>14. s + k = ((2 * q + 1) * Pow(d)) * Pow(e) /\ (2 * q + 1) * Pow(d) \in Nat
  <2> DEFINE x == Pow(d)
             y == Pow(e)
  <2>1. x \in Nat /\ y \in Nat /\ k = x * y
    BY <1>13
  <2> HIDE DEF x, y
  <2>2. ((2 * q + 1) * x) * y = (2 * q + 1) * (x * y) /\ (2 * q + 1) * x \in Nat
    BY <1>1, <2>1
  <2> QED
    BY <1>8, <2>1, <2>2 DEF x, y
<1>15. w = 2 * k => d = 0
  <2>1. SUFFICES ASSUME w = 2 * k, d # 0 PROVE FALSE
    OBVIOUS
  <2>2. 2 * Pow(e) <= k
    BY <1>12, <2>1, PowLess DEF k
  <2> QED
    BY <1>3, <1>10, <1>11, <2>1, <2>2
<1>16. w = 2 * k => w - k = Pow(e)
  <2>1. w = 2 * k => g = e
    BY <1>12, <1>15
  <2> QED
    BY <1>3, <2>1 DEF k
<1>17. Block(n, e, (2 * q + 1) * Pow(d), w - k, s + k)
  <2>1. w - k \in Nat \ {0} /\ s + k \in Nat /\ (s + k) + (w - k) = s + w
    BY <1>1, <1>3, <1>7
  <2> HIDE DEF d
  <2> QED
    BY <1>1, <1>5, <1>10, <1>14, <1>16, <2>1 DEF Block
<1>18. d = 0 \/ s + w = n
  BY <1>5, <1>15
<1> QED
  BY <1>2, <1>4, <1>7, <1>8, <1>9, <1>12, <1>17, <1>18 DEF k

(* Where leaf j stands at the level of a block it is in. *)
LEMMA InBlock ==
    ASSUME NEW n \in Nat, NEW h, NEW q, NEW w, NEW s, Block(n, h, q, w, s),
           NEW j \in s..(s + w - 1), NEW fn, Level(j + 1, h, fn)
    PROVE  fn = q
<1> DEFINE p == Pow(h)
           m == q * p
<1>1. h \in Nat /\ q \in Nat /\ p \in Nat /\ w \in Nat /\ s = m /\ m \in Nat /\ w <= p /\ j + 1 \in Nat
  BY PowIs DEF Block
<1>2. (q + 1) * p = m + p
  BY <1>1
<1> HIDE DEF m
<1>3. m < j + 1 /\ j + 1 <= (q + 1) * p
  BY <1>1, <1>2
<1>4. Level(j + 1, h, q)
  BY <1>1, <1>3 DEF Level, m
<1> QED
  BY <1>1, <1>4, LevelOnly

(* The walk u of leaf j, of n, is at level h. *)
Stands(u, n, j, h) == IsStep(u) /\ u.ok = TRUE /\ Level(j + 1, h, u.fn) /\ Level(n, h, u.sn)

LEMMA StandsRisen ==
    ASSUME NEW u, NEW n \in Nat, NEW j \in Nat, NEW h \in Nat, Stands(u, n, j, h),
           NEW t \in Nat, NEW v, NEW r, Risen(u, t, v, r)
    PROVE  Stands(v, n, j, h + t) /\ v.r = r
BY DEF Stands, Risen

(* Leaf j is in a left half, of k leaves from s on, that has a right one. *)
InLeft(n, g, q, k, s, j) ==
    /\ n \in Nat /\ q \in Nat /\ Block(n, g, 2 * q, k, s) /\ (2 * q + 1) * Pow(g) < n
    /\ j \in s..(s + k - 1)

LEMMA ToTheRight ==
    ASSUME NEW n, NEW g, NEW q, NEW k, NEW s, NEW j, InLeft(n, g, q, k, s, j),
           NEW u, Stands(u, n, j, g), NEW p
    PROVE  u.sn # 0 /\ Stands(Climb(u, p), n, j, g + 1) /\ Climb(u, p).r = NodeHash(u.r, p)
<1>0. /\ n \in Nat /\ q \in Nat /\ Block(n, g, 2 * q, k, s) /\ (2 * q + 1) * Pow(g) < n
      /\ j \in s..(s + k - 1)
  BY DEF InLeft
<1>1. g \in Nat /\ j \in Nat /\ IsStep(u) /\ Level(j + 1, g, u.fn) /\ Level(n, g, u.sn)
  BY <1>0 DEF Block, Stands
<1>2. u.fn = 2 * q
  BY <1>0, <1>1, InBlock
<1>3. u.sn # 0 /\ ~ FromLeft(u)
  BY <1>0, <1>1, <1>2, LeftChild
<1>4. Risen(u, 1, Climb(u, p), NodeHash(u.r, p))
  BY <1>1, <1>3, ClimbIs
<1> QED
  BY <1>0, <1>1, <1>3, <1>4, StandsRisen

(* Odd once halved d times. *)
OddAfter(x, d) == \E q \in Nat : x = (2 * q + 1) * Pow(d)

LEMMA ToTheLeft ==
    ASSUME NEW n \in Nat, NEW e \in Nat, NEW fn, NEW d \in Nat, OddAfter(fn, d), NEW w, NEW s,
           Block(n, e, fn, w, s),
           d = 0 \/ s + w = n, NEW j \in s..(s + w - 1), NEW u, Stands(u, n, j, e), NEW p,
           NEW h, h = e + (d + 1)
    PROVE  u.sn # 0 /\ Stands(Climb(u, p), n, j, h) /\ Climb(u, p).r = NodeHash(p, u.r)
<1>1. e \in Nat /\ j \in Nat /\ IsStep(u) /\ Level(j + 1, e, u.fn) /\ Level(n, e, u.sn)
  BY DEF Block, Stands
<1>8. PICK q \in Nat : fn = (2 * q + 1) * Pow(d)
  BY DEF OddAfter
<1>2. u.fn = fn
  BY <1>1, InBlock
<1>3. u.fn * Pow(e) < n /\ (d = 0 \/ n <= (u.fn + 1) * Pow(e))
  <2> DEFINE b == Pow(e)
             m == fn * b
  <2>1. fn \in Nat /\ b \in Nat /\ s = m /\ w \in Nat \ {0} /\ s + w <= n /\ w <= b
    BY <1>1, <1>2, PowIs DEF Block, Level
  <2> HIDE DEF b
  <2>2. m \in Nat /\ (fn + 1) * b = m + b
    BY <2>1
  <2> HIDE DEF m
  <2>3. m < n /\ (d = 0 \/ n <= m + b)
    BY <2>1, <2>2
  <2> QED
    BY <1>2, <2>2, <2>3 DEF b, m
<1>4. u.fn \in Nat \ {0} /\ u.sn # 0 /\ FromLeft(u) /\ Rise(u.fn) = d + 1
  BY <1>1, <1>2, <1>3, <1>8, RightChild
<1>5. Risen(u, d + 1, Climb(u, p), NodeHash(p, u.r))
  BY <1>1, <1>4, ClimbIs
<1>6. PICK t, v, r : t = d + 1 /\ v = Climb(u, p) /\ r = NodeHash(p, u.r)
  OBVIOUS
<1>7. t \in Nat /\ j \in Nat /\ Stands(u, n, j, e) /\ Risen(u, t, v, r)
  BY <1>1, <1>5, <1>6
<1>9. Stands(v, n, j, e + t) /\ v.r = r
  BY <1>7, StandsRisen
<1> QED
  BY <1>4, <1>6, <1>9

(* A walk of leaf j along any hashes, for the first N of them. *)
WalkOf(W, P, N, leaf, j, n) ==
    /\ W[0] = [fn |-> j, sn |-> n - 1, r |-> leaf, ok |-> TRUE]
    /\ \A i \in 1..N : W[i] = Climb(W[i - 1], P[i])

(* What it has done once it stands over a block whose audit path has a     *)
(* hashes.                                                                 *)
Along(leaves, W, P, n, j, h, w, s, a) ==
    /\ Stands(W[a], n, j, h)
    /\ \A i \in 0..(a - 1) : W[i].sn # 0
    /\ w >= 2 =>
         /\ a >= 1
         /\ IF j < s + SplitPoint(w) THEN W[a].r = NodeHash(W[a - 1].r, P[a])
            ELSE W[a].r = NodeHash(P[a], W[a - 1].r)

LEMMA WalksAlong ==
    ASSUME NEW leaves, NEW n \in Nat, Len(leaves) = n, NEW j \in Nat, NEW f, IsPathOver(leaves, j, f),
           NEW W, NEW P, NEW N \in Nat, NEW leaf, WalkOf(W, P, N, leaf, j, n)
    PROVE  \A w \in 1..n : \A s \in 0..(n - w) : \A h, q :
             Block(n, h, q, w, s) /\ j \in s..(s + w - 1) /\ Len(f[w][s]) <= N
               => Along(leaves, W, P, n, j, h, w, s, Len(f[w][s]))
<1> DEFINE Fine(w) == \A s \in 0..(n - w) : \A h, q :
             Block(n, h, q, w, s) /\ j \in s..(s + w - 1) /\ Len(f[w][s]) <= N
               => Along(leaves, W, P, n, j, h, w, s, Len(f[w][s]))
           Bad == {w \in 1..n : ~ Fine(w)}
<1>1. SUFFICES ASSUME Bad # {} PROVE FALSE
  <2>1. \A w \in 1..n : w \in Bad \/ Fine(w)
    OBVIOUS
  <2>2. \A w \in 1..n : Fine(w)
    <3> HIDE DEF Bad, Fine
    <3> QED
      BY <1>1, <2>1
  <2> QED
    BY <2>2
<1>2. PICK w \in Bad : \A i \in Bad : w <= i
  <2>1. Bad \in SUBSET Nat
    OBVIOUS
  <2> HIDE DEF Bad
  <2> QED
    BY <1>1, <2>1, LeastNat
<1>3. w \in 1..n /\ ~ Fine(w)
  OBVIOUS
<1>4. \A i \in 1..(w - 1) : Fine(i)
  <2> HIDE DEF Fine
  <2>1. \A i \in 1..(w - 1) : i \in 1..n /\ i \notin Bad
    BY <1>2, <1>3
  <2> QED
    BY <2>1
<1> HIDE DEF Bad
<1>8. PICK s \in 0..(n - w) : \E h, q :
        /\ Block(n, h, q, w, s) /\ j \in s..(s + w - 1) /\ Len(f[w][s]) <= N
        /\ ~ Along(leaves, W, P, n, j, h, w, s, Len(f[w][s]))
  BY <1>3
<1>5. PICK h, q :
        /\ Block(n, h, q, w, s) /\ j \in s..(s + w - 1) /\ Len(f[w][s]) <= N
        /\ ~ Along(leaves, W, P, n, j, h, w, s, Len(f[w][s]))
  BY <1>8
<1> HIDE DEF Fine
<1>6. CASE w = 1
  <2>1. f[w][s] = << >>
    BY <1>3, <1>6 DEF IsPathOver
  <2>2. h = 0 /\ j = s
    BY <1>5, <1>6, OneBlock
  <2>3. n - 1 \in Nat /\ (n - 1) + 1 = n /\ Level(n, 0, n - 1) /\ Level(j + 1, 0, j)
    <3>1. n - 1 \in Nat /\ (n - 1) + 1 = n
      BY <1>3
    <3> QED
      BY <3>1, LevelZero
  <2>4. W[0] = [fn |-> j, sn |-> n - 1, r |-> leaf, ok |-> TRUE]
    BY DEF WalkOf
  <2>5. IsStep(W[0])
    BY <2>3, <2>4, Zenon DEF IsStep
  <2>6. Stands(W[0], n, j, 0)
    BY <2>3, <2>4, <2>5 DEF Stands
  <2>7. Along(leaves, W, P, n, j, h, w, s, 0)
    BY <1>6, <2>2, <2>6 DEF Along
  <2> QED
    BY <1>5, <2>1, <2>7
<1>7. CASE w >= 2
  <2>1. PICK g \in Nat :
             /\ h = g + 1 /\ SplitPoint(w) = Pow(g) /\ Pow(g) \in 1..(w - 1)
             /\ (2 * q + 1) * Pow(g) = s + Pow(g)
             /\ Block(n, g, 2 * q, Pow(g), s)
             /\ \E e, d \in Nat :
                  /\ g = e + d
                  /\ Block(n, e, (2 * q + 1) * Pow(d), w - Pow(g), s + Pow(g))
                  /\ d = 0 \/ s + w = n
    BY <1>5, <1>7, BlockHalves
  <2> DEFINE k == Pow(g)
  <2>2. /\ SplitPoint(w) = k /\ k \in 1..(w - 1) /\ w - k \in 1..(w - 1) /\ w \in 0..n
        /\ k \in 0..n /\ w - k \in 0..n /\ s \in 0..(n - k) /\ s + k \in 0..(n - (w - k))
        /\ n \in Nat /\ s \in Nat /\ q \in Nat /\ s + k < n
        /\ (s + k) + (w - k) = s + w /\ j \in s..(s + w - 1)
    <3>1. SplitPoint(w) = k /\ k \in 1..(w - 1) /\ j \in s..(s + w - 1) /\ q \in Nat
      BY <1>5, <2>1 DEF Block
    <3> HIDE DEF k
    <3> QED
      BY <1>3, <1>5, <1>7, <3>1
  <2>3. f[w][s] = IF j < s + k THEN Append(f[k][s], Root(leaves, w - k, s + k))
                  ELSE Append(f[w - k][s + k], Root(leaves, k, s))
    <3> HIDE DEF k
    <3> QED
      BY <1>7, <2>2 DEF IsPathOver
  <2>4. PICK U : f[k][s] \in Seq(U) /\ f[w - k][s + k] \in Seq(U)
    <3>1. PICK U : \A v \in 0..n : \A t \in 0..(n - v) : f[v][t] \in Seq(U)
      BY PathIsSeq
    <3> HIDE DEF k
    <3> QED
      BY <2>2, <3>1
  <2> DEFINE a == Len(f[w][s])
  <2>5. CASE j < s + k
    <3> DEFINE b == Len(f[k][s])
    <3>1. b \in Nat /\ a = b + 1
      <4> HIDE DEF k
      <4> QED
        BY <2>3, <2>4, <2>5
    <3> HIDE DEF a, b
    <3>2. a \in 1..N /\ b <= N /\ a - 1 = b
      BY <1>5, <3>1 DEF a
    <3>3. j \in s..(s + k - 1)
      <4> HIDE DEF k
      <4> QED
        BY <2>2, <2>5
    <3>4. Along(leaves, W, P, n, j, g, k, s, b)
      BY <1>4, <2>1, <2>2, <3>2, <3>3 DEF Fine, b
    <3>5. Stands(W[b], n, j, g) /\ \A i \in 0..(b - 1) : W[i].sn # 0
      BY <3>4 DEF Along
    <3>6. W[a] = Climb(W[b], P[a])
      BY <3>2 DEF WalkOf
    <3>7. W[b].sn # 0 /\ Stands(W[a], n, j, h) /\ W[a].r = NodeHash(W[b].r, P[a])
      <4>1. (2 * q + 1) * Pow(g) < n /\ h = g + 1 /\ Block(n, g, 2 * q, k, s)
        BY <2>1, <2>2
      <4> HIDE DEF k
      <4>3. q \in Nat /\ n \in Nat /\ Stands(W[b], n, j, g)
        BY <2>2, <3>5
      <4>2. /\ W[b].sn # 0 /\ Stands(Climb(W[b], P[a]), n, j, g + 1)
            /\ Climb(W[b], P[a]).r = NodeHash(W[b].r, P[a])
        <5>1. InLeft(n, g, q, k, s, j)
          BY <3>3, <4>1, <4>3 DEF InLeft
        <5> QED
          BY <4>3, <5>1, ToTheRight
      <4> QED
        BY <3>6, <4>1, <4>2
    <3>8. \A i \in 0..(a - 1) : i = b \/ i \in 0..(b - 1)
      BY <3>1
    <3>9. Along(leaves, W, P, n, j, h, w, s, a)
      <4>1. j < s + SplitPoint(w) /\ a >= 1 /\ W[a - 1] = W[b]
        BY <2>2, <2>5, <3>1, <3>2
      <4>2. \A i \in 0..(a - 1) : W[i].sn # 0
        BY <3>5, <3>7, <3>8
      <4> HIDE DEF k
      <4> QED
        BY <3>7, <4>1, <4>2 DEF Along
    <3> QED
      BY <1>5, <3>9 DEF a
  <2>6. CASE ~ (j < s + k)
    <3> DEFINE b == Len(f[w - k][s + k])
    <3>1. b \in Nat /\ a = b + 1
      <4> HIDE DEF k
      <4> QED
        BY <2>3, <2>4, <2>6
    <3> HIDE DEF a, b
    <3>2. a \in 1..N /\ b <= N /\ a - 1 = b
      BY <1>5, <3>1 DEF a
    <3>3. j \in (s + k)..((s + k) + (w - k) - 1)
      <4> HIDE DEF k
      <4> QED
        BY <2>2, <2>6
    <3>10. PICK e \in Nat, d \in Nat :
              /\ g = e + d
              /\ Block(n, e, (2 * q + 1) * Pow(d), w - k, s + k)
              /\ d = 0 \/ s + w = n
      BY <2>1
    <3>4. Along(leaves, W, P, n, j, e, w - k, s + k, b)
      BY <1>4, <2>2, <3>2, <3>3, <3>10 DEF Fine, b
    <3>5. Stands(W[b], n, j, e) /\ \A i \in 0..(b - 1) : W[i].sn # 0
      BY <3>4 DEF Along
    <3>6. W[a] = Climb(W[b], P[a])
      BY <3>2 DEF WalkOf
    <3>11. h = e + (d + 1)
      BY <2>1, <3>10
    <3>7. W[b].sn # 0 /\ Stands(W[a], n, j, h) /\ W[a].r = NodeHash(P[a], W[b].r)
      <4> HIDE DEF k
      <4>1. q \in Nat /\ n \in Nat /\ Stands(W[b], n, j, e)
        BY <2>2, <3>5
      <4> DEFINE x == w - k
                 y == s + k
                 z == (2 * q + 1) * Pow(d)
      <4>3. /\ d = 0 \/ y + x = n
            /\ Block(n, e, z, x, y) /\ OddAfter(z, d)
            /\ j \in y..(y + x - 1)
        BY <2>2, <3>3, <3>10 DEF OddAfter
      <4> HIDE DEF x, y, z
      <4>2. /\ W[b].sn # 0 /\ Stands(Climb(W[b], P[a]), n, j, h)
            /\ Climb(W[b], P[a]).r = NodeHash(P[a], W[b].r)
        BY <3>11, <4>1, <4>3, ToTheLeft
      <4> QED
        BY <3>6, <3>11, <4>2
    <3>8. \A i \in 0..(a - 1) : i = b \/ i \in 0..(b - 1)
      BY <3>1
    <3>9. Along(leaves, W, P, n, j, h, w, s, a)
      <4>1. ~ (j < s + SplitPoint(w)) /\ a >= 1 /\ W[a - 1] = W[b]
        BY <2>2, <2>6, <3>1, <3>2
      <4>2. \A i \in 0..(a - 1) : W[i].sn # 0
        BY <3>5, <3>7, <3>8
      <4> HIDE DEF k
      <4> QED
        BY <3>7, <4>1, <4>2 DEF Along
    <3> QED
      BY <1>5, <3>9 DEF a
  <2> QED
    BY <2>5, <2>6
<1> QED
  BY <1>3, <1>6, <1>7

(* The half of a block that leaf j is in, and its sibling. *)
HalfWidth(w, s, j) == IF j < s + SplitPoint(w) THEN SplitPoint(w) ELSE w - SplitPoint(w)
HalfFrom(w, s, j) == IF j < s + SplitPoint(w) THEN s ELSE s + SplitPoint(w)
Sibling(leaves, w, s, j) ==
    IF j < s + SplitPoint(w) THEN Root(leaves, w - SplitPoint(w), s + SplitPoint(w))
    ELSE Root(leaves, SplitPoint(w), s)

(* The path over a block is that over the half v, t with its sibling. *)
HalfOf(leaves, n, f, w, s, j, v, t, sib) ==
    /\ v = HalfWidth(w, s, j) /\ t = HalfFrom(w, s, j) /\ sib = Sibling(leaves, w, s, j)
    /\ v \in 1..(w - 1) /\ t \in 0..(n - v) /\ j \in t..(t + v - 1)
    /\ \E h2, q2 : Block(n, h2, q2, v, t)
    /\ Len(f[v][t]) \in Nat /\ Len(f[w][s]) = Len(f[v][t]) + 1
    /\ \A i \in 1..Len(f[v][t]) : f[w][s][i] = f[v][t][i]
    /\ f[w][s][Len(f[w][s])] = sib

LEMMA PathHalf ==
    ASSUME NEW leaves, NEW n \in Nat, Len(leaves) = n, NEW j \in Nat, NEW f, IsPathOver(leaves, j, f),
           NEW h, NEW q, NEW w, NEW s, Block(n, h, q, w, s), w >= 2, j \in s..(s + w - 1)
    PROVE  \E v, t, sib : HalfOf(leaves, n, f, w, s, j, v, t, sib)
<1> DEFINE k == SplitPoint(w)
           v == IF j < s + k THEN k ELSE w - k
           t == IF j < s + k THEN s ELSE s + k
           sib == IF j < s + k THEN Root(leaves, w - k, s + k) ELSE Root(leaves, k, s)
           b == Len(f[v][t])
<1>1. PICK g \in Nat :
             /\ SplitPoint(w) = Pow(g) /\ Pow(g) \in 1..(w - 1)
             /\ Block(n, g, 2 * q, Pow(g), s)
             /\ \E e, d \in Nat :
                  Block(n, e, (2 * q + 1) * Pow(d), w - Pow(g), s + Pow(g))
  BY BlockHalves
<1>2. /\ k \in 1..(w - 1) /\ Block(n, g, 2 * q, k, s)
      /\ \E e, d \in Nat : Block(n, e, (2 * q + 1) * Pow(d), w - k, s + k)
  BY <1>1
<1>3. \E h2, q2 : Block(n, h2, q2, v, t)
  <2> HIDE DEF k
  <2> QED
    BY <1>2
<1>4. w \in 1..n /\ w \in 0..n /\ s \in 0..(n - w)
  BY DEF Block
<1> HIDE DEF k
<1>5. /\ v \in 1..(w - 1) /\ v \in 0..n /\ t \in 0..(n - v) /\ j \in t..(t + v - 1)
  BY <1>2, <1>4
<1>6. Root(leaves, w, s) = NodeHash(Root(leaves, k, s), Root(leaves, w - k, s + k))
  BY <1>4, RootsAre DEF Root, k
<1>7. f[w][s] = Append(f[v][t], sib)
  BY <1>4 DEF IsPathOver, k
<1>8. PICK U : f[v][t] \in Seq(U)
  <2>1. PICK U : \A x \in 0..n : \A y \in 0..(n - x) : f[x][y] \in Seq(U)
    BY PathIsSeq
  <2> HIDE DEF v, t
  <2> QED
    BY <1>5, <2>1
<1> HIDE DEF v, t, sib
<1>9. b \in Nat /\ Len(f[w][s]) = b + 1 /\ f[w][s][b + 1] = sib /\ \A i \in 1..b : f[w][s][i] = f[v][t][i]
  BY <1>7, <1>8
<1> HIDE DEF b
<1>10. v = HalfWidth(w, s, j) /\ t = HalfFrom(w, s, j) /\ sib = Sibling(leaves, w, s, j)
  BY DEF v, t, sib, k, HalfWidth, HalfFrom, Sibling
<1>11. HalfOf(leaves, n, f, w, s, j, v, t, sib)
  BY <1>3, <1>5, <1>9, <1>10 DEF HalfOf, b
<1> QED
  BY <1>11

LEMMA RootHalves ==
    ASSUME NEW leaves, NEW n \in Nat, Len(leaves) = n,
           NEW h, NEW q, NEW w, NEW s, Block(n, h, q, w, s), w >= 2
    PROVE  Root(leaves, w, s)
             = NodeHash(Root(leaves, SplitPoint(w), s), Root(leaves, w - SplitPoint(w), s + SplitPoint(w)))
<1>1. w \in 1..n /\ w \in 0..n /\ s \in 0..(n - w) /\ w >= 2
  BY DEF Block
<1> QED
  BY <1>1, RootsAre DEF Root

(* Leaf j's path over a block is the beginning of the hashes P. *)
Leads(n, j, f, P, N, w, s) ==
    /\ \E h, q : Block(n, h, q, w, s)
    /\ j \in s..(s + w - 1) /\ Len(f[w][s]) <= N
    /\ \A i \in 1..Len(f[w][s]) : P[i] = f[w][s][i]

PathClimbs(leaves, n, j, f, W, P, N) ==
    \A w \in 1..n : \A s \in 0..(n - w) :
        Leads(n, j, f, P, N, w, s) => W[Len(f[w][s])].r = Root(leaves, w, s)

(* Along its own audit path a leaf climbs from head to head. *)
LEMMA PathShows ==
    ASSUME NEW leaves, NEW n \in Nat, Len(leaves) = n, NEW j \in Nat, NEW f, IsPathOver(leaves, j, f),
           NEW W, NEW P, NEW N \in Nat, NEW leaf, leaf = leaves[j + 1], WalkOf(W, P, N, leaf, j, n)
    PROVE  PathClimbs(leaves, n, j, f, W, P, N)
<1> USE DEF PathClimbs
<1> USE DEF Leads
<1> DEFINE Fine(w) == \A s \in 0..(n - w) :
             Leads(n, j, f, P, N, w, s) => W[Len(f[w][s])].r = Root(leaves, w, s)
           Bad == {w \in 1..n : ~ Fine(w)}
<1>1. SUFFICES ASSUME Bad # {} PROVE FALSE
  <2>1. \A w \in 1..n : w \in Bad \/ Fine(w)
    OBVIOUS
  <2>2. \A w \in 1..n : Fine(w)
    <3> HIDE DEF Bad, Fine
    <3> QED
      BY <1>1, <2>1
  <2> QED
    BY <2>2
<1>2. PICK w \in Bad : \A i \in Bad : w <= i
  <2>1. Bad \in SUBSET Nat
    OBVIOUS
  <2> HIDE DEF Bad
  <2> QED
    BY <1>1, <2>1, LeastNat
<1>3. w \in 1..n /\ ~ Fine(w)
  OBVIOUS
<1>4. \A i \in 1..(w - 1) : Fine(i)
  <2> HIDE DEF Fine
  <2>1. \A i \in 1..(w - 1) : i \in 1..n /\ i \notin Bad
    BY <1>2, <1>3
  <2> QED
    BY <2>1
<1> HIDE DEF Bad
<1>5. PICK s \in 0..(n - w) :
        /\ \E h, q : Block(n, h, q, w, s)
        /\ j \in s..(s + w - 1) /\ Len(f[w][s]) <= N
        /\ \A i \in 1..Len(f[w][s]) : P[i] = f[w][s][i]
        /\ W[Len(f[w][s])].r # Root(leaves, w, s)
  BY <1>3
<1> HIDE DEF Fine
<1>6. PICK h, q : Block(n, h, q, w, s)
  BY <1>5
<1>7. CASE w = 1
  <2>1. f[w][s] = << >>
    BY <1>3, <1>7 DEF IsPathOver
  <2>4. j = s
    BY <1>5, <1>7
  <2>5. w \in 0..n /\ s \in 0..(n - w)
    BY <1>3
  <2>2. j = s /\ Root(leaves, w, s) = leaves[s + 1]
    BY <1>7, <2>4, <2>5, RootsAre DEF Root
  <2>3. W[0].r = leaves[j + 1]
    BY DEF WalkOf
  <2> QED
    BY <1>5, <2>1, <2>2, <2>3
<1>8. CASE w >= 2
  <2>1. PICK v, t, sib : HalfOf(leaves, n, f, w, s, j, v, t, sib)
    BY <1>5, <1>6, <1>8, PathHalf
  <2> DEFINE a == Len(f[w][s])
             b == Len(f[v][t])
             k == SplitPoint(w)
  <2>2. Along(leaves, W, P, n, j, h, w, s, a)
    BY <1>3, <1>5, <1>6, WalksAlong
  <2>3. IF j < s + k THEN W[a].r = NodeHash(W[a - 1].r, P[a]) ELSE W[a].r = NodeHash(P[a], W[a - 1].r)
    BY <1>8, <2>2 DEF Along
  <2>8. a <= N /\ (\A i \in 1..a : P[i] = f[w][s][i]) /\ W[a].r # Root(leaves, w, s)
    BY <1>5
  <2>4. /\ v \in 1..(w - 1) /\ t \in 0..(n - v) /\ j \in t..(t + v - 1)
        /\ \E h2, q2 : Block(n, h2, q2, v, t)
        /\ b \in Nat /\ a = b + 1
        /\ \A i \in 1..b : f[w][s][i] = f[v][t][i]
        /\ f[w][s][a] = sib
    BY <2>1 DEF HalfOf
  <2>10. Root(leaves, w, s) = NodeHash(Root(leaves, k, s), Root(leaves, w - k, s + k))
    BY <1>6, <1>8, RootHalves
  <2>11. IF j < s + k THEN v = k /\ t = s /\ sib = Root(leaves, w - k, s + k)
         ELSE v = w - k /\ t = s + k /\ sib = Root(leaves, k, s)
    BY <2>1 DEF HalfOf, HalfWidth, HalfFrom, Sibling
  <2> HIDE DEF a, k, b
  <2>5. b <= N /\ a \in 1..a /\ \A i \in 1..b : i \in 1..a
    BY <2>4, <2>8
  <2>6. W[b].r = Root(leaves, v, t)
    <3>1. \A i \in 1..b : P[i] = f[v][t][i]
      BY <2>4, <2>5, <2>8
    <3> QED
      BY <1>4, <2>4, <2>5, <3>1 DEF Fine, b
  <2>7. P[a] = sib /\ a - 1 = b
    BY <2>4, <2>5, <2>8
  <2>9. CASE j < s + k
    BY <2>3, <2>6, <2>7, <2>8, <2>9, <2>10, <2>11
  <2>12. CASE ~ (j < s + k)
    BY <2>3, <2>6, <2>7, <2>8, <2>10, <2>11, <2>12
  <2> QED
    BY <2>9, <2>12
<1> QED
  BY <1>3, <1>7, <1>8

---------------------------------------------------------------------------
(* The walk of a verifier. *)

Walks(f, start, proof, m) ==
    f = [i \in 0..m |-> IF i = 0 THEN start ELSE Climb(f[i - 1], proof[i])]

LEMMA WalksExist ==
    ASSUME NEW start, NEW proof, NEW n \in Nat
    PROVE  \E f : Walks(f, start, proof, n)
<1> DEFINE Bad == {m \in 0..n : ~ \E f : Walks(f, start, proof, m)}
<1>1. SUFFICES ASSUME Bad # {} PROVE FALSE
  <2>1. n \in Bad \/ \E f : Walks(f, start, proof, n)
    OBVIOUS
  <2> HIDE DEF Bad
  <2> QED
    BY <1>1, <2>1
<1>2. PICK m \in Bad : \A i \in Bad : m <= i
  <2>1. Bad \in SUBSET Nat
    OBVIOUS
  <2> HIDE DEF Bad
  <2> QED
    BY <1>1, <2>1, LeastNat
<1>3. m \in 0..n /\ ~ \E f : Walks(f, start, proof, m)
  BY <1>2
<1>4. PICK f : m > 0 => Walks(f, start, proof, m - 1)
  BY <1>2
<1> HIDE DEF Bad
<1> DEFINE g == [i \in 0..m |-> IF i = 0 THEN start
                                ELSE IF i = m THEN Climb(f[m - 1], proof[m]) ELSE f[i]]
<1>5. \A i \in 0..(m - 1) : f[i] = IF i = 0 THEN start ELSE Climb(f[i - 1], proof[i])
  BY <1>3, <1>4 DEF Walks
<1>6. ASSUME NEW i \in 0..m
      PROVE  g[i] = IF i = 0 THEN start ELSE Climb(g[i - 1], proof[i])
  <2>1. \A j \in 0..(m - 1) : g[j] = f[j]
    BY <1>3, <1>5
  <2>2. g[i] = IF i = 0 THEN start ELSE Climb(f[i - 1], proof[i])
    BY <1>3, <1>5
  <2>3. i # 0 => i - 1 \in 0..(m - 1)
    BY <1>3
  <2> HIDE DEF g
  <2> QED
    BY <2>1, <2>2, <2>3
<1>7. g = [i \in 0..m |-> g[i]]
  OBVIOUS
<1> HIDE DEF g
<1>8. [i \in 0..m |-> g[i]] = [i \in 0..m |-> IF i = 0 THEN start ELSE Climb(g[i - 1], proof[i])]
  BY <1>6
<1>9. Walks(g, start, proof, m)
  BY <1>7, <1>8 DEF Walks
<1> QED
  BY <1>3, <1>9

(* Heads over leaves that begin in different places differ. *)
LEMMA PlacesDiffer ==
    ASSUME NEW leaves, AreLeaves(leaves), DistinctLeaves(leaves), NEW n \in Nat, Len(leaves) = n,
           NEW v \in 1..n, NEW s \in 0..(n - v), NEW w \in 0..n, NEW t \in 0..(n - w), s # t
    PROVE  Root(leaves, v, s) # Root(leaves, w, t)
<1>1. SUFFICES ASSUME Root(leaves, v, s) = Root(leaves, w, t) PROVE FALSE
  OBVIOUS
<1>2. v \in 0..n /\ Binds(leaves, leaves, v)
  BY HeadBinds
<1>3. v = w /\ \A i \in 1..v : leaves[s + i] = leaves[t + i]
  BY <1>1, <1>2, Zenon DEF Binds
<1>4. leaves[s + 1] = leaves[t + 1] /\ s + 1 \in 1..n /\ t + 1 \in 1..n
  BY <1>3
<1> QED
  BY <1>4 DEF DistinctLeaves

LEMMA HalvesDiffer ==
    ASSUME NEW leaves, AreLeaves(leaves), DistinctLeaves(leaves), NEW n \in Nat, Len(leaves) = n,
           NEW h, NEW q, NEW w, NEW s, Block(n, h, q, w, s), w >= 2
    PROVE  Root(leaves, SplitPoint(w), s) # Root(leaves, w - SplitPoint(w), s + SplitPoint(w))
<1> DEFINE k == SplitPoint(w)
<1>1. w \in Nat /\ s \in Nat /\ s + w <= n /\ w >= 2
  BY DEF Block
<1>2. k \in 1..(w - 1)
  BY <1>1, SplitInside
<1> HIDE DEF k
<1>3. /\ k \in 1..n /\ s \in 0..(n - k) /\ w - k \in 0..n /\ s + k \in 0..(n - (w - k)) /\ s # s + k
  BY <1>1, <1>2
<1>4. Root(leaves, k, s) # Root(leaves, w - k, s + k)
  BY <1>3, PlacesDiffer
<1> QED
  BY <1>4 DEF k

(* Whatever climbs to the head of a block along the path of leaf p, in as  *)
(* many steps as its own path has, is leaf p.                              *)
ClimbsAs(leaves, n, j, fj, p, fp, W, P, N, w, s) ==
    /\ \E h, q : Block(n, h, q, w, s)
    /\ j \in s..(s + w - 1) /\ p \in s..(s + w - 1)
    /\ Len(fj[w][s]) = Len(fp[w][s]) /\ Len(fp[w][s]) <= N
    /\ \A i \in 1..Len(fp[w][s]) : P[i] = fp[w][s][i]
    /\ W[Len(fp[w][s])].r = Root(leaves, w, s)

LEMMA SamePlace ==
    ASSUME NEW leaves, AreLeaves(leaves), DistinctLeaves(leaves), NEW n \in Nat, Len(leaves) = n,
           NEW j \in Nat, NEW fj, IsPathOver(leaves, j, fj),
           NEW p \in Nat, NEW fp, IsPathOver(leaves, p, fp),
           NEW W, NEW P, NEW N \in Nat, NEW leaf, WalkOf(W, P, N, leaf, j, n)
    PROVE  \A w \in 1..n : \A s \in 0..(n - w) :
             ClimbsAs(leaves, n, j, fj, p, fp, W, P, N, w, s) => j = p /\ leaf = leaves[p + 1]
<1> DEFINE Fine(w) == \A s \in 0..(n - w) :
             ClimbsAs(leaves, n, j, fj, p, fp, W, P, N, w, s) => j = p /\ leaf = leaves[p + 1]
           Bad == {w \in 1..n : ~ Fine(w)}
<1>1. SUFFICES ASSUME Bad # {} PROVE FALSE
  <2>1. \A w \in 1..n : w \in Bad \/ Fine(w)
    OBVIOUS
  <2>2. \A w \in 1..n : Fine(w)
    <3> HIDE DEF Bad, Fine
    <3> QED
      BY <1>1, <2>1
  <2> QED
    BY <2>2
<1>2. PICK w \in Bad : \A i \in Bad : w <= i
  <2>1. Bad \in SUBSET Nat
    OBVIOUS
  <2> HIDE DEF Bad
  <2> QED
    BY <1>1, <2>1, LeastNat
<1>3. w \in 1..n /\ ~ Fine(w)
  OBVIOUS
<1>4. \A i \in 1..(w - 1) : Fine(i)
  <2> HIDE DEF Fine
  <2>1. \A i \in 1..(w - 1) : i \in 1..n /\ i \notin Bad
    BY <1>2, <1>3
  <2> QED
    BY <2>1
<1> HIDE DEF Bad
<1>5. PICK s \in 0..(n - w) :
        /\ \E h, q : Block(n, h, q, w, s)
        /\ j \in s..(s + w - 1) /\ p \in s..(s + w - 1)
        /\ Len(fj[w][s]) = Len(fp[w][s]) /\ Len(fp[w][s]) <= N
        /\ \A i \in 1..Len(fp[w][s]) : P[i] = fp[w][s][i]
        /\ W[Len(fp[w][s])].r = Root(leaves, w, s)
        /\ ~ (j = p /\ leaf = leaves[p + 1])
  BY <1>3 DEF ClimbsAs
<1> HIDE DEF Fine
<1>6. PICK h, q : Block(n, h, q, w, s)
  BY <1>5
<1>7. CASE w = 1
  <2>1. fp[w][s] = << >>
    BY <1>3, <1>7 DEF IsPathOver
  <2>4. j = s /\ p = s
    BY <1>5, <1>7
  <2>5. w \in 0..n /\ s \in 0..(n - w)
    BY <1>3
  <2>2. Root(leaves, w, s) = leaves[s + 1]
    BY <1>7, <2>5, RootsAre DEF Root
  <2>3. W[0].r = leaf
    BY DEF WalkOf
  <2> QED
    BY <1>5, <2>1, <2>2, <2>3, <2>4
<1>8. CASE w >= 2
  <2>1. PICK v, t, sib : HalfOf(leaves, n, fj, w, s, j, v, t, sib)
    BY <1>5, <1>6, <1>8, PathHalf
  <2>2. PICK v2, t2, sib2 : HalfOf(leaves, n, fp, w, s, p, v2, t2, sib2)
    BY <1>5, <1>6, <1>8, PathHalf
  <2> DEFINE a == Len(fp[w][s])
             b == Len(fp[v2][t2])
             k == SplitPoint(w)
             L == Root(leaves, k, s)
             R == Root(leaves, w - k, s + k)
  <2>3. Along(leaves, W, P, n, j, h, w, s, a)
    BY <1>3, <1>5, <1>6, WalksAlong
  <2>4. IF j < s + k THEN W[a].r = NodeHash(W[a - 1].r, P[a]) ELSE W[a].r = NodeHash(P[a], W[a - 1].r)
    BY <1>8, <2>3 DEF Along
  <2>5. /\ Len(fj[w][s]) = a /\ a <= N /\ (\A i \in 1..a : P[i] = fp[w][s][i])
        /\ W[a].r = Root(leaves, w, s) /\ ~ (j = p /\ leaf = leaves[p + 1])
    BY <1>5
  <2>6. /\ v \in 1..(w - 1) /\ t \in 0..(n - v) /\ j \in t..(t + v - 1)
        /\ \E h2, q2 : Block(n, h2, q2, v, t)
        /\ Len(fj[v][t]) \in Nat /\ a = Len(fj[v][t]) + 1
    BY <2>1, <2>5 DEF HalfOf
  <2>7. /\ p \in t2..(t2 + v2 - 1) /\ b \in Nat /\ a = b + 1
        /\ \A i \in 1..b : fp[w][s][i] = fp[v2][t2][i]
        /\ fp[w][s][a] = sib2
    BY <2>2 DEF HalfOf
  <2>8. Root(leaves, w, s) = NodeHash(L, R)
    BY <1>6, <1>8, RootHalves
  <2>9. L # R
    BY <1>6, <1>8, HalvesDiffer
  <2>10. IF j < s + k THEN v = k /\ t = s ELSE v = w - k /\ t = s + k
    BY <2>1 DEF HalfOf, HalfWidth, HalfFrom
  <2>11. IF p < s + k THEN v2 = k /\ t2 = s /\ sib2 = R ELSE v2 = w - k /\ t2 = s + k /\ sib2 = L
    BY <2>2 DEF HalfOf, HalfWidth, HalfFrom, Sibling
  <2>20. j < s + k => L = Root(leaves, v, t)
    BY <2>10
  <2>21. ~ (j < s + k) => R = Root(leaves, v, t)
    BY <2>10
  <2> HIDE DEF a, k, b, L, R
  <2>12. b <= N /\ a \in 1..a /\ (\A i \in 1..b : i \in 1..a) /\ a - 1 = b /\ Len(fj[v][t]) = b
    <3>1. a <= N /\ b \in Nat /\ a = b + 1 /\ Len(fj[v][t]) \in Nat /\ a = Len(fj[v][t]) + 1
      BY <2>5, <2>6, <2>7
    <3> QED
      BY <3>1
  <2>13. P[a] = sib2
    BY <2>5, <2>7, <2>12
  <2>14. ASSUME j < s + k PROVE v2 = v /\ t2 = t /\ W[b].r = Root(leaves, v, t)
    <3>1. NodeHash(L, R) = NodeHash(W[b].r, P[a])
      BY <2>4, <2>5, <2>8, <2>12, <2>14
    <3>2. L = W[b].r /\ R = sib2
      BY <2>13, <3>1, NodesApart
    <3>3. v2 = v /\ t2 = t /\ W[b].r = Root(leaves, v, t)
      <4>1. v = k /\ t = s
        BY <2>10, <2>14
      <4>2. p < s + k
        BY <2>9, <2>11, <3>2
      <4>3. v2 = k /\ t2 = s
        BY <2>11, <4>2
      <4>4. W[b].r = Root(leaves, v, t)
        BY <2>14, <2>20, <3>2
      <4> QED
        BY <4>1, <4>3, <4>4
    <3> QED
      BY <3>3
  <2>15. ASSUME ~ (j < s + k) PROVE v2 = v /\ t2 = t /\ W[b].r = Root(leaves, v, t)
    <3>1. NodeHash(L, R) = NodeHash(P[a], W[b].r)
      BY <2>4, <2>5, <2>8, <2>12, <2>15
    <3>2. R = W[b].r /\ L = sib2
      BY <2>13, <3>1, NodesApart
    <3>3. v2 = v /\ t2 = t /\ W[b].r = Root(leaves, v, t)
      <4>1. v = w - k /\ t = s + k
        BY <2>10, <2>15
      <4>2. ~ (p < s + k)
        BY <2>9, <2>11, <3>2
      <4>3. v2 = w - k /\ t2 = s + k
        BY <2>11, <4>2
      <4>4. W[b].r = Root(leaves, v, t)
        BY <2>15, <2>21, <3>2
      <4> QED
        BY <4>1, <4>3, <4>4
    <3> QED
      BY <3>3
  <2>16. v2 = v /\ t2 = t /\ W[b].r = Root(leaves, v, t)
    BY <2>14, <2>15
  <2>17. \A i \in 1..b : P[i] = fp[v][t][i]
    BY <2>5, <2>7, <2>12, <2>16
  <2>18. b = Len(fp[v][t]) /\ p \in t..(t + v - 1)
    BY <2>7, <2>16 DEF b
  <2>19. Fine(v)
    BY <1>4, <2>6
  <2> QED
    BY <2>5, <2>6, <2>12, <2>16, <2>17, <2>18, <2>19 DEF Fine, ClimbsAs
<1> QED
  BY <1>3, <1>7, <1>8


LEMMA WalkOfOk ==
    ASSUME NEW j \in Nat, NEW n \in Nat \ {0}, NEW leaf, NEW W, NEW P, NEW N \in Nat,
           WalkOf(W, P, N, leaf, j, n)
    PROVE  /\ \A i \in 0..N : IsStep(W[i])
           /\ \A m \in 0..N : W[m].ok = TRUE => \A i \in 0..(m - 1) : W[i].sn # 0
<1>1. W[0] = [fn |-> j, sn |-> n - 1, r |-> leaf, ok |-> TRUE] /\ n - 1 \in Nat
  BY DEF WalkOf
<1>2. IsStep(W[0])
  BY <1>1, Zenon DEF IsStep
<1>3. \A i \in 1..N : W[i] = Climb(W[i - 1], P[i])
  BY DEF WalkOf
<1>4. \A i \in 0..N : IsStep(W[i])
  <2> DEFINE Bad == {i \in 0..N : ~ IsStep(W[i])}
  <2>1. SUFFICES ASSUME Bad # {} PROVE FALSE
    OBVIOUS
  <2>2. PICK m \in Bad : \A i \in Bad : m <= i
    <3>1. Bad \in SUBSET Nat
      OBVIOUS
    <3> HIDE DEF Bad
    <3> QED
      BY <2>1, <3>1, LeastNat
  <2>3. m \in 0..N /\ ~ IsStep(W[m]) /\ m # 0
    BY <1>2
  <2>4. m - 1 \in 0..N /\ m - 1 \notin Bad /\ m \in 1..N
    BY <2>2, <2>3
  <2>5. IsStep(W[m - 1]) /\ W[m] = Climb(W[m - 1], P[m])
    BY <1>3, <2>4
  <2>6. IsStep(Climb(W[m - 1], P[m]))
    BY <2>5, ClimbIs DEF Risen
  <2> QED
    BY <2>3, <2>5, <2>6
<1>5. \A m \in 1..N : W[m].ok = TRUE => W[m - 1].ok = TRUE /\ W[m - 1].sn # 0
  <2> SUFFICES ASSUME NEW m \in 1..N, W[m].ok = TRUE
               PROVE  W[m - 1].ok = TRUE /\ W[m - 1].sn # 0
    OBVIOUS
  <2>1. IsStep(W[m - 1]) /\ W[m] = Climb(W[m - 1], P[m])
    BY <1>3, <1>4
  <2> DEFINE u == W[m - 1]
  <2>2. IsStep(u) /\ Climb(u, P[m]).ok = TRUE
    BY <2>1
  <2> HIDE DEF u
  <2>3. u.sn # 0
    BY <2>2, ClimbIs
  <2>4. \E t, r : Risen(u, t, Climb(u, P[m]), r)
    BY <2>2, <2>3, ClimbIs
  <2> QED
    BY <2>2, <2>3, <2>4 DEF Risen, u
<1>6. \A m \in 0..N : W[m].ok = TRUE => \A i \in 0..(m - 1) : W[i].sn # 0
  <2> DEFINE Fine(m) == W[m].ok = TRUE => \A i \in 0..(m - 1) : W[i].sn # 0
             Bad == {m \in 0..N : ~ Fine(m)}
  <2>1. SUFFICES ASSUME Bad # {} PROVE FALSE
    OBVIOUS
  <2>2. PICK m \in Bad : \A i \in Bad : m <= i
    <3>1. Bad \in SUBSET Nat
      OBVIOUS
    <3> HIDE DEF Bad
    <3> QED
      BY <2>1, <3>1, LeastNat
  <2>3. m \in 0..N /\ W[m].ok = TRUE /\ ~ (\A i \in 0..(m - 1) : W[i].sn # 0)
    OBVIOUS
  <2>4. m # 0
    BY <2>3
  <2>5. m - 1 \in 0..N /\ m - 1 \notin Bad /\ m \in 1..N
    BY <2>2, <2>3, <2>4
  <2>6. Fine(m - 1)
    BY <2>5
  <2>7. W[m - 1].sn # 0 /\ \A i \in 0..((m - 1) - 1) : W[i].sn # 0
    BY <1>5, <2>3, <2>5, <2>6
  <2>8. \A i \in 0..(m - 1) : i = m - 1 \/ i \in 0..((m - 1) - 1)
    BY <2>5
  <2> QED
    BY <2>3, <2>7, <2>8
<1> QED
  BY <1>4, <1>6

(* Where a walk ends, and all its steps and those it would take after.     *)
ClimbAll(start, proof) == Walk(Climb, start, proof)
ClimbsTo(W, start, proof, N, v) ==
    /\ W[0] = start
    /\ \A i \in 1..N : W[i] = Climb(W[i - 1], proof[i])
    /\ v = W[Len(proof)]

LEMMA WalkEnds ==
    ASSUME NEW start, NEW proof, Len(proof) \in Nat, NEW N \in Nat, Len(proof) <= N
    PROVE  \E W : ClimbsTo(W, start, proof, N, ClimbAll(start, proof))
<1> DEFINE m == Len(proof)
           f == CHOOSE f : Walks(f, start, proof, m)
<1>1. Walks(f, start, proof, m)
  BY WalksExist
<1>2. ClimbAll(start, proof) = f[m]
  BY Zenon DEF ClimbAll, Walk, Walks
<1>3. PICK W : Walks(W, start, proof, N)
  BY WalksExist
<1> HIDE DEF f
<1>7. m \in 0..N
  OBVIOUS
<1> HIDE DEF m
<1>4. /\ W[0] = start
      /\ \A i \in 1..N : i \in 0..N /\ i # 0 /\ W[i] = Climb(W[i - 1], proof[i])
  BY <1>3 DEF Walks
<1>5. /\ f[0] = start
      /\ \A i \in 1..m : f[i] = Climb(f[i - 1], proof[i])
  BY <1>1, <1>7 DEF Walks
<1>6. \A i \in 0..m : f[i] = W[i]
  <2> DEFINE Bad == {i \in 0..m : f[i] # W[i]}
  <2>1. SUFFICES ASSUME Bad # {} PROVE FALSE
    OBVIOUS
  <2>2. PICK i \in Bad : \A k \in Bad : i <= k
    <3>1. Bad \in SUBSET Nat
      BY <1>7
    <3> HIDE DEF Bad
    <3> QED
      BY <2>1, <3>1, LeastNat
  <2>3. i \in 0..m /\ f[i] # W[i] /\ i # 0
    BY <1>4, <1>5
  <2>4. i \in 1..m /\ i \in 1..N /\ i - 1 \in 0..m /\ i - 1 \notin Bad
    BY <1>7, <2>2, <2>3
  <2>5. f[i - 1] = W[i - 1]
    BY <2>4
  <2> QED
    BY <1>4, <1>5, <2>3, <2>4, <2>5
<1> QED
  BY <1>2, <1>4, <1>6, <1>7 DEF m, ClimbsTo


(* The path of a leaf over the whole tree takes its walk to the top, which *)
(* it reaches there first.                                                 *)
AtTop(W, a) == a \in Nat /\ W[a].sn = 0 /\ W[a].ok = TRUE /\ \A i \in 0..(a - 1) : W[i].sn # 0

LEMMA TopAt ==
    ASSUME NEW leaves, NEW n \in Nat \ {0}, Len(leaves) = n, NEW j \in 0..(n - 1), NEW f, IsPathOver(leaves, j, f),
           NEW W, NEW P, NEW N \in Nat, NEW leaf, WalkOf(W, P, N, leaf, j, n), Len(f[n][0]) <= N
    PROVE  AtTop(W, Len(f[n][0]))
<1> DEFINE a == Len(f[n][0])
<1>1. PICK h \in Nat : Block(n, h, 0, n, 0)
  BY WholeBlock
<1>2. n \in 1..n /\ 0 \in 0..(n - n) /\ j \in 0..(0 + n - 1) /\ n \in Nat /\ j \in Nat
  OBVIOUS
<1>3. Along(leaves, W, P, n, j, h, n, 0, a)
  BY <1>1, <1>2, WalksAlong
<1>4. PICK U : f[n][0] \in Seq(U)
  <2>1. PICK U : \A w \in 0..n : \A s \in 0..(n - w) : f[w][s] \in Seq(U)
    BY <1>2, PathIsSeq
  <2> QED
    BY <1>2, <2>1
<1>5. a \in Nat
  BY <1>4
<1>6. Stands(W[a], n, j, h) /\ \A i \in 0..(a - 1) : W[i].sn # 0
  BY <1>3 DEF Along
<1>7. Level(n, h, 0)
  <2>1. n <= Pow(h) /\ Pow(h) \in Nat
    BY <1>1, PowIs DEF Block
  <2>2. 0 * Pow(h) = 0 /\ (0 + 1) * Pow(h) = Pow(h)
    BY <2>1
  <2> QED
    BY <2>1, <2>2 DEF Level
<1>8. W[a].sn = 0 /\ W[a].ok = TRUE
  BY <1>2, <1>6, <1>7, LevelOnly DEF Stands
<1> QED
  BY <1>5, <1>6, <1>8 DEF AtTop

(* A leaf verifies with an audit path if and only if it is the leaf the    *)
(* path was drawn for, at its own place.                                   *)
LEMMA InclusionExact ==
    ASSUME NEW leaves, AreLeaves(leaves), DistinctLeaves(leaves), NEW n \in Nat \ {0}, Len(leaves) = n,
           NEW p \in 0..(n - 1), NEW j, NEW leaf
    PROVE  VerifyInclusion(leaf, j, n, AuditPath(leaves, p), MerkleRoot(leaves))
             <=> j = p /\ leaf = leaves[p + 1]
<1> DEFINE proof == AuditPath(leaves, p)
           start == [fn |-> j, sn |-> n - 1, r |-> leaf, ok |-> TRUE]
           m == Len(proof)
           root == MerkleRoot(leaves)
           v == ClimbAll(start, proof)
<1>1. n \in Nat /\ n \in 1..n /\ n \in 0..n /\ 0 \in 0..(n - n) /\ p \in Nat /\ p \in 0..(0 + n - 1)
  OBVIOUS
<1>2. PICK fp : IsPathOver(leaves, p, fp) /\ proof = fp[n][0]
  BY <1>1, AuditPathIs
<1>3. PICK U : fp[n][0] \in Seq(U)
  <2>1. PICK U : \A w \in 0..n : \A s \in 0..(n - w) : fp[w][s] \in Seq(U)
    BY <1>1, <1>2, PathIsSeq
  <2> QED
    BY <1>1, <2>1
<1>4. m \in Nat /\ m = Len(fp[n][0]) /\ Len(proof) \in Nat
  BY <1>2, <1>3
<1>5. root = Root(leaves, n, 0)
  BY DEF MerkleRoot, Root
<1>6. PICK h \in Nat : Block(n, h, 0, n, 0)
  BY WholeBlock
<1>7. VerifyInclusion(leaf, j, n, proof, root) <=> j \in 0..(n - 1) /\ v.ok /\ v.sn = 0 /\ v.r = root
  BY Zenon DEF VerifyInclusion, ClimbAll
<1>10. v = ClimbAll(start, proof) /\ start = [fn |-> j, sn |-> n - 1, r |-> leaf, ok |-> TRUE]
  OBVIOUS
<1> HIDE DEF proof, root, v, start
<1>8. ASSUME VerifyInclusion(leaf, j, n, proof, root)
      PROVE  j = p /\ leaf = leaves[p + 1]
  <2>1. j \in 0..(n - 1) /\ j \in Nat /\ j \in 0..(0 + n - 1) /\ v.ok /\ v.sn = 0 /\ v.r = root
    BY <1>7, <1>8
  <2>2. PICK fj : IsPathOver(leaves, j, fj)
    BY <1>1, AuditPathIs
  <2>3. PICK V : fj[n][0] \in Seq(V)
    <3>1. PICK V : \A w \in 0..n : \A s \in 0..(n - w) : fj[w][s] \in Seq(V)
      BY <1>1, <2>2, PathIsSeq
    <3> QED
      BY <1>1, <3>1
  <2> DEFINE a == Len(fj[n][0])
             N == m + a
  <2>4. a \in Nat
    BY <2>3
  <2> HIDE DEF a
  <2>5. N \in Nat /\ m <= N /\ a <= N
    BY <1>4, <2>4
  <2> HIDE DEF m, N
  <2>6. PICK W : /\ W[0] = start
                 /\ \A i \in 1..N : W[i] = Climb(W[i - 1], proof[i])
                 /\ v = W[m]
    <3>1. \E W : ClimbsTo(W, start, proof, N, v)
      BY <1>4, <1>10, <2>5, WalkEnds DEF m
    <3> QED
      BY <3>1 DEF ClimbsTo, m
  <2>7. WalkOf(W, proof, N, leaf, j, n)
    BY <1>10, <2>6 DEF WalkOf
  <2>8. IsStep(W[m]) /\ W[m].ok = TRUE /\ W[m].sn = 0 /\ \A i \in 0..(m - 1) : W[i].sn # 0
    <3>1. m \in 0..N
      BY <1>4, <2>5
    <3>2. IsStep(W[m])
      BY <2>1, <2>5, <2>7, <3>1, WalkOfOk
    <3>3. W[m].ok \in BOOLEAN /\ W[m].ok
      BY <2>1, <2>6, <3>2 DEF IsStep
    <3>4. W[m].ok = TRUE
      BY <3>3
    <3> QED
      <4>1. \A i \in 0..(m - 1) : W[i].sn # 0
        BY <2>1, <2>5, <2>7, <3>1, <3>4, WalkOfOk
      <4> QED
        BY <2>1, <2>6, <3>2, <3>4, <4>1
  <2>9. W[a].sn = 0 /\ \A i \in 0..(a - 1) : W[i].sn # 0
    <3>1. Len(fj[n][0]) <= N
      BY <2>5 DEF a
    <3>2. AtTop(W, a)
      BY <2>1, <2>2, <2>5, <2>7, <3>1, TopAt DEF a
    <3> QED
      BY <3>2 DEF AtTop
  <2>10. a = m
    <3>1. a < m => a \in 0..(m - 1)
      BY <1>4, <2>4
    <3>2. m < a => m \in 0..(a - 1)
      BY <1>4, <2>4
    <3> QED
      BY <1>4, <2>4, <2>8, <2>9, <3>1, <3>2
  <2>11. /\ Len(fj[n][0]) = Len(fp[n][0]) /\ Len(fp[n][0]) <= N
         /\ \A i \in 1..Len(fp[n][0]) : proof[i] = fp[n][0][i]
         /\ W[Len(fp[n][0])].r = Root(leaves, n, 0)
    BY <1>2, <1>4, <1>5, <2>1, <2>5, <2>6, <2>10 DEF a
  <2>12. (\E h2, q : Block(n, h2, q, n, 0)) /\ n \in 1..n /\ 0 \in 0..(n - n)
    BY <1>1, <1>6
  <2> QED
    <3>1. ClimbsAs(leaves, n, j, fj, p, fp, W, proof, N, n, 0)
      BY <1>1, <2>1, <2>11, <2>12 DEF ClimbsAs
    <3>2. \A w \in 1..n : \A s \in 0..(n - w) :
             ClimbsAs(leaves, n, j, fj, p, fp, W, proof, N, w, s) => j = p /\ leaf = leaves[p + 1]
      BY <1>1, <1>2, <2>1, <2>2, <2>5, <2>7, SamePlace
    <3> QED
      BY <2>12, <3>1, <3>2
<1>9. ASSUME j = p, leaf = leaves[p + 1]
      PROVE  VerifyInclusion(leaf, j, n, proof, root)
  <2>1. PICK W : /\ W[0] = start
                 /\ \A i \in 1..m : W[i] = Climb(W[i - 1], proof[i])
                 /\ v = W[m]
    <3>1. \E W : ClimbsTo(W, start, proof, m, v)
      BY <1>4, <1>10, WalkEnds
    <3> QED
      BY <3>1 DEF ClimbsTo
  <2> HIDE DEF m
  <2>2. WalkOf(W, proof, m, leaf, p, n)
    BY <1>9, <1>10, <2>1 DEF WalkOf
  <2>3. W[m].sn = 0 /\ W[m].ok = TRUE
    <3>1. Len(fp[n][0]) <= m
      BY <1>4
    <3>2. AtTop(W, m)
      BY <1>1, <1>2, <1>4, <2>2, <3>1, TopAt
    <3> QED
      BY <3>2 DEF AtTop
  <2>4. W[m].r = Root(leaves, n, 0)
    <3>1. Len(fp[n][0]) <= m /\ \A i \in 1..Len(fp[n][0]) : proof[i] = fp[n][0][i]
      BY <1>2, <1>4
    <3> QED
      <4>1. PathClimbs(leaves, n, p, fp, W, proof, m)
        BY <1>1, <1>2, <1>4, <1>9, <2>2, PathShows
      <4>2. n \in 1..n /\ 0 \in 0..(n - n) /\ Leads(n, p, fp, proof, m, n, 0)
        BY <1>1, <1>6, <3>1 DEF Leads
      <4>3. W[Len(fp[n][0])].r = Root(leaves, n, 0)
        BY <4>1, <4>2 DEF PathClimbs
      <4> QED
        BY <1>4, <4>3
  <2> QED
    BY <1>5, <1>7, <1>9, <2>1, <2>3, <2>4
<1> QED
  BY <1>8, <1>9 DEF proof, root

---------------------------------------------------------------------------
(* The consistency proof. *)

ProofsOver(leaves, m, f, w) ==
    [s \in 0..(Len(leaves) - w) |->
        LET k == SplitPoint(w)
        IN  IF w <= 1 \/ m = s + w THEN IF s = 0 THEN << >> ELSE <<SubtreeRoots(leaves)[w][s]>>
            ELSE IF m <= s + k THEN Append(f[k][s], SubtreeRoots(leaves)[w - k][s + k])
            ELSE Append(f[w - k][s + k], SubtreeRoots(leaves)[k][s])]

Proofs(leaves, m, f, v) == f = [w \in 0..v |-> ProofsOver(leaves, m, f, w)]

LEMMA ProofsAlike ==
    ASSUME NEW leaves, NEW n \in Nat, Len(leaves) = n, NEW m, NEW w \in 0..n, NEW f, NEW g,
           \A v \in 0..(w - 1) : f[v] = g[v]
    PROVE  ProofsOver(leaves, m, f, w) = ProofsOver(leaves, m, g, w)
<1>1. CASE w <= 1
  BY <1>1 DEF ProofsOver
<1>2. CASE w >= 2
  <2> DEFINE k == SplitPoint(w)
  <2>1. k \in 0..(w - 1) /\ w - k \in 0..(w - 1)
    BY <1>2, SplitInside
  <2>2. f[k] = g[k] /\ f[w - k] = g[w - k]
    BY <2>1
  <2>3. \A h : ProofsOver(leaves, m, h, w) =
                [s \in 0..(Len(leaves) - w) |->
                   IF w <= 1 \/ m = s + w THEN IF s = 0 THEN << >> ELSE <<SubtreeRoots(leaves)[w][s]>>
                   ELSE IF m <= s + k THEN Append(h[k][s], SubtreeRoots(leaves)[w - k][s + k])
                   ELSE Append(h[w - k][s + k], SubtreeRoots(leaves)[k][s])]
    BY DEF ProofsOver
  <2> HIDE DEF k
  <2> QED
    BY <2>2, <2>3, Zenon
<1> QED
  BY <1>1, <1>2

LEMMA ProofsExist ==
    ASSUME NEW leaves, NEW n \in Nat, Len(leaves) = n, NEW m
    PROVE  \E f : Proofs(leaves, m, f, n)
<1> DEFINE Bad == {v \in 0..n : ~ \E f : Proofs(leaves, m, f, v)}
<1>1. SUFFICES ASSUME Bad # {} PROVE FALSE
  <2>1. n \in Bad \/ \E f : Proofs(leaves, m, f, n)
    OBVIOUS
  <2> HIDE DEF Bad
  <2> QED
    BY <1>1, <2>1
<1>2. PICK v \in Bad : \A i \in Bad : v <= i
  <2>1. Bad \in SUBSET Nat
    OBVIOUS
  <2> HIDE DEF Bad
  <2> QED
    BY <1>1, <2>1, LeastNat
<1>3. v \in 0..n /\ ~ \E f : Proofs(leaves, m, f, v)
  BY <1>2
<1>4. PICK f : v > 0 => Proofs(leaves, m, f, v - 1)
  BY <1>2
<1> HIDE DEF Bad
<1> DEFINE g == [w \in 0..v |-> IF w = v THEN ProofsOver(leaves, m, f, v) ELSE f[w]]
<1>5. \A w \in 0..(v - 1) : f[w] = ProofsOver(leaves, m, f, w)
  BY <1>3, <1>4 DEF Proofs
<1>6. ASSUME NEW w \in 0..v
      PROVE  g[w] = ProofsOver(leaves, m, g, w)
  <2>1. \A x \in 0..(w - 1) : f[x] = g[x]
    BY <1>3
  <2>2. g[w] = ProofsOver(leaves, m, f, w)
    BY <1>3, <1>5
  <2> HIDE DEF g
  <2> QED
    BY <1>3, <2>1, <2>2, ProofsAlike
<1>7. g = [w \in 0..v |-> g[w]]
  OBVIOUS
<1> HIDE DEF g
<1>8. [w \in 0..v |-> g[w]] = [w \in 0..v |-> ProofsOver(leaves, m, g, w)]
  BY <1>6
<1>9. Proofs(leaves, m, g, v)
  BY <1>7, <1>8 DEF Proofs
<1> QED
  BY <1>3, <1>9

(* The path of leaf m - 1 from the largest block that ends with it.        *)
IsProofOver(leaves, m, f) ==
    \A w \in 0..Len(leaves) : \A s \in 0..(Len(leaves) - w) :
        /\ w <= 1 \/ m = s + w => f[w][s] = IF s = 0 THEN << >> ELSE <<Root(leaves, w, s)>>
        /\ w >= 2 /\ m # s + w =>
             LET k == SplitPoint(w)
             IN  f[w][s] = IF m <= s + k THEN Append(f[k][s], Root(leaves, w - k, s + k))
                           ELSE Append(f[w - k][s + k], Root(leaves, k, s))

LEMMA ConsistencyProofIs ==
    ASSUME NEW leaves, NEW n \in Nat, Len(leaves) = n, NEW m
    PROVE  \E f : IsProofOver(leaves, m, f) /\ ConsistencyProof(leaves, m) = f[n][0]
<1> DEFINE f == CHOOSE f : Proofs(leaves, m, f, n)
<1>1. Proofs(leaves, m, f, n)
  BY ProofsExist
<1>2. ConsistencyProof(leaves, m) = f[n][0]
  BY Zenon DEF ConsistencyProof, Proofs, ProofsOver
<1> HIDE DEF f
<1>3. \A w \in 0..n : f[w] = ProofsOver(leaves, m, f, w)
  BY <1>1 DEF Proofs
<1>4. ASSUME NEW w \in 0..n, NEW s \in 0..(n - w)
      PROVE  f[w][s] = LET k == SplitPoint(w)
                       IN  IF w <= 1 \/ m = s + w THEN IF s = 0 THEN << >> ELSE <<SubtreeRoots(leaves)[w][s]>>
                           ELSE IF m <= s + k THEN Append(f[k][s], SubtreeRoots(leaves)[w - k][s + k])
                           ELSE Append(f[w - k][s + k], SubtreeRoots(leaves)[k][s])
  BY <1>3 DEF ProofsOver
<1>5. IsProofOver(leaves, m, f)
  <2> SUFFICES ASSUME NEW w \in 0..n, NEW s \in 0..(n - w)
               PROVE  /\ w <= 1 \/ m = s + w => f[w][s] = IF s = 0 THEN << >> ELSE <<Root(leaves, w, s)>>
                      /\ w >= 2 /\ m # s + w =>
                           LET k == SplitPoint(w)
                           IN  f[w][s] = IF m <= s + k THEN Append(f[k][s], Root(leaves, w - k, s + k))
                                         ELSE Append(f[w - k][s + k], Root(leaves, k, s))
    BY DEF IsProofOver
  <2>1. ~ (w <= 1 /\ w >= 2)
    OBVIOUS
  <2> QED
    BY <1>4, <2>1 DEF Root
<1> QED
  BY <1>2, <1>5

LEMMA ProofIsSeq ==
    ASSUME NEW leaves, Len(leaves) \in Nat, NEW m, NEW f, IsProofOver(leaves, m, f)
    PROVE  \E U : \A w \in 0..Len(leaves) : \A s \in 0..(Len(leaves) - w) : f[w][s] \in Seq(U)
<1> DEFINE n == Len(leaves)
           U == {Root(leaves, w, s) : w \in 0..n, s \in 0..n}
<1>0. \A w \in 0..n, s \in 0..n : Root(leaves, w, s) \in U
  OBVIOUS
<1> HIDE DEF U
<1> DEFINE Fine(w) == \A s \in 0..(n - w) : f[w][s] \in Seq(U)
           Bad == {w \in 0..n : ~ Fine(w)}
<1>1. SUFFICES ASSUME Bad # {} PROVE FALSE
  <2>1. \A w \in 0..n : w \in Bad \/ Fine(w)
    OBVIOUS
  <2>2. \A w \in 0..n : Fine(w)
    <3> HIDE DEF Bad, Fine
    <3> QED
      BY <1>1, <2>1
  <2> QED
    BY <2>2
<1>2. PICK w \in Bad : \A i \in Bad : w <= i
  <2>1. Bad \in SUBSET Nat
    OBVIOUS
  <2> HIDE DEF Bad
  <2> QED
    BY <1>1, <2>1, LeastNat
<1>3. w \in 0..n /\ n \in Nat /\ ~ Fine(w)
  OBVIOUS
<1>6. \A i \in 0..(w - 1) : Fine(i)
  <2>1. \A i \in 0..(w - 1) : i \in 0..n /\ i \notin Bad
    <3> HIDE DEF Fine
    <3>1. \A i \in 0..(w - 1) : i \in 0..n /\ ~ (w <= i)
      BY <1>3
    <3> HIDE DEF Bad
    <3> QED
      BY <1>2, <3>1
  <2> QED
    BY <2>1
<1> HIDE DEF Bad
<1>4. PICK s \in 0..(n - w) : f[w][s] \notin Seq(U)
  BY <1>3
<1>7. CASE w <= 1 \/ m = s + w
  <2>1. f[w][s] = IF s = 0 THEN << >> ELSE <<Root(leaves, w, s)>>
    BY <1>3, <1>7 DEF IsProofOver
  <2>2. Root(leaves, w, s) \in U
    BY <1>0, <1>3
  <2>3. << >> \in Seq(U) /\ <<Root(leaves, w, s)>> \in Seq(U)
    BY <2>2
  <2> QED
    BY <1>4, <2>1, <2>3
<1>8. CASE w >= 2 /\ m # s + w
  <2> DEFINE k == SplitPoint(w)
  <2>1. k \in 1..(w - 1)
    BY <1>3, <1>8, SplitInside
  <2>2. f[w][s] = IF m <= s + k THEN Append(f[k][s], Root(leaves, w - k, s + k))
                  ELSE Append(f[w - k][s + k], Root(leaves, k, s))
    BY <1>3, <1>8 DEF IsProofOver
  <2> HIDE DEF k
  <2>3. /\ k \in 0..(w - 1) /\ w - k \in 0..(w - 1)
        /\ s \in 0..(n - k) /\ s + k \in 0..(n - (w - k))
        /\ k \in 0..n /\ w - k \in 0..n /\ s \in 0..n /\ s + k \in 0..n
    BY <1>3, <2>1
  <2>4. f[k][s] \in Seq(U) /\ f[w - k][s + k] \in Seq(U)
    BY <1>6, <2>3
  <2>5. Root(leaves, w - k, s + k) \in U /\ Root(leaves, k, s) \in U
    BY <1>0, <2>3
  <2>6. /\ Append(f[k][s], Root(leaves, w - k, s + k)) \in Seq(U)
        /\ Append(f[w - k][s + k], Root(leaves, k, s)) \in Seq(U)
    BY <2>4, <2>5
  <2> QED
    BY <1>4, <2>2, <2>6
<1> QED
  BY <1>3, <1>7, <1>8

---------------------------------------------------------------------------
(* The walk to both roots. *)

IsBoth(w) == \E fn, sn \in Nat : \E fr, sr : \E ok \in BOOLEAN :
                w = [fn |-> fn, sn |-> sn, fr |-> fr, sr |-> sr, ok |-> ok]

(* v is w risen by t levels with hashes fr and sr. *)
RisenBoth(w, t, v, fr, sr) ==
    /\ IsBoth(v) /\ v.ok = w.ok /\ v.fr = fr /\ v.sr = sr
    /\ \A x, h \in Nat : Level(x, h, w.fn) => Level(x, h + t, v.fn)
    /\ \A x, h \in Nat : Level(x, h, w.sn) => Level(x, h + t, v.sn)

LEMMA BothIs ==
    ASSUME NEW w, IsBoth(w)
    PROVE  w.fn \in Nat /\ w.sn \in Nat /\ w.ok \in BOOLEAN
           /\ w = [fn |-> w.fn, sn |-> w.sn, fr |-> w.fr, sr |-> w.sr, ok |-> w.ok]
<1>1. PICK fn \in Nat, sn \in Nat : \E fr, sr : \E ok \in BOOLEAN :
        w = [fn |-> fn, sn |-> sn, fr |-> fr, sr |-> sr, ok |-> ok]
  BY DEF IsBoth
<1>2. PICK fr, sr : \E ok \in BOOLEAN : w = [fn |-> fn, sn |-> sn, fr |-> fr, sr |-> sr, ok |-> ok]
  BY <1>1
<1>3. PICK ok \in BOOLEAN : w = [fn |-> fn, sn |-> sn, fr |-> fr, sr |-> sr, ok |-> ok]
  BY <1>2
<1> QED
  BY <1>3

LEMMA HalveRisesBoth ==
    ASSUME NEW w, IsBoth(w), NEW t \in Nat, NEW fr, NEW sr
    PROVE  RisenBoth(w, t, Halve([w EXCEPT !.fr = fr, !.sr = sr], t), fr, sr)
<1>1. PICK fn \in Nat, sn \in Nat : \E fr0, sr0 : \E ok \in BOOLEAN :
        w = [fn |-> fn, sn |-> sn, fr |-> fr0, sr |-> sr0, ok |-> ok]
  BY DEF IsBoth
<1>2. PICK fr0, sr0 : \E ok \in BOOLEAN : w = [fn |-> fn, sn |-> sn, fr |-> fr0, sr |-> sr0, ok |-> ok]
  BY <1>1
<1>3. PICK ok \in BOOLEAN : w = [fn |-> fn, sn |-> sn, fr |-> fr0, sr |-> sr0, ok |-> ok]
  BY <1>2
<1> DEFINE u == [fn |-> fn, sn |-> sn, fr |-> fr, sr |-> sr, ok |-> ok]
<1>4. [w EXCEPT !.fr = fr, !.sr = sr] = u /\ w.fn = fn /\ w.sn = sn /\ w.ok = ok
  <2>1. [w EXCEPT !.fr = fr, !.sr = sr] = [x \in {"fn", "sn", "fr", "sr", "ok"} |->
            IF x = "sr" THEN sr ELSE IF x = "fr" THEN fr ELSE w[x]]
    BY <1>3
  <2>2. u = [x \in {"fn", "sn", "fr", "sr", "ok"} |->
            IF x = "sr" THEN sr ELSE IF x = "fr" THEN fr ELSE w[x]]
    BY <1>3
  <2>3. w.fn = fn /\ w.sn = sn /\ w.ok = ok
    BY <1>3
  <2> QED
    BY <2>1, <2>2, <2>3
<1>5. IsPlaced(u) /\ u.fn = fn /\ u.sn = sn
  BY DEF IsPlaced
<1> HIDE DEF u
<1>6. PICK a, b : HalvedTo(u, t, Halve(u, t), a, b)
  BY <1>5, HalveIs
<1>7. /\ \A x, h \in Nat : Level(x, h, fn) => Level(x, h + t, a)
      /\ \A x, h \in Nat : Level(x, h, sn) => Level(x, h + t, b)
  BY <1>5, <1>6 DEF HalvedTo
<1>8. a \in Nat /\ b \in Nat
  <2>1. Level(fn + 1, 0, fn) /\ Level(sn + 1, 0, sn) /\ fn + 1 \in Nat /\ sn + 1 \in Nat
    BY <1>1, LevelZero
  <2>2. Level(fn + 1, 0 + t, a) /\ Level(sn + 1, 0 + t, b)
    BY <1>7, <2>1
  <2> QED
    BY <2>2 DEF Level
<1>9. Halve(u, t) = [fn |-> a, sn |-> b, fr |-> fr, sr |-> sr, ok |-> ok]
  <2>1. Halve(u, t) = [u EXCEPT !.fn = a, !.sn = b]
    BY <1>6 DEF HalvedTo
  <2> QED
    BY <2>1 DEF u
<1> DEFINE v == Halve(u, t)
<1>10. v.fn = a /\ v.sn = b /\ v.fr = fr /\ v.sr = sr /\ v.ok = ok
  BY <1>9
<1>11. IsBoth(v)
  BY <1>1, <1>8, <1>9, Zenon DEF IsBoth
<1> HIDE DEF v
<1>12. RisenBoth(w, t, v, fr, sr)
  BY <1>4, <1>7, <1>10, <1>11 DEF RisenBoth
<1> QED
  BY <1>4, <1>12 DEF v

LEMMA ClimbBothIs ==
    ASSUME NEW w, IsBoth(w), NEW c
    PROVE  /\ w.sn = 0 => IsBoth(ClimbBoth(w, c)) /\ ClimbBoth(w, c).ok = FALSE
           /\ w.sn # 0 /\ ~ FromLeft(w) => RisenBoth(w, 1, ClimbBoth(w, c), w.fr, NodeHash(w.sr, c))
           /\ w.sn # 0 /\ FromLeft(w) =>
                /\ w.fn \in Nat \ {0}
                /\ RisenBoth(w, Rise(w.fn), ClimbBoth(w, c), NodeHash(c, w.fr), NodeHash(c, w.sr))
<1>1. /\ w.fn \in Nat /\ w.sn \in Nat /\ w.ok \in BOOLEAN
      /\ w = [fn |-> w.fn, sn |-> w.sn, fr |-> w.fr, sr |-> w.sr, ok |-> w.ok]
  BY BothIs
<1>2. CASE w.sn = 0
  <2>1. ClimbBoth(w, c) = [w EXCEPT !.ok = FALSE]
    BY <1>2 DEF ClimbBoth
  <2>4. ClimbBoth(w, c) = [fn |-> w.fn, sn |-> w.sn, fr |-> w.fr, sr |-> w.sr, ok |-> FALSE]
    BY <1>1, <2>1
  <2>5. IsBoth(ClimbBoth(w, c))
    BY <1>1, <2>4, Zenon DEF IsBoth
  <2> QED
    BY <1>2, <2>4, <2>5
<1>3. CASE w.sn # 0 /\ ~ FromLeft(w)
  <2>1. [w EXCEPT !.sr = NodeHash(w.sr, c)] = [w EXCEPT !.fr = w.fr, !.sr = NodeHash(w.sr, c)]
    BY <1>1
  <2>2. ClimbBoth(w, c) = Halve([w EXCEPT !.fr = w.fr, !.sr = NodeHash(w.sr, c)], 1)
    <3>1. ClimbBoth(w, c) = Halve([w EXCEPT !.sr = NodeHash(w.sr, c)], 1)
      BY <1>1, <1>3 DEF ClimbBoth
    <3> QED
      BY <2>1, <3>1
  <2> QED
    BY <1>3, <2>2, HalveRisesBoth
<1>4. CASE w.sn # 0 /\ FromLeft(w)
  <2>1. ClimbBoth(w, c) = Halve([w EXCEPT !.fr = NodeHash(c, w.fr), !.sr = NodeHash(c, w.sr)], Rise(w.fn))
    BY <1>1, <1>4 DEF ClimbBoth
  <2>2. w.fn \in Nat \ {0}
    BY <1>1, <1>4 DEF FromLeft
  <2> QED
    BY <1>4, <2>1, <2>2, HalveRisesBoth, RiseNat
<1> QED
  BY <1>2, <1>3, <1>4

(* The walk u to both roots is at level h of leaf j, of n. *)
StandsBoth(u, n, j, h) == IsBoth(u) /\ u.ok = TRUE /\ Level(j + 1, h, u.fn) /\ Level(n, h, u.sn)

LEMMA StandsBothRisen ==
    ASSUME NEW u, NEW n \in Nat, NEW j \in Nat, NEW h \in Nat, StandsBoth(u, n, j, h),
           NEW t \in Nat, NEW v, NEW fr, NEW sr, RisenBoth(u, t, v, fr, sr)
    PROVE  StandsBoth(v, n, j, h + t) /\ v.fr = fr /\ v.sr = sr
BY DEF StandsBoth, RisenBoth

LEMMA BothToTheRight ==
    ASSUME NEW n \in Nat, NEW g, NEW q \in Nat, NEW k, NEW s, Block(n, g, 2 * q, k, s),
           (2 * q + 1) * Pow(g) < n, NEW j \in s..(s + k - 1), NEW u, StandsBoth(u, n, j, g), NEW c
    PROVE  /\ u.sn # 0 /\ StandsBoth(ClimbBoth(u, c), n, j, g + 1)
           /\ ClimbBoth(u, c).fr = u.fr /\ ClimbBoth(u, c).sr = NodeHash(u.sr, c)
<1>1. g \in Nat /\ j \in Nat /\ IsBoth(u) /\ Level(j + 1, g, u.fn) /\ Level(n, g, u.sn)
  BY DEF Block, StandsBoth
<1>2. u.fn = 2 * q
  BY <1>1, InBlock
<1>3. u.sn # 0 /\ ~ FromLeft(u)
  BY <1>1, <1>2, LeftChild
<1>4. RisenBoth(u, 1, ClimbBoth(u, c), u.fr, NodeHash(u.sr, c))
  BY <1>1, <1>3, ClimbBothIs
<1> QED
  BY <1>1, <1>3, <1>4, StandsBothRisen

LEMMA BothToTheLeft ==
    ASSUME NEW n \in Nat, NEW e \in Nat, NEW fn, NEW d \in Nat, OddAfter(fn, d), NEW w, NEW s,
           Block(n, e, fn, w, s),
           d = 0 \/ s + w = n, NEW j \in s..(s + w - 1), NEW u, StandsBoth(u, n, j, e), NEW c,
           NEW h, h = e + (d + 1)
    PROVE  /\ u.sn # 0 /\ StandsBoth(ClimbBoth(u, c), n, j, h)
           /\ ClimbBoth(u, c).fr = NodeHash(c, u.fr) /\ ClimbBoth(u, c).sr = NodeHash(c, u.sr)
<1>1. e \in Nat /\ j \in Nat /\ IsBoth(u) /\ Level(j + 1, e, u.fn) /\ Level(n, e, u.sn)
  BY DEF Block, StandsBoth
<1>8. PICK q \in Nat : fn = (2 * q + 1) * Pow(d)
  BY DEF OddAfter
<1>2. u.fn = fn
  BY <1>1, InBlock
<1>3. u.fn * Pow(e) < n /\ (d = 0 \/ n <= (u.fn + 1) * Pow(e))
  <2> DEFINE b == Pow(e)
             m == fn * b
  <2>1. fn \in Nat /\ b \in Nat /\ s = m /\ w \in Nat \ {0} /\ s + w <= n /\ w <= b
    BY <1>1, <1>2, PowIs DEF Block, Level
  <2> HIDE DEF b
  <2>2. m \in Nat /\ (fn + 1) * b = m + b
    BY <2>1
  <2> HIDE DEF m
  <2>3. m < n /\ (d = 0 \/ n <= m + b)
    BY <2>1, <2>2
  <2> QED
    BY <1>2, <2>2, <2>3 DEF b, m
<1>4. u.fn \in Nat \ {0} /\ u.sn # 0 /\ FromLeft(u) /\ Rise(u.fn) = d + 1
  BY <1>1, <1>2, <1>3, <1>8, RightChild
<1> DEFINE t == d + 1
           fr == NodeHash(c, u.fr)
           sr == NodeHash(c, u.sr)
<1>5. RisenBoth(u, Rise(u.fn), ClimbBoth(u, c), NodeHash(c, u.fr), NodeHash(c, u.sr))
  BY <1>1, <1>4, ClimbBothIs
<1>6. t \in Nat /\ RisenBoth(u, t, ClimbBoth(u, c), fr, sr)
  BY <1>4, <1>5
<1> DEFINE v == ClimbBoth(u, c)
<1> HIDE DEF t, fr, sr, v
<1>7. StandsBoth(v, n, j, e + t) /\ v.fr = fr /\ v.sr = sr
  <2>1. RisenBoth(u, t, v, fr, sr)
    BY <1>6 DEF v
  <2> QED
    BY <1>1, <1>6, <2>1, StandsBothRisen
<1> QED
  BY <1>4, <1>7 DEF t, fr, sr, v

(* Where a walk to both roots sets out: at the largest block that ends     *)
(* with leaf m - 1, which may be the whole earlier tree.                   *)
StartOf(m, n) == Halve([fn |-> m - 1, sn |-> n - 1], TrailingZeros(m))
Whole(m, n) == StartOf(m, n).fn = 0

BothStart(m, n, rootM, P) ==
    [fn |-> StartOf(m, n).fn, sn |-> StartOf(m, n).sn,
     fr |-> IF Whole(m, n) THEN rootM ELSE P[1], sr |-> IF Whole(m, n) THEN rootM ELSE P[1], ok |-> TRUE]

LEMMA StartIs ==
    ASSUME NEW n \in Nat, NEW q \in Nat, NEW g \in Nat, NEW m \in 1..n, m = (2 * q + 1) * Pow(g)
    PROVE  StartOf(m, n).fn = 2 * q /\ Level(n, g, StartOf(m, n).sn)
<1> DEFINE w == [fn |-> m - 1, sn |-> n - 1]
           v == StartOf(m, n)
<1>1. IsPlaced(w) /\ w.fn = m - 1 /\ w.sn = n - 1
  BY DEF IsPlaced
<1>2. v = Halve(w, g)
  BY ZerosAre DEF StartOf
<1> HIDE DEF v
<1>3. PICK a, b : HalvedTo(w, g, v, a, b)
  BY <1>1, <1>2, HalveIs
<1>4. v = [fn |-> a, sn |-> b]
  BY <1>3 DEF HalvedTo
<1>5. Level(m, 0, m - 1) /\ Level(n, 0, n - 1)
  <2>1. m - 1 \in Nat /\ n - 1 \in Nat /\ (m - 1) + 1 = m /\ (n - 1) + 1 = n
    OBVIOUS
  <2> QED
    BY <2>1, LevelZero
<1> HIDE DEF w
<1>6. Level(m, g, a) /\ Level(n, g, b)
  <2>1. \A x, h \in Nat : Level(x, h, m - 1) => Level(x, h + g, a)
    BY <1>1, <1>3 DEF HalvedTo
  <2>2. \A x, h \in Nat : Level(x, h, n - 1) => Level(x, h + g, b)
    BY <1>1, <1>3 DEF HalvedTo
  <2>3. 0 + g = g /\ m \in Nat /\ n \in Nat /\ 0 \in Nat
    OBVIOUS
  <2>4. Level(m, 0 + g, a) /\ Level(n, 0 + g, b)
    BY <1>5, <2>1, <2>2, <2>3
  <2> QED
    BY <2>3, <2>4
<1>7. Level(m, g, 2 * q)
  <2> DEFINE p == Pow(g)
             x == (2 * q) * p
  <2>1. p \in Nat \ {0}
    BY PowIs
  <2> HIDE DEF p
  <2>2. x \in Nat /\ (2 * q + 1) * p = x + p
    BY <2>1
  <2> HIDE DEF x
  <2>3. x < m /\ m <= (2 * q + 1) * p
    BY <2>1, <2>2 DEF p
  <2> QED
    BY <2>3 DEF Level, x, p
<1>8. a = 2 * q
  BY <1>6, <1>7, LevelOnly
<1> QED
  BY <1>4, <1>6, <1>8 DEF v

(* What a walk to both roots holds over a block that leaf m parts.  From   *)
(* a whole earlier tree it leaves the earlier root as it was claimed; else *)
(* it has both roots over the block.                                       *)
BothOver(leaves, m, n, rootM, W, h, w, s, a) ==
    /\ a \in Nat \ {0} /\ StandsBoth(W[a], n, m - 1, h)
    /\ \A i \in 0..(a - 1) : W[i].sn # 0
    /\ Whole(m, n) => /\ s = 0 /\ W[a].fr = rootM
                      /\ W[a].sr = Root(leaves, w, s) <=> rootM = Root(leaves, m, 0)
    /\ ~ Whole(m, n) => W[a].sr = Root(leaves, w, s) /\ W[a].fr = Root(leaves, m - s, s)

LEMMA WholeIs ==
    ASSUME NEW n \in Nat, NEW m \in 1..(n - 1),
           NEW g, NEW q \in Nat, NEW k, NEW s, Block(n, g, 2 * q, k, s), (2 * q + 1) * Pow(g) = m
    PROVE  Whole(m, n) <=> s = 0
<1>1. g \in Nat /\ s \in Nat /\ s = (2 * q) * Pow(g) /\ m \in 1..n
  BY DEF Block
<1>2. StartOf(m, n).fn = 2 * q /\ Level(n, g, StartOf(m, n).sn)
  BY <1>1, StartIs
<1> DEFINE p == Pow(g)
<1>3. p \in Nat \ {0} /\ s = (2 * q) * p
  BY <1>1, PowIs
<1> HIDE DEF p
<1>4. q # 0 => s # 0
  <2> SUFFICES ASSUME q # 0, s = 0 PROVE FALSE
    OBVIOUS
  <2>1. (2 * q) * p = 2 * (q * p) /\ q * p \in Nat
    BY <1>3
  <2>2. q * p = 0
    BY <1>3, <2>1
  <2>3. \A x \in Nat, y \in Nat \ {0} : x * y = 0 => x = 0
    OBVIOUS
  <2> QED
    BY <1>3, <2>2, <2>3
<1>5. q = 0 => s = 0
  BY <1>3
<1>6. 2 * q = 0 <=> q = 0
  OBVIOUS
<1> QED
  BY <1>2, <1>4, <1>5, <1>6 DEF Whole

LEMMA BothFromBase ==
    ASSUME NEW leaves, NEW n \in Nat, NEW m \in 1..(n - 1), NEW rootM, NEW P, NEW W,
           W[0] = BothStart(m, n, rootM, P),
           NEW g, NEW q \in Nat, NEW k, NEW s, Block(n, g, 2 * q, k, s), m = s + k,
           (2 * q + 1) * Pow(g) = m, NEW w, NEW c,
           W[1] = ClimbBoth(W[0], c), c = Root(leaves, w - k, s + k),
           ~ Whole(m, n) => P[1] = Root(leaves, k, s),
           Root(leaves, w, s) = NodeHash(Root(leaves, k, s), Root(leaves, w - k, s + k)),
           NEW h, h = g + 1
    PROVE  BothOver(leaves, m, n, rootM, W, h, w, s, 1)
<1>1. g \in Nat /\ s \in Nat /\ k \in Nat /\ s = (2 * q) * Pow(g) /\ m \in 1..n /\ m - 1 \in Nat /\ k # 0
  BY DEF Block
<1>2. StartOf(m, n).fn = 2 * q /\ Level(n, g, StartOf(m, n).sn)
  BY <1>1, StartIs
<1>3. Whole(m, n) <=> s = 0
  BY WholeIs
<1> DEFINE u == W[0]
           x == IF Whole(m, n) THEN rootM ELSE P[1]
           sn == StartOf(m, n).sn
<1>4. u = [fn |-> 2 * q, sn |-> sn, fr |-> x, sr |-> x, ok |-> TRUE]
  BY <1>2 DEF BothStart
<1>5. sn \in Nat /\ 2 * q \in Nat
  BY <1>2 DEF Level
<1> HIDE DEF x, sn, u
<1>6. IsBoth(u)
  BY <1>4, <1>5, Zenon DEF IsBoth
<1>7. Level((m - 1) + 1, g, 2 * q)
  <2> DEFINE p == Pow(g)
             y == (2 * q) * p
  <2>4. p \in Nat \ {0}
    BY <1>1, PowIs
  <2>5. (2 * q + 1) * p = m
    OBVIOUS
  <2>1. p \in Nat \ {0} /\ (2 * q + 1) * p = m
    BY <2>4, <2>5
  <2> HIDE DEF p
  <2>2. y \in Nat /\ (2 * q + 1) * p = y + p
    BY <2>1
  <2> HIDE DEF y
  <2>3. y < (m - 1) + 1 /\ (m - 1) + 1 <= (2 * q + 1) * p
    BY <1>1, <2>1, <2>2
  <2> QED
    BY <2>3 DEF Level, y, p
<1>8. StandsBoth(u, n, m - 1, g)
  BY <1>2, <1>4, <1>6, <1>7 DEF StandsBoth, sn
<1>9. m - 1 \in s..(s + k - 1) /\ (2 * q + 1) * Pow(g) < n
  BY <1>1
<1>10. /\ u.sn # 0 /\ StandsBoth(ClimbBoth(u, c), n, m - 1, g + 1)
       /\ ClimbBoth(u, c).fr = u.fr /\ ClimbBoth(u, c).sr = NodeHash(u.sr, c)
  BY <1>8, <1>9, BothToTheRight
<1>11. StandsBoth(W[1], n, m - 1, h) /\ W[1].fr = x /\ W[1].sr = NodeHash(x, c)
  BY <1>4, <1>10 DEF u
<1>12. Whole(m, n) => /\ s = 0 /\ W[1].fr = rootM
                      /\ W[1].sr = Root(leaves, w, s) <=> rootM = Root(leaves, m, 0)
  <2> SUFFICES ASSUME Whole(m, n)
               PROVE  /\ s = 0 /\ W[1].fr = rootM
                      /\ W[1].sr = Root(leaves, w, s) <=> rootM = Root(leaves, m, 0)
    OBVIOUS
  <2>1. s = 0 /\ x = rootM /\ m = k
    BY <1>1, <1>3 DEF x
  <2>2. NodeHash(rootM, c) = NodeHash(Root(leaves, m, 0), c) <=> rootM = Root(leaves, m, 0)
    BY NodesApart
  <2> QED
    BY <1>11, <2>1, <2>2
<1>13. ~ Whole(m, n) => W[1].sr = Root(leaves, w, s) /\ W[1].fr = Root(leaves, m - s, s)
  <2>1. m - s = k
    BY <1>1
  <2> QED
    BY <1>11, <2>1 DEF x
<1>14. 1 \in Nat \ {0} /\ \A i \in 0..(1 - 1) : W[i].sn # 0
  BY <1>10 DEF u
<1> QED
  BY <1>11, <1>12, <1>13, <1>14 DEF BothOver

LEMMA BothFromLeft ==
    ASSUME NEW leaves, NEW n \in Nat, NEW m \in 1..(n - 1), NEW rootM, NEW W, NEW b,
           NEW g, NEW q \in Nat, NEW k, NEW s, Block(n, g, 2 * q, k, s), (2 * q + 1) * Pow(g) < n,
           BothOver(leaves, m, n, rootM, W, g, k, s, b), m - 1 \in s..(s + k - 1), NEW c,
           W[b + 1] = ClimbBoth(W[b], c), NEW w, Root(leaves, w, s) = NodeHash(Root(leaves, k, s), c),
           NEW h, h = g + 1
    PROVE  BothOver(leaves, m, n, rootM, W, h, w, s, b + 1)
<1> DEFINE u == W[b]
           v == W[b + 1]
<1>1. /\ b \in Nat \ {0} /\ StandsBoth(u, n, m - 1, g)
      /\ \A i \in 0..(b - 1) : W[i].sn # 0
      /\ Whole(m, n) => /\ s = 0 /\ u.fr = rootM
                        /\ u.sr = Root(leaves, k, s) <=> rootM = Root(leaves, m, 0)
      /\ ~ Whole(m, n) => u.sr = Root(leaves, k, s) /\ u.fr = Root(leaves, m - s, s)
  BY DEF BothOver
<1>2. v = ClimbBoth(u, c)
  OBVIOUS
<1>8. \A i \in 0..((b + 1) - 1) : i \in 0..(b - 1) \/ i = b
  BY <1>1
<1>9. \A i \in 0..((b + 1) - 1) : i \in 0..(b - 1) \/ W[i] = u
  BY <1>8
<1> HIDE DEF u, v
<1>3. u.sn # 0 /\ StandsBoth(v, n, m - 1, g + 1) /\ v.fr = u.fr /\ v.sr = NodeHash(u.sr, c)
  BY <1>1, <1>2, BothToTheRight
<1>4. NodeHash(u.sr, c) = NodeHash(Root(leaves, k, s), c) <=> u.sr = Root(leaves, k, s)
  BY NodesApart
<1>5. Whole(m, n) => /\ s = 0 /\ v.fr = rootM
                     /\ v.sr = Root(leaves, w, s) <=> rootM = Root(leaves, m, 0)
  BY <1>1, <1>3, <1>4
<1>6. ~ Whole(m, n) => v.sr = Root(leaves, w, s) /\ v.fr = Root(leaves, m - s, s)
  BY <1>1, <1>3
<1>7. b + 1 \in Nat \ {0} /\ \A i \in 0..((b + 1) - 1) : W[i].sn # 0
  BY <1>1, <1>3, <1>9
<1> QED
  BY <1>3, <1>5, <1>6, <1>7 DEF BothOver, v

LEMMA BothFromRight ==
    ASSUME NEW leaves, NEW n \in Nat, NEW m \in 1..(n - 1), NEW rootM, NEW W, NEW b,
           NEW e \in Nat, NEW z, NEW d \in Nat, OddAfter(z, d), NEW x, NEW y, Block(n, e, z, x, y),
           d = 0 \/ y + x = n, y # 0,
           BothOver(leaves, m, n, rootM, W, e, x, y, b), m - 1 \in y..(y + x - 1), NEW c,
           W[b + 1] = ClimbBoth(W[b], c), NEW w, NEW s,
           Root(leaves, w, s) = NodeHash(c, Root(leaves, x, y)),
           Root(leaves, m - s, s) = NodeHash(c, Root(leaves, m - y, y)),
           NEW h, h = e + (d + 1)
    PROVE  BothOver(leaves, m, n, rootM, W, h, w, s, b + 1)
<1> DEFINE u == W[b]
           v == W[b + 1]
<1>1. /\ b \in Nat \ {0} /\ StandsBoth(u, n, m - 1, e)
      /\ \A i \in 0..(b - 1) : W[i].sn # 0
      /\ ~ Whole(m, n)
      /\ u.sr = Root(leaves, x, y) /\ u.fr = Root(leaves, m - y, y)
  BY DEF BothOver
<1>2. v = ClimbBoth(u, c)
  OBVIOUS
<1>8. \A i \in 0..((b + 1) - 1) : i \in 0..(b - 1) \/ i = b
  BY <1>1
<1>9. \A i \in 0..((b + 1) - 1) : i \in 0..(b - 1) \/ W[i] = u
  BY <1>8
<1> HIDE DEF u, v
<1>3. /\ u.sn # 0 /\ StandsBoth(v, n, m - 1, h)
      /\ v.fr = NodeHash(c, u.fr) /\ v.sr = NodeHash(c, u.sr)
  BY <1>1, <1>2, BothToTheLeft
<1>6. v.sr = Root(leaves, w, s) /\ v.fr = Root(leaves, m - s, s)
  BY <1>1, <1>3
<1>7. b + 1 \in Nat \ {0} /\ \A i \in 0..((b + 1) - 1) : W[i].sn # 0
  BY <1>1, <1>3, <1>9
<1> QED
  BY <1>1, <1>3, <1>6, <1>7 DEF BothOver, v

(* The earlier tree over a block it ends in the right half of.             *)
LEMMA PartHead ==
    ASSUME NEW leaves, NEW n \in Nat, Len(leaves) = n, NEW h, NEW q, NEW w, NEW s, Block(n, h, q, w, s),
           w >= 2, NEW m \in Nat, NEW k, k = SplitPoint(w), s + k < m, m < s + w
    PROVE  Root(leaves, m - s, s) = NodeHash(Root(leaves, k, s), Root(leaves, m - (s + k), s + k))
<1>1. PICK g \in Nat : SplitPoint(w) = Pow(g) /\ Pow(g) \in 1..(w - 1) /\ w <= 2 * Pow(g)
  BY BlockHalves
<1>2. w \in Nat /\ s \in Nat /\ s + w <= n
  BY DEF Block
<1> DEFINE v == m - s
<1>3. k = Pow(g) /\ k \in 1..(w - 1) /\ w <= 2 * k
  BY <1>1
<1>4. v \in Nat /\ v >= 2 /\ k < v /\ v <= 2 * k /\ v \in 0..n /\ s \in 0..(n - v)
  BY <1>2, <1>3
<1>5. m - (s + k) = v - k
  BY <1>2, <1>3
<1> HIDE DEF v
<1>6. SplitPoint(v) = k
  BY <1>3, <1>4, SplitOnly
<1>7. Root(leaves, v, s) = NodeHash(Root(leaves, k, s), Root(leaves, v - k, s + k))
  BY <1>4, <1>6, RootsAre DEF Root
<1> QED
  BY <1>5, <1>7 DEF v

(* The walk of a verifier along a consistency proof, and what is beside    *)
(* it: o is 1 when the proof's first hash is where the walk sets out.      *)
WalkBoth(W, P, N, m, n, rootM, o) ==
    /\ o = IF Whole(m, n) THEN 0 ELSE 1
    /\ W[0] = BothStart(m, n, rootM, P)
    /\ \A i \in 1..N : W[i] = ClimbBoth(W[i - 1], P[i + o])

LeadsOver(m, f, P, N, o, w, s) ==
    /\ s < m /\ m < s + w /\ Len(f[w][s]) <= N + o
    /\ \A i \in 1..Len(f[w][s]) : P[i] = f[w][s][i]

LEMMA WalksBoth ==
    ASSUME NEW leaves, NEW n \in Nat, Len(leaves) = n, NEW m \in 1..(n - 1), NEW f, IsProofOver(leaves, m, f),
           NEW rootM, NEW W, NEW P, NEW N \in Nat, NEW o, WalkBoth(W, P, N, m, n, rootM, o)
    PROVE  \A w \in 1..n : \A s \in 0..(n - w) : \A h, q :
             Block(n, h, q, w, s) /\ LeadsOver(m, f, P, N, o, w, s)
               => BothOver(leaves, m, n, rootM, W, h, w, s, Len(f[w][s]) - o)
<1> DEFINE Fine(w) == \A s \in 0..(n - w) : \A h, q :
             Block(n, h, q, w, s) /\ LeadsOver(m, f, P, N, o, w, s)
               => BothOver(leaves, m, n, rootM, W, h, w, s, Len(f[w][s]) - o)
           Bad == {w \in 1..n : ~ Fine(w)}
<1>1. SUFFICES ASSUME Bad # {} PROVE FALSE
  <2>1. \A w \in 1..n : w \in Bad \/ Fine(w)
    OBVIOUS
  <2>2. \A w \in 1..n : Fine(w)
    <3> HIDE DEF Bad, Fine
    <3> QED
      BY <1>1, <2>1
  <2> QED
    BY <2>2
<1>2. PICK w \in Bad : \A i \in Bad : w <= i
  <2>1. Bad \in SUBSET Nat
    OBVIOUS
  <2> HIDE DEF Bad
  <2> QED
    BY <1>1, <2>1, LeastNat
<1>3. w \in 1..n /\ ~ Fine(w)
  OBVIOUS
<1>4. \A i \in 1..(w - 1) : Fine(i)
  <2> HIDE DEF Fine
  <2>1. \A i \in 1..(w - 1) : i \in 1..n /\ i \notin Bad
    BY <1>2, <1>3
  <2> QED
    BY <2>1
<1> HIDE DEF Bad
<1>5. PICK s \in 0..(n - w) : \E h, q :
        /\ Block(n, h, q, w, s) /\ LeadsOver(m, f, P, N, o, w, s)
        /\ ~ BothOver(leaves, m, n, rootM, W, h, w, s, Len(f[w][s]) - o)
  BY <1>3
<1>6. PICK h, q :
        /\ Block(n, h, q, w, s) /\ LeadsOver(m, f, P, N, o, w, s)
        /\ ~ BothOver(leaves, m, n, rootM, W, h, w, s, Len(f[w][s]) - o)
  BY <1>5
<1> HIDE DEF Fine
<1>7. w >= 2 /\ s < m /\ m < s + w /\ m \in Nat /\ m < n
  BY <1>3, <1>6 DEF LeadsOver
<1>8. PICK g \in Nat :
             /\ h = g + 1 /\ SplitPoint(w) = Pow(g) /\ Pow(g) \in 1..(w - 1)
             /\ (2 * q + 1) * Pow(g) = s + Pow(g)
             /\ Block(n, g, 2 * q, Pow(g), s)
             /\ \E e, d \in Nat :
                  /\ g = e + d
                  /\ Block(n, e, (2 * q + 1) * Pow(d), w - Pow(g), s + Pow(g))
                  /\ d = 0 \/ s + w = n
  BY <1>6, <1>7, BlockHalves
<1> DEFINE k == Pow(g)
           x == w - k
           y == s + k
           a == Len(f[w][s]) - o
           L == Root(leaves, k, s)
           R == Root(leaves, x, y)
<1>9. /\ SplitPoint(w) = k /\ k \in 1..(w - 1) /\ x \in 1..(w - 1) /\ w \in 0..n /\ k \in 0..n /\ x \in 0..n
      /\ s \in 0..(n - k) /\ y \in 0..(n - x) /\ s \in Nat /\ q \in Nat /\ y < n /\ y # 0 /\ y + x = s + w
      /\ k \in 1..n /\ x \in 1..n /\ y = s + k
  <2>1. SplitPoint(w) = k /\ k \in 1..(w - 1) /\ q \in Nat
    BY <1>6, <1>8 DEF Block
  <2> HIDE DEF k
  <2> QED
    BY <1>3, <1>7, <2>1
<1>10. o \in {0, 1} /\ (o = 0 <=> Whole(m, n))
  BY DEF WalkBoth
<1>11. PICK U : f[k][s] \in Seq(U) /\ f[x][y] \in Seq(U)
  <2>1. PICK U : \A v \in 0..n : \A t \in 0..(n - v) : f[v][t] \in Seq(U)
    BY ProofIsSeq
  <2> HIDE DEF k, x, y
  <2> QED
    BY <1>9, <2>1
<1>12. Root(leaves, w, s) = NodeHash(L, R)
  <2>1. Root(leaves, w, s) = NodeHash(Root(leaves, SplitPoint(w), s), Root(leaves, w - SplitPoint(w), s + SplitPoint(w)))
    BY <1>6, <1>7, RootHalves
  <2> QED
    BY <1>9, <2>1
<1>13. f[w][s] = IF m <= s + k THEN Append(f[k][s], R) ELSE Append(f[x][y], L)
  <2>1. m # s + w
    BY <1>7
  <2>2. f[w][s] = IF m <= s + SplitPoint(w)
                  THEN Append(f[SplitPoint(w)][s], Root(leaves, w - SplitPoint(w), s + SplitPoint(w)))
                  ELSE Append(f[w - SplitPoint(w)][s + SplitPoint(w)], Root(leaves, SplitPoint(w), s))
    BY <1>7, <1>9, <2>1 DEF IsProofOver
  <2> QED
    BY <1>9, <2>2
<1>14. Block(n, g, 2 * q, k, s) /\ (2 * q + 1) * Pow(g) = y /\ h = g + 1
  BY <1>8
<1>15. /\ Len(f[w][s]) <= N + o
       /\ \A i \in 1..Len(f[w][s]) : P[i] = f[w][s][i]
       /\ ~ BothOver(leaves, m, n, rootM, W, h, w, s, a)
  BY <1>6 DEF LeadsOver
<1>16. \A i \in 1..N : W[i] = ClimbBoth(W[i - 1], P[i + o])
  BY DEF WalkBoth
<1>17. CASE m = s + k
  <2>1. f[k][s] = IF s = 0 THEN << >> ELSE <<L>>
    <3> HIDE DEF k, x
    <3> QED
      BY <1>9, <1>17 DEF IsProofOver
  <2>2. Whole(m, n) <=> s = 0
    <3>1. Block(n, g, 2 * q, k, s) /\ (2 * q + 1) * Pow(g) = m /\ q \in Nat
      BY <1>9, <1>14, <1>17
    <3> HIDE DEF k
    <3> QED
      BY <3>1, WholeIs
  <2> HIDE DEF k, x, y, L, R
  <2>3. f[w][s] = Append(f[k][s], R)
    <3>1. m <= s + k
      BY <1>7, <1>17
    <3> QED
      BY <1>13, <3>1
  <2>9. Len(f[k][s]) = o /\ (s # 0 => f[k][s][1] = L)
    <3>1. CASE s = 0
      BY <1>10, <2>1, <2>2, <3>1
    <3>2. CASE s # 0
      BY <1>10, <2>1, <2>2, <3>2
    <3> QED
      BY <3>1, <3>2
  <2>4. Len(f[w][s]) = o + 1 /\ f[w][s][o + 1] = R /\ (s # 0 => f[w][s][1] = L)
    <3>1. /\ Len(f[w][s]) = Len(f[k][s]) + 1 /\ f[w][s][Len(f[k][s]) + 1] = R
          /\ \A i \in 1..Len(f[k][s]) : f[w][s][i] = f[k][s][i]
      BY <1>11, <2>3
    <3>2. s # 0 => 1 \in 1..Len(f[k][s])
      BY <1>10, <2>2, <2>9
    <3> QED
      BY <2>9, <3>1, <3>2
  <2>5. a = 1 /\ P[o + 1] = R /\ (~ Whole(m, n) => P[1] = L) /\ 1 <= N
    <3>1. a = 1 /\ o + 1 <= N + o
      BY <1>10, <1>15, <2>4
    <3>2. o + 1 \in 1..Len(f[w][s]) /\ 1 \in 1..Len(f[w][s])
      BY <1>10, <2>4
    <3> QED
      BY <1>10, <1>15, <2>2, <2>4, <3>1, <3>2
  <2>6. W[1] = ClimbBoth(W[0], R)
    <3>1. 1 \in 1..N /\ 1 - 1 = 0 /\ 1 + o = o + 1
      BY <1>10, <2>5
    <3> QED
      BY <1>16, <2>5, <3>1
  <2>7. W[0] = BothStart(m, n, rootM, P)
    BY DEF WalkBoth
  <2>8. BothOver(leaves, m, n, rootM, W, h, w, s, 1)
    <3>1. /\ Block(n, g, 2 * q, k, s) /\ m = s + k /\ (2 * q + 1) * Pow(g) = m /\ q \in Nat
          /\ R = Root(leaves, w - k, s + k) /\ (~ Whole(m, n) => P[1] = Root(leaves, k, s))
          /\ Root(leaves, w, s) = NodeHash(Root(leaves, k, s), Root(leaves, w - k, s + k)) /\ h = g + 1
      BY <1>9, <1>12, <1>14, <1>17, <2>5 DEF L, R, x, y
    <3> QED
      BY <2>6, <2>7, <3>1, BothFromBase
  <2> QED
    BY <1>15, <2>5, <2>8
<1>20. m < s + k => m # s + w /\ w >= 2 /\ f[w][s] = Append(f[k][s], R)
  <2> HIDE DEF k, R, x, y, L
  <2>1. m < s + k => m <= s + k /\ m # s + w
    BY <1>7, <1>9
  <2> QED
    BY <1>7, <1>13, <2>1
<1>21. s + k < m => f[w][s] = Append(f[x][y], L)
  <2> HIDE DEF k, R, x, y, L
  <2>1. s + k < m => ~ (m <= s + k)
    BY <1>7, <1>9
  <2> QED
    BY <1>13, <2>1
<1>18. CASE m < s + k
  <2> DEFINE t == f[k][s]
             b == Len(t) - o
  <2>1. /\ Len(t) \in Nat /\ Len(f[w][s]) = Len(t) + 1 /\ f[w][s][Len(t) + 1] = R
        /\ \A i \in 1..Len(t) : f[w][s][i] = t[i]
    <3>1. t \in Seq(U) /\ f[w][s] = Append(t, R)
      BY <1>11, <1>18, <1>20
    <3> HIDE DEF t, R
    <3> QED
      BY <3>1
  <2>2. LeadsOver(m, f, P, N, o, k, s)
    <3> HIDE DEF k
    <3> QED
      BY <1>7, <1>10, <1>15, <1>18, <2>1 DEF LeadsOver, t
  <2>3. BothOver(leaves, m, n, rootM, W, g, k, s, b)
    <3>1. Fine(k) /\ s \in 0..(n - k)
      BY <1>4, <1>9
    <3> HIDE DEF k
    <3> QED
      BY <1>14, <2>2, <3>1 DEF Fine, t
  <2>4. b \in Nat \ {0} /\ a = b + 1
    <3> HIDE DEF t
    <3> QED
      BY <1>10, <2>1, <2>3 DEF BothOver
  <2>5. P[a + o] = R /\ a \in 1..N /\ a - 1 = b
    <3> HIDE DEF t
    <3>1. a + o = Len(t) + 1 /\ Len(t) + 1 \in 1..Len(f[w][s])
      BY <1>10, <2>1
    <3>2. a \in 1..N /\ a - 1 = b
      BY <1>10, <1>15, <2>1, <2>4
    <3> QED
      BY <1>15, <2>1, <3>1, <3>2
  <2> HIDE DEF a, b, t, k, x, y, L, R
  <2>6. W[b + 1] = ClimbBoth(W[b], R)
    BY <1>16, <2>4, <2>5
  <2>7. m - 1 \in s..(s + k - 1) /\ (2 * q + 1) * Pow(g) < n /\ q \in Nat
    BY <1>7, <1>9, <1>14, <1>18
  <2>8. Root(leaves, w, s) = NodeHash(Root(leaves, k, s), R)
    BY <1>12 DEF L
  <2>9. BothOver(leaves, m, n, rootM, W, h, w, s, b + 1)
    BY <1>14, <2>3, <2>6, <2>7, <2>8, BothFromLeft
  <2> QED
    BY <1>15, <2>4, <2>9
<1>19. CASE s + k < m
  <2> DEFINE t == f[x][y]
             b == Len(t) - o
  <2>1. /\ Len(t) \in Nat /\ Len(f[w][s]) = Len(t) + 1 /\ f[w][s][Len(t) + 1] = L
        /\ \A i \in 1..Len(t) : f[w][s][i] = t[i]
    <3>1. t \in Seq(U) /\ f[w][s] = Append(t, L)
      BY <1>11, <1>19, <1>21
    <3> HIDE DEF t, L
    <3> QED
      BY <3>1
  <2>2. LeadsOver(m, f, P, N, o, x, y)
    <3>1. y < m /\ m < y + x
      <4> HIDE DEF k, x, y
      <4> QED
        BY <1>7, <1>9, <1>19
    <3> HIDE DEF k, x, y, L, R
    <3>2. Len(t) <= N + o /\ \A i \in 1..Len(t) : P[i] = t[i]
      <4> HIDE DEF t
      <4> QED
        BY <1>10, <1>15, <2>1
    <3> QED
      BY <3>1, <3>2, Zenon DEF LeadsOver
  <2>10. PICK e \in Nat, d \in Nat :
              /\ g = e + d
              /\ Block(n, e, (2 * q + 1) * Pow(d), x, y)
              /\ d = 0 \/ s + w = n
    BY <1>8
  <2> DEFINE z == (2 * q + 1) * Pow(d)
  <2>11. /\ Block(n, e, z, x, y) /\ OddAfter(z, d) /\ (d = 0 \/ y + x = n)
         /\ h = e + (d + 1)
    <3>1. h = e + (d + 1)
      BY <1>8, <2>10
    <3>2. OddAfter(z, d)
      BY <1>9 DEF OddAfter
    <3>3. d = 0 \/ y + x = n
      <4> HIDE DEF x, y
      <4> QED
        BY <1>9, <2>10
    <3> QED
      BY <2>10, <3>1, <3>2, <3>3
  <2>3. BothOver(leaves, m, n, rootM, W, e, x, y, b)
    <3>1. Fine(x) /\ y \in 0..(n - x)
      BY <1>4, <1>9
    <3> HIDE DEF x, y
    <3> QED
      BY <2>2, <2>10, <3>1 DEF Fine, t
  <2>4. b \in Nat \ {0} /\ a = b + 1
    <3> HIDE DEF t
    <3> QED
      BY <1>10, <2>1, <2>3 DEF BothOver
  <2>5. P[a + o] = L /\ a \in 1..N /\ a - 1 = b
    <3> HIDE DEF t
    <3>1. a + o = Len(t) + 1 /\ Len(t) + 1 \in 1..Len(f[w][s])
      BY <1>10, <2>1
    <3>2. a \in 1..N /\ a - 1 = b
      BY <1>10, <1>15, <2>1, <2>4
    <3> QED
      BY <1>15, <2>1, <3>1, <3>2
  <2>12. Root(leaves, m - s, s) = NodeHash(Root(leaves, k, s), Root(leaves, m - (s + k), s + k))
    <3> HIDE DEF k
    <3>1. k = SplitPoint(w) /\ s + k < m
      BY <1>9, <1>19
    <3> QED
      BY <1>6, <1>7, <3>1, PartHead
  <2>13. Root(leaves, m - s, s) = NodeHash(L, Root(leaves, m - y, y))
    BY <2>12
  <2> HIDE DEF a, b, t, k, x, y, z, L, R
  <2>6. W[b + 1] = ClimbBoth(W[b], L)
    BY <1>16, <2>4, <2>5
  <2>7. m - 1 \in y..(y + x - 1) /\ y # 0
    BY <1>7, <1>9, <1>19
  <2>8. Root(leaves, w, s) = NodeHash(L, Root(leaves, x, y))
    BY <1>12 DEF R
  <2>9. BothOver(leaves, m, n, rootM, W, h, w, s, b + 1)
    BY <2>3, <2>6, <2>7, <2>8, <2>11, <2>13, BothFromRight
  <2> QED
    BY <1>15, <2>4, <2>9
<1> QED
  BY <1>7, <1>9, <1>17, <1>18, <1>19

BothWalks(f, start, proof, m) ==
    f = [i \in 0..m |-> IF i = 0 THEN start ELSE ClimbBoth(f[i - 1], proof[i])]

LEMMA BothWalksExist ==
    ASSUME NEW start, NEW proof, NEW n \in Nat
    PROVE  \E f : BothWalks(f, start, proof, n)
<1> DEFINE Bad == {m \in 0..n : ~ \E f : BothWalks(f, start, proof, m)}
<1>1. SUFFICES ASSUME Bad # {} PROVE FALSE
  <2>1. n \in Bad \/ \E f : BothWalks(f, start, proof, n)
    OBVIOUS
  <2> HIDE DEF Bad
  <2> QED
    BY <1>1, <2>1
<1>2. PICK m \in Bad : \A i \in Bad : m <= i
  <2>1. Bad \in SUBSET Nat
    OBVIOUS
  <2> HIDE DEF Bad
  <2> QED
    BY <1>1, <2>1, LeastNat
<1>3. m \in 0..n /\ ~ \E f : BothWalks(f, start, proof, m)
  BY <1>2
<1>4. PICK f : m > 0 => BothWalks(f, start, proof, m - 1)
  BY <1>2
<1> HIDE DEF Bad
<1> DEFINE g == [i \in 0..m |-> IF i = 0 THEN start
                                ELSE IF i = m THEN ClimbBoth(f[m - 1], proof[m]) ELSE f[i]]
<1>5. \A i \in 0..(m - 1) : f[i] = IF i = 0 THEN start ELSE ClimbBoth(f[i - 1], proof[i])
  BY <1>3, <1>4 DEF BothWalks
<1>6. ASSUME NEW i \in 0..m
      PROVE  g[i] = IF i = 0 THEN start ELSE ClimbBoth(g[i - 1], proof[i])
  <2>1. \A j \in 0..(m - 1) : g[j] = f[j]
    BY <1>3, <1>5
  <2>2. g[i] = IF i = 0 THEN start ELSE ClimbBoth(f[i - 1], proof[i])
    BY <1>3, <1>5
  <2>3. i # 0 => i - 1 \in 0..(m - 1)
    BY <1>3
  <2> HIDE DEF g
  <2> QED
    BY <2>1, <2>2, <2>3
<1>7. g = [i \in 0..m |-> g[i]]
  OBVIOUS
<1> HIDE DEF g
<1>8. [i \in 0..m |-> g[i]] = [i \in 0..m |-> IF i = 0 THEN start ELSE ClimbBoth(g[i - 1], proof[i])]
  BY <1>6
<1>9. BothWalks(g, start, proof, m)
  BY <1>7, <1>8 DEF BothWalks
<1> QED
  BY <1>3, <1>9

(* A consistency proof verifies if and only if the earlier root is that of *)
(* the first m leaves.                                                     *)
ClimbBothAll(start, proof) == Walk(ClimbBoth, start, proof)

LEMMA ConsistencyExact ==
    ASSUME NEW leaves, NEW n \in Nat, Len(leaves) = n, NEW m \in 1..(n - 1), NEW rootM
    PROVE  VerifyConsistency(m, n, rootM, MerkleRoot(leaves), ConsistencyProof(leaves, m))
             <=> rootM = Root(leaves, m, 0)
<1> DEFINE P == ConsistencyProof(leaves, m)
           o == IF Whole(m, n) THEN 0 ELSE 1
           w0 == BothStart(m, n, rootM, P)
           Q == IF Whole(m, n) THEN P ELSE Tail(P)
           v == ClimbBothAll(w0, Q)
           rootN == MerkleRoot(leaves)
<1>1. n \in 1..n /\ 0 \in 0..(n - n) /\ n \in 0..n /\ n \in Nat \ {0} /\ m \in 1..n /\ m # n
  OBVIOUS
<1>2. PICK f : IsProofOver(leaves, m, f) /\ P = f[n][0]
  BY <1>1, ConsistencyProofIs
<1>3. PICK U : f[n][0] \in Seq(U)
  <2>1. PICK U : \A w \in 0..n : \A s \in 0..(n - w) : f[w][s] \in Seq(U)
    BY <1>1, <1>2, ProofIsSeq
  <2> QED
    BY <1>1, <2>1
<1>4. P \in Seq(U) /\ Len(P) \in Nat
  BY <1>2, <1>3
<1>5. PICK h \in Nat : Block(n, h, 0, n, 0)
  BY <1>1, WholeBlock
<1>6. rootN = Root(leaves, n, 0)
  BY DEF MerkleRoot, Root
<1>7. VerifyConsistency(m, n, rootM, rootN, P)
        <=> P # << >> /\ v.ok /\ v.sn = 0 /\ v.fr = rootM /\ v.sr = rootN
  <2>1. P # << >> => Head(P) = P[1]
    <3> HIDE DEF P
    <3> QED
      BY <1>4
  <2>2. VerifyConsistency(m, n, rootM, rootN, P) <=>
           /\ P # << >>
           /\ LET start == Halve([fn |-> m - 1, sn |-> n - 1], TrailingZeros(m))
                  whole == start.fn = 0
                  from == IF whole THEN rootM ELSE Head(P)
                  u0 == [fn |-> start.fn, sn |-> start.sn, fr |-> from, sr |-> from, ok |-> TRUE]
                  w == ClimbBothAll(u0, IF whole THEN P ELSE Tail(P))
              IN  w.ok /\ w.sn = 0 /\ w.fr = rootM /\ w.sr = rootN
    <3> HIDE DEF P, rootN
    <3> QED
      BY <1>1, Zenon DEF VerifyConsistency, ClimbBothAll
  <2>3. CASE P = << >>
    BY <2>2, <2>3
  <2>4. CASE P # << >>
    BY <2>1, <2>2, <2>4, Zenon DEF BothStart, Whole, StartOf
  <2> QED
    BY <2>3, <2>4
<1> HIDE DEF P, v, rootN
<1>8. ASSUME NEW N \in Nat, NEW W, WalkBoth(W, P, N, m, n, rootM, o), Len(P) <= N + o
      PROVE  BothOver(leaves, m, n, rootM, W, h, n, 0, Len(P) - o)
  <2>1. LeadsOver(m, f, P, N, o, n, 0)
    BY <1>1, <1>2, <1>8 DEF LeadsOver
  <2> HIDE DEF o
  <2>2. BothOver(leaves, m, n, rootM, W, h, n, 0, Len(f[n][0]) - o)
    BY <1>1, <1>2, <1>5, <1>8, <2>1, WalksBoth
  <2> QED
    BY <1>2, <2>2
<1>9. Len(P) - o \in Nat \ {0}
  <2> DEFINE N == Len(P)
             Q1 == [i \in 1..N |-> P[i + o]]
  <2>1. PICK W : BothWalks(W, w0, Q1, N)
    <3> HIDE DEF w0, Q1
    <3> QED
      BY <1>4, BothWalksExist
  <2>6. N \in Nat /\ \A i \in 1..N : Q1[i] = P[i + o]
    BY <1>4
  <2> HIDE DEF w0, N, Q1
  <2>7. /\ W[0] = w0
        /\ \A i \in 1..N : i \in 0..N /\ i # 0 /\ W[i] = ClimbBoth(W[i - 1], Q1[i])
    BY <2>1, <2>6 DEF BothWalks
  <2>2. W[0] = w0 /\ \A i \in 1..N : W[i] = ClimbBoth(W[i - 1], P[i + o])
    BY <2>6, <2>7
  <2>3. WalkBoth(W, P, N, m, n, rootM, o)
    BY <2>2 DEF WalkBoth, w0
  <2>4. N \in Nat /\ Len(P) <= N + o
    BY <1>4 DEF N
  <2>5. BothOver(leaves, m, n, rootM, W, h, n, 0, Len(P) - o)
    BY <1>8, <2>3, <2>4
  <2> QED
    BY <2>5 DEF BothOver
<1>10. P # << >>
  BY <1>4, <1>9
<1>11. Len(Q) = Len(P) - o /\ Len(Q) \in Nat /\ \A i \in 1..Len(Q) : Q[i] = P[i + o]
  <2>1. CASE Whole(m, n)
    BY <1>4, <2>1
  <2>2. CASE ~ Whole(m, n)
    <3>1. Q = Tail(P) /\ o = 1
      BY <2>2
    <3>2. Len(Tail(P)) = Len(P) - 1 /\ \A i \in 1..(Len(P) - 1) : Tail(P)[i] = P[i + 1]
      BY <1>4, <1>10
    <3> HIDE DEF Q, o
    <3> QED
      BY <1>9, <3>1, <3>2
  <2> QED
    BY <2>1, <2>2
<1> HIDE DEF Q
<1> DEFINE W == CHOOSE W : BothWalks(W, w0, Q, Len(Q))
           a == Len(Q)
<1>12. BothWalks(W, w0, Q, a)
  <2> HIDE DEF w0
  <2> QED
    BY <1>11, BothWalksExist
<1>13. v = W[a]
  <2> HIDE DEF w0
  <2> QED
    BY Zenon DEF v, ClimbBothAll, Walk, BothWalks
<1> HIDE DEF W, w0
<1>21. a \in Nat
  BY <1>11
<1> HIDE DEF a
<1>14. /\ W[0] = w0
       /\ \A i \in 1..a : i \in 0..a /\ i # 0 /\ W[i] = ClimbBoth(W[i - 1], Q[i])
  BY <1>12, <1>21 DEF BothWalks
<1>22. \A i \in 1..a : Q[i] = P[i + o]
  BY <1>11 DEF a
<1>15. WalkBoth(W, P, a, m, n, rootM, o)
  BY <1>14, <1>22 DEF WalkBoth, w0
<1>16. BothOver(leaves, m, n, rootM, W, h, n, 0, a)
  <2>1. a \in Nat /\ Len(P) <= a + o /\ a = Len(P) - o
    BY <1>4, <1>11 DEF a
  <2> HIDE DEF o
  <2> QED
    BY <1>8, <1>15, <2>1
<1> HIDE DEF o
<1>17. /\ StandsBoth(v, n, m - 1, h)
       /\ Whole(m, n) => /\ v.fr = rootM
                         /\ v.sr = Root(leaves, n, 0) <=> rootM = Root(leaves, m, 0)
       /\ ~ Whole(m, n) => v.sr = Root(leaves, n, 0) /\ v.fr = Root(leaves, m, 0)
  <2>1. m - 0 = m
    OBVIOUS
  <2> QED
    BY <1>13, <1>16, <2>1 DEF BothOver
<1>18. Level(n, h, 0)
  <2>1. n <= Pow(h) /\ Pow(h) \in Nat
    BY <1>5, PowIs DEF Block
  <2>2. 0 * Pow(h) = 0 /\ (0 + 1) * Pow(h) = Pow(h)
    BY <2>1
  <2> QED
    BY <2>1, <2>2 DEF Level
<1>19. v.sn = 0 /\ v.ok = TRUE
  BY <1>1, <1>17, <1>18, LevelOnly DEF StandsBoth
<1>20. VerifyConsistency(m, n, rootM, rootN, P) <=> rootM = Root(leaves, m, 0)
  BY <1>6, <1>7, <1>10, <1>17, <1>19
<1> QED
  BY <1>20 DEF P, rootN

---------------------------------------------------------------------------
(* Heads over the same leaves are the same. *)

SameHeads(a, b, v) ==
    \A s \in 0..(Len(a) - v), t \in 0..(Len(b) - v) :
        (\A j \in 1..v : a[s + j] = b[t + j]) => Root(a, v, s) = Root(b, v, t)

LEMMA SameHeadsStep ==
    ASSUME NEW a, NEW x \in Nat, Len(a) = x, NEW b, NEW y \in Nat, Len(b) = y,
           NEW v \in 0..x, v <= y, \A i \in 0..(v - 1) : SameHeads(a, b, i)
    PROVE  SameHeads(a, b, v)
<1>1. SUFFICES ASSUME NEW s \in 0..(x - v), NEW t \in 0..(y - v), \A j \in 1..v : a[s + j] = b[t + j]
               PROVE  Root(a, v, s) = Root(b, v, t)
  BY DEF SameHeads
<1>2. v \in 0..y /\ v \in Nat /\ s \in Nat /\ t \in Nat
  OBVIOUS
<1>3. CASE v = 0
  BY <1>2, <1>3, RootsAre DEF Root
<1>4. CASE v = 1
  <2>1. a[s + 1] = b[t + 1]
    BY <1>1, <1>4
  <2> QED
    BY <1>2, <1>4, <2>1, RootsAre DEF Root
<1>5. CASE v >= 2
  <2> DEFINE k == SplitPoint(v)
  <2>1. k \in 1..(v - 1)
    BY <1>2, <1>5, SplitInside
  <2>2. /\ Root(a, v, s) = NodeHash(Root(a, k, s), Root(a, v - k, s + k))
        /\ Root(b, v, t) = NodeHash(Root(b, k, t), Root(b, v - k, t + k))
    BY <1>2, <1>5, RootsAre DEF Root
  <2> HIDE DEF k
  <2>3. SameHeads(a, b, k) /\ SameHeads(a, b, v - k)
    BY <1>2, <2>1
  <2>4. Root(a, k, s) = Root(b, k, t)
    <3>1. s \in 0..(x - k) /\ t \in 0..(y - k) /\ \A j \in 1..k : j \in 1..v
      BY <1>2, <2>1
    <3> QED
      BY <1>1, <2>3, <3>1 DEF SameHeads
  <2>5. Root(a, v - k, s + k) = Root(b, v - k, t + k)
    <3>1. s + k \in 0..(x - (v - k)) /\ t + k \in 0..(y - (v - k))
      BY <1>2, <2>1
    <3>2. \A j \in 1..(v - k) : k + j \in 1..v /\ (s + k) + j = s + (k + j) /\ (t + k) + j = t + (k + j)
      BY <1>2, <2>1
    <3>3. \A j \in 1..(v - k) : a[(s + k) + j] = b[(t + k) + j]
      BY <1>1, <3>2
    <3> QED
      BY <2>3, <3>1, <3>3 DEF SameHeads
  <2> QED
    BY <2>2, <2>4, <2>5
<1> QED
  BY <1>2, <1>3, <1>4, <1>5

LEMMA HeadsSame ==
    ASSUME NEW a, NEW x \in Nat, Len(a) = x, NEW b, NEW y \in Nat, Len(b) = y,
           NEW v \in 0..x, v <= y
    PROVE  SameHeads(a, b, v)
<1> DEFINE Bad == {i \in 0..v : ~ SameHeads(a, b, i)}
<1>1. Bad \in SUBSET Nat
  OBVIOUS
<1>2. SUFFICES ASSUME Bad # {} PROVE FALSE
  OBVIOUS
<1>3. PICK m \in Bad : \A i \in Bad : m <= i
  <2> HIDE DEF Bad
  <2> QED
    BY <1>1, <1>2, LeastNat
<1>4. m \in 0..v /\ ~ SameHeads(a, b, m) /\ m \in 0..x /\ m <= y
  OBVIOUS
<1>5. \A i \in 0..(m - 1) : i \in 0..v /\ i \notin Bad
  BY <1>1, <1>3, <1>4
<1>6. \A i \in 0..(m - 1) : SameHeads(a, b, i)
  BY <1>5
<1> QED
  BY <1>4, <1>6, SameHeadsStep

---------------------------------------------------------------------------
(* The chain. *)

Chains(f, links, m) == f = [i \in 0..m |-> IF i = 0 THEN Zero32 ELSE ChainHash(f[i - 1], links[i])]

(* A chain hash is known by the links up to it. *)
LEMMA ChainIs ==
    ASSUME NEW T, NEW links \in Seq(T)
    PROVE  /\ Len(ChainHashes(links)) = Len(links) /\ DOMAIN ChainHashes(links) = 1..Len(links)
           /\ \A i \in 1..Len(links) : ChainHashes(links)[i] = SubSeq(links, 1, i)
<1> DEFINE n == Len(links)
           h == [i \in 0..n |-> SubSeq(links, 1, i)]
           f == CHOOSE f : Chains(f, links, n)
<1>0. n \in Nat
  OBVIOUS
<1>1. Chains(h, links, n)
  <2>1. ASSUME NEW i \in 0..n
        PROVE  SubSeq(links, 1, i) = IF i = 0 THEN Zero32 ELSE ChainHash(h[i - 1], links[i])
    <3>1. CASE i = 0
      BY <3>1, SubSeqEmpty DEF Zero32
    <3>2. CASE i # 0
      <4>1. i - 1 \in 0..n /\ i \in 1..n
        BY <1>0, <3>2
      <4>2. SubSeq(links, 1, i - 1) \in Seq(T) /\ links[i] \in T
        BY <4>1
      <4>3. SubSeq(links, 1, i) = Append(SubSeq(links, 1, i - 1), links[i])
        BY <4>1, <4>2
      <4>4. h[i - 1] = SubSeq(links, 1, i - 1)
        BY <4>1
      <4> QED
        BY <3>2, <4>3, <4>4 DEF ChainHash
    <3> QED
      BY <3>1, <3>2
  <2>2. h = [i \in 0..n |-> IF i = 0 THEN Zero32 ELSE ChainHash(h[i - 1], links[i])]
    BY <2>1
  <2> QED
    BY <2>2 DEF Chains
<1>2. Chains(f, links, n)
  BY <1>1
<1>3. ChainHashes(links) = [i \in 1..n |-> f[i]]
  BY Zenon DEF ChainHashes, Chains
<1> HIDE DEF f
<1>4. \A i \in 0..n : f[i] = IF i = 0 THEN Zero32 ELSE ChainHash(f[i - 1], links[i])
  BY <1>2 DEF Chains
<1>5. \A i \in 0..n : h[i] = IF i = 0 THEN Zero32 ELSE ChainHash(h[i - 1], links[i])
  <2> HIDE DEF h
  <2> QED
    BY <1>1 DEF Chains
<1> HIDE DEF h
<1>6. \A i \in 0..n : f[i] = h[i]
  <2> DEFINE Bad == {i \in 0..n : f[i] # h[i]}
  <2>1. SUFFICES ASSUME Bad # {} PROVE FALSE
    OBVIOUS
  <2>2. PICK m \in Bad : \A i \in Bad : m <= i
    <3>1. Bad \in SUBSET Nat
      OBVIOUS
    <3> HIDE DEF Bad
    <3> QED
      BY <2>1, <3>1, LeastNat
  <2>3. m \in 0..n /\ f[m] # h[m] /\ m # 0
    BY <1>0, <1>4, <1>5
  <2>4. m - 1 \in 0..n /\ m - 1 \notin Bad
    BY <2>2, <2>3
  <2>5. f[m - 1] = h[m - 1]
    BY <2>4
  <2> QED
    BY <1>4, <1>5, <2>3, <2>5
<1>7. \A i \in 1..n : ChainHashes(links)[i] = SubSeq(links, 1, i)
  <2>1. \A i \in 1..n : i \in 0..n
    OBVIOUS
  <2>2. \A i \in 1..n : ChainHashes(links)[i] = f[i]
    BY <1>3
  <2>3. \A i \in 0..n : h[i] = SubSeq(links, 1, i)
    BY DEF h
  <2> QED
    BY <1>6, <2>1, <2>2, <2>3
<1>8. Len(ChainHashes(links)) = n /\ DOMAIN ChainHashes(links) = 1..n
  BY <1>0, <1>3
<1> QED
  BY <1>7, <1>8

---------------------------------------------------------------------------
(* Leaves and heads over chain hashes. *)

LEMMA LeavesAre ==
    ASSUME NEW h, Len(h) \in Nat
    PROVE  /\ AreLeaves(LeavesOf(h)) /\ Len(LeavesOf(h)) = Len(h)
           /\ \A i \in 1..Len(h) : LeavesOf(h)[i] = LeafHash(h[i])
BY DEF AreLeaves, LeavesOf, LeafHash

(* The root over chain hashes binds each of them, and how many they are. *)
LEMMA RootBinds ==
    ASSUME NEW g, Len(g) \in Nat, NEW h, Len(h) \in Nat,
           MerkleRoot(LeavesOf(g)) = MerkleRoot(LeavesOf(h))
    PROVE  Len(g) = Len(h) /\ \A i \in 1..Len(g) : g[i] = h[i]
<1> DEFINE a == LeavesOf(g)
           b == LeavesOf(h)
<1>1. AreLeaves(a) /\ Len(a) = Len(g) /\ \A i \in 1..Len(g) : a[i] = LeafHash(g[i])
  BY LeavesAre
<1>2. AreLeaves(b) /\ Len(b) = Len(h) /\ \A i \in 1..Len(h) : b[i] = LeafHash(h[i])
  BY LeavesAre
<1>3. Root(a, Len(a), 0) = Root(b, Len(b), 0)
  BY DEF MerkleRoot, Root
<1> HIDE DEF a, b
<1>4. Len(a) \in 0..Len(a) /\ Len(b) \in 0..Len(b) /\ 0 \in 0..(Len(a) - Len(a)) /\ 0 \in 0..(Len(b) - Len(b))
  BY <1>1, <1>2
<1>5. Binds(a, b, Len(a))
  BY <1>1, <1>2, <1>4, HeadBinds
<1>6. Len(a) = Len(b) /\ \A j \in 1..Len(a) : a[0 + j] = b[0 + j]
  BY <1>3, <1>4, <1>5, Zenon DEF Binds
<1>7. \A j \in 1..Len(g) : LeafHash(g[j]) = LeafHash(h[j])
  <2> SUFFICES ASSUME NEW j \in 1..Len(g) PROVE LeafHash(g[j]) = LeafHash(h[j])
    OBVIOUS
  <2>1. 0 + j = j
    OBVIOUS
  <2>2. a[0 + j] = b[0 + j]
    BY <1>1, <1>6
  <2> QED
    BY <1>1, <1>2, <1>6, <2>1, <2>2
<1> QED
  BY <1>1, <1>2, <1>6, <1>7, ShapesApart

LEMMA FirstOnes ==
    ASSUME NEW r, NEW m \in Nat
    PROVE  /\ SubSeq(r, 1, m) \in Seq({r[i] : i \in 1..m})
           /\ Len(SubSeq(r, 1, m)) = m
           /\ \A i \in 1..m : SubSeq(r, 1, m)[i] = r[i]
<1> DEFINE S == {r[i] : i \in 1..m}
<1>1. \A i \in 1..m : r[i] \in S
  OBVIOUS
<1> HIDE DEF S
<1>2. /\ SubSeq(r, 1, m) \in Seq(S)
      /\ Len(SubSeq(r, 1, m)) = IF 1 <= m THEN m - 1 + 1 ELSE 0
      /\ \A i \in 1..(m - 1 + 1) : SubSeq(r, 1, m)[i] = r[1 + i - 1]
  BY <1>1, SubSeqProperties
<1>3. \A i \in 1..m : i \in 1..(m - 1 + 1) /\ 1 + i - 1 = i
  OBVIOUS
<1> QED
  BY <1>2, <1>3 DEF S

LEMMA PrefixIs ==
    ASSUME NEW g, Len(g) \in Nat, NEW h, Len(h) \in Nat, Len(g) <= Len(h),
           \A i \in 1..Len(g) : g[i] = h[i]
    PROVE  IsPrefix(g, h)
<1> DEFINE n == Len(g)
           T == {h[i] : i \in 1..n}
           a == SubSeq(g, 1, n)
           b == SubSeq(h, 1, n)
<1>1. {g[i] : i \in 1..n} = T
  OBVIOUS
<1>2. /\ a \in Seq(T) /\ Len(a) = n /\ \A i \in 1..n : a[i] = g[i]
      /\ b \in Seq(T) /\ Len(b) = n /\ \A i \in 1..n : b[i] = h[i]
  BY <1>1, FirstOnes
<1> HIDE DEF T, a, b
<1>3. a = [i \in 1..n |-> a[i]] /\ b = [i \in 1..n |-> b[i]]
  BY <1>2
<1>4. a = b
  BY <1>2, <1>3
<1> QED
  BY <1>4 DEF IsPrefix, a, b

(* The head over the first leaves of a chain is the root of the chain that  *)
(* ends there, and of no other of its length.                              *)
LEMMA PrefixHead ==
    ASSUME NEW g, Len(g) \in Nat, NEW h, Len(h) \in Nat, Len(g) <= Len(h)
    PROVE  MerkleRoot(LeavesOf(g)) = Root(LeavesOf(h), Len(g), 0)
             <=> \A i \in 1..Len(g) : g[i] = h[i]
<1> DEFINE a == LeavesOf(g)
           b == LeavesOf(h)
           m == Len(g)
           n == Len(h)
<1>1. AreLeaves(a) /\ Len(a) = m /\ \A i \in 1..m : a[i] = LeafHash(g[i])
  BY LeavesAre
<1>2. AreLeaves(b) /\ Len(b) = n /\ \A i \in 1..n : b[i] = LeafHash(h[i])
  BY LeavesAre
<1>3. MerkleRoot(a) = Root(a, m, 0)
  BY <1>1 DEF MerkleRoot, Root
<1> HIDE DEF a, b
<1>4. m \in 0..Len(a) /\ m \in 0..Len(b) /\ 0 \in 0..(Len(a) - m) /\ 0 \in 0..(Len(b) - m)
  BY <1>1, <1>2
<1>5. ASSUME Root(a, m, 0) = Root(b, m, 0), NEW i \in 1..m
      PROVE  g[i] = h[i]
  <2>1. Binds(a, b, m)
    BY <1>1, <1>2, <1>4, HeadBinds
  <2>2. \A j \in 1..m : a[0 + j] = b[0 + j]
    BY <1>4, <1>5, <2>1, Zenon DEF Binds
  <2>3. 0 + i = i /\ i \in 1..n
    OBVIOUS
  <2>4. LeafHash(g[i]) = LeafHash(h[i])
    BY <1>1, <1>2, <1>5, <2>2, <2>3
  <2> QED
    BY <2>4, ShapesApart
<1>6. ASSUME \A i \in 1..m : g[i] = h[i]
      PROVE  Root(a, m, 0) = Root(b, m, 0)
  <2>1. SameHeads(a, b, m)
    BY <1>1, <1>2, <1>4, HeadsSame
  <2>2. \A j \in 1..m : a[0 + j] = b[0 + j]
    <3>1. \A j \in 1..m : 0 + j = j /\ j \in 1..n
      OBVIOUS
    <3> QED
      BY <1>1, <1>2, <1>6, <3>1
  <2> QED
    BY <1>4, <2>1, <2>2 DEF SameHeads
<1> QED
  BY <1>3, <1>5, <1>6 DEF a, b

LEMMA PrefixShows ==
    ASSUME NEW g, Len(g) \in Nat, NEW h, Len(h) \in Nat
    PROVE  IsPrefix(g, h) <=> Len(g) <= Len(h) /\ \A i \in 1..Len(g) : g[i] = h[i]
<1>1. ASSUME IsPrefix(g, h)
      PROVE  Len(g) <= Len(h) /\ \A i \in 1..Len(g) : g[i] = h[i]
  <2>1. Len(g) <= Len(h) /\ SubSeq(g, 1, Len(g)) = SubSeq(h, 1, Len(g))
    BY <1>1 DEF IsPrefix
  <2>2. \A i \in 1..Len(g) : SubSeq(g, 1, Len(g))[i] = g[i] /\ SubSeq(h, 1, Len(g))[i] = h[i]
    BY FirstOnes
  <2> QED
    BY <2>1, <2>2
<1> QED
  BY <1>1, PrefixIs

---------------------------------------------------------------------------
(* The indices of a selection in order. *)

LEMMA AscendingAt ==
    ASSUME NEW S \in SUBSET Nat, IsFiniteSet(S), NEW k \in 1..Cardinality(S)
    PROVE  Ascending(S)[k] \in S /\ Cardinality({j \in S : j < Ascending(S)[k]}) = k - 1
<1> DEFINE n == Cardinality(S)
           Below(i) == {j \in S : j < i}
           At(m) == \E i \in S : Cardinality(Below(i)) = m - 1
           Bad == {m \in 1..n : ~ At(m)}
<1>1. n \in Nat
  BY FS_CardinalityType
<1>2. Bad = {}
  <2> SUFFICES ASSUME Bad # {} PROVE FALSE
    OBVIOUS
  <2>1. PICK m \in Bad : \A i \in Bad : m <= i
    <3>1. Bad \in SUBSET Nat
      BY <1>1
    <3> HIDE DEF Bad
    <3> QED
      BY <3>1, LeastNat
  <2>2. m \in 1..n /\ ~ At(m)
    OBVIOUS
  <2>3. m # 1 => At(m - 1)
    <3> SUFFICES ASSUME m # 1, ~ At(m - 1) PROVE FALSE
      OBVIOUS
    <3>1. m - 1 \in 1..n
      BY <1>1, <2>2
    <3>2. m - 1 \in Bad
      BY <3>1
    <3> HIDE DEF Bad
    <3> QED
      BY <1>1, <2>1, <2>2, <3>1, <3>2
  <2> HIDE DEF Bad
  <2>4. CASE m = 1
    <3>1. S # {}
      BY <1>1, <2>2, FS_EmptySet
    <3>2. PICK i \in S : \A j \in S : i <= j
      BY <3>1, LeastNat
    <3>3. Below(i) = {}
      <4>1. \A j \in S : j \in Nat /\ i \in Nat /\ i <= j
        BY <3>2
      <4>2. \A j \in S : ~ (j < i)
        BY <4>1
      <4> QED
        BY <4>2
    <3>4. Cardinality(Below(i)) = 0
      BY <3>3, FS_EmptySet
    <3> QED
      BY <2>2, <2>4, <3>4
  <2>5. CASE m # 1
    <3>1. PICK i \in S : Cardinality(Below(i)) = (m - 1) - 1
      BY <2>3, <2>5
    <3> DEFINE Upto == Below(i) \cup {i}
               Rest == S \ Upto
    <3>2. IsFiniteSet(Below(i)) /\ i \notin Below(i)
      <4>1. Below(i) \subseteq S
        OBVIOUS
      <4>2. i \notin Below(i)
        OBVIOUS
      <4> QED
        BY <4>1, <4>2, FS_Subset
    <3>3. Cardinality(Upto) = m - 1
      <4>1. Cardinality(Upto) = Cardinality(Below(i)) + 1
        <5> HIDE DEF Below
        <5> QED
          BY <3>2, FS_AddElement
      <4> QED
        BY <1>1, <2>2, <3>1, <4>1
    <3>4. Rest # {}
      <4> SUFFICES ASSUME Rest = {} PROVE FALSE
        OBVIOUS
      <4>1. S = Upto
        OBVIOUS
      <4> HIDE DEF Upto
      <4> QED
        BY <1>1, <2>2, <3>3, <4>1
    <3>5. PICK x \in Rest : \A j \in Rest : x <= j
      <4>1. Rest \in SUBSET Nat
        OBVIOUS
      <4> HIDE DEF Rest
      <4> QED
        BY <3>4, <4>1, LeastNat
    <3>6. x \in S /\ x > i /\ x \in Nat
      BY <3>5
    <3>7. Below(x) = Upto
      <4>1. \A j \in S : j < x => j \notin Rest
        <5> HIDE DEF Rest
        <5>1. \A j \in Rest : ~ (j < x)
          BY <3>5, <3>6
        <5> QED
          BY <5>1
      <4>2. \A j \in S : j < x => j \in Upto
        BY <4>1
      <4>3. \A j \in Upto : j \in S /\ j < x
        BY <3>6
      <4> QED
        BY <4>2, <4>3
    <3> QED
      BY <2>2, <3>3, <3>6, <3>7
  <2> QED
    BY <2>4, <2>5
<1>3. At(k)
  <2>1. k \in 1..n /\ k \notin Bad
    BY <1>2
  <2> QED
    BY <2>1
<1>4. Ascending(S)[k] = CHOOSE i \in S : Cardinality(Below(i)) = k - 1
  BY DEF Ascending
<1>5. Ascending(S)[k] \in S /\ Cardinality(Below(Ascending(S)[k])) = k - 1
  <2> HIDE DEF Below
  <2> QED
    BY <1>3, <1>4
<1> QED
  BY <1>5

\* How many members of S stand before i.
Before(S, i) == Cardinality({j \in S : j < i})

LEMMA BeforeGrows ==
    ASSUME NEW S \in SUBSET Nat, IsFiniteSet(S), NEW i \in S, NEW j \in S, i < j
    PROVE  Before(S, i) \in Nat /\ Before(S, j) \in Nat /\ Before(S, i) < Before(S, j)
<1> DEFINE A == {x \in S : x < i}
           B == {x \in S : x < j}
<1>1. A \subseteq B /\ B \subseteq S /\ i \in B /\ i \notin A
  <2>1. \A x \in S : x \in Nat
    OBVIOUS
  <2>2. i \in Nat /\ j \in Nat /\ ~ (i < i)
    OBVIOUS
  <2>3. \A x \in A : x < j
    BY <2>1, <2>2
  <2> QED
    BY <2>2, <2>3
<1> HIDE DEF A, B
<1>2. IsFiniteSet(B) /\ IsFiniteSet(A)
  BY <1>1, FS_Subset
<1>3. Cardinality(A) \in Nat /\ Cardinality(B) \in Nat
  BY <1>2, FS_CardinalityType
<1>4. Cardinality(A) < Cardinality(B)
  <2>1. Cardinality(A) <= Cardinality(B) /\ (Cardinality(A) = Cardinality(B) => A = B)
    BY <1>1, <1>2, FS_Subset
  <2> QED
    BY <1>1, <1>3, <2>1
<1> QED
  BY <1>3, <1>4 DEF A, B, Before

LEMMA BeforeLess ==
    ASSUME NEW S \in SUBSET Nat, IsFiniteSet(S), NEW i \in S
    PROVE  Before(S, i) + 1 \in 1..Cardinality(S)
<1> DEFINE A == {x \in S : x < i}
<1>1. A \subseteq S /\ i \notin A
  OBVIOUS
<1> HIDE DEF A
<1>2. IsFiniteSet(A) /\ Cardinality(A) \in Nat /\ Cardinality(S) \in Nat
  BY <1>1, FS_Subset, FS_CardinalityType
<1>3. Cardinality(A) <= Cardinality(S) /\ (Cardinality(A) = Cardinality(S) => A = S)
  BY <1>1, FS_Subset
<1>4. Cardinality(A) + 1 \in 1..Cardinality(S)
  BY <1>1, <1>2, <1>3
<1> QED
  BY <1>4 DEF A, Before

(* The members in order: each index has its place, places go with indices,  *)
(* and indices that follow one another stand side by side.                 *)
LEMMA AscendingIs ==
    ASSUME NEW S \in SUBSET Nat, IsFiniteSet(S)
    PROVE  /\ \A k \in 1..Cardinality(S) : Ascending(S)[k] \in S /\ Before(S, Ascending(S)[k]) = k - 1
           /\ \A i \in S : Ascending(S)[Before(S, i) + 1] = i
<1>1. ASSUME NEW k \in 1..Cardinality(S)
      PROVE  Ascending(S)[k] \in S /\ Before(S, Ascending(S)[k]) = k - 1
  BY AscendingAt DEF Before
<1>2. ASSUME NEW i \in S
      PROVE  Ascending(S)[Before(S, i) + 1] = i
  <2> DEFINE k == Before(S, i) + 1
             x == Ascending(S)[k]
  <2>1. k \in 1..Cardinality(S) /\ Before(S, i) \in Nat
    <3>1. k \in 1..Cardinality(S)
      BY BeforeLess
    <3>2. IsFiniteSet({j \in S : j < i})
      BY FS_Subset
    <3> QED
      BY <3>1, <3>2, FS_CardinalityType DEF Before
  <2>2. x \in S /\ Before(S, x) = k - 1
    BY <1>1, <2>1
  <2>3. Before(S, x) = Before(S, i)
    BY <2>1, <2>2
  <2> HIDE DEF x, k
  <2>4. x = i
    <3>1. ~ (x < i)
      BY <2>2, <2>3, BeforeGrows
    <3>2. ~ (i < x)
      BY <2>2, <2>3, BeforeGrows
    <3> QED
      BY <2>2, <3>1, <3>2
  <2> QED
    BY <2>4 DEF x, k
<1> QED
  BY <1>1, <1>2

LEMMA AscendingRises ==
    ASSUME NEW S \in SUBSET Nat, IsFiniteSet(S), NEW k \in 1..Cardinality(S), k > 1
    PROVE  /\ k - 1 \in 1..Cardinality(S)
           /\ Ascending(S)[k - 1] < Ascending(S)[k]
           /\ Ascending(S)[k] - 1 \in S => Ascending(S)[k - 1] = Ascending(S)[k] - 1
<1> DEFINE x == Ascending(S)[k]
           y == Ascending(S)[k - 1]
<1>1. k - 1 \in 1..Cardinality(S) /\ Cardinality(S) \in Nat /\ k \in Nat
  BY FS_CardinalityType
<1>2. x \in S /\ y \in S /\ Before(S, x) = k - 1 /\ Before(S, y) = (k - 1) - 1 /\ x \in Nat /\ y \in Nat
  BY <1>1, AscendingIs
<1> HIDE DEF x, y
<1>3. y < x
  <2>1. x # y
    BY <1>1, <1>2
  <2>2. ~ (x < y)
    BY <1>1, <1>2, BeforeGrows
  <2> QED
    BY <1>2, <2>1, <2>2
<1>4. ASSUME x - 1 \in S
      PROVE  y = x - 1
  <2>1. ~ (y < x - 1)
    <3> SUFFICES ASSUME y < x - 1 PROVE FALSE
      OBVIOUS
    <3>1. Before(S, y) < Before(S, x - 1) /\ Before(S, x - 1) \in Nat
      BY <1>2, <1>4, BeforeGrows
    <3>2. Before(S, x - 1) < Before(S, x)
      <4>1. x - 1 < x
        BY <1>2
      <4> QED
        BY <1>2, <1>4, <4>1, BeforeGrows
    <3> QED
      BY <1>1, <1>2, <3>1, <3>2
  <2> QED
    BY <1>2, <1>3, <1>4, <2>1
<1> QED
  BY <1>1, <1>3, <1>4 DEF x, y

LEMMA AscendingFirst ==
    ASSUME NEW S \in SUBSET Nat, IsFiniteSet(S), 1 \in 1..Cardinality(S)
    PROVE  Ascending(S)[1] - 1 \notin S
<1> DEFINE x == Ascending(S)[1]
<1>1. x \in S /\ Before(S, x) = 1 - 1 /\ x \in Nat
  BY AscendingIs
<1> HIDE DEF x
<1>2. SUFFICES ASSUME x - 1 \in S PROVE FALSE
  BY DEF x
<1>3. x - 1 < x
  BY <1>1
<1>4. Before(S, x - 1) < Before(S, x) /\ Before(S, x - 1) \in Nat
  BY <1>1, <1>2, <1>3, BeforeGrows
<1> QED
  BY <1>1, <1>4

---------------------------------------------------------------------------
(* Seals, and the lines and builds drawn from them. *)

LinkOf(seed, i) == Link(EventId(seed, i), Payload(seed, i))

Sealings == {SealEvents(n, seed) : n \in SealAt, seed \in 0..MaxSeals}
Entries == [event : Nat, spoilt : SUBSET {"payload", "chainHash"}]

IsLines(ls, n) == ls \in Seq(Entries) /\ \A k \in 1..Len(ls) : ls[k].event \in 1..n

SealsTyped ==
    /\ seals \in Seq(Sealings) /\ Len(seals) <= MaxSeals
    /\ lines \in Seq(Seq(Entries)) /\ Len(lines) = Len(seals)
    /\ \A s \in 1..Len(seals) : IsLines(lines[s], seals[s].count)

(* A build that may go on: what buildDisclosure has made sure of. *)
Good(b) ==
    /\ b.seal \in SealIds
    /\ IsLines(b.lines, seals[b.seal].count)
    /\ b.earlier = None \/ b.earlier \in SealIds
    /\ MayBuild(b)

IsSealing(sl) ==
    /\ sl.count \in 1..Len(FieldsOf) /\ sl.seed \in 0..MaxSeals
    /\ Len(sl.chain) = sl.count /\ DOMAIN sl.chain = 1..sl.count
    /\ \A i \in 1..sl.count : /\ Len(sl.chain[i]) = i
                              /\ \A j \in 1..i : sl.chain[i][j] = LinkOf(sl.seed, j)
    /\ sl.merkleRoot = MerkleRoot(LeavesOf(sl.chain))

(* A sealed chain: its i-th hash is over the first i events of the seal. *)
LEMMA SealingIs ==
    ASSUME NEW n \in SealAt, NEW seed \in 0..MaxSeals
    PROVE  IsSealing(SealEvents(n, seed))
<1> DEFINE T == {LinkOf(seed, i) : i \in 1..n}
           links == [i \in 1..n |-> LinkOf(seed, i)]
           chain == ChainHashes(links)
           sl == SealEvents(n, seed)
<1>1. n \in 1..Len(FieldsOf) /\ n \in Nat
  BY DisclosureConstants
<1>2. links \in Seq(T) /\ Len(links) = n /\ \A i \in 1..n : links[i] = LinkOf(seed, i) /\ links[i] \in T
  BY <1>1
<1>3. sl = [count |-> n, seed |-> seed, chain |-> chain, merkleRoot |-> MerkleRoot(LeavesOf(chain))]
  BY DEF SealEvents, LinkOf
<1> HIDE DEF links, T
<1>4. /\ Len(chain) = n /\ DOMAIN chain = 1..n
      /\ \A i \in 1..n : chain[i] = SubSeq(links, 1, i)
  BY <1>2, ChainIs
<1>5. ASSUME NEW i \in 1..n
      PROVE  Len(chain[i]) = i /\ \A j \in 1..i : chain[i][j] = LinkOf(seed, j)
  <2>1. \A j \in 1..i : links[j] \in T /\ j \in 1..n
    BY <1>1, <1>2
  <2>2. /\ Len(SubSeq(links, 1, i)) = IF 1 <= i THEN i - 1 + 1 ELSE 0
        /\ \A j \in 1..(i - 1 + 1) : SubSeq(links, 1, i)[j] = links[1 + j - 1]
    BY <2>1, SubSeqProperties
  <2>3. \A j \in 1..i : j \in 1..(i - 1 + 1) /\ 1 + j - 1 = j
    BY <1>1
  <2> QED
    BY <1>1, <1>2, <1>4, <2>1, <2>2, <2>3
<1> HIDE DEF chain, sl
<1>6. /\ sl.count = n /\ sl.seed = seed /\ sl.chain = chain
      /\ sl.merkleRoot = MerkleRoot(LeavesOf(chain))
  BY <1>3
<1>7. IsSealing(sl)
  BY <1>1, <1>4, <1>5, <1>6, Zenon DEF IsSealing
<1> QED
  BY <1>7 DEF sl

LEMMA SealIs ==
    ASSUME SealsTyped, NEW s \in SealIds
    PROVE  s \in 1..Len(seals) /\ IsSealing(seals[s])
<1>1. s \in 1..Len(seals) /\ seals[s] \in Sealings
  BY DEF SealsTyped, SealIds
<1> QED
  BY <1>1, SealingIs DEF Sealings

(* Equal chain hashes are of the same place, and of the same event up to   *)
(* there.                                                                  *)
LEMMA ChainApart ==
    ASSUME SealsTyped, NEW s \in SealIds, NEW t \in SealIds,
           NEW i \in 1..seals[s].count, NEW j \in 1..seals[t].count,
           seals[s].chain[i] = seals[t].chain[j]
    PROVE  i = j /\ \A m \in 1..i : LinkOf(seals[s].seed, m) = LinkOf(seals[t].seed, m)
<1>1. IsSealing(seals[s]) /\ IsSealing(seals[t])
  BY SealIs
<1>2. Len(seals[s].chain[i]) = i /\ \A m \in 1..i : seals[s].chain[i][m] = LinkOf(seals[s].seed, m)
  BY <1>1, Zenon DEF IsSealing
<1>3. Len(seals[t].chain[j]) = j /\ \A m \in 1..j : seals[t].chain[j][m] = LinkOf(seals[t].seed, m)
  BY <1>1, Zenon DEF IsSealing
<1>4. i = j
  BY <1>2, <1>3
<1>5. ASSUME NEW m \in 1..i
      PROVE  LinkOf(seals[s].seed, m) = LinkOf(seals[t].seed, m)
  BY <1>2, <1>3, <1>4
<1> QED
  BY <1>4, <1>5

(* The leaves of a sealed chain. *)
LEMMA SealedLeaves ==
    ASSUME SealsTyped, NEW t \in SealIds
    PROVE  LET leaves == LeavesOf(seals[t].chain)
               n == seals[t].count
           IN  /\ n \in Nat \ {0} /\ Len(seals[t].chain) = n /\ Len(leaves) = n
               /\ AreLeaves(leaves) /\ DistinctLeaves(leaves)
               /\ \A k \in 1..n : leaves[k] = LeafHash(seals[t].chain[k])
<1> DEFINE h == seals[t].chain
           leaves == LeavesOf(h)
           n == seals[t].count
<1>1. n \in Nat \ {0} /\ Len(h) = n
  <2>1. IsSealing(seals[t])
    BY SealIs
  <2> QED
    BY <2>1, DisclosureConstants DEF IsSealing
<1>2. AreLeaves(leaves) /\ Len(leaves) = n /\ \A k \in 1..n : leaves[k] = LeafHash(h[k])
  BY <1>1, LeavesAre
<1> HIDE DEF leaves
<1>3. DistinctLeaves(leaves)
  <2>1. SUFFICES ASSUME NEW j \in 1..n, NEW k \in 1..n, leaves[j] = leaves[k] PROVE j = k
    BY <1>2 DEF DistinctLeaves
  <2>2. h[j] = h[k]
    BY <1>2, <2>1, ShapesApart
  <2> QED
    BY <2>2, ChainApart
<1> QED
  BY <1>1, <1>2, <1>3 DEF leaves

(* The chain of a seal is recomputed from its own links. *)
LEMMA SealChain ==
    ASSUME SealsTyped, NEW s \in SealIds
    PROVE  seals[s].chain = ChainHashes([i \in 1..seals[s].count |-> LinkOf(seals[s].seed, i)])
<1>1. seals[s] \in Sealings
  BY DEF SealsTyped, SealIds
<1>2. PICK n \in SealAt, seed \in 0..MaxSeals : seals[s] = SealEvents(n, seed)
  BY <1>1 DEF Sealings
<1>3. /\ seals[s].count = n /\ seals[s].seed = seed
      /\ seals[s].chain = ChainHashes([i \in 1..n |-> Link(EventId(seed, i), Payload(seed, i))])
  <2> DEFINE ch == ChainHashes([i \in 1..n |-> Link(EventId(seed, i), Payload(seed, i))])
             mr == MerkleRoot(LeavesOf(ch))
  <2>1. seals[s] = [count |-> n, seed |-> seed, chain |-> ch, merkleRoot |-> mr]
    BY <1>2 DEF SealEvents
  <2> HIDE DEF ch, mr
  <2>2. seals[s].count = n /\ seals[s].seed = seed /\ seals[s].chain = ch
    BY <2>1
  <2> QED
    BY <2>2 DEF ch
<1> QED
  BY <1>3 DEF LinkOf

(* A hash of a sealed chain is over the one before it and its own link. *)
LEMMA ChainGrows ==
    ASSUME SealsTyped, NEW s \in SealIds, NEW i \in 1..seals[s].count
    PROVE  seals[s].chain[i] =
             ChainHash(IF i = 1 THEN Zero32 ELSE seals[s].chain[i - 1], LinkOf(seals[s].seed, i))
<1> DEFINE n == seals[s].count
           links == [k \in 1..n |-> LinkOf(seals[s].seed, k)]
           T == {LinkOf(seals[s].seed, k) : k \in 1..n}
<1>1. n \in Nat /\ seals[s].chain = ChainHashes(links)
  BY SealedLeaves, SealChain
<1>2. links \in Seq(T) /\ Len(links) = n /\ links[i] = LinkOf(seals[s].seed, i) /\ links[i] \in T
  BY <1>1
<1> HIDE DEF links, T, n
<1>3. \A k \in 1..n : ChainHashes(links)[k] = SubSeq(links, 1, k)
  BY <1>2, ChainIs
<1>4. i \in 1..n /\ i \in Nat
  BY <1>1 DEF n
<1>5. SubSeq(links, 1, i) = Append(SubSeq(links, 1, i - 1), links[i])
  <2>1. i - 1 \in 0..n /\ Len(links) = n /\ i \in 1..n
    BY <1>1, <1>2, <1>4
  <2>2. SubSeq(links, 1, i - 1) \in Seq(T)
    BY <1>2, <2>1
  <2> QED
    BY <1>2, <2>1, <2>2
<1>6. CASE i = 1
  <2>1. SubSeq(links, 1, i - 1) = << >>
    BY <1>6, SubSeqEmpty
  <2> QED
    BY <1>1, <1>2, <1>3, <1>4, <1>5, <1>6, <2>1 DEF ChainHash, Zero32
<1>7. CASE i # 1
  <2>1. i - 1 \in 1..n
    BY <1>1, <1>4, <1>7
  <2> QED
    BY <1>1, <1>2, <1>3, <1>4, <1>5, <1>7, <2>1 DEF ChainHash
<1> QED
  BY <1>6, <1>7

LEMMA LinksApart ==
    ASSUME NEW u, NEW v, NEW i, NEW j, LinkOf(u, i) = LinkOf(v, j)
    PROVE  EventId(u, i) = EventId(v, j) /\ Payload(u, i) = Payload(v, j) /\ i = j
<1>1. /\ LinkOf(u, i).id = EventId(u, i) /\ LinkOf(v, j).id = EventId(v, j)
      /\ LinkOf(u, i).payloadHash = Payload(u, i) /\ LinkOf(v, j).payloadHash = Payload(v, j)
  BY DEF LinkOf, Link
<1>2. EventId(u, i)[1] = i /\ EventId(v, j)[1] = j
  BY DEF EventId
<1> QED
  BY <1>1, <1>2

LEMMA LineIs ==
    ASSUME NEW s, NEW l
    PROVE  /\ Line(s, l).id = EventId(seals[s].seed, l.event)
           /\ Line(s, l).order = l.event
           /\ Line(s, l).payloadHash = Payload(seals[s].seed, l.event)
           /\ "payload" \in l.spoilt => Line(s, l).payload = Spoilt
           /\ "payload" \notin l.spoilt => Line(s, l).payload = Payload(seals[s].seed, l.event)
           /\ "chainHash" \in l.spoilt => Line(s, l).chainHash = <<Spoilt>>
           /\ "chainHash" \notin l.spoilt => Line(s, l).chainHash = seals[s].chain[l.event]
BY DEF Line

(* A line whose recorded chain hash is that of a place is the line of that *)
(* place, and the hash was not changed.                                    *)
LEMMA LineInPlace ==
    ASSUME SealsTyped, NEW s \in SealIds, NEW l \in Entries, l.event \in 1..seals[s].count,
           NEW t \in SealIds, NEW i \in 1..seals[t].count,
           Line(s, l).chainHash = seals[t].chain[i]
    PROVE  l.event = i /\ "chainHash" \notin l.spoilt
<1>1. IsSealing(seals[t])
  BY SealIs
<1>2. "chainHash" \notin l.spoilt
  <2> SUFFICES ASSUME "chainHash" \in l.spoilt PROVE FALSE
    OBVIOUS
  <2>1. seals[t].chain[i] = <<Spoilt>>
    BY LineIs
  <2>2. i = 1 /\ seals[t].chain[i][1] = LinkOf(seals[t].seed, 1)
    BY <1>1, <2>1 DEF IsSealing
  <2>3. Spoilt = LinkOf(seals[t].seed, 1)
    BY <2>1, <2>2
  <2>4. 1 \in DOMAIN FieldsOf /\ seals[t].seed \in 0..MaxSeals
    BY <1>1, <2>2, DisclosureConstants DEF IsSealing
  <2> QED
    BY <2>3, <2>4, SpoiltIsNothing DEF LinkOf
<1>3. seals[s].chain[l.event] = seals[t].chain[i]
  BY <1>2, LineIs
<1> QED
  BY <1>2, <1>3, ChainApart

(* What a build may go on with: every line of the seal, in its place, with *)
(* the chain hash it was sealed with.                                      *)
LEMMA GoodLines ==
    ASSUME SealsTyped, NEW b, Good(b)
    PROVE  /\ Len(b.lines) = seals[b.seal].count /\ DOMAIN b.lines = 1..Len(b.lines)
           /\ Len(RecordedHashes(b)) = Len(b.lines)
           /\ \A k \in 1..Len(b.lines) :
                /\ b.lines[k] \in Entries
                /\ b.lines[k].event = k
                /\ RecordedHashes(b)[k] = Line(b.seal, b.lines[k]).chainHash
                /\ Line(b.seal, b.lines[k]).chainHash = seals[b.seal].chain[k]
<1> DEFINE s == b.seal
           h == RecordedHashes(b)
           n == seals[s].count
<1>1. s \in SealIds /\ IsSealing(seals[s])
  BY SealIs DEF Good
<1>2. /\ b.lines \in Seq(Entries) /\ Len(b.lines) \in Nat /\ DOMAIN b.lines = 1..Len(b.lines)
      /\ \A k \in 1..Len(b.lines) : b.lines[k] \in Entries /\ b.lines[k].event \in 1..n
  BY DEF Good, IsLines
<1>3. Len(h) = Len(b.lines) /\ \A k \in 1..Len(b.lines) : h[k] = Line(s, b.lines[k]).chainHash
  BY <1>2 DEF RecordedHashes
<1>4. MerkleRoot(LeavesOf(h)) = MerkleRoot(LeavesOf(seals[s].chain))
  BY <1>1 DEF Good, MayBuild, IsSealing
<1>5. Len(seals[s].chain) = n /\ n \in Nat
  BY <1>1 DEF IsSealing
<1>6. Len(h) = n /\ \A k \in 1..Len(h) : h[k] = seals[s].chain[k]
  BY <1>2, <1>3, <1>4, <1>5, RootBinds
<1>7. ASSUME NEW k \in 1..Len(b.lines)
      PROVE  b.lines[k].event = k
  <2>1. b.lines[k] \in Entries /\ b.lines[k].event \in 1..n /\ k \in 1..n
        /\ Line(s, b.lines[k]).chainHash = seals[s].chain[k]
    BY <1>2, <1>3, <1>6, <1>7
  <2> QED
    BY <1>1, <2>1, LineInPlace
<1> QED
  BY <1>2, <1>3, <1>6, <1>7

(* The lines a disclosure shows are lines of the seal, at indices asked    *)
(* for.                                                                    *)
LEMMA ShownLines ==
    ASSUME SealsTyped, NEW b, Good(b)
    PROVE  /\ Cardinality(b.indices) \in Nat
           /\ Len(DisclosedLines(b)) = Cardinality(b.indices)
           /\ DOMAIN DisclosedLines(b) = 1..Cardinality(b.indices)
           /\ \A k \in 1..Cardinality(b.indices) :
                LET j == Ascending(b.indices)[k]
                IN  /\ j \in b.indices /\ j \in 0..(Len(b.lines) - 1)
                    /\ j + 1 \in 1..Len(b.lines)
                    /\ DisclosedLines(b)[k] = Line(b.seal, b.lines[j + 1])
<1>1. Len(b.lines) \in Nat /\ b.indices \subseteq 0..(Len(b.lines) - 1)
  BY DEF Good, IsLines, MayBuild
<1>2. IsFiniteSet(b.indices) /\ b.indices \in SUBSET Nat
  <2>1. IsFiniteSet(0..(Len(b.lines) - 1))
    BY <1>1, FS_Interval
  <2> QED
    BY <1>1, <2>1, FS_Subset
<1>3. Cardinality(b.indices) \in Nat
  BY <1>2, FS_CardinalityType
<1>4. ASSUME NEW k \in 1..Cardinality(b.indices)
      PROVE  /\ Ascending(b.indices)[k] \in b.indices
             /\ Ascending(b.indices)[k] \in 0..(Len(b.lines) - 1)
             /\ Ascending(b.indices)[k] + 1 \in 1..Len(b.lines)
             /\ DisclosedLines(b)[k] = Line(b.seal, b.lines[Ascending(b.indices)[k] + 1])
  <2>1. Ascending(b.indices)[k] \in b.indices
    BY <1>2, AscendingAt
  <2>2. DisclosedLines(b)[k] = Line(b.seal, b.lines[Ascending(b.indices)[k] + 1])
    BY DEF DisclosedLines
  <2> QED
    BY <1>1, <2>1, <2>2
<1>5. /\ Len(DisclosedLines(b)) = Cardinality(b.indices)
      /\ DOMAIN DisclosedLines(b) = 1..Cardinality(b.indices)
  BY <1>3 DEF DisclosedLines
<1> QED
  BY <1>3, <1>4, <1>5

---------------------------------------------------------------------------
(* The inductive invariant.  A build holds what it read from the time it    *)
(* starts, so every file of a directory goes back to a build that might go  *)
(* on; seals only come before them all.                                     *)

Builds == [seal : Nat, lines : Seq(Entries), indices : SUBSET Nat, fields : SUBSET Paths,
           include : SUBSET Files, earlier : Nat \cup {None}]

GoodBuilds == {b \in Builds : Good(b)}

SealedFirst ==
    /\ builds \in Nat
    /\ builds = 0 => /\ build = Idle
                     /\ \A d \in Dirs : dirs[d] = EmptyDir /\ result[d] = None

\* What the step at pc has behind it in its directory.
Running ==
    \/ build = Idle
    \/ /\ build \in [pc : {"manifest", "attestations", "carried", "events", "commitments", "document"},
                     dir : Dirs, of : GoodBuilds]
       /\ result[build.dir] = None
       /\ build.pc \in {"commitments", "document"} => dirs[build.dir].events = build.of
       /\ build.pc = "document" => dirs[build.dir].commitments = build.of

Parts == {"manifest", "attestations", "carried", "events", "commitments", "document"}

DirsGood ==
    /\ DOMAIN dirs = Dirs
    /\ \A d \in Dirs :
        /\ dirs[d] = [part \in Parts |-> dirs[d][part]]
        /\ dirs[d].document # None =>
             /\ dirs[d].document \in GoodBuilds
             /\ dirs[d].events \in GoodBuilds /\ dirs[d].commitments \in GoodBuilds

\* A run that reported success left its lines and its openings.
ResultsGood ==
    /\ DOMAIN result = Dirs
    /\ \A d \in Dirs : result[d] # None =>
        result[d] \in GoodBuilds /\ dirs[d].events = result[d] /\ dirs[d].commitments = result[d]

DisclosureInv == SealsTyped /\ SealedFirst /\ Running /\ DirsGood /\ ResultsGood

LEMMA LinesAre ==
    ASSUME NEW n \in Nat, NEW ls
    PROVE  IsLines(ls, n) <=> ls \in Seq([event : 1..n, spoilt : SUBSET {"payload", "chainHash"}])
<1> DEFINE E == [event : 1..n, spoilt : SUBSET {"payload", "chainHash"}]
<1>1. \A e : e \in E <=> e \in Entries /\ e.event \in 1..n
  BY DEF Entries
<1> HIDE DEF E
<1>2. IsLines(ls, n) => ls \in Seq(E)
  <2> SUFFICES ASSUME IsLines(ls, n) PROVE ls \in Seq(E)
    OBVIOUS
  <2>1. /\ ls \in Seq(Entries) /\ Len(ls) \in Nat /\ ls = [k \in 1..Len(ls) |-> ls[k]]
        /\ \A k \in 1..Len(ls) : ls[k] \in Entries /\ ls[k].event \in 1..n
    BY DEF IsLines
  <2>2. \A k \in 1..Len(ls) : ls[k] \in E
    BY <1>1, <2>1
  <2> QED
    BY <2>1, <2>2
<1>3. ls \in Seq(E) => IsLines(ls, n)
  <2> SUFFICES ASSUME ls \in Seq(E) PROVE IsLines(ls, n)
    OBVIOUS
  <2>1. Len(ls) \in Nat /\ ls = [k \in 1..Len(ls) |-> ls[k]] /\ \A k \in 1..Len(ls) : ls[k] \in E
    OBVIOUS
  <2>2. \A k \in 1..Len(ls) : ls[k] \in Entries /\ ls[k].event \in 1..n
    BY <1>1, <2>1
  <2>3. ls \in Seq(Entries)
    BY <2>1, <2>2
  <2> QED
    BY <2>2, <2>3 DEF IsLines
<1> QED
  BY <1>2, <1>3 DEF E

(* Damage leaves lines of the same seal. *)
LEMMA DamagedLines ==
    ASSUME NEW n \in Nat, NEW ls, IsLines(ls, n), NEW k \in DOMAIN ls
    PROVE  /\ IsLines(RemoveAt(ls, k), n)
           /\ k < Len(ls) => IsLines([ls EXCEPT ![k] = ls[k + 1], ![k + 1] = ls[k]], n)
           /\ \A what \in {"payload", "chainHash"} :
                IsLines([ls EXCEPT ![k].spoilt = @ \cup {what}], n)
<1> DEFINE E == [event : 1..n, spoilt : SUBSET {"payload", "chainHash"}]
<1>1. /\ ls \in Seq(E) /\ Len(ls) \in Nat /\ DOMAIN ls = 1..Len(ls) /\ k \in 1..Len(ls)
      /\ ls = [i \in 1..Len(ls) |-> ls[i]] /\ \A i \in 1..Len(ls) : ls[i] \in E
  <2>1. ls \in Seq(E)
    BY LinesAre
  <2> HIDE DEF E
  <2> QED
    BY <2>1
<1>2. \A what \in {"payload", "chainHash"} : [ls[k] EXCEPT !.spoilt = @ \cup {what}] \in E
  BY <1>1
<1> HIDE DEF E
<1>3. RemoveAt(ls, k) \in Seq(E)
  <2>1. \A i \in 1..(k - 1) : i \in 1..Len(ls) /\ ls[i] \in E
    BY <1>1
  <2>2. \A i \in (k + 1)..Len(ls) : i \in 1..Len(ls) /\ ls[i] \in E
    BY <1>1
  <2>3. SubSeq(ls, 1, k - 1) \in Seq(E)
    BY <1>1, <2>1, SubSeqProperties
  <2>4. SubSeq(ls, k + 1, Len(ls)) \in Seq(E)
    BY <1>1, <2>2, SubSeqProperties
  <2> QED
    BY <2>3, <2>4 DEF RemoveAt
<1>4. ASSUME k < Len(ls) PROVE [ls EXCEPT ![k] = ls[k + 1], ![k + 1] = ls[k]] \in Seq(E)
  <2>1. k + 1 \in 1..Len(ls)
    BY <1>1, <1>4
  <2> QED
    BY <1>1, <2>1
<1>5. ASSUME NEW what \in {"payload", "chainHash"}
      PROVE  [ls EXCEPT ![k].spoilt = @ \cup {what}] \in Seq(E)
  <2>1. [ls[k] EXCEPT !.spoilt = @ \cup {what}] \in E
    BY <1>2
  <2>2. \A e \in E : [ls EXCEPT ![k] = e] \in Seq(E)
    BY <1>1
  <2>3. [ls EXCEPT ![k].spoilt = @ \cup {what}] = [ls EXCEPT ![k] = [ls[k] EXCEPT !.spoilt = @ \cup {what}]]
    BY <1>1
  <2> QED
    BY <2>1, <2>2, <2>3
<1> QED
  BY <1>3, <1>4, <1>5, LinesAre DEF E

(* Builds stay good as long as no seal is added. *)
LEMMA GoodStays ==
    ASSUME UNCHANGED seals
    PROVE  GoodBuilds' = GoodBuilds
BY DEF GoodBuilds, Good, MayBuild, SharesPrefix, RecordedHashes, Line, SealIds, IsLines


LEMMA EmptyParts == EmptyDir = [part \in Parts |-> EmptyDir[part]]
BY DEF EmptyDir, Parts

LEMMA DisclosureInvInit == Init => DisclosureInv
<1> SUFFICES ASSUME Init PROVE DisclosureInv
  OBVIOUS
<1> USE DEF Init
<1>1. SealsTyped
  BY DisclosureConstants DEF SealsTyped
<1>2. SealedFirst /\ Running
  BY DEF SealedFirst, Running
<1>3. EmptyDir.document = None
  BY DEF EmptyDir
<1>4. DirsGood
  BY <1>3, EmptyParts DEF DirsGood
<1>5. ResultsGood
  BY DEF ResultsGood
<1> QED
  BY <1>1, <1>2, <1>4, <1>5 DEF DisclosureInv

LEMMA SealingKeeps ==
    ASSUME DisclosureInv, NEW n \in SealAt, NEW fixed \in BOOLEAN, Seal(n, fixed)
    PROVE  DisclosureInv'
<1> DEFINE seed == IF fixed THEN 0 ELSE Len(seals) + 1
           sl == SealEvents(n, seed)
           m == Len(seals)
<1> USE DEF DisclosureInv
<1>1. /\ m \in Nat /\ m < MaxSeals /\ MaxSeals \in Nat /\ builds = 0 /\ builds' = builds
      /\ seals' = Append(seals, sl) /\ lines' = Append(lines, SealedLines(n))
      /\ dirs' = dirs /\ build' = build /\ result' = result
  BY DisclosureConstants DEF Seal, SealsTyped
<1>2. build = Idle /\ \A d \in Dirs : dirs[d] = EmptyDir /\ result[d] = None
  BY <1>1 DEF SealedFirst
<1>3. seed \in 0..MaxSeals
  BY <1>1
<1> HIDE DEF seed
<1>4. sl \in Sealings /\ IsSealing(sl) /\ sl.count = n
  <2>1. sl.count = n
    BY DEF SealEvents
  <2>2. sl \in Sealings
    BY <1>3 DEF Sealings
  <2> QED
    BY <1>3, <2>1, <2>2, SealingIs
<1>5. n \in 1..Len(FieldsOf) /\ n \in Nat
  BY DisclosureConstants
<1>6. IsLines(SealedLines(n), n)
  BY <1>5 DEF IsLines, SealedLines, Entries
<1> HIDE DEF sl
<1>7. SealsTyped'
  <2>1. seals' \in Seq(Sealings) /\ Len(seals') = m + 1 /\ m + 1 <= MaxSeals
    BY <1>1, <1>4 DEF SealsTyped
  <2>2. SealedLines(n) \in Seq(Entries)
    BY <1>6 DEF IsLines
  <2>3. lines' \in Seq(Seq(Entries)) /\ Len(lines') = m + 1
    BY <1>1, <2>2 DEF SealsTyped
  <2>4. ASSUME NEW s \in 1..(m + 1)
        PROVE  IsLines(lines'[s], seals'[s].count)
    <3>1. CASE s = m + 1
      <4>1. seals'[s] = sl /\ lines'[s] = SealedLines(n)
        BY <1>1, <3>1 DEF SealsTyped
      <4> QED
        BY <1>4, <1>6, <4>1
    <3>2. CASE s # m + 1
      <4>1. s \in 1..m
        BY <1>1, <3>2
      <4>2. seals'[s] = seals[s] /\ lines'[s] = lines[s]
        BY <1>1, <4>1 DEF SealsTyped
      <4> QED
        BY <4>1, <4>2 DEF SealsTyped
    <3> QED
      BY <3>1, <3>2
  <2> QED
    BY <2>1, <2>3, <2>4 DEF SealsTyped
<1>8. SealedFirst' /\ Running'
  BY <1>1, <1>2 DEF SealedFirst, Running
<1>9. DirsGood'
  <2>1. EmptyDir.document = None
    BY DEF EmptyDir
  <2> QED
    BY <1>1, <1>2, <2>1, EmptyParts DEF DirsGood
<1>10. ResultsGood'
  BY <1>1, <1>2 DEF ResultsGood
<1> QED
  BY <1>7, <1>8, <1>9, <1>10

LEMMA DamageKeeps ==
    ASSUME DisclosureInv, NEW s \in SealIds, NEW ls, IsLines(ls, seals[s].count), Damage(s, ls)
    PROVE  DisclosureInv'
<1> USE DEF DisclosureInv
<1>1. /\ lines' = [lines EXCEPT ![s] = ls] /\ seals' = seals /\ dirs' = dirs /\ build' = build
      /\ result' = result /\ builds' = builds
  BY DEF Damage
<1>2. GoodBuilds' = GoodBuilds
  BY <1>1, GoodStays
<1>3. SealsTyped'
  <2>1. ls \in Seq(Entries)
    BY DEF IsLines
  <2>2. lines' \in Seq(Seq(Entries)) /\ Len(lines') = Len(lines)
    <3>1. lines \in Seq(Seq(Entries)) /\ s \in 1..Len(lines)
      BY DEF SealsTyped, SealIds
    <3> QED
      BY <1>1, <2>1, <3>1
  <2>3. \A t \in 1..Len(seals) : lines'[t] = IF t = s THEN ls ELSE lines[t]
    BY <1>1 DEF SealsTyped, SealIds
  <2> QED
    BY <1>1, <2>2, <2>3 DEF SealsTyped
<1>4. SealedFirst' /\ Running' /\ DirsGood' /\ ResultsGood'
  BY <1>1, <1>2 DEF SealedFirst, Running, DirsGood, ResultsGood
<1> QED
  BY <1>3, <1>4

LEMMA StartKeeps ==
    ASSUME DisclosureInv, NEW d \in Dirs, NEW s \in SealIds, NEW selection \in Selections,
           NEW earlierDir \in Dirs \cup {None}, Start(d, s, selection, earlierDir)
    PROVE  DisclosureInv'
<1> DEFINE b == [seal |-> s, lines |-> lines[s], indices |-> selection.indices,
                 fields |-> selection.fields, include |-> selection.include,
                 earlier |-> IF earlierDir = None THEN None ELSE dirs[earlierDir].document.seal]
<1> USE DEF DisclosureInv
<1>0. earlierDir # None => dirs[earlierDir].document # None
  BY DEF Start
<1>1. /\ build = Idle /\ MayBuild(b)
      /\ build' = [pc |-> "manifest", dir |-> d, of |-> b]
      /\ result' = [result EXCEPT ![d] = None] /\ builds' = builds + 1
      /\ seals' = seals /\ lines' = lines /\ dirs' = dirs
  BY DEF Start
<1>2. GoodBuilds' = GoodBuilds
  BY <1>1, GoodStays
<1>3. b \in GoodBuilds
  <2>1. s \in Nat /\ s \in 1..Len(seals) /\ IsLines(lines[s], seals[s].count)
    BY DEF SealsTyped, SealIds
  <2>2. lines[s] \in Seq(Entries)
    BY <2>1 DEF IsLines
  <2>3. /\ selection.indices \in SUBSET Nat /\ selection.fields \in SUBSET Paths
        /\ selection.include \in SUBSET Files
    BY DisclosureConstants
  <2>4. b.earlier = None \/ (b.earlier \in SealIds /\ b.earlier \in Nat)
    <3>1. CASE earlierDir = None
      BY <3>1
    <3>2. CASE earlierDir # None
      <4>1. dirs[earlierDir].document \in GoodBuilds
        <5>1. earlierDir \in Dirs /\ dirs[earlierDir].document # None
          BY <1>0, <3>2
        <5>2. \A e \in Dirs : dirs[e].document # None => dirs[e].document \in GoodBuilds
          BY DEF DirsGood
        <5> QED
          BY <5>1, <5>2
      <4>2. dirs[earlierDir].document.seal \in SealIds /\ dirs[earlierDir].document.seal \in Nat
        BY <4>1 DEF GoodBuilds, Good, Builds
      <4> QED
        BY <3>2, <4>2
    <3> QED
      BY <3>1, <3>2
  <2>5. /\ b.seal = s /\ b.lines = lines[s] /\ b.indices = selection.indices
        /\ b.fields = selection.fields /\ b.include = selection.include
    OBVIOUS
  <2>6. b = [seal |-> b.seal, lines |-> b.lines, indices |-> b.indices,
             fields |-> b.fields, include |-> b.include, earlier |-> b.earlier]
    OBVIOUS
  <2> HIDE DEF b
  <2>7. b \in Builds
    BY <2>1, <2>2, <2>3, <2>4, <2>5, <2>6 DEF Builds
  <2>8. MayBuild(b) /\ b.seal \in SealIds /\ IsLines(b.lines, seals[b.seal].count)
    <3>1. MayBuild(b)
      BY <1>1
    <3>2. b.seal \in SealIds /\ IsLines(b.lines, seals[b.seal].count)
      BY <2>1, <2>5
    <3> QED
      BY <3>1, <3>2
  <2>9. Good(b)
    BY <2>4, <2>8 DEF Good
  <2> QED
    BY <2>7, <2>9 DEF GoodBuilds
<1> HIDE DEF b
<1>4. SealsTyped'
  BY <1>1 DEF SealsTyped
<1>5. SealedFirst'
  BY <1>1 DEF SealedFirst
<1>6. Running'
  <2>1. result'[d] = None
    BY <1>1 DEF ResultsGood
  <2>2. build'.pc = "manifest" /\ build'.dir = d /\ build'.of = b
    BY <1>1
  <2> QED
    BY <1>1, <1>2, <1>3, <2>1, <2>2 DEF Running
<1>7. DirsGood' /\ ResultsGood'
  BY <1>1, <1>2 DEF DirsGood, ResultsGood
<1> QED
  BY <1>4, <1>5, <1>6, <1>7


(* A file is written, or the carried ones are, by a run that goes on or     *)
(* ends: the parts an earlier step of it wrote stay.                        *)
LEMMA WritingKeeps ==
    ASSUME DisclosureInv, build # Idle,
           NEW part \in Parts, NEW content,
           NEW pc \in {"manifest", "attestations", "carried", "events", "commitments", "document", "idle"},
           part \in {"events", "commitments", "document"} => content = build.of,
           part = "document" <=> build.pc = "document",
           part = "document" => pc = "idle",
           pc = "commitments" => part = "events",
           pc = "document" => part = "commitments" /\ build.pc = "commitments",
           UNCHANGED <<seals, lines, builds>>,
           dirs' = [dirs EXCEPT ![build.dir][part] = content],
           build' = IF pc = "idle" THEN Idle ELSE [build EXCEPT !.pc = pc],
           result' = IF part = "document" THEN [result EXCEPT ![build.dir] = build.of] ELSE result
    PROVE  DisclosureInv'
<1> DEFINE d == build.dir
           b == build.of
<1> USE DEF DisclosureInv
<1>1. GoodBuilds' = GoodBuilds
  BY GoodStays
<1>2. /\ d \in Dirs /\ b \in GoodBuilds /\ result[d] = None
      /\ build.pc \in {"commitments", "document"} => dirs[d].events = b
      /\ build.pc = "document" => dirs[d].commitments = b
      /\ build = [pc |-> build.pc, dir |-> d, of |-> b]
  BY DEF Running
<1>3. /\ DOMAIN dirs = Dirs /\ dirs[d] = [p \in Parts |-> dirs[d][p]]
      /\ \A e \in Dirs : e # d => dirs'[e] = dirs[e]
      /\ \A p \in Parts : dirs'[d][p] = IF p = part THEN content ELSE dirs[d][p]
      /\ dirs'[d] = [p \in Parts |-> dirs'[d][p]]
      /\ DOMAIN dirs' = Dirs
  BY <1>2 DEF DirsGood
<1>4. /\ dirs'[d].events = IF part = "events" THEN content ELSE dirs[d].events
      /\ dirs'[d].commitments = IF part = "commitments" THEN content ELSE dirs[d].commitments
      /\ dirs'[d].document = IF part = "document" THEN content ELSE dirs[d].document
  BY <1>3 DEF Parts
<1>5. SealsTyped' /\ SealedFirst'
  <2>1. builds # 0
    BY DEF SealedFirst
  <2> QED
    BY <2>1 DEF SealsTyped, SealedFirst
<1>6. Running'
  <2>1. CASE pc = "idle"
    BY <2>1 DEF Running
  <2>2. CASE pc # "idle"
    <3>1. build' = [pc |-> pc, dir |-> d, of |-> b] /\ build'.pc = pc /\ build'.dir = d /\ build'.of = b
      BY <1>2, <2>2
    <3>2. part # "document"
      BY <2>2
    <3> QED
      BY <1>1, <1>2, <1>4, <2>2, <3>1, <3>2 DEF Running
  <2> QED
    BY <2>1, <2>2
<1>7. DirsGood'
  <2>1. ASSUME NEW e \in Dirs, dirs'[e].document # None
        PROVE  /\ dirs'[e].document \in GoodBuilds
               /\ dirs'[e].events \in GoodBuilds /\ dirs'[e].commitments \in GoodBuilds
    <3>1. CASE e # d
      BY <1>3, <2>1, <3>1 DEF DirsGood
    <3>2. CASE e = d /\ part # "document"
      <4>1. dirs[d].document # None
        BY <1>4, <2>1, <3>2
      <4> QED
        BY <1>2, <1>4, <3>2, <4>1 DEF DirsGood
    <3>3. CASE e = d /\ part = "document"
      BY <1>2, <1>4, <3>3
    <3> QED
      BY <3>1, <3>2, <3>3
  <2>2. \A e \in Dirs : dirs'[e] = [p \in Parts |-> dirs'[e][p]]
    BY <1>2, <1>3 DEF DirsGood
  <2> QED
    BY <1>1, <1>3, <2>1, <2>2 DEF DirsGood
<1>8. ResultsGood'
  BY <1>1, <1>2, <1>3, <1>4 DEF ResultsGood
<1> QED
  BY <1>5, <1>6, <1>7, <1>8


LEMMA WritingSteps ==
    ASSUME DisclosureInv,
           \/ WriteManifest \/ CopyAttestations \/ CopyIncluded \/ WriteEvents
           \/ WriteCommitments \/ WriteDocument
    PROVE  DisclosureInv'
<1> USE DEF Parts
<1>0. build # Idle
  <2>1. build.pc # "idle"
    BY DEF WriteManifest, CopyAttestations, CopyIncluded, WriteEvents, WriteCommitments,
           WriteDocument, Writing
  <2> QED
    BY <2>1 DEF Idle
<1>1. CASE WriteManifest
  <2> DEFINE content == build.of.seal
  <2>1. /\ build.pc = "manifest" /\ dirs' = [dirs EXCEPT ![build.dir]["manifest"] = content]
        /\ build' = [build EXCEPT !.pc = "attestations"] /\ UNCHANGED <<seals, lines, result, builds>>
    BY <1>1 DEF WriteManifest, Writing
  <2> HIDE DEF content
  <2> QED
    BY <1>0, <2>1, WritingKeeps
<1>2. CASE CopyAttestations
  <2> DEFINE content == [signatures |-> build.of.seal,
                         token |-> IF build.of.seal \in Dated THEN build.of.seal
                                   ELSE dirs[build.dir].attestations.token]
  <2>1. /\ build.pc = "attestations" /\ dirs' = [dirs EXCEPT ![build.dir]["attestations"] = content]
        /\ build' = [build EXCEPT !.pc = "carried"] /\ UNCHANGED <<seals, lines, result, builds>>
    BY <1>2 DEF CopyAttestations, Writing
  <2> HIDE DEF content
  <2> QED
    BY <1>0, <2>1, WritingKeeps
<1>3. CASE CopyIncluded
  <2> DEFINE content == Copied(dirs[build.dir].carried, build.of.include)
  <2>1. /\ build.pc = "carried" /\ dirs' = [dirs EXCEPT ![build.dir]["carried"] = content]
        /\ build' = [build EXCEPT !.pc = "events"] /\ UNCHANGED <<seals, lines, result, builds>>
    BY <1>3 DEF CopyIncluded, Writing
  <2> HIDE DEF content
  <2> QED
    BY <1>0, <2>1, WritingKeeps
<1>4. CASE WriteEvents
  <2>1. /\ build.pc = "events" /\ dirs' = [dirs EXCEPT ![build.dir]["events"] = build.of]
        /\ build' = [build EXCEPT !.pc = "commitments"] /\ UNCHANGED <<seals, lines, result, builds>>
    BY <1>4 DEF WriteEvents, Writing
  <2> QED
    BY <1>0, <2>1, WritingKeeps
<1>5. CASE WriteCommitments
  <2>1. /\ build.pc = "commitments" /\ dirs' = [dirs EXCEPT ![build.dir]["commitments"] = build.of]
        /\ build' = [build EXCEPT !.pc = "document"] /\ UNCHANGED <<seals, lines, result, builds>>
    BY <1>5 DEF WriteCommitments, Writing
  <2> QED
    BY <1>0, <2>1, WritingKeeps
<1>6. CASE WriteDocument
  <2>1. /\ build.pc = "document" /\ dirs' = [dirs EXCEPT ![build.dir]["document"] = build.of]
        /\ build' = Idle /\ UNCHANGED <<seals, lines, builds>>
        /\ result' = [result EXCEPT ![build.dir] = build.of]
    BY <1>6 DEF WriteDocument
  <2> QED
    BY <1>0, <2>1, WritingKeeps
<1> QED
  BY <1>1, <1>2, <1>3, <1>4, <1>5, <1>6

(* A refused file leaves some of the carried ones written. *)
LEMMA RefusalKeeps ==
    ASSUME DisclosureInv, RefuseFile
    PROVE  DisclosureInv'
<1>1. build # Idle
  BY DEF RefuseFile, Idle
<1>2. PICK S \in SUBSET (build.of.include \cap Pinned) :
        dirs' = [dirs EXCEPT ![build.dir].carried = Copied(@, S)]
  BY DEF RefuseFile
<1> DEFINE content == Copied(dirs[build.dir].carried, S)
<1>3. dirs' = [dirs EXCEPT ![build.dir]["carried"] = content]
  BY <1>2
<1>4. build.pc = "carried" /\ build' = Idle /\ UNCHANGED <<seals, lines, result, builds>>
  BY DEF RefuseFile
<1> HIDE DEF content
<1> QED
  BY <1>1, <1>3, <1>4, WritingKeeps DEF Parts

LEMMA DisclosureInvStep == DisclosureInv /\ [Next]_vars => DisclosureInv'
<1> SUFFICES ASSUME DisclosureInv, [Next]_vars PROVE DisclosureInv'
  OBVIOUS
<1>1. CASE \E n \in SealAt, fixed \in BOOLEAN : Seal(n, fixed)
  BY <1>1, SealingKeeps
<1>2. CASE Damaging
  <2>1. PICK s \in SealIds : \E k \in DOMAIN lines[s] :
          LoseLine(s, k) \/ SwapLines(s, k) \/ \E what \in {"payload", "chainHash"} : SpoilLine(s, k, what)
    BY <1>2 DEF Damaging
  <2>2. PICK k \in DOMAIN lines[s] :
          LoseLine(s, k) \/ SwapLines(s, k) \/ \E what \in {"payload", "chainHash"} : SpoilLine(s, k, what)
    BY <2>1
  <2> DEFINE n == seals[s].count
  <2>3. IsLines(lines[s], n) /\ n \in Nat
    <3>1. IsLines(lines[s], n)
      BY DEF DisclosureInv, SealsTyped, SealIds
    <3>2. SealsTyped /\ IsSealing(seals[s])
      BY SealIs DEF DisclosureInv
    <3> QED
      BY <3>1, <3>2, DisclosureConstants DEF IsSealing
  <2> HIDE DEF n
  <2>4. CASE LoseLine(s, k)
    BY <2>3, <2>4, DamagedLines, DamageKeeps DEF LoseLine, n
  <2>5. CASE SwapLines(s, k)
    BY <2>3, <2>5, DamagedLines, DamageKeeps DEF SwapLines, n
  <2>6. ASSUME NEW what \in {"payload", "chainHash"}, SpoilLine(s, k, what)
        PROVE  DisclosureInv'
    BY <2>3, <2>6, DamagedLines, DamageKeeps DEF SpoilLine, n
  <2> QED
    BY <2>2, <2>4, <2>5, <2>6
<1>3. CASE Disclosing
  BY <1>3, StartKeeps DEF Disclosing
<1>4. CASE WriteManifest \/ CopyAttestations \/ CopyIncluded \/ WriteEvents \/ WriteCommitments
           \/ WriteDocument
  BY <1>4, WritingSteps
<1>5. CASE RefuseFile
  BY <1>5, RefusalKeeps
<1>6. CASE Die
  <2>1. GoodBuilds' = GoodBuilds
    BY <1>6, GoodStays DEF Die
  <2>2. build' = Idle /\ build # Idle /\ UNCHANGED <<seals, lines, dirs, result, builds>>
    BY <1>6 DEF Die
  <2> QED
    BY <2>1, <2>2 DEF DisclosureInv, SealsTyped, SealedFirst, Running, DirsGood, ResultsGood
<1>7. CASE UNCHANGED vars
  <2>1. GoodBuilds' = GoodBuilds
    BY <1>7, GoodStays DEF vars
  <2> QED
    BY <1>7, <2>1 DEF vars, DisclosureInv, SealsTyped, SealedFirst, Running, DirsGood, ResultsGood
<1> QED
  BY <1>1, <1>2, <1>3, <1>4, <1>5, <1>6, <1>7 DEF Next

\* Seals and their lines are what sealing and damage make of them, a run holds
\* what it read from the time it starts, and what stands in a directory goes
\* back to builds that could go on; a run that reported success left its lines
\* and its openings there (disclosure.ts buildDisclosure).
THEOREM DisclosureInvariance == Spec => []DisclosureInv
<1> QED
  BY DisclosureInvInit, DisclosureInvStep, PTL DEF Spec

---------------------------------------------------------------------------
(* What a finished run leaves beside the lines. *)

\* The manifest and its signature are of seal s, and so is the token if s has one.
IsAttested(d, s) ==
    /\ dirs[d].manifest = s /\ dirs[d].attestations.signatures = s
    /\ s \in Dated => dirs[d].attestations.token = s

IsFiled(d) ==
    /\ \A f \in Files : dirs[d].carried[f] # None => f \in Pinned
    /\ dirs[d].attestations = [signatures |-> dirs[d].attestations.signatures,
                               token |-> dirs[d].attestations.token]
    /\ dirs[d].attestations.token \in Dated \cup {None}
    /\ result[d] # None => dirs[d].document = result[d] /\ IsAttested(d, result[d].seal)

\* What the run in progress has behind it.
Behind ==
    build # Idle =>
        /\ build.pc # "manifest" => dirs[build.dir].manifest = build.of.seal
        /\ build.pc \in {"carried", "events", "commitments", "document"} =>
             IsAttested(build.dir, build.of.seal)

FiledInv == Behind /\ \A d \in Dirs : IsFiled(d)

LEMMA FiledInit == Init => FiledInv
<1> SUFFICES ASSUME Init PROVE FiledInv
  OBVIOUS
<1>1. build = Idle /\ \A d \in Dirs : dirs[d] = EmptyDir /\ result[d] = None
  BY DEF Init
<1>2. /\ EmptyDir.carried = [f \in Files |-> None]
      /\ EmptyDir.attestations = [signatures |-> None, token |-> None]
  BY DEF EmptyDir
<1>3. \A d \in Dirs : IsFiled(d)
  BY <1>1, <1>2 DEF IsFiled
<1> QED
  BY <1>1, <1>3 DEF FiledInv, Behind

LEMMA FiledSame ==
    ASSUME FiledInv, UNCHANGED <<dirs, result>>, UNCHANGED build \/ build' = Idle
    PROVE  FiledInv'
BY DEF FiledInv, Behind, IsFiled, IsAttested

(* A step of a run that writes one part of its directory. *)
LEMMA FilingKeeps ==
    ASSUME DisclosureInv, FiledInv, build # Idle, NEW part \in Parts, NEW content,
           dirs' = [dirs EXCEPT ![build.dir][part] = content],
           result' = result \/ result' = [result EXCEPT ![build.dir] = build.of],
           result' # result => part = "document" /\ content = build.of /\ build.pc = "document",
           part = "carried" => \A f \in Files : content[f] # None => f \in Pinned,
           part = "attestations" =>
             content = [signatures |-> build.of.seal,
                        token |-> IF build.of.seal \in Dated THEN build.of.seal
                                  ELSE dirs[build.dir].attestations.token],
           part = "manifest" => content = build.of.seal,
           \/ build' = Idle
           \/ /\ build'.dir = build.dir /\ build'.of = build.of
              /\ build'.pc # "manifest" => build.pc # "manifest" \/ part = "manifest"
              /\ build'.pc \in {"carried", "events", "commitments", "document"} =>
                   build.pc \in {"carried", "events", "commitments", "document"}
                   \/ (part = "attestations" /\ build.pc # "manifest")
    PROVE  FiledInv'
<1>0. PICK d, b : d = build.dir /\ b = build.of
  OBVIOUS
<1>1. /\ d \in Dirs /\ result[d] = None /\ DOMAIN dirs = Dirs /\ DOMAIN result = Dirs
      /\ dirs[d] = [p \in Parts |-> dirs[d][p]]
  BY <1>0 DEF DisclosureInv, Running, DirsGood, ResultsGood
<1>2. /\ \A e \in Dirs : e # d => dirs'[e] = dirs[e] /\ result'[e] = result[e]
      /\ \A p \in Parts : dirs'[d][p] = IF p = part THEN content ELSE dirs[d][p]
  BY <1>0, <1>1
<1>3. /\ dirs'[d].manifest = IF part = "manifest" THEN content ELSE dirs[d].manifest
      /\ dirs'[d].attestations = IF part = "attestations" THEN content ELSE dirs[d].attestations
      /\ dirs'[d].carried = IF part = "carried" THEN content ELSE dirs[d].carried
      /\ dirs'[d].document = IF part = "document" THEN content ELSE dirs[d].document
  BY <1>2 DEF Parts
<1>4. result'[d] = None \/ (result'[d] = b /\ part = "document" /\ content = b /\ build.pc = "document")
  BY <1>0, <1>1
<1>5. IsFiled(d) /\ Behind
  BY <1>1 DEF FiledInv
<1>6. IsAttested(d, b.seal) /\ part # "attestations" => IsAttested(d, b.seal)'
  BY <1>0, <1>3 DEF IsAttested
<1>7. IsFiled(d)'
  <2>1. \A f \in Files : dirs'[d].carried[f] # None => f \in Pinned
    BY <1>0, <1>3, <1>5 DEF IsFiled
  <2>2. /\ dirs'[d].attestations = [signatures |-> dirs'[d].attestations.signatures,
                                    token |-> dirs'[d].attestations.token]
        /\ dirs'[d].attestations.token \in Dated \cup {None}
    BY <1>0, <1>3, <1>5 DEF IsFiled
  <2>3. ASSUME result'[d] # None
        PROVE  dirs'[d].document = result'[d] /\ IsAttested(d, result[d].seal)'
    <3>1. result'[d] = b /\ part = "document" /\ content = b /\ build.pc = "document"
      BY <1>4, <2>3
    <3>2. IsAttested(d, b.seal)
      BY <1>0, <1>5, <3>1 DEF Behind
    <3> QED
      BY <1>3, <1>6, <3>1, <3>2
  <2> QED
    BY <2>1, <2>2, <2>3 DEF IsFiled
<1>8. ASSUME NEW e \in Dirs, e # d
      PROVE  IsFiled(e)'
  BY <1>2, <1>8 DEF FiledInv, IsFiled, IsAttested
<1>9. Behind'
  <2>1. SUFFICES ASSUME build' # Idle PROVE Behind'
    BY DEF Behind
  <2>2. build'.dir = d /\ build'.of = b
    BY <1>0, <2>1
  <2>3. build'.pc # "manifest" => dirs'[d].manifest = b.seal
    BY <1>0, <1>3, <1>5, <2>1 DEF Behind
  <2>4. ASSUME build'.pc \in {"carried", "events", "commitments", "document"}
        PROVE  IsAttested(d, b.seal)'
    <3>1. CASE part = "attestations" /\ build.pc # "manifest"
      <4>1. dirs'[d].manifest = b.seal
        BY <1>0, <1>3, <1>5, <3>1 DEF Behind
      <4> QED
        BY <1>0, <1>3, <3>1, <4>1 DEF IsAttested
    <3>2. CASE build.pc \in {"carried", "events", "commitments", "document"} /\ part # "attestations"
      BY <1>0, <1>5, <1>6, <3>2 DEF Behind
    <3>3. CASE build.pc \in {"carried", "events", "commitments", "document"} /\ part = "attestations"
      BY <3>1, <3>3
    <3> QED
      BY <2>1, <2>4, <3>1, <3>2, <3>3
  <2> QED
    BY <2>2, <2>3, <2>4 DEF Behind
<1> QED
  BY <1>7, <1>8, <1>9 DEF FiledInv

LEMMA CopiedPinned ==
    ASSUME NEW carried, NEW S \in SUBSET Pinned, \A f \in Files : carried[f] # None => f \in Pinned
    PROVE  \A f \in Files : Copied(carried, S)[f] # None => f \in Pinned
BY DEF Copied

LEMMA FiledWriting ==
    ASSUME DisclosureInv, FiledInv,
           \/ WriteManifest \/ CopyAttestations \/ CopyIncluded \/ RefuseFile \/ WriteEvents
           \/ WriteCommitments \/ WriteDocument
    PROVE  FiledInv'
<1> USE DEF Parts
<1>0. build # Idle
  <2>1. build.pc # "idle"
    BY DEF WriteManifest, CopyAttestations, CopyIncluded, RefuseFile, WriteEvents, WriteCommitments,
           WriteDocument, Writing
  <2> QED
    BY <2>1 DEF Idle
<1>1. /\ build = [pc |-> build.pc, dir |-> build.dir, of |-> build.of] /\ build.dir \in Dirs
      /\ \A f \in Files : dirs[build.dir].carried[f] # None => f \in Pinned
  <2>1. build = [pc |-> build.pc, dir |-> build.dir, of |-> build.of] /\ build.dir \in Dirs
    BY <1>0 DEF DisclosureInv, Running
  <2> QED
    BY <2>1 DEF FiledInv, IsFiled
<1>2. CASE WriteManifest
  <2>1. /\ build.pc = "manifest" /\ dirs' = [dirs EXCEPT ![build.dir]["manifest"] = build.of.seal]
        /\ build' = [build EXCEPT !.pc = "attestations"] /\ UNCHANGED result
    BY <1>2 DEF WriteManifest, Writing
  <2>2. build'.pc = "attestations" /\ build'.dir = build.dir /\ build'.of = build.of
    BY <1>1, <2>1
  <2> QED
    BY <1>0, <2>1, <2>2, FilingKeeps
<1>3. CASE CopyAttestations
  <2> DEFINE content == [signatures |-> build.of.seal,
                         token |-> IF build.of.seal \in Dated THEN build.of.seal
                                   ELSE dirs[build.dir].attestations.token]
  <2>1. /\ build.pc = "attestations" /\ dirs' = [dirs EXCEPT ![build.dir]["attestations"] = content]
        /\ build' = [build EXCEPT !.pc = "carried"] /\ UNCHANGED result
    BY <1>3 DEF CopyAttestations, Writing
  <2>2. build'.pc = "carried" /\ build'.dir = build.dir /\ build'.of = build.of
    BY <1>1, <2>1
  <2>3. content = [signatures |-> build.of.seal,
                   token |-> IF build.of.seal \in Dated THEN build.of.seal
                             ELSE dirs[build.dir].attestations.token]
    OBVIOUS
  <2> HIDE DEF content
  <2> QED
    BY <1>0, <2>1, <2>2, <2>3, FilingKeeps
<1>4. CASE CopyIncluded
  <2> DEFINE content == Copied(dirs[build.dir].carried, build.of.include)
  <2>1. /\ build.pc = "carried" /\ dirs' = [dirs EXCEPT ![build.dir]["carried"] = content]
        /\ build' = [build EXCEPT !.pc = "events"] /\ UNCHANGED result
        /\ build.of.include \subseteq Pinned
    BY <1>4 DEF CopyIncluded, Writing
  <2>2. build'.pc = "events" /\ build'.dir = build.dir /\ build'.of = build.of
    BY <1>1, <2>1
  <2>3. \A f \in Files : content[f] # None => f \in Pinned
    BY <1>1, <2>1, CopiedPinned
  <2> HIDE DEF content
  <2> QED
    BY <1>0, <2>1, <2>2, <2>3, FilingKeeps
<1>5. CASE RefuseFile
  <2>1. PICK S \in SUBSET (build.of.include \cap Pinned) :
          dirs' = [dirs EXCEPT ![build.dir].carried = Copied(@, S)]
    BY <1>5 DEF RefuseFile
  <2> DEFINE content == Copied(dirs[build.dir].carried, S)
  <2>2. /\ dirs' = [dirs EXCEPT ![build.dir]["carried"] = content]
        /\ build.pc = "carried" /\ build' = Idle /\ UNCHANGED result
    BY <1>5, <2>1 DEF RefuseFile
  <2>3. \A f \in Files : content[f] # None => f \in Pinned
    BY <1>1, CopiedPinned
  <2> HIDE DEF content
  <2> QED
    BY <1>0, <2>2, <2>3, FilingKeeps
<1>6. CASE WriteEvents
  <2>1. /\ build.pc = "events" /\ dirs' = [dirs EXCEPT ![build.dir]["events"] = build.of]
        /\ build' = [build EXCEPT !.pc = "commitments"] /\ UNCHANGED result
    BY <1>6 DEF WriteEvents, Writing
  <2>2. build'.pc = "commitments" /\ build'.dir = build.dir /\ build'.of = build.of
    BY <1>1, <2>1
  <2> QED
    BY <1>0, <2>1, <2>2, FilingKeeps
<1>7. CASE WriteCommitments
  <2>1. /\ build.pc = "commitments" /\ dirs' = [dirs EXCEPT ![build.dir]["commitments"] = build.of]
        /\ build' = [build EXCEPT !.pc = "document"] /\ UNCHANGED result
    BY <1>7 DEF WriteCommitments, Writing
  <2>2. build'.pc = "document" /\ build'.dir = build.dir /\ build'.of = build.of
    BY <1>1, <2>1
  <2> QED
    BY <1>0, <2>1, <2>2, FilingKeeps
<1>8. CASE WriteDocument
  <2>1. /\ build.pc = "document" /\ dirs' = [dirs EXCEPT ![build.dir]["document"] = build.of]
        /\ build' = Idle /\ result' = [result EXCEPT ![build.dir] = build.of]
    BY <1>8 DEF WriteDocument
  <2> QED
    BY <1>0, <2>1, FilingKeeps
<1> QED
  BY <1>2, <1>3, <1>4, <1>5, <1>6, <1>7, <1>8

LEMMA FiledStart ==
    ASSUME DisclosureInv, FiledInv, NEW d \in Dirs, NEW s, NEW selection, NEW earlierDir,
           Start(d, s, selection, earlierDir)
    PROVE  FiledInv'
<1>1. /\ build'.pc = "manifest" /\ dirs' = dirs /\ result' = [result EXCEPT ![d] = None]
      /\ DOMAIN result = Dirs
  BY DEF Start, DisclosureInv, ResultsGood
<1>2. Behind'
  BY <1>1 DEF Behind
<1>3. ASSUME NEW e \in Dirs PROVE IsFiled(e)'
  <2>1. IsFiled(e) /\ (result'[e] = None \/ result'[e] = result[e])
    BY <1>1 DEF FiledInv
  <2> QED
    BY <1>1, <2>1 DEF IsFiled, IsAttested
<1> QED
  BY <1>2, <1>3 DEF FiledInv

LEMMA FiledStep == DisclosureInv /\ FiledInv /\ [Next]_vars => FiledInv'
<1> SUFFICES ASSUME DisclosureInv, FiledInv, [Next]_vars PROVE FiledInv'
  OBVIOUS
<1>1. CASE \E n \in SealAt, fixed \in BOOLEAN : Seal(n, fixed)
  BY <1>1, FiledSame DEF Seal
<1>2. CASE Damaging
  BY <1>2, FiledSame DEF Damaging, LoseLine, SwapLines, SpoilLine, Damage
<1>3. CASE Disclosing
  BY <1>3, FiledStart DEF Disclosing
<1>4. CASE WriteManifest \/ CopyAttestations \/ CopyIncluded \/ RefuseFile \/ WriteEvents
           \/ WriteCommitments \/ WriteDocument
  BY <1>4, FiledWriting
<1>5. CASE Die
  BY <1>5, FiledSame DEF Die
<1>6. CASE UNCHANGED vars
  BY <1>6, FiledSame DEF vars
<1> QED
  BY <1>1, <1>2, <1>3, <1>4, <1>5, <1>6 DEF Next

\* What stands beside the lines of a directory: a run that reported success
\* left its own document, manifest and signatures, and every carried file is
\* one a seal pins (disclosure.ts buildDisclosure, copyTree).
THEOREM FiledInvariance == Spec => []FiledInv
<1> QED
  BY FiledInit, FiledStep, DisclosureInvariance, PTL DEF Spec

---------------------------------------------------------------------------
(* Proofs drawn from sealed trees. *)

(* A consistency proof drawn from a sealed tree verifies for the chains it  *)
(* extends, and for no other.                                              *)
LEMMA ConsistencyBinds ==
    ASSUME SealsTyped, NEW s \in SealIds, NEW t \in SealIds, seals[s].count <= seals[t].count
    PROVE  VerifyConsistency(seals[s].count, seals[t].count,
                             MerkleRoot(LeavesOf(seals[s].chain)), MerkleRoot(LeavesOf(seals[t].chain)),
                             ConsistencyProof(LeavesOf(seals[t].chain), seals[s].count))
             <=> IsPrefix(seals[s].chain, seals[t].chain)
<1> DEFINE g == seals[s].chain
           h == seals[t].chain
           leaves == LeavesOf(h)
           m == seals[s].count
           n == seals[t].count
           P == ConsistencyProof(leaves, m)
<1>1. m \in Nat \ {0} /\ Len(g) = m
  BY SealedLeaves
<1>2. n \in Nat \ {0} /\ Len(h) = n /\ Len(leaves) = n
  BY SealedLeaves
<1>3. IsPrefix(g, h) <=> \A i \in 1..m : g[i] = h[i]
  <2> HIDE DEF g, h, m, n
  <2> QED
    BY <1>1, <1>2, PrefixShows DEF m, n
<1>4. MerkleRoot(LeavesOf(g)) = Root(leaves, m, 0) <=> \A i \in 1..m : g[i] = h[i]
  <2> HIDE DEF g, h, m, n
  <2> QED
    BY <1>1, <1>2, PrefixHead DEF m, n
<1> DEFINE rootM == MerkleRoot(LeavesOf(g))
           rootN == MerkleRoot(leaves)
<1> HIDE DEF g, h, m, n, leaves
<1>5. CASE m < n
  <2>1. m \in 1..(n - 1) /\ n \in Nat
    BY <1>1, <1>2, <1>5
  <2>2. VerifyConsistency(m, n, rootM, rootN, P) <=> rootM = Root(leaves, m, 0)
    <3> HIDE DEF rootM
    <3> QED
      BY <1>2, <2>1, ConsistencyExact
  <2> QED
    BY <1>3, <1>4, <2>2 DEF g, h, m, n, leaves
<1>6. CASE m = n
  <2>1. P = << >>
    <3>1. PICK f : IsProofOver(leaves, m, f) /\ P = f[n][0]
      BY <1>2, ConsistencyProofIs
    <3>2. n \in 0..Len(leaves) /\ 0 \in 0..(Len(leaves) - n) /\ m = 0 + n
      BY <1>2, <1>6
    <3> HIDE DEF P
    <3> QED
      BY <3>1, <3>2 DEF IsProofOver
  <2>2. rootN = Root(leaves, m, 0)
    BY <1>2, <1>6 DEF MerkleRoot, Root
  <2> HIDE DEF P
  <2>3. m \in 1..n
    BY <1>1, <1>6
  <2> HIDE DEF rootM, rootN
  <2>4. VerifyConsistency(m, n, rootM, rootN, P) <=> rootM = rootN
    BY <1>6, <2>1, <2>3 DEF VerifyConsistency
  <2>5. VerifyConsistency(m, n, rootM, rootN, P) <=> IsPrefix(g, h)
    BY <1>3, <1>4, <2>2, <2>4 DEF rootM
  <2> QED
    BY <2>5 DEF g, h, m, n, leaves, rootM, rootN, P
<1>7. m <= n
  BY DEF m, n
<1> QED
  BY <1>1, <1>2, <1>5, <1>6, <1>7

\* A proof drawn from a sealed tree verifies for its own leaf at its own place
\* and for no other, whatever the number of leaves, and a consistency proof
\* between two seals verifies exactly when the chain of the earlier one is a
\* prefix of the later one's (merkle.ts, merkle.go).
THEOREM ProofsAreExact == Spec => []ProofsExact
<1>1. ASSUME DisclosureInv PROVE ProofsExact
  <2>1. SUFFICES ASSUME NEW s \in SealIds, NEW t \in SealIds
                 PROVE  LET cs == seals[s].chain
                            ct == seals[t].chain
                            n == Len(ct)
                            leaves == LeavesOf(ct)
                            root == MerkleRoot(leaves)
                        IN  /\ \A i, j, p \in 0..(n - 1) :
                                  VerifyInclusion(leaves[i + 1], j, n, AuditPath(leaves, p), root)
                                    <=> i = j /\ j = p
                            /\ Len(cs) <= n =>
                                  (VerifyConsistency(Len(cs), n, MerkleRoot(LeavesOf(cs)), root,
                                                     ConsistencyProof(leaves, Len(cs)))
                                   <=> IsPrefix(cs, ct))
    BY Zenon DEF ProofsExact
  <2> DEFINE cs == seals[s].chain
             ct == seals[t].chain
             n == Len(ct)
             leaves == LeavesOf(ct)
  <2>2. SealsTyped
    BY <1>1 DEF DisclosureInv
  <2>3. /\ n = seals[t].count /\ n \in Nat \ {0} /\ Len(leaves) = n
        /\ AreLeaves(leaves) /\ DistinctLeaves(leaves)
    BY <2>2, SealedLeaves
  <2>4. Len(cs) = seals[s].count
    BY <2>2, SealedLeaves
  <2>5. ASSUME NEW i \in 0..(n - 1), NEW j \in 0..(n - 1), NEW p \in 0..(n - 1)
        PROVE  VerifyInclusion(leaves[i + 1], j, n, AuditPath(leaves, p), MerkleRoot(leaves))
                 <=> i = j /\ j = p
    <3> HIDE DEF leaves, n
    <3>1. VerifyInclusion(leaves[i + 1], j, n, AuditPath(leaves, p), MerkleRoot(leaves))
            <=> j = p /\ leaves[i + 1] = leaves[p + 1]
      BY <2>3, InclusionExact
    <3>2. i + 1 \in 1..n /\ p + 1 \in 1..n
      BY <2>3
    <3>3. leaves[i + 1] = leaves[p + 1] <=> i = p
      BY <2>3, <3>2 DEF DistinctLeaves
    <3> QED
      BY <3>1, <3>3
  <2>6. Len(cs) <= n =>
          (VerifyConsistency(Len(cs), n, MerkleRoot(LeavesOf(cs)), MerkleRoot(leaves),
                             ConsistencyProof(leaves, Len(cs)))
           <=> IsPrefix(cs, ct))
    BY <2>2, <2>3, <2>4, ConsistencyBinds
  <2> QED
    BY <2>5, <2>6
<1> QED
  BY <1>1, DisclosureInvariance, PTL

---------------------------------------------------------------------------
(* What a disclosure shows. *)

(* What stands in a directory whose run has reported success, or whose     *)
(* document is there.                                                      *)
LEMMA GoodIs ==
    ASSUME NEW b \in GoodBuilds
    PROVE  Good(b) /\ b \in Builds
BY DEF GoodBuilds

(* The lines a build shows, each by its place in the seal. *)
LEMMA ShownInPlace ==
    ASSUME SealsTyped, NEW b, Good(b)
    PROVE  /\ DOMAIN DisclosedLines(b) = 1..Cardinality(b.indices)
           /\ \A k \in 1..Cardinality(b.indices) :
                LET i == Ascending(b.indices)[k]
                IN  /\ i \in b.indices /\ i + 1 \in 1..seals[b.seal].count /\ i \in Nat
                    /\ b.lines[i + 1].event = i + 1 /\ b.lines[i + 1] \in Entries
                    /\ DisclosedLines(b)[k] = Line(b.seal, b.lines[i + 1])
                    /\ DisclosedLines(b)[k].chainHash = seals[b.seal].chain[i + 1]
<1>1. ASSUME NEW k \in 1..Cardinality(b.indices)
      PROVE  LET i == Ascending(b.indices)[k]
             IN  /\ i \in b.indices /\ i + 1 \in 1..seals[b.seal].count /\ i \in Nat
                 /\ b.lines[i + 1].event = i + 1 /\ b.lines[i + 1] \in Entries
                 /\ DisclosedLines(b)[k] = Line(b.seal, b.lines[i + 1])
                 /\ DisclosedLines(b)[k].chainHash = seals[b.seal].chain[i + 1]
  <2> DEFINE i == Ascending(b.indices)[k]
  <2>1. /\ i \in b.indices /\ i \in 0..(Len(b.lines) - 1) /\ i + 1 \in 1..Len(b.lines)
        /\ DisclosedLines(b)[k] = Line(b.seal, b.lines[i + 1])
    BY ShownLines
  <2> HIDE DEF i
  <2>2. Len(b.lines) = seals[b.seal].count
    BY GoodLines
  <2>3. /\ b.lines[i + 1] \in Entries /\ b.lines[i + 1].event = i + 1
        /\ Line(b.seal, b.lines[i + 1]).chainHash = seals[b.seal].chain[i + 1]
    BY <2>1, GoodLines
  <2> QED
    BY <2>1, <2>2, <2>3 DEF i
<1> QED
  BY <1>1, ShownLines

(* The openings of a build are of events it was asked for. *)
LEMMA OpeningsChosen ==
    ASSUME SealsTyped, NEW b, Good(b), NEW o \in SelectOpenings(b)
    PROVE  /\ \E i \in b.indices : o.eventId = EventId(seals[b.seal].seed, i + 1)
           /\ o.path \in b.fields
<1>1. PICK i \in b.indices : o.eventId = Line(b.seal, b.lines[i + 1]).id
  BY DEF SelectOpenings
<1>2. o.path \in b.fields
  BY DEF SelectOpenings
<1>3. i + 1 \in 1..Len(b.lines)
  <2>1. Len(b.lines) \in Nat /\ b.indices \subseteq 0..(Len(b.lines) - 1)
    BY DEF Good, IsLines, MayBuild
  <2> QED
    BY <2>1
<1>4. b.lines[i + 1].event = i + 1
  BY <1>3, GoodLines
<1> QED
  BY <1>1, <1>2, <1>4, LineIs

\* Once a run has reported success, the directory shows the lines and the
\* openings that were asked for and no others, whatever a run before it left
\* there (disclosure.ts buildDisclosure; events.jsonl and commitments.json are
\* written over).
THEOREM NothingWithheld == Spec => []NothingWithheldShown
<1>1. ASSUME DisclosureInv PROVE NothingWithheldShown
  <2>1. SUFFICES ASSUME NEW d \in Dirs, result[d] # None
                 PROVE  LET chosen == {EventId(seals[result[d].seal].seed, i + 1) : i \in result[d].indices}
                            ls == DisclosedLines(dirs[d].events)
                        IN  /\ \A k \in DOMAIN ls : ls[k].id \in chosen
                            /\ \A o \in SelectOpenings(dirs[d].commitments) :
                                  o.eventId \in chosen /\ o.path \in result[d].fields
    BY Zenon DEF NothingWithheldShown
  <2> DEFINE b == result[d]
             chosen == {EventId(seals[b.seal].seed, i + 1) : i \in b.indices}
             ls == DisclosedLines(b)
  <2>2. b \in GoodBuilds /\ dirs[d].events = b /\ dirs[d].commitments = b
    BY <1>1, <2>1 DEF DisclosureInv, ResultsGood
  <2> HIDE DEF b
  <2>3. SealsTyped /\ Good(b)
    BY <1>1, <2>2, GoodIs DEF DisclosureInv
  <2>4. ASSUME NEW k \in DOMAIN ls
        PROVE  ls[k].id \in chosen
    <3> DEFINE i == Ascending(b.indices)[k]
    <3>1. i \in b.indices /\ b.lines[i + 1].event = i + 1 /\ ls[k] = Line(b.seal, b.lines[i + 1])
      BY <2>3, <2>4, ShownInPlace
    <3> HIDE DEF i
    <3>2. ls[k].id = EventId(seals[b.seal].seed, i + 1)
      BY <3>1, LineIs
    <3> QED
      BY <3>1, <3>2
  <2>5. \A o \in SelectOpenings(b) : o.eventId \in chosen /\ o.path \in b.fields
    BY <2>3, OpeningsChosen
  <2> QED
    BY <2>2, <2>4, <2>5 DEF b
<1> QED
  BY <1>1, DisclosureInvariance, PTL


(* What is found under a seal's root along the path of a place is the hash  *)
(* of that place.                                                           *)
LEMMA ReachedIsRecorded ==
    ASSUME SealsTyped, NEW b, Good(b), NEW i \in 0..(Len(b.lines) - 1), NEW index, NEW c,
           VerifyInclusion(LeafHash(c), index, Len(b.lines),
                           AuditPath(LeavesOf(RecordedHashes(b)), i), seals[b.seal].merkleRoot)
    PROVE  c = seals[b.seal].chain[i + 1]
<1> DEFINE g == seals[b.seal].chain
           leaves == LeavesOf(g)
           n == Len(b.lines)
<1>1. b.seal \in SealIds /\ n = seals[b.seal].count /\ Len(RecordedHashes(b)) = n
      /\ \A k \in 1..n : RecordedHashes(b)[k] = g[k]
  BY GoodLines DEF Good
<1>2. /\ n \in Nat \ {0} /\ Len(g) = n /\ Len(leaves) = n /\ AreLeaves(leaves) /\ DistinctLeaves(leaves)
      /\ \A k \in 1..n : leaves[k] = LeafHash(g[k])
  BY <1>1, SealedLeaves
<1>3. leaves = LeavesOf(RecordedHashes(b))
  BY <1>1, <1>2 DEF LeavesOf
<1>4. MerkleRoot(leaves) = seals[b.seal].merkleRoot
  BY <1>3 DEF Good, MayBuild
<1>5. i \in 0..(n - 1) /\ i + 1 \in 1..n
  BY <1>2
<1> HIDE DEF leaves, g, n
<1>6. VerifyInclusion(LeafHash(c), index, n, AuditPath(leaves, i), MerkleRoot(leaves))
  BY <1>3, <1>4 DEF n
<1>7. LeafHash(c) = leaves[i + 1]
  BY <1>2, <1>5, <1>6, InclusionExact
<1>8. LeafHash(c) = LeafHash(g[i + 1])
  BY <1>2, <1>5, <1>7
<1>9. c = g[i + 1]
  BY <1>8, ShapesApart
<1> QED
  BY <1>9 DEF g

(* The parts of a document. *)
LEMMA DocumentIs ==
    ASSUME NEW b
    PROVE  /\ Document(b).bundleId = b.seal
           /\ Document(b).merkleRoot = seals[b.seal].merkleRoot
           /\ Document(b).leafCount = Len(b.lines)
           /\ Document(b).consistency = BuildConsistency(b)
BY DEF Document

LEMMA DocumentLists ==
    ASSUME NEW b, Cardinality(b.indices) \in Nat
    PROVE  /\ Len(Document(b).disclosed) = Cardinality(b.indices)
           /\ \A k \in 1..Cardinality(b.indices) :
                /\ Document(b).disclosed[k].index = Ascending(b.indices)[k]
                /\ Document(b).disclosed[k].eventId = Line(b.seal, b.lines[Ascending(b.indices)[k] + 1]).id
                /\ Document(b).disclosed[k].auditPath =
                     AuditPath(LeavesOf(RecordedHashes(b)), Ascending(b.indices)[k])
           /\ \A w \in Document(b).withheld :
                w.index \in Withheld(b) /\ w.chainHash = RecordedHashes(b)[w.index + 1]
<1> DEFINE leaves == LeavesOf(RecordedHashes(b))
           disclosed == [k \in 1..Cardinality(b.indices) |->
                          LET i == Ascending(b.indices)[k]
                          IN  [index |-> i, eventId |-> Line(b.seal, b.lines[i + 1]).id,
                               auditPath |-> AuditPath(leaves, i)]]
           withheld == {[index |-> i, chainHash |-> RecordedHashes(b)[i + 1],
                         auditPath |-> AuditPath(leaves, i)] : i \in Withheld(b)}
<1>1. Document(b).disclosed = disclosed /\ Document(b).withheld = withheld
  BY DEF Document
<1>2. /\ Len(disclosed) = Cardinality(b.indices)
      /\ \A k \in 1..Cardinality(b.indices) :
            /\ disclosed[k].index = Ascending(b.indices)[k]
            /\ disclosed[k].eventId = Line(b.seal, b.lines[Ascending(b.indices)[k] + 1]).id
            /\ disclosed[k].auditPath = AuditPath(leaves, Ascending(b.indices)[k])
  OBVIOUS
<1>3. \A w \in withheld : w.index \in Withheld(b) /\ w.chainHash = RecordedHashes(b)[w.index + 1]
  OBVIOUS
<1> QED
  BY <1>1, <1>2, <1>3

(* An opening that opens a line of a seal, as it was sealed, is one of the  *)
(* seal's.                                                                  *)
LEMMA OpensSealed ==
    ASSUME SealsTyped, NEW t \in SealIds, NEW u \in SealIds, NEW o \in Openings(u),
           NEW i \in 1..seals[t].count,
           o.path \in DOMAIN Payload(seals[t].seed, i).held,
           Payload(seals[t].seed, i).held[o.path] = Commitment(o.salt, o.path, o.value)
    PROVE  o \in Openings(t)
<1> DEFINE Fields(s, k) == {[eventId |-> EventId(seals[s].seed, k), path |-> f,
                             salt |-> Salt(seals[s].seed, k, f), value |-> FieldValue(k, f)]
                            : f \in FieldsOf[k]}
<1>1. PICK k \in 1..seals[u].count : o \in Fields(u, k)
  BY DEF Openings
<1>2. PICK f \in FieldsOf[k] :
        o = [eventId |-> EventId(seals[u].seed, k), path |-> f,
             salt |-> Salt(seals[u].seed, k, f), value |-> FieldValue(k, f)]
  BY <1>1
<1>3. o.path = f /\ o.salt = Salt(seals[u].seed, k, f) /\ o.value = FieldValue(k, f)
  BY <1>2
<1>4. f \in FieldsOf[i] /\ Payload(seals[t].seed, i).held[f] =
                             Commitment(Salt(seals[t].seed, i, f), f, FieldValue(i, f))
  BY <1>3 DEF Payload
<1>5. Salt(seals[t].seed, i, f) = Salt(seals[u].seed, k, f)
  BY <1>3, <1>4 DEF Commitment
<1>6. seals[t].seed = seals[u].seed /\ i = k
  BY <1>5 DEF Salt
<1>7. o \in Fields(t, i)
  BY <1>2, <1>4, <1>6
<1> HIDE DEF Fields
<1>8. Openings(t) = UNION {Fields(t, m) : m \in 1..seals[t].count}
  BY DEF Openings, Fields
<1> QED
  BY <1>7, <1>8


(* A line shown where another line of the same chain hash was sealed is     *)
(* that line, once its payload is what it was hashed from.                  *)
LEMMA ShownIsSealed ==
    ASSUME SealsTyped, NEW s \in SealIds, NEW t \in SealIds, NEW l \in Entries,
           l.event \in 1..seals[t].count, NEW i \in 1..seals[s].count,
           Line(t, l).chainHash = seals[s].chain[i],
           Line(t, l).payload = Line(t, l).payloadHash
    PROVE  Line(t, l) = Line(s, [event |-> i, spoilt |-> {}])
<1> DEFINE m == [event |-> i, spoilt |-> {}]
<1>1. l.event = i /\ "chainHash" \notin l.spoilt
  BY LineInPlace
<1>2. seals[t].chain[i] = seals[s].chain[i]
  BY <1>1, LineIs
<1>3. i \in 1..seals[t].count /\ i \in 1..i
  <2>1. IsSealing(seals[s])
    BY SealIs
  <2> QED
    BY <1>1, <2>1, DisclosureConstants DEF IsSealing
<1>4. LinkOf(seals[t].seed, i) = LinkOf(seals[s].seed, i)
  BY <1>2, <1>3, ChainApart
<1>5. /\ EventId(seals[t].seed, i) = EventId(seals[s].seed, i)
      /\ Payload(seals[t].seed, i) = Payload(seals[s].seed, i)
  BY <1>4, LinksApart
<1>6. m.event = i /\ m.spoilt = {}
  OBVIOUS
<1>7. /\ Line(t, l) = [id |-> Line(t, l).id, order |-> Line(t, l).order, payload |-> Line(t, l).payload,
                       payloadHash |-> Line(t, l).payloadHash, chainHash |-> Line(t, l).chainHash]
      /\ Line(s, m) = [id |-> Line(s, m).id, order |-> Line(s, m).order, payload |-> Line(s, m).payload,
                       payloadHash |-> Line(s, m).payloadHash, chainHash |-> Line(s, m).chainHash]
  BY DEF Line
<1> HIDE DEF m
<1>8. /\ Line(t, l).id = Line(s, m).id /\ Line(t, l).order = Line(s, m).order
      /\ Line(t, l).payloadHash = Line(s, m).payloadHash /\ Line(t, l).payload = Line(s, m).payload
      /\ Line(t, l).chainHash = Line(s, m).chainHash
  <2>1. "payload" \notin m.spoilt /\ "chainHash" \notin m.spoilt
    BY <1>6
  <2>2. /\ Line(s, m).id = EventId(seals[s].seed, i) /\ Line(s, m).order = i
        /\ Line(s, m).payloadHash = Payload(seals[s].seed, i)
        /\ Line(s, m).payload = Payload(seals[s].seed, i) /\ Line(s, m).chainHash = seals[s].chain[i]
    BY <1>6, <2>1, LineIs
  <2>3. /\ Line(t, l).id = EventId(seals[t].seed, i) /\ Line(t, l).order = i
        /\ Line(t, l).payloadHash = Payload(seals[t].seed, i)
    BY <1>1, LineIs
  <2> QED
    BY <1>5, <2>2, <2>3
<1>9. Line(t, l) = Line(s, m)
  BY <1>7, <1>8
<1> QED
  BY <1>9 DEF m

\* Whatever files of whatever runs stand in a directory, if it verifies then
\* each line is the line sealed at the index it is listed at, each withheld
\* position states its sealed chain hash, and each opening is the seal's
\* (check_disclosure.go, commitments.go).
THEOREM VerifiedIsSealed == Spec => []VerifiedShowsSealed
<1>1. ASSUME DisclosureInv PROVE VerifiedShowsSealed
  <2>1. SUFFICES ASSUME NEW d \in Dirs, VerifyDisclosure(d)
                 PROVE  LET s == dirs[d].manifest
                            doc == Document(dirs[d].document)
                            ls == DisclosedLines(dirs[d].events)
                        IN  /\ \A k \in DOMAIN ls :
                                  ls[k] = Line(s, [event |-> doc.disclosed[k].index + 1, spoilt |-> {}])
                            /\ \A w \in doc.withheld : w.chainHash = seals[s].chain[w.index + 1]
                            /\ SelectOpenings(dirs[d].commitments) \subseteq Openings(s)
    BY Zenon DEF VerifiedShowsSealed
  <2> DEFINE s == dirs[d].manifest
             b == dirs[d].document
             e == dirs[d].events
             c == dirs[d].commitments
             doc == Document(b)
             ls == DisclosedLines(e)
  <2>2. /\ dirs[d].document # None /\ CheckDisclosureParse(doc, s) /\ CheckDisclosureInclusion(doc, ls)
        /\ OpenAll(ls, SelectOpenings(c))
    BY <2>1, Zenon DEF VerifyDisclosure, IsDisclosure
  <2>3. b \in GoodBuilds /\ e \in GoodBuilds /\ c \in GoodBuilds
    BY <1>1, <2>2 DEF DisclosureInv, DirsGood
  <2> HIDE DEF s, b, e, c
  <2>4. SealsTyped /\ Good(b) /\ Good(e) /\ Good(c)
    BY <1>1, <2>3, GoodIs DEF DisclosureInv
  <2>5. /\ b.seal = s /\ s \in SealIds /\ e.seal \in SealIds /\ c.seal \in SealIds
        /\ Len(b.lines) = seals[s].count /\ Len(b.lines) \in Nat
    <3>1. b.seal = s
      BY <2>2, DocumentIs DEF CheckDisclosureParse
    <3>2. Len(b.lines) = seals[b.seal].count
      BY <2>4, GoodLines
    <3> QED
      BY <2>4, <3>1, <3>2 DEF Good, IsLines
  <2> DEFINE at(k) == Ascending(b.indices)[k]
             leaves == LeavesOf(RecordedHashes(b))
  <2>6. /\ Cardinality(b.indices) \in Nat /\ DOMAIN ls = 1..Cardinality(b.indices)
        /\ \A k \in 1..Cardinality(b.indices) :
              /\ at(k) \in 0..(Len(b.lines) - 1) /\ at(k) + 1 \in 1..seals[s].count
              /\ doc.disclosed[k].index = at(k) /\ doc.disclosed[k].auditPath = AuditPath(leaves, at(k))
    <3>1. Cardinality(b.indices) \in Nat /\ Cardinality(e.indices) \in Nat
          /\ Len(ls) = Cardinality(e.indices) /\ DOMAIN ls = 1..Cardinality(e.indices)
      BY <2>4, ShownLines
    <3>2. Len(doc.disclosed) = Cardinality(b.indices)
          /\ \A k \in 1..Cardinality(b.indices) :
               doc.disclosed[k].index = at(k) /\ doc.disclosed[k].auditPath = AuditPath(leaves, at(k))
      BY <3>1, DocumentLists
    <3>3. Len(ls) = Len(doc.disclosed)
      BY <2>2, Zenon DEF CheckDisclosureInclusion
    <3>4. \A k \in 1..Cardinality(b.indices) :
            at(k) \in 0..(Len(b.lines) - 1) /\ at(k) + 1 \in 1..Len(b.lines)
      BY <2>4, ShownLines
    <3> QED
      BY <2>5, <3>1, <3>2, <3>3, <3>4
  <2>7. ASSUME NEW k \in 1..Cardinality(b.indices)
        PROVE  ls[k].chainHash = seals[s].chain[at(k) + 1] /\ ls[k].payload = ls[k].payloadHash
    <3>1. Reaches(doc, doc.disclosed[k], ls[k].chainHash) /\ ls[k].payload = ls[k].payloadHash
      BY <2>2, <2>6, <2>7, Zenon DEF CheckDisclosureInclusion
    <3>2. VerifyInclusion(LeafHash(ls[k].chainHash), at(k), Len(b.lines), AuditPath(leaves, at(k)),
                          seals[b.seal].merkleRoot)
      BY <2>6, <3>1, DocumentIs DEF Reaches
    <3> HIDE DEF at, ls
    <3>3. at(k) \in 0..(Len(b.lines) - 1)
      BY <2>6
    <3> QED
      BY <2>4, <2>5, <3>1, <3>2, <3>3, ReachedIsRecorded
  <2>8. ASSUME NEW k \in DOMAIN ls
        PROVE  ls[k] = Line(s, [event |-> doc.disclosed[k].index + 1, spoilt |-> {}])
    <3> DEFINE j == Ascending(e.indices)[k]
               l == e.lines[j + 1]
    <3>1. k \in 1..Cardinality(e.indices) /\ k \in 1..Cardinality(b.indices)
      BY <2>4, <2>6, <2>8, ShownLines
    <3>2. l \in Entries /\ l.event = j + 1 /\ j + 1 \in 1..seals[e.seal].count /\ ls[k] = Line(e.seal, l)
      BY <2>4, <3>1, ShownInPlace
    <3>3. at(k) + 1 \in 1..seals[s].count /\ doc.disclosed[k].index = at(k)
      BY <2>6, <3>1
    <3>4. ls[k].chainHash = seals[s].chain[at(k) + 1] /\ ls[k].payload = ls[k].payloadHash
      BY <2>7, <3>1
    <3> HIDE DEF at, l, j, ls, doc
    <3>5. Line(e.seal, l) = Line(s, [event |-> at(k) + 1, spoilt |-> {}])
      BY <2>4, <2>5, <3>2, <3>3, <3>4, ShownIsSealed
    <3> QED
      BY <3>2, <3>3, <3>5
  <2>9. ASSUME NEW w \in doc.withheld
        PROVE  w.chainHash = seals[s].chain[w.index + 1]
    <3>1. w.index \in Withheld(b) /\ w.chainHash = RecordedHashes(b)[w.index + 1]
      BY <2>6, DocumentLists
    <3>2. w.index + 1 \in 1..Len(b.lines)
      BY <2>5, <3>1 DEF Withheld
    <3>3. RecordedHashes(b)[w.index + 1] = seals[b.seal].chain[w.index + 1]
      BY <2>4, <3>2, GoodLines
    <3> QED
      BY <2>5, <3>1, <3>3
  <2>10. ASSUME NEW o \in SelectOpenings(c)
         PROVE  o \in Openings(s)
    <3>1. o \in Openings(c.seal)
      BY DEF SelectOpenings
    <3>2. PICK k \in DOMAIN ls : /\ ls[k].id = o.eventId /\ ls[k].payload # Spoilt
                                 /\ o.path \in DOMAIN ls[k].payload.held
                                 /\ ls[k].payload.held[o.path] = Commitment(o.salt, o.path, o.value)
      BY <2>2, Zenon DEF OpenAll, Opens
    <3>3. at(k) + 1 \in 1..seals[s].count /\ doc.disclosed[k].index = at(k)
      BY <2>6
    <3> DEFINE m == [event |-> at(k) + 1, spoilt |-> {}]
    <3>4. ls[k] = Line(s, m)
      BY <2>8, <3>3
    <3>5. m.event = at(k) + 1 /\ "payload" \notin m.spoilt
      OBVIOUS
    <3> HIDE DEF m, at, ls, doc
    <3>6. ls[k].payload = Payload(seals[s].seed, at(k) + 1)
      BY <3>4, <3>5, LineIs
    <3> QED
      BY <2>4, <2>5, <3>1, <3>2, <3>3, <3>6, OpensSealed
  <2>11. \A k \in DOMAIN ls : ls[k] = Line(s, [event |-> doc.disclosed[k].index + 1, spoilt |-> {}])
    BY <2>8
  <2>12. \A w \in doc.withheld : w.chainHash = seals[s].chain[w.index + 1]
    BY <2>9
  <2>13. SelectOpenings(c) \subseteq Openings(s)
    BY <2>10
  <2> QED
    BY <2>11, <2>12, <2>13 DEF s, b, e, c
<1> QED
  BY <1>1, DisclosureInvariance, PTL

---------------------------------------------------------------------------
(* A finished run over an undamaged bundle. *)

LEMMA WithheldLists ==
    ASSUME NEW b
    PROVE  /\ \A w \in Document(b).withheld :
                /\ w.index \in Withheld(b) /\ w.chainHash = RecordedHashes(b)[w.index + 1]
                /\ w.auditPath = AuditPath(LeavesOf(RecordedHashes(b)), w.index)
           /\ \A i \in Withheld(b) : \E w \in Document(b).withheld : w.index = i
<1> DEFINE leaves == LeavesOf(RecordedHashes(b))
           At(i) == [index |-> i, chainHash |-> RecordedHashes(b)[i + 1],
                     auditPath |-> AuditPath(leaves, i)]
<1>1. Document(b).withheld = {At(i) : i \in Withheld(b)}
  BY DEF Document
<1>2. \A i : /\ At(i).index = i /\ At(i).chainHash = RecordedHashes(b)[i + 1]
             /\ At(i).auditPath = AuditPath(leaves, i)
  OBVIOUS
<1> HIDE DEF At, leaves
<1>3. \A w \in Document(b).withheld :
        /\ w.index \in Withheld(b) /\ w.chainHash = RecordedHashes(b)[w.index + 1]
        /\ w.auditPath = AuditPath(leaves, w.index)
  BY <1>1, <1>2
<1>4. \A i \in Withheld(b) : \E w \in Document(b).withheld : w.index = i
  BY <1>1, <1>2
<1> QED
  BY <1>3, <1>4 DEF leaves

LEMMA ChosenAre ==
    ASSUME SealsTyped, NEW b, Good(b)
    PROVE  /\ b.indices \in SUBSET Nat /\ IsFiniteSet(b.indices)
           /\ b.indices \subseteq 0..(Len(b.lines) - 1)
           /\ Len(b.lines) \in Nat \ {0} /\ Len(b.lines) = seals[b.seal].count
           /\ Cardinality(b.indices) \in Nat
<1>1. Len(b.lines) \in Nat \ {0} /\ Len(b.lines) = seals[b.seal].count
  <2>1. Len(b.lines) = seals[b.seal].count /\ b.seal \in SealIds
    BY GoodLines DEF Good
  <2> QED
    BY <2>1, SealedLeaves
<1>2. b.indices \subseteq 0..(Len(b.lines) - 1)
  BY DEF Good, MayBuild
<1>3. IsFiniteSet(0..(Len(b.lines) - 1))
  BY <1>1, FS_Interval
<1>4. IsFiniteSet(b.indices) /\ Cardinality(b.indices) \in Nat
  BY <1>2, <1>3, FS_Subset, FS_CardinalityType
<1> QED
  BY <1>1, <1>2, <1>4

(* A document names every index of the seal once. *)
LEMMA DocumentParses ==
    ASSUME SealsTyped, NEW b, Good(b)
    PROVE  CheckDisclosureParse(Document(b), b.seal)
<1> DEFINE doc == Document(b)
           S == b.indices
           n == Len(b.lines)
           disclosed == {doc.disclosed[k].index : k \in DOMAIN doc.disclosed}
           withheld == {w.index : w \in doc.withheld}
<1>1. S \in SUBSET Nat /\ IsFiniteSet(S) /\ S \subseteq 0..(n - 1) /\ n = seals[b.seal].count
      /\ Cardinality(S) \in Nat
  BY ChosenAre
<1>2. doc.bundleId = b.seal /\ doc.merkleRoot = seals[b.seal].merkleRoot /\ doc.leafCount = n
  BY DocumentIs
<1>3. disclosed = S
  <2>1. DOMAIN doc.disclosed = 1..Cardinality(S)
    BY DEF Document
  <2>2. \A k \in 1..Cardinality(S) : doc.disclosed[k].index = Ascending(S)[k]
    BY <1>1, DocumentLists
  <2>3. \A k \in 1..Cardinality(S) : Ascending(S)[k] \in S
    BY <1>1, AscendingIs
  <2>4. \A i \in S : Before(S, i) + 1 \in 1..Cardinality(S) /\ Ascending(S)[Before(S, i) + 1] = i
    BY <1>1, AscendingIs, BeforeLess
  <2> HIDE DEF doc, S
  <2> QED
    BY <2>1, <2>2, <2>3, <2>4
<1>4. withheld = (0..(n - 1)) \ S
  <2>1. /\ \A w \in doc.withheld : w.index \in Withheld(b)
        /\ \A i \in Withheld(b) : \E w \in doc.withheld : w.index = i
    BY WithheldLists
  <2>2. Withheld(b) = (0..(n - 1)) \ S
    BY DEF Withheld
  <2> HIDE DEF doc, S, n
  <2> QED
    BY <2>1, <2>2
<1> HIDE DEF disclosed, withheld, doc
<1>5. disclosed \cap withheld = {} /\ disclosed \cup withheld = 0..(doc.leafCount - 1)
  BY <1>1, <1>2, <1>3, <1>4
<1> QED
  BY <1>1, <1>2, <1>5 DEF CheckDisclosureParse, disclosed, withheld, doc

(* The path a document gives for a place leads its chain hash to the root. *)
LEMMA DocumentReaches ==
    ASSUME SealsTyped, NEW b, Good(b), NEW i \in 0..(Len(b.lines) - 1)
    PROVE  VerifyInclusion(LeafHash(seals[b.seal].chain[i + 1]), i, Len(b.lines),
                           AuditPath(LeavesOf(RecordedHashes(b)), i), seals[b.seal].merkleRoot)
<1> DEFINE h == RecordedHashes(b)
           g == seals[b.seal].chain
           n == Len(b.lines)
           leaves == LeavesOf(h)
<1>1. b.seal \in SealIds /\ n \in Nat \ {0} /\ n = seals[b.seal].count /\ MerkleRoot(leaves) = seals[b.seal].merkleRoot
  BY ChosenAre DEF Good, MayBuild
<1>2. Len(h) = n /\ Len(g) = n /\ \A k \in 1..n : h[k] = g[k]
  BY <1>1, GoodLines, SealedLeaves
<1>3. leaves = LeavesOf(g)
  BY <1>1, <1>2 DEF LeavesOf
<1>4. AreLeaves(leaves) /\ DistinctLeaves(leaves) /\ Len(leaves) = n
      /\ \A k \in 1..n : leaves[k] = LeafHash(g[k])
  BY <1>1, <1>3, SealedLeaves
<1>5. i + 1 \in 1..n
  BY <1>1
<1> HIDE DEF leaves, g, h, n
<1>6. VerifyInclusion(LeafHash(g[i + 1]), i, n, AuditPath(leaves, i), MerkleRoot(leaves))
  <2>1. i \in 0..(n - 1)
    BY DEF n
  <2> QED
    BY <1>1, <1>4, <1>5, <2>1, InclusionExact
<1> QED
  BY <1>1, <1>6 DEF leaves, g, h, n

\* The places and lines a disclosure of undamaged lines shows.
ShowsLine(b, k) ==
    LET i == Ascending(b.indices)[k]
        ls == DisclosedLines(b)
        seed == seals[b.seal].seed
    IN  /\ i \in b.indices /\ i \in 0..(Len(b.lines) - 1)
        /\ Document(b).disclosed[k].index = i
        /\ Document(b).disclosed[k].eventId = EventId(seed, i + 1)
        /\ Document(b).disclosed[k].auditPath = AuditPath(LeavesOf(RecordedHashes(b)), i)
        /\ ls[k].id = EventId(seed, i + 1)
        /\ ls[k].payload = Payload(seed, i + 1) /\ ls[k].payloadHash = Payload(seed, i + 1)
        /\ ls[k].chainHash = seals[b.seal].chain[i + 1]

LEMMA LinesShown ==
    ASSUME SealsTyped, NEW b, Good(b), b.lines = SealedLines(seals[b.seal].count)
    PROVE  \A k \in 1..Cardinality(b.indices) : ShowsLine(b, k)
<1>1. SUFFICES ASSUME NEW k \in 1..Cardinality(b.indices) PROVE ShowsLine(b, k)
  OBVIOUS
<1>2. PICK i : i = Ascending(b.indices)[k]
  OBVIOUS
<1>3. /\ i \in b.indices /\ i \in Nat /\ i + 1 \in 1..seals[b.seal].count
      /\ b.lines[i + 1].event = i + 1
      /\ DisclosedLines(b)[k] = Line(b.seal, b.lines[i + 1])
      /\ DisclosedLines(b)[k].chainHash = seals[b.seal].chain[i + 1]
  BY <1>1, <1>2, ShownInPlace
<1>4. Cardinality(b.indices) \in Nat /\ b.indices \subseteq 0..(Len(b.lines) - 1)
  BY ChosenAre
<1>5. /\ Document(b).disclosed[k].index = i
      /\ Document(b).disclosed[k].eventId = Line(b.seal, b.lines[i + 1]).id
      /\ Document(b).disclosed[k].auditPath = AuditPath(LeavesOf(RecordedHashes(b)), i)
  BY <1>1, <1>2, <1>4, DocumentLists
<1>6. b.lines[i + 1].spoilt = {}
  BY <1>3 DEF SealedLines
<1>7. /\ DisclosedLines(b)[k].id = EventId(seals[b.seal].seed, i + 1)
      /\ Line(b.seal, b.lines[i + 1]).id = EventId(seals[b.seal].seed, i + 1)
      /\ DisclosedLines(b)[k].payload = Payload(seals[b.seal].seed, i + 1)
      /\ DisclosedLines(b)[k].payloadHash = Payload(seals[b.seal].seed, i + 1)
  BY <1>3, <1>6, LineIs
<1> QED
  BY <1>2, <1>3, <1>4, <1>5, <1>7 DEF ShowsLine

(* What a shown line is chained to is the sealed hash before it. *)
LEMMA PrecedingIs ==
    ASSUME SealsTyped, NEW b, Good(b), b.lines = SealedLines(seals[b.seal].count),
           NEW k \in 1..Cardinality(b.indices)
    PROVE  Preceding(Document(b), DisclosedLines(b), k) =
             IF Ascending(b.indices)[k] = 0 THEN Zero32
             ELSE seals[b.seal].chain[Ascending(b.indices)[k]]
<1> DEFINE S == b.indices
           doc == Document(b)
           ls == DisclosedLines(b)
           g == seals[b.seal].chain
<1>1. PICK i : i = Ascending(S)[k]
  OBVIOUS
<1>2. S \in SUBSET Nat /\ IsFiniteSet(S) /\ S \subseteq 0..(Len(b.lines) - 1) /\ Len(b.lines) \in Nat \ {0}
      /\ Cardinality(S) \in Nat
  BY ChosenAre
<1>3. i \in S /\ i \in Nat /\ i \in 0..(Len(b.lines) - 1) /\ doc.disclosed[k].index = i
  BY <1>1, <1>2, LinesShown DEF ShowsLine
<1> HIDE DEF g, doc, ls
<1>4. CASE i = 0
  BY <1>1, <1>3, <1>4 DEF Preceding, doc
<1>5. CASE i # 0 /\ k > 1 /\ doc.disclosed[k - 1].index = i - 1
  <2>1. k - 1 \in 1..Cardinality(S)
    BY <1>2, <1>5
  <2>2. ShowsLine(b, k - 1)
    BY <2>1, LinesShown
  <2>3. doc.disclosed[k - 1].index = Ascending(S)[k - 1]
        /\ ls[k - 1].chainHash = g[Ascending(S)[k - 1] + 1]
    BY <2>2 DEF ShowsLine, doc, ls, g
  <2>4. ls[k - 1].chainHash = g[i]
    BY <1>3, <1>5, <2>3
  <2>5. Preceding(doc, ls, k) = ls[k - 1].chainHash
    BY <1>3, <1>5, Zenon DEF Preceding
  <2> QED
    BY <1>1, <1>5, <2>4, <2>5 DEF doc, ls, g
<1>6. CASE i # 0 /\ ~ (k > 1 /\ doc.disclosed[k - 1].index = i - 1)
  <2>1. i - 1 \notin S
    <3>1. CASE k = 1
      BY <1>1, <1>2, <3>1, AscendingFirst
    <3>2. CASE k > 1
      <4>1. ShowsLine(b, k - 1)
        <5>1. k - 1 \in 1..Cardinality(S)
          BY <1>2, <3>2
        <5> QED
          BY <5>1, LinesShown
      <4>2. Ascending(S)[k - 1] # i - 1
        BY <1>6, <3>2, <4>1 DEF ShowsLine, doc
      <4> QED
        BY <1>1, <1>2, <3>2, <4>2, AscendingRises
    <3> QED
      BY <1>2, <3>1, <3>2
  <2>2. i - 1 \in Withheld(b)
    BY <1>2, <1>3, <1>6, <2>1 DEF Withheld
  <2> DEFINE w == CHOOSE w \in doc.withheld : w.index = i - 1
  <2>3. w \in doc.withheld /\ w.index = i - 1
    BY <2>2, WithheldLists DEF doc
  <2>4. Preceding(doc, ls, k) = w.chainHash
    BY <1>3, <1>6, Zenon DEF Preceding
  <2> HIDE DEF w
  <2>5. w.chainHash = RecordedHashes(b)[(i - 1) + 1]
    BY <2>3, WithheldLists DEF doc
  <2>6. i \in 1..Len(b.lines) /\ (i - 1) + 1 = i
    BY <1>2, <1>3, <1>6
  <2>7. w.chainHash = g[i]
    BY <2>5, <2>6, GoodLines DEF g
  <2> QED
    BY <1>1, <1>6, <2>4, <2>7 DEF doc, ls, g
<1> QED
  BY <1>4, <1>5, <1>6

LEMMA DocumentIncludes ==
    ASSUME SealsTyped, NEW b, Good(b), b.lines = SealedLines(seals[b.seal].count)
    PROVE  CheckDisclosureInclusion(Document(b), DisclosedLines(b))
<1> DEFINE S == b.indices
           doc == Document(b)
           ls == DisclosedLines(b)
           seed == seals[b.seal].seed
           g == seals[b.seal].chain
<1>1. /\ S \in SUBSET Nat /\ IsFiniteSet(S) /\ Cardinality(S) \in Nat
      /\ Len(b.lines) \in Nat \ {0} /\ Len(b.lines) = seals[b.seal].count /\ b.seal \in SealIds
  BY ChosenAre DEF Good
<1>2. Len(ls) = Len(doc.disclosed) /\ DOMAIN ls = 1..Cardinality(S)
  BY <1>1, ShownLines, DocumentLists
<1>3. doc.leafCount = Len(b.lines) /\ doc.merkleRoot = seals[b.seal].merkleRoot
  BY DocumentIs
<1>4. ASSUME NEW w \in doc.withheld
      PROVE  Reaches(doc, w, w.chainHash)
  <2>1. /\ w.index \in Withheld(b) /\ w.chainHash = RecordedHashes(b)[w.index + 1]
        /\ w.auditPath = AuditPath(LeavesOf(RecordedHashes(b)), w.index)
    BY WithheldLists
  <2>2. w.index \in 0..(Len(b.lines) - 1) /\ w.index + 1 \in 1..Len(b.lines)
    BY <1>1, <2>1 DEF Withheld
  <2>3. w.chainHash = g[w.index + 1]
    BY <2>1, <2>2, GoodLines
  <2> QED
    BY <1>3, <2>1, <2>2, <2>3, DocumentReaches DEF Reaches
<1>5. ASSUME NEW k \in 1..Cardinality(S)
      PROVE  /\ ls[k].id = doc.disclosed[k].eventId
             /\ ls[k].payload = ls[k].payloadHash
             /\ Reaches(doc, doc.disclosed[k], ls[k].chainHash)
  <2>1. ShowsLine(b, k)
    BY LinesShown
  <2>2. PICK i : i = Ascending(S)[k]
    OBVIOUS
  <2>3. /\ i \in 0..(Len(b.lines) - 1) /\ doc.disclosed[k].index = i
        /\ doc.disclosed[k].auditPath = AuditPath(LeavesOf(RecordedHashes(b)), i)
        /\ ls[k].chainHash = g[i + 1]
    BY <2>1, <2>2 DEF ShowsLine
  <2>4. Reaches(doc, doc.disclosed[k], ls[k].chainHash)
    BY <1>3, <2>3, DocumentReaches DEF Reaches
  <2> QED
    BY <2>1, <2>4 DEF ShowsLine
<1>6. ASSUME NEW k \in 1..Cardinality(S), k > 1
      PROVE  doc.disclosed[k - 1].index < doc.disclosed[k].index
  <2>1. k - 1 \in 1..Cardinality(S) /\ Ascending(S)[k - 1] < Ascending(S)[k]
    BY <1>1, <1>6, AscendingRises
  <2>2. ShowsLine(b, k) /\ ShowsLine(b, k - 1)
    BY <2>1, LinesShown
  <2> QED
    BY <2>1, <2>2 DEF ShowsLine
<1>7. ASSUME NEW k \in 1..Cardinality(S)
      PROVE  ls[k].chainHash = ChainHash(Preceding(doc, ls, k), Link(ls[k].id, ls[k].payloadHash))
  <2>1. ShowsLine(b, k)
    BY LinesShown
  <2>2. PICK i : i = Ascending(S)[k]
    OBVIOUS
  <2>3. /\ i \in 0..(Len(b.lines) - 1) /\ ls[k].chainHash = g[i + 1]
        /\ ls[k].id = EventId(seed, i + 1) /\ ls[k].payloadHash = Payload(seed, i + 1)
    BY <2>1, <2>2 DEF ShowsLine
  <2>4. Preceding(doc, ls, k) = IF i = 0 THEN Zero32 ELSE g[i]
    BY <2>2, PrecedingIs
  <2>5. i + 1 \in 1..seals[b.seal].count /\ (i + 1 = 1 <=> i = 0) /\ (i + 1) - 1 = i
    BY <1>1, <2>3
  <2>6. g[i + 1] = ChainHash(IF i + 1 = 1 THEN Zero32 ELSE g[(i + 1) - 1], LinkOf(seed, i + 1))
    BY <1>1, <2>5, ChainGrows
  <2>7. Link(ls[k].id, ls[k].payloadHash) = LinkOf(seed, i + 1)
    BY <2>3 DEF LinkOf
  <2> HIDE DEF g, ls, doc, seed
  <2> QED
    BY <2>3, <2>4, <2>5, <2>6, <2>7
<1> HIDE DEF ls, doc
<1>8. CheckDisclosureInclusion(doc, ls)
  BY <1>2, <1>4, <1>5, <1>6, <1>7 DEF CheckDisclosureInclusion
<1> QED
  BY <1>8 DEF ls, doc

LEMMA DocumentOpens ==
    ASSUME SealsTyped, NEW b, Good(b), b.lines = SealedLines(seals[b.seal].count)
    PROVE  OpenAll(DisclosedLines(b), SelectOpenings(b))
<1> DEFINE S == b.indices
           ls == DisclosedLines(b)
           seed == seals[b.seal].seed
           n == seals[b.seal].count
<1>1. SUFFICES ASSUME NEW o \in SelectOpenings(b) PROVE Opens(o, ls)
  BY DEF OpenAll
<1>2. S \in SUBSET Nat /\ IsFiniteSet(S) /\ b.seal \in SealIds
  BY ChosenAre DEF Good
<1>3. PICK i \in S : o.eventId = EventId(seed, i + 1)
  BY <1>1, OpeningsChosen
<1>4. PICK e \in 1..n : o \in {[eventId |-> EventId(seed, e), path |-> f,
                                salt |-> Salt(seed, e, f), value |-> FieldValue(e, f)] : f \in FieldsOf[e]}
  BY <1>1 DEF SelectOpenings, Openings
<1>5. PICK f \in FieldsOf[e] : o = [eventId |-> EventId(seed, e), path |-> f,
                                    salt |-> Salt(seed, e, f), value |-> FieldValue(e, f)]
  BY <1>4
<1>6. o.eventId = EventId(seed, e) /\ o.path = f /\ o.salt = Salt(seed, e, f) /\ o.value = FieldValue(e, f)
  BY <1>5
<1>7. e = i + 1
  <2>1. EventId(seed, e)[1] = e /\ EventId(seed, i + 1)[1] = i + 1
    BY DEF EventId
  <2> QED
    BY <1>3, <1>6, <2>1
<1>8. PICK k \in 1..Cardinality(S) : Ascending(S)[k] = i
  <2>1. Before(S, i) + 1 \in 1..Cardinality(S) /\ Ascending(S)[Before(S, i) + 1] = i
    BY <1>2, AscendingIs, BeforeLess
  <2> QED
    BY <2>1
<1>9. ls[k].id = EventId(seed, e) /\ ls[k].payload = Payload(seed, e) /\ k \in DOMAIN ls
  <2>1. ShowsLine(b, k)
    BY LinesShown
  <2>2. DOMAIN ls = 1..Cardinality(S)
    BY ShownLines
  <2> QED
    BY <1>7, <1>8, <2>1, <2>2 DEF ShowsLine
<1>10. Payload(seed, e) # Spoilt
  <2>1. IsSealing(seals[b.seal])
    BY <1>2, SealIs
  <2>2. e \in DOMAIN FieldsOf /\ seed \in 0..MaxSeals
    BY <2>1, DisclosureConstants DEF IsSealing
  <2> QED
    BY <2>2, SpoiltIsNothing
<1>11. f \in DOMAIN Payload(seed, e).held
       /\ Payload(seed, e).held[f] = Commitment(Salt(seed, e, f), f, FieldValue(e, f))
  BY DEF Payload
<1> HIDE DEF ls
<1> QED
  BY <1>6, <1>9, <1>10, <1>11 DEF Opens

\* A run that reports success over an undamaged bundle leaves a disclosure that
\* verifies, whatever the runs before it, finished or not, left in the
\* directory, short of a token or a carried file of another seal (disclosure.ts
\* buildDisclosure against check_disclosure.go).
THEOREM FinishedIsVerified == Spec => []FinishedVerifies
<1>1. ASSUME DisclosureInv, FiledInv PROVE FinishedVerifies
  <2>1. SUFFICES ASSUME NEW d \in Dirs, result[d] # None,
                        result[d].lines = SealedLines(seals[result[d].seal].count),
                        \A f \in Files : dirs[d].carried[f] \in {None, result[d].seal},
                        dirs[d].attestations.token \in {None, result[d].seal}
                 PROVE  VerifyDisclosure(d)
    BY DEF FinishedVerifies
  <2> DEFINE b == result[d]
             s == b.seal
  <2>2. b \in GoodBuilds /\ dirs[d].events = b /\ dirs[d].commitments = b
    BY <1>1, <2>1 DEF DisclosureInv, ResultsGood
  <2>3. SealsTyped /\ Good(b)
    BY <1>1, <2>2, GoodIs DEF DisclosureInv
  <2>4. /\ IsFiled(d) /\ dirs[d].document = b /\ IsAttested(d, s)
    BY <1>1, <2>1 DEF FiledInv, IsFiled
  <2>5. dirs[d].manifest = s
    BY <2>4 DEF IsAttested
  <2> HIDE DEF b
  <2>6. CheckAttestations(d)
    <3>1. /\ dirs[d].attestations = [signatures |-> dirs[d].attestations.signatures,
                                     token |-> dirs[d].attestations.token]
          /\ dirs[d].attestations.token \in Dated \cup {None}
          /\ dirs[d].attestations.token \in {None, s}
          /\ dirs[d].attestations.signatures = s
          /\ s \in Dated => dirs[d].attestations.token = s
      BY <2>1, <2>4 DEF IsFiled, IsAttested, b
    <3> HIDE DEF s
    <3>2. dirs[d].attestations.token = IF s \in Dated THEN s ELSE None
      BY <3>1
    <3> QED
      BY <2>5, <3>1, <3>2 DEF CheckAttestations
  <2>7. CheckDisclosureFiles(d)
    BY <2>1, <2>4, <2>5 DEF CheckDisclosureFiles, IsFiled, b
  <2>8. /\ CheckDisclosureParse(Document(b), s)
        /\ CheckDisclosureInclusion(Document(b), DisclosedLines(b))
        /\ OpenAll(DisclosedLines(b), SelectOpenings(b))
    BY <2>1, <2>3, DocumentParses, DocumentIncludes, DocumentOpens DEF b
  <2>9. IsDisclosure(d)
    BY <2>1, <2>4 DEF IsDisclosure, b
  <2>10. dirs[d].events = b /\ dirs[d].commitments = b
    BY <2>2 DEF b
  <2> QED
    BY <2>4, <2>5, <2>6, <2>7, <2>8, <2>9, <2>10 DEF VerifyDisclosure
<1> QED
  BY <1>1, DisclosureInvariance, FiledInvariance, PTL

---------------------------------------------------------------------------
(* Damage to a sealed bundle. *)

(* The lines as they are read, and the chain over them. *)
LEMMA ReplayedIs ==
    ASSUME NEW s \in SealIds, NEW n, IsLines(lines[s], n)
    PROVE  LET ls == LinesOf(s, lines[s])
           IN  /\ DOMAIN ls = 1..Len(lines[s]) /\ Len(ls) = Len(lines[s]) /\ Len(ls) \in Nat
               /\ \A k \in 1..Len(ls) : ls[k] = Line(s, lines[s][k])
               /\ Len(Replayed(ls)) = Len(ls) /\ DOMAIN Replayed(ls) = 1..Len(ls)
               /\ Replayed(ls) = ChainHashes([k \in 1..Len(ls) |-> LinkOf(seals[s].seed, lines[s][k].event)])
<1> DEFINE ls == LinesOf(s, lines[s])
           T == {LinkOf(seals[s].seed, lines[s][k].event) : k \in 1..Len(lines[s])}
           links == [k \in 1..Len(ls) |-> LinkOf(seals[s].seed, lines[s][k].event)]
<1>1. Len(lines[s]) \in Nat /\ DOMAIN lines[s] = 1..Len(lines[s])
  BY DEF IsLines
<1>2. /\ DOMAIN ls = 1..Len(lines[s]) /\ Len(ls) = Len(lines[s]) /\ Len(ls) \in Nat
      /\ \A k \in 1..Len(ls) : ls[k] = Line(s, lines[s][k])
  BY <1>1 DEF LinesOf
<1> HIDE DEF ls
<1>3. links \in Seq(T) /\ Len(links) = Len(ls)
  BY <1>2
<1>4. \A k \in 1..Len(ls) : Link(ls[k].id, ls[k].payloadHash) = LinkOf(seals[s].seed, lines[s][k].event)
  <2> SUFFICES ASSUME NEW k \in 1..Len(ls)
               PROVE  Link(ls[k].id, ls[k].payloadHash) = LinkOf(seals[s].seed, lines[s][k].event)
    OBVIOUS
  <2>1. /\ ls[k].id = EventId(seals[s].seed, lines[s][k].event)
        /\ ls[k].payloadHash = Payload(seals[s].seed, lines[s][k].event)
    BY <1>2, LineIs
  <2> QED
    BY <2>1 DEF LinkOf
<1>5. [k \in DOMAIN ls |-> Link(ls[k].id, ls[k].payloadHash)] = links
  BY <1>2, <1>4
<1> HIDE DEF links, T
<1>6. Replayed(ls) = ChainHashes(links)
  BY <1>5 DEF Replayed
<1>7. Len(ChainHashes(links)) = Len(ls) /\ DOMAIN ChainHashes(links) = 1..Len(ls)
  BY <1>3, ChainIs
<1> QED
  BY <1>2, <1>6, <1>7 DEF ls, links

(* The full bundle verifies as it was sealed. *)
LEMMA UndamagedVerifies ==
    ASSUME SealsTyped, NEW s \in SealIds, lines[s] = SealedLines(seals[s].count)
    PROVE  VerifyBundle(s)
<1> DEFINE n == seals[s].count
           seed == seals[s].seed
           ls == LinesOf(s, lines[s])
           h == Replayed(ls)
<1>1. IsSealing(seals[s]) /\ n \in 1..Len(FieldsOf) /\ n \in Nat \ {0} /\ DOMAIN FieldsOf = 1..Len(FieldsOf)
  <2>1. IsSealing(seals[s])
    BY SealIs
  <2> QED
    BY <2>1, DisclosureConstants DEF IsSealing
<1>2. /\ Len(lines[s]) = n /\ \A k \in 1..n : lines[s][k].event = k /\ lines[s][k].spoilt = {}
  BY <1>1 DEF SealedLines
<1>3. IsLines(lines[s], n)
  BY DEF SealsTyped, SealIds
<1>4. /\ DOMAIN ls = 1..n /\ Len(ls) = n /\ \A k \in 1..n : ls[k] = Line(s, lines[s][k])
      /\ h = ChainHashes([k \in 1..n |-> LinkOf(seed, lines[s][k].event)])
  <2>1. /\ DOMAIN ls = 1..Len(lines[s]) /\ Len(ls) = Len(lines[s])
        /\ \A k \in 1..Len(ls) : ls[k] = Line(s, lines[s][k])
        /\ h = ChainHashes([k \in 1..Len(ls) |-> LinkOf(seed, lines[s][k].event)])
    BY <1>3, ReplayedIs
  <2> HIDE DEF ls, h, seed, n
  <2>2. Len(ls) = n
    BY <1>2, <2>1
  <2> QED
    BY <2>1, <2>2
<1>5. h = seals[s].chain
  <2>1. [k \in 1..n |-> LinkOf(seed, lines[s][k].event)] = [k \in 1..n |-> LinkOf(seed, k)]
    BY <1>2
  <2> QED
    BY <1>4, <2>1, SealChain
<1> HIDE DEF ls, h
<1>6. \A k \in 1..n : /\ ls[k].id = EventId(seed, k) /\ ls[k].order = k
                      /\ ls[k].payload = Payload(seed, k) /\ ls[k].payloadHash = Payload(seed, k)
                      /\ ls[k].chainHash = seals[s].chain[k]
  BY <1>2, <1>4, LineIs
<1>7. ReplayChain(ls, seals[s])
  <2>1. ls # << >> /\ InOrder(ls)
    <3>1. \A k \in 2..n : k - 1 \in 1..n /\ k \in 1..n /\ k - 1 <= k
      BY <1>1
    <3>2. \A k \in 2..n : ls[k - 1].order <= ls[k].order
      BY <1>6, <3>1
    <3>3. Len(ls) # 0
      BY <1>1, <1>4
    <3> QED
      BY <1>4, <3>2, <3>3 DEF InOrder
  <2>2. \A k \in DOMAIN ls : ls[k].payload = ls[k].payloadHash /\ ls[k].chainHash = Replayed(ls)[k]
    <3>1. Replayed(ls) = seals[s].chain
      BY <1>5 DEF h
    <3>2. ASSUME NEW k \in 1..n
          PROVE  ls[k].payload = ls[k].payloadHash /\ ls[k].chainHash = seals[s].chain[k]
      BY <1>6
    <3> QED
      BY <1>4, <3>1, <3>2
  <2>3. Last(Replayed(ls)) = Last(seals[s].chain)
    BY <1>5 DEF h
  <2> QED
    BY <2>1, <2>2, <2>3 DEF ReplayChain
<1>8. CheckMerkleRoot(ls, seals[s])
  BY <1>1, <1>5 DEF CheckMerkleRoot, IsSealing, h
<1>9. OpenAll(ls, Openings(s))
  <2>1. SUFFICES ASSUME NEW o \in Openings(s) PROVE Opens(o, ls)
    BY DEF OpenAll
  <2>2. PICK i \in 1..n : o \in {[eventId |-> EventId(seed, i), path |-> f,
                                  salt |-> Salt(seed, i, f), value |-> FieldValue(i, f)] : f \in FieldsOf[i]}
    BY <2>1 DEF Openings
  <2>3. PICK f \in FieldsOf[i] : o = [eventId |-> EventId(seed, i), path |-> f,
                                      salt |-> Salt(seed, i, f), value |-> FieldValue(i, f)]
    BY <2>2
  <2>4. o.eventId = EventId(seed, i) /\ o.path = f /\ o.salt = Salt(seed, i, f) /\ o.value = FieldValue(i, f)
    BY <2>3
  <2>5. Payload(seed, i).held = [g \in FieldsOf[i] |-> Commitment(Salt(seed, i, g), g, FieldValue(i, g))]
    BY DEF Payload
  <2>6. Payload(seed, i) # Spoilt
    BY <1>1, <2>2, SpoiltIsNothing DEF IsSealing
  <2>7. ls[i].id = EventId(seed, i) /\ ls[i].payload = Payload(seed, i) /\ i \in DOMAIN ls
    BY <1>4, <1>6, <2>2
  <2>8. f \in DOMAIN Payload(seed, i).held
        /\ Payload(seed, i).held[f] = Commitment(Salt(seed, i, f), f, FieldValue(i, f))
    BY <2>3, <2>5
  <2> QED
    BY <2>4, <2>6, <2>7, <2>8 DEF Opens
<1> QED
  BY <1>7, <1>8, <1>9 DEF VerifyBundle, ls

(* A full bundle that verifies is as it was sealed. *)
LEMMA VerifiedUndamaged ==
    ASSUME SealsTyped, NEW s \in SealIds, VerifyBundle(s)
    PROVE  lines[s] = SealedLines(seals[s].count)
<1> DEFINE n == seals[s].count
           seed == seals[s].seed
           ls == LinesOf(s, lines[s])
           h == Replayed(ls)
<1>1. IsSealing(seals[s]) /\ n \in 1..Len(FieldsOf) /\ n \in Nat \ {0} /\ DOMAIN FieldsOf = 1..Len(FieldsOf)
  <2>1. IsSealing(seals[s])
    BY SealIs
  <2> QED
    BY <2>1, DisclosureConstants DEF IsSealing
<1>2. IsLines(lines[s], n)
  BY DEF SealsTyped, SealIds
<1>3. /\ Len(ls) = Len(lines[s]) /\ DOMAIN ls = 1..Len(ls) /\ Len(ls) \in Nat /\ Len(h) = Len(ls)
      /\ \A k \in 1..Len(ls) : ls[k] = Line(s, lines[s][k])
  BY <1>2, ReplayedIs
<1>4. /\ \A k \in DOMAIN ls : ls[k].payload = ls[k].payloadHash /\ ls[k].chainHash = h[k]
      /\ MerkleRoot(LeavesOf(h)) = seals[s].merkleRoot
  BY DEF VerifyBundle, ReplayChain, CheckMerkleRoot
<1> HIDE DEF ls, h
<1>5. Len(h) = n /\ \A k \in 1..n : h[k] = seals[s].chain[k]
  <2>1. /\ Len(h) \in Nat /\ Len(seals[s].chain) = n
        /\ MerkleRoot(LeavesOf(h)) = MerkleRoot(LeavesOf(seals[s].chain))
    BY <1>1, <1>3, <1>4 DEF IsSealing
  <2> QED
    BY <1>1, <2>1, RootBinds
<1>6. ASSUME NEW k \in 1..n
      PROVE  lines[s][k] = [event |-> k, spoilt |-> {}]
  <2> DEFINE l == lines[s][k]
  <2>1. k \in 1..Len(lines[s]) /\ k \in DOMAIN ls
    BY <1>3, <1>5
  <2>2. l \in Entries /\ l.event \in 1..n
    BY <1>2, <2>1 DEF IsLines
  <2>3. Line(s, l).chainHash = seals[s].chain[k] /\ Line(s, l).payload = Line(s, l).payloadHash
    BY <1>3, <1>4, <1>5, <2>1
  <2> HIDE DEF l
  <2>4. l.event = k /\ "chainHash" \notin l.spoilt
    BY <2>2, <2>3, LineInPlace
  <2>5. Payload(seed, k) # Spoilt
    BY <1>1, SpoiltIsNothing DEF IsSealing
  <2>6. "payload" \notin l.spoilt
    BY <2>3, <2>4, <2>5, LineIs
  <2>7. l = [event |-> l.event, spoilt |-> l.spoilt] /\ l.spoilt \subseteq {"payload", "chainHash"}
    BY <2>2 DEF Entries
  <2>8. l.spoilt = {}
    BY <2>4, <2>6, <2>7
  <2> QED
    BY <2>4, <2>7, <2>8 DEF l
<1>7. lines[s] = [k \in 1..n |-> lines[s][k]]
  <2>1. lines[s] \in Seq(Entries) /\ Len(lines[s]) = n
    BY <1>2, <1>3, <1>5 DEF IsLines
  <2>2. lines[s] = [k \in 1..Len(lines[s]) |-> lines[s][k]]
    BY <2>1
  <2> QED
    BY <2>1, <2>2
<1> QED
  BY <1>6, <1>7 DEF SealedLines

\* A full bundle verifies while its lines stand as they were sealed, and not
\* once one is lost, exchanged or changed (check_chain.go, check_merkle.go).
THEOREM DamageIsShown == Spec => []DamageShows
<1>1. ASSUME DisclosureInv PROVE DamageShows
  BY <1>1, UndamagedVerifies, VerifiedUndamaged DEF DisclosureInv, DamageShows
<1> QED
  BY <1>1, DisclosureInvariance, PTL

---------------------------------------------------------------------------
(* Disclosures of one session. *)

(* Disclosures that verify are found consistent only if the one seal        *)
(* extends the other: the later one names the earlier one's root, and the   *)
(* build that wrote it had checked that root over its own first lines.      *)
LEMMA ConsistentIsPrefix ==
    ASSUME DisclosureInv, NEW e \in Dirs, NEW l \in Dirs,
           VerifyDisclosure(e), VerifyDisclosure(l), Consistent(e, l)
    PROVE  IsPrefix(seals[dirs[e].manifest].chain, seals[dirs[l].manifest].chain)
<1> DEFINE b == dirs[e].document
           c == dirs[l].document
           s == dirs[e].manifest
           t == dirs[l].manifest
           g == seals[s].chain
           h == seals[t].chain
<1>1. b # None /\ c # None /\ CheckDisclosureParse(Document(b), s) /\ CheckDisclosureParse(Document(c), t)
  BY Zenon DEF VerifyDisclosure, IsDisclosure
<1>2. SealsTyped /\ Good(b) /\ Good(c)
  <2>1. b \in GoodBuilds /\ c \in GoodBuilds
    BY <1>1 DEF DisclosureInv, DirsGood
  <2> QED
    BY <2>1, GoodIs DEF DisclosureInv
<1>3. TreeConsistency(Document(b), Document(c))
  BY Zenon DEF Consistent
<1> HIDE DEF b, c, s, t
<1>4. b.seal = s /\ c.seal = t
  BY <1>1, DocumentIs DEF CheckDisclosureParse
<1>5. s \in SealIds /\ t \in SealIds /\ IsSealing(seals[s]) /\ IsSealing(seals[t])
  BY <1>2, <1>4, SealIs DEF Good
<1>6. /\ Len(g) = seals[s].count /\ Len(h) = seals[t].count /\ Len(g) \in Nat /\ Len(h) \in Nat
      /\ DOMAIN g = 1..Len(g) /\ DOMAIN h = 1..Len(h)
      /\ MerkleRoot(LeavesOf(g)) = seals[s].merkleRoot /\ MerkleRoot(LeavesOf(h)) = seals[t].merkleRoot
  BY <1>5 DEF IsSealing
<1>7. Len(b.lines) = Len(g) /\ Len(c.lines) = Len(h)
  BY <1>2, <1>4, <1>6, GoodLines
<1>8. Len(g) <= Len(h) /\ \A i \in 1..Len(g) : g[i] = h[i]
  <2>1. CASE Len(g) = Len(h)
    <3>1. seals[s].merkleRoot = seals[t].merkleRoot
      BY <1>3, <1>4, <1>7, <2>1, DocumentIs DEF TreeConsistency
    <3> QED
      BY <1>6, <2>1, <3>1, RootBinds
  <2>2. CASE Len(g) # Len(h)
    <3> DEFINE r == RecordedHashes(c)
               m == seals[c.earlier].count
    <3>1. /\ Len(g) <= Len(h) /\ BuildConsistency(c) # None
          /\ BuildConsistency(c).count = Len(g) /\ BuildConsistency(c).root = seals[s].merkleRoot
      BY <1>3, <1>4, <1>7, <2>2, DocumentIs DEF TreeConsistency
    <3>2. /\ c.earlier # None /\ m = Len(g) /\ seals[c.earlier].merkleRoot = seals[s].merkleRoot
      BY <3>1 DEF BuildConsistency
    <3>3. MerkleRoot(LeavesOf(SubSeq(r, 1, m))) = seals[s].merkleRoot
      BY <1>2, <3>2 DEF Good, MayBuild, SharesPrefix
    <3>4. Len(r) = Len(h) /\ \A k \in 1..Len(h) : r[k] = h[k]
      BY <1>2, <1>4, <1>7, GoodLines
    <3> HIDE DEF r, m
    <3>5. m \in Nat /\ m = Len(g)
      BY <1>6, <3>2
    <3>6. Len(SubSeq(r, 1, m)) = m /\ \A i \in 1..m : SubSeq(r, 1, m)[i] = r[i]
      BY <3>5, FirstOnes
    <3>7. \A i \in 1..m : SubSeq(r, 1, m)[i] = g[i]
      <4> DEFINE q == SubSeq(r, 1, m)
      <4>1. MerkleRoot(LeavesOf(q)) = MerkleRoot(LeavesOf(g)) /\ Len(q) \in Nat /\ Len(q) = m
        BY <1>6, <3>3, <3>5, <3>6
      <4> HIDE DEF q, g
      <4>2. \A i \in 1..Len(q) : q[i] = g[i]
        BY <1>6, <4>1, RootBinds
      <4> QED
        BY <4>1, <4>2 DEF q
    <3> QED
      BY <1>6, <3>1, <3>2, <3>4, <3>6, <3>7
  <2> QED
    BY <2>1, <2>2
<1>9. IsPrefix(g, h)
  <2> HIDE DEF g, h
  <2> QED
    BY <1>6, <1>8, PrefixIs
<1> QED
  BY <1>9 DEF s, t

(* What a document says of the seal it was made to be consistent with. *)
LEMMA EntryIsThere ==
    ASSUME SealsTyped, NEW c, Good(c), c.earlier \in SealIds
    PROVE  /\ c.earlier # None /\ BuildConsistency(c) # None
           /\ BuildConsistency(c).count = seals[c.earlier].count
           /\ BuildConsistency(c).root = seals[c.earlier].merkleRoot
           /\ BuildConsistency(c).proof =
                ConsistencyProof(LeavesOf(seals[c.seal].chain), seals[c.earlier].count)
<1> DEFINE h == RecordedHashes(c)
           g == seals[c.seal].chain
           proof == ConsistencyProof(LeavesOf(g), seals[c.earlier].count)
<1>1. c.earlier \in 1..MaxSeals /\ c.seal \in SealIds
  <2>1. c.earlier \in 1..Len(seals) /\ Len(seals) <= MaxSeals /\ MaxSeals \in Nat /\ Len(seals) \in Nat
    BY SealIs, DisclosureConstants DEF SealsTyped
  <2> QED
    BY <2>1 DEF Good
<1>2. c.earlier # None
  BY <1>1, NoneIsNothing
<1>3. LeavesOf(h) = LeavesOf(g)
  <2>1. Len(h) = seals[c.seal].count /\ \A k \in 1..Len(h) : h[k] = g[k]
    BY GoodLines
  <2>2. Len(g) = seals[c.seal].count
    BY <1>1, SealedLeaves
  <2> QED
    BY <2>1, <2>2 DEF LeavesOf
<1>4. BuildConsistency(c) = [count |-> seals[c.earlier].count, root |-> seals[c.earlier].merkleRoot,
                             proof |-> proof]
  BY <1>2, <1>3 DEF BuildConsistency
<1>5. BuildConsistency(c) # None
  <2>1. seals[c.earlier] \in Sealings /\ seals[c.seal] \in Sealings
    BY <1>1 DEF SealsTyped, SealIds
  <2>2. PICK m \in SealAt, u \in 0..MaxSeals : seals[c.earlier] = SealEvents(m, u)
    BY <2>1 DEF Sealings
  <2>3. PICK n \in SealAt, v \in 0..MaxSeals : seals[c.seal] = SealEvents(n, v)
    BY <2>1 DEF Sealings
  <2>4. seals[c.earlier].count = m
    BY <2>2 DEF SealEvents
  <2>5. BuildConsistency(c) = [count |-> m, root |-> SealEvents(m, u).merkleRoot,
                               proof |-> ConsistencyProof(LeavesOf(SealEvents(n, v).chain), m)]
    BY <1>4, <2>2, <2>3, <2>4
  <2> QED
    BY <2>5, NoneIsNothing
<1> HIDE DEF proof
<1>6. /\ BuildConsistency(c).count = seals[c.earlier].count
      /\ BuildConsistency(c).root = seals[c.earlier].merkleRoot
      /\ BuildConsistency(c).proof = proof
  BY <1>4
<1> QED
  BY <1>2, <1>5, <1>6 DEF proof

(* A build that may go on extends the seal it was made to be consistent with. *)
LEMMA EarlierExtends ==
    ASSUME SealsTyped, NEW c, Good(c), c.earlier \in SealIds
    PROVE  /\ seals[c.earlier].count <= seals[c.seal].count
           /\ \A i \in 1..seals[c.earlier].count :
                seals[c.earlier].chain[i] = seals[c.seal].chain[i]
<1> DEFINE g == seals[c.earlier].chain
           m == seals[c.earlier].count
           r == RecordedHashes(c)
           q == SubSeq(r, 1, m)
<1>1. /\ m \in Nat \ {0} /\ Len(g) = m /\ seals[c.earlier].merkleRoot = MerkleRoot(LeavesOf(g))
      /\ c.earlier # None
  <2>1. IsSealing(seals[c.earlier])
    BY SealIs
  <2> QED
    BY <2>1, EntryIsThere, SealedLeaves DEF IsSealing
<1>2. m \in 1..Len(c.lines) /\ MerkleRoot(LeavesOf(q)) = MerkleRoot(LeavesOf(g))
  BY <1>1 DEF Good, MayBuild, SharesPrefix
<1>3. /\ Len(c.lines) = seals[c.seal].count /\ Len(c.lines) \in Nat
      /\ \A k \in 1..Len(c.lines) : r[k] = seals[c.seal].chain[k]
  BY GoodLines, ChosenAre
<1> HIDE DEF r
<1>4. Len(q) = m /\ \A i \in 1..m : q[i] = r[i]
  BY <1>1, FirstOnes
<1> HIDE DEF q, g, m
<1>5. \A i \in 1..m : q[i] = g[i]
  BY <1>1, <1>2, <1>4, RootBinds
<1>6. m <= Len(c.lines) /\ \A i \in 1..m : g[i] = seals[c.seal].chain[i]
  BY <1>1, <1>2, <1>3, <1>4, <1>5
<1> QED
  BY <1>3, <1>6 DEF g, m

LEMMA TreesConsistent ==
    ASSUME SealsTyped, NEW b, Good(b), NEW c, Good(c), c.earlier = b.seal
    PROVE  TreeConsistency(Document(b), Document(c))
<1> DEFINE s == b.seal
           t == c.seal
           e == Document(b)
           l == Document(c)
<1>1. s \in SealIds /\ t \in SealIds /\ c.earlier = s
  BY DEF Good
<1>2. /\ e.leafCount = seals[s].count /\ l.leafCount = seals[t].count
      /\ e.merkleRoot = seals[s].merkleRoot /\ l.merkleRoot = seals[t].merkleRoot
      /\ l.consistency = BuildConsistency(c)
  BY DocumentIs, ChosenAre
<1>3. seals[s].count <= seals[t].count /\ \A i \in 1..seals[s].count : seals[s].chain[i] = seals[t].chain[i]
  BY <1>1, EarlierExtends
<1>4. /\ Len(seals[s].chain) = seals[s].count /\ seals[s].count \in Nat \ {0}
      /\ seals[s].merkleRoot = MerkleRoot(LeavesOf(seals[s].chain))
  <2>1. IsSealing(seals[s])
    BY <1>1, SealIs
  <2> QED
    BY <1>1, <2>1, SealedLeaves DEF IsSealing
<1>5. /\ Len(seals[t].chain) = seals[t].count /\ seals[t].count \in Nat \ {0}
      /\ seals[t].merkleRoot = MerkleRoot(LeavesOf(seals[t].chain))
  <2>1. IsSealing(seals[t])
    BY <1>1, SealIs
  <2> QED
    BY <1>1, <2>1, SealedLeaves DEF IsSealing
<1> HIDE DEF e, l
<1>6. CASE seals[s].count = seals[t].count
  <2>1. LeavesOf(seals[s].chain) = LeavesOf(seals[t].chain)
    BY <1>3, <1>4, <1>5, <1>6 DEF LeavesOf
  <2>2. TreeConsistency(e, l)
    BY <1>2, <1>3, <1>4, <1>5, <1>6, <2>1 DEF TreeConsistency
  <2> QED
    BY <2>2 DEF e, l
<1>7. CASE seals[s].count # seals[t].count
  <2>1. /\ BuildConsistency(c) # None /\ BuildConsistency(c).count = seals[s].count
        /\ BuildConsistency(c).root = seals[s].merkleRoot
        /\ BuildConsistency(c).proof = ConsistencyProof(LeavesOf(seals[t].chain), seals[s].count)
    BY <1>1, EntryIsThere
  <2>2. IsPrefix(seals[s].chain, seals[t].chain)
    BY <1>3, <1>4, <1>5, PrefixShows
  <2>3. VerifyConsistency(seals[s].count, seals[t].count, seals[s].merkleRoot, seals[t].merkleRoot,
                          BuildConsistency(c).proof)
    BY <1>1, <1>3, <1>4, <1>5, <2>1, <2>2, ConsistencyBinds
  <2>4. TreeConsistency(e, l)
    BY <1>2, <1>3, <1>7, <2>1, <2>3, Zenon DEF TreeConsistency
  <2> QED
    BY <2>4 DEF e, l
<1> QED
  BY <1>6, <1>7

(* A line sealed at a place both chains agree on is the same line of both. *)
LEMMA SameLine ==
    ASSUME SealsTyped, NEW s \in SealIds, NEW t \in SealIds,
           NEW i \in 1..seals[s].count, i \in 1..seals[t].count, seals[s].chain[i] = seals[t].chain[i]
    PROVE  Line(s, [event |-> i, spoilt |-> {}]) = Line(t, [event |-> i, spoilt |-> {}])
<1> DEFINE m == [event |-> i, spoilt |-> {}]
<1>1. i \in 1..i
  BY SealedLeaves
<1>2. LinkOf(seals[s].seed, i) = LinkOf(seals[t].seed, i)
  BY <1>1, ChainApart
<1>3. /\ EventId(seals[s].seed, i) = EventId(seals[t].seed, i)
      /\ Payload(seals[s].seed, i) = Payload(seals[t].seed, i)
  BY <1>2, LinksApart
<1>4. m.event = i /\ m.spoilt = {}
  OBVIOUS
<1> HIDE DEF m
<1>5. Line(s, m) = Line(t, m)
  BY <1>3, <1>4 DEF Line
<1> QED
  BY <1>5 DEF m

(* The indices a document gives for the lines that verify with it. *)
LEMMA ListedInside ==
    ASSUME SealsTyped, NEW b, Good(b), NEW ls, Len(ls) = Len(Document(b).disclosed), DOMAIN ls = 1..Len(ls),
           NEW k \in DOMAIN ls
    PROVE  Document(b).disclosed[k].index + 1 \in 1..seals[b.seal].count
<1>1. Cardinality(b.indices) \in Nat /\ Len(b.lines) = seals[b.seal].count
  BY ChosenAre
<1>2. Len(Document(b).disclosed) = Cardinality(b.indices)
  BY <1>1, DocumentLists
<1>3. k \in 1..Cardinality(b.indices)
  BY <1>2
<1>4. Document(b).disclosed[k].index = Ascending(b.indices)[k]
  BY <1>1, <1>3, DocumentLists
<1>5. Ascending(b.indices)[k] + 1 \in 1..seals[b.seal].count
  BY <1>3, ShownInPlace
<1> QED
  BY <1>4, <1>5

(* Disclosures that verify are consistent when the later one was made to be. *)
LEMMA MadeConsistent ==
    ASSUME DisclosureInv, VerifiedShowsSealed, NEW e \in Dirs, NEW l \in Dirs,
           VerifyDisclosure(e), VerifyDisclosure(l), dirs[l].document.earlier = dirs[e].manifest
    PROVE  Consistent(e, l)
<1> DEFINE b == dirs[e].document
           c == dirs[l].document
           s == dirs[e].manifest
           t == dirs[l].manifest
           els == DisclosedLines(dirs[e].events)
           lls == DisclosedLines(dirs[l].events)
<1>1. /\ b # None /\ c # None /\ CheckDisclosureParse(Document(b), s) /\ CheckDisclosureParse(Document(c), t)
      /\ CheckDisclosureInclusion(Document(b), els) /\ CheckDisclosureInclusion(Document(c), lls)
  BY Zenon DEF VerifyDisclosure, IsDisclosure
<1>2. /\ b \in GoodBuilds /\ c \in GoodBuilds
      /\ dirs[e].events \in GoodBuilds /\ dirs[l].events \in GoodBuilds
  BY <1>1 DEF DisclosureInv, DirsGood
<1>3. SealsTyped /\ Good(b) /\ Good(c) /\ Good(dirs[e].events) /\ Good(dirs[l].events)
  BY <1>2, GoodIs DEF DisclosureInv
<1>4. /\ \A j \in DOMAIN els : els[j] = Line(s, [event |-> Document(b).disclosed[j].index + 1, spoilt |-> {}])
      /\ \A k \in DOMAIN lls : lls[k] = Line(t, [event |-> Document(c).disclosed[k].index + 1, spoilt |-> {}])
  BY Zenon DEF VerifiedShowsSealed
<1>5. /\ DOMAIN els = 1..Len(els) /\ DOMAIN lls = 1..Len(lls)
      /\ Len(els) = Len(Document(b).disclosed) /\ Len(lls) = Len(Document(c).disclosed)
  <2>1. DOMAIN els = 1..Len(els) /\ DOMAIN lls = 1..Len(lls)
    BY <1>3, ShownLines
  <2> QED
    BY <1>1, <2>1, Zenon DEF CheckDisclosureInclusion
<1>6. c.earlier = s
  OBVIOUS
<1> HIDE DEF b, c, s, t, els, lls
<1>7. b.seal = s /\ c.seal = t
  BY <1>1, DocumentIs DEF CheckDisclosureParse
<1>8. s \in SealIds /\ t \in SealIds
  BY <1>3, <1>7 DEF Good
<1>9. seals[s].count <= seals[t].count /\ \A i \in 1..seals[s].count : seals[s].chain[i] = seals[t].chain[i]
  BY <1>3, <1>6, <1>7, <1>8, EarlierExtends
<1>10. TreeConsistency(Document(b), Document(c))
  BY <1>3, <1>6, <1>7, TreesConsistent
<1>11. ASSUME NEW j \in DOMAIN els, NEW k \in DOMAIN lls,
              Document(b).disclosed[j].index = Document(c).disclosed[k].index
       PROVE  els[j] = lls[k]
  <2> DEFINE i == Document(b).disclosed[j].index + 1
  <2>1. i \in 1..seals[s].count
    BY <1>3, <1>5, <1>7, ListedInside
  <2>2. i \in 1..seals[t].count
    BY <1>3, <1>5, <1>7, <1>11, ListedInside
  <2>3. els[j] = Line(s, [event |-> i, spoilt |-> {}]) /\ lls[k] = Line(t, [event |-> i, spoilt |-> {}])
    BY <1>4, <1>11
  <2> HIDE DEF i
  <2> QED
    BY <1>3, <1>8, <1>9, <2>1, <2>2, <2>3, SameLine
<1>12. DisclosedOverlap(Document(b), els, Document(c), lls)
  BY <1>11 DEF DisclosedOverlap
<1> QED
  BY <1>10, <1>12 DEF Consistent, b, c, els, lls

\* Two disclosures that verify are found consistent only if one seal extends
\* the other, and are found so whenever the later one was made to be consistent
\* with the earlier one (disclosure.ts buildConsistency, verify_disclosure.go).
THEOREM ConsistentIsExtended == Spec => []ConsistentMeansExtended
<1>1. ASSUME DisclosureInv, VerifiedShowsSealed PROVE ConsistentMeansExtended
  BY <1>1, ConsistentIsPrefix, MadeConsistent DEF ConsistentMeansExtended
<1> QED
  BY <1>1, DisclosureInvariance, VerifiedIsSealed, PTL
=============================================================================
