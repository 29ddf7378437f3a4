--------------------------- MODULE PipelineProofs ---------------------------
(***************************************************************************)
(* Proofs about Pipeline: what the timeline of any session, of any length, *)
(* keeps, counts, links and discloses, whatever is written to the store    *)
(* and pruned from it while it is read.                                    *)
(***************************************************************************)
EXTENDS Pipeline, FiniteSetTheorems, SequenceTheorems, WellFoundedInduction, TLAPS

---------------------------------------------------------------------------
(* Order. *)

(* A set of naturals has a least member. *)
LEMMA LeastNat ==
    ASSUME NEW T \in SUBSET Nat, T # {}
    PROVE  \E x \in T : \A y \in T : x <= y
<1> DEFINE R == OpToRel(<, Nat)
<1>1. IsWellFoundedOn(R, Nat)
  BY NatLessThanWellFounded
<1>2. \E x \in T : \A y \in T : <<y, x>> \notin R
  <2> HIDE DEF R
  <2> QED
    BY <1>1, WFMin
<1>3. \A x, y \in Nat : <<x, y>> \in R <=> x < y
  BY DEF OpToRel
<1>4. PICK x \in T : \A y \in T : <<y, x>> \notin R
  BY <1>2
<1>5. x \in Nat /\ \A y \in T : y \in Nat
  OBVIOUS
<1>6. \A y \in T : x <= y
  <2> SUFFICES ASSUME NEW y \in T PROVE x <= y
    OBVIOUS
  <2>1. ~ (y < x)
    BY <1>3, <1>4, <1>5
  <2> QED
    BY <1>5, <2>1
<1> QED
  BY <1>4, <1>6

\* Those that come before i in the order R.
Below(D, R, i) == {j \in D : <<j, i>> \in R}

\* R puts the members of D in a line.
LineUp(D, R) ==
    /\ \A i \in D : <<i, i>> \notin R
    /\ \A i, j, k \in D : <<i, j>> \in R /\ <<j, k>> \in R => <<i, k>> \in R
    /\ \A i, j \in D : i # j => <<i, j>> \in R \/ <<j, i>> \in R

Ranks(D, R) == [i \in D |-> Cardinality(Below(D, R, i))]

(* Who comes before another has fewer before it. *)
LEMMA RankGrows ==
    ASSUME NEW D, IsFiniteSet(D), NEW R, LineUp(D, R),
           NEW i \in D, NEW j \in D, <<i, j>> \in R
    PROVE  /\ Ranks(D, R)[i] \in Nat
           /\ Ranks(D, R)[j] \in Nat
           /\ Ranks(D, R)[i] < Ranks(D, R)[j]
           /\ Ranks(D, R)[j] < Cardinality(D)
           /\ Cardinality(D) \in Nat
<1> DEFINE A == Below(D, R, i)
           B == Below(D, R, j)
<1>1. A \subseteq B /\ B \subseteq D /\ i \in B /\ i \notin A /\ j \notin B
  BY DEF LineUp, Below
<1>2. Ranks(D, R)[i] = Cardinality(A) /\ Ranks(D, R)[j] = Cardinality(B)
  BY DEF Ranks
<1> HIDE DEF A, B
<1>3. IsFiniteSet(B) /\ IsFiniteSet(A)
  BY <1>1, FS_Subset
<1>4. Cardinality(A) \in Nat /\ Cardinality(B) \in Nat /\ Cardinality(D) \in Nat
  BY <1>3, FS_CardinalityType
<1>5. Cardinality(A) < Cardinality(B)
  <2>1. Cardinality(A) <= Cardinality(B) /\ (Cardinality(A) = Cardinality(B) => A = B)
    BY <1>1, <1>3, FS_Subset
  <2> QED
    BY <1>1, <1>4, <2>1
<1>6. Cardinality(B) < Cardinality(D)
  <2>1. Cardinality(B) <= Cardinality(D) /\ (Cardinality(B) = Cardinality(D) => B = D)
    BY <1>1, FS_Subset
  <2> QED
    BY <1>1, <1>4, <2>1
<1> QED
  BY <1>2, <1>4, <1>5, <1>6

LEMMA RankBounded ==
    ASSUME NEW D, IsFiniteSet(D), NEW R, LineUp(D, R), NEW i \in D
    PROVE  Ranks(D, R)[i] \in 0..(Cardinality(D) - 1)
<1> DEFINE A == Below(D, R, i)
<1>1. A \subseteq D /\ i \notin A
  BY DEF LineUp, Below
<1>2. Ranks(D, R)[i] = Cardinality(A)
  BY DEF Ranks
<1> HIDE DEF A
<1>3. IsFiniteSet(A)
  BY <1>1, FS_Subset
<1>4. Cardinality(A) \in Nat /\ Cardinality(D) \in Nat
  BY <1>3, FS_CardinalityType
<1>5. Cardinality(A) <= Cardinality(D) /\ (Cardinality(A) = Cardinality(D) => A = D)
  BY <1>1, FS_Subset
<1> QED
  BY <1>1, <1>2, <1>4, <1>5

\* The member of D that has k - 1 before it.
Placed(D, R) == [k \in 1..Cardinality(D) |-> CHOOSE i \in D : Ranks(D, R)[i] = k - 1]

(* In line, every member has a place of its own, and places go with the     *)
(* order.                                                                   *)
LEMMA PlacedIs ==
    ASSUME NEW D, IsFiniteSet(D), NEW R, LineUp(D, R)
    PROVE  /\ Cardinality(D) \in Nat
           /\ \A k \in 1..Cardinality(D) : Placed(D, R)[k] \in D
           /\ \A k, l \in 1..Cardinality(D) :
                k < l <=> <<Placed(D, R)[k], Placed(D, R)[l]>> \in R
           /\ \A i \in D : \E k \in 1..Cardinality(D) : Placed(D, R)[k] = i
           /\ \A k \in 1..Cardinality(D) : Ranks(D, R)[Placed(D, R)[k]] = k - 1
           /\ \A i, j \in D : Ranks(D, R)[i] = Ranks(D, R)[j] => i = j
<1> DEFINE n == Cardinality(D)
           T == 0..(n - 1)
           f == Ranks(D, R)
           p == Placed(D, R)
<1>1. n \in Nat
  BY FS_CardinalityType
<1>2. IsFiniteSet(T) /\ Cardinality(T) = n
  <2>1. 0 \in Int /\ n - 1 \in Int
    BY <1>1
  <2>2. IsFiniteSet(T) /\ Cardinality(T) = IF 0 > n - 1 THEN 0 ELSE (n - 1) - 0 + 1
    BY <2>1, FS_Interval
  <2> QED
    BY <1>1, <2>2
<1>3. f \in [D -> T]
  <2>1. \A i \in D : f[i] \in T
    BY RankBounded
  <2> QED
    BY <2>1 DEF Ranks
<1> HIDE DEF T
<1>4. f \in Injection(D, T)
  <2> SUFFICES ASSUME NEW i \in D, NEW j \in D, f[i] = f[j], i # j PROVE FALSE
    BY <1>3 DEF Injection, IsInjective
  <2>1. <<i, j>> \in R \/ <<j, i>> \in R
    BY DEF LineUp
  <2>2. ~ (f[i] < f[j]) /\ ~ (f[j] < f[i])
    <3>1. f[i] \in Nat
      BY <2>1, RankGrows
    <3> HIDE DEF f
    <3> QED
      BY <3>1
  <2> QED
    BY <2>1, <2>2, RankGrows
<1>5. f \in Surjection(D, T)
  <2> HIDE DEF f, n
  <2> QED
    BY <1>2, <1>4, FS_Injection DEF n
<1>6. ASSUME NEW k \in 1..n
      PROVE  p[k] \in D /\ f[p[k]] = k - 1
  <2>1. k - 1 \in T
    BY <1>1 DEF T
  <2>2. \E i \in D : f[i] = k - 1
    BY <1>5, <2>1 DEF Surjection
  <2>3. p[k] = CHOOSE i \in D : f[i] = k - 1
    BY DEF Placed
  <2> HIDE DEF f, p
  <2> QED
    BY <2>2, <2>3
<1>7. ASSUME NEW k \in 1..n, NEW l \in 1..n
      PROVE  k < l <=> <<p[k], p[l]>> \in R
  <2>1. p[k] \in D /\ f[p[k]] = k - 1 /\ p[l] \in D /\ f[p[l]] = l - 1
    BY <1>6
  <2>2. CASE p[k] = p[l]
    <3>1. k = l
      <4> HIDE DEF f, p
      <4> QED
        BY <1>1, <2>1, <2>2
    <3>2. <<p[k], p[k]>> \notin R
      BY <2>1 DEF LineUp
    <3> HIDE DEF p
    <3> QED
      BY <1>1, <3>1, <3>2
  <2>3. CASE p[k] # p[l]
    <3>1. <<p[k], p[l]>> \in R \/ <<p[l], p[k]>> \in R
      BY <2>1, <2>3 DEF LineUp
    <3>2. <<p[k], p[l]>> \in R => k - 1 < l - 1
      <4>1. <<p[k], p[l]>> \in R => f[p[k]] < f[p[l]]
        BY <2>1, RankGrows
      <4> HIDE DEF f, p
      <4> QED
        BY <2>1, <4>1
    <3>3. <<p[l], p[k]>> \in R => l - 1 < k - 1
      <4>1. <<p[l], p[k]>> \in R => f[p[l]] < f[p[k]]
        BY <2>1, RankGrows
      <4> HIDE DEF f, p
      <4> QED
        BY <2>1, <4>1
    <3> HIDE DEF p
    <3> QED
      BY <1>1, <3>1, <3>2, <3>3
  <2> QED
    BY <2>2, <2>3
<1>8. ASSUME NEW i \in D
      PROVE  \E k \in 1..n : p[k] = i
  <2>1. f[i] \in T
    BY <1>3
  <2>2. f[i] + 1 \in 1..n /\ (f[i] + 1) - 1 = f[i]
    BY <1>1, <2>1 DEF T
  <2> DEFINE k == f[i] + 1
  <2>3. p[k] \in D /\ f[p[k]] = f[i]
    BY <1>6, <2>2
  <2>4. p[k] = i
    BY <1>4, <2>3 DEF Injection, IsInjective
  <2> HIDE DEF f, p
  <2> QED
    BY <2>2, <2>4
<1>9. \A i, j \in D : f[i] = f[j] => i = j
  BY <1>4 DEF Injection, IsInjective
<1> QED
  BY <1>1, <1>6, <1>7, <1>8, <1>9

---------------------------------------------------------------------------
(* The members of a set in order, and the elements of a sequence there. *)

\* p lists S in increasing order.
Lists(p, S) ==
    /\ Cardinality(S) \in Nat
    /\ p = [k \in 1..Cardinality(S) |-> p[k]]
    /\ \A k \in 1..Cardinality(S) : p[k] \in S
    /\ \A k, l \in 1..Cardinality(S) : k < l <=> p[k] < p[l]
    /\ \A i \in S : \E k \in 1..Cardinality(S) : p[k] = i

LEMMA InOrderIs ==
    ASSUME NEW S \in SUBSET Nat, IsFiniteSet(S)
    PROVE  Lists(InOrder(S), S)
<1> DEFINE R == {q \in S \X S : q[1] < q[2]}
<1>1. LineUp(S, R)
  <2>1. \A i \in S : i \in Nat
    OBVIOUS
  <2>2. \A i, j \in S : <<i, j>> \in R <=> i < j
    OBVIOUS
  <2> HIDE DEF R
  <2> QED
    BY <2>1, <2>2 DEF LineUp
<1>2. \A i \in S : Below(S, R, i) = {j \in S : j < i}
  BY DEF Below
<1>3. \A i \in S : Ranks(S, R)[i] = Cardinality({j \in S : j < i})
  BY <1>2 DEF Ranks
<1>4. \A i, j \in S : <<i, j>> \in R <=> i < j
  OBVIOUS
<1> DEFINE n == Cardinality(S)
           p == Placed(S, R)
<1> HIDE DEF R
<1>5. /\ n \in Nat
      /\ \A k \in 1..n : p[k] \in S /\ Ranks(S, R)[p[k]] = k - 1
      /\ \A k, l \in 1..n : k < l <=> <<p[k], p[l]>> \in R
      /\ \A i \in S : \E k \in 1..n : p[k] = i
      /\ \A i, j \in S : Ranks(S, R)[i] = Ranks(S, R)[j] => i = j
  BY <1>1, PlacedIs
<1> HIDE DEF p
<1>6. ASSUME NEW k \in 1..n
      PROVE  InOrder(S)[k] = p[k]
  <2> DEFINE x == InOrder(S)[k]
             Count(i) == Cardinality({j \in S : j < i})
  <2>1. x = CHOOSE i \in S : Count(i) = k - 1
    BY DEF InOrder
  <2>2. p[k] \in S /\ Count(p[k]) = k - 1
    <3>1. p[k] \in S /\ Ranks(S, R)[p[k]] = k - 1
      BY <1>5
    <3> QED
      BY <1>3, <3>1
  <2> HIDE DEF Count, x
  <2>3. x \in S /\ Count(x) = k - 1
    BY <2>1, <2>2
  <2>4. Ranks(S, R)[x] = Ranks(S, R)[p[k]]
    BY <1>3, <1>5, <2>3 DEF Count
  <2> QED
    BY <1>5, <2>2, <2>3, <2>4 DEF x
<1>7. InOrder(S) = [k \in 1..n |-> InOrder(S)[k]]
  <2> DEFINE At(k) == CHOOSE i \in S : Cardinality({j \in S : j < i}) = k - 1
  <2>1. InOrder(S) = [k \in 1..n |-> At(k)]
    BY DEF InOrder
  <2> HIDE DEF At, n
  <2> QED
    BY <2>1
<1>8. \A k, l \in 1..n : k < l <=> p[k] < p[l]
  BY <1>4, <1>5
<1> HIDE DEF n
<1>9. /\ \A k, l \in 1..n : k < l <=> InOrder(S)[k] < InOrder(S)[l]
      /\ \A k \in 1..n : InOrder(S)[k] \in S
      /\ \A i \in S : \E k \in 1..n : InOrder(S)[k] = i
  BY <1>5, <1>6, <1>8
<1> QED
  BY <1>5, <1>7, <1>9 DEF Lists, n

\* The elements of part are those of seq at the places p, in order.
Picks(p, part, seq, places) ==
    /\ Lists(p, places)
    /\ part = [k \in 1..Cardinality(places) |-> seq[p[k]]]

LEMMA ElementsAtIs ==
    ASSUME NEW seq, NEW places \in SUBSET Nat, IsFiniteSet(places)
    PROVE  Picks(InOrder(places), ElementsAt(seq, places), seq, places)
<1> DEFINE p == InOrder(places)
<1>1. Lists(p, places)
  BY InOrderIs
<1> HIDE DEF p
<1>2. DOMAIN p = 1..Cardinality(places)
  <2>1. p = [k \in 1..Cardinality(places) |-> p[k]]
    BY <1>1 DEF Lists
  <2> QED
    BY <2>1
<1>3. ElementsAt(seq, places) = [k \in 1..Cardinality(places) |-> seq[p[k]]]
  BY <1>2 DEF ElementsAt, p
<1> QED
  BY <1>1, <1>3 DEF Picks, p

---------------------------------------------------------------------------
(* Sorting by time. *)

Timed(e) == e.at \in Int /\ e.mono \in Int

\* sorted holds the events, each once, the one of the k-th place from p[k].
Sorts(p, sorted, events) ==
    LET n == Len(events)
    IN  /\ sorted = [k \in 1..n |-> events[p[k]]]
        /\ \A k \in 1..n : p[k] \in 1..n
        /\ \A k, l \in 1..n : p[k] = p[l] => k = l
        /\ \A i \in 1..n : \E k \in 1..n : p[k] = i
        /\ \A k, l \in 1..n : CompareByTime(events[p[k]], events[p[l]]) => k < l

(* Two events of numbered times compare in one way. *)
LEMMA OrderOfTwo ==
    ASSUME NEW x, NEW y, Timed(x), Timed(y)
    PROVE  /\ CompareByTime(x, y) => ~ CompareByTime(y, x)
           /\ ~ CompareByTime(x, x)
BY DEF CompareByTime, Timed

LEMMA OrderOfThree ==
    ASSUME NEW x, NEW y, NEW z, Timed(x), Timed(y), Timed(z)
    PROVE  /\ CompareByTime(x, y) /\ CompareByTime(y, z) => CompareByTime(x, z)
           /\ ~ CompareByTime(y, x) /\ ~ CompareByTime(z, y) => ~ CompareByTime(z, x)
BY DEF CompareByTime, Timed

(* The order of a stable sort is a line. *)
LEMMA SortsLineUp ==
    ASSUME NEW events, NEW n \in Nat, \A i \in 1..n : Timed(events[i]),
           NEW R, \A i, j \in 1..n : <<i, j>> \in R <=> SortsBefore(events, i, j)
    PROVE  LineUp(1..n, R)
<1> DEFINE C(i, j) == CompareByTime(events[i], events[j])
<1>1. \A i, j \in 1..n : <<i, j>> \in R <=> C(i, j) \/ (~ C(j, i) /\ i < j)
  BY DEF SortsBefore
<1>2. \A i, j \in 1..n : ~ C(i, i) /\ (C(i, j) => ~ C(j, i))
  BY OrderOfTwo
<1>3. \A i, j, k \in 1..n : /\ C(i, j) /\ C(j, k) => C(i, k)
                            /\ ~ C(j, i) /\ ~ C(k, j) => ~ C(k, i)
  BY OrderOfThree
<1> HIDE DEF C
<1>4. \A i \in 1..n : <<i, i>> \notin R
  BY <1>1, <1>2
<1>5. ASSUME NEW i \in 1..n, NEW j \in 1..n, NEW k \in 1..n, <<i, j>> \in R, <<j, k>> \in R
      PROVE  <<i, k>> \in R
  <2>1. (C(i, j) \/ (~ C(j, i) /\ i < j)) /\ (C(j, k) \/ (~ C(k, j) /\ j < k))
    BY <1>1, <1>5
  <2>2. C(i, j) /\ C(j, k) => C(i, k)
    BY <1>3
  <2>3. C(i, j) /\ ~ C(k, j) => C(i, k)
    <3>1. ~ C(k, j) /\ ~ C(i, k) => ~ C(i, j)
      BY <1>3
    <3> QED
      BY <3>1
  <2>4. ~ C(j, i) /\ C(j, k) => C(i, k)
    <3>1. ~ C(i, k) /\ ~ C(j, i) => ~ C(j, k)
      BY <1>3
    <3> QED
      BY <3>1
  <2>5. ~ C(j, i) /\ ~ C(k, j) => ~ C(k, i)
    BY <1>3
  <2>6. i < j /\ j < k => i < k
    OBVIOUS
  <2>7. C(i, k) \/ (~ C(k, i) /\ i < k)
    BY <2>1, <2>2, <2>3, <2>4, <2>5, <2>6
  <2> QED
    BY <1>1, <2>7
<1>6. ASSUME NEW i \in 1..n, NEW j \in 1..n, i # j
      PROVE  <<i, j>> \in R \/ <<j, i>> \in R
  <2>1. i < j \/ j < i
    BY <1>6
  <2> QED
    BY <1>1, <2>1
<1> QED
  BY <1>4, <1>5, <1>6 DEF LineUp

LEMMA SortByTimeIs ==
    ASSUME NEW events, Len(events) \in Nat, DOMAIN events = 1..Len(events),
           \A i \in 1..Len(events) : Timed(events[i])
    PROVE  \E p : Sorts(p, SortByTime(events), events)
<1> DEFINE n == Len(events)
           D == 1..n
           R == {q \in D \X D : SortsBefore(events, q[1], q[2])}
           p == Placed(D, R)
<1>1. \A i, j \in D : <<i, j>> \in R <=> SortsBefore(events, i, j)
  OBVIOUS
<1>2. \A i \in D : Below(D, R, i) = {j \in D : SortsBefore(events, j, i)}
  BY <1>1 DEF Below
<1> HIDE DEF R
<1>3. LineUp(D, R)
  BY <1>1, SortsLineUp
<1>4. IsFiniteSet(D) /\ Cardinality(D) = n
  <2>1. 1 \in Int /\ n \in Int
    OBVIOUS
  <2>2. IsFiniteSet(D) /\ Cardinality(D) = IF 1 > n THEN 0 ELSE n - 1 + 1
    BY <2>1, FS_Interval
  <2> QED
    BY <2>2
<1>5. /\ \A k \in D : p[k] \in D /\ Ranks(D, R)[p[k]] = k - 1
      /\ \A k, l \in D : k < l <=> <<p[k], p[l]>> \in R
      /\ \A i \in D : \E k \in D : p[k] = i
      /\ \A i, j \in D : Ranks(D, R)[i] = Ranks(D, R)[j] => i = j
  <2> HIDE DEF D, p
  <2>1. Cardinality(D) = n /\ D = 1..n
    BY <1>4 DEF D
  <2>2. 1..Cardinality(D) = D
    BY <2>1
  <2> HIDE DEF n
  <2> DEFINE M == 1..Cardinality(D)
  <2>3. /\ \A k \in M : p[k] \in D /\ Ranks(D, R)[p[k]] = k - 1
        /\ \A k, l \in M : k < l <=> <<p[k], p[l]>> \in R
        /\ \A i \in D : \E k \in M : p[k] = i
        /\ \A i, j \in D : Ranks(D, R)[i] = Ranks(D, R)[j] => i = j
    BY <1>3, <1>4, PlacedIs DEF p
  <2> HIDE DEF M
  <2>4. M = D
    BY <2>2 DEF M
  <2> QED
    BY <2>3, <2>4
<1> DEFINE rank == [i \in DOMAIN events |->
                      Cardinality({j \in DOMAIN events : SortsBefore(events, j, i)})]
<1>6. rank = Ranks(D, R)
  BY <1>2 DEF Ranks
<1>7. \A k \in D : SortByTime(events)[k] = events[CHOOSE i \in D : rank[i] = k - 1]
  BY DEF SortByTime
<1>8. SortByTime(events) = [k \in D |-> SortByTime(events)[k]]
  BY DEF SortByTime
<1> HIDE DEF rank, p
<1>9. \A k \in D : SortByTime(events)[k] = events[p[k]]
  <2> SUFFICES ASSUME NEW k \in D PROVE (CHOOSE i \in D : rank[i] = k - 1) = p[k]
    BY <1>7
  <2> DEFINE x == CHOOSE i \in D : rank[i] = k - 1
  <2>1. p[k] \in D /\ rank[p[k]] = k - 1
    BY <1>5, <1>6
  <2>2. x \in D /\ rank[x] = k - 1
    BY <2>1
  <2> HIDE DEF x
  <2>3. x = p[k]
    BY <1>5, <1>6, <2>1, <2>2
  <2> QED
    BY <2>3 DEF x
<1>10. \A k, l \in D : p[k] = p[l] => k = l
  <2> SUFFICES ASSUME NEW k \in D, NEW l \in D, p[k] = p[l] PROVE k = l
    OBVIOUS
  <2>1. Ranks(D, R)[p[k]] = k - 1 /\ Ranks(D, R)[p[l]] = l - 1
    BY <1>5
  <2>2. k - 1 = l - 1
    BY <2>1
  <2> QED
    BY <2>2
<1>11. \A k, l \in D : CompareByTime(events[p[k]], events[p[l]]) => k < l
  BY <1>1, <1>5 DEF SortsBefore
<1>12. SortByTime(events) = [k \in D |-> events[p[k]]]
  BY <1>8, <1>9
<1>13. Sorts(p, SortByTime(events), events)
  BY <1>5, <1>10, <1>11, <1>12 DEF Sorts
<1> QED
  BY <1>13

---------------------------------------------------------------------------
(* Reading the store and its sidecar. *)

\* The events records become, mono counted from offset.
CaptureEvents(offset) ==
    {RecordEvent(<<o, i>>, record, offset + k) :
        o \in {"store", "sidecar"}, i \in Nat, record \in CaptureRecord, k \in Nat}

Readings(offset) ==
    [events : Seq(CaptureEvents(offset)), read : Nat, excluded : [Exclusions -> Nat]]

Counted(r) == Len(r.events) + Excluded(r.excluded)

Belongs(record, scope) ==
    /\ ReadAs(record) # "malformed"
    /\ Classify(record.session, CapturedAt(record), scope) = "include"

\* s is r with what one record adds to it.
Adds(s, r, id, record, scope, offset) ==
    /\ \A k \in DOMAIN r.events : k \in DOMAIN s.events /\ s.events[k] = r.events[k]
    /\ \A k \in DOMAIN s.events : k \in DOMAIN r.events \/
         /\ Belongs(record, scope)
         /\ k = Len(r.events) + 1
         /\ s.events[k] = RecordEvent(id, record, offset + Len(r.events))
    /\ Belongs(record, scope) => Len(r.events) + 1 \in DOMAIN s.events

LEMMA LeftOutIs ==
    ASSUME NEW offset, NEW r \in Readings(offset), NEW why \in Exclusions
    PROVE  /\ LeftOut(r, why) \in Readings(offset)
           /\ LeftOut(r, why).events = r.events
           /\ Counted(LeftOut(r, why)) = Counted(r) + 1
           /\ Counted(r) \in Nat
<1> DEFINE s == LeftOut(r, why)
           e == r.excluded
           f == [e EXCEPT ![why] = @ + 1]
<1>1. r.read \in Nat /\ e \in [Exclusions -> Nat] /\ r.events \in Seq(CaptureEvents(offset))
  BY DEF Readings
<1>2. s = [r EXCEPT !.read = @ + 1, !.excluded = f]
  BY DEF LeftOut, Readings
<1>3. s.events = r.events /\ s.excluded = f /\ s.read = r.read + 1
  BY <1>2 DEF Readings
<1>4. f \in [Exclusions -> Nat]
  BY <1>1
<1>5. s = [events |-> s.events, read |-> s.read, excluded |-> s.excluded]
  BY <1>2 DEF Readings
<1>6. s \in Readings(offset)
  <2> HIDE DEF s, f, e
  <2> QED
    BY <1>1, <1>3, <1>4, <1>5 DEF Readings
<1>7. /\ \A x \in Exclusions : e[x] \in Nat /\ f[x] = IF x = why THEN e[x] + 1 ELSE e[x]
      /\ Exclusions = {"other-session", "unattributed", "outside-session-window", "malformed"}
  BY <1>1 DEF Exclusions
<1> HIDE DEF e, f, s
<1>8. Excluded(f) = Excluded(e) + 1 /\ Excluded(e) \in Nat
  BY <1>7 DEF Excluded
<1>9. Len(r.events) \in Nat
  BY <1>1, LenProperties
<1> QED
  BY <1>3, <1>6, <1>8, <1>9 DEF Counted, s, e

LEMMA ClassifyIs ==
    ASSUME NEW session, NEW at, NEW scope
    PROVE  Classify(session, at, scope) \in Exclusions \cup {"include"}
BY DEF Classify, Exclusions

(* A record that is there is counted as one, and makes an event exactly if  *)
(* it belongs to the scope.                                                 *)
LEMMA ReadRecordIs ==
    ASSUME NEW offset, NEW r \in Readings(offset), NEW o \in {"store", "sidecar"}, NEW i \in Nat,
           NEW record \in CaptureRecord, NEW scope
    PROVE  LET s == ReadRecord(r, <<o, i>>, {record}, scope, offset)
           IN  /\ s \in Readings(offset)
               /\ Counted(s) = Counted(r) + 1
               /\ Adds(s, r, <<o, i>>, record, scope, offset)
<1> DEFINE id == <<o, i>>
           s == ReadRecord(r, id, {record}, scope, offset)
           why == Classify(record.session, CapturedAt(record), scope)
           e == RecordEvent(id, record, offset + Len(r.events))
<1>1. r.events \in Seq(CaptureEvents(offset)) /\ Len(r.events) \in Nat
  BY LenProperties DEF Readings
<1>2. (CHOOSE x \in {record} : TRUE) = record
  OBVIOUS
<1>3. s = IF ReadAs(record) = "malformed" THEN LeftOut(r, "malformed")
          ELSE IF why # "include" THEN LeftOut(r, why)
          ELSE [r EXCEPT !.read = @ + 1, !.events = Append(@, e)]
  BY <1>2 DEF ReadRecord
<1> HIDE DEF s, why
<1>4. CASE ~ Belongs(record, scope)
  <2>1. PICK w \in Exclusions : s = LeftOut(r, w)
    <3>1. CASE ReadAs(record) = "malformed"
      BY <1>3, <3>1 DEF Exclusions
    <3>2. CASE ReadAs(record) # "malformed"
      <4>1. why # "include"
        BY <1>4, <3>2 DEF Belongs, why
      <4>2. why \in Exclusions
        BY <4>1, ClassifyIs DEF why
      <4> QED
        BY <1>3, <3>2, <4>1, <4>2
    <3> QED
      BY <3>1, <3>2
  <2>2. s \in Readings(offset) /\ s.events = r.events /\ Counted(s) = Counted(r) + 1
    BY <2>1, LeftOutIs
  <2>3. Adds(s, r, id, record, scope, offset)
    BY <1>4, <2>2 DEF Adds
  <2> QED
    BY <2>2, <2>3 DEF s
<1>5. CASE Belongs(record, scope)
  <2>1. s = [r EXCEPT !.read = @ + 1, !.events = Append(@, e)]
    BY <1>3, <1>5 DEF Belongs, why
  <2>2. e \in CaptureEvents(offset)
    BY <1>1 DEF CaptureEvents
  <2> HIDE DEF e
  <2>3. s.events = Append(r.events, e) /\ s.excluded = r.excluded /\ s.read = r.read + 1
    BY <2>1 DEF Readings
  <2>4. s = [events |-> s.events, read |-> s.read, excluded |-> s.excluded]
    BY <2>1 DEF Readings
  <2>5. /\ s.events \in Seq(CaptureEvents(offset))
        /\ Len(s.events) = Len(r.events) + 1
        /\ \A k \in 1..Len(r.events) : s.events[k] = r.events[k]
        /\ s.events[Len(r.events) + 1] = e
    BY <1>1, <2>2, <2>3, AppendProperties
  <2>6. s \in Readings(offset)
    <3>1. r.read \in Nat /\ r.excluded \in [Exclusions -> Nat]
      BY DEF Readings
    <3> QED
      BY <2>3, <2>4, <2>5, <3>1 DEF Readings
  <2>7. DOMAIN s.events = 1..Len(s.events) /\ DOMAIN r.events = 1..Len(r.events)
    BY <1>1, <2>5, LenProperties
  <2>8. Counted(s) = Counted(r) + 1
    <3>1. Excluded(r.excluded) \in Nat
      <4>1. r.excluded \in [Exclusions -> Nat]
        BY DEF Readings
      <4> QED
        BY <4>1 DEF Excluded, Exclusions
    <3> QED
      BY <1>1, <2>3, <2>5, <3>1 DEF Counted
  <2>9. Adds(s, r, id, record, scope, offset)
    <3>1. \A k \in DOMAIN r.events : k \in DOMAIN s.events /\ s.events[k] = r.events[k]
      BY <1>1, <2>5, <2>7
    <3>2. Len(r.events) + 1 \in DOMAIN s.events
      BY <1>1, <2>5, <2>7
    <3>3. \A k \in DOMAIN s.events : k \in DOMAIN r.events \/ k = Len(r.events) + 1
      BY <1>1, <2>5, <2>7
    <3>4. s.events[Len(r.events) + 1] = RecordEvent(id, record, offset + Len(r.events))
      BY <2>5 DEF e
    <3> HIDE DEF id
    <3> QED
      BY <1>5, <3>1, <3>2, <3>3, <3>4 DEF Adds
  <2> QED
    BY <2>6, <2>8, <2>9 DEF s
<1> QED
  BY <1>4, <1>5

---------------------------------------------------------------------------
(* Folds, step by step. *)

(* What every step keeps within its bounds stays there. *)
LEMMA FoldHolds ==
    ASSUME NEW n \in Nat, NEW f, NEW D, f[0] \in D[0],
           \A i \in 1..n : f[i - 1] \in D[i - 1] => f[i] \in D[i]
    PROVE  \A i \in 0..n : f[i] \in D[i]
<1> DEFINE Bads == {i \in 0..n : f[i] \notin D[i]}
<1> SUFFICES ASSUME Bads # {} PROVE FALSE
  OBVIOUS
<1>1. PICK i \in Bads : \A j \in Bads : i <= j
  <2>1. Bads \in SUBSET Nat
    OBVIOUS
  <2> HIDE DEF Bads
  <2> QED
    BY <2>1, LeastNat
<1>2. i \in 0..n /\ f[i] \notin D[i]
  BY <1>1
<1>3. i # 0
  BY <1>2
<1>4. i \in 1..n /\ i - 1 \in 0..n /\ i - 1 < i
  BY <1>2, <1>3
<1>5. i - 1 \notin Bads
  <2> HIDE DEF Bads
  <2> QED
    BY <1>1, <1>4
<1>6. f[i - 1] \in D[i - 1]
  BY <1>4, <1>5
<1> QED
  BY <1>2, <1>4, <1>6

\* f starts with base, and each value is what next makes of the one before it.
Folds(f, base, next, n) ==
    f[0] = base /\ \A i \in 1..n : f[i] = next[<<i, f[i - 1]>>]

(* Every fold has a result. *)
LEMMA FoldExists ==
    ASSUME NEW U, NEW base \in U, NEW n \in Nat, NEW next \in [(1..n) \X U -> U]
    PROVE  \E f \in [0..n -> U] : Folds(f, base, next, n)
<1> DEFINE Made(k) == \E f \in [0..k -> U] : Folds(f, base, next, k)
           Bads == {k \in 0..n : ~ Made(k)}
<1> SUFFICES ASSUME Bads # {} PROVE FALSE
  OBVIOUS
<1>1. PICK k \in Bads : \A j \in Bads : k <= j
  <2>1. Bads \in SUBSET Nat
    OBVIOUS
  <2> HIDE DEF Bads
  <2> QED
    BY <2>1, LeastNat
<1>2. k \in 0..n /\ ~ Made(k)
  BY <1>1
<1>3. k # 0
  <2> DEFINE f == [i \in 0..0 |-> base]
  <2>1. f \in [0..0 -> U] /\ f[0] = base
    OBVIOUS
  <2>2. \A i \in 1..0 : FALSE
    OBVIOUS
  <2> HIDE DEF f
  <2>3. Made(0)
    BY <2>1, <2>2 DEF Folds
  <2> HIDE DEF Made
  <2> QED
    BY <1>2, <2>3
<1>4. k - 1 \in 0..n /\ k - 1 < k /\ k \in 1..n /\ k \in Nat
  BY <1>2, <1>3
<1>5. k - 1 \notin Bads
  <2> HIDE DEF Bads
  <2> QED
    BY <1>1, <1>4
<1>6. Made(k - 1)
  <2> HIDE DEF Made
  <2> QED
    BY <1>4, <1>5
<1>7. PICK f \in [0..(k - 1) -> U] : Folds(f, base, next, k - 1)
  BY <1>6
<1> DEFINE g == [i \in 0..k |-> IF i = k THEN next[<<k, f[k - 1]>>] ELSE f[i]]
<1>8. f[k - 1] \in U /\ next[<<k, f[k - 1]>>] \in U
  <2>1. f[k - 1] \in U
    BY <1>4
  <2>2. <<k, f[k - 1]>> \in (1..n) \X U
    BY <1>4, <2>1
  <2> QED
    BY <2>1, <2>2
<1>9. g \in [0..k -> U]
  <2>1. \A i \in 0..k : i # k => i \in 0..(k - 1)
    BY <1>4
  <2>2. \A i \in 0..k : g[i] \in U
    BY <1>8, <2>1
  <2> QED
    BY <2>2
<1>10. \A i \in 0..(k - 1) : g[i] = f[i]
  BY <1>4
<1>11. g[k] = next[<<k, f[k - 1]>>] /\ g[k - 1] = f[k - 1]
  BY <1>4
<1> HIDE DEF g
<1>12. Folds(g, base, next, k)
  <2>1. g[0] = base
    BY <1>4, <1>7, <1>10 DEF Folds
  <2>2. ASSUME NEW i \in 1..k PROVE g[i] = next[<<i, g[i - 1]>>]
    <3>1. CASE i = k
      BY <1>11, <3>1
    <3>2. CASE i # k
      <4>1. i \in 1..(k - 1) /\ i \in 0..(k - 1) /\ i - 1 \in 0..(k - 1)
        BY <1>4, <3>2
      <4>2. g[i] = f[i] /\ g[i - 1] = f[i - 1]
        BY <1>10, <4>1
      <4> QED
        BY <1>7, <4>1, <4>2 DEF Folds
    <3> QED
      BY <3>1, <3>2
  <2> QED
    BY <2>1, <2>2 DEF Folds
<1>13. Made(k)
  BY <1>9, <1>12
<1> HIDE DEF Made
<1> QED
  BY <1>2, <1>13

---------------------------------------------------------------------------
(* The sidecar. *)

SidecarSteps(f, r, lines, scope, offset) ==
    f = [i \in 0..Len(lines) |->
           IF i = 0 THEN r ELSE ReadFailure(f[i - 1], i, lines[i], scope, offset)]

SidecarFold(r, lines, scope, offset) == CHOOSE f : SidecarSteps(f, r, lines, scope, offset)

\* What reading n lines of the sidecar has made of r.
SidecarRead(s, r, lines, scope, offset, n) ==
    /\ s \in Readings(offset)
    /\ Counted(s) = Counted(r) + n
    /\ \A k \in DOMAIN r.events : k \in DOMAIN s.events /\ s.events[k] = r.events[k]
    /\ \A k \in DOMAIN s.events : k \in DOMAIN r.events \/
         \E i \in DOMAIN lines :
           /\ Belongs(lines[i], scope)
           /\ s.events[k] = RecordEvent(<<"sidecar", i>>, lines[i], offset + (k - 1))

(* One line is counted, whatever it holds. *)
LEMMA ReadFailureIs ==
    ASSUME NEW offset, NEW r \in Readings(offset), NEW i \in Nat,
           NEW line \in CaptureRecord, NEW scope
    PROVE  LET s == ReadFailure(r, i, line, scope, offset)
           IN  /\ s \in Readings(offset)
               /\ Counted(s) = Counted(r) + 1
               /\ \A k \in DOMAIN r.events : k \in DOMAIN s.events /\ s.events[k] = r.events[k]
               /\ \A k \in DOMAIN s.events : k \in DOMAIN r.events \/
                    /\ Belongs(line, scope)
                    /\ k = Len(r.events) + 1
                    /\ s.events[k] = RecordEvent(<<"sidecar", i>>, line, offset + Len(r.events))
<1> DEFINE s == ReadFailure(r, i, line, scope, offset)
<1>1. CASE ReadAs(line) # "capture_failed"
  <2>1. s = LeftOut(r, "malformed") /\ "malformed" \in Exclusions
    BY <1>1 DEF ReadFailure, Exclusions
  <2> HIDE DEF s
  <2>2. s \in Readings(offset) /\ s.events = r.events /\ Counted(s) = Counted(r) + 1
    BY <2>1, LeftOutIs
  <2> QED
    BY <2>2 DEF s
<1>2. CASE ReadAs(line) = "capture_failed"
  <2>1. s = ReadRecord(r, <<"sidecar", i>>, {line}, scope, offset)
    BY <1>2 DEF ReadFailure
  <2>2. /\ s \in Readings(offset)
        /\ Counted(s) = Counted(r) + 1
        /\ Adds(s, r, <<"sidecar", i>>, line, scope, offset)
    BY <2>1, ReadRecordIs
  <2> HIDE DEF s
  <2> QED
    BY <2>2 DEF Adds, s
<1> QED
  BY <1>1, <1>2

LEMMA SidecarExists ==
    ASSUME NEW offset, NEW r \in Readings(offset), NEW lines \in Seq(CaptureRecord), NEW scope
    PROVE  SidecarSteps(SidecarFold(r, lines, scope, offset), r, lines, scope, offset)
<1> DEFINE n == Len(lines)
           U == Readings(offset)
           Step(i, s) == ReadFailure(s, i, lines[i], scope, offset)
           next == [q \in (1..n) \X U |-> Step(q[1], q[2])]
<1>1. n \in Nat /\ \A i \in 1..n : i \in Nat /\ lines[i] \in CaptureRecord
  BY LenProperties, ElementOfSeq
<1>2. \A i \in 1..n, s \in U : Step(i, s) \in U
  BY <1>1, ReadFailureIs
<1> HIDE DEF U, Step
<1>3. next \in [(1..n) \X U -> U]
  BY <1>2
<1>4. r \in U
  BY DEF U
<1>5. \A i \in 1..n, s \in U : next[<<i, s>>] = Step(i, s)
  OBVIOUS
<1> HIDE DEF next, n
<1>6. PICK f \in [0..n -> U] : Folds(f, r, next, n)
  BY <1>1, <1>3, <1>4, FoldExists
<1>7. \A i \in 1..n : i - 1 \in 0..n /\ f[i - 1] \in U
  BY <1>1
<1>8. \A i \in 0..n : f[i] = IF i = 0 THEN r ELSE Step(i, f[i - 1])
  <2>1. f[0] = r /\ \A i \in 1..n : f[i] = next[<<i, f[i - 1]>>]
    BY <1>6 DEF Folds
  <2>2. \A i \in 1..n : f[i] = Step(i, f[i - 1])
    BY <1>5, <1>7, <2>1
  <2>3. \A i \in 0..n : i = 0 \/ i \in 1..n
    BY <1>1
  <2> QED
    BY <1>1, <2>1, <2>2, <2>3
<1>9. f = [i \in 0..n |-> IF i = 0 THEN r ELSE Step(i, f[i - 1])]
  BY <1>6, <1>8
<1>10. SidecarSteps(f, r, lines, scope, offset)
  BY <1>9 DEF SidecarSteps, Step, n
<1> QED
  BY <1>10 DEF SidecarFold

(* The sidecar adds what belongs, takes nothing away and counts every line. *)
LEMMA ReadSidecarIs ==
    ASSUME NEW offset, NEW r \in Readings(offset), NEW lines \in Seq(CaptureRecord), NEW scope
    PROVE  SidecarRead(ReadSidecar(r, lines, scope, offset), r, lines, scope, offset, Len(lines))
<1> DEFINE n == Len(lines)
           f == SidecarFold(r, lines, scope, offset)
           Inv(i, s) == SidecarRead(s, r, lines, scope, offset, i)
           D == [i \in 0..n |-> {s \in Readings(offset) : Inv(i, s)}]
<1>1. n \in Nat /\ DOMAIN lines = 1..n /\ \A i \in 1..n : i \in Nat /\ lines[i] \in CaptureRecord
  BY LenProperties, ElementOfSeq
<1>2. f = [i \in 0..n |-> IF i = 0 THEN r ELSE ReadFailure(f[i - 1], i, lines[i], scope, offset)]
  BY SidecarExists DEF SidecarSteps
<1>3. ReadSidecar(r, lines, scope, offset) = f[n]
  BY DEF ReadSidecar, SidecarFold, SidecarSteps
<1> HIDE DEF f
<1>4. f[0] = r /\ \A i \in 1..n : f[i] = ReadFailure(f[i - 1], i, lines[i], scope, offset)
  BY <1>1, <1>2
<1>5. Inv(0, r)
  <2>1. Counted(r) \in Nat
    <3>1. "malformed" \in Exclusions
      BY DEF Exclusions
    <3> QED
      BY <3>1, LeftOutIs
  <2> QED
    BY <2>1 DEF SidecarRead
<1>6. ASSUME NEW i \in 1..n, NEW s \in Readings(offset), Inv(i - 1, s),
             NEW t, t = ReadFailure(s, i, lines[i], scope, offset)
      PROVE  Inv(i, t)
  <2>1. /\ t \in Readings(offset)
        /\ Counted(t) = Counted(s) + 1
        /\ \A k \in DOMAIN s.events : k \in DOMAIN t.events /\ t.events[k] = s.events[k]
        /\ \A k \in DOMAIN t.events : k \in DOMAIN s.events \/
             /\ Belongs(lines[i], scope)
             /\ k = Len(s.events) + 1
             /\ t.events[k] = RecordEvent(<<"sidecar", i>>, lines[i], offset + Len(s.events))
    BY <1>1, <1>6, ReadFailureIs
  <2>2. Counted(s) = Counted(r) + (i - 1) /\ Counted(r) \in Nat /\ Counted(r) + (i - 1) + 1 = Counted(r) + i
    <3>1. "malformed" \in Exclusions
      BY DEF Exclusions
    <3>2. Counted(r) \in Nat
      BY <3>1, LeftOutIs
    <3> QED
      BY <1>6, <3>2 DEF SidecarRead
  <2>3. \A k \in DOMAIN r.events : k \in DOMAIN t.events /\ t.events[k] = r.events[k]
    BY <1>6, <2>1 DEF SidecarRead
  <2>4. ASSUME NEW k \in DOMAIN t.events, k \notin DOMAIN r.events
        PROVE  \E j \in DOMAIN lines :
                 /\ Belongs(lines[j], scope)
                 /\ t.events[k] = RecordEvent(<<"sidecar", j>>, lines[j], offset + (k - 1))
    <3>1. CASE k \in DOMAIN s.events
      <4>1. t.events[k] = s.events[k]
        BY <2>1, <3>1
      <4> QED
        BY <1>6, <2>4, <3>1, <4>1 DEF SidecarRead
    <3>2. CASE k \notin DOMAIN s.events
      <4>1. /\ Belongs(lines[i], scope)
            /\ k = Len(s.events) + 1
            /\ t.events[k] = RecordEvent(<<"sidecar", i>>, lines[i], offset + Len(s.events))
        BY <2>1, <3>2
      <4>2. Len(s.events) \in Nat
        BY LenProperties DEF Readings
      <4>3. offset + Len(s.events) = offset + (k - 1)
        BY <4>1, <4>2
      <4> QED
        BY <1>1, <4>1, <4>3
    <3> QED
      BY <3>1, <3>2
  <2> QED
    BY <2>1, <2>2, <2>3, <2>4 DEF SidecarRead
<1> HIDE DEF Inv, n
<1>7. f[0] \in D[0]
  BY <1>1, <1>4, <1>5
<1>8. ASSUME NEW i \in 1..n, f[i - 1] \in D[i - 1]
      PROVE  f[i] \in D[i]
  <2>1. i \in 0..n /\ i - 1 \in 0..n
    BY <1>1
  <2>2. f[i - 1] \in Readings(offset) /\ Inv(i - 1, f[i - 1])
    BY <1>8, <2>1
  <2>3. Inv(i, f[i])
    BY <1>4, <1>6, <2>2
  <2>4. f[i] \in Readings(offset)
    BY <2>3 DEF Inv, SidecarRead
  <2> QED
    BY <2>1, <2>3, <2>4
<1> HIDE DEF D
<1>9. \A i \in 0..n : f[i] \in D[i]
  BY <1>1, <1>7, <1>8, FoldHolds
<1>10. n \in 0..n
  BY <1>1
<1>11. Inv(n, f[n])
  BY <1>9, <1>10 DEF D
<1> QED
  BY <1>3, <1>11 DEF Inv, n

---------------------------------------------------------------------------
(* Types of what others write. *)

SourceLine == IF source = "codex" THEN CodexLine ELSE ClaudeLine

Types ==
    /\ source \in DOMAIN LogLines
    /\ clock \in Nat
    /\ log \in Seq(SourceLine)
    /\ history \in Seq(HistoryLine) /\ reflog \in Seq(ReflogLine)
    /\ sidecar \in Seq(CaptureRecord) /\ written \in Seq(CaptureRecord)
    /\ gone \subseteq DOMAIN written

(* A time stamped on a line or a record leaves it one. *)
LEMMA StampedTyped ==
    ASSUME clock \in Nat
    PROVE  /\ \A x \in ClaudeLine : Stamped(x) \in ClaudeLine
           /\ \A x \in CodexLine : Stamped(x) \in CodexLine
           /\ \A x \in HistoryLine : Stamped(x) \in HistoryLine
           /\ \A x \in ReflogLine : Stamped(x) \in ReflogLine
           /\ \A x \in CaptureRecord : Stamped(x) \in CaptureRecord
<1>1. \A a \in Nat : a * clock \in Nat
  OBVIOUS
<1>2. ASSUME NEW x \in ClaudeLine PROVE Stamped(x) \in ClaudeLine
  <2>1. x.at \in Nat
    BY DEF ClaudeLine
  <2> DEFINE b == x.at * clock
  <2>2. b \in Nat /\ Stamped(x) = [x EXCEPT !.at = b]
    BY <1>1, <2>1 DEF Stamped
  <2> HIDE DEF b
  <2> QED
    BY <2>2 DEF ClaudeLine
<1>3. ASSUME NEW x \in CodexLine PROVE Stamped(x) \in CodexLine
  <2>1. x.at \in Nat
    BY DEF CodexLine
  <2> DEFINE b == x.at * clock
  <2>2. b \in Nat /\ Stamped(x) = [x EXCEPT !.at = b]
    BY <1>1, <2>1 DEF Stamped
  <2> HIDE DEF b
  <2> QED
    BY <2>2 DEF CodexLine
<1>4. ASSUME NEW x \in HistoryLine PROVE Stamped(x) \in HistoryLine
  <2>1. x.at \in Nat
    BY DEF HistoryLine
  <2> DEFINE b == x.at * clock
  <2>2. b \in Nat /\ Stamped(x) = [x EXCEPT !.at = b]
    BY <1>1, <2>1 DEF Stamped
  <2> HIDE DEF b
  <2> QED
    BY <2>2 DEF HistoryLine
<1>5. ASSUME NEW x \in ReflogLine PROVE Stamped(x) \in ReflogLine
  <2>1. x.at \in Nat
    BY DEF ReflogLine
  <2> DEFINE b == x.at * clock
  <2>2. b \in Nat /\ Stamped(x) = [x EXCEPT !.at = b]
    BY <1>1, <2>1 DEF Stamped
  <2> HIDE DEF b
  <2> QED
    BY <2>2 DEF ReflogLine
<1>6. ASSUME NEW x \in CaptureRecord PROVE Stamped(x) \in CaptureRecord
  <2>1. x.at \in Nat
    BY DEF CaptureRecord
  <2> DEFINE b == x.at * clock
  <2>2. b \in Nat /\ Stamped(x) = [x EXCEPT !.at = b]
    BY <1>1, <2>1 DEF Stamped
  <2> HIDE DEF b
  <2> QED
    BY <2>2 DEF CaptureRecord
<1> QED
  BY <1>2, <1>3, <1>4, <1>5, <1>6

(* What is written to the store is a record. *)
LEMMA WrittenTyped ==
    ASSUME clock \in Nat, NEW record \in CaptureRecord,
           NEW link \in {NoEvent} \cup ({"store"} \X Nat)
    PROVE  [Stamped(record) EXCEPT !.mtime = clock, !.link = link] \in CaptureRecord
<1> DEFINE x == Stamped(record)
<1>1. x \in CaptureRecord
  BY StampedTyped
<1> HIDE DEF x
<1>2. [x EXCEPT !.mtime = clock, !.link = link] \in CaptureRecord
  BY <1>1 DEF CaptureRecord
<1> QED
  BY <1>2 DEF x

LEMMA InitTyped == Init => Types
<1> SUFFICES ASSUME Init PROVE Types
  OBVIOUS
<1>1. log = <<>> /\ history = <<>> /\ reflog = <<>> /\ sidecar = <<>> /\ written = <<>>
      /\ gone = {} /\ clock = 1 /\ source \in DOMAIN LogLines
  BY DEF Init
<1>2. \A S : <<>> \in Seq(S)
  BY EmptySeq
<1> QED
  BY <1>1, <1>2 DEF Types

LEMMA NextTyped == Types /\ [Next]_vars => Types'
<1> SUFFICES ASSUME Types, [Next]_vars PROVE Types'
  OBVIOUS
<1> USE DEF files, package
<1>1. \A S : \A s \in Seq(S), x \in S : Append(s, x) \in Seq(S)
  BY AppendProperties
<1>2. CASE AgentLogs
  <2>1. PICK line \in LogLines[source] : log' = Append(log, Stamped(line))
    BY <1>2 DEF AgentLogs
  <2>2. line \in SourceLine
    BY LogLinesShaped DEF Types, SourceLine
  <2>3. Stamped(line) \in SourceLine
    BY <2>2, StampedTyped DEF Types, SourceLine
  <2>4. UNCHANGED <<source, history, reflog, sidecar, written, gone, clock>>
    BY <1>2 DEF AgentLogs
  <2>5. log' \in Seq(SourceLine)
    BY <1>1, <2>1, <2>3 DEF Types
  <2> QED
    BY <2>4, <2>5 DEF Types, SourceLine
<1>3. CASE UserWorks
  <2>1. UNCHANGED <<source, log, sidecar, written, gone, clock>>
    BY <1>3 DEF UserWorks
  <2>2. history' \in Seq(HistoryLine) /\ reflog' \in Seq(ReflogLine)
    <3>1. CASE (\E line \in HistoryLines : history' = Append(history, Stamped(line))) /\ UNCHANGED reflog
      <4>1. PICK line \in HistoryLines : history' = Append(history, Stamped(line))
        BY <3>1
      <4>2. Stamped(line) \in HistoryLine
        BY HistoriesShaped, StampedTyped DEF Types
      <4> QED
        BY <1>1, <3>1, <4>1, <4>2 DEF Types
    <3>2. CASE (\E line \in ReflogLines : reflog' = Append(reflog, Stamped(line))) /\ UNCHANGED history
      <4>1. PICK line \in ReflogLines : reflog' = Append(reflog, Stamped(line))
        BY <3>2
      <4>2. Stamped(line) \in ReflogLine
        BY HistoriesShaped, StampedTyped DEF Types
      <4> QED
        BY <1>1, <3>2, <4>1, <4>2 DEF Types
    <3> QED
      BY <1>3, <3>1, <3>2 DEF UserWorks
  <2> QED
    BY <2>1, <2>2 DEF Types, SourceLine
<1>4. CASE RecordWritten
  <2>1. PICK record \in Records :
          \E link \in {NoEvent} \cup
             {<<"store", id>> : id \in {i \in DOMAIN written : /\ record.form = "effect"
                                                            /\ written[i].source = "hook"}} :
            written' = Append(written, [Stamped(record) EXCEPT !.mtime = clock, !.link = link])
    BY <1>4 DEF RecordWritten
  <2>2. PICK link \in {NoEvent} \cup {<<"store", id>> : id \in DOMAIN written} :
            written' = Append(written, [Stamped(record) EXCEPT !.mtime = clock, !.link = link])
    BY <2>1
  <2>3. DOMAIN written \subseteq Nat
    BY LenProperties DEF Types
  <2>4. link \in {NoEvent} \cup ({"store"} \X Nat)
    BY <2>3
  <2>5. record \in CaptureRecord
    BY RecordsShaped
  <2> DEFINE w == [Stamped(record) EXCEPT !.mtime = clock, !.link = link]
  <2>6. w \in CaptureRecord
    BY <2>4, <2>5, WrittenTyped DEF Types
  <2>7. written' = Append(written, w)
    BY <2>2
  <2> HIDE DEF w
  <2>8. written' \in Seq(CaptureRecord) /\ DOMAIN written \subseteq DOMAIN written'
    BY <2>6, <2>7, AppendProperties, LenProperties DEF Types
  <2>9. UNCHANGED <<source, log, history, reflog, sidecar, gone, clock>>
    BY <1>4 DEF RecordWritten
  <2> QED
    BY <2>8, <2>9 DEF Types, SourceLine
<1>5. CASE FailureWritten
  <2>1. PICK line \in FailureLines : sidecar' = Append(sidecar, Stamped(line))
    BY <1>5 DEF FailureWritten
  <2>2. Stamped(line) \in CaptureRecord
    BY RecordsShaped, StampedTyped DEF Types
  <2>3. UNCHANGED <<source, log, history, reflog, written, gone, clock>>
    BY <1>5 DEF FailureWritten
  <2> QED
    BY <1>1, <2>1, <2>2, <2>3 DEF Types, SourceLine
<1>6. CASE Tick
  <2>1. PICK d \in Delays : clock' = clock + d
    BY <1>6 DEF Tick
  <2>2. clock' \in Nat
    BY <2>1, TimesAreNumbers DEF Types
  <2>3. UNCHANGED <<source, log, history, reflog, sidecar, written, gone>>
    BY <1>6 DEF Tick
  <2> QED
    BY <2>2, <2>3 DEF Types, SourceLine
<1>7. CASE CapturesPrune
  <2>1. PICK id \in Store : gone' = gone \cup {id}
    BY <1>7 DEF CapturesPrune
  <2>2. UNCHANGED <<source, log, history, reflog, sidecar, written, clock>>
    BY <1>7 DEF CapturesPrune
  <2> QED
    BY <2>1, <2>2 DEF Types, SourceLine, Store
<1>8. CASE ReadLog
  BY <1>8 DEF ReadLog, Types, SourceLine
<1>9. CASE ListStore
  BY <1>9 DEF ListStore, Types, SourceLine
<1>10. CASE ReadFile
  BY <1>10 DEF ReadFile, Types, SourceLine
<1>11. CASE ReadFailuresAndMerge
  BY <1>11 DEF ReadFailuresAndMerge, Types, SourceLine
<1>12. CASE UNCHANGED vars
  BY <1>12 DEF vars, Types, SourceLine
<1> QED
  BY <1>2, <1>3, <1>4, <1>5, <1>6, <1>7, <1>8, <1>9, <1>10, <1>11, <1>12 DEF Next

---------------------------------------------------------------------------
(* What the reading has, file by file. *)

FromStore(k) ==
    \E id \in listed :
        /\ Belongs(written[id], Scope)
        /\ reading.events[k] = RecordEvent(<<"store", id>>, written[id], Offset + (k - 1))

FromSidecar(k) ==
    \E i \in DOMAIN sidecar :
        /\ Belongs(sidecar[i], Scope)
        /\ reading.events[k] = RecordEvent(<<"sidecar", i>>, sidecar[i], Offset + (k - 1))

ToBeRead(id) == \E m \in DOMAIN listing : listing[m] = id

Held(id) ==
    \E k \in DOMAIN reading.events :
        reading.events[k] = RecordEvent(<<"store", id>>, written[id], Offset + (k - 1))

Gathered ==
    /\ pc \in {"log", "list", "read", "done"}
    /\ pc \in {"log", "list"} => reading = NothingRead
    /\ pc = "done" => listing = <<>>
    /\ pc \in {"read", "done"} =>
         /\ listed \subseteq DOMAIN written
         /\ listing \in Seq(listed)
         /\ reading \in Readings(Offset)
         /\ Counted(reading) + Len(listing)
              = Cardinality(listed) + (IF pc = "done" THEN Len(sidecar) ELSE 0)
         /\ \A k \in DOMAIN reading.events : FromStore(k) \/ (pc = "done" /\ FromSidecar(k))
         /\ \A id \in listed \ gone : Belongs(written[id], Scope) => ToBeRead(id) \/ Held(id)

LEMMA NothingReadTyped ==
    ASSUME NEW offset
    PROVE  NothingRead \in Readings(offset) /\ Counted(NothingRead) = 0
           /\ DOMAIN NothingRead.events = {}
<1> DEFINE z == [why \in Exclusions |-> 0]
<1>1. NothingRead = [events |-> <<>>, read |-> 0, excluded |-> z]
  BY DEF NothingRead
<1>2. z \in [Exclusions -> Nat] /\ \A why \in Exclusions : z[why] = 0
  OBVIOUS
<1>3. Excluded(z) = 0
  BY <1>2 DEF Excluded, Exclusions
<1>4. <<>> \in Seq(CaptureEvents(offset)) /\ Len(<<>>) = 0 /\ DOMAIN <<>> = {}
  BY EmptySeq, LenProperties
<1> HIDE DEF z
<1> QED
  BY <1>1, <1>2, <1>3, <1>4 DEF Readings, Counted

\* What decides about records and where their events go.
Bearings == <<source, all, log, clock, spine, shell, refs>>

LEMMA BearingsDecide ==
    ASSUME UNCHANGED Bearings PROVE Scope' = Scope /\ Offset' = Offset
BY DEF Bearings, Scope, Offset, AgentSessionId, SessionStart

\* Another's step: nothing read, listed or taken back.
Elsewhere ==
    /\ UNCHANGED <<pc, listing, listed, reading>>
    /\ pc \in {"read", "done"} => UNCHANGED Bearings
    /\ DOMAIN written \subseteq DOMAIN written'
    /\ \A id \in DOMAIN written : written'[id] = written[id]
    /\ gone \subseteq gone'
    /\ pc = "done" => UNCHANGED sidecar

LEMMA ElsewhereKeeps == Gathered /\ Elsewhere => Gathered'
<1> SUFFICES ASSUME Gathered, Elsewhere PROVE Gathered'
  OBVIOUS
<1>1. CASE pc \in {"log", "list"}
  <2>1. pc' = pc /\ reading' = reading
    BY DEF Elsewhere
  <2> QED
    BY <1>1, <2>1 DEF Gathered
<1>2. CASE pc \in {"read", "done"}
  <2>1. pc' = pc /\ listing' = listing /\ listed' = listed /\ reading' = reading
        /\ Scope' = Scope /\ Offset' = Offset
    BY <1>2, BearingsDecide DEF Elsewhere
  <2>2. \A id \in listed : id \in DOMAIN written /\ written'[id] = written[id]
    BY <1>2 DEF Gathered, Elsewhere
  <2>3. listed' \subseteq DOMAIN written' /\ listing' \in Seq(listed') /\ reading' \in Readings(Offset')
    BY <1>2, <2>1 DEF Gathered, Elsewhere
  <2>4. (Counted(reading) + Len(listing))'
          = (Cardinality(listed) + (IF pc = "done" THEN Len(sidecar) ELSE 0))'
    BY <1>2, <2>1 DEF Gathered, Elsewhere, Counted
  <2>5. ASSUME NEW k \in DOMAIN reading'.events
        PROVE  FromStore(k)' \/ (pc' = "done" /\ FromSidecar(k)')
    <3>1. CASE FromStore(k)
      <4>1. FromStore(k)'
        BY <2>1, <2>2, <3>1 DEF FromStore
      <4> QED
        BY <4>1
    <3>2. CASE pc = "done" /\ FromSidecar(k)
      <4>1. FromSidecar(k)'
        BY <2>1, <3>2 DEF FromSidecar, Elsewhere
      <4> QED
        BY <2>1, <3>2, <4>1
    <3> QED
      BY <1>2, <2>1, <3>1, <3>2 DEF Gathered
  <2>6. ASSUME NEW id \in listed' \ gone', Belongs(written'[id], Scope')
        PROVE  ToBeRead(id)' \/ Held(id)'
    <3>1. id \in listed \ gone /\ Belongs(written[id], Scope)
      BY <2>1, <2>2, <2>6 DEF Elsewhere
    <3>2. CASE ToBeRead(id)
      BY <2>1, <3>2 DEF ToBeRead
    <3>3. CASE Held(id)
      BY <2>1, <2>2, <3>1, <3>3 DEF Held
    <3> QED
      BY <1>2, <3>1, <3>2, <3>3 DEF Gathered
  <2>7. pc' \in {"log", "list", "read", "done"} /\ (pc' = "done" => listing' = <<>>)
    BY <2>1 DEF Gathered
  <2>8. ~ (pc' \in {"log", "list"})
    BY <1>2, <2>1
  <2> QED
    BY <2>3, <2>4, <2>5, <2>6, <2>7, <2>8 DEF Gathered
<1> QED
  BY <1>1, <1>2 DEF Gathered

LEMMA OthersElsewhere ==
    ASSUME Types, AgentLogs \/ UserWorks \/ RecordWritten \/ FailureWritten \/ Tick \/ CapturesPrune
    PROVE  Elsewhere
<1> USE DEF files, package
<1>1. CASE AgentLogs
  BY <1>1 DEF AgentLogs, Elsewhere
<1>2. CASE UserWorks
  BY <1>2 DEF UserWorks, Elsewhere, Bearings
<1>3. CASE RecordWritten
  <2>1. PICK w : written' = Append(written, w)
    BY <1>3 DEF RecordWritten
  <2>2. written \in Seq(CaptureRecord) /\ DOMAIN written = 1..Len(written) /\ Len(written) \in Nat
    BY LenProperties DEF Types
  <2>3. DOMAIN written' = 1..(Len(written) + 1) /\ \A id \in 1..Len(written) : written'[id] = written[id]
    BY <2>1, <2>2
  <2>4. DOMAIN written \subseteq DOMAIN written' /\ \A id \in DOMAIN written : written'[id] = written[id]
    BY <2>2, <2>3
  <2> QED
    BY <1>3, <2>4 DEF RecordWritten, Elsewhere, Bearings
<1>4. CASE FailureWritten
  BY <1>4 DEF FailureWritten, Elsewhere, Bearings
<1>5. CASE Tick
  BY <1>5 DEF Tick, Elsewhere
<1>6. CASE CapturesPrune
  BY <1>6 DEF CapturesPrune, Elsewhere, Bearings
<1> QED
  BY <1>1, <1>2, <1>3, <1>4, <1>5, <1>6

LEMMA ListStoreKeeps == Types /\ Gathered /\ ListStore => Gathered'
<1> SUFFICES ASSUME Types, Gathered, ListStore PROVE Gathered'
  OBVIOUS
<1>1. /\ pc = "list" /\ pc' = "read" /\ listing' = InOrder(Store) /\ listed' = Store
      /\ UNCHANGED <<reading, written, gone, sidecar>> /\ UNCHANGED Bearings
  BY DEF ListStore, files, Bearings
<1>2. Scope' = Scope /\ Offset' = Offset
  BY <1>1, BearingsDecide
<1>3. DOMAIN written = 1..Len(written) /\ Len(written) \in Nat
  BY LenProperties DEF Types
<1>4. Store \in SUBSET Nat /\ IsFiniteSet(Store) /\ Store \subseteq DOMAIN written
  <2>1. IsFiniteSet(1..Len(written))
    BY <1>3, FS_Interval
  <2>2. Store \subseteq 1..Len(written) /\ Store \subseteq DOMAIN written
    BY <1>3 DEF Store
  <2>3. IsFiniteSet(Store)
    BY <2>1, <2>2, FS_Subset
  <2>4. 1..Len(written) \subseteq Nat
    OBVIOUS
  <2> QED
    BY <2>2, <2>3, <2>4
<1>5. Lists(listing', Store)
  BY <1>1, <1>4, InOrderIs
<1> DEFINE n == Cardinality(Store)
<1>6. listing' \in Seq(Store) /\ Len(listing') = n /\ DOMAIN listing' = 1..n
  <2>1. n \in Nat /\ listing' = [k \in 1..n |-> listing'[k]] /\ \A k \in 1..n : listing'[k] \in Store
    BY <1>5 DEF Lists
  <2> HIDE DEF n
  <2>2. listing' \in [1..n -> Store]
    BY <2>1
  <2> QED
    BY <2>1, <2>2, IsASeq, LenProperties
<1>7. reading' = NothingRead
  BY <1>1 DEF Gathered
<1>8. reading' \in Readings(Offset') /\ Counted(reading') = 0 /\ DOMAIN reading'.events = {}
  BY <1>7, NothingReadTyped
<1>9. Counted(reading') + Len(listing') = Cardinality(listed') + (IF pc' = "done" THEN Len(sidecar') ELSE 0)
  <2>1. n \in Nat
    BY <1>5 DEF Lists
  <2> QED
    BY <1>1, <1>6, <1>8, <2>1
<1>10. \A id \in listed' : ToBeRead(id)'
  BY <1>1, <1>5, <1>6 DEF Lists, ToBeRead
<1>11. listed' \subseteq DOMAIN written' /\ listing' \in Seq(listed')
  BY <1>1, <1>4, <1>6
<1> QED
  BY <1>1, <1>8, <1>9, <1>10, <1>11 DEF Gathered

(* Between two files. *)
LEMMA WhileReading ==
    ASSUME Types, Gathered, pc = "read"
    PROVE  /\ listed \subseteq DOMAIN written /\ listing \in Seq(listed) /\ reading \in Readings(Offset)
           /\ Counted(reading) + Len(listing) = Cardinality(listed)
           /\ \A k \in DOMAIN reading.events : FromStore(k)
           /\ \A id \in listed \ gone : Belongs(written[id], Scope) => ToBeRead(id) \/ Held(id)
<1>1. pc # "done" /\ pc \in {"read", "done"}
  OBVIOUS
<1>2. /\ listed \subseteq DOMAIN written /\ listing \in Seq(listed) /\ reading \in Readings(Offset)
      /\ Counted(reading) + Len(listing) = Cardinality(listed) + 0
      /\ \A k \in DOMAIN reading.events : FromStore(k)
      /\ \A id \in listed \ gone : Belongs(written[id], Scope) => ToBeRead(id) \/ Held(id)
  BY <1>1 DEF Gathered
<1>3. Cardinality(listed) \in Nat
  <2>1. DOMAIN written = 1..Len(written) /\ Len(written) \in Nat
    BY LenProperties DEF Types
  <2>2. IsFiniteSet(DOMAIN written)
    BY <2>1, FS_Interval
  <2> QED
    BY <1>2, <2>2, FS_Subset, FS_CardinalityType
<1> QED
  BY <1>2, <1>3

LEMMA ReadFileKeeps == Types /\ Gathered /\ ReadFile => Gathered'
<1> SUFFICES ASSUME Types, Gathered, ReadFile PROVE Gathered'
  OBVIOUS
<1> DEFINE h == Head(listing)
           found == IF h \in gone THEN {} ELSE {written[h]}
<1>1. /\ pc = "read" /\ pc' = "read" /\ listing # <<>>
      /\ reading' = ReadRecord(reading, <<"store", h>>, found, Scope, Offset)
      /\ listing' = Tail(listing)
      /\ UNCHANGED <<listed, written, gone, sidecar>> /\ UNCHANGED Bearings
  BY DEF ReadFile, files, Bearings
<1>2. Scope' = Scope /\ Offset' = Offset
  BY <1>1, BearingsDecide
<1>3. /\ listed \subseteq DOMAIN written /\ listing \in Seq(listed) /\ reading \in Readings(Offset)
      /\ Counted(reading) + Len(listing) = Cardinality(listed)
      /\ \A k \in DOMAIN reading.events : FromStore(k)
      /\ \A id \in listed \ gone : Belongs(written[id], Scope) => ToBeRead(id) \/ Held(id)
  BY <1>1, WhileReading
<1>4. /\ h \in listed /\ listing[1] = h /\ listing' \in Seq(listed)
      /\ Len(listing) \in Nat /\ Len(listing') = Len(listing) - 1
      /\ DOMAIN listing = 1..Len(listing) /\ DOMAIN listing' = 1..Len(listing')
      /\ \A m \in 1..Len(listing') : listing'[m] = listing[m + 1]
  BY <1>1, <1>3, HeadTailProperties, LenProperties, ElementOfSeq
<1>5. h \in Nat /\ written[h] \in CaptureRecord
  BY <1>3, <1>4, LenProperties, ElementOfSeq DEF Types
<1>6. /\ reading' \in Readings(Offset)
      /\ Counted(reading') = Counted(reading) + 1
      /\ \A k \in DOMAIN reading.events :
           k \in DOMAIN reading'.events /\ reading'.events[k] = reading.events[k]
      /\ \A k \in DOMAIN reading'.events : k \in DOMAIN reading.events \/
           /\ Belongs(written[h], Scope)
           /\ reading'.events[k] = RecordEvent(<<"store", h>>, written[h], Offset + (k - 1))
      /\ h \notin gone /\ Belongs(written[h], Scope) =>
           \E k \in DOMAIN reading'.events :
             reading'.events[k] = RecordEvent(<<"store", h>>, written[h], Offset + (k - 1))
  <2>1. CASE h \in gone
    <3>1. reading' = LeftOut(reading, "malformed") /\ "malformed" \in Exclusions
      BY <1>1, <2>1 DEF ReadRecord, Exclusions
    <3> HIDE DEF h
    <3>2. reading' \in Readings(Offset) /\ reading'.events = reading.events
          /\ Counted(reading') = Counted(reading) + 1
      BY <1>3, <3>1, LeftOutIs
    <3> QED
      BY <2>1, <3>2
  <2>2. CASE h \notin gone
    <3>1. reading' = ReadRecord(reading, <<"store", h>>, {written[h]}, Scope, Offset)
      BY <1>1, <2>2
    <3> HIDE DEF h
    <3>2. /\ reading' \in Readings(Offset) /\ Counted(reading') = Counted(reading) + 1
          /\ Adds(reading', reading, <<"store", h>>, written[h], Scope, Offset)
      BY <1>3, <1>5, <3>1, ReadRecordIs
    <3>3. Len(reading.events) \in Nat /\ DOMAIN reading.events = 1..Len(reading.events)
      BY <1>3, LenProperties DEF Readings
    <3>4. ASSUME NEW k \in DOMAIN reading'.events, k \notin DOMAIN reading.events
          PROVE  /\ Belongs(written[h], Scope)
                 /\ reading'.events[k] = RecordEvent(<<"store", h>>, written[h], Offset + (k - 1))
      <4>1. /\ Belongs(written[h], Scope)
            /\ k = Len(reading.events) + 1
            /\ reading'.events[k] = RecordEvent(<<"store", h>>, written[h], Offset + Len(reading.events))
        BY <3>2, <3>4 DEF Adds
      <4>2. k - 1 = Len(reading.events)
        BY <3>3, <4>1
      <4> QED
        BY <4>1, <4>2
    <3>5. Belongs(written[h], Scope) =>
            /\ Len(reading.events) + 1 \in DOMAIN reading'.events
            /\ Len(reading.events) + 1 \notin DOMAIN reading.events
      BY <3>2, <3>3 DEF Adds
    <3> QED
      BY <3>2, <3>4, <3>5 DEF Adds
  <2> QED
    BY <2>1, <2>2
<1> HIDE DEF h, found
<1>7. Counted(reading') + Len(listing') = Cardinality(listed') + (IF pc' = "done" THEN Len(sidecar') ELSE 0)
  <2>1. Counted(reading) \in Nat
    <3>1. "malformed" \in Exclusions
      BY DEF Exclusions
    <3> QED
      BY <1>3, <3>1, LeftOutIs
  <2> QED
    BY <1>1, <1>3, <1>4, <1>6, <2>1
<1>8. ASSUME NEW k \in DOMAIN reading'.events PROVE FromStore(k)'
  <2>1. CASE k \in DOMAIN reading.events
    <3>1. FromStore(k) /\ reading'.events[k] = reading.events[k]
      BY <1>3, <1>6, <2>1
    <3> QED
      BY <1>1, <1>2, <3>1 DEF FromStore
  <2>2. CASE k \notin DOMAIN reading.events
    <3>1. Belongs(written[h], Scope)
          /\ reading'.events[k] = RecordEvent(<<"store", h>>, written[h], Offset + (k - 1))
      BY <1>6, <2>2
    <3> QED
      BY <1>1, <1>2, <1>4, <3>1 DEF FromStore
  <2> QED
    BY <2>1, <2>2
<1>9. ASSUME NEW id \in listed' \ gone', Belongs(written'[id], Scope')
      PROVE  ToBeRead(id)' \/ Held(id)'
  <2>1. id \in listed \ gone /\ Belongs(written[id], Scope)
    BY <1>1, <1>2, <1>9
  <2>2. CASE id = h
    BY <1>1, <1>2, <1>6, <2>1, <2>2 DEF Held
  <2>3. CASE id # h /\ ToBeRead(id)
    <3>1. PICK m \in DOMAIN listing : listing[m] = id
      BY <2>3 DEF ToBeRead
    <3>2. m # 1 /\ m \in 1..Len(listing)
      BY <1>4, <2>3, <3>1
    <3>3. m - 1 \in 1..Len(listing') /\ (m - 1) + 1 = m
      BY <1>4, <3>2
    <3>4. listing'[m - 1] = id
      BY <1>4, <3>1, <3>3
    <3> QED
      BY <1>4, <3>3, <3>4 DEF ToBeRead
  <2>4. CASE Held(id)
    <3>1. PICK k \in DOMAIN reading.events :
            reading.events[k] = RecordEvent(<<"store", id>>, written[id], Offset + (k - 1))
      BY <2>4 DEF Held
    <3> QED
      BY <1>1, <1>2, <1>6, <3>1 DEF Held
  <2> QED
    BY <1>3, <2>1, <2>2, <2>3, <2>4
<1> QED
  BY <1>1, <1>2, <1>3, <1>4, <1>6, <1>7, <1>8, <1>9 DEF Gathered

LEMMA ReadFailuresKeeps == Types /\ Gathered /\ ReadFailuresAndMerge => Gathered'
<1> SUFFICES ASSUME Types, Gathered, ReadFailuresAndMerge PROVE Gathered'
  OBVIOUS
<1>1. /\ pc = "read" /\ pc' = "done" /\ listing = <<>>
      /\ reading' = ReadSidecar(reading, sidecar, Scope, Offset)
      /\ UNCHANGED <<listing, listed, written, gone, sidecar>> /\ UNCHANGED Bearings
  BY DEF ReadFailuresAndMerge, files, Bearings
<1>2. Scope' = Scope /\ Offset' = Offset
  BY <1>1, BearingsDecide
<1>3. /\ listed \subseteq DOMAIN written /\ listing \in Seq(listed) /\ reading \in Readings(Offset)
      /\ Counted(reading) + Len(listing) = Cardinality(listed)
      /\ \A k \in DOMAIN reading.events : FromStore(k)
      /\ \A id \in listed \ gone : Belongs(written[id], Scope) => ToBeRead(id) \/ Held(id)
  BY <1>1, WhileReading
<1>4. SidecarRead(reading', reading, sidecar, Scope, Offset, Len(sidecar))
  BY <1>1, <1>3, ReadSidecarIs DEF Types
<1>5. Len(listing) = 0 /\ DOMAIN listing = {}
  BY <1>1, EmptySeq, LenProperties
<1>6. Counted(reading') + Len(listing') = Cardinality(listed') + (IF pc' = "done" THEN Len(sidecar') ELSE 0)
  <2>1. Counted(reading) \in Nat /\ Len(sidecar) \in Nat
    <3>1. "malformed" \in Exclusions
      BY DEF Exclusions
    <3> QED
      BY <1>3, <3>1, LeftOutIs, LenProperties DEF Types
  <2>2. Counted(reading') = Counted(reading) + Len(sidecar)
    BY <1>4 DEF SidecarRead
  <2> QED
    BY <1>1, <1>3, <1>5, <2>1, <2>2
<1>7. ASSUME NEW k \in DOMAIN reading'.events
      PROVE  FromStore(k)' \/ (pc' = "done" /\ FromSidecar(k)')
  <2>1. CASE k \in DOMAIN reading.events
    <3>1. FromStore(k) /\ reading'.events[k] = reading.events[k]
      BY <1>3, <1>4, <2>1 DEF SidecarRead
    <3>2. FromStore(k)'
      BY <1>1, <1>2, <3>1 DEF FromStore
    <3> QED
      BY <3>2
  <2>2. CASE k \notin DOMAIN reading.events
    <3>1. FromSidecar(k)'
      BY <1>1, <1>2, <1>4, <2>2 DEF SidecarRead, FromSidecar
    <3> QED
      BY <1>1, <3>1
  <2> QED
    BY <2>1, <2>2
<1>8. ASSUME NEW id \in listed' \ gone', Belongs(written'[id], Scope')
      PROVE  Held(id)'
  <2>1. id \in listed \ gone /\ Belongs(written[id], Scope)
    BY <1>1, <1>2, <1>8
  <2>2. Held(id)
    BY <1>3, <1>5, <2>1 DEF ToBeRead
  <2>3. PICK k \in DOMAIN reading.events :
          reading.events[k] = RecordEvent(<<"store", id>>, written[id], Offset + (k - 1))
    BY <2>2 DEF Held
  <2>4. k \in DOMAIN reading'.events /\ reading'.events[k] = reading.events[k]
    BY <1>4 DEF SidecarRead
  <2> QED
    BY <1>1, <1>2, <2>3, <2>4 DEF Held
<1>9. reading' \in Readings(Offset')
  BY <1>2, <1>4 DEF SidecarRead
<1> QED
  BY <1>1, <1>3, <1>6, <1>7, <1>8, <1>9 DEF Gathered

---------------------------------------------------------------------------
(* The invariant. *)

\* The log and its siblings were read at one time and have not changed since.
ReadOff ==
    pc # "log" =>
        /\ spine = SessionLogEvents
        /\ shell = ShellHistoryEvents(history, Len(spine), SessionStart(spine))
        /\ refs = ReflogToEvents(ParseGitReflog(reflog), Len(spine) + Len(shell), clock)

MergedAll == pc = "done" => out = MergeEvents(spine, shell, refs, reading.events)

PipeInv == Types /\ Gathered /\ ReadOff /\ MergedAll

LEMMA InitPipeInv == Init => PipeInv
<1> SUFFICES ASSUME Init PROVE PipeInv
  OBVIOUS
<1>1. Types
  BY InitTyped
<1>2. pc = "log" /\ reading = NothingRead
  BY DEF Init
<1> QED
  BY <1>1, <1>2 DEF PipeInv, Gathered, ReadOff, MergedAll

LEMMA NextPipeInv == PipeInv /\ [Next]_vars => PipeInv'
<1> SUFFICES ASSUME PipeInv, [Next]_vars PROVE PipeInv'
  OBVIOUS
<1>1. Types /\ Gathered /\ ReadOff /\ MergedAll /\ Types'
  BY NextTyped DEF PipeInv
<1> DEFINE Others == AgentLogs \/ UserWorks \/ RecordWritten \/ FailureWritten \/ Tick \/ CapturesPrune
<1>2. CASE Others
  <2>1. Gathered'
    BY <1>1, <1>2, OthersElsewhere, ElsewhereKeeps
  <2>2. /\ UNCHANGED <<pc, spine, shell, refs, reading, out>>
        /\ pc # "log" => UNCHANGED <<source, log, history, reflog, clock>>
    BY <1>2 DEF AgentLogs, UserWorks, RecordWritten, FailureWritten, Tick, CapturesPrune, files, package
  <2>3. ReadOff'
    BY <1>1, <2>2 DEF ReadOff, SessionLogEvents, SessionStart
  <2>4. MergedAll'
    BY <1>1, <2>2 DEF MergedAll
  <2> QED
    BY <1>1, <2>1, <2>3, <2>4 DEF PipeInv
<1>3. CASE ReadLog
  <2>1. pc = "log" /\ pc' = "list" /\ UNCHANGED <<reading, source, log, history, reflog, clock>>
    BY <1>3 DEF ReadLog, files
  <2>2. Gathered'
    BY <1>1, <2>1 DEF Gathered
  <2>3. ReadOff'
    BY <1>3, <2>1 DEF ReadOff, ReadLog, SessionLogEvents, SessionStart
  <2> QED
    BY <1>1, <2>1, <2>2, <2>3 DEF PipeInv, MergedAll
<1>4. CASE ListStore
  <2>1. pc # "log" /\ pc' = "read" /\ UNCHANGED <<spine, shell, refs, source, log, history, reflog, clock>>
    BY <1>4 DEF ListStore, files
  <2>2. ReadOff'
    BY <1>1, <2>1 DEF ReadOff, SessionLogEvents, SessionStart
  <2> QED
    BY <1>1, <1>4, <2>1, <2>2, ListStoreKeeps DEF PipeInv, MergedAll
<1>5. CASE ReadFile
  <2>1. pc = "read" /\ UNCHANGED <<pc, spine, shell, refs, source, log, history, reflog, clock>>
    BY <1>5 DEF ReadFile, files
  <2>2. ReadOff'
    BY <1>1, <2>1 DEF ReadOff, SessionLogEvents, SessionStart
  <2> QED
    BY <1>1, <1>5, <2>1, <2>2, ReadFileKeeps DEF PipeInv, MergedAll
<1>6. CASE ReadFailuresAndMerge
  <2>1. /\ pc # "log" /\ pc' = "done" /\ UNCHANGED <<spine, shell, refs, source, log, history, reflog, clock>>
        /\ out' = MergeEvents(spine, shell, refs, reading'.events)
    BY <1>6 DEF ReadFailuresAndMerge, files
  <2>2. ReadOff'
    BY <1>1, <2>1 DEF ReadOff, SessionLogEvents, SessionStart
  <2>3. MergedAll'
    BY <2>1 DEF MergedAll
  <2> QED
    BY <1>1, <1>6, <2>2, <2>3, ReadFailuresKeeps DEF PipeInv
<1>7. CASE UNCHANGED vars
  <2>1. Elsewhere
    BY <1>7 DEF vars, Elsewhere, Bearings
  <2>2. Gathered'
    BY <1>1, <2>1, ElsewhereKeeps
  <2>3. ReadOff' /\ MergedAll'
    BY <1>1, <1>7 DEF ReadOff, MergedAll, vars, SessionLogEvents, SessionStart
  <2> QED
    BY <1>1, <2>2, <2>3 DEF PipeInv
<1> QED
  BY <1>2, <1>3, <1>4, <1>5, <1>6, <1>7 DEF Next

(* Reading and merging keep the strengthened invariant, whoever writes,     *)
(* prunes or appends in between.                                            *)
THEOREM Invariance == Spec => []PipeInv
<1>1. Init => PipeInv
  BY InitPipeInv
<1>2. PipeInv /\ [Next]_vars => PipeInv'
  BY NextPipeInv
<1> QED
  BY <1>1, <1>2, PTL DEF Spec

---------------------------------------------------------------------------
(* What is in the bundle is the session's, and what is not is counted. *)

(* Classify includes no record of another session, and none without one     *)
(* unless it was asked to.                                                  *)
LEMMA IncludedIsScoped ==
    ASSUME NEW session, NEW at, NEW scope, Classify(session, at, scope) = "include",
           scope.session # "", session # scope.session
    PROVE  session = "" /\ scope.all /\ InWindow(at, scope)
<1>1. CASE session # ""
  BY <1>1 DEF Classify
<1>2. CASE session = ""
  <2>1. "include" = IF ~ scope.all THEN "unattributed"
                    ELSE IF InWindow(at, scope) THEN "include" ELSE "outside-session-window"
    BY <1>2 DEF Classify
  <2>2. scope.all
    BY <2>1
  <2>3. InWindow(at, scope)
    BY <2>1, <2>2
  <2> QED
    BY <1>2, <2>2, <2>3
<1> QED
  BY <1>1, <1>2

LEMMA DoneIsScoped == PipeInv => ScopedAndCounted
<1> SUFFICES ASSUME PipeInv, pc = "done" PROVE ScopedAndCounted
  BY DEF ScopedAndCounted
<1>1. Types /\ Gathered
  BY DEF PipeInv
<1>2. /\ listed \subseteq DOMAIN written /\ listing \in Seq(listed) /\ reading \in Readings(Offset)
      /\ Counted(reading) + Len(listing) = Cardinality(listed) + Len(sidecar)
      /\ \A k \in DOMAIN reading.events : FromStore(k) \/ FromSidecar(k)
      /\ listing = <<>>
  BY <1>1 DEF Gathered
<1>3. Len(reading.events) + Excluded(reading.excluded) = Cardinality(listed) + Len(sidecar)
  <2>1. Counted(reading) \in Nat
    <3>1. "malformed" \in Exclusions
      BY DEF Exclusions
    <3> QED
      BY <1>2, <3>1, LeftOutIs
  <2>2. Len(listing) = 0
    BY <1>2
  <2>3. Counted(reading) = Cardinality(listed) + Len(sidecar)
    BY <1>2, <2>1, <2>2
  <2> QED
    BY <2>3 DEF Counted
<1>4. Scope.session = AgentSessionId /\ Scope.all = all
  BY DEF Scope
<1>5. ASSUME NEW e \in ToSet(reading.events), AgentSessionId # "", RecordOf(e).session # AgentSessionId
      PROVE  RecordOf(e).session = "" /\ all /\ InWindow(e.at, Scope)
  <2>1. PICK k \in DOMAIN reading.events : e = reading.events[k]
    BY DEF ToSet
  <2>2. \E record : /\ Belongs(record, Scope) /\ RecordOf(e) = record /\ e.at = CapturedAt(record)
    <3>1. CASE FromStore(k)
      <4>1. PICK id \in listed :
              /\ Belongs(written[id], Scope)
              /\ e = RecordEvent(<<"store", id>>, written[id], Offset + (k - 1))
        BY <2>1, <3>1 DEF FromStore
      <4> DEFINE mono == Offset + (k - 1)
      <4>2. e.id[1] = "store" /\ e.id[2] = id /\ e.at = CapturedAt(written[id])
        <5>1. e = RecordEvent(<<"store", id>>, written[id], mono)
          BY <4>1
        <5> HIDE DEF mono
        <5>2. e.id = <<"store", id>> /\ e.at = CapturedAt(written[id])
          BY <5>1 DEF RecordEvent, BuildEvent
        <5> QED
          BY <5>2
      <4>3. RecordOf(e) = written[id]
        BY <4>2 DEF RecordOf
      <4> QED
        BY <4>1, <4>2, <4>3
    <3>2. CASE FromSidecar(k)
      <4>1. PICK i \in DOMAIN sidecar :
              /\ Belongs(sidecar[i], Scope)
              /\ e = RecordEvent(<<"sidecar", i>>, sidecar[i], Offset + (k - 1))
        BY <2>1, <3>2 DEF FromSidecar
      <4> DEFINE mono == Offset + (k - 1)
      <4>2. e.id[1] = "sidecar" /\ e.id[2] = i /\ e.at = CapturedAt(sidecar[i])
        <5>1. e = RecordEvent(<<"sidecar", i>>, sidecar[i], mono)
          BY <4>1
        <5> HIDE DEF mono
        <5>2. e.id = <<"sidecar", i>> /\ e.at = CapturedAt(sidecar[i])
          BY <5>1 DEF RecordEvent, BuildEvent
        <5> QED
          BY <5>2
      <4>3. RecordOf(e) = sidecar[i]
        BY <4>2 DEF RecordOf
      <4> QED
        BY <4>1, <4>2, <4>3
    <3> QED
      BY <1>2, <3>1, <3>2
  <2>3. PICK record : Belongs(record, Scope) /\ RecordOf(e) = record /\ e.at = CapturedAt(record)
    BY <2>2
  <2>4. Classify(record.session, e.at, Scope) = "include"
    BY <2>3 DEF Belongs
  <2>5. record.session = "" /\ Scope.all /\ InWindow(e.at, Scope)
    BY <1>4, <1>5, <2>3, <2>4, IncludedIsScoped
  <2> QED
    BY <1>4, <2>3, <2>5
<1> QED
  BY <1>3, <1>5 DEF ScopedAndCounted

(* The bundle holds no record of another session, and none without a        *)
(* session but as asked and inside the window; whatever was listed or stood *)
(* in the sidecar is held or counted as left out, though records are        *)
(* written and pruned while the store is read.                              *)
THEOREM BundleIsScopedAndCounted == Spec => []ScopedAndCounted
<1>1. PipeInv => ScopedAndCounted
  BY DoneIsScoped
<1> QED
  BY <1>1, Invariance, PTL

---------------------------------------------------------------------------
(* Events. *)

\* The provers have to be told that a literal is a string.
Literals ==
    {"", "none", "log", "history", "reflog", "store", "sidecar", "gap", "prompt",
     "assistant_message", "tool_result", "tool_call_intent", "tool_call_effect", "file_diff",
     "error", "shell_command_pre", "shell_command_post", "process_spawn", "capture_failed",
     "malformed", "reconstructed", "bash", "-c", "line", "git", "reflog_change_without_command",
     "tool_result_without_pre_capture", "pre_capture_without_tool_result",
     "intent_without_effect", "effect_without_intent", "kernel_execve_without_hook"}

Text == STRING \cup Literals

Ids == Seq(Text \cup Nat)

Event(ids, reasons) ==
    [id : ids, type : Text, at : Int, mono : Int, parent : Ids, use : Text,
     argv : Seq(Text), cwd : Seq(Text), source : Text, pids : SUBSET Nat,
     input : Text, files : {<<>>}, link : Ids, reason : reasons]

NoReason == {""}

LEMMA TupleIs ==
    ASSUME NEW S, NEW a \in S, NEW b \in S, NEW c \in S
    PROVE  <<a>> \in Seq(S) /\ <<a, b>> \in Seq(S) /\ <<a, b, c>> \in Seq(S)
OBVIOUS

LEMMA IdsAre ==
    /\ NoEvent \in Ids
    /\ \A n, k \in Nat : LineEvent(n, k) \in Ids /\ ItemEvent(n, k) \in Ids
    /\ \A o \in Text, i \in Nat : <<o, i>> \in Ids
    /\ \A o \in Text, id \in Ids : <<o>> \o id \in Ids
<1>1. NoEvent \in Ids
  BY EmptySeq DEF NoEvent, Ids
<1> DEFINE S == Text \cup Nat
<1>0. "log" \in S /\ (\A n \in Nat : n \in S) /\ (\A o \in Text : o \in S) /\ Ids = Seq(S)
  BY DEF Ids, Text, Literals
<1> HIDE DEF S
<1>2. \A n, k \in Nat : LineEvent(n, k) \in Ids /\ ItemEvent(n, k) \in Ids
  BY <1>0, TupleIs DEF LineEvent, ItemEvent
<1>3. \A o \in Text, i \in Nat : <<o, i>> \in Ids
  BY <1>0, TupleIs
<1>4. \A o \in Text : <<o>> \in Ids
  BY <1>0, TupleIs
<1>5. \A o \in Text, id \in Ids : <<o>> \o id \in Ids
  BY <1>0, <1>4, ConcatProperties
<1> QED
  BY <1>1, <1>2, <1>3, <1>5

LEMMA BuildEventIs ==
    ASSUME NEW ids, NEW id \in ids, NEW type \in Text, NEW at \in Int, NEW mono \in Int,
           NEW parent \in Ids
    PROVE  /\ BuildEvent(id, type, at, mono, parent) \in Event(ids, NoReason)
           /\ BuildEvent(id, type, at, mono, parent).id = id
           /\ BuildEvent(id, type, at, mono, parent).type = type
<1>1. <<>> \in Seq(Text) /\ NoEvent \in Ids /\ NoEvent = <<>>
  BY EmptySeq, IdsAre DEF NoEvent
<1>2. "" \in Text /\ "none" \in Text
  BY DEF Text, Literals
<1>3. BuildEvent(id, type, at, mono, parent) \in Event(ids, NoReason)
  BY <1>1, <1>2 DEF BuildEvent, Event, NoReason
<1> QED
  BY <1>3 DEF BuildEvent

(* What adapters fill in leaves an event one, under its id. *)
LEMMA UseFilled ==
    ASSUME NEW ids, NEW reasons, NEW e \in Event(ids, reasons), NEW use \in Text
    PROVE  [e EXCEPT !.use = use] \in Event(ids, reasons) /\ [e EXCEPT !.use = use].id = e.id
BY DEF Event

LEMMA AskFilled ==
    ASSUME NEW ids, NEW reasons, NEW e \in Event(ids, reasons), NEW use \in Text,
           NEW argv \in Seq(Text)
    PROVE  /\ [e EXCEPT !.use = use, !.argv = argv] \in Event(ids, reasons)
           /\ [e EXCEPT !.use = use, !.argv = argv].id = e.id
BY DEF Event

LEMMA CallFilled ==
    ASSUME NEW ids, NEW reasons, NEW e \in Event(ids, reasons), NEW call,
           call.use \in Text, call.argv \in Seq(Text), call.cwd \in Seq(Text)
    PROVE  AsCall(e, call) \in Event(ids, reasons) /\ AsCall(e, call).id = e.id
BY DEF Event, AsCall

LEMMA CommandFilled ==
    ASSUME NEW ids, NEW reasons, NEW e \in Event(ids, reasons), NEW argv \in Seq(Text),
           NEW from \in Text
    PROVE  /\ [e EXCEPT !.argv = argv, !.source = from] \in Event(ids, reasons)
           /\ [e EXCEPT !.argv = argv, !.source = from].id = e.id
           /\ [e EXCEPT !.argv = argv, !.source = from].argv = argv
BY DEF Event

(* A gap about an event is an event under its own id and at its time, right *)
(* behind it.                                                               *)
LEMMA GapAboutIs ==
    ASSUME NEW reasons, NEW e \in Event(Ids, reasons), NEW reason \in Text
    PROVE  /\ GapAbout(e, reason) \in Event(Ids, {reason})
           /\ GapAbout(e, reason).id = <<reason>> \o e.id
           /\ GapAbout(e, reason).parent = e.id
           /\ GapAbout(e, reason).reason = reason
           /\ GapAbout(e, reason).type = "gap"
           /\ CompareByTime(e, GapAbout(e, reason))
<1> DEFINE id == <<reason>> \o e.id
           b == BuildEvent(id, "gap", e.at, e.mono + 1, e.id)
           g == [b EXCEPT !.reason = reason]
<1>1. e.id \in Ids /\ e.at \in Int /\ e.mono \in Int
  BY DEF Event
<1>2. id \in Ids /\ e.mono + 1 \in Int /\ "gap" \in Text
  <2>1. id \in Ids
    BY <1>1, IdsAre
  <2>2. "gap" \in Text
    BY DEF Text, Literals
  <2> QED
    BY <1>1, <2>1, <2>2
<1> DEFINE mono == e.mono + 1
<1>3. b \in Event(Ids, NoReason)
  <2>1. b = BuildEvent(id, "gap", e.at, mono, e.id)
    OBVIOUS
  <2> HIDE DEF id, mono, b
  <2> QED
    BY <1>1, <1>2, <2>1, BuildEventIs DEF mono
<1>4. b.id = id /\ b.parent = e.id /\ b.type = "gap" /\ b.at = e.at /\ b.mono = e.mono + 1
  BY DEF BuildEvent
<1>5. GapAbout(e, reason) = g
  BY DEF GapAbout
<1> HIDE DEF b, id
<1>6. g \in Event(Ids, {reason})
  BY <1>3 DEF Event
<1>7. g.id = id /\ g.parent = e.id /\ g.type = "gap" /\ g.at = e.at /\ g.mono = e.mono + 1
      /\ g.reason = reason
  BY <1>3, <1>4 DEF Event
<1>8. CompareByTime(e, g)
  BY <1>1, <1>7 DEF CompareByTime
<1> QED
  BY <1>5, <1>6, <1>7, <1>8 DEF id

---------------------------------------------------------------------------
(* Sequences by what is in them. *)

LEMMA ConcatSet ==
    ASSUME NEW S, NEW s \in Seq(S), NEW t \in Seq(S)
    PROVE  s \o t \in Seq(S) /\ ToSet(s \o t) = ToSet(s) \cup ToSet(t)
<1> DEFINE u == s \o t
<1>1. /\ u \in Seq(S) /\ Len(u) = Len(s) + Len(t)
      /\ \A i \in 1..(Len(s) + Len(t)) : u[i] = IF i <= Len(s) THEN s[i] ELSE t[i - Len(s)]
  BY ConcatProperties
<1>2. /\ Len(s) \in Nat /\ Len(t) \in Nat /\ DOMAIN s = 1..Len(s) /\ DOMAIN t = 1..Len(t)
      /\ DOMAIN u = 1..Len(u)
  BY <1>1, LenProperties
<1> HIDE DEF u
<1>3. ASSUME NEW i \in DOMAIN u PROVE u[i] \in ToSet(s) \cup ToSet(t)
  <2>1. CASE i <= Len(s)
    BY <1>1, <1>2, <1>3, <2>1 DEF ToSet
  <2>2. CASE ~ (i <= Len(s))
    <3>1. i - Len(s) \in DOMAIN t /\ u[i] = t[i - Len(s)]
      BY <1>1, <1>2, <1>3, <2>2
    <3> QED
      BY <3>1 DEF ToSet
  <2> QED
    BY <2>1, <2>2
<1>4. ASSUME NEW i \in DOMAIN s PROVE s[i] \in ToSet(u)
  <2>1. i \in DOMAIN u /\ u[i] = s[i]
    BY <1>1, <1>2
  <2> QED
    BY <2>1 DEF ToSet
<1>5. ASSUME NEW i \in DOMAIN t PROVE t[i] \in ToSet(u)
  <2>1. Len(s) + i \in DOMAIN u /\ ~ (Len(s) + i <= Len(s)) /\ (Len(s) + i) - Len(s) = i
    BY <1>1, <1>2
  <2>2. u[Len(s) + i] = t[i]
    BY <1>1, <1>2, <2>1
  <2> QED
    BY <2>1, <2>2 DEF ToSet
<1> QED
  BY <1>1, <1>3, <1>4, <1>5 DEF ToSet, u

LEMMA BeforeIs ==
    ASSUME NEW n \in Nat, NEW i \in 1..n, NEW j \in 1..n, j < i
    PROVE  j \in 1..(i - 1)
OBVIOUS

LEMMA HeadThenTwo ==
    ASSUME NEW S, NEW a \in S, NEW b \in S, NEW c \in S
    PROVE  <<a>> \o <<b, c>> = <<a, b, c>>
<1> DEFINE s == <<a>>
           t == <<b, c>>
           u == s \o t
           v == <<a, b, c>>
<1>1. s \in Seq(S) /\ t \in Seq(S) /\ v \in Seq(S)
  OBVIOUS
<1>2. /\ Len(s) = 1 /\ Len(t) = 2 /\ Len(v) = 3
      /\ s[1] = a /\ t[1] = b /\ t[2] = c /\ v[1] = a /\ v[2] = b /\ v[3] = c
  OBVIOUS
<1> HIDE DEF s, t, v
<1>3. /\ u \in Seq(S) /\ Len(u) = Len(s) + Len(t)
      /\ \A i \in 1..(Len(s) + Len(t)) : u[i] = IF i <= Len(s) THEN s[i] ELSE t[i - Len(s)]
  BY <1>1, ConcatProperties
<1> HIDE DEF u
<1>4. Len(u) = 3 /\ \A i \in 1..3 : u[i] = IF i <= 1 THEN s[i] ELSE t[i - 1]
  BY <1>2, <1>3
<1>5. u[1] = s[1] /\ u[2] = t[1] /\ u[3] = t[2]
  BY <1>4
<1>6. \A i \in 1..3 : i = 1 \/ i = 2 \/ i = 3
  OBVIOUS
<1>7. \A i \in 1..3 : u[i] = v[i]
  BY <1>2, <1>5, <1>6
<1>8. u = v
  BY <1>1, <1>2, <1>3, <1>4, <1>7, SeqEqual
<1> QED
  BY <1>8 DEF u, v, s, t

(* A function over 1..n is a sequence. *)
LEMMA FunctionIsSeq ==
    ASSUME NEW n \in Nat, NEW S, NEW f \in [1..n -> S]
    PROVE  f \in Seq(S) /\ Len(f) = n /\ DOMAIN f = 1..n
<1>1. f = [i \in 1..n |-> f[i]]
  OBVIOUS
<1> QED
  BY <1>1, SeqDef, LenProperties

LEMMA MemberOf ==
    ASSUME NEW S, NEW s \in Seq(S)
    PROVE  ToSet(s) \subseteq S
<1>1. \A i \in DOMAIN s : s[i] \in S
  BY LenProperties
<1> QED
  BY <1>1 DEF ToSet

LEMMA OneIsSeq ==
    ASSUME NEW S, NEW e \in S
    PROVE  /\ <<e>> \in Seq(S) /\ Len(<<e>>) = 1 /\ ToSet(<<e>>) = {e} /\ <<e>> # <<>>
           /\ Last(<<e>>) = e
<1>1. <<e>> \in Seq(S) /\ Len(<<e>>) = 1 /\ DOMAIN <<e>> = {1} /\ <<e>>[1] = e
  OBVIOUS
<1> QED
  BY <1>1 DEF ToSet, Last

LEMMA LastIs ==
    ASSUME NEW S, NEW s \in Seq(S), s # <<>>
    PROVE  Last(s) \in ToSet(s) /\ Last(s) \in S
<1>1. Len(s) \in Nat \ {0} /\ DOMAIN s = 1..Len(s)
  BY EmptySeq, LenProperties
<1>2. Len(s) \in DOMAIN s /\ s[Len(s)] \in S
  BY <1>1, LenProperties
<1> QED
  BY <1>2 DEF Last, ToSet

(* The elements at some of a sequence's places. *)
LEMMA ElementsAtSet ==
    ASSUME NEW S, NEW s \in Seq(S), NEW P \in SUBSET (DOMAIN s)
    PROVE  /\ ElementsAt(s, P) \in Seq(S)
           /\ ToSet(ElementsAt(s, P)) = {s[i] : i \in P}
           /\ Picks(InOrder(P), ElementsAt(s, P), s, P)
           /\ Cardinality(P) \in Nat
<1> DEFINE p == InOrder(P)
           t == ElementsAt(s, P)
           n == Cardinality(P)
<1>1. Len(s) \in Nat /\ DOMAIN s = 1..Len(s) /\ s \in [1..Len(s) -> S]
  BY LenProperties
<1>2. P \in SUBSET Nat /\ IsFiniteSet(P)
  <2>1. IsFiniteSet(1..Len(s))
    BY <1>1, FS_Interval
  <2> QED
    BY <1>1, <2>1, FS_Subset
<1>3. Picks(p, t, s, P)
  BY <1>2, ElementsAtIs
<1> HIDE DEF p, t, n
<1>4. /\ n \in Nat /\ t = [k \in 1..n |-> s[p[k]]]
      /\ \A k \in 1..n : p[k] \in P
      /\ \A i \in P : \E k \in 1..n : p[k] = i
  BY <1>3 DEF Picks, Lists, n
<1>5. \A k \in 1..n : t[k] \in S
  BY <1>1, <1>4
<1>6. t \in [1..n -> S]
  BY <1>4, <1>5
<1>7. t \in Seq(S) /\ DOMAIN t = 1..n
  BY <1>4, <1>6, FunctionIsSeq
<1>8. ToSet(t) = {s[i] : i \in P}
  BY <1>4, <1>7 DEF ToSet
<1> QED
  BY <1>3, <1>4, <1>7, <1>8 DEF p, t, n

---------------------------------------------------------------------------
(* What lines of a Claude log become. *)

\* Events of line n.
LogIds(n) == {LineEvent(n, k) : k \in Nat}
LogEvents(n) == Event(LogIds(n), NoReason)

LEMMA LineEventIs ==
    ASSUME NEW n \in Nat, NEW k \in Nat, NEW type \in Text, NEW at \in Int, NEW mono \in Int,
           NEW parent \in Ids
    PROVE  /\ BuildEvent(LineEvent(n, k), type, at, mono, parent) \in LogEvents(n)
           /\ BuildEvent(LineEvent(n, k), type, at, mono, parent).type = type
<1>1. LineEvent(n, k) \in LogIds(n)
  BY DEF LogIds
<1> QED
  BY <1>1, BuildEventIs DEF LogEvents

\* Arguments of the functions that turn a line into events.
Placing(n, mono, at, parent) == n \in Nat /\ mono \in Int /\ at \in Int /\ parent \in Ids

MadeOf(s, n) == s \in Seq(LogEvents(n)) /\ s # <<>>

LEMMA OneMade ==
    ASSUME NEW n, NEW mono, NEW at, NEW parent, Placing(n, mono, at, parent), NEW type \in Text
    PROVE  MadeOf(<<BuildEvent(LineEvent(n, 1), type, at, mono, parent)>>, n)
<1> DEFINE e == BuildEvent(LineEvent(n, 1), type, at, mono, parent)
<1>1. e \in LogEvents(n)
  BY LineEventIs DEF Placing
<1> HIDE DEF e
<1>2. <<e>> \in Seq(LogEvents(n)) /\ <<e>> # <<>>
  BY <1>1, OneIsSeq
<1> QED
  BY <1>2 DEF MadeOf, e

LEMMA UserEventsIs ==
    ASSUME NEW blocks \in Seq(MessageBlock),
           NEW n, NEW mono, NEW at, NEW parent, Placing(n, mono, at, parent)
    PROVE  MadeOf(UserEvents(blocks, n, mono, at, parent), n)
<1> DEFINE P == {i \in DOMAIN blocks : blocks[i].kind \in {"tool_result", "text"}}
           shown == InOrder(P)
           c == Cardinality(P)
           shape(i) == IF blocks[i].kind = "tool_result"
                       THEN [BuildEvent(LineEvent(n, i), "tool_result", at, mono + i - 1, parent)
                               EXCEPT !.use = blocks[i].use]
                       ELSE BuildEvent(LineEvent(n, i), "prompt", at, mono + i - 1, parent)
           every == [k \in DOMAIN shown |-> shape(shown[k])]
<1>1. UserEvents(blocks, n, mono, at, parent) =
        IF shown = <<>> THEN <<BuildEvent(LineEvent(n, 1), "prompt", at, mono, parent)>> ELSE every
  BY DEF UserEvents
<1>2. "prompt" \in Text /\ "tool_result" \in Text
  BY DEF Text, Literals
<1>3. ASSUME NEW i \in P PROVE shape(i) \in LogEvents(n)
  <2> DEFINE m == mono + i - 1
  <2>1. i \in Nat /\ m \in Int /\ blocks[i] \in MessageBlock
    BY LenProperties DEF Placing
  <2>2. shape(i) = IF blocks[i].kind = "tool_result"
                   THEN [BuildEvent(LineEvent(n, i), "tool_result", at, m, parent)
                           EXCEPT !.use = blocks[i].use]
                   ELSE BuildEvent(LineEvent(n, i), "prompt", at, m, parent)
    OBVIOUS
  <2> HIDE DEF m, shape, P
  <2> DEFINE b == BuildEvent(LineEvent(n, i), "tool_result", at, m, parent)
  <2>3. b \in LogEvents(n) /\ BuildEvent(LineEvent(n, i), "prompt", at, m, parent) \in LogEvents(n)
    BY <1>2, <2>1, LineEventIs DEF Placing
  <2>4. CASE blocks[i].kind = "tool_result"
    <3>1. blocks[i].use \in Text
      BY <2>1, <2>4 DEF MessageBlock, ToolUse, Text
    <3> DEFINE u == blocks[i].use
    <3>2. shape(i) = [b EXCEPT !.use = u] /\ u \in Text
      BY <2>2, <2>4, <3>1
    <3> HIDE DEF b, u
    <3> QED
      BY <2>3, <3>2, UseFilled DEF LogEvents
  <2>5. CASE blocks[i].kind # "tool_result"
    BY <2>2, <2>3, <2>5
  <2> QED
    BY <2>4, <2>5
<1>4. /\ c \in Nat /\ DOMAIN shown = 1..c /\ (shown # <<>> => c # 0)
      /\ \A k \in 1..c : shown[k] \in P
  <2>1. Len(blocks) \in Nat /\ DOMAIN blocks = 1..Len(blocks)
    BY LenProperties
  <2>2. P \in SUBSET (DOMAIN blocks)
    OBVIOUS
  <2> HIDE DEF P
  <2>3. Picks(shown, ElementsAt(blocks, P), blocks, P)
    BY <2>2, ElementsAtSet
  <2> HIDE DEF shown, c
  <2>4. c \in Nat /\ shown = [k \in 1..c |-> shown[k]] /\ \A k \in 1..c : shown[k] \in P
    BY <2>3 DEF Picks, Lists, c
  <2>5. DOMAIN shown = 1..c /\ shown \in [1..c -> P]
    BY <2>4
  <2>6. shown \in Seq(P) /\ Len(shown) = c
    BY <2>4, <2>5, FunctionIsSeq
  <2>7. shown # <<>> => c # 0
    BY <2>6, EmptySeq
  <2> QED
    BY <2>4, <2>5, <2>7
<1> HIDE DEF shown, c, shape, P
<1>5. CASE shown = <<>>
  BY <1>1, <1>2, <1>5, OneMade
<1>6. CASE shown # <<>>
  <2>1. every = [k \in 1..c |-> shape(shown[k])] /\ c # 0
    BY <1>4, <1>6
  <2>2. \A k \in 1..c : shape(shown[k]) \in LogEvents(n)
    BY <1>3, <1>4
  <2>3. every \in [1..c -> LogEvents(n)]
    BY <2>1, <2>2
  <2> HIDE DEF every
  <2>4. every \in Seq(LogEvents(n)) /\ Len(every) = c
    BY <1>4, <2>3, FunctionIsSeq
  <2>5. every # <<>>
    BY <2>1, <2>4, EmptySeq
  <2> QED
    BY <1>1, <1>6, <2>4, <2>5 DEF MadeOf
<1> QED
  BY <1>5, <1>6

\* A call of a log, its words known to be text.
Asks(call) == call.use \in Text /\ call.argv \in Seq(Text) /\ call.cwd \in Seq(Text)

LEMMA ToolUseAsks ==
    ASSUME NEW call \in ToolUse
    PROVE  Asks(call) /\ Asks([call EXCEPT !.use = ""])
<1>1. /\ call.use \in STRING /\ call.argv \in Seq(STRING) /\ call.cwd \in Seq(STRING)
      /\ STRING \subseteq Text /\ "" \in Text
  BY DEF ToolUse, Text, Literals
<1>2. Asks(call)
  BY <1>1, SeqMonotonic DEF Asks
<1>3. /\ [call EXCEPT !.use = ""].use = "" /\ [call EXCEPT !.use = ""].argv = call.argv
      /\ [call EXCEPT !.use = ""].cwd = call.cwd
  BY DEF ToolUse
<1> QED
  BY <1>1, <1>2, <1>3 DEF Asks

\* calls are the calls asked for, at some places of their line.
CallRow(calls, n, at, parent, len, places, monos, asked) ==
    /\ \A k \in 1..len : places[k] \in Nat /\ monos[k] \in Int /\ Asks(asked[k])
    /\ calls = [k \in 1..len |->
                  AsCall(BuildEvent(LineEvent(n, places[k]), "tool_call_intent", at, monos[k],
                                    parent), asked[k])]

(* Calls in a row are events of their line. *)
LEMMA CallsMade ==
    ASSUME NEW n \in Nat, NEW at \in Int, NEW parent \in Ids, NEW len \in Nat, NEW places, NEW monos,
           NEW asked, NEW calls, CallRow(calls, n, at, parent, len, places, monos, asked)
    PROVE  calls \in Seq(LogEvents(n)) /\ Len(calls) = len
<1> DEFINE Made(k) == BuildEvent(LineEvent(n, places[k]), "tool_call_intent", at, monos[k], parent)
<1>1. "tool_call_intent" \in Text
  BY DEF Text, Literals
<1>2. \A k \in 1..len : Made(k) \in LogEvents(n)
  BY <1>1, LineEventIs DEF CallRow
<1>3. calls = [k \in 1..len |-> AsCall(Made(k), asked[k])]
  BY DEF CallRow
<1> HIDE DEF Made
<1>4. \A k \in 1..len : AsCall(Made(k), asked[k]) \in LogEvents(n)
  BY <1>2, CallFilled DEF LogEvents, Asks, CallRow
<1>5. calls \in [1..len -> LogEvents(n)]
  BY <1>3, <1>4
<1> QED
  BY <1>5, FunctionIsSeq

LEMMA AssistantEventsIs ==
    ASSUME NEW blocks \in Seq(MessageBlock),
           NEW n, NEW mono, NEW at, NEW parent, Placing(n, mono, at, parent)
    PROVE  MadeOf(AssistantEvents(blocks, n, mono, at, parent), n)
<1> DEFINE S == LogEvents(n)
           some(kind) == \E i \in DOMAIN blocks : blocks[i].kind = kind
           message(k, m, under) == BuildEvent(LineEvent(n, k), "assistant_message", at, m, under)
           thought == IF some("thinking") THEN <<message(1, mono, parent)>> ELSE <<>>
           second == message(2, mono + Len(thought), IF thought = <<>> THEN parent ELSE thought[1].id)
           said == IF ~some("text") THEN thought ELSE Append(thought, second)
           above == IF said = <<>> THEN parent ELSE Last(said).id
           P == {i \in DOMAIN blocks : blocks[i].kind = "tool_use"}
           uses == ElementsAt(blocks, P)
           calls == [k \in DOMAIN uses |->
                       AsCall(BuildEvent(LineEvent(n, 2 + k), "tool_call_intent", at,
                                         mono + Len(said) + k - 1, above), uses[k])]
<1>1. AssistantEvents(blocks, n, mono, at, parent) =
        IF said \o calls = <<>> THEN <<message(1, mono, parent)>> ELSE said \o calls
  BY DEF AssistantEvents
<1>2. n \in Nat /\ mono \in Int /\ at \in Int /\ parent \in Ids /\ "assistant_message" \in Text
  BY DEF Placing, Text, Literals
<1>3. \A k \in Nat, m \in Int, under \in Ids : message(k, m, under) \in S
  BY <1>2, LineEventIs
<1>4. \A e \in S : e.id \in Ids
  BY <1>2, IdsAre DEF LogEvents, Event, LogIds
<1> HIDE DEF message, S
<1>5. thought \in Seq(S)
  <2>1. message(1, mono, parent) \in S
    BY <1>2, <1>3
  <2>2. <<message(1, mono, parent)>> \in Seq(S) /\ <<>> \in Seq(S)
    BY <2>1, OneIsSeq, EmptySeq
  <2> QED
    BY <2>2
<1>6. Len(thought) \in Nat /\ (thought # <<>> => thought[1] \in S)
  BY <1>5, LenProperties, EmptySeq
<1> HIDE DEF thought, some
<1>7. second \in S
  <2> DEFINE under == IF thought = <<>> THEN parent ELSE thought[1].id
             m == mono + Len(thought)
  <2>1. under \in Ids /\ m \in Int
    BY <1>2, <1>4, <1>6
  <2>2. second = message(2, m, under)
    OBVIOUS
  <2> HIDE DEF under, m, second
  <2> QED
    BY <1>3, <2>1, <2>2
<1> HIDE DEF second
<1>8. said \in Seq(S)
  BY <1>5, <1>7, AppendProperties
<1> HIDE DEF said
<1>9. Len(said) \in Nat /\ above \in Ids
  BY <1>2, <1>4, <1>8, LenProperties, LastIs
<1> HIDE DEF above
<1>10. calls \in Seq(S)
  <2>1. P \in SUBSET (DOMAIN blocks)
    OBVIOUS
  <2>2. \A i \in P : blocks[i] \in ToolUse
    <3>1. \A i \in DOMAIN blocks : blocks[i] \in MessageBlock
      BY LenProperties
    <3> QED
      BY <3>1 DEF MessageBlock
  <2> HIDE DEF P, uses
  <2>3. uses \in Seq(MessageBlock) /\ ToSet(uses) = {blocks[i] : i \in P}
    BY <2>1, ElementsAtSet DEF uses
  <2> DEFINE len == Len(uses)
             places == [k \in 1..len |-> 2 + k]
             monos == [k \in 1..len |-> mono + Len(said) + k - 1]
  <2>4. len \in Nat /\ DOMAIN uses = 1..len
    BY <2>3, LenProperties
  <2>5. \A k \in 1..len : uses[k] \in ToSet(uses)
    BY <2>4 DEF ToSet
  <2>6. \A k \in 1..len : Asks(uses[k])
    BY <2>2, <2>3, <2>5, ToolUseAsks
  <2> HIDE DEF len
  <2>7. \A k \in 1..len : places[k] \in Nat /\ monos[k] \in Int
    BY <1>2, <1>9, <2>4
  <2>8. calls = [k \in 1..len |->
                   AsCall(BuildEvent(LineEvent(n, places[k]), "tool_call_intent", at, monos[k], above),
                          uses[k])]
    BY <2>4
  <2> DEFINE asked == uses
  <2>9. CallRow(calls, n, at, above, len, places, monos, asked)
    BY <2>6, <2>7, <2>8 DEF CallRow
  <2> HIDE DEF places, monos, calls, asked
  <2>10. calls \in Seq(LogEvents(n))
    BY <1>2, <1>9, <2>4, <2>9, CallsMade
  <2> QED
    BY <2>10 DEF S
<1> HIDE DEF calls
<1>11. said \o calls \in Seq(S)
  BY <1>8, <1>10, ConcatProperties
<1>12. <<message(1, mono, parent)>> \in Seq(S) /\ <<message(1, mono, parent)>> # <<>>
  <2>1. message(1, mono, parent) \in S
    BY <1>2, <1>3
  <2> QED
    BY <2>1, OneIsSeq
<1> QED
  BY <1>1, <1>11, <1>12 DEF MadeOf, S

LEMMA FlatMade ==
    ASSUME NEW line \in ClaudeLine, line.form = "flat",
           NEW n, NEW mono, NEW at, NEW parent, Placing(n, mono, at, parent)
    PROVE  MadeOf(NormalizeFlatLine(line, n, mono, at, parent), n)
<1> DEFINE S == LogEvents(n)
           made == NormalizeFlatLine(line, n, mono, at, parent)
<1>1. n \in Nat /\ mono \in Int /\ at \in Int /\ parent \in Ids
  BY DEF Placing
<1>2. line.calls \in Seq(ToolUse) /\ line.argv \in Seq(Text) /\ line.type \in STRING
  <2>1. line.calls \in Seq(ToolUse) /\ line.argv \in Seq(STRING) /\ line.type \in STRING
    BY DEF ClaudeLine
  <2>2. STRING \subseteq Text
    BY DEF Text
  <2> QED
    BY <2>1, <2>2, SeqMonotonic
<1>3. CASE line.type \in {"assistant", "ai"}
  <2> DEFINE head == BuildEvent(LineEvent(n, 1), "assistant_message", at, mono, NoEvent)
             len == Len(line.calls)
             asked == [k \in 1..len |-> [line.calls[k] EXCEPT !.use = ""]]
             monos == [k \in 1..len |-> mono + k]
             places == [k \in 1..len |-> 1 + k]
             tail == [k \in DOMAIN line.calls |->
                        AsCall(BuildEvent(LineEvent(n, 1 + k), "tool_call_intent", at, mono + k,
                                          LineEvent(n, 1)), [line.calls[k] EXCEPT !.use = ""])]
             calls == <<head>> \o tail
  <2>1. made = [calls EXCEPT ![1].parent = parent]
    <3>1. line.type \notin DOMAIN FlatTypes /\ line.type \notin {"shell_command", "command"}
      BY <1>3 DEF FlatTypes
    <3>2. made = LET m == FlatCalls(line, n, mono, at) IN [m EXCEPT ![1].parent = parent]
      BY <1>3, <3>1 DEF NormalizeFlatLine
    <3> HIDE DEF made
    <3>3. FlatCalls(line, n, mono, at) = calls
      BY DEF FlatCalls
    <3> HIDE DEF calls
    <3> QED
      BY <3>2, <3>3
  <2>2. len \in Nat /\ DOMAIN line.calls = 1..len /\ \A k \in 1..len : line.calls[k] \in ToolUse
    BY <1>2, LenProperties, ElementOfSeq
  <2>3. head \in S
    <3>1. "assistant_message" \in Text
      BY DEF Text, Literals
    <3> QED
      BY <1>1, <3>1, IdsAre, LineEventIs
  <2>4. LineEvent(n, 1) \in Ids
    BY <1>1, IdsAre
  <2> HIDE DEF len
  <2>5. tail = [k \in 1..len |->
                  AsCall(BuildEvent(LineEvent(n, places[k]), "tool_call_intent", at, monos[k],
                                    LineEvent(n, 1)), asked[k])]
    BY <2>2
  <2>6. CallRow(tail, n, at, LineEvent(n, 1), len, places, monos, asked)
    <3>1. \A k \in 1..len : places[k] \in Nat /\ monos[k] \in Int
      BY <1>1, <2>2
    <3>2. \A k \in 1..len : Asks(asked[k])
      BY <2>2, ToolUseAsks
    <3> QED
      BY <2>5, <3>1, <3>2 DEF CallRow
  <2> HIDE DEF places, monos, asked, tail, head
  <2>7. tail \in Seq(S)
    BY <1>1, <2>2, <2>4, <2>6, CallsMade
  <2>8. <<head>> \in Seq(S) /\ Len(<<head>>) = 1
    BY <2>3, OneIsSeq
  <2> HIDE DEF S
  <2>9. calls \in Seq(S) /\ Len(calls) = 1 + Len(tail) /\ Len(tail) \in Nat
    BY <2>7, <2>8, ConcatProperties, LenProperties
  <2> HIDE DEF calls
  <2> DEFINE first == [calls[1] EXCEPT !.parent = parent]
  <2>10. calls[1] \in S /\ 1 \in 1..Len(calls)
    BY <2>9, ElementOfSeq
  <2>11. first \in S
    BY <1>1, <2>10 DEF S, LogEvents, Event
  <2>12. [calls EXCEPT ![1].parent = parent] = [calls EXCEPT ![1] = first]
    OBVIOUS
  <2> HIDE DEF first
  <2>13. /\ [calls EXCEPT ![1] = first] \in Seq(S) /\ Len([calls EXCEPT ![1] = first]) = Len(calls)
    BY <2>9, <2>10, <2>11, ExceptSeq
  <2>14. made \in Seq(S) /\ Len(made) # 0
    BY <2>1, <2>9, <2>12, <2>13
  <2> HIDE DEF made
  <2> QED
    BY <2>14, EmptySeq DEF MadeOf, S, made
<1>4. CASE line.type \in {"shell_command", "command"}
  <2> DEFINE pre == BuildEvent(LineEvent(n, 1), "shell_command_pre", at, mono, parent)
             m == mono + 1
             post == BuildEvent(LineEvent(n, 2), "shell_command_post", at, m, LineEvent(n, 1))
             ran == [pre EXCEPT !.argv = line.argv, !.source = "reconstructed"]
  <2>1. made = <<ran, post>>
    <3>1. line.type \notin DOMAIN FlatTypes /\ line.type \notin {"assistant", "ai"}
      BY <1>4 DEF FlatTypes
    <3>2. made = FlatCommand(line, n, mono, at, parent)
      BY <1>4, <3>1 DEF NormalizeFlatLine
    <3> HIDE DEF made
    <3> QED
      BY <3>2 DEF FlatCommand
  <2>2. "shell_command_pre" \in Text /\ "shell_command_post" \in Text /\ "reconstructed" \in Text
    BY DEF Text, Literals
  <2>3. LineEvent(n, 1) \in Ids /\ m \in Int
    BY <1>1, IdsAre
  <2> HIDE DEF m
  <2>4. pre \in S /\ post \in S
    BY <1>1, <2>2, <2>3, LineEventIs
  <2> HIDE DEF pre, post
  <2>5. ran \in S
    BY <1>2, <2>2, <2>4, CommandFilled DEF LogEvents
  <2> HIDE DEF ran, S, made
  <2>6. made \in Seq(S) /\ made # <<>>
    BY <2>1, <2>4, <2>5, TupleIs
  <2> QED
    BY <2>6 DEF MadeOf, S, made
<1>5. CASE line.type \notin {"assistant", "ai"} /\ line.type \notin {"shell_command", "command"}
           /\ line.type \in DOMAIN FlatTypes
  <2>1. made = <<BuildEvent(LineEvent(n, 1), FlatTypes[line.type], at, mono, parent)>>
    BY <1>5 DEF NormalizeFlatLine
  <2>2. FlatTypes[line.type] \in Text
    <3>1. line.type \in {"user", "prompt", "human", "tool", "tool_result", "file_edit",
                        "file_diff", "edit", "error"}
      BY <1>5 DEF FlatTypes
    <3>2. FlatTypes[line.type] \in {"prompt", "tool_result", "file_diff", "error"}
      BY <3>1 DEF FlatTypes
    <3> QED
      BY <3>2 DEF Text, Literals
  <2> QED
    BY <2>1, <2>2, OneMade
<1>6. CASE line.type \notin {"assistant", "ai"} /\ line.type \notin {"shell_command", "command"}
           /\ line.type \notin DOMAIN FlatTypes
  <2>1. made = <<BuildEvent(LineEvent(n, 1), "gap", at, mono, parent)>>
    BY <1>6 DEF NormalizeFlatLine
  <2>2. "gap" \in Text
    BY DEF Text, Literals
  <2> QED
    BY <2>1, <2>2, OneMade
<1> QED
  BY <1>3, <1>4, <1>5, <1>6

LEMMA RealMade ==
    ASSUME NEW line \in ClaudeLine, line.form = "real",
           NEW n, NEW mono, NEW at, NEW parent, Placing(n, mono, at, parent)
    PROVE  MadeOf(NormalizeRealSessionLine(line, n, mono, at, parent), n)
<1> DEFINE made == NormalizeRealSessionLine(line, n, mono, at, parent)
<1>1. line.blocks \in Seq(MessageBlock)
  BY DEF ClaudeLine
<1>2. CASE line.role = "user"
  <2>1. made = UserEvents(line.blocks, n, mono, at, parent)
    BY <1>2 DEF NormalizeRealSessionLine
  <2> QED
    BY <1>1, <2>1, UserEventsIs
<1>3. CASE line.role = "assistant"
  <2>1. made = AssistantEvents(line.blocks, n, mono, at, parent)
    BY <1>3 DEF NormalizeRealSessionLine
  <2> QED
    BY <1>1, <2>1, AssistantEventsIs
<1>4. CASE line.role # "user" /\ line.role # "assistant"
  <2>1. made = <<BuildEvent(LineEvent(n, 1), "gap", at, mono, parent)>> /\ "gap" \in Text
    BY <1>4 DEF NormalizeRealSessionLine, Text, Literals
  <2> QED
    BY <2>1, OneMade
<1> QED
  BY <1>2, <1>3, <1>4

LEMMA LineMade ==
    ASSUME NEW line \in ClaudeLine, line.form \notin {"torn", "odd"},
           NEW n, NEW mono, NEW at, NEW parent, Placing(n, mono, at, parent)
    PROVE  MadeOf(NormalizeClaudeCodeLine(line, n, mono, at, parent), n)
<1>1. line.form = "real" \/ line.form = "flat"
  BY DEF ClaudeLine
<1> QED
  BY <1>1, RealMade, FlatMade DEF NormalizeClaudeCodeLine

LogEvent == UNION {LogEvents(n) : n \in Nat}
LogStates == [events : Seq(LogEvent), mono : Int, last : Ids]

LEMMA LogEventIs == \A e \in LogEvent : e.id \in Ids
<1>1. \A n \in Nat : \A e \in LogEvents(n) : e.id \in Ids
  BY IdsAre DEF LogEvents, Event, LogIds
<1> QED
  BY <1>1 DEF LogEvent

\* e is what the n-th line is shown as, or some of it.
Shows(e, line, n) == e \in LogEvents(n) /\ (line.form = "torn" => e.type = "gap")

(* A line adds its own events, one at least, and takes none away. *)
LEMMA NormalizeNextIs ==
    ASSUME NEW done \in LogStates, NEW line \in ClaudeLine, NEW n \in Nat, NEW start \in Nat
    PROVE  LET t == NormalizeNext(done, line, n, start)
           IN  /\ t \in LogStates
               /\ ToSet(done.events) \subseteq ToSet(t.events)
               /\ \E e \in ToSet(t.events) : Shows(e, line, n)
               /\ \A e \in ToSet(t.events) : e \in ToSet(done.events) \/ Shows(e, line, n)
<1> DEFINE t == NormalizeNext(done, line, n, start)
           read == line.form \notin {"torn", "odd"}
           at == IF line.form = "torn" \/ line.at = 0 THEN start ELSE line.at
           gap == BuildEvent(LineEvent(n, 1), "gap", at, done.mono, done.last)
           made == IF read THEN NormalizeClaudeCodeLine(line, n, done.mono, at, done.last) ELSE <<gap>>
           last == IF read THEN Last(made).id ELSE done.last
<1>1. done.events \in Seq(LogEvent) /\ done.mono \in Int /\ done.last \in Ids
  BY DEF LogStates
<1>2. t = [events |-> done.events \o made, mono |-> done.mono + 1, last |-> last]
  BY DEF NormalizeNext
<1>3. at \in Int
  <2>1. line.at \in Nat
    BY DEF ClaudeLine
  <2> QED
    BY <2>1
<1> HIDE DEF at
<1>4. Placing(n, done.mono, at, done.last) /\ "gap" \in Text
  BY <1>1, <1>3 DEF Placing, Text, Literals
<1>5. MadeOf(made, n) /\ (~ read => made = <<gap>> /\ gap.type = "gap" /\ gap \in LogEvents(n))
  <2>1. CASE read
    BY <1>4, <2>1, LineMade
  <2>2. CASE ~ read
    <3>1. made = <<gap>>
      BY <2>2
    <3>2. gap.type = "gap" /\ gap \in LogEvents(n)
      BY <1>1, <1>3, <1>4, LineEventIs
    <3> HIDE DEF made, read
    <3> QED
      BY <1>4, <2>2, <3>1, <3>2, OneMade
  <2> QED
    BY <2>1, <2>2
<1> HIDE DEF made, gap
<1>6. made \in Seq(LogEvent) /\ made \in Seq(LogEvents(n)) /\ made # <<>>
  <2>1. LogEvents(n) \subseteq LogEvent
    BY DEF LogEvent
  <2> QED
    BY <1>5, <2>1, SeqMonotonic DEF MadeOf
<1>7. done.events \o made \in Seq(LogEvent) /\ ToSet(done.events \o made) = ToSet(done.events) \cup ToSet(made)
  BY <1>1, <1>6, ConcatSet
<1>8. Last(made) \in ToSet(made) /\ Last(made) \in LogEvents(n) /\ Last(made) \in LogEvent
  BY <1>6, LastIs
<1>9. last \in Ids
  BY <1>1, <1>8, LogEventIs
<1> HIDE DEF last
<1> DEFINE events == done.events \o made
           mono == done.mono + 1
<1>10. events \in Seq(LogEvent) /\ mono \in Int
  BY <1>1, <1>7
<1>11. t = [events |-> events, mono |-> mono, last |-> last]
  BY <1>2
<1> HIDE DEF events, mono, t
<1>12. t \in LogStates /\ t.events = events
  BY <1>9, <1>10, <1>11 DEF LogStates
<1>13. ToSet(t.events) = ToSet(done.events) \cup ToSet(made)
  BY <1>7, <1>12 DEF events
<1>14. Last(made) \in ToSet(made) /\ \A e \in ToSet(made) : Shows(e, line, n)
  <2>1. CASE read
    <3>1. line.form # "torn"
      BY <2>1
    <3>2. ToSet(made) \subseteq LogEvents(n)
      BY <1>6, MemberOf
    <3> QED
      BY <1>8, <3>1, <3>2 DEF Shows
  <2>2. CASE ~ read
    <3>1. ToSet(made) = {gap}
      BY <1>5, <2>2, OneIsSeq
    <3> QED
      BY <1>5, <1>8, <2>2, <3>1 DEF Shows
  <2> QED
    BY <2>1, <2>2
<1> QED
  BY <1>12, <1>13, <1>14 DEF t

LogSteps(f, lines, start) ==
    f = [n \in 0..Len(lines) |->
           IF n = 0 THEN [events |-> <<>>, mono |-> 0, last |-> NoEvent]
           ELSE NormalizeNext(f[n - 1], lines[n], n, start)]

LogFold(lines, start) == CHOOSE f : LogSteps(f, lines, start)

LEMMA NoLogRead == [events |-> <<>>, mono |-> 0, last |-> NoEvent] \in LogStates
<1>1. <<>> \in Seq(LogEvent) /\ NoEvent \in Ids /\ 0 \in Int
  BY EmptySeq, IdsAre
<1> QED
  BY <1>1 DEF LogStates

LEMMA LogFoldExists ==
    ASSUME NEW lines \in Seq(ClaudeLine), NEW start \in Nat
    PROVE  LogSteps(LogFold(lines, start), lines, start)
<1> DEFINE n == Len(lines)
           U == LogStates
           base == [events |-> <<>>, mono |-> 0, last |-> NoEvent]
           Step(i, s) == NormalizeNext(s, lines[i], i, start)
           next == [q \in (1..n) \X U |-> Step(q[1], q[2])]
<1>1. n \in Nat /\ \A i \in 1..n : i \in Nat /\ lines[i] \in ClaudeLine
  BY LenProperties, ElementOfSeq
<1>2. \A i \in 1..n, s \in U : Step(i, s) \in U
  BY <1>1, NormalizeNextIs
<1>3. base \in U
  BY NoLogRead
<1> HIDE DEF U, Step, base
<1>4. next \in [(1..n) \X U -> U]
  BY <1>2
<1>5. \A i \in 1..n, s \in U : next[<<i, s>>] = Step(i, s)
  OBVIOUS
<1> HIDE DEF next, n
<1>6. PICK f \in [0..n -> U] : Folds(f, base, next, n)
  BY <1>1, <1>3, <1>4, FoldExists
<1>7. \A i \in 1..n : i - 1 \in 0..n /\ f[i - 1] \in U
  BY <1>1
<1>8. \A i \in 0..n : f[i] = IF i = 0 THEN base ELSE Step(i, f[i - 1])
  <2>1. f[0] = base /\ \A i \in 1..n : f[i] = next[<<i, f[i - 1]>>]
    BY <1>6 DEF Folds
  <2>2. \A i \in 1..n : f[i] = Step(i, f[i - 1])
    BY <1>5, <1>7, <2>1
  <2>3. \A i \in 0..n : i = 0 \/ i \in 1..n
    BY <1>1
  <2> QED
    BY <1>1, <2>1, <2>2, <2>3
<1>9. f = [i \in 0..n |-> IF i = 0 THEN base ELSE Step(i, f[i - 1])]
  BY <1>6, <1>8
<1>10. LogSteps(f, lines, start)
  BY <1>9 DEF LogSteps, Step, n, base
<1> QED
  BY <1>10 DEF LogFold

\* Every one of the first n lines has an event among these, and no other has.
LinesShown(events, lines, n) ==
    /\ \A i \in 1..n : \E e \in events : Shows(e, lines[i], i)
    /\ \A e \in events : \E i \in 1..n : Shows(e, lines[i], i)

LEMMA SessionStartIs ==
    ASSUME NEW lines \in Seq(ClaudeLine), NEW now \in Nat
    PROVE  ClaudeSessionStart(lines, now) \in Nat
<1> DEFINE T == {now} \cup ({lines[i].at : i \in Parsed(lines)} \ {0})
<1>1. T \subseteq Nat /\ T # {}
  <2>1. \A i \in DOMAIN lines : lines[i] \in ClaudeLine
    BY LenProperties
  <2>2. \A x \in ClaudeLine : x.at \in Nat
    BY DEF ClaudeLine
  <2> QED
    BY <2>1, <2>2 DEF Parsed
<1>2. ClaudeSessionStart(lines, now) = Min(T)
  BY DEF ClaudeSessionStart
<1> HIDE DEF T
<1>3. \E x \in T : \A y \in T : x <= y
  BY <1>1, LeastNat
<1> QED
  BY <1>1, <1>2, <1>3 DEF Min

(* Every line of a Claude log is in the spine, a torn one as a gap. *)
LEMMA ClaudeLogIs ==
    ASSUME NEW lines \in Seq(ClaudeLine), NEW now \in Nat
    PROVE  /\ NormalizeClaudeCodeJsonl(lines, now) \in Seq(LogEvent)
           /\ LinesShown(ToSet(NormalizeClaudeCodeJsonl(lines, now)), lines, Len(lines))
<1> DEFINE start == ClaudeSessionStart(lines, now)
           n == Len(lines)
           f == LogFold(lines, start)
           Inv(i, s) == s \in LogStates /\ LinesShown(ToSet(s.events), lines, i)
           D == [i \in 0..n |-> {s \in LogStates : Inv(i, s)}]
<1>1. n \in Nat /\ \A i \in 1..n : i \in Nat /\ lines[i] \in ClaudeLine
  BY LenProperties, ElementOfSeq
<1>2. start \in Nat
  BY SessionStartIs
<1>3. NormalizeClaudeCodeJsonl(lines, now) = f[n].events
  BY DEF NormalizeClaudeCodeJsonl, LogFold, LogSteps
<1> HIDE DEF start
<1>4. f = [i \in 0..n |-> IF i = 0 THEN [events |-> <<>>, mono |-> 0, last |-> NoEvent]
                          ELSE NormalizeNext(f[i - 1], lines[i], i, start)]
  BY <1>2, LogFoldExists DEF LogSteps
<1> HIDE DEF f
<1>5. /\ f[0] = [events |-> <<>>, mono |-> 0, last |-> NoEvent]
      /\ \A i \in 1..n : f[i] = NormalizeNext(f[i - 1], lines[i], i, start)
  BY <1>1, <1>4
<1>6. Inv(0, f[0])
  <2>1. ToSet(f[0].events) = {}
    <3>1. f[0].events = <<>> /\ DOMAIN <<>> = {}
      BY <1>5
    <3> QED
      BY <3>1 DEF ToSet
  <2>2. f[0] \in LogStates
    BY <1>5, NoLogRead
  <2> QED
    BY <2>1, <2>2 DEF LinesShown
<1>7. ASSUME NEW i \in 1..n, NEW s, Inv(i - 1, s), NEW t, t = NormalizeNext(s, lines[i], i, start)
      PROVE  Inv(i, t)
  <2>1. /\ t \in LogStates
        /\ ToSet(s.events) \subseteq ToSet(t.events)
        /\ \E e \in ToSet(t.events) : Shows(e, lines[i], i)
        /\ \A e \in ToSet(t.events) : e \in ToSet(s.events) \/ Shows(e, lines[i], i)
    BY <1>1, <1>2, <1>7, NormalizeNextIs
  <2>2. (\A j \in 1..i : j = i \/ j \in 1..(i - 1)) /\ (\A j \in 1..(i - 1) : j \in 1..i) /\ i \in 1..i
    BY <1>1
  <2> QED
    BY <1>7, <2>1, <2>2 DEF LinesShown
<1> HIDE DEF Inv, n
<1>8. f[0] \in D[0]
  BY <1>1, <1>6 DEF Inv
<1>9. ASSUME NEW i \in 1..n, f[i - 1] \in D[i - 1]
      PROVE  f[i] \in D[i]
  <2>1. i \in 0..n /\ i - 1 \in 0..n
    BY <1>1
  <2>2. Inv(i - 1, f[i - 1])
    BY <1>9, <2>1
  <2>3. Inv(i, f[i])
    BY <1>5, <1>7, <2>2
  <2> QED
    BY <2>1, <2>3 DEF Inv
<1> HIDE DEF D
<1>10. \A i \in 0..n : f[i] \in D[i]
  BY <1>1, <1>8, <1>9, FoldHolds
<1>11. n \in 0..n
  BY <1>1
<1>12. Inv(n, f[n])
  BY <1>10, <1>11 DEF D
<1>13. f[n].events \in Seq(LogEvent) /\ LinesShown(ToSet(f[n].events), lines, n)
  BY <1>12 DEF Inv, LogStates
<1> QED
  BY <1>3, <1>13 DEF n

---------------------------------------------------------------------------
(* What lines of a Codex rollout become. *)

LEMMA MinIs ==
    ASSUME NEW T \in SUBSET Nat, T # {}
    PROVE  Min(T) \in T
<1>1. \E x \in T : \A y \in T : x <= y
  BY LeastNat
<1> QED
  BY <1>1 DEF Min

LEMMA MaxIs ==
    ASSUME NEW n \in Nat, NEW T \in SUBSET (1..n), T # {}
    PROVE  Max(T) \in T
<1> DEFINE U == {n - x : x \in T}
<1>1. U \in SUBSET Nat /\ U # {}
  <2>1. \A x \in T : n - x \in Nat
    OBVIOUS
  <2>2. PICK x \in T : TRUE
    OBVIOUS
  <2>3. n - x \in U
    OBVIOUS
  <2>4. U \subseteq Nat
    BY <2>1
  <2> QED
    BY <2>3, <2>4
<1> HIDE DEF U
<1>2. PICK u \in U : \A v \in U : u <= v
  BY <1>1, LeastNat
<1>3. PICK x \in T : u = n - x
  BY <1>2 DEF U
<1>4. \A y \in T : n - x <= n - y
  BY <1>2, <1>3 DEF U
<1>5. \A y \in T : x >= y
  BY <1>4
<1> QED
  BY <1>5 DEF Max

LEMMA CodexLogIds == \A n, k : ItemEvent(n, k) = LineEvent(n, k)
BY DEF ItemEvent, LineEvent

\* Items, and envelopes taken for one.
AnyItem ==
    [type : Text, role : Text, use : Text, command : {"none", "array", "string"}, argv : Seq(Text)]

LEMMA CallEventsIs ==
    ASSUME NEW item \in AnyItem, NEW n, NEW mono, NEW at, NEW parent, Placing(n, mono, at, parent)
    PROVE  CallEvents(item, n, mono, at, parent) \in Seq(LogEvents(n))
<1> DEFINE S == LogEvents(n)
           argv == IF item.command = "string" THEN item.argv ELSE <<>>
           ran == IF item.command = "string" THEN <<"bash", "-c", "line">> ELSE item.argv
           called == BuildEvent(ItemEvent(n, 1), "tool_call_intent", at, mono, parent)
           intent == [called EXCEPT !.use = item.use, !.argv = argv]
           m == mono + 1
           begun == BuildEvent(ItemEvent(n, 2), "shell_command_pre", at, m, intent.id)
           pre == [begun EXCEPT !.argv = ran, !.source = "reconstructed"]
<1>1. n \in Nat /\ mono \in Int /\ m \in Int /\ at \in Int /\ parent \in Ids
  BY DEF Placing
<1>2. /\ item.use \in Text /\ argv \in Seq(Text) /\ ran \in Seq(Text)
  <2>1. item.use \in Text /\ item.argv \in Seq(Text)
    BY DEF AnyItem
  <2>2. <<>> \in Seq(Text)
    BY EmptySeq
  <2>3. "bash" \in Text /\ "-c" \in Text /\ "line" \in Text
    BY DEF Text, Literals
  <2>4. <<"bash", "-c", "line">> \in Seq(Text)
    BY <2>3, TupleIs
  <2> QED
    BY <2>1, <2>2, <2>4
<1>3. "tool_call_intent" \in Text /\ "shell_command_pre" \in Text /\ "reconstructed" \in Text
  BY DEF Text, Literals
<1>4. CallEvents(item, n, mono, at, parent) =
        IF item.command = "none" THEN <<intent>> ELSE <<intent, pre>>
  BY DEF CallEvents
<1> HIDE DEF argv, ran, m
<1>5. called \in S
  BY <1>1, <1>3, CodexLogIds, LineEventIs
<1> DEFINE use == item.use
<1>6. intent = [called EXCEPT !.use = use, !.argv = argv] /\ use \in Text
  BY <1>2
<1> HIDE DEF called, intent, use
<1>7. intent \in S
  BY <1>2, <1>5, <1>6, AskFilled DEF LogEvents
<1>8. intent.id \in Ids
  <2>1. intent \in LogEvent
    BY <1>1, <1>7 DEF LogEvent
  <2> QED
    BY <2>1, LogEventIs
<1>9. begun \in S
  BY <1>1, <1>3, <1>8, CodexLogIds, LineEventIs
<1> HIDE DEF begun
<1>10. pre \in S
  BY <1>2, <1>3, <1>9, CommandFilled DEF LogEvents
<1> HIDE DEF pre, S
<1>11. <<intent>> \in Seq(S) /\ <<intent, pre>> \in Seq(S)
  BY <1>7, <1>10, TupleIs
<1> QED
  BY <1>4, <1>11 DEF S

LEMMA ItemMade ==
    ASSUME NEW item \in AnyItem, NEW n, NEW mono, NEW at, NEW parent, Placing(n, mono, at, parent)
    PROVE  ItemToEvents(item, n, mono, at, parent) \in Seq(LogEvents(n))
<1> DEFINE S == LogEvents(n)
           made == ItemToEvents(item, n, mono, at, parent)
           said(type, under) == BuildEvent(ItemEvent(n, 1), type, at, mono, under)
           answer == [said("tool_result", parent) EXCEPT !.use = item.use]
<1>1. n \in Nat /\ mono \in Int /\ at \in Int /\ parent \in Ids /\ NoEvent \in Ids
  BY IdsAre DEF Placing
<1>2. /\ "prompt" \in Text /\ "assistant_message" \in Text /\ "tool_result" \in Text
      /\ item.use \in Text
  BY DEF Text, Literals, AnyItem
<1>3. \A type \in Text, under \in Ids : said(type, under) \in S
  BY <1>1, CodexLogIds, LineEventIs
<1> HIDE DEF said
<1>4. answer \in S
  <2> DEFINE b == said("tool_result", parent)
             use == item.use
  <2>1. b \in S /\ use \in Text /\ answer = [b EXCEPT !.use = use]
    BY <1>1, <1>2, <1>3
  <2> HIDE DEF b, use, answer
  <2> QED
    BY <2>1, UseFilled DEF LogEvents
<1>5. made \in {<<said("prompt", NoEvent)>>, <<said("assistant_message", parent)>>,
                CallEvents(item, n, mono, at, parent), <<answer>>, <<>>}
  BY DEF ItemToEvents, said
<1>6. said("prompt", NoEvent) \in S /\ said("assistant_message", parent) \in S
  BY <1>1, <1>2, <1>3
<1> HIDE DEF made, answer
<1>7. /\ <<said("prompt", NoEvent)>> \in Seq(S) /\ <<said("assistant_message", parent)>> \in Seq(S)
      /\ <<answer>> \in Seq(S) /\ <<>> \in Seq(S) /\ CallEvents(item, n, mono, at, parent) \in Seq(S)
  <2>1. CallEvents(item, n, mono, at, parent) \in Seq(S)
    BY CallEventsIs
  <2> HIDE DEF S
  <2> QED
    BY <1>4, <1>6, <2>1, OneIsSeq, EmptySeq
<1> HIDE DEF S
<1>8. made \in Seq(S)
  BY <1>5, <1>7
<1> QED
  BY <1>8 DEF S, made

RolloutStates == [events : Seq(LogEvent), at : Int, last : Ids]

LEMMA EnvelopeIs ==
    ASSUME NEW line \in CodexLine, line.form # "torn", NEW format
    PROVE  ReadEnvelope(line, format) \subseteq AnyItem
<1>1. line.item \in Item /\ line.type \in Text /\ "" \in Text
  BY DEF CodexLine, Text, Literals
<1> DEFINE it == line.item
           type == line.type
           bare == [it EXCEPT !.type = type, !.role = "", !.use = "", !.command = "none"]
<1>2. ReadEnvelope(line, format) \subseteq {it, bare}
  BY DEF ReadEnvelope
<1>3. type \in Text
  BY <1>1
<1>4. it \in AnyItem
  <2>1. STRING \subseteq Text
    BY DEF Text
  <2>2. it \in Item
    BY <1>1
  <2> HIDE DEF it
  <2>3. it.argv \in Seq(Text)
    BY <2>1, <2>2, SeqMonotonic DEF Item
  <2> QED
    BY <2>1, <2>2, <2>3 DEF Item, AnyItem
<1> HIDE DEF it, type
<1>5. bare \in AnyItem
  BY <1>1, <1>3, <1>4 DEF AnyItem
<1> HIDE DEF bare
<1> QED
  BY <1>2, <1>4, <1>5

LEMMA CodexNextIs ==
    ASSUME NEW done \in RolloutStates, NEW line \in CodexLine, NEW n \in Nat, NEW format
    PROVE  CodexNext(done, line, n, format) \in RolloutStates
<1> DEFINE t == CodexNext(done, line, n, format)
           at == IF line.at = 0 THEN done.at ELSE line.at
           item == CHOOSE i \in ReadEnvelope(line, format) : TRUE
           made == IF ReadEnvelope(line, format) = {} THEN <<>>
                   ELSE ItemToEvents(item, n, Len(done.events), at, done.last)
           said == {k \in DOMAIN made : made[k].type \in {"prompt", "assistant_message"}}
           last == IF said = {} THEN done.last ELSE made[Max(said)].id
<1>1. done.events \in Seq(LogEvent) /\ done.at \in Int /\ done.last \in Ids
  BY DEF RolloutStates
<1>2. CASE line.form = "torn" \/ (format = "v2" /\ line.type = "")
  BY <1>2 DEF CodexNext
<1>3. CASE ~ (line.form = "torn" \/ (format = "v2" /\ line.type = ""))
  <2>1. t = [events |-> done.events \o made, at |-> at, last |-> last]
    BY <1>3 DEF CodexNext
  <2>2. line.at \in Nat
    BY DEF CodexLine
  <2>3. at \in Int /\ Len(done.events) \in Int
    BY <1>1, <2>2, LenProperties
  <2> HIDE DEF at
  <2>4. made \in Seq(LogEvents(n))
    <3>1. CASE ReadEnvelope(line, format) = {}
      BY <3>1, EmptySeq
    <3>2. CASE ReadEnvelope(line, format) # {}
      <4>1. item \in AnyItem
        BY <1>3, <3>2, EnvelopeIs
      <4> HIDE DEF item
      <4>2. Placing(n, Len(done.events), at, done.last)
        BY <1>1, <2>3 DEF Placing
      <4> QED
        BY <3>2, <4>1, <4>2, ItemMade
    <3> QED
      BY <3>1, <3>2
  <2> HIDE DEF made
  <2>5. LogEvents(n) \subseteq LogEvent
    BY DEF LogEvent
  <2>6. made \in Seq(LogEvent) /\ Len(made) \in Nat /\ DOMAIN made = 1..Len(made)
    BY <2>4, <2>5, SeqMonotonic, LenProperties
  <2>7. last \in Ids
    <3>1. CASE said = {}
      BY <1>1, <3>1
    <3>2. CASE said # {}
      <4>1. said \in SUBSET (1..Len(made))
        BY <2>6
      <4>2. Max(said) \in said
        <5> HIDE DEF said
        <5> QED
          BY <2>6, <3>2, <4>1, MaxIs
      <4>3. made[Max(said)] \in LogEvent
        BY <2>6, <4>2, LenProperties
      <4> QED
        BY <3>2, <4>3, LogEventIs
    <3> QED
      BY <3>1, <3>2
  <2>8. done.events \o made \in Seq(LogEvent)
    BY <1>1, <2>6, ConcatProperties
  <2> DEFINE events == done.events \o made
  <2> HIDE DEF last, events
  <2>9. t = [events |-> events, at |-> at, last |-> last] /\ events \in Seq(LogEvent)
    BY <2>1, <2>8 DEF events
  <2> HIDE DEF t
  <2>10. t \in RolloutStates
    BY <2>3, <2>7, <2>9 DEF RolloutStates
  <2> QED
    BY <2>10 DEF t
<1> QED
  BY <1>2, <1>3

RolloutSteps(f, lines, start, format) ==
    f = [n \in 0..Len(lines) |->
           IF n = 0 THEN [events |-> <<>>, at |-> start, last |-> NoEvent]
           ELSE CodexNext(f[n - 1], lines[n], n, format)]

RolloutFold(lines, start, format) == CHOOSE f : RolloutSteps(f, lines, start, format)

LEMMA RolloutFoldIs ==
    ASSUME NEW lines \in Seq(CodexLine), NEW start \in Int, NEW format
    PROVE  RolloutFold(lines, start, format)[Len(lines)] \in RolloutStates
<1> DEFINE n == Len(lines)
           U == RolloutStates
           base == [events |-> <<>>, at |-> start, last |-> NoEvent]
           Step(i, s) == CodexNext(s, lines[i], i, format)
           next == [q \in (1..n) \X U |-> Step(q[1], q[2])]
           F == RolloutFold(lines, start, format)
           D == [i \in 0..n |-> U]
<1>1. n \in Nat /\ \A i \in 1..n : i \in Nat /\ lines[i] \in CodexLine
  BY LenProperties, ElementOfSeq
<1>2. \A i \in 1..n, s \in U : Step(i, s) \in U
  BY <1>1, CodexNextIs
<1>3. base \in U
  <2>1. <<>> \in Seq(LogEvent) /\ NoEvent \in Ids
    BY EmptySeq, IdsAre
  <2> QED
    BY <2>1 DEF RolloutStates
<1> HIDE DEF U, Step, base
<1>4. next \in [(1..n) \X U -> U]
  BY <1>2
<1>5. \A i \in 1..n, s \in U : next[<<i, s>>] = Step(i, s)
  OBVIOUS
<1> HIDE DEF next, n
<1>6. PICK f \in [0..n -> U] : Folds(f, base, next, n)
  BY <1>1, <1>3, <1>4, FoldExists
<1>7. \A i \in 1..n : i - 1 \in 0..n /\ f[i - 1] \in U
  BY <1>1
<1>8. \A i \in 0..n : f[i] = IF i = 0 THEN base ELSE Step(i, f[i - 1])
  <2>1. f[0] = base /\ \A i \in 1..n : f[i] = next[<<i, f[i - 1]>>]
    BY <1>6 DEF Folds
  <2>2. \A i \in 1..n : f[i] = Step(i, f[i - 1])
    BY <1>5, <1>7, <2>1
  <2>3. \A i \in 0..n : i = 0 \/ i \in 1..n
    BY <1>1
  <2> QED
    BY <1>1, <2>1, <2>2, <2>3
<1>9. f = [i \in 0..n |-> IF i = 0 THEN base ELSE Step(i, f[i - 1])]
  BY <1>6, <1>8
<1>10. RolloutSteps(f, lines, start, format)
  BY <1>9 DEF RolloutSteps, Step, n, base
<1>11. RolloutSteps(F, lines, start, format)
  BY <1>10 DEF RolloutFold
<1> HIDE DEF F
<1>12. F = [i \in 0..n |-> IF i = 0 THEN base ELSE Step(i, F[i - 1])]
  BY <1>11 DEF RolloutSteps, Step, n, base
<1>13. F[0] \in D[0] /\ \A i \in 1..n : i - 1 \in 0..n /\ F[i] = Step(i, F[i - 1])
  BY <1>1, <1>3, <1>12
<1>14. \A i \in 1..n : F[i - 1] \in D[i - 1] => F[i] \in D[i]
  BY <1>2, <1>13
<1> HIDE DEF D
<1>15. \A i \in 0..n : F[i] \in D[i]
  BY <1>1, <1>13, <1>14, FoldHolds
<1>16. n \in 0..n
  BY <1>1
<1>17. F[n] \in U
  BY <1>15, <1>16 DEF D
<1> QED
  BY <1>17 DEF F, U, n

LEMMA CodexLogIs ==
    ASSUME NEW lines \in Seq(CodexLine), NEW now \in Nat
    PROVE  NormalizeCodexJsonl(lines, now) \in Seq(LogEvent)
<1> DEFINE meta == {l \in ReadSessionMeta(lines) : l.at # 0}
           start == IF meta = {} THEN now ELSE (CHOOSE l \in meta : TRUE).at
           format == DetectCodexFormat(lines)
<1>1. NormalizeCodexJsonl(lines, now) = RolloutFold(lines, start, format)[Len(lines)].events
  BY DEF NormalizeCodexJsonl, RolloutFold, RolloutSteps
<1>2. ReadSessionMeta(lines) \subseteq CodexLine
  <2> DEFINE v2 == DetectCodexFormat(lines) = "v2"
             facts(l) == IF v2 THEN l.enveloped /\ l.type = "session_meta" ELSE l.type = ""
             P == {i \in Objects(lines) : facts(lines[i])}
  <2>1. ReadSessionMeta(lines) = FirstOf(lines, P)
    BY DEF ReadSessionMeta
  <2>2. DOMAIN lines = 1..Len(lines) /\ \A i \in DOMAIN lines : lines[i] \in CodexLine
    BY LenProperties, ElementOfSeq
  <2> HIDE DEF facts
  <2>3. P \subseteq DOMAIN lines /\ P \in SUBSET Nat
    <3>1. \A i \in Objects(lines) : i \in DOMAIN lines
      BY DEF Objects
    <3>2. \A i \in DOMAIN lines : i \in Nat
      BY <2>2
    <3> QED
      BY <3>1, <3>2
  <2> HIDE DEF P
  <2>4. CASE P = {}
    BY <2>1, <2>4 DEF FirstOf
  <2>5. CASE P # {}
    <3>1. Min(P) \in P
      BY <2>3, <2>5, MinIs
    <3>2. FirstOf(lines, P) = {lines[Min(P)]}
      BY <2>5 DEF FirstOf
    <3>3. lines[Min(P)] \in CodexLine
      BY <2>2, <2>3, <3>1
    <3> QED
      BY <2>1, <3>2, <3>3
  <2> QED
    BY <2>4, <2>5
<1>3. start \in Int
  <2>1. meta \subseteq CodexLine
    BY <1>2
  <2>2. \A l \in CodexLine : l.at \in Nat
    BY DEF CodexLine
  <2> HIDE DEF meta
  <2> QED
    BY <2>1, <2>2
<1> HIDE DEF start, format
<1>4. RolloutFold(lines, start, format)[Len(lines)] \in RolloutStates
  BY <1>3, RolloutFoldIs
<1> QED
  BY <1>1, <1>4 DEF RolloutStates

---------------------------------------------------------------------------
(* What lines of a shell history become. *)

Command == [at : Nat, argv : Seq(Text)]
BashStates == [pending : Nat, commands : Seq(Command)]

\* Every stage of the first n lines is a command among these.
StagesShown(commands, lines, n) ==
    \A i \in 1..n : \A k \in DOMAIN lines[i].stages :
        \E c \in commands : c.argv = lines[i].stages[k]

LEMMA HistoryLineIs ==
    ASSUME NEW line \in HistoryLine
    PROVE  /\ line.at \in Nat /\ line.stages \in Seq(Seq(Text))
           /\ line.form \in {"marker", "when", "empty"} => DOMAIN line.stages = {}
<1>1. STRING \subseteq Text /\ <<>> \in Seq(Seq(Text)) /\ DOMAIN <<>> = {}
  <2>1. STRING \subseteq Text
    BY DEF Text
  <2>2. <<>> \in Seq(Seq(Text))
    BY EmptySeq
  <2>3. DOMAIN <<>> = {}
    OBVIOUS
  <2> QED
    BY <2>1, <2>2, <2>3
<1>2. Seq(STRING) \subseteq Seq(Text)
  BY <1>1, SeqMonotonic
<1>3. Seq(Seq(STRING)) \subseteq Seq(Seq(Text))
  BY <1>2, SeqMonotonic
<1>4. CASE line.form \in {"marker", "when", "empty"}
  <2>1. line.at \in Nat /\ line.stages = <<>>
    BY <1>4 DEF HistoryLine
  <2> QED
    BY <1>1, <2>1
<1>5. CASE line.form \notin {"marker", "when", "empty"}
  <2>1. line.at \in Nat /\ line.stages \in Seq(Seq(STRING))
    BY <1>5 DEF HistoryLine
  <2> QED
    BY <1>3, <1>5, <2>1
<1> QED
  BY <1>4, <1>5

(* A line adds its stages to the commands and takes none away. *)
LEMMA BashNextIs ==
    ASSUME NEW done \in BashStates, NEW line \in HistoryLine
    PROVE  LET t == BashNext(done, line)
           IN  /\ t \in BashStates
               /\ ToSet(done.commands) \subseteq ToSet(t.commands)
               /\ \A k \in DOMAIN line.stages : \E c \in ToSet(t.commands) : c.argv = line.stages[k]
<1> DEFINE t == BashNext(done, line)
           at == IF line.form \in {"zsh", "epoch"} THEN line.at ELSE done.pending
           new == [k \in DOMAIN line.stages |-> [at |-> at, argv |-> line.stages[k]]]
           n == Len(line.stages)
<1>1. line.at \in Nat /\ line.stages \in Seq(Seq(Text)) /\ (line.form = "marker" => DOMAIN line.stages = {})
  BY HistoryLineIs
<1>2. done.pending \in Nat /\ done.commands \in Seq(Command)
  BY DEF BashStates
<1>3. CASE line.form = "marker"
  <2>1. t = [done EXCEPT !.pending = line.at]
    BY <1>3 DEF BashNext
  <2>2. t \in BashStates /\ t.commands = done.commands
    BY <1>1, <2>1 DEF BashStates
  <2> QED
    BY <1>1, <1>3, <2>2
<1>4. CASE line.form # "marker"
  <2>1. t = [pending |-> 0, commands |-> done.commands \o new]
    BY <1>4 DEF BashNext
  <2>2. at \in Nat
    BY <1>1, <1>2
  <2>3. n \in Nat /\ DOMAIN line.stages = 1..n /\ \A k \in 1..n : line.stages[k] \in Seq(Text)
    BY <1>1, LenProperties, ElementOfSeq
  <2> HIDE DEF at, n
  <2>4. \A k \in 1..n : [at |-> at, argv |-> line.stages[k]] \in Command
    BY <2>2, <2>3 DEF Command
  <2>5. new \in [1..n -> Command]
    BY <2>3, <2>4
  <2>6. new \in Seq(Command) /\ DOMAIN new = 1..n
    BY <2>3, <2>5, FunctionIsSeq
  <2>7. \A k \in DOMAIN line.stages : new[k] \in ToSet(new) /\ new[k].argv = line.stages[k]
    BY <2>3, <2>6 DEF ToSet
  <2> HIDE DEF new
  <2> DEFINE commands == done.commands \o new
  <2>8. commands \in Seq(Command) /\ ToSet(commands) = ToSet(done.commands) \cup ToSet(new)
    BY <1>2, <2>6, ConcatSet
  <2> HIDE DEF commands
  <2>9. t = [pending |-> 0, commands |-> commands]
    BY <2>1 DEF commands
  <2>10. t \in BashStates /\ t.commands = commands
    BY <2>8, <2>9 DEF BashStates
  <2> QED
    BY <2>7, <2>8, <2>10
<1> QED
  BY <1>3, <1>4

BashSteps(f, lines) ==
    f = [n \in 0..Len(lines) |->
           IF n = 0 THEN [pending |-> 0, commands |-> <<>>] ELSE BashNext(f[n - 1], lines[n])]

BashFold(lines) == CHOOSE f : BashSteps(f, lines)

LEMMA NothingTyped == [pending |-> 0, commands |-> <<>>] \in BashStates
<1>1. <<>> \in Seq(Command)
  BY EmptySeq
<1> QED
  BY <1>1 DEF BashStates

LEMMA BashFoldExists ==
    ASSUME NEW lines \in Seq(HistoryLine)
    PROVE  BashSteps(BashFold(lines), lines)
<1> DEFINE n == Len(lines)
           U == BashStates
           base == [pending |-> 0, commands |-> <<>>]
           Step(i, s) == BashNext(s, lines[i])
           next == [q \in (1..n) \X U |-> Step(q[1], q[2])]
<1>1. n \in Nat /\ \A i \in 1..n : lines[i] \in HistoryLine
  BY LenProperties, ElementOfSeq
<1>2. \A i \in 1..n, s \in U : Step(i, s) \in U
  BY <1>1, BashNextIs
<1>3. base \in U
  BY NothingTyped
<1> HIDE DEF U, Step, base
<1>4. next \in [(1..n) \X U -> U]
  BY <1>2
<1>5. \A i \in 1..n, s \in U : next[<<i, s>>] = Step(i, s)
  OBVIOUS
<1> HIDE DEF next, n
<1>6. PICK f \in [0..n -> U] : Folds(f, base, next, n)
  BY <1>1, <1>3, <1>4, FoldExists
<1>7. \A i \in 1..n : i - 1 \in 0..n /\ f[i - 1] \in U
  BY <1>1
<1>8. \A i \in 0..n : f[i] = IF i = 0 THEN base ELSE Step(i, f[i - 1])
  <2>1. f[0] = base /\ \A i \in 1..n : f[i] = next[<<i, f[i - 1]>>]
    BY <1>6 DEF Folds
  <2>2. \A i \in 1..n : f[i] = Step(i, f[i - 1])
    BY <1>5, <1>7, <2>1
  <2>3. \A i \in 0..n : i = 0 \/ i \in 1..n
    BY <1>1
  <2> QED
    BY <1>1, <2>1, <2>2, <2>3
<1>9. f = [i \in 0..n |-> IF i = 0 THEN base ELSE Step(i, f[i - 1])]
  BY <1>6, <1>8
<1>10. BashSteps(f, lines)
  BY <1>9 DEF BashSteps, Step, n, base
<1> QED
  BY <1>10 DEF BashFold

(* Every stage of every line of a bash or zsh history is a command. *)
LEMMA BashHistoryIs ==
    ASSUME NEW lines \in Seq(HistoryLine)
    PROVE  /\ ParseBashHistory(lines) \in Seq(Command)
           /\ StagesShown(ToSet(ParseBashHistory(lines)), lines, Len(lines))
<1> DEFINE n == Len(lines)
           f == BashFold(lines)
           Inv(i, s) == s \in BashStates /\ StagesShown(ToSet(s.commands), lines, i)
           D == [i \in 0..n |-> {s \in BashStates : Inv(i, s)}]
<1>1. n \in Nat /\ \A i \in 1..n : lines[i] \in HistoryLine
  BY LenProperties, ElementOfSeq
<1>2. ParseBashHistory(lines) = f[n].commands
  BY DEF ParseBashHistory, BashFold, BashSteps
<1>3. f = [i \in 0..n |-> IF i = 0 THEN [pending |-> 0, commands |-> <<>>]
                          ELSE BashNext(f[i - 1], lines[i])]
  BY BashFoldExists DEF BashSteps
<1> HIDE DEF f
<1>4. /\ f[0] = [pending |-> 0, commands |-> <<>>]
      /\ \A i \in 1..n : f[i] = BashNext(f[i - 1], lines[i])
  BY <1>1, <1>3
<1>5. Inv(0, f[0])
  BY <1>4, NothingTyped DEF StagesShown
<1>6. ASSUME NEW i \in 1..n, NEW s, Inv(i - 1, s), NEW t, t = BashNext(s, lines[i])
      PROVE  Inv(i, t)
  <2>1. /\ t \in BashStates
        /\ ToSet(s.commands) \subseteq ToSet(t.commands)
        /\ \A k \in DOMAIN lines[i].stages : \E c \in ToSet(t.commands) : c.argv = lines[i].stages[k]
    BY <1>1, <1>6, BashNextIs
  <2>2. \A j \in 1..i : j = i \/ j \in 1..(i - 1)
    BY <1>1
  <2> QED
    BY <1>6, <2>1, <2>2 DEF StagesShown
<1> HIDE DEF Inv, n
<1>7. f[0] \in D[0]
  BY <1>1, <1>5 DEF Inv
<1>8. ASSUME NEW i \in 1..n, f[i - 1] \in D[i - 1]
      PROVE  f[i] \in D[i]
  <2>1. i \in 0..n /\ i - 1 \in 0..n
    BY <1>1
  <2>2. Inv(i - 1, f[i - 1])
    BY <1>8, <2>1
  <2>3. Inv(i, f[i])
    BY <1>4, <1>6, <2>2
  <2> QED
    BY <2>1, <2>3 DEF Inv
<1> HIDE DEF D
<1>9. \A i \in 0..n : f[i] \in D[i]
  BY <1>1, <1>7, <1>8, FoldHolds
<1>10. n \in 0..n
  BY <1>1
<1>11. Inv(n, f[n])
  BY <1>9, <1>10 DEF D
<1>12. f[n].commands \in Seq(Command) /\ StagesShown(ToSet(f[n].commands), lines, n)
  BY <1>11 DEF Inv, BashStates
<1> QED
  BY <1>2, <1>12 DEF n

LEMMA FishEntryIs ==
    ASSUME NEW lines \in Seq(HistoryLine), NEW i \in DOMAIN lines
    PROVE  FishEntry(lines, i) \in Command
<1> DEFINE P == {j \in DOMAIN lines : /\ i < j /\ lines[j].form = "when"
                                      /\ \A k \in EntryLines(lines) : k =< i \/ j < k}
           whens == ElementsAt(lines, P)
           at == IF whens = <<>> THEN 0 ELSE Last(whens).at
           stages == lines[i].stages
           argv == IF stages = <<>> THEN <<>> ELSE stages[1]
<1>1. FishEntry(lines, i) = [at |-> at, argv |-> argv]
  BY DEF FishEntry
<1>2. P \in SUBSET (DOMAIN lines)
  OBVIOUS
<1> HIDE DEF P
<1>3. whens \in Seq(HistoryLine)
  BY <1>2, ElementsAtSet
<1> HIDE DEF whens
<1>4. whens # <<>> => Last(whens) \in HistoryLine
  BY <1>3, LastIs
<1>5. at \in Nat
  BY <1>4, HistoryLineIs
<1>6. lines[i] \in HistoryLine
  BY LenProperties, ElementOfSeq
<1>7. stages \in Seq(Seq(Text)) /\ <<>> \in Seq(Text)
  BY <1>6, HistoryLineIs, EmptySeq
<1> HIDE DEF stages
<1>8. argv \in Seq(Text)
  <2> CASE stages = <<>>
    BY <1>7
  <2> CASE stages # <<>>
    <3>1. 1 \in 1..Len(stages)
      BY <1>7, EmptySeq, LenProperties
    <3> QED
      BY <1>7, <3>1, ElementOfSeq
  <2> QED
    OBVIOUS
<1> HIDE DEF at, argv
<1> QED
  BY <1>1, <1>5, <1>8 DEF Command

LEMMA FishHistoryIs ==
    ASSUME NEW lines \in Seq(HistoryLine)
    PROVE  ParseFishHistory(lines) \in Seq(Command)
<1> DEFINE n == Len(lines)
           s == [i \in DOMAIN lines |-> FishEntry(lines, i)]
           P == {i \in DOMAIN lines : lines[i].form = "cmd"}
<1>1. n \in Nat /\ DOMAIN lines = 1..n
  BY LenProperties
<1>2. s \in [1..n -> Command]
  BY <1>1, FishEntryIs
<1>3. s \in Seq(Command) /\ DOMAIN s = 1..n
  BY <1>1, <1>2, FunctionIsSeq
<1>4. P \in SUBSET (DOMAIN s)
  BY <1>1, <1>3
<1>5. ParseFishHistory(lines) = ElementsAt(s, P)
  BY DEF ParseFishHistory
<1> HIDE DEF s, P, n
<1> QED
  BY <1>3, <1>4, <1>5, ElementsAtSet

---------------------------------------------------------------------------
(* The events of the two siblings. *)

HistoryEvents == Event({<<"history", i>> : i \in Nat}, NoReason)

(* Every command is an event, and of bash and zsh every stage one. *)
LEMMA ShellHistoryIs ==
    ASSUME NEW lines \in Seq(HistoryLine), NEW offset \in Int, NEW start \in Int
    PROVE  LET s == ShellHistoryEvents(lines, offset, start)
           IN  /\ s \in Seq(HistoryEvents)
               /\ \A i, j \in DOMAIN s : s[i].id = s[j].id => i = j
               /\ ~ LooksLikeFishHistory(lines) => StagesShown(ToSet(s), lines, Len(lines))
<1> DEFINE commands == ParseShellHistory(lines)
           n == Len(commands)
           s == ShellHistoryEvents(lines, offset, start)
           at(i) == IF commands[i].at = 0 THEN start ELSE commands[i].at
           mono(i) == offset + i - 1
           made(i) == BuildEvent(<<"history", i>>, "shell_command_pre", at(i), mono(i), NoEvent)
           event(i) == [made(i) EXCEPT !.argv = commands[i].argv, !.source = "reconstructed"]
           S == {<<"history", i>> : i \in Nat}
<1>1. commands \in Seq(Command)
  BY BashHistoryIs, FishHistoryIs DEF ParseShellHistory
<1>2. s = [i \in DOMAIN commands |-> event(i)]
  BY DEF ShellHistoryEvents
<1>3. ~ LooksLikeFishHistory(lines) => StagesShown(ToSet(commands), lines, Len(lines))
  BY BashHistoryIs DEF ParseShellHistory
<1> HIDE DEF commands
<1>4. n \in Nat /\ DOMAIN commands = 1..n /\ \A i \in 1..n : commands[i] \in Command
  BY <1>1, LenProperties, ElementOfSeq
<1> HIDE DEF s, n
<1>5. ASSUME NEW i \in 1..n
      PROVE  event(i) \in HistoryEvents /\ event(i).id = <<"history", i>>
             /\ event(i).argv = commands[i].argv
  <2> DEFINE id == <<"history", i>>
             argv == commands[i].argv
             a == at(i)
             m == mono(i)
             b == BuildEvent(id, "shell_command_pre", a, m, NoEvent)
  <2>1. i \in Nat /\ a \in Int /\ m \in Int /\ argv \in Seq(Text)
    BY <1>4 DEF Command
  <2>2. id \in S /\ NoEvent \in Ids /\ "shell_command_pre" \in Text /\ "reconstructed" \in Text
    BY <2>1, IdsAre DEF Text, Literals
  <2>3. event(i) = [b EXCEPT !.argv = argv, !.source = "reconstructed"]
    OBVIOUS
  <2> HIDE DEF event, made, at, mono, a, m, argv, S, id
  <2>4. b \in Event(S, NoReason) /\ b.id = id
    BY <2>1, <2>2, BuildEventIs
  <2> HIDE DEF b
  <2> DEFINE filled == [b EXCEPT !.argv = argv, !.source = "reconstructed"]
  <2> DEFINE V == Event(S, NoReason)
  <2>5. filled \in V /\ filled.id = b.id /\ filled.argv = argv
    <3>1. filled \in V
      BY <2>1, <2>2, <2>4, CommandFilled
    <3>2. filled.id = b.id
      BY <2>4 DEF Event
    <3>3. filled.argv = argv
      BY <2>4 DEF Event
    <3> QED
      BY <3>1, <3>2, <3>3
  <2>6. event(i) = filled
    BY <2>3
  <2> HIDE DEF filled
  <2> QED
    BY <2>4, <2>5, <2>6 DEF HistoryEvents, S, id, argv
<1> HIDE DEF event
<1>6. s \in [1..n -> HistoryEvents]
  BY <1>2, <1>4, <1>5
<1>7. s \in Seq(HistoryEvents) /\ DOMAIN s = 1..n
  BY <1>4, <1>6, FunctionIsSeq
<1>8. \A i \in 1..n : s[i] = event(i)
  BY <1>2, <1>4
<1>9. \A i, j \in DOMAIN s : s[i].id = s[j].id => i = j
  <2> SUFFICES ASSUME NEW i \in 1..n, NEW j \in 1..n, <<"history", i>> = <<"history", j>> PROVE i = j
    BY <1>5, <1>7, <1>8
  <2> QED
    OBVIOUS
<1>10. ASSUME StagesShown(ToSet(commands), lines, Len(lines))
       PROVE  StagesShown(ToSet(s), lines, Len(lines))
  <2>1. \A c \in ToSet(commands) : \E e \in ToSet(s) : e.argv = c.argv
    BY <1>4, <1>5, <1>7, <1>8 DEF ToSet
  <2> QED
    BY <1>10, <2>1 DEF StagesShown
<1> QED
  BY <1>3, <1>7, <1>9, <1>10 DEF s

ReflogReason == "reflog_change_without_command"
SpawnEvents == Event({<<"reflog", i>> : i \in Nat}, NoReason)

\* s holds n entries of a reflog, each with the gap that nobody saw its command.
Entries(s, n) ==
    /\ \A k \in DOMAIN s : \E i \in 1..n : k = 2 * i - 1 \/ k = 2 * i
    /\ \A i \in 1..n :
         /\ 2 * i - 1 \in DOMAIN s /\ 2 * i \in DOMAIN s
         /\ s[2 * i - 1] \in SpawnEvents
         /\ s[2 * i - 1].id = <<"reflog", i>>
         /\ s[2 * i] = GapAbout(s[2 * i - 1], ReflogReason)

LEMMA SpawnIs ==
    ASSUME NEW entry \in ReflogLine, NEW i \in Nat, NEW offset \in Int, NEW now \in Int
    PROVE  /\ ReflogSpawn(entry, i, offset, now) \in SpawnEvents
           /\ ReflogSpawn(entry, i, offset, now).id = <<"reflog", i>>
<1> DEFINE at == IF entry.form = "dated" THEN entry.at ELSE now
           mono == offset + 2 * (i - 1)
           S == {<<"reflog", k>> : k \in Nat}
           V == Event(S, NoReason)
           id == <<"reflog", i>>
           argv == <<"git">>
           b == BuildEvent(id, "process_spawn", at, mono, NoEvent)
           e == [b EXCEPT !.argv = argv, !.source = "reconstructed"]
<1>1. at \in Int /\ mono \in Int /\ id \in S
  <2>1. entry.at \in Int
    BY DEF ReflogLine
  <2> QED
    BY <2>1
<1>2. NoEvent \in Ids /\ "process_spawn" \in Text /\ "reconstructed" \in Text /\ argv \in Seq(Text)
  <2>1. "process_spawn" \in Text /\ "reconstructed" \in Text /\ "git" \in Text
    BY DEF Text, Literals
  <2>2. argv \in Seq(Text)
    BY <2>1, TupleIs
  <2> QED
    BY <2>1, <2>2, IdsAre
<1>3. ReflogSpawn(entry, i, offset, now) = e
  BY DEF ReflogSpawn
<1> HIDE DEF at, mono, S, id, argv
<1>4. b \in Event(S, NoReason) /\ b.id = id
  BY <1>1, <1>2, BuildEventIs
<1> HIDE DEF b
<1>5. e \in V
  BY <1>2, <1>4, CommandFilled
<1>6. e.id = id
  BY <1>4 DEF Event
<1> HIDE DEF e
<1> QED
  BY <1>3, <1>5, <1>6 DEF SpawnEvents, S, id

(* Every entry of the reflog is a command and a gap about it. *)
LEMMA ReflogIs ==
    ASSUME NEW lines \in Seq(ReflogLine), NEW offset \in Int, NEW now \in Int
    PROVE  LET entries == ParseGitReflog(lines)
           IN  /\ entries \in Seq(ReflogLine)
               /\ Entries(ReflogToEvents(entries, offset, now), Len(entries))
               /\ ReflogToEvents(entries, offset, now) \in Seq(Event(Ids, Text))
<1> DEFINE entries == ParseGitReflog(lines)
           n == Len(entries)
           spawn(i) == ReflogSpawn(entries[i], i, offset, now)
           gap(i) == GapAbout(spawn(i), ReflogReason)
           at(k) == IF k % 2 = 1 THEN spawn((k + 1) \div 2) ELSE gap(k \div 2)
           s == ReflogToEvents(entries, offset, now)
           len == 2 * n
<1>1. entries \in Seq(ReflogLine)
  <2> DEFINE P == {i \in DOMAIN lines : lines[i].form # "junk"}
  <2>1. P \in SUBSET (DOMAIN lines)
    OBVIOUS
  <2> HIDE DEF P
  <2>2. ElementsAt(lines, P) \in Seq(ReflogLine)
    BY <2>1, ElementsAtSet
  <2> QED
    BY <2>2 DEF ParseGitReflog, P
<1> HIDE DEF entries
<1>2. n \in Nat /\ \A i \in 1..n : entries[i] \in ReflogLine
  BY <1>1, LenProperties, ElementOfSeq
<1>3. s = [k \in 1..len |-> at(k)]
  BY DEF ReflogToEvents, ReflogReason
<1>4. ASSUME NEW i \in 1..n
      PROVE  /\ spawn(i) \in SpawnEvents /\ spawn(i).id = <<"reflog", i>>
             /\ spawn(i) \in Event(Ids, Text) /\ gap(i) \in Event(Ids, Text)
  <2>1. i \in Nat /\ entries[i] \in ReflogLine
    BY <1>2
  <2>2. spawn(i) \in SpawnEvents /\ spawn(i).id = <<"reflog", i>>
    BY <2>1, SpawnIs
  <2>3. ReflogReason \in Text /\ "reflog" \in Text /\ "" \in Text
    BY DEF ReflogReason, Text, Literals
  <2> HIDE DEF spawn
  <2>4. \A k \in Nat : <<"reflog", k>> \in Ids
    BY <2>3, IdsAre
  <2>5. spawn(i) \in Event(Ids, Text)
    BY <2>2, <2>3, <2>4 DEF SpawnEvents, Event, NoReason
  <2>6. gap(i) \in Event(Ids, {ReflogReason})
    BY <2>3, <2>5, GapAboutIs
  <2>7. gap(i) \in Event(Ids, Text)
    <3> HIDE DEF gap
    <3> QED
      BY <2>3, <2>6 DEF Event
  <2> QED
    BY <2>2, <2>5, <2>7
<1> HIDE DEF s, n, spawn, gap
<1>5. ASSUME NEW i \in 1..n
      PROVE  /\ 2 * i - 1 \in 1..len /\ 2 * i \in 1..len
             /\ at(2 * i - 1) = spawn(i) /\ at(2 * i) = gap(i)
  <2>1. /\ 2 * i - 1 \in 1..len /\ 2 * i \in 1..len
        /\ (2 * i - 1) % 2 = 1 /\ ((2 * i - 1) + 1) \div 2 = i /\ (2 * i) % 2 # 1 /\ (2 * i) \div 2 = i
    BY <1>2
  <2> QED
    BY <2>1
<1>6. ASSUME NEW k \in 1..len
      PROVE  \E i \in 1..n : k = 2 * i - 1 \/ k = 2 * i
  <2>1. k % 2 = 1 => (k + 1) \div 2 \in 1..n /\ k = 2 * ((k + 1) \div 2) - 1
    BY <1>2
  <2>2. k % 2 # 1 => k \div 2 \in 1..n /\ k = 2 * (k \div 2)
    BY <1>2
  <2> QED
    BY <2>1, <2>2
<1> HIDE DEF at
<1>7. \A k \in 1..len : at(k) \in Event(Ids, Text)
  BY <1>4, <1>5, <1>6
<1>8. len \in Nat
  BY <1>2
<1> HIDE DEF len
<1>9. s \in [1..len -> Event(Ids, Text)]
  BY <1>3, <1>7
<1>10. s \in Seq(Event(Ids, Text)) /\ DOMAIN s = 1..len
  BY <1>8, <1>9, FunctionIsSeq
<1>11. \A i \in 1..n : s[2 * i - 1] = spawn(i) /\ s[2 * i] = gap(i)
  BY <1>3, <1>5
<1>12. Entries(s, n)
  BY <1>4, <1>5, <1>6, <1>10, <1>11 DEF Entries, gap
<1> QED
  BY <1>1, <1>10, <1>12 DEF s, n, entries

---------------------------------------------------------------------------
(* What goes into the merge, and where it came from. *)

Origins == {"log", "history", "reflog", ReflogReason, "store", "sidecar"}
SourceIds == {id \in Ids : id[1] \in Origins}

RawReasons == {"", ReflogReason}
ShownReasons == RawReasons \cup {"capture_failed"}
RawEvent == Event(SourceIds, RawReasons)
ShownEvent == Event(SourceIds, ShownReasons)

LEMMA EventWidens ==
    ASSUME NEW ids, NEW more, ids \subseteq more, NEW reasons, NEW others, reasons \subseteq others
    PROVE  Event(ids, reasons) \subseteq Event(more, others)
BY DEF Event

LEMMA PlacesAreIds ==
    /\ \A n, k \in Nat : LineEvent(n, k) \in SourceIds
    /\ \A o \in {"history", "reflog", "store", "sidecar"}, i \in Nat : <<o, i>> \in SourceIds
<1>1. \A n, k \in Nat : LineEvent(n, k) \in Ids /\ LineEvent(n, k)[1] = "log"
  <2>1. \A n, k \in Nat : LineEvent(n, k)[1] = "log"
    BY DEF LineEvent
  <2> QED
    BY <2>1, IdsAre
<1>2. \A o \in {"history", "reflog", "store", "sidecar"}, i \in Nat : <<o, i>> \in Ids /\ <<o, i>>[1] = o
  <2>1. \A o \in {"history", "reflog", "store", "sidecar"} : o \in Text
    BY DEF Text, Literals
  <2>2. \A o, i : <<o, i>>[1] = o
    OBVIOUS
  <2> QED
    BY <2>1, <2>2, IdsAre
<1> QED
  BY <1>1, <1>2 DEF SourceIds, Origins

LEMMA LogEventsAreRaw == LogEvent \subseteq RawEvent
<1>1. NoReason \subseteq RawReasons
  BY DEF NoReason, RawReasons
<1>2. \A n \in Nat : LogIds(n) \subseteq SourceIds
  BY PlacesAreIds DEF LogIds
<1>3. \A n \in Nat : LogEvents(n) \subseteq RawEvent
  BY <1>1, <1>2, EventWidens DEF LogEvents, RawEvent
<1> QED
  BY <1>3 DEF LogEvent

LEMMA HistoryEventsAreRaw == HistoryEvents \subseteq RawEvent
<1> DEFINE S == {<<"history", i>> : i \in Nat}
<1>1. NoReason \subseteq RawReasons
  BY DEF NoReason, RawReasons
<1>2. S \subseteq SourceIds
  BY PlacesAreIds
<1>3. HistoryEvents = Event(S, NoReason)
  BY DEF HistoryEvents
<1> HIDE DEF S
<1> QED
  BY <1>1, <1>2, <1>3, EventWidens DEF RawEvent

LEMMA SpawnEventsAreRaw ==
    /\ SpawnEvents \subseteq RawEvent
    /\ \A e \in SpawnEvents : GapAbout(e, ReflogReason) \in RawEvent
<1> DEFINE S == {<<"reflog", i>> : i \in Nat}
<1>1. NoReason \subseteq RawReasons
  BY DEF NoReason, RawReasons
<1>2. S \subseteq SourceIds
  BY PlacesAreIds
<1>3. SpawnEvents = Event(S, NoReason)
  BY DEF SpawnEvents
<1> HIDE DEF S
<1>4. SpawnEvents \subseteq RawEvent
  BY <1>1, <1>2, <1>3, EventWidens DEF RawEvent
<1>5. ASSUME NEW e \in SpawnEvents
      PROVE  GapAbout(e, ReflogReason) \in RawEvent
  <2> DEFINE g == GapAbout(e, ReflogReason)
  <2>1. ReflogReason \in Text
    BY DEF ReflogReason, Text, Literals
  <2>2. e.id \in Ids
    BY <1>4 DEF RawEvent, Event, SourceIds
  <2>3. SourceIds \subseteq Ids
    BY DEF SourceIds
  <2>4. e \in Event(Ids, RawReasons)
    BY <1>4, <2>3, EventWidens DEF RawEvent
  <2>5. g \in Event(Ids, {ReflogReason}) /\ g.id = <<ReflogReason>> \o e.id
    BY <2>1, <2>4, GapAboutIs
  <2> HIDE DEF g
  <2>6. g.id[1] = ReflogReason
    <3>1. <<ReflogReason>> \in Seq(Text \cup Nat) /\ e.id \in Seq(Text \cup Nat)
      BY <2>1, <2>2, TupleIs DEF Ids
    <3>2. Len(<<ReflogReason>>) = 1 /\ <<ReflogReason>>[1] = ReflogReason /\ Len(e.id) \in Nat
      BY <3>1, LenProperties
    <3> QED
      BY <2>5, <3>1, <3>2, ConcatProperties
  <2>7. g.id \in SourceIds
    BY <2>5, <2>6 DEF SourceIds, Origins, Event
  <2>8. g \in Event(SourceIds, RawReasons)
    BY <2>5, <2>7 DEF Event, RawReasons
  <2> QED
    BY <2>8 DEF RawEvent, g
<1> QED
  BY <1>4, <1>5

(* The event a record becomes. *)
LEMMA RecordEventIs ==
    ASSUME NEW o \in {"store", "sidecar"}, NEW i \in Nat, NEW record \in CaptureRecord,
           NEW mono \in Int
    PROVE  /\ RecordEvent(<<o, i>>, record, mono) \in RawEvent
           /\ RecordEvent(<<o, i>>, record, mono).id = <<o, i>>
           /\ RecordEvent(<<o, i>>, record, mono).at = CapturedAt(record)
           /\ RecordEvent(<<o, i>>, record, mono).type = ReadAs(record)
<1> DEFINE id == <<o, i>>
           at == CapturedAt(record)
           type == ReadAs(record)
           argv == record.argv
           cwd == record.cwd
           link == record.link
           b == BuildEvent(id, type, at, mono, NoEvent)
           e == RecordEvent(id, record, mono)
<1>1. id \in SourceIds
  BY PlacesAreIds
<1>2. at \in Int
  <2>1. record.at \in Nat /\ record.mtime \in Nat
    BY DEF CaptureRecord
  <2> QED
    BY <2>1 DEF CapturedAt
<1>3. type \in Text
  <2>1. type \in {"capture_failed", "tool_call_effect", "process_spawn", "shell_command_pre", "malformed"}
    BY DEF ReadAs
  <2> QED
    BY <2>1 DEF Text, Literals
<1>4. argv \in Seq(Text) /\ cwd \in Seq(Text)
  <2>1. STRING \subseteq Text
    BY DEF Text
  <2>2. argv \in Seq(STRING) /\ cwd \in Seq(STRING)
    BY DEF CaptureRecord
  <2> QED
    BY <2>1, <2>2, SeqMonotonic
<1>5. record.source \in Text /\ record.pids \in SUBSET Nat /\ record.input \in Text
  BY DEF CaptureRecord, Text
<1>6. link \in Ids
  <2>1. link \in {NoEvent} \cup ({"store"} \X Nat)
    BY DEF CaptureRecord
  <2>2. "store" \in Text
    BY DEF Text, Literals
  <2>3. \A x \in {"store"} \X Nat : \E k \in Nat : x = <<"store", k>>
    OBVIOUS
  <2> QED
    BY <2>1, <2>2, <2>3, IdsAre
<1>7. e = [b EXCEPT !.argv = argv, !.cwd = cwd, !.source = record.source, !.pids = record.pids,
                    !.input = record.input, !.link = link]
  BY DEF RecordEvent
<1> HIDE DEF id, at, type, argv, cwd, link
<1>8. b \in Event(SourceIds, NoReason) /\ b.id = id /\ b.type = type /\ b.at = at
  <2>1. NoEvent \in Ids
    BY IdsAre
  <2>2. b \in Event(SourceIds, NoReason) /\ b.id = id /\ b.type = type
    BY <1>1, <1>2, <1>3, <2>1, BuildEventIs
  <2>3. b.at = at
    BY DEF BuildEvent
  <2> QED
    BY <2>2, <2>3
<1> HIDE DEF b, e
<1>9. e \in Event(SourceIds, NoReason) /\ e.id = id /\ e.at = at /\ e.type = type
  BY <1>4, <1>5, <1>6, <1>7, <1>8 DEF Event
<1>10. e \in RawEvent
  <2>1. NoReason \subseteq RawReasons
    BY DEF NoReason, RawReasons
  <2> QED
    BY <1>9, <2>1, EventWidens DEF RawEvent
<1> QED
  BY <1>9, <1>10 DEF e, id, at, type

---------------------------------------------------------------------------
(* One event of each id. *)

\* What stands for a raw event in the timeline.
Shown(e) == IF e.type = "capture_failed" THEN CaptureFailedToGap(e) ELSE e

LEMMA ShownIs ==
    ASSUME NEW e \in RawEvent
    PROVE  /\ Shown(e) \in ShownEvent
           /\ Shown(e).id = e.id /\ Shown(e).at = e.at /\ Shown(e).mono = e.mono
           /\ Shown(e).argv = e.argv
           /\ (e.type # "capture_failed" => Shown(e) = e)
           /\ Shown(e).type = IF e.type = "capture_failed" THEN "gap" ELSE e.type
<1>1. "gap" \in Text /\ "capture_failed" \in ShownReasons /\ RawReasons \subseteq ShownReasons
  BY DEF Text, Literals, ShownReasons
<1>2. CASE e.type = "capture_failed"
  <2> DEFINE g == [e EXCEPT !.type = "gap", !.reason = "capture_failed"]
  <2>1. Shown(e) = g
    BY <1>2 DEF Shown, CaptureFailedToGap
  <2>2. /\ g \in ShownEvent /\ g.id = e.id /\ g.at = e.at /\ g.mono = e.mono /\ g.argv = e.argv
        /\ g.type = "gap"
    BY <1>1 DEF RawEvent, ShownEvent, Event
  <2> HIDE DEF g
  <2> QED
    BY <1>2, <2>1, <2>2
<1>3. CASE e.type # "capture_failed"
  <2>1. Shown(e) = e
    BY <1>3 DEF Shown
  <2>2. SourceIds \subseteq SourceIds
    OBVIOUS
  <2>3. e \in ShownEvent
    BY <1>1, <2>2, EventWidens DEF RawEvent, ShownEvent
  <2> QED
    BY <1>3, <2>1, <2>3
<1> QED
  BY <1>2, <1>3

OneOfEachId(s) == \A k, l \in DOMAIN s : s[k].id = s[l].id => k = l

\* shown stands for the events of raw.
StandsFor(shown, raw) ==
    /\ \A e \in shown : \E r \in raw : e = Shown(r)
    /\ \A r \in raw : \E e \in shown : e.id = r.id

LEMMA DedupeIs ==
    ASSUME NEW raw \in Seq(RawEvent)
    PROVE  /\ Dedupe(raw) \in Seq(ShownEvent)
           /\ OneOfEachId(Dedupe(raw))
           /\ StandsFor(ToSet(Dedupe(raw)), ToSet(raw))
<1> DEFINE P == FirstOfId(raw)
           kept == ElementsAt(raw, P)
           p == InOrder(P)
           n == Cardinality(P)
           d == Dedupe(raw)
<1>1. DOMAIN raw = 1..Len(raw) /\ Len(raw) \in Nat /\ \A i \in DOMAIN raw : raw[i] \in RawEvent
  BY LenProperties, ElementOfSeq
<1>2. P \in SUBSET (DOMAIN raw)
  BY DEF FirstOfId
<1>3. d = [k \in DOMAIN kept |-> Shown(kept[k])]
  BY DEF Dedupe, Shown
<1> HIDE DEF P
<1>4. /\ kept \in Seq(RawEvent) /\ ToSet(kept) = {raw[i] : i \in P}
      /\ Picks(p, kept, raw, P) /\ n \in Nat
  BY <1>2, ElementsAtSet
<1> HIDE DEF kept, p, n, d
<1>5. /\ kept = [k \in 1..n |-> raw[p[k]]]
      /\ \A k \in 1..n : p[k] \in P
      /\ \A k, l \in 1..n : k < l <=> p[k] < p[l]
      /\ \A i \in P : \E k \in 1..n : p[k] = i
  BY <1>4 DEF Picks, Lists, n
<1>6. DOMAIN kept = 1..n /\ \A k \in 1..n : kept[k] = raw[p[k]] /\ kept[k] \in RawEvent
  <2>1. DOMAIN kept = 1..n
    BY <1>5
  <2> QED
    BY <1>4, <1>5, <2>1, LenProperties
<1>7. \A k \in 1..n : Shown(kept[k]) \in ShownEvent /\ Shown(kept[k]).id = kept[k].id
  BY <1>6, ShownIs
<1>8. d = [k \in 1..n |-> Shown(kept[k])]
  BY <1>3, <1>6
<1>9. d \in [1..n -> ShownEvent]
  BY <1>7, <1>8
<1>10. d \in Seq(ShownEvent) /\ DOMAIN d = 1..n
  BY <1>4, <1>9, FunctionIsSeq
<1>11. \A k \in 1..n : d[k] = Shown(kept[k]) /\ d[k].id = raw[p[k]].id
  BY <1>6, <1>7, <1>8
<1>12. OneOfEachId(d)
  <2> SUFFICES ASSUME NEW k \in 1..n, NEW l \in 1..n, d[k].id = d[l].id PROVE k = l
    BY <1>10 DEF OneOfEachId
  <2>1. raw[p[k]].id = raw[p[l]].id /\ p[k] \in P /\ p[l] \in P
    BY <1>5, <1>11
  <2>2. p[k] \in Nat /\ p[l] \in Nat
    BY <1>1, <1>2, <2>1
  <2>3. ~ (p[k] < p[l])
    <3> SUFFICES ASSUME p[k] < p[l] PROVE FALSE
      OBVIOUS
    <3>1. p[k] \in 1..(p[l] - 1)
      BY <1>1, <1>2, <2>1, <2>2
    <3> QED
      BY <2>1, <3>1 DEF P, FirstOfId
  <2>4. ~ (p[l] < p[k])
    <3> SUFFICES ASSUME p[l] < p[k] PROVE FALSE
      OBVIOUS
    <3>1. p[l] \in 1..(p[k] - 1)
      BY <1>1, <1>2, <2>1, <2>2
    <3> QED
      BY <2>1, <3>1 DEF P, FirstOfId
  <2>5. ~ (k < l) /\ ~ (l < k)
    BY <1>5, <2>3, <2>4
  <2> QED
    BY <1>4, <2>5
<1>13. \A e \in ToSet(d) : \E r \in ToSet(raw) : e = Shown(r)
  <2>1. \A k \in 1..n : kept[k] \in ToSet(raw)
    BY <1>1, <1>2, <1>5, <1>6 DEF ToSet
  <2> QED
    BY <1>10, <1>11, <2>1 DEF ToSet
<1>14. ASSUME NEW r \in ToSet(raw)
       PROVE  \E e \in ToSet(d) : e.id = r.id
  <2>1. PICK i \in DOMAIN raw : r = raw[i]
    BY DEF ToSet
  <2> DEFINE T == {j \in DOMAIN raw : raw[j].id = r.id}
  <2>2. T \in SUBSET Nat /\ T # {}
    BY <1>1, <2>1
  <2> HIDE DEF T
  <2>3. PICK j \in T : \A m \in T : j <= m
    BY <2>2, LeastNat
  <2>4. j \in DOMAIN raw /\ raw[j].id = r.id
    BY DEF T
  <2>5. \A m \in 1..(j - 1) : m \in DOMAIN raw /\ ~ (j <= m)
    BY <1>1, <2>4
  <2>6. \A m \in 1..(j - 1) : raw[m].id # r.id
    BY <2>3, <2>5 DEF T
  <2>7. j \in P
    BY <2>4, <2>6 DEF P, FirstOfId
  <2>8. PICK k \in 1..n : p[k] = j
    BY <1>5, <2>7
  <2>9. d[k] \in ToSet(d) /\ d[k].id = r.id
    BY <1>10, <1>11, <2>4, <2>8 DEF ToSet
  <2> QED
    BY <2>9
<1> QED
  BY <1>10, <1>12, <1>13, <1>14 DEF StandsFor, d

---------------------------------------------------------------------------
(* A sort changes nothing but the order. *)

LEMMA SortedIs ==
    ASSUME NEW S, NEW events \in Seq(S), \A e \in S : Timed(e)
    PROVE  LET sorted == SortByTime(events)
           IN  /\ sorted \in Seq(S)
               /\ ToSet(sorted) = ToSet(events)
               /\ OneOfEachId(events) => OneOfEachId(sorted)
               /\ \A k, l \in DOMAIN sorted : CompareByTime(sorted[k], sorted[l]) => k < l
<1> DEFINE n == Len(events)
           sorted == SortByTime(events)
<1>1. n \in Nat /\ DOMAIN events = 1..n /\ \A i \in 1..n : events[i] \in S /\ Timed(events[i])
  BY LenProperties, ElementOfSeq
<1>2. PICK p : Sorts(p, sorted, events)
  BY <1>1, SortByTimeIs
<1> HIDE DEF sorted
<1>3. /\ sorted = [k \in 1..n |-> events[p[k]]]
      /\ \A k \in 1..n : p[k] \in 1..n
      /\ \A k, l \in 1..n : p[k] = p[l] => k = l
      /\ \A i \in 1..n : \E k \in 1..n : p[k] = i
      /\ \A k, l \in 1..n : CompareByTime(events[p[k]], events[p[l]]) => k < l
  BY <1>2 DEF Sorts
<1> HIDE DEF n
<1>4. sorted \in [1..n -> S]
  BY <1>1, <1>3
<1>5. sorted \in Seq(S) /\ DOMAIN sorted = 1..n
  BY <1>1, <1>4, FunctionIsSeq
<1>6. \A k \in 1..n : sorted[k] = events[p[k]]
  BY <1>3
<1>7. ToSet(sorted) = ToSet(events)
  <2>1. ASSUME NEW k \in 1..n PROVE sorted[k] \in ToSet(events)
    <3>1. p[k] \in 1..n /\ sorted[k] = events[p[k]]
      BY <1>3, <1>6
    <3> QED
      BY <1>1, <3>1 DEF ToSet
  <2>2. ASSUME NEW i \in 1..n PROVE events[i] \in ToSet(sorted)
    <3>1. PICK k \in 1..n : p[k] = i
      BY <1>3
    <3> QED
      BY <1>5, <1>6, <3>1 DEF ToSet
  <2>3. ToSet(events) \subseteq ToSet(sorted)
    BY <1>1, <2>2 DEF ToSet
  <2>4. ToSet(sorted) \subseteq ToSet(events)
    BY <1>5, <2>1 DEF ToSet
  <2> QED
    BY <2>3, <2>4
<1>8. OneOfEachId(events) => OneOfEachId(sorted)
  <2> SUFFICES ASSUME OneOfEachId(events), NEW k \in 1..n, NEW l \in 1..n, sorted[k].id = sorted[l].id
               PROVE  k = l
    BY <1>5 DEF OneOfEachId
  <2>1. p[k] \in DOMAIN events /\ p[l] \in DOMAIN events /\ events[p[k]].id = events[p[l]].id
    BY <1>1, <1>3, <1>6
  <2>2. p[k] = p[l]
    BY <2>1 DEF OneOfEachId
  <2> QED
    BY <1>3, <2>2
<1>9. \A k, l \in DOMAIN sorted : CompareByTime(sorted[k], sorted[l]) => k < l
  BY <1>3, <1>5, <1>6
<1> QED
  BY <1>5, <1>7, <1>8, <1>9 DEF sorted

---------------------------------------------------------------------------
(* The merge: what its result holds. *)

LEMMA SequenceOf ==
    ASSUME NEW S, NEW s \in Seq(S), NEW T, \A k \in DOMAIN s : s[k] \in T
    PROVE  s \in Seq(T)
<1>1. Len(s) \in Nat /\ DOMAIN s = 1..Len(s) /\ s \in [1..Len(s) -> S]
  BY LenProperties
<1>2. s = [k \in 1..Len(s) |-> s[k]]
  BY <1>1
<1>3. s \in [1..Len(s) -> T]
  BY <1>1, <1>2
<1> QED
  BY <1>1, <1>3, FunctionIsSeq

LEMMA ShownEventIs ==
    ASSUME NEW e \in ShownEvent
    PROVE  Timed(e) /\ e.id \in Ids /\ e.id[1] \in Origins /\ e.reason \in ShownReasons
           /\ e \in Event(Ids, Text) /\ e \in Event(Ids, ShownReasons)
<1>1. SourceIds \subseteq Ids /\ ShownReasons \subseteq Text
  BY DEF SourceIds, ShownReasons, RawReasons, ReflogReason, Text, Literals
<1>2. e \in Event(Ids, Text)
  BY <1>1, EventWidens DEF ShownEvent
<1>3. ShownReasons \subseteq ShownReasons
  OBVIOUS
<1>4. e \in Event(Ids, ShownReasons)
  BY <1>1, <1>3, EventWidens DEF ShownEvent
<1>5. e.at \in Int /\ e.mono \in Int /\ e.id \in Ids /\ e.id[1] \in Origins /\ e.reason \in ShownReasons
  BY DEF ShownEvent, Event, SourceIds
<1> QED
  BY <1>2, <1>4, <1>5 DEF Timed

Unmatched == "tool_result_without_pre_capture"
Unclaimed == "pre_capture_without_tool_result"
Unanswered == "intent_without_effect"
Unasked == "effect_without_intent"
Unhooked == "kernel_execve_without_hook"

MergeReasons == {Unmatched, Unclaimed, Unanswered, Unasked, Unhooked}

LEMMA ReasonsDiffer ==
    /\ \A r \in MergeReasons : r \notin ShownReasons /\ r \notin Origins
    /\ Unmatched # Unclaimed /\ Unmatched # Unanswered /\ Unmatched # Unasked /\ Unmatched # Unhooked
    /\ Unclaimed # Unanswered /\ Unclaimed # Unasked /\ Unclaimed # Unhooked
    /\ Unhooked # Unanswered /\ Unhooked # Unasked
BY DEF MergeReasons, Unmatched, Unclaimed, Unanswered, Unasked, Unhooked, ShownReasons, RawReasons,
       ReflogReason, Origins

\* What mergeEvents makes of the events of its sources.
Ordered(raw) == SortByTime(Dedupe(raw))
TakenBy(sorted) == ResultLinks(sorted)
CalledBy(sorted) == CallLinks(sorted, Linked(ResultLinks(sorted)))

\* The places of the events about which there is a gap of some reason.
Filed(sorted, reason) ==
    CASE reason = Unmatched -> Unlinked(TakenBy(sorted))
      [] reason = Unclaimed -> UnmatchedPres(sorted, TakenBy(sorted), CalledBy(sorted))
      [] reason = Unhooked -> Unlinked(KernelLinks(sorted))
      [] OTHER -> {i \in DOMAIN sorted : Gap(reason, i) \in PairGaps(sorted)}

GapsOf(sorted, reason) == GapsAt(sorted, Filed(sorted, reason), reason)

GapsIn(sorted) ==
    GapsOf(sorted, Unmatched) \o GapsOf(sorted, Unclaimed) \o GapsOf(sorted, Unasked)
      \o GapsOf(sorted, Unanswered) \o GapsOf(sorted, Unhooked)

Pairs(sorted, links) ==
    UNION {{<<sorted[i].id, sorted[j].id>> : j \in links[i]} : i \in DOMAIN links}

LEMMA MergeIs ==
    ASSUME NEW a, NEW b, NEW c, NEW d
    PROVE  LET sorted == Ordered(a \o b \o c \o d)
           IN  MergeEvents(a, b, c, d) =
                 [events |-> SortByTime(GapsIn(sorted) \o sorted),
                  links  |-> Pairs(sorted, TakenBy(sorted)) \cup Pairs(sorted, CalledBy(sorted)),
                  kernel |-> Pairs(sorted, KernelLinks(sorted))]
<1> DEFINE sorted == Ordered(a \o b \o c \o d)
           pairing(reason) == {i \in DOMAIN sorted : Gap(reason, i) \in PairGaps(sorted)}
<1>1. /\ Filed(sorted, Unmatched) = Unlinked(TakenBy(sorted))
      /\ Filed(sorted, Unclaimed) = UnmatchedPres(sorted, TakenBy(sorted), CalledBy(sorted))
      /\ Filed(sorted, Unhooked) = Unlinked(KernelLinks(sorted))
      /\ Filed(sorted, Unanswered) = pairing(Unanswered)
      /\ Filed(sorted, Unasked) = pairing(Unasked)
  <2> HIDE DEF sorted
  <2>1. /\ Unclaimed # Unmatched /\ Unhooked # Unmatched /\ Unhooked # Unclaimed
        /\ Unanswered \notin {Unmatched, Unclaimed, Unhooked} /\ Unasked \notin {Unmatched, Unclaimed, Unhooked}
    BY ReasonsDiffer
  <2>2. Filed(sorted, Unmatched) = Unlinked(TakenBy(sorted))
    BY <2>1 DEF Filed
  <2>3. Filed(sorted, Unclaimed) = UnmatchedPres(sorted, TakenBy(sorted), CalledBy(sorted))
    BY <2>1 DEF Filed
  <2>4. Filed(sorted, Unhooked) = Unlinked(KernelLinks(sorted))
    BY <2>1 DEF Filed
  <2>5. Filed(sorted, Unanswered) = pairing(Unanswered)
    BY <2>1 DEF Filed
  <2>6. Filed(sorted, Unasked) = pairing(Unasked)
    BY <2>1 DEF Filed
  <2> QED
    BY <2>2, <2>3, <2>4, <2>5, <2>6
<1>2. MergeEvents(a, b, c, d) =
        [events |-> SortByTime(GapsAt(sorted, Unlinked(TakenBy(sorted)), Unmatched)
                        \o GapsAt(sorted, UnmatchedPres(sorted, TakenBy(sorted), CalledBy(sorted)),
                                  Unclaimed)
                        \o GapsAt(sorted, pairing(Unasked), Unasked)
                        \o GapsAt(sorted, pairing(Unanswered), Unanswered)
                        \o GapsAt(sorted, Unlinked(KernelLinks(sorted)), Unhooked) \o sorted),
         links  |-> Pairs(sorted, TakenBy(sorted)) \cup Pairs(sorted, CalledBy(sorted)),
         kernel |-> Pairs(sorted, KernelLinks(sorted))]
  BY DEF MergeEvents, Ordered, TakenBy, CalledBy, Pairs, Unmatched, Unclaimed, Unanswered, Unasked,
         Unhooked
<1> HIDE DEF sorted
<1> QED
  BY <1>1, <1>2 DEF GapsIn, GapsOf, sorted

(* Gaps of every reason are about events of the timeline. *)
LEMMA FiledIs ==
    ASSUME NEW sorted, NEW reason \in MergeReasons
    PROVE  Filed(sorted, reason) \in SUBSET (DOMAIN sorted)
<1>1. /\ DOMAIN ResultLinks(sorted) \subseteq DOMAIN sorted
      /\ DOMAIN KernelLinks(sorted) \subseteq DOMAIN sorted
      /\ Pres(sorted) \subseteq DOMAIN sorted
  BY DEF ResultLinks, KernelLinks, Results, Execves, Pres, TypeAt
<1>2. Unlinked(TakenBy(sorted)) \subseteq DOMAIN sorted
  BY <1>1 DEF Unlinked, TakenBy
<1>3. Unlinked(KernelLinks(sorted)) \subseteq DOMAIN sorted
  BY <1>1 DEF Unlinked
<1>4. UnmatchedPres(sorted, TakenBy(sorted), CalledBy(sorted)) \subseteq DOMAIN sorted
  BY <1>1 DEF UnmatchedPres
<1>5. {i \in DOMAIN sorted : Gap(reason, i) \in PairGaps(sorted)} \subseteq DOMAIN sorted
  OBVIOUS
<1> DEFINE pairs == {i \in DOMAIN sorted : Gap(reason, i) \in PairGaps(sorted)}
<1>6. Filed(sorted, reason) \in {Unlinked(TakenBy(sorted)), Unlinked(KernelLinks(sorted)), pairs,
                                 UnmatchedPres(sorted, TakenBy(sorted), CalledBy(sorted))}
  BY DEF Filed
<1> HIDE DEF pairs
<1> QED
  BY <1>2, <1>3, <1>4, <1>5, <1>6 DEF pairs

MadeEvent == Event(Ids, Text)

LEMMA GapsOfIs ==
    ASSUME NEW sorted \in Seq(ShownEvent), NEW reason \in MergeReasons, reason \in Text
    PROVE  /\ GapsOf(sorted, reason) \in Seq(MadeEvent)
           /\ ToSet(GapsOf(sorted, reason)) = {GapAbout(sorted[i], reason) : i \in Filed(sorted, reason)}
<1> DEFINE P == Filed(sorted, reason)
           about == ElementsAt(sorted, P)
           g == GapsOf(sorted, reason)
           n == Len(about)
<1>1. P \in SUBSET (DOMAIN sorted)
  BY FiledIs
<1>2. g = [k \in DOMAIN about |-> GapAbout(about[k], reason)]
  BY DEF GapsOf, GapsAt
<1> HIDE DEF P
<1>3. about \in Seq(ShownEvent) /\ ToSet(about) = {sorted[i] : i \in P}
  BY <1>1, ElementsAtSet
<1> HIDE DEF about, g
<1>4. n \in Nat /\ DOMAIN about = 1..n /\ \A k \in 1..n : about[k] \in ShownEvent
  BY <1>3, LenProperties, ElementOfSeq
<1> HIDE DEF n
<1>5. ASSUME NEW k \in 1..n PROVE GapAbout(about[k], reason) \in MadeEvent
  <2> DEFINE e == about[k]
             x == GapAbout(e, reason)
  <2>1. e \in Event(Ids, Text)
    BY <1>4, ShownEventIs
  <2> HIDE DEF e
  <2>2. x \in Event(Ids, {reason})
    BY <2>1, GapAboutIs
  <2> HIDE DEF x
  <2>3. x \in MadeEvent
    BY <2>2 DEF Event, MadeEvent
  <2> QED
    BY <2>3 DEF x, e
<1>6. g = [k \in 1..n |-> GapAbout(about[k], reason)] /\ g \in [1..n -> MadeEvent]
  BY <1>2, <1>4, <1>5
<1>7. g \in Seq(MadeEvent) /\ DOMAIN g = 1..n
  BY <1>4, <1>6, FunctionIsSeq
<1>8. \A k \in 1..n : g[k] = GapAbout(about[k], reason)
  BY <1>6
<1>9. ToSet(g) = {GapAbout(e, reason) : e \in ToSet(about)}
  BY <1>4, <1>7, <1>8 DEF ToSet
<1>10. ToSet(g) = {GapAbout(sorted[i], reason) : i \in P}
  BY <1>3, <1>9
<1> QED
  BY <1>7, <1>10 DEF g, P

IsMergeGap(g, sorted) ==
    \E reason \in MergeReasons : \E i \in Filed(sorted, reason) : g = GapAbout(sorted[i], reason)

LEMMA ReasonsAreText == MergeReasons \subseteq Text
BY DEF MergeReasons, Unmatched, Unclaimed, Unanswered, Unasked, Unhooked, Text, Literals

(* The events of the sources, one of each id, and gaps about them, by time. *)
LEMMA TimelineIs ==
    ASSUME NEW raw \in Seq(RawEvent)
    PROVE  LET sorted == Ordered(raw)
               events == SortByTime(GapsIn(sorted) \o sorted)
           IN  /\ sorted \in Seq(ShownEvent)
               /\ OneOfEachId(sorted)
               /\ StandsFor(ToSet(sorted), ToSet(raw))
               /\ events \in Seq(MadeEvent)
               /\ \A e : e \in ToSet(events) <=> e \in ToSet(sorted) \/ IsMergeGap(e, sorted)
               /\ \A k, l \in DOMAIN events : CompareByTime(events[k], events[l]) => k < l
<1> DEFINE sorted == Ordered(raw)
           gaps == GapsIn(sorted)
           both == gaps \o sorted
           events == SortByTime(both)
<1>1. /\ sorted \in Seq(ShownEvent) /\ OneOfEachId(sorted)
      /\ StandsFor(ToSet(sorted), ToSet(raw))
  <2>1. \A e \in ShownEvent : Timed(e)
    BY ShownEventIs
  <2> DEFINE kept == Dedupe(raw)
  <2>2. kept \in Seq(ShownEvent) /\ OneOfEachId(kept) /\ StandsFor(ToSet(kept), ToSet(raw))
    BY DedupeIs
  <2> HIDE DEF kept
  <2>3. /\ SortByTime(kept) \in Seq(ShownEvent) /\ ToSet(SortByTime(kept)) = ToSet(kept)
        /\ OneOfEachId(SortByTime(kept))
    BY <2>1, <2>2, SortedIs
  <2> QED
    BY <2>2, <2>3 DEF Ordered, kept
<1> HIDE DEF sorted
<1>2. /\ gaps \in Seq(MadeEvent)
      /\ \A e : e \in ToSet(gaps) <=> IsMergeGap(e, sorted)
  <2> DEFINE g1 == GapsOf(sorted, Unmatched)
             g2 == GapsOf(sorted, Unclaimed)
             g3 == GapsOf(sorted, Unasked)
             g4 == GapsOf(sorted, Unanswered)
             g5 == GapsOf(sorted, Unhooked)
             About(reason) == {GapAbout(sorted[i], reason) : i \in Filed(sorted, reason)}
  <2>1. \A reason \in MergeReasons : /\ GapsOf(sorted, reason) \in Seq(MadeEvent)
                                     /\ ToSet(GapsOf(sorted, reason)) = About(reason)
    BY <1>1, ReasonsAreText, GapsOfIs
  <2> HIDE DEF About
  <2>2. /\ Unmatched \in MergeReasons /\ Unclaimed \in MergeReasons /\ Unanswered \in MergeReasons
        /\ Unasked \in MergeReasons /\ Unhooked \in MergeReasons
    BY DEF MergeReasons
  <2>3. /\ g1 \in Seq(MadeEvent) /\ g2 \in Seq(MadeEvent) /\ g3 \in Seq(MadeEvent)
        /\ g4 \in Seq(MadeEvent) /\ g5 \in Seq(MadeEvent)
        /\ ToSet(g1) = About(Unmatched) /\ ToSet(g2) = About(Unclaimed)
        /\ ToSet(g3) = About(Unasked) /\ ToSet(g4) = About(Unanswered) /\ ToSet(g5) = About(Unhooked)
    BY <2>1, <2>2
  <2>4. gaps = g1 \o g2 \o g3 \o g4 \o g5
    BY DEF GapsIn
  <2> HIDE DEF gaps, g1, g2, g3, g4, g5
  <2> DEFINE h2 == g1 \o g2
             h3 == h2 \o g3
             h4 == h3 \o g4
             h5 == h4 \o g5
  <2>5. h2 \in Seq(MadeEvent) /\ ToSet(h2) = ToSet(g1) \cup ToSet(g2)
    BY <2>3, ConcatSet
  <2>6. gaps = h5
    BY <2>4
  <2> HIDE DEF h2
  <2>7. h3 \in Seq(MadeEvent) /\ ToSet(h3) = ToSet(h2) \cup ToSet(g3)
    BY <2>3, <2>5, ConcatSet
  <2> HIDE DEF h3
  <2>8. h4 \in Seq(MadeEvent) /\ ToSet(h4) = ToSet(h3) \cup ToSet(g4)
    BY <2>3, <2>7, ConcatSet
  <2> HIDE DEF h4
  <2>9. h5 \in Seq(MadeEvent) /\ ToSet(h5) = ToSet(h4) \cup ToSet(g5)
    BY <2>3, <2>8, ConcatSet
  <2> HIDE DEF h5
  <2>10. \A e : e \in ToSet(gaps) <=> \E reason \in MergeReasons : e \in About(reason)
    BY <2>3, <2>5, <2>6, <2>7, <2>8, <2>9 DEF MergeReasons
  <2>11. \A e, reason : e \in About(reason)
            <=> \E i \in Filed(sorted, reason) : e = GapAbout(sorted[i], reason)
    BY DEF About
  <2> QED
    BY <2>6, <2>9, <2>10, <2>11 DEF IsMergeGap
<1> HIDE DEF gaps
<1>3. sorted \in Seq(MadeEvent)
  <2>1. ShownEvent \subseteq MadeEvent
    BY ShownEventIs DEF MadeEvent
  <2> QED
    BY <1>1, <2>1, SeqMonotonic
<1>4. both \in Seq(MadeEvent) /\ ToSet(both) = ToSet(gaps) \cup ToSet(sorted)
  BY <1>2, <1>3, ConcatSet
<1> HIDE DEF both
<1>5. \A e \in MadeEvent : Timed(e)
  BY DEF MadeEvent, Event, Timed
<1>6. /\ events \in Seq(MadeEvent) /\ ToSet(events) = ToSet(both)
      /\ \A k, l \in DOMAIN events : CompareByTime(events[k], events[l]) => k < l
  BY <1>4, <1>5, SortedIs
<1> HIDE DEF events
<1>7. \A e : e \in ToSet(events) <=> e \in ToSet(sorted) \/ IsMergeGap(e, sorted)
  BY <1>2, <1>4, <1>6
<1> QED
  BY <1>1, <1>6, <1>7 DEF events, both, gaps, sorted

(* A gap the merge makes. *)
LEMMA MergeGapIs ==
    ASSUME NEW sorted \in Seq(ShownEvent), NEW reason \in MergeReasons, NEW i \in Filed(sorted, reason)
    PROVE  /\ i \in DOMAIN sorted /\ sorted[i] \in ToSet(sorted)
           /\ GapAbout(sorted[i], reason).parent = sorted[i].id
           /\ GapAbout(sorted[i], reason).reason = reason
           /\ GapAbout(sorted[i], reason).type = "gap"
           /\ GapAbout(sorted[i], reason).id[1] = reason
           /\ CompareByTime(sorted[i], GapAbout(sorted[i], reason))
<1> DEFINE e == sorted[i]
           g == GapAbout(e, reason)
<1>1. i \in DOMAIN sorted /\ e \in ToSet(sorted)
  <2>1. i \in DOMAIN sorted
    BY FiledIs
  <2> QED
    BY <2>1 DEF ToSet
<1>2. e \in ShownEvent
  BY <1>1, LenProperties
<1> HIDE DEF e
<1>3. e \in Event(Ids, Text) /\ reason \in Text /\ e.id \in Ids
  BY <1>2, ShownEventIs, ReasonsAreText
<1>4. /\ g.id = <<reason>> \o e.id /\ g.parent = e.id /\ g.reason = reason /\ g.type = "gap"
      /\ CompareByTime(e, g)
  BY <1>3, GapAboutIs
<1> HIDE DEF g
<1>5. g.id[1] = reason
  <2>1. <<reason>> \in Seq(Text \cup Nat) /\ e.id \in Seq(Text \cup Nat)
    BY <1>3, TupleIs DEF Ids
  <2>2. Len(<<reason>>) = 1 /\ <<reason>>[1] = reason /\ Len(e.id) \in Nat
    BY <2>1, LenProperties
  <2> QED
    BY <1>4, <2>1, <2>2, ConcatProperties
<1> QED
  BY <1>1, <1>4, <1>5 DEF g, e

---------------------------------------------------------------------------
(* Gaps under their events. *)

\* Of the events of the sources, a gap the reflog makes has its command among
\* them, and nothing else is under that command's id.
Paired(raw) ==
    \A r \in raw : r.reason = ReflogReason =>
        \E s \in raw : r = GapAbout(s, ReflogReason) /\ \A q \in raw : q.id = s.id => q = s

LEMMA GapsUnder ==
    ASSUME NEW raw \in Seq(RawEvent), Paired(ToSet(raw)),
           NEW events, events = SortByTime(GapsIn(Ordered(raw)) \o Ordered(raw)),
           NEW i \in DOMAIN events, events[i].reason \notin {"", "capture_failed"}
    PROVE  \E j \in DOMAIN events : events[j].id = events[i].parent /\ j < i
<1> DEFINE sorted == Ordered(raw)
<1>1. /\ sorted \in Seq(ShownEvent) /\ StandsFor(ToSet(sorted), ToSet(raw))
      /\ \A e : e \in ToSet(events) <=> e \in ToSet(sorted) \/ IsMergeGap(e, sorted)
      /\ \A k, l \in DOMAIN events : CompareByTime(events[k], events[l]) => k < l
  BY TimelineIs
<1> HIDE DEF sorted
<1>2. events[i] \in ToSet(events)
  BY DEF ToSet
<1>3. SUFFICES \E e \in ToSet(sorted) : e.id = events[i].parent /\ CompareByTime(e, events[i])
  <2>1. PICK e \in ToSet(sorted) : e.id = events[i].parent /\ CompareByTime(e, events[i])
    BY <1>3
  <2>2. PICK j \in DOMAIN events : events[j] = e
    <3>1. e \in ToSet(events)
      BY <1>1, <2>1
    <3> QED
      BY <3>1 DEF ToSet
  <2>3. j < i
    BY <1>1, <2>1, <2>2
  <2> QED
    BY <2>1, <2>2, <2>3
<1>4. CASE IsMergeGap(events[i], sorted)
  <2>1. PICK reason \in MergeReasons : \E p \in Filed(sorted, reason) :
          events[i] = GapAbout(sorted[p], reason)
    BY <1>4 DEF IsMergeGap
  <2>2. PICK p \in Filed(sorted, reason) : events[i] = GapAbout(sorted[p], reason)
    BY <2>1
  <2>3. /\ sorted[p] \in ToSet(sorted) /\ GapAbout(sorted[p], reason).parent = sorted[p].id
        /\ CompareByTime(sorted[p], GapAbout(sorted[p], reason))
    <3>1. sorted \in Seq(ShownEvent)
      BY <1>1
    <3>2. sorted[p] \in ToSet(sorted)
      BY <3>1, MergeGapIs
    <3>3. GapAbout(sorted[p], reason).parent = sorted[p].id
      BY <3>1, MergeGapIs
    <3>4. CompareByTime(sorted[p], GapAbout(sorted[p], reason))
      BY <3>1, MergeGapIs
    <3> QED
      BY <3>2, <3>3, <3>4
  <2> QED
    BY <2>2, <2>3
<1>5. CASE events[i] \in ToSet(sorted)
  <2>1. PICK r \in ToSet(raw) : events[i] = Shown(r)
    BY <1>1, <1>5 DEF StandsFor
  <2>2. r \in RawEvent
    BY <2>1, MemberOf
  <2>3. events[i] = r /\ r.reason = ReflogReason
    <3>1. r.type # "capture_failed"
      <4> SUFFICES ASSUME r.type = "capture_failed" PROVE FALSE
        OBVIOUS
      <4>1. events[i] = CaptureFailedToGap(r)
        BY <2>1 DEF Shown
      <4>2. events[i].reason = "capture_failed"
        BY <2>2, <4>1 DEF CaptureFailedToGap, RawEvent, Event
      <4> QED
        BY <4>2
    <3>2. events[i] = r
      BY <2>1, <3>1 DEF Shown
    <3>3. r.reason \in RawReasons
      BY <2>2 DEF RawEvent, Event
    <3> QED
      BY <3>2, <3>3 DEF RawReasons
  <2>4. PICK s \in ToSet(raw) : r = GapAbout(s, ReflogReason) /\ \A q \in ToSet(raw) : q.id = s.id => q = s
    BY <2>1, <2>3 DEF Paired
  <2>5. s \in RawEvent
    BY <2>4, MemberOf
  <2>6. r.parent = s.id /\ CompareByTime(s, r)
    <3>1. SourceIds \subseteq Ids
      BY DEF SourceIds
    <3>2. RawReasons \subseteq Text
      BY DEF RawReasons, ReflogReason, Text, Literals
    <3>3. s \in Event(Ids, Text)
      BY <2>5, <3>1, <3>2, EventWidens DEF RawEvent
    <3>4. ReflogReason \in Text
      BY DEF ReflogReason, Text, Literals
    <3> QED
      BY <2>4, <3>3, <3>4, GapAboutIs
  <2>7. PICK e \in ToSet(sorted) : e.id = s.id
    BY <1>1, <2>4 DEF StandsFor
  <2>8. PICK q \in ToSet(raw) : e = Shown(q)
    BY <1>1, <2>7 DEF StandsFor
  <2>9. q \in RawEvent
    BY <2>8, MemberOf
  <2>10. q = s
    BY <2>4, <2>7, <2>8, <2>9, ShownIs
  <2>11. e.id = s.id /\ e.at = s.at /\ e.mono = s.mono
    BY <2>5, <2>8, <2>10, ShownIs
  <2>12. CompareByTime(e, r)
    BY <2>6, <2>11 DEF CompareByTime
  <2> QED
    BY <2>3, <2>6, <2>7, <2>12
<1> QED
  BY <1>1, <1>2, <1>4, <1>5

---------------------------------------------------------------------------
(* What a finished reading merges. *)

AllRead == spine \o shell \o refs \o reading.events

\* The id of an event tells the source it came from.
LEMMA LogFrom == \A e \in LogEvent : e.id[1] = "log"
<1>1. \A n, k \in Nat : LineEvent(n, k)[1] = "log"
  BY DEF LineEvent
<1>2. \A n \in Nat : \A e \in LogEvents(n) : e.id[1] = "log"
  BY <1>1 DEF LogEvents, Event, LogIds
<1> QED
  BY <1>2 DEF LogEvent

LEMMA HistoryFrom == \A e \in HistoryEvents : e.id[1] = "history"
<1>1. \A i \in Nat : <<"history", i>>[1] = "history"
  OBVIOUS
<1> QED
  BY <1>1 DEF HistoryEvents, Event

\* e is what a record of the store or a line of the sidecar became.
CapturedEvent(e) ==
    \/ \E id \in DOMAIN written : e.id = <<"store", id>> /\ e.at = CapturedAt(written[id])
    \/ \E i \in DOMAIN sidecar : e.id = <<"sidecar", i>>

LEMMA CapturesRead ==
    ASSUME PipeInv, pc = "done", Offset \in Nat
    PROVE  /\ reading.events \in Seq(RawEvent)
           /\ \A e \in ToSet(reading.events) : CapturedEvent(e)
<1>1. Types /\ Gathered
  BY DEF PipeInv
<1>2. /\ listed \subseteq DOMAIN written /\ reading \in Readings(Offset)
      /\ \A k \in DOMAIN reading.events : FromStore(k) \/ FromSidecar(k)
  BY <1>1 DEF Gathered
<1>3. written \in Seq(CaptureRecord) /\ sidecar \in Seq(CaptureRecord)
  BY <1>1 DEF Types
<1>4. /\ \A id \in DOMAIN written : id \in Nat /\ written[id] \in CaptureRecord
      /\ \A i \in DOMAIN sidecar : i \in Nat /\ sidecar[i] \in CaptureRecord
  BY <1>3, LenProperties, ElementOfSeq
<1>5. reading.events \in Seq(CaptureEvents(Offset))
  BY <1>2 DEF Readings
<1>6. DOMAIN reading.events = 1..Len(reading.events)
  BY <1>5, LenProperties
<1>7. ASSUME NEW k \in DOMAIN reading.events
      PROVE  reading.events[k] \in RawEvent /\ CapturedEvent(reading.events[k])
  <2> DEFINE mono == Offset + (k - 1)
  <2>1. mono \in Int
    BY <1>6
  <2>2. CASE FromStore(k)
    <3>1. PICK id \in listed : reading.events[k] = RecordEvent(<<"store", id>>, written[id], mono)
      BY <2>2 DEF FromStore
    <3>2. id \in DOMAIN written /\ id \in Nat /\ written[id] \in CaptureRecord
      BY <1>2, <1>4
    <3> DEFINE record == written[id]
    <3>3. record \in CaptureRecord /\ reading.events[k] = RecordEvent(<<"store", id>>, record, mono)
      BY <3>1, <3>2
    <3> HIDE DEF mono, record
    <3>4. /\ reading.events[k] \in RawEvent /\ reading.events[k].id = <<"store", id>>
          /\ reading.events[k].at = CapturedAt(record)
      BY <2>1, <3>2, <3>3, RecordEventIs
    <3> QED
      BY <3>2, <3>4 DEF CapturedEvent, record
  <2>3. CASE FromSidecar(k)
    <3>1. PICK i \in DOMAIN sidecar : reading.events[k] = RecordEvent(<<"sidecar", i>>, sidecar[i], mono)
      BY <2>3 DEF FromSidecar
    <3>2. i \in Nat /\ sidecar[i] \in CaptureRecord
      BY <1>4
    <3> DEFINE record == sidecar[i]
    <3>3. record \in CaptureRecord /\ reading.events[k] = RecordEvent(<<"sidecar", i>>, record, mono)
      BY <3>1, <3>2
    <3> HIDE DEF mono, record
    <3>4. reading.events[k] \in RawEvent /\ reading.events[k].id = <<"sidecar", i>>
      BY <2>1, <3>2, <3>3, RecordEventIs
    <3> QED
      BY <3>4 DEF CapturedEvent
  <2> QED
    BY <1>2, <2>2, <2>3
<1>8. reading.events \in Seq(RawEvent)
  BY <1>5, <1>7, SequenceOf
<1> QED
  BY <1>7, <1>8 DEF ToSet

Entered == Len(ParseGitReflog(reflog))

LEMMA SiblingsRead ==
    ASSUME PipeInv, pc = "done"
    PROVE  /\ spine \in Seq(LogEvent)
           /\ source = "claude" => LinesShown(ToSet(spine), log, Len(log))
           /\ shell \in Seq(HistoryEvents) /\ OneOfEachId(shell)
           /\ ~ LooksLikeFishHistory(history) => StagesShown(ToSet(shell), history, Len(history))
           /\ refs \in Seq(Event(Ids, Text)) /\ Entries(refs, Entered)
           /\ ParseGitReflog(reflog) \in Seq(ReflogLine)
<1>1. /\ clock \in Nat /\ log \in Seq(SourceLine)
      /\ history \in Seq(HistoryLine) /\ reflog \in Seq(ReflogLine)
  BY DEF PipeInv, Types
<1>2. /\ spine = SessionLogEvents
      /\ shell = ShellHistoryEvents(history, Len(spine), SessionStart(spine))
      /\ refs = ReflogToEvents(ParseGitReflog(reflog), Len(spine) + Len(shell), clock)
  BY DEF PipeInv, ReadOff
<1>5. /\ spine \in Seq(LogEvent)
      /\ source = "claude" => LinesShown(ToSet(spine), log, Len(log))
  <2>1. CASE source = "codex"
    <3>1. log \in Seq(CodexLine) /\ spine = NormalizeCodexJsonl(log, clock)
      BY <1>1, <1>2, <2>1 DEF SourceLine, SessionLogEvents
    <3>2. spine \in Seq(LogEvent)
      BY <1>1, <3>1, CodexLogIs
    <3> QED
      BY <2>1, <3>2
  <2>2. CASE source # "codex"
    <3>1. log \in Seq(ClaudeLine) /\ spine = NormalizeClaudeCodeJsonl(log, clock)
      BY <1>1, <1>2, <2>2 DEF SourceLine, SessionLogEvents
    <3>2. spine \in Seq(LogEvent) /\ LinesShown(ToSet(spine), log, Len(log))
      BY <1>1, <3>1, ClaudeLogIs
    <3> QED
      BY <3>2
  <2> QED
    BY <2>1, <2>2
<1>6. Len(spine) \in Nat /\ SessionStart(spine) \in Int
  <2>1. Len(spine) \in Nat /\ (spine # <<>> => Head(spine) \in LogEvent)
    BY <1>5, LenProperties, HeadTailProperties
  <2>2. \A e \in LogEvent : e.at \in Int
    BY LogEventsAreRaw DEF RawEvent, Event
  <2> QED
    BY <1>1, <2>1, <2>2 DEF SessionStart
<1> DEFINE start == SessionStart(spine)
           offset == Len(spine)
           lines == history
<1>7. shell = ShellHistoryEvents(lines, offset, start) /\ start \in Int /\ offset \in Int
  BY <1>2, <1>6
<1> HIDE DEF start, offset
<1>8. /\ shell \in Seq(HistoryEvents) /\ OneOfEachId(shell)
      /\ ~ LooksLikeFishHistory(lines) => StagesShown(ToSet(shell), lines, Len(lines))
  BY <1>1, <1>7, ShellHistoryIs DEF OneOfEachId
<1>9. Len(shell) \in Nat
  BY <1>8, LenProperties
<1> DEFINE behind == Len(spine) + Len(shell)
<1>10. behind \in Int /\ refs = ReflogToEvents(ParseGitReflog(reflog), behind, clock) /\ clock \in Int
  BY <1>1, <1>2, <1>6, <1>9
<1> HIDE DEF behind
<1>11. refs \in Seq(Event(Ids, Text)) /\ Entries(refs, Entered) /\ ParseGitReflog(reflog) \in Seq(ReflogLine)
  BY <1>1, <1>10, ReflogIs DEF Entered
<1> QED
  BY <1>5, <1>8, <1>11

\* Nothing but the n commands and their gaps is in s, each under its own id.
CommandsAndGaps(s, n) ==
    /\ \A e \in ToSet(s) : e.reason = ReflogReason =>
         \E i \in 1..n : e = GapAbout(s[2 * i - 1], ReflogReason)
    /\ \A i \in 1..n : /\ s[2 * i - 1] \in ToSet(s) /\ s[2 * i - 1].id = <<"reflog", i>>
                       /\ \A e \in ToSet(s) : e.id = <<"reflog", i>> => e = s[2 * i - 1]
                       /\ \E e \in ToSet(s) : e.id = <<ReflogReason, "reflog", i>>

LEMMA ReflogFrom ==
    ASSUME NEW s \in Seq(Event(Ids, Text)), NEW n \in Nat, Entries(s, n)
    PROVE  /\ s \in Seq(RawEvent)
           /\ \A e \in ToSet(s) : e.id[1] \in {"reflog", ReflogReason}
           /\ CommandsAndGaps(s, n)
<1>1. /\ \A k \in DOMAIN s : \E i \in 1..n : k = 2 * i - 1 \/ k = 2 * i
      /\ \A i \in 1..n :
           /\ 2 * i - 1 \in DOMAIN s /\ 2 * i \in DOMAIN s
           /\ s[2 * i - 1] \in SpawnEvents /\ s[2 * i - 1].id = <<"reflog", i>>
           /\ s[2 * i] = GapAbout(s[2 * i - 1], ReflogReason)
  BY DEF Entries
<1>2. \A i : <<"reflog", i>>[1] = "reflog" /\ "reflog" # ReflogReason
  BY DEF ReflogReason
<1>3. ASSUME NEW i \in 1..n
      PROVE  /\ s[2 * i - 1] \in RawEvent /\ s[2 * i - 1].id[1] = "reflog"
             /\ s[2 * i - 1].reason = ""
             /\ s[2 * i] \in RawEvent /\ s[2 * i].id[1] = ReflogReason
             /\ s[2 * i].id = <<ReflogReason, "reflog", i>>
  <2> DEFINE e == s[2 * i - 1]
             g == GapAbout(e, ReflogReason)
  <2>1. e \in SpawnEvents /\ e.id = <<"reflog", i>> /\ s[2 * i] = g
    BY <1>1
  <2> HIDE DEF e
  <2>2. e \in RawEvent /\ g \in RawEvent
    BY <2>1, SpawnEventsAreRaw
  <2>3. e.reason = ""
    BY <2>1 DEF SpawnEvents, Event, NoReason
  <2>4. g.id[1] = ReflogReason
    <3>1. ReflogReason \in Text /\ ReflogReason \in MergeReasons \cup {ReflogReason}
      BY DEF ReflogReason, Text, Literals
    <3>2. SourceIds \subseteq Ids /\ RawReasons \subseteq RawReasons
      BY DEF SourceIds
    <3>3. e \in Event(Ids, RawReasons) /\ e.id \in Ids
      BY <2>2, <3>2, EventWidens DEF RawEvent, Event
    <3>4. g.id = <<ReflogReason>> \o e.id
      BY <3>1, <3>3, GapAboutIs
    <3> HIDE DEF g
    <3>5. <<ReflogReason>> \in Seq(Text \cup Nat) /\ e.id \in Seq(Text \cup Nat)
      BY <3>1, <3>3, TupleIs DEF Ids
    <3>6. Len(<<ReflogReason>>) = 1 /\ <<ReflogReason>>[1] = ReflogReason /\ Len(e.id) \in Nat
      BY <3>5, LenProperties
    <3> QED
      BY <3>4, <3>5, <3>6, ConcatProperties
  <2>6. g.id = <<ReflogReason, "reflog", i>>
    <3>1. ReflogReason \in Text /\ e \in Event(Ids, RawReasons)
      <4>1. SourceIds \subseteq Ids /\ RawReasons \subseteq RawReasons
        BY DEF SourceIds
      <4> QED
        BY <2>2, <4>1, EventWidens DEF RawEvent, ReflogReason, Text, Literals
    <3>2. g.id = <<ReflogReason>> \o e.id
      BY <3>1, GapAboutIs
    <3>3. <<ReflogReason>> \o <<"reflog", i>> = <<ReflogReason, "reflog", i>>
      <4> DEFINE S == {ReflogReason, "reflog", i}
      <4>1. ReflogReason \in S /\ "reflog" \in S /\ i \in S
        OBVIOUS
      <4> HIDE DEF S
      <4> QED
        BY <4>1, HeadThenTwo
    <3> QED
      BY <2>1, <3>2, <3>3
  <2> HIDE DEF g
  <2>5. e.id[1] = "reflog"
    BY <1>2, <2>1
  <2> QED
    BY <2>1, <2>2, <2>3, <2>4, <2>5, <2>6 DEF e
<1>4. s \in Seq(RawEvent)
  <2>1. \A k \in DOMAIN s : s[k] \in RawEvent
    BY <1>1, <1>3
  <2> QED
    BY <2>1, SequenceOf
<1>5. ASSUME NEW e \in ToSet(s)
      PROVE  \E i \in 1..n : e = s[2 * i - 1] \/ e = s[2 * i]
  <2>1. PICK k \in DOMAIN s : e = s[k]
    BY DEF ToSet
  <2> QED
    BY <1>1, <2>1
<1>6. ASSUME NEW e \in ToSet(s), e.reason = ReflogReason
      PROVE  \E i \in 1..n : e = GapAbout(s[2 * i - 1], ReflogReason)
  <2>1. PICK i \in 1..n : e = s[2 * i - 1] \/ e = s[2 * i]
    BY <1>5
  <2>2. s[2 * i - 1].reason # ReflogReason
    BY <1>3 DEF ReflogReason
  <2>3. e = s[2 * i]
    BY <1>6, <2>1, <2>2
  <2> QED
    BY <1>1, <2>3
<1>7. ASSUME NEW i \in 1..n
      PROVE  /\ s[2 * i - 1] \in ToSet(s) /\ s[2 * i - 1].id = <<"reflog", i>>
             /\ \A e \in ToSet(s) : e.id = <<"reflog", i>> => e = s[2 * i - 1]
             /\ \E e \in ToSet(s) : e.id = <<ReflogReason, "reflog", i>>
  <2>1. s[2 * i - 1] \in ToSet(s) /\ s[2 * i] \in ToSet(s)
    BY <1>1 DEF ToSet
  <2>3. s[2 * i].id = <<ReflogReason, "reflog", i>>
    BY <1>3
  <2>2. ASSUME NEW e \in ToSet(s), e.id = <<"reflog", i>>
        PROVE  e = s[2 * i - 1]
    <3>1. PICK j \in 1..n : e = s[2 * j - 1] \/ e = s[2 * j]
      BY <1>5
    <3>2. e.id[1] = "reflog"
      BY <1>2, <2>2
    <3>3. e = s[2 * j - 1]
      BY <1>2, <1>3, <3>1, <3>2
    <3>4. <<"reflog", j>> = <<"reflog", i>>
      BY <1>1, <2>2, <3>3
    <3>5. i = j
      BY <3>4
    <3> QED
      BY <3>3, <3>5
  <2> QED
    BY <1>1, <2>1, <2>2, <2>3
<1>8. ASSUME NEW e \in ToSet(s) PROVE e.id[1] \in {"reflog", ReflogReason}
  <2>1. PICK i \in 1..n : e = s[2 * i - 1] \/ e = s[2 * i]
    BY <1>5
  <2>2. s[2 * i - 1].id[1] = "reflog" /\ s[2 * i].id[1] = ReflogReason
    BY <1>3
  <2> QED
    BY <2>1, <2>2
<1> QED
  BY <1>4, <1>6, <1>7, <1>8 DEF CommandsAndGaps

(* The four sources together. *)
LEMMA AllReadIs ==
    ASSUME PipeInv, pc = "done"
    PROVE  /\ AllRead \in Seq(RawEvent)
           /\ ToSet(AllRead) = ToSet(spine) \cup ToSet(shell) \cup ToSet(refs) \cup ToSet(reading.events)
           /\ out = MergeEvents(spine, shell, refs, reading.events)
           /\ \A e \in ToSet(reading.events) : CapturedEvent(e)
           /\ Entered \in Nat
<1>1. spine \in Seq(RawEvent) /\ shell \in Seq(RawEvent)
  <2>1. spine \in Seq(LogEvent) /\ shell \in Seq(HistoryEvents)
    BY SiblingsRead
  <2> QED
    BY <2>1, LogEventsAreRaw, HistoryEventsAreRaw, SeqMonotonic
<1>2. Entered \in Nat
  <2>1. ParseGitReflog(reflog) \in Seq(ReflogLine)
    BY SiblingsRead
  <2> QED
    BY <2>1, LenProperties DEF Entered
<1>3. refs \in Seq(RawEvent)
  <2>1. refs \in Seq(Event(Ids, Text)) /\ Entries(refs, Entered)
    BY SiblingsRead
  <2> QED
    BY <1>2, <2>1, ReflogFrom
<1>4. Offset \in Nat
  <2>1. Len(spine) \in Nat /\ Len(shell) \in Nat /\ Len(refs) \in Nat
    BY <1>1, <1>3, LenProperties
  <2> QED
    BY <2>1 DEF Offset
<1>5. reading.events \in Seq(RawEvent) /\ \A e \in ToSet(reading.events) : CapturedEvent(e)
  BY <1>4, CapturesRead
<1> DEFINE two == spine \o shell
           three == two \o refs
           captures == reading.events
<1>6. two \in Seq(RawEvent) /\ ToSet(two) = ToSet(spine) \cup ToSet(shell)
  BY <1>1, ConcatSet
<1>7. AllRead = three \o captures
  BY DEF AllRead
<1> HIDE DEF two
<1>8. three \in Seq(RawEvent) /\ ToSet(three) = ToSet(two) \cup ToSet(refs)
  BY <1>3, <1>6, ConcatSet
<1> HIDE DEF three
<1>9. captures \in Seq(RawEvent)
  BY <1>5
<1> HIDE DEF captures
<1>10. AllRead \in Seq(RawEvent) /\ ToSet(AllRead) = ToSet(three) \cup ToSet(captures)
  BY <1>7, <1>8, <1>9, ConcatSet
<1>11. out = MergeEvents(spine, shell, refs, reading.events)
  BY DEF PipeInv, MergedAll
<1> QED
  BY <1>2, <1>5, <1>6, <1>8, <1>10, <1>11 DEF captures

LEMMA OutIs ==
    ASSUME PipeInv, pc = "done"
    PROVE  LET sorted == Ordered(AllRead)
           IN  /\ out.events = SortByTime(GapsIn(sorted) \o sorted)
               /\ out.links = Pairs(sorted, TakenBy(sorted)) \cup Pairs(sorted, CalledBy(sorted))
               /\ out.kernel = Pairs(sorted, KernelLinks(sorted))
<1> DEFINE sorted == Ordered(AllRead)
           captures == reading.events
<1>1. MergeEvents(spine, shell, refs, captures) =
        [events |-> SortByTime(GapsIn(sorted) \o sorted),
         links  |-> Pairs(sorted, TakenBy(sorted)) \cup Pairs(sorted, CalledBy(sorted)),
         kernel |-> Pairs(sorted, KernelLinks(sorted))]
  BY MergeIs DEF AllRead
<1>2. out = MergeEvents(spine, shell, refs, captures)
  BY AllReadIs
<1> HIDE DEF sorted
<1> QED
  BY <1>1, <1>2 DEF sorted

\* Capture records and lines are told apart from the entries of the reflog.
LEMMA CapturedFrom ==
    ASSUME NEW e, CapturedEvent(e) PROVE e.id[1] \in {"store", "sidecar"}
<1>1. \A o, i : <<o, i>>[1] = o
  OBVIOUS
<1> QED
  BY <1>1 DEF CapturedEvent

LEMMA AllReadPaired == ASSUME PipeInv, pc = "done" PROVE Paired(ToSet(AllRead))
<1> SUFFICES ASSUME NEW r \in ToSet(AllRead), r.reason = ReflogReason
             PROVE  \E s \in ToSet(AllRead) :
                      r = GapAbout(s, ReflogReason) /\ \A q \in ToSet(AllRead) : q.id = s.id => q = s
  BY DEF Paired
<1>1. /\ ToSet(AllRead) = ToSet(spine) \cup ToSet(shell) \cup ToSet(refs) \cup ToSet(reading.events)
      /\ \A e \in ToSet(reading.events) : CapturedEvent(e)
      /\ Entered \in Nat
  BY AllReadIs
<1>2. /\ \A e \in ToSet(spine) : e.id[1] = "log" /\ e.reason = ""
      /\ \A e \in ToSet(shell) : e.id[1] = "history" /\ e.reason = ""
  <2>1. ToSet(spine) \subseteq LogEvent /\ ToSet(shell) \subseteq HistoryEvents
    BY SiblingsRead, MemberOf
  <2>2. \A e \in LogEvent : e.reason = ""
    <3>1. \A n \in Nat : \A e \in LogEvents(n) : e.reason = ""
      BY DEF LogEvents, Event, NoReason
    <3> QED
      BY <3>1 DEF LogEvent
  <2>3. \A e \in HistoryEvents : e.reason = ""
    BY DEF HistoryEvents, Event, NoReason
  <2> QED
    BY <2>1, <2>2, <2>3, LogFrom, HistoryFrom
<1>3. \A e \in ToSet(reading.events) : e.id[1] \in {"store", "sidecar"}
  BY <1>1, CapturedFrom
<1>4. CommandsAndGaps(refs, Entered)
  <2>1. refs \in Seq(Event(Ids, Text)) /\ Entries(refs, Entered)
    BY SiblingsRead
  <2> QED
    BY <1>1, <2>1, ReflogFrom
<1>5. r \in ToSet(refs)
  <2>1. r \notin ToSet(spine) /\ r \notin ToSet(shell)
    BY <1>2 DEF ReflogReason
  <2>2. ASSUME r \in ToSet(reading.events) PROVE r.reason = ""
    <3>1. PICK k \in DOMAIN reading.events : r = reading.events[k]
      BY <2>2 DEF ToSet
    <3>2. FromStore(k) \/ FromSidecar(k)
      BY DEF PipeInv, Gathered
    <3>3. \E id, record, mono : r = RecordEvent(id, record, mono)
      BY <3>1, <3>2 DEF FromStore, FromSidecar
    <3> QED
      BY <3>3 DEF RecordEvent, BuildEvent
  <2> QED
    BY <1>1, <2>1, <2>2 DEF ReflogReason
<1>6. PICK i \in 1..Entered : r = GapAbout(refs[2 * i - 1], ReflogReason)
  BY <1>4, <1>5 DEF CommandsAndGaps
<1> DEFINE s == refs[2 * i - 1]
<1>7. s \in ToSet(refs) /\ s.id = <<"reflog", i>> /\ \A e \in ToSet(refs) : e.id = <<"reflog", i>> => e = s
  BY <1>4 DEF CommandsAndGaps
<1>8. r = GapAbout(s, ReflogReason)
  BY <1>6
<1> HIDE DEF s
<1>9. s.id[1] = "reflog"
  <2>1. <<"reflog", i>>[1] = "reflog"
    OBVIOUS
  <2> QED
    BY <1>7, <2>1
<1>10. ASSUME NEW q \in ToSet(AllRead), q.id = s.id PROVE q = s
  <2>1. q.id[1] = "reflog"
    BY <1>9, <1>10
  <2>2. q \in ToSet(refs)
    BY <1>1, <1>2, <1>3, <2>1
  <2> QED
    BY <1>7, <1>10, <2>2
<1> QED
  BY <1>1, <1>7, <1>8, <1>10

LEMMA DoneGapsUnder == PipeInv => GapsShownUnderTheirEvent
<1> SUFFICES ASSUME PipeInv, pc = "done", NEW i \in DOMAIN out.events,
                    out.events[i].reason \notin {"", "capture_failed"}
             PROVE  \E j \in DOMAIN out.events : /\ out.events[j].id = out.events[i].parent
                                                 /\ i \in Children(out.events, j)
  BY DEF GapsShownUnderTheirEvent
<1> DEFINE events == out.events
           raw == AllRead
<1>1. raw \in Seq(RawEvent) /\ Paired(ToSet(raw))
  BY AllReadIs, AllReadPaired
<1>2. events = SortByTime(GapsIn(Ordered(raw)) \o Ordered(raw))
  BY OutIs
<1>3. events \in Seq(MadeEvent)
  BY <1>1, <1>2, TimelineIs
<1>4. i \in DOMAIN events /\ events[i].reason \notin {"", "capture_failed"}
  OBVIOUS
<1> HIDE DEF events, raw
<1>5. PICK j \in DOMAIN events : events[j].id = events[i].parent /\ j < i
  BY <1>1, <1>2, <1>4, GapsUnder
<1>6. j \in 1..(i - 1)
  <2> DEFINE n == Len(events)
  <2>1. DOMAIN events = 1..n /\ n \in Nat
    BY <1>3, LenProperties
  <2> HIDE DEF n
  <2>2. i \in 1..n /\ j \in 1..n /\ j < i
    BY <1>4, <1>5, <2>1
  <2> QED
    BY <2>1, <2>2, BeforeIs
<1>7. j \in ParentPlace(events, i)
  BY <1>5, <1>6 DEF ParentPlace
<1>8. i \in Children(events, j)
  BY <1>4, <1>7 DEF Children
<1> QED
  BY <1>5, <1>8 DEF events

(* Every gap the reflog or the merge makes about an event comes after that  *)
(* event in the timeline, so the tree shows it right under it, however the  *)
(* sources' times interleave or tie.                                        *)
THEOREM GapsAreShownUnderTheirEvents == Spec => []GapsShownUnderTheirEvent
<1>1. PipeInv => GapsShownUnderTheirEvent
  BY DoneGapsUnder
<1> QED
  BY <1>1, Invariance, PTL

---------------------------------------------------------------------------
(* Nothing read is dropped. *)

(* The origin in its id is where an event was read. *)
LEMMA ReadFrom ==
    ASSUME PipeInv, pc = "done", NEW q \in ToSet(AllRead)
    PROVE  /\ q \in RawEvent
           /\ q.id[1] = "log" => q \in ToSet(spine)
           /\ q.id[1] = "history" => q \in ToSet(shell)
           /\ q.id[1] = "store" => CapturedEvent(q)
<1>1. /\ ToSet(AllRead) = ToSet(spine) \cup ToSet(shell) \cup ToSet(refs) \cup ToSet(reading.events)
      /\ \A e \in ToSet(reading.events) : CapturedEvent(e)
      /\ Entered \in Nat /\ AllRead \in Seq(RawEvent)
  BY AllReadIs
<1>2. \A e \in ToSet(spine) : e.id[1] = "log"
  <2>1. ToSet(spine) \subseteq LogEvent
    BY SiblingsRead, MemberOf
  <2> QED
    BY <2>1, LogFrom
<1>3. \A e \in ToSet(shell) : e.id[1] = "history"
  <2>1. ToSet(shell) \subseteq HistoryEvents
    BY SiblingsRead, MemberOf
  <2> QED
    BY <2>1, HistoryFrom
<1>4. \A e \in ToSet(refs) : e.id[1] \in {"reflog", ReflogReason}
  <2>1. refs \in Seq(Event(Ids, Text)) /\ Entries(refs, Entered)
    BY SiblingsRead
  <2> QED
    BY <1>1, <2>1, ReflogFrom
<1>5. \A e \in ToSet(reading.events) : e.id[1] \in {"store", "sidecar"}
  BY <1>1, CapturedFrom
<1>6. q \in RawEvent
  <2>1. ToSet(AllRead) \subseteq RawEvent
    BY <1>1, MemberOf
  <2> QED
    BY <2>1
<1>7. /\ "log" \notin {"history", "reflog", ReflogReason, "store", "sidecar"}
      /\ "history" \notin {"reflog", ReflogReason, "store", "sidecar"}
      /\ "store" \notin {"reflog", ReflogReason}
  BY DEF ReflogReason
<1>8. q.id[1] = "log" => q \in ToSet(spine)
  BY <1>1, <1>3, <1>4, <1>5, <1>7
<1>9. q.id[1] = "history" => q \in ToSet(shell)
  BY <1>1, <1>2, <1>4, <1>5, <1>7
<1>10. q.id[1] = "store" => CapturedEvent(q)
  BY <1>1, <1>2, <1>3, <1>4, <1>7
<1> QED
  BY <1>6, <1>8, <1>9, <1>10

(* Of every id read there is an event in the timeline. *)
LEMMA ReadIsShown ==
    ASSUME PipeInv, pc = "done", NEW r \in ToSet(AllRead)
    PROVE  \E q \in ToSet(AllRead) : /\ q.id = r.id /\ Shown(q) \in Timeline
                                     /\ Shown(q).id = r.id
<1> DEFINE sorted == Ordered(AllRead)
           events == out.events
<1>1. AllRead \in Seq(RawEvent) /\ events = SortByTime(GapsIn(sorted) \o sorted)
  BY AllReadIs, OutIs
<1>2. /\ StandsFor(ToSet(sorted), ToSet(AllRead))
      /\ \A e : e \in ToSet(events) <=> e \in ToSet(sorted) \/ IsMergeGap(e, sorted)
  BY <1>1, TimelineIs
<1>3. Timeline = ToSet(events)
  BY DEF Timeline
<1> HIDE DEF sorted, events
<1>4. PICK e \in ToSet(sorted) : e.id = r.id
  BY <1>2 DEF StandsFor
<1>5. PICK q \in ToSet(AllRead) : e = Shown(q)
  BY <1>2, <1>4 DEF StandsFor
<1>6. q \in RawEvent
  BY ReadFrom
<1>7. q.id = r.id
  BY <1>4, <1>5, <1>6, ShownIs
<1>8. Shown(q) \in Timeline
  BY <1>2, <1>3, <1>4, <1>5
<1> QED
  BY <1>4, <1>5, <1>7, <1>8

LEMMA LineOfEvent ==
    /\ \A n, k, i, l \in Nat : LineEvent(n, k) = LineEvent(i, l) => n = i
    /\ \A n, k \in Nat : /\ Len(LineEvent(n, k)) = 3 /\ LineEvent(n, k)[1] = "log"
                         /\ SubSeq(LineEvent(n, k), 1, 2) = <<"log", n>>
<1>1. ASSUME NEW n \in Nat, NEW k \in Nat, NEW i \in Nat, NEW l \in Nat, LineEvent(n, k) = LineEvent(i, l)
      PROVE  n = i
  BY <1>1 DEF LineEvent
<1>2. ASSUME NEW n \in Nat, NEW k \in Nat
      PROVE  Len(LineEvent(n, k)) = 3 /\ LineEvent(n, k)[1] = "log"
  BY DEF LineEvent
<1>3. ASSUME NEW n \in Nat, NEW k \in Nat
      PROVE  SubSeq(LineEvent(n, k), 1, 2) = <<"log", n>>
  <2> DEFINE S == {"log", n, k}
             s == <<"log", n, k>>
             t == SubSeq(s, 1, 2)
             u == <<"log", n>>
  <2>1. s \in Seq(S) /\ u \in Seq(S) /\ Len(s) = 3 /\ Len(u) = 2
    OBVIOUS
  <2>2. s[1] = u[1] /\ s[2] = u[2]
    OBVIOUS
  <2> HIDE DEF s, u, S
  <2> DEFINE a == 1
             b == 2
  <2>3. a \in Int /\ b \in Int /\ a = 1 /\ b = 2
    OBVIOUS
  <2> HIDE DEF a, b
  <2>a. \A i \in a..b : s[i] \in S
    BY <2>1, <2>3, ElementOfSeq
  <2>b. /\ SubSeq(s, a, b) \in Seq(S)
        /\ Len(SubSeq(s, a, b)) = IF a <= b THEN b - a + 1 ELSE 0
        /\ \A i \in 1..(b - a + 1) : SubSeq(s, a, b)[i] = s[a + i - 1]
    BY <2>3, <2>a, SubSeqProperties
  <2>4. /\ t \in Seq(S) /\ Len(t) = 2
        /\ \A i \in 1..2 : t[i] = s[i]
    BY <2>3, <2>b
  <2> HIDE DEF t
  <2>5. Len(t) = 2 /\ \A i \in 1..2 : t[i] = s[i]
    BY <2>4
  <2>6. \A i \in 1..2 : i = 1 \/ i = 2
    OBVIOUS
  <2>7. \A i \in 1..2 : t[i] = u[i]
    BY <2>2, <2>5, <2>6
  <2>8. t = u
    BY <2>1, <2>4, <2>5, <2>7, SeqEqual
  <2> QED
    BY <2>8 DEF LineEvent, t, s, u
<1> QED
  BY <1>1, <1>2, <1>3

(* Each line of a Claude log. *)
LEMMA LinesKept ==
    ASSUME PipeInv, pc = "done", source = "claude", NEW n \in DOMAIN log
    PROVE  \E e \in Timeline : /\ Len(e.id) = 3 /\ SubSeq(e.id, 1, 2) = <<"log", n>>
                               /\ log[n].form = "torn" => e.type = "gap"
<1>1. log \in Seq(SourceLine) /\ LinesShown(ToSet(spine), log, Len(log))
  BY SiblingsRead DEF PipeInv, Types
<1>2. n \in 1..Len(log) /\ n \in Nat
  BY <1>1, LenProperties
<1>3. PICK r \in ToSet(spine) : Shows(r, log[n], n)
  BY <1>1, <1>2 DEF LinesShown
<1>4. PICK k \in Nat : r.id = LineEvent(n, k)
  <2>1. r.id \in LogIds(n)
    BY <1>3 DEF Shows, LogEvents, Event
  <2> QED
    BY <2>1 DEF LogIds
<1>5. r \in ToSet(AllRead)
  BY <1>3, AllReadIs
<1>6. PICK q \in ToSet(AllRead) : q.id = r.id /\ Shown(q) \in Timeline /\ Shown(q).id = r.id
  BY <1>5, ReadIsShown
<1>7. q \in RawEvent /\ q \in ToSet(spine)
  <2>1. q.id[1] = "log"
    BY <1>2, <1>4, <1>6, LineOfEvent
  <2> QED
    BY <2>1, ReadFrom
<1>8. PICK i \in 1..Len(log) : Shows(q, log[i], i)
  BY <1>1, <1>7 DEF LinesShown
<1>9. i = n
  <2>1. i \in Nat
    BY <1>8
  <2>2. q.id \in LogIds(i)
    BY <1>8 DEF Shows, LogEvents, Event
  <2>3. PICK l \in Nat : q.id = LineEvent(i, l)
    BY <2>2 DEF LogIds
  <2> QED
    BY <1>2, <1>4, <1>6, <2>1, <2>3, LineOfEvent
<1>10. log[n].form = "torn" => Shown(q).type = "gap"
  <2>1. log[n].form = "torn" => q.type = "gap"
    BY <1>8, <1>9 DEF Shows
  <2> QED
    BY <1>7, <2>1, ShownIs
<1>11. Len(Shown(q).id) = 3 /\ SubSeq(Shown(q).id, 1, 2) = <<"log", n>>
  BY <1>2, <1>4, <1>6, LineOfEvent
<1> QED
  BY <1>6, <1>10, <1>11

(* Each stage of a shell history that is not fish's. *)
LEMMA StagesKept ==
    ASSUME PipeInv, pc = "done", ~ LooksLikeFishHistory(history),
           NEW i \in DOMAIN history, NEW k \in DOMAIN history[i].stages
    PROVE  \E e \in Timeline : e.id[1] = "history" /\ e.argv = history[i].stages[k]
<1>1. history \in Seq(HistoryLine) /\ StagesShown(ToSet(shell), history, Len(history))
  BY SiblingsRead DEF PipeInv, Types
<1>2. i \in 1..Len(history)
  BY <1>1, LenProperties
<1>3. PICK r \in ToSet(shell) : r.argv = history[i].stages[k]
  BY <1>1, <1>2 DEF StagesShown
<1>4. r \in ToSet(AllRead) /\ r.id[1] = "history"
  <2>1. ToSet(shell) \subseteq HistoryEvents
    BY SiblingsRead, MemberOf
  <2> QED
    BY <1>3, <2>1, AllReadIs, HistoryFrom
<1>5. PICK q \in ToSet(AllRead) : q.id = r.id /\ Shown(q) \in Timeline /\ Shown(q).id = r.id
  BY <1>4, ReadIsShown
<1>6. q \in RawEvent /\ q \in ToSet(shell)
  BY <1>4, <1>5, ReadFrom
<1>7. q = r
  <2>1. OneOfEachId(shell)
    BY SiblingsRead
  <2> QED
    BY <1>3, <1>5, <1>6, <2>1 DEF OneOfEachId, ToSet
<1>8. Shown(q).argv = q.argv
  BY <1>6, ShownIs
<1> QED
  BY <1>3, <1>4, <1>5, <1>7, <1>8

(* Each entry of the reflog. *)
LEMMA EntriesKept ==
    ASSUME PipeInv, pc = "done", NEW i \in DOMAIN ParseGitReflog(reflog)
    PROVE  \E e \in Timeline : e.id = <<"reflog_change_without_command", "reflog", i>>
<1>1. /\ refs \in Seq(Event(Ids, Text)) /\ Entries(refs, Entered)
      /\ ParseGitReflog(reflog) \in Seq(ReflogLine)
  BY SiblingsRead
<1>2. i \in 1..Entered /\ Entered \in Nat
  BY <1>1, LenProperties DEF Entered
<1>3. PICK r \in ToSet(refs) : r.id = <<ReflogReason, "reflog", i>>
  BY <1>1, <1>2, ReflogFrom DEF CommandsAndGaps
<1>4. r \in ToSet(AllRead)
  BY <1>3, AllReadIs
<1>5. PICK q \in ToSet(AllRead) : Shown(q) \in Timeline /\ Shown(q).id = r.id
  BY <1>4, ReadIsShown
<1> QED
  BY <1>3, <1>5 DEF ReflogReason

(* Nothing is in an empty listing. *)
LEMMA EmptyDomain == DOMAIN <<>> = {}
  OBVIOUS

(* Each record of the session that was still there. *)
LEMMA RecordsKept ==
    ASSUME PipeInv, pc = "done", NEW id \in listed \ gone, ReadAs(written[id]) # "malformed",
           written[id].session = AgentSessionId, AgentSessionId # ""
    PROVE  \E e \in Timeline : e.id = <<"store", id>> /\ e.at = CapturedAt(written[id])
<1>1. Belongs(written[id], Scope)
  <2>1. Scope.session = AgentSessionId
    BY DEF Scope
  <2>2. Classify(written[id].session, CapturedAt(written[id]), Scope) = "include"
    BY <2>1 DEF Classify
  <2> QED
    BY <2>2 DEF Belongs
<1>2. ToBeRead(id) \/ Held(id)
  BY <1>1 DEF PipeInv, Gathered
<1>3. ~ ToBeRead(id)
  <2>1. listing = <<>>
    BY DEF PipeInv, Gathered
  <2> QED
    BY <2>1, EmptyDomain DEF ToBeRead
<1>4. PICK k \in DOMAIN reading.events :
        reading.events[k] = RecordEvent(<<"store", id>>, written[id], Offset + (k - 1))
  BY <1>2, <1>3 DEF Held
<1> DEFINE r == reading.events[k]
           mono == Offset + (k - 1)
<1>5. r \in ToSet(AllRead)
  <2>1. r \in ToSet(reading.events)
    BY DEF ToSet
  <2> QED
    BY <2>1, AllReadIs
<1>6. r = RecordEvent(<<"store", id>>, written[id], mono)
  BY <1>4
<1> HIDE DEF r, mono
<1>7. r.id = <<"store", id>>
  BY <1>6 DEF RecordEvent, BuildEvent
<1>8. PICK q \in ToSet(AllRead) : q.id = r.id /\ Shown(q) \in Timeline /\ Shown(q).id = r.id
  BY <1>5, ReadIsShown
<1>9. q \in RawEvent /\ CapturedEvent(q)
  <2>1. q.id[1] = "store"
    <3>1. <<"store", id>>[1] = "store"
      OBVIOUS
    <3> QED
      BY <1>7, <1>8, <3>1
  <2> QED
    BY <2>1, ReadFrom
<1>10. q.at = CapturedAt(written[id])
  <2>1. CASE \E i \in DOMAIN sidecar : q.id = <<"sidecar", i>>
    <3>1. PICK i \in DOMAIN sidecar : <<"sidecar", i>> = <<"store", id>>
      BY <1>7, <1>8, <2>1
    <3> QED
      BY <3>1
  <2>2. CASE \E i \in DOMAIN written : q.id = <<"store", i>> /\ q.at = CapturedAt(written[i])
    <3>1. PICK i \in DOMAIN written : q.id = <<"store", i>> /\ q.at = CapturedAt(written[i])
      BY <2>2
    <3>2. <<"store", i>> = <<"store", id>>
      BY <1>7, <1>8, <3>1
    <3>3. i = id
      BY <3>2
    <3> QED
      BY <3>1, <3>3
  <2> QED
    BY <1>9, <2>1, <2>2 DEF CapturedEvent
<1>11. Shown(q).at = q.at
  BY <1>9, ShownIs
<1> QED
  BY <1>7, <1>8, <1>10, <1>11

LEMMA DoneKeepsAll == PipeInv => NothingDropped
<1> SUFFICES ASSUME PipeInv, pc = "done" PROVE NothingDropped
  BY DEF NothingDropped
<1>1. source = "claude" => \A n \in DOMAIN log : \E e \in Timeline :
        /\ Len(e.id) = 3 /\ SubSeq(e.id, 1, 2) = <<"log", n>>
        /\ log[n].form = "torn" => e.type = "gap"
  BY LinesKept
<1>2. ~ LooksLikeFishHistory(history) => \A i \in DOMAIN history : \A k \in DOMAIN history[i].stages :
        \E e \in Timeline : e.id[1] = "history" /\ e.argv = history[i].stages[k]
  BY StagesKept
<1>3. \A i \in DOMAIN ParseGitReflog(reflog) : \E e \in Timeline :
        e.id = <<"reflog_change_without_command", "reflog", i>>
  BY EntriesKept
<1>4. \A id \in listed \ gone :
        /\ ReadAs(written[id]) # "malformed"
        /\ written[id].session = AgentSessionId /\ AgentSessionId # ""
        => \E e \in Timeline : e.id = <<"store", id>> /\ e.at = CapturedAt(written[id])
  BY RecordsKept
<1> QED
  BY <1>1, <1>2, <1>3, <1>4 DEF NothingDropped

(* Whatever was read is in the timeline, of logs, histories, reflogs and    *)
(* stores of any length: the merge's deduplication, its sorting and the     *)
(* unlinks of a concurrent prune lose nothing that was there to be read.    *)
THEOREM WhatWasReadIsKept == Spec => []NothingDropped
<1>1. PipeInv => NothingDropped
  BY DoneKeepsAll
<1> QED
  BY <1>1, Invariance, PTL

---------------------------------------------------------------------------
(* What is linked to what, and what is said of the rest. *)

\* The captures a link of an event may lead to.
Near(sorted, i) == {j \in Pres(sorted) : Distance(sorted[i], sorted[j]) =< Window}

\* Each link leads from an event of some type to captures near it.
LinksNear(sorted, links, places) ==
    DOMAIN links = places /\ \A i \in places : links[i] \subseteq Near(sorted, i)

\* A call's captures are its own.
CallsApart(sorted) ==
    \A c \in Calls(sorted) :
      /\ CalledBy(sorted)[c] \cap Linked(TakenBy(sorted)) = {}
      /\ \A d \in Calls(sorted) : CalledBy(sorted)[c] \cap CalledBy(sorted)[d] # {} => c = d

(* The match of an event is one of the captures near it. *)
LEMMA MatchIsNear ==
    ASSUME NEW sorted, NEW i
    PROVE  FindMatchingShellPre(sorted[i], sorted) \subseteq Near(sorted, i)
<1> DEFINE asked == AskedBy(sorted[i], sorted)
           score == [k \in {j \in Pres(sorted) : Distance(sorted[i], sorted[j]) =< Window} |->
                       Score(asked, sorted[i].at, sorted[k])]
<1>1. FindMatchingShellPre(sorted[i], sorted) =
        {k \in DOMAIN score : /\ score[k] >= 5
                              /\ \A j \in DOMAIN score :
                                   score[j] < score[k] \/ (score[j] = score[k] /\ k =< j)}
  BY DEF FindMatchingShellPre
<1>2. DOMAIN score = Near(sorted, i)
  BY DEF Near
<1> HIDE DEF score
<1> QED
  BY <1>1, <1>2

LEMMA ResultLinksNear ==
    ASSUME NEW sorted
    PROVE  LinksNear(sorted, TakenBy(sorted), Results(sorted))
  BY MatchIsNear DEF LinksNear, TakenBy, ResultLinks

LEMMA CallLinksNear ==
    ASSUME NEW sorted
    PROVE  LinksNear(sorted, CalledBy(sorted), Calls(sorted))
<1> DEFINE taken == Linked(ResultLinks(sorted))
           best == [c \in Calls(sorted) |-> FindMatchingShellPre(sorted[c], sorted)]
           before(c) == taken \cup UNION {best[d] : d \in {b \in Calls(sorted) : b < c}}
<1>1. CalledBy(sorted) = [c \in Calls(sorted) |-> best[c] \ before(c)]
  BY DEF CalledBy, CallLinks
<1>2. \A c \in Calls(sorted) : best[c] \subseteq Near(sorted, c)
  BY MatchIsNear
<1> HIDE DEF best, before, taken
<1> QED
  BY <1>1, <1>2 DEF LinksNear

LEMMA CallLinksApart ==
    ASSUME NEW sorted \in Seq(ShownEvent)
    PROVE  CallsApart(sorted)
<1> DEFINE taken == Linked(ResultLinks(sorted))
           best == [c \in Calls(sorted) |-> FindMatchingShellPre(sorted[c], sorted)]
           earlier(c) == UNION {best[d] : d \in {b \in Calls(sorted) : b < c}}
<1>1. CalledBy(sorted) = [c \in Calls(sorted) |-> best[c] \ (taken \cup earlier(c))]
  BY DEF CalledBy, CallLinks
<1>2. \A c, d \in Calls(sorted) : d < c => best[d] \subseteq earlier(c)
  <2>1. ASSUME NEW c \in Calls(sorted), NEW d \in Calls(sorted), d < c, NEW j \in best[d]
        PROVE  j \in earlier(c)
    <3>1. d \in {b \in Calls(sorted) : b < c}
      BY <2>1
    <3> QED
      BY <3>1
  <2> QED
    BY <2>1
<1>3. Calls(sorted) \subseteq Nat
  BY LenProperties DEF Calls, TypeAt
<1> HIDE DEF best, earlier
<1>4. ASSUME NEW c \in Calls(sorted)
      PROVE  CalledBy(sorted)[c] \cap Linked(TakenBy(sorted)) = {}
  BY <1>1 DEF TakenBy
<1>5. ASSUME NEW c \in Calls(sorted), NEW d \in Calls(sorted), NEW j \in CalledBy(sorted)[c] \cap CalledBy(sorted)[d]
      PROVE  c = d
  <2>1. j \in best[c] /\ j \notin earlier(c) /\ j \in best[d] /\ j \notin earlier(d)
    BY <1>1, <1>5
  <2>2. ~ (c < d) /\ ~ (d < c)
    BY <2>1, <1>2
  <2> QED
    BY <2>2, <1>3
<1> QED
  BY <1>4, <1>5 DEF CallsApart

LEMMA KernelLinksNear ==
    ASSUME NEW sorted \in Seq(ShownEvent)
    PROVE  LinksNear(sorted, KernelLinks(sorted), Execves(sorted))
<1> DEFINE near(x) == {i \in Pres(sorted) : /\ sorted[x].at - sorted[i].at \in (-Slack)..Window
                                            /\ sorted[x].pids \cap sorted[i].pids # {}}
           closest(x) == {i \in near(x) : \A j \in near(x) :
                            \/ Distance(sorted[x], sorted[i]) < Distance(sorted[x], sorted[j])
                            \/ Distance(sorted[x], sorted[i]) = Distance(sorted[x], sorted[j]) /\ i =< j}
<1>1. KernelLinks(sorted) = [x \in Execves(sorted) |-> closest(x)]
  BY DEF KernelLinks
<1>2. ASSUME NEW x \in Execves(sorted), NEW i \in near(x)
      PROVE  i \in Near(sorted, x)
  <2>1. x \in DOMAIN sorted /\ i \in DOMAIN sorted /\ i \in Pres(sorted)
    BY <1>2 DEF Execves, Pres, TypeAt
  <2>2. sorted[x].at \in Int /\ sorted[i].at \in Int
    BY <2>1, ElementOfSeq, LenProperties, ShownEventIs DEF Timed
  <2>3. sorted[x].at - sorted[i].at \in (-Slack)..Window
    BY <1>2
  <2>4. Distance(sorted[x], sorted[i]) =< Window
    BY <2>2, <2>3, TimesAreNumbers DEF Distance
  <2> QED
    BY <2>1, <2>4 DEF Near
<1>3. \A x : closest(x) \subseteq near(x)
  OBVIOUS
<1> HIDE DEF closest, near
<1> QED
  BY <1>1, <1>2, <1>3 DEF LinksNear

\* The merge's links pair the ids a and b.
Ties(sorted, links, a, b) ==
    \E i \in DOMAIN links : \E j \in links[i] : a = sorted[i].id /\ b = sorted[j].id

LEMMA PairsAreTies ==
    ASSUME NEW sorted, NEW links
    PROVE  /\ \A a, b : <<a, b>> \in Pairs(sorted, links) <=> Ties(sorted, links, a, b)
           /\ \A q \in Pairs(sorted, links) : q = <<q[1], q[2]>>
<1>1. \A q : q \in Pairs(sorted, links) <=>
               \E i \in DOMAIN links : \E j \in links[i] : q = <<sorted[i].id, sorted[j].id>>
  BY DEF Pairs
<1>2. ASSUME NEW a, NEW b
      PROVE  <<a, b>> \in Pairs(sorted, links) <=> Ties(sorted, links, a, b)
  BY <1>1 DEF Ties
<1>3. ASSUME NEW q \in Pairs(sorted, links)
      PROVE  q = <<q[1], q[2]>>
  BY <1>1, <1>3
<1> QED
  BY <1>2, <1>3

(* Where the links of an event lead to and come from. *)
LEMMA LinksAreTies ==
    ASSUME PipeInv, pc = "done"
    PROVE  LET sorted == Ordered(AllRead)
           IN  /\ \A e, x : x \in LinksFrom(e) <=>
                    \/ Ties(sorted, TakenBy(sorted), e.id, x)
                    \/ Ties(sorted, CalledBy(sorted), e.id, x)
                    \/ Ties(sorted, KernelLinks(sorted), e.id, x)
               /\ \A e, x : x \in LinksTo(e) <=>
                    \/ Ties(sorted, TakenBy(sorted), x, e.id)
                    \/ Ties(sorted, CalledBy(sorted), x, e.id)
<1> DEFINE sorted == Ordered(AllRead)
           taken == TakenBy(sorted)
           called == CalledBy(sorted)
           kernel == KernelLinks(sorted)
<1>1. out.links = Pairs(sorted, taken) \cup Pairs(sorted, called) /\ out.kernel = Pairs(sorted, kernel)
  BY OutIs
<1> HIDE DEF sorted, taken, called, kernel
<1>2. ASSUME NEW e, NEW x
      PROVE  x \in LinksFrom(e) <=> \/ Ties(sorted, taken, e.id, x)
                                    \/ Ties(sorted, called, e.id, x)
                                    \/ Ties(sorted, kernel, e.id, x)
  <2>1. x \in LinksFrom(e) <=>
          \E q \in Pairs(sorted, taken) \cup Pairs(sorted, called) \cup Pairs(sorted, kernel) :
            q[1] = e.id /\ q[2] = x
    BY <1>1 DEF LinksFrom
  <2>2. x \in LinksFrom(e) <=> \/ <<e.id, x>> \in Pairs(sorted, taken)
                               \/ <<e.id, x>> \in Pairs(sorted, called)
                               \/ <<e.id, x>> \in Pairs(sorted, kernel)
    BY <2>1, PairsAreTies
  <2> QED
    BY <2>2, PairsAreTies
<1>3. ASSUME NEW e, NEW x
      PROVE  x \in LinksTo(e) <=> \/ Ties(sorted, taken, x, e.id)
                                  \/ Ties(sorted, called, x, e.id)
  <2>1. x \in LinksTo(e) <=>
          \E q \in Pairs(sorted, taken) \cup Pairs(sorted, called) : q[2] = e.id /\ q[1] = x
    BY <1>1 DEF LinksTo
  <2>2. x \in LinksTo(e) <=> \/ <<x, e.id>> \in Pairs(sorted, taken)
                             \/ <<x, e.id>> \in Pairs(sorted, called)
    BY <2>1, PairsAreTies
  <2> QED
    BY <2>2, PairsAreTies
<1> QED
  BY <1>2, <1>3 DEF sorted, taken, called, kernel

(* An id is an event's own, so that a tie of ids is one of places. *)
LEMMA TieOfPlaces ==
    ASSUME NEW sorted, OneOfEachId(sorted), NEW links, NEW places \in SUBSET (DOMAIN sorted),
           LinksNear(sorted, links, places)
    PROVE  /\ \A a, b : Ties(sorted, links, a, b) =>
                \E i \in places : \E j \in Near(sorted, i) :
                  /\ j \in links[i] /\ i \in DOMAIN sorted /\ j \in DOMAIN sorted
                  /\ a = sorted[i].id /\ b = sorted[j].id
           /\ \A i \in DOMAIN sorted :
                (\E x : Ties(sorted, links, sorted[i].id, x)) <=> i \in places /\ links[i] # {}
           /\ \A j \in DOMAIN sorted :
                (\E x : Ties(sorted, links, x, sorted[j].id)) <=> j \in Linked(links)
<1>1. DOMAIN links = places /\ \A i \in places : links[i] \subseteq Near(sorted, i)
  BY DEF LinksNear
<1>2. \A i : Near(sorted, i) \subseteq DOMAIN sorted
  BY DEF Near, Pres, TypeAt
<1>3. ASSUME NEW a, NEW b, Ties(sorted, links, a, b)
      PROVE  \E i \in places : \E j \in Near(sorted, i) :
               /\ j \in links[i] /\ i \in DOMAIN sorted /\ j \in DOMAIN sorted
               /\ a = sorted[i].id /\ b = sorted[j].id
  BY <1>1, <1>2, <1>3 DEF Ties
<1>4. ASSUME NEW i \in DOMAIN sorted
      PROVE  (\E x : Ties(sorted, links, sorted[i].id, x)) <=> i \in places /\ links[i] # {}
  <2>1. ASSUME NEW x, Ties(sorted, links, sorted[i].id, x)
        PROVE  i \in places /\ links[i] # {}
    <3>1. PICK n \in DOMAIN links : \E j \in links[n] : sorted[i].id = sorted[n].id /\ x = sorted[j].id
      BY <2>1 DEF Ties
    <3>2. n = i
      BY <3>1, <1>1 DEF OneOfEachId
    <3> QED
      BY <3>1, <3>2, <1>1
  <2>2. ASSUME i \in places, links[i] # {}
        PROVE  \E x : Ties(sorted, links, sorted[i].id, x)
    <3>1. PICK j : j \in links[i]
      BY <2>2
    <3>2. Ties(sorted, links, sorted[i].id, sorted[j].id)
      BY <2>2, <3>1, <1>1 DEF Ties
    <3> QED
      BY <3>2
  <2> QED
    BY <2>1, <2>2
<1>5. ASSUME NEW j \in DOMAIN sorted
      PROVE  (\E x : Ties(sorted, links, x, sorted[j].id)) <=> j \in Linked(links)
  <2>1. ASSUME NEW x, Ties(sorted, links, x, sorted[j].id)
        PROVE  j \in Linked(links)
    <3>1. PICK n \in DOMAIN links : \E k \in links[n] : x = sorted[n].id /\ sorted[j].id = sorted[k].id
      BY <2>1 DEF Ties
    <3>2. PICK k \in links[n] : sorted[j].id = sorted[k].id
      BY <3>1
    <3>3. k = j
      BY <3>1, <3>2, <1>1, <1>2 DEF OneOfEachId
    <3> QED
      BY <3>1, <3>2, <3>3 DEF Linked
  <2>2. ASSUME j \in Linked(links)
        PROVE  \E x : Ties(sorted, links, x, sorted[j].id)
    <3>1. PICK n \in DOMAIN links : j \in links[n]
      BY <2>2 DEF Linked
    <3>2. Ties(sorted, links, sorted[n].id, sorted[j].id)
      BY <3>1 DEF Ties
    <3> QED
      BY <3>2
  <2> QED
    BY <2>1, <2>2
<1> QED
  BY <1>3, <1>4, <1>5

(* The timeline at the end: the events read, each under its own id, and the *)
(* gaps about them, under ids of their own.                                 *)
LEMMA TimelineAtTheEnd ==
    ASSUME PipeInv, pc = "done"
    PROVE  LET sorted == Ordered(AllRead)
           IN  /\ sorted \in Seq(ShownEvent)
               /\ OneOfEachId(sorted)
               /\ \A e : e \in Timeline <=> e \in ToSet(sorted) \/ IsMergeGap(e, sorted)
<1>1. AllRead \in Seq(RawEvent)
  BY AllReadIs
<1>2. Timeline = ToSet(SortByTime(GapsIn(Ordered(AllRead)) \o Ordered(AllRead)))
  BY OutIs DEF Timeline
<1> QED
  BY <1>1, <1>2, TimelineIs

(* What bears the id of an event that was read is that event. *)
LEMMA IdIsItsOwn ==
    ASSUME PipeInv, pc = "done", NEW e \in Timeline, NEW i \in DOMAIN Ordered(AllRead),
           e.id = Ordered(AllRead)[i].id
    PROVE  e = Ordered(AllRead)[i]
<1> DEFINE sorted == Ordered(AllRead)
<1>1. sorted \in Seq(ShownEvent)
  BY TimelineAtTheEnd
<1>2. OneOfEachId(sorted)
  BY TimelineAtTheEnd
<1>3. e \in ToSet(sorted) \/ IsMergeGap(e, sorted)
  BY TimelineAtTheEnd
<1>4. i \in DOMAIN sorted /\ e.id = sorted[i].id
  OBVIOUS
<1> HIDE DEF sorted
<1>5. CASE e \in ToSet(sorted)
  <2>1. PICK k \in DOMAIN sorted : e = sorted[k]
    BY <1>5 DEF ToSet
  <2>2. k = i
    BY <2>1, <1>2, <1>4 DEF OneOfEachId
  <2> QED
    BY <2>1, <2>2 DEF sorted
<1>6. CASE IsMergeGap(e, sorted)
  <2>1. PICK reason \in MergeReasons : \E k \in Filed(sorted, reason) : e = GapAbout(sorted[k], reason)
    BY <1>6 DEF IsMergeGap
  <2>2. PICK k \in Filed(sorted, reason) : e = GapAbout(sorted[k], reason)
    BY <2>1
  <2>3. e.id[1] = reason
    BY <1>1, <2>2, MergeGapIs
  <2>4. sorted[i] \in ShownEvent
    BY <1>1, <1>4, ElementOfSeq, LenProperties
  <2>5. sorted[i].id[1] \in Origins
    BY <2>4, ShownEventIs
  <2> QED
    BY <2>3, <2>5, <1>4, ReasonsDiffer
<1> QED
  BY <1>3, <1>5, <1>6

(* A gap of the merge is not an event of any other type. *)
LEMMA TypedOtherIsRead ==
    ASSUME PipeInv, pc = "done", NEW e \in Timeline, e.type # "gap"
    PROVE  \E i \in DOMAIN Ordered(AllRead) : e = Ordered(AllRead)[i]
<1> DEFINE sorted == Ordered(AllRead)
<1>1. sorted \in Seq(ShownEvent)
  BY TimelineAtTheEnd
<1>2. e \in ToSet(sorted) \/ IsMergeGap(e, sorted)
  BY TimelineAtTheEnd
<1> HIDE DEF sorted
<1>3. ~ IsMergeGap(e, sorted)
  <2> SUFFICES ASSUME IsMergeGap(e, sorted) PROVE FALSE
    OBVIOUS
  <2>1. PICK reason \in MergeReasons : \E k \in Filed(sorted, reason) : e = GapAbout(sorted[k], reason)
    BY DEF IsMergeGap
  <2>2. PICK k \in Filed(sorted, reason) : e = GapAbout(sorted[k], reason)
    BY <2>1
  <2>3. e.type = "gap"
    BY <1>1, <2>2, MergeGapIs
  <2> QED
    BY <2>3
<1>4. \E i \in DOMAIN sorted : e = sorted[i]
  BY <1>2, <1>3 DEF ToSet
<1> QED
  BY <1>4 DEF sorted

(* One gap of a reason is shown about an event that was filed for it, none  *)
(* about any other.                                                         *)
LEMMA DisclosedOnce ==
    ASSUME PipeInv, pc = "done", NEW reason \in MergeReasons, NEW i \in DOMAIN Ordered(AllRead)
    PROVE  Cardinality(Disclosed(Ordered(AllRead)[i], reason)) =
             IF i \in Filed(Ordered(AllRead), reason) THEN 1 ELSE 0
<1> DEFINE sorted == Ordered(AllRead)
<1>1. sorted \in Seq(ShownEvent)
  BY TimelineAtTheEnd
<1>2. OneOfEachId(sorted)
  BY TimelineAtTheEnd
<1>3. \A e : e \in Timeline <=> e \in ToSet(sorted) \/ IsMergeGap(e, sorted)
  BY TimelineAtTheEnd
<1>4. i \in DOMAIN sorted
  OBVIOUS
<1> HIDE DEF sorted
<1>5. ASSUME NEW g \in Disclosed(sorted[i], reason)
      PROVE  i \in Filed(sorted, reason) /\ g = GapAbout(sorted[i], reason)
  <2>1. g \in Timeline /\ g.reason = reason /\ g.parent = sorted[i].id
    BY <1>5 DEF Disclosed
  <2>2. g \notin ToSet(sorted)
    <3> SUFFICES ASSUME g \in ToSet(sorted) PROVE FALSE
      OBVIOUS
    <3>1. PICK k \in DOMAIN sorted : g = sorted[k]
      BY DEF ToSet
    <3>2. g \in ShownEvent
      BY <1>1, <3>1, ElementOfSeq, LenProperties
    <3>3. g.reason \in ShownReasons
      BY <3>2, ShownEventIs
    <3> QED
      BY <3>3, <2>1, ReasonsDiffer
  <2>3. PICK r \in MergeReasons : \E k \in Filed(sorted, r) : g = GapAbout(sorted[k], r)
    BY <2>1, <2>2, <1>3 DEF IsMergeGap
  <2>4. PICK k \in Filed(sorted, r) : g = GapAbout(sorted[k], r)
    BY <2>3
  <2>5. k \in DOMAIN sorted /\ g.parent = sorted[k].id /\ g.reason = r
    BY <1>1, <2>4, MergeGapIs
  <2>6. k = i /\ r = reason
    BY <2>1, <2>5, <1>2, <1>4 DEF OneOfEachId
  <2> QED
    BY <2>4, <2>6
<1>6. ASSUME i \in Filed(sorted, reason)
      PROVE  GapAbout(sorted[i], reason) \in Disclosed(sorted[i], reason)
  <2>1. IsMergeGap(GapAbout(sorted[i], reason), sorted)
    BY <1>6 DEF IsMergeGap
  <2>2. GapAbout(sorted[i], reason) \in Timeline
    BY <2>1, <1>3
  <2>3. GapAbout(sorted[i], reason).parent = sorted[i].id /\ GapAbout(sorted[i], reason).reason = reason
    BY <1>1, <1>6, MergeGapIs
  <2> QED
    BY <2>2, <2>3 DEF Disclosed
<1>7. CASE i \in Filed(sorted, reason)
  <2>1. Disclosed(sorted[i], reason) = {GapAbout(sorted[i], reason)}
    BY <1>5, <1>6, <1>7
  <2>2. Cardinality(Disclosed(sorted[i], reason)) = 1
    BY <2>1, FS_Singleton
  <2> QED
    BY <2>2, <1>7 DEF sorted
<1>8. CASE i \notin Filed(sorted, reason)
  <2>1. Disclosed(sorted[i], reason) = {}
    BY <1>5, <1>8
  <2>2. Cardinality(Disclosed(sorted[i], reason)) = 0
    BY <2>1, FS_EmptySet
  <2> QED
    BY <2>2, <1>8 DEF sorted
<1> QED
  BY <1>7, <1>8

(* What was filed for want of a link has none, and the other way round. *)
LEMMA FiledForWant ==
    ASSUME NEW sorted
    PROVE  /\ Filed(sorted, Unmatched) = Unlinked(TakenBy(sorted))
           /\ Filed(sorted, Unclaimed) = UnmatchedPres(sorted, TakenBy(sorted), CalledBy(sorted))
           /\ Filed(sorted, Unhooked) = Unlinked(KernelLinks(sorted))
<1>1. Filed(sorted, Unmatched) = Unlinked(TakenBy(sorted))
  BY ReasonsDiffer DEF Filed
<1>2. Filed(sorted, Unclaimed) = UnmatchedPres(sorted, TakenBy(sorted), CalledBy(sorted))
  BY ReasonsDiffer DEF Filed
<1>3. Filed(sorted, Unhooked) = Unlinked(KernelLinks(sorted))
  BY ReasonsDiffer DEF Filed
<1> QED
  BY <1>1, <1>2, <1>3

(* The links of one event of the timeline. *)
LEMMA LinksOfOne ==
    ASSUME PipeInv, pc = "done", NEW i \in DOMAIN Ordered(AllRead)
    PROVE  LET sorted == Ordered(AllRead)
           IN  /\ LinksFrom(sorted[i]) = {} <=>
                    /\ i \in Results(sorted) => TakenBy(sorted)[i] = {}
                    /\ i \in Calls(sorted) => CalledBy(sorted)[i] = {}
                    /\ i \in Execves(sorted) => KernelLinks(sorted)[i] = {}
               /\ LinksTo(sorted[i]) = {} <=>
                    i \notin Linked(TakenBy(sorted)) /\ i \notin Linked(CalledBy(sorted))
<1> DEFINE sorted == Ordered(AllRead)
           taken == TakenBy(sorted)
           called == CalledBy(sorted)
           kernel == KernelLinks(sorted)
<1>1. sorted \in Seq(ShownEvent)
  BY TimelineAtTheEnd
<1>2. OneOfEachId(sorted)
  BY TimelineAtTheEnd
<1>3. i \in DOMAIN sorted
  OBVIOUS
<1>4. /\ \A x : x \in LinksFrom(sorted[i]) <=> \/ Ties(sorted, taken, sorted[i].id, x)
                                               \/ Ties(sorted, called, sorted[i].id, x)
                                               \/ Ties(sorted, kernel, sorted[i].id, x)
      /\ \A x : x \in LinksTo(sorted[i]) <=> \/ Ties(sorted, taken, x, sorted[i].id)
                                             \/ Ties(sorted, called, x, sorted[i].id)
  BY LinksAreTies
<1> HIDE DEF sorted
<1>5. /\ Results(sorted) \in SUBSET (DOMAIN sorted) /\ Calls(sorted) \in SUBSET (DOMAIN sorted)
      /\ Execves(sorted) \in SUBSET (DOMAIN sorted)
  BY DEF Results, Calls, Execves, TypeAt
<1>6. /\ LinksNear(sorted, taken, Results(sorted)) /\ LinksNear(sorted, called, Calls(sorted))
      /\ LinksNear(sorted, kernel, Execves(sorted))
  BY <1>1, ResultLinksNear, CallLinksNear, KernelLinksNear
<1> HIDE DEF taken, called, kernel
<1>7. (\E x : Ties(sorted, taken, sorted[i].id, x)) <=> i \in Results(sorted) /\ taken[i] # {}
  <2>1. \A n \in DOMAIN sorted :
          (\E x : Ties(sorted, taken, sorted[n].id, x)) <=> n \in Results(sorted) /\ taken[n] # {}
    BY <1>2, <1>5, <1>6, TieOfPlaces
  <2> QED
    BY <2>1, <1>3
<1>8. (\E x : Ties(sorted, called, sorted[i].id, x)) <=> i \in Calls(sorted) /\ called[i] # {}
  <2>1. \A n \in DOMAIN sorted :
          (\E x : Ties(sorted, called, sorted[n].id, x)) <=> n \in Calls(sorted) /\ called[n] # {}
    BY <1>2, <1>5, <1>6, TieOfPlaces
  <2> QED
    BY <2>1, <1>3
<1>9. (\E x : Ties(sorted, kernel, sorted[i].id, x)) <=> i \in Execves(sorted) /\ kernel[i] # {}
  <2>1. \A n \in DOMAIN sorted :
          (\E x : Ties(sorted, kernel, sorted[n].id, x)) <=> n \in Execves(sorted) /\ kernel[n] # {}
    BY <1>2, <1>5, <1>6, TieOfPlaces
  <2> QED
    BY <2>1, <1>3
<1>10. (\E x : Ties(sorted, taken, x, sorted[i].id)) <=> i \in Linked(taken)
  BY <1>2, <1>3, <1>5, <1>6, TieOfPlaces
<1>11. (\E x : Ties(sorted, called, x, sorted[i].id)) <=> i \in Linked(called)
  BY <1>2, <1>3, <1>5, <1>6, TieOfPlaces
<1>12. LinksFrom(sorted[i]) = {} <=> /\ i \in Results(sorted) => taken[i] = {}
                                     /\ i \in Calls(sorted) => called[i] = {}
                                     /\ i \in Execves(sorted) => kernel[i] = {}
  <2>1. LinksFrom(sorted[i]) = {} <=> ~ \E x : x \in LinksFrom(sorted[i])
    OBVIOUS
  <2> QED
    BY <2>1, <1>4, <1>7, <1>8, <1>9
<1>13. LinksTo(sorted[i]) = {} <=> i \notin Linked(taken) /\ i \notin Linked(called)
  <2>1. LinksTo(sorted[i]) = {} <=> ~ \E x : x \in LinksTo(sorted[i])
    OBVIOUS
  <2> QED
    BY <2>1, <1>4, <1>10, <1>11
<1> QED
  BY <1>12, <1>13 DEF sorted, taken, called, kernel

(* An event of each correlated type is linked or disclosed, never both. *)
LEMMA EachIsAccounted ==
    ASSUME PipeInv, pc = "done", NEW e \in Timeline
    PROVE  /\ e.type = "tool_result" => LinkedOrDisclosed(e, LinksFrom(e), Unmatched)
           /\ e.type = "shell_command_pre" => LinkedOrDisclosed(e, LinksTo(e), Unclaimed)
           /\ e.source = "kernel" /\ e.type = "process_spawn" =>
                LinkedOrDisclosed(e, LinksFrom(e), Unhooked)
<1> SUFFICES ASSUME e.type # "gap"
             PROVE  /\ e.type = "tool_result" => LinkedOrDisclosed(e, LinksFrom(e), Unmatched)
                    /\ e.type = "shell_command_pre" => LinkedOrDisclosed(e, LinksTo(e), Unclaimed)
                    /\ e.source = "kernel" /\ e.type = "process_spawn" =>
                         LinkedOrDisclosed(e, LinksFrom(e), Unhooked)
  OBVIOUS
<1> DEFINE sorted == Ordered(AllRead)
           taken == TakenBy(sorted)
           called == CalledBy(sorted)
           kernel == KernelLinks(sorted)
<1>1. PICK i \in DOMAIN sorted : e = sorted[i]
  BY TypedOtherIsRead
<1>2. /\ LinksFrom(sorted[i]) = {} <=> /\ i \in Results(sorted) => taken[i] = {}
                                       /\ i \in Calls(sorted) => called[i] = {}
                                       /\ i \in Execves(sorted) => kernel[i] = {}
      /\ LinksTo(sorted[i]) = {} <=> i \notin Linked(taken) /\ i \notin Linked(called)
  BY LinksOfOne
<1>3. \A reason \in MergeReasons :
        Cardinality(Disclosed(sorted[i], reason)) = IF i \in Filed(sorted, reason) THEN 1 ELSE 0
  BY DisclosedOnce
<1>4. /\ Filed(sorted, Unmatched) = Unlinked(taken)
      /\ Filed(sorted, Unclaimed) = UnmatchedPres(sorted, taken, called)
      /\ Filed(sorted, Unhooked) = Unlinked(kernel)
  BY FiledForWant
<1>5. sorted \in Seq(ShownEvent)
  BY TimelineAtTheEnd
<1> HIDE DEF sorted
<1>6. DOMAIN taken = Results(sorted) /\ DOMAIN kernel = Execves(sorted)
  BY <1>5, ResultLinksNear, KernelLinksNear DEF LinksNear
<1>7. Unmatched \in MergeReasons /\ Unclaimed \in MergeReasons /\ Unhooked \in MergeReasons
  BY DEF MergeReasons
<1> HIDE DEF taken, called, kernel
<1>8. /\ i \in Results(sorted) <=> e.type = "tool_result"
      /\ i \in Calls(sorted) <=> e.type = "tool_call_intent"
      /\ i \in Execves(sorted) <=> e.type = "process_spawn" /\ e.source = "kernel"
      /\ i \in Pres(sorted) <=> e.type = "shell_command_pre"
  BY <1>1 DEF Results, Calls, Execves, Pres, TypeAt
<1>9. ASSUME e.type = "tool_result" PROVE LinkedOrDisclosed(e, LinksFrom(e), Unmatched)
  <2>1. i \in Filed(sorted, Unmatched) <=> taken[i] = {}
    BY <1>4, <1>6, <1>8, <1>9 DEF Unlinked
  <2>2. LinksFrom(e) = {} <=> taken[i] = {}
    BY <1>1, <1>2, <1>8, <1>9
  <2> QED
    BY <2>1, <2>2, <1>1, <1>3, <1>7 DEF LinkedOrDisclosed
<1>10. ASSUME e.type = "shell_command_pre" PROVE LinkedOrDisclosed(e, LinksTo(e), Unclaimed)
  <2>1. i \in Filed(sorted, Unclaimed) <=> i \notin Linked(taken) /\ i \notin Linked(called)
    BY <1>4, <1>8, <1>10 DEF UnmatchedPres
  <2>2. LinksTo(e) = {} <=> i \notin Linked(taken) /\ i \notin Linked(called)
    BY <1>1, <1>2
  <2> QED
    BY <2>1, <2>2, <1>1, <1>3, <1>7 DEF LinkedOrDisclosed
<1>11. ASSUME e.source = "kernel", e.type = "process_spawn"
       PROVE  LinkedOrDisclosed(e, LinksFrom(e), Unhooked)
  <2>1. i \in Filed(sorted, Unhooked) <=> kernel[i] = {}
    BY <1>4, <1>6, <1>8, <1>11 DEF Unlinked
  <2>2. LinksFrom(e) = {} <=> kernel[i] = {}
    BY <1>1, <1>2, <1>8, <1>11
  <2> QED
    BY <2>1, <2>2, <1>1, <1>3, <1>7 DEF LinkedOrDisclosed
<1> QED
  BY <1>9, <1>10, <1>11

(* Whatever an event is tied to is a capture close to it. *)
LEMMA TiedIsNear ==
    ASSUME PipeInv, pc = "done", NEW e \in Timeline, NEW x \in LinksFrom(e)
    PROVE  LET sorted == Ordered(AllRead)
           IN  \E i, j \in DOMAIN sorted :
                 /\ e = sorted[i] /\ x = sorted[j].id /\ j \in Near(sorted, i)
                 /\ \/ i \in Results(sorted) /\ j \in TakenBy(sorted)[i]
                    \/ i \in Calls(sorted) /\ j \in CalledBy(sorted)[i]
                    \/ i \in Execves(sorted) /\ j \in KernelLinks(sorted)[i]
<1> DEFINE sorted == Ordered(AllRead)
           taken == TakenBy(sorted)
           called == CalledBy(sorted)
           kernel == KernelLinks(sorted)
<1>1. sorted \in Seq(ShownEvent)
  BY TimelineAtTheEnd
<1>2. OneOfEachId(sorted)
  BY TimelineAtTheEnd
<1>3. Ties(sorted, taken, e.id, x) \/ Ties(sorted, called, e.id, x) \/ Ties(sorted, kernel, e.id, x)
  BY LinksAreTies
<1>4. \A i \in DOMAIN sorted : e.id = sorted[i].id => e = sorted[i]
  BY IdIsItsOwn
<1> HIDE DEF sorted
<1>5. /\ Results(sorted) \in SUBSET (DOMAIN sorted) /\ Calls(sorted) \in SUBSET (DOMAIN sorted)
      /\ Execves(sorted) \in SUBSET (DOMAIN sorted)
  BY DEF Results, Calls, Execves, TypeAt
<1>6. /\ LinksNear(sorted, taken, Results(sorted)) /\ LinksNear(sorted, called, Calls(sorted))
      /\ LinksNear(sorted, kernel, Execves(sorted))
  BY <1>1, ResultLinksNear, CallLinksNear, KernelLinksNear
<1> HIDE DEF taken, called, kernel
<1>7. \A a, b : Ties(sorted, taken, a, b) =>
        \E i \in Results(sorted) : \E j \in Near(sorted, i) :
          /\ j \in taken[i] /\ i \in DOMAIN sorted /\ j \in DOMAIN sorted
          /\ a = sorted[i].id /\ b = sorted[j].id
  BY <1>2, <1>5, <1>6, TieOfPlaces
<1>8. \A a, b : Ties(sorted, called, a, b) =>
        \E i \in Calls(sorted) : \E j \in Near(sorted, i) :
          /\ j \in called[i] /\ i \in DOMAIN sorted /\ j \in DOMAIN sorted
          /\ a = sorted[i].id /\ b = sorted[j].id
  BY <1>2, <1>5, <1>6, TieOfPlaces
<1>9. \A a, b : Ties(sorted, kernel, a, b) =>
        \E i \in Execves(sorted) : \E j \in Near(sorted, i) :
          /\ j \in kernel[i] /\ i \in DOMAIN sorted /\ j \in DOMAIN sorted
          /\ a = sorted[i].id /\ b = sorted[j].id
  BY <1>2, <1>5, <1>6, TieOfPlaces
<1>10. \E i, j \in DOMAIN sorted :
         /\ e = sorted[i] /\ x = sorted[j].id /\ j \in Near(sorted, i)
         /\ \/ i \in Results(sorted) /\ j \in taken[i]
            \/ i \in Calls(sorted) /\ j \in called[i]
            \/ i \in Execves(sorted) /\ j \in kernel[i]
  BY <1>3, <1>4, <1>7, <1>8, <1>9
<1> QED
  BY <1>10 DEF sorted, taken, called, kernel

LEMMA LinkedIsNear ==
    ASSUME PipeInv, pc = "done", NEW e \in Timeline, NEW p \in Timeline, p.id \in LinksFrom(e)
    PROVE  p.type = "shell_command_pre" /\ Distance(e, p) =< Window
<1> DEFINE sorted == Ordered(AllRead)
<1>1. PICK i, j \in DOMAIN sorted : e = sorted[i] /\ p.id = sorted[j].id /\ j \in Near(sorted, i)
  BY TiedIsNear
<1>2. p = sorted[j]
  BY <1>1, IdIsItsOwn
<1> HIDE DEF sorted
<1> QED
  BY <1>1, <1>2 DEF Near, Pres, TypeAt

(* A capture a call is linked to is linked to no other call and no result. *)
LEMMA CallsOwnTheirs ==
    ASSUME PipeInv, pc = "done", NEW e \in Timeline, NEW f \in Timeline,
           LinksFrom(e) \cap LinksFrom(f) # {}, e.type = "tool_call_intent", f.source # "kernel"
    PROVE  e = f
<1> DEFINE sorted == Ordered(AllRead)
           taken == TakenBy(sorted)
           called == CalledBy(sorted)
           kernel == KernelLinks(sorted)
<1>1. PICK x : x \in LinksFrom(e) /\ x \in LinksFrom(f)
  OBVIOUS
<1>2. PICK i, j \in DOMAIN sorted :
        /\ e = sorted[i] /\ x = sorted[j].id
        /\ \/ i \in Results(sorted) /\ j \in taken[i]
           \/ i \in Calls(sorted) /\ j \in called[i]
           \/ i \in Execves(sorted) /\ j \in kernel[i]
  BY <1>1, TiedIsNear
<1>3. PICK k, l \in DOMAIN sorted :
        /\ f = sorted[k] /\ x = sorted[l].id
        /\ \/ k \in Results(sorted) /\ l \in taken[k]
           \/ k \in Calls(sorted) /\ l \in called[k]
           \/ k \in Execves(sorted) /\ l \in kernel[k]
  BY <1>1, TiedIsNear
<1>4. sorted \in Seq(ShownEvent)
  BY TimelineAtTheEnd
<1>5. OneOfEachId(sorted)
  BY TimelineAtTheEnd
<1> HIDE DEF sorted
<1>6. DOMAIN taken = Results(sorted)
  BY ResultLinksNear DEF LinksNear
<1>7. \A c \in Calls(sorted) :
        /\ called[c] \cap Linked(taken) = {}
        /\ \A d \in Calls(sorted) : called[c] \cap called[d] # {} => c = d
  BY <1>4, CallLinksApart DEF CallsApart
<1> HIDE DEF taken, called, kernel
<1>8. j = l
  BY <1>2, <1>3, <1>5 DEF OneOfEachId
<1>9. i \in Calls(sorted) /\ j \in called[i]
  BY <1>2 DEF Results, Execves, TypeAt
<1>10. k \notin Execves(sorted)
  BY <1>3 DEF Execves
<1>11. ~ (k \in Results(sorted) /\ l \in taken[k])
  BY <1>6, <1>7, <1>8, <1>9 DEF Linked
<1>12. k \in Calls(sorted) /\ l \in called[k]
  BY <1>3, <1>10, <1>11
<1>13. i = k
  BY <1>7, <1>8, <1>9, <1>12
<1> QED
  BY <1>2, <1>3, <1>13

(* No tool result, capture or kernel execve of a session is left without an *)
(* explanation, however long its logs and however many its captures: it is  *)
(* linked to a capture near it in time, or exactly one gap of the merge     *)
(* says that it could not be (merge.ts, merge-kernel.ts).                   *)
THEOREM EveryEventIsAccounted == Spec => []CorrelationAccounted
<1>1. PipeInv => CorrelationAccounted
  <2> SUFFICES ASSUME PipeInv, pc = "done" PROVE CorrelationAccounted
    BY DEF CorrelationAccounted
  <2>1. \A e \in Timeline :
          /\ e.type = "tool_result" =>
               LinkedOrDisclosed(e, LinksFrom(e), "tool_result_without_pre_capture")
          /\ e.type = "shell_command_pre" =>
               LinkedOrDisclosed(e, LinksTo(e), "pre_capture_without_tool_result")
          /\ e.source = "kernel" /\ e.type = "process_spawn" =>
               LinkedOrDisclosed(e, LinksFrom(e), "kernel_execve_without_hook")
    BY EachIsAccounted DEF Unmatched, Unclaimed, Unhooked
  <2>2. \A e, p \in Timeline : p.id \in LinksFrom(e) =>
          p.type = "shell_command_pre" /\ Distance(e, p) =< Window
    BY LinkedIsNear
  <2>3. \A e, f \in Timeline :
          LinksFrom(e) \cap LinksFrom(f) # {} /\ e.type = "tool_call_intent" /\ f.source # "kernel"
            => e = f
    BY CallsOwnTheirs
  <2> QED
    BY <2>1, <2>2, <2>3 DEF CorrelationAccounted
<1> QED
  BY <1>1, Invariance, PTL
=============================================================================
