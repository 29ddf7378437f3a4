----------------------- MODULE ExecveCollectorProofs -----------------------
(***************************************************************************)
(* Proofs about ExecveCollector: any number of processes, forks, execs and *)
(* pids given out again, a ring of any size, a walk of any depth, any      *)
(* failures.                                                               *)
(***************************************************************************)
EXTENDS ExecveCollector, FiniteSetTheorems, WellFoundedInduction, TLAPS

---------------------------------------------------------------------------
(* Types. *)

InHand == {"walk", "argv", "write"}
Stages == {"off", "waiting", "over"} \union InHand
Execs == 1..Len(execs)

ProcTyped ==
    /\ DOMAIN parent \subseteq Pids /\ 1 \in DOMAIN parent
    /\ parent = [x \in DOMAIN parent |-> parent[x]]
    /\ parent[1] = 0
    /\ \A x \in DOMAIN parent \ {1} : parent[x] \in DOMAIN parent
    /\ image \in [DOMAIN parent -> Nat]
    /\ given \in [Pids -> Nat]

ColTyped ==
    /\ col \in [at : Stages, exec : Nat, current : Nat, chain : Seq(Pids), argv : Nat]
    /\ col.at \in InHand => col.exec \in Execs
    /\ col.at = "walk" => col.current \in Pids

Typed ==
    /\ ProcTyped
    /\ execs \in Seq([pid : Pids, inTree : BOOLEAN])
    /\ ring \in Seq(Execs)
    /\ dropped \subseteq Execs /\ taken \subseteq Execs /\ steady \subseteq Execs
    /\ ColTyped
    /\ closed \in BOOLEAN
    /\ store \subseteq [exec : Execs, pid : Pids, ancestry : Seq(Pids), argv : Nat]
    /\ failures \subseteq {"ebpf-attach"}
    /\ faults \in Nat

---------------------------------------------------------------------------
(* The inductive invariant. *)

(* Parents live, init does, and nobody is above itself.                    *)
Tree ==
    /\ image[1] # Zombie
    /\ \A x \in DOMAIN parent \ {1} : image[parent[x]] # Zombie
    /\ \A x \in DOMAIN parent : x \notin Ancestors(x)

(* Pids in /proc and in the collector's memory have been given out.        *)
Known ==
    /\ \A x \in DOMAIN parent : given[x] > 0
    /\ \A e \in Execs : given[execs[e].pid] > 0
    /\ col.at = "walk" => given[col.current] > 0

Once == \A p \in Pids : given[p] <= 1

(* While pids are given out once, being below the agent is never gained.   *)
Below(p) == p \in DOMAIN parent /\ Agent \in Ancestors(p)
HasAgent(chain) == \E i \in DOMAIN chain : chain[i] = Agent

Truthful ==
    Once =>
      /\ \A x \in Pids : Below(x) =>
            /\ \A e \in Execs : execs[e].pid = x => execs[e].inTree
            /\ col.at = "walk" /\ col.current = x => execs[col.exec].inTree
      /\ col.at = "walk" /\ col.current = Agent => execs[col.exec].inTree
      /\ col.at \in InHand /\ HasAgent(col.chain) => execs[col.exec].inTree
      /\ \A r \in store : execs[r.exec].inTree

(* Each exec is at one place: in the ring, in hand or done with.           *)
Apart ==
    /\ col.at = "write" => HasAgent(col.chain)
    /\ \A i, j \in DOMAIN ring : ring[i] = ring[j] => i = j
    /\ \A i \in DOMAIN ring : ring[i] \notin taken /\ (col.at \in InHand => ring[i] # col.exec)
    /\ col.at \in InHand => col.exec \notin taken /\ execs[col.exec].pid # Agent
    /\ \A r \in store : r.exec \in taken
    /\ \A r, s \in store : r.exec = s.exec => r = s

(* The parents of p up to the agent.                                       *)
LineTo(p, n, line) == IsLine(p, line) /\ line[n] = Agent

(* The chain read so far is the beginning of that line.                    *)
OnTheWay(p, n, line) ==
    /\ Len(col.chain) < n
    /\ \A i \in 1..Len(col.chain) : col.chain[i] = line[i]
    /\ col.current = IF Len(col.chain) = 0 THEN p ELSE line[Len(col.chain)]

(* A steady exec still runs, and the walk from its process would come to   *)
(* the agent; the walk that is on has, or is on the way.                   *)
SteadyLives ==
    \A e \in steady :
        /\ execs[e].pid \in DOMAIN parent /\ image[execs[e].pid] = e
        /\ InReach(execs[e].pid)

SteadyWalked ==
    col.at \in InHand /\ col.exec \in steady =>
        /\ \/ HasAgent(col.chain)
           \/ /\ col.at = "walk"
              /\ \E n \in 1..Depth : \E line \in [1..n -> DOMAIN parent] :
                   LineTo(execs[col.exec].pid, n, line) /\ OnTheWay(execs[col.exec].pid, n, line)
        /\ col.at = "write" => col.argv = col.exec

SteadyWritten ==
    \A e \in steady \intersect taken :
        execs[e].pid # Agent => \E r \in store : r.exec = e /\ r.argv = e

SteadyKept == SteadyLives /\ SteadyWalked /\ SteadyWritten

---------------------------------------------------------------------------
(* The tree of processes. *)

(* Every set of naturals that is not empty has a least one.                *)
LEMMA LeastNat ==
    ASSUME NEW T \in SUBSET Nat, T # {}
    PROVE  \E x \in T : \A y \in T : x <= y
<1> DEFINE R == OpToRel(<, Nat)
<1>1. IsWellFoundedOn(R, Nat)
  BY NatLessThanWellFounded
<1>2. \E x \in T : \A y \in T : <<y, x>> \notin R
  <2> HIDE DEF R
  <2> QED
    BY <1>1, WFMin
<1>3. \A x, y \in Nat : <<x, y>> \in R <=> x < y
  BY DEF OpToRel
<1>4. PICK x \in T : \A y \in T : <<y, x>> \notin R
  BY <1>2
<1> HIDE DEF R
<1>5. \A y \in T : ~ (y < x)
  BY <1>3, <1>4
<1> QED
  BY <1>5

LEMMA PidsAre == Pids \subseteq Nat /\ 0 \notin Pids /\ 1 \in Pids /\ Agent \in Pids /\ Agent # 1
BY CollectorConstants

(* A parent is an ancestor, and so are the parents of ancestors.           *)
LEMMA ParentIsAncestor ==
    ASSUME ProcTyped, NEW x \in DOMAIN parent, x # 1
    PROVE  parent[x] \in Ancestors(x)
BY DEF ProcTyped, Ancestors

LEMMA AncestorsClimb ==
    ASSUME ProcTyped, NEW x \in DOMAIN parent, NEW a \in Ancestors(x), a # 1
    PROVE  parent[a] \in Ancestors(x)
<1> SUFFICES ASSUME NEW S \in SUBSET DOMAIN parent, x = 1 \/ parent[x] \in S, Climbs(S)
             PROVE  parent[a] \in S
  BY DEF ProcTyped, Ancestors
<1>1. a \in S
  BY DEF Ancestors
<1> QED
  BY <1>1 DEF Climbs

LEMMA AncestorsOfParent ==
    ASSUME ProcTyped, NEW x \in DOMAIN parent, x # 1, NEW a \in Ancestors(parent[x])
    PROVE  a \in Ancestors(x)
<1> SUFFICES ASSUME NEW S \in SUBSET DOMAIN parent, parent[x] \in S, Climbs(S)
             PROVE  a \in S
  BY DEF Ancestors
<1>1. parent[x] = 1 \/ parent[parent[x]] \in S
  BY DEF Climbs
<1> QED
  BY <1>1 DEF Ancestors

(* The line up from a process consists of its ancestors.                   *)
LEMMA LineClimbs ==
    ASSUME ProcTyped, NEW x \in DOMAIN parent, NEW n \in Nat, NEW line \in [1..n -> DOMAIN parent],
           n > 0, IsLine(x, line)
    PROVE  \A i \in 1..n : line[i] \in Ancestors(x)
<1> DEFINE T == {i \in 1..n : line[i] \notin Ancestors(x)}
<1> SUFFICES ASSUME T # {} PROVE FALSE
  OBVIOUS
<1>1. PICK m \in T : \A j \in T : m <= j
  <2>1. T \in SUBSET Nat
    OBVIOUS
  <2> QED
    BY <2>1, LeastNat
<1>2. m \in 1..n /\ line[m] \notin Ancestors(x) /\ line[m] \in DOMAIN parent /\ line[m] # 0
  BY <1>1, PidsAre DEF ProcTyped
<1>3. line[1] = parent[x] /\ \A i \in 2..n : line[i] = parent[line[i - 1]]
  BY DEF IsLine
<1>4. CASE m = 1
  <2>1. x # 1
    BY <1>2, <1>3, <1>4 DEF ProcTyped
  <2> QED
    BY <1>2, <1>3, <1>4, <2>1, ParentIsAncestor
<1>5. CASE m # 1
  <2>1. m \in 2..n /\ m - 1 \in 1..n /\ m - 1 \notin T
    BY <1>1, <1>2, <1>5
  <2>2. line[m - 1] \in Ancestors(x) /\ line[m] = parent[line[m - 1]]
    BY <1>3, <2>1
  <2>3. line[m - 1] # 1
    BY <1>2, <2>2 DEF ProcTyped
  <2> QED
    BY <1>2, <2>2, <2>3, AncestorsClimb
<1> QED
  BY <1>4, <1>5

(* No process is met twice on a line.                                      *)
LEMMA LineIsStraight ==
    ASSUME ProcTyped, Tree, NEW x \in DOMAIN parent, NEW n \in Nat,
           NEW line \in [1..n -> DOMAIN parent], n > 0, IsLine(x, line),
           NEW i \in 1..n
    PROVE  /\ line[i] # x
           /\ \A j \in 1..n : i < j => line[i] # line[j]
<1>1. line[i] # x
  BY LineClimbs DEF Tree
<1>2. ASSUME NEW j \in 1..n, i < j
      PROVE  line[i] # line[j]
  <2> DEFINE rest == [h \in 1..(j - i) |-> line[i + h]]
  <2>1. j - i \in Nat /\ j - i > 0
    BY <1>2
  <2>2. \A h \in 1..(j - i) : i + h \in 1..n
    BY <1>2
  <2>3. rest \in [1..(j - i) -> DOMAIN parent]
    BY <2>2
  <2>4. \A h \in 2..n : line[h] = parent[line[h - 1]]
    BY DEF IsLine
  <2>5. rest[1] = parent[line[i]]
    <3>1. i + 1 \in 2..n /\ rest[1] = line[i + 1] /\ (i + 1) - 1 = i
      BY <1>2
    <3> QED
      BY <2>4, <3>1
  <2>6. ASSUME NEW h \in DOMAIN rest \ {1}
        PROVE  rest[h] = parent[rest[h - 1]]
    <3>1. h \in 2..(j - i) /\ h - 1 \in 1..(j - i) /\ i + h \in 2..n /\ (i + h) - 1 = i + (h - 1)
      BY <1>2, <2>6
    <3>2. rest[h] = line[i + h] /\ rest[h - 1] = line[i + (h - 1)]
      BY <3>1
    <3>3. line[i + h] = parent[line[(i + h) - 1]]
      BY <2>4, <3>1
    <3> QED
      BY <3>1, <3>2, <3>3
  <2>7. IsLine(line[i], rest)
    BY <2>5, <2>6 DEF IsLine
  <2>8. rest[j - i] = line[j] /\ j - i \in 1..(j - i)
    BY <1>2, <2>1
  <2>9. line[i] \in DOMAIN parent
    OBVIOUS
  <2> HIDE DEF rest
  <2>10. rest[j - i] \in Ancestors(line[i])
    BY <2>1, <2>3, <2>7, <2>8, <2>9, LineClimbs
  <2> QED
    BY <2>8, <2>9, <2>10 DEF Tree
<1> QED
  BY <1>1, <1>2

Inv == Tree /\ Known /\ Truthful /\ Apart /\ SteadyKept

---------------------------------------------------------------------------
(* What each step of a process does. *)

LEMMA ForkIs ==
    ASSUME ProcTyped, NEW p \in Pids, Fork(p)
    PROVE  /\ p \in DOMAIN parent /\ image[p] # Zombie
           /\ \E q \in Pids \ DOMAIN parent :
                /\ DOMAIN parent' = DOMAIN parent \union {q} /\ parent'[q] = p
                /\ \A x \in DOMAIN parent : parent'[x] = parent[x] /\ image'[x] = image[x]
                /\ image'[q] = image[p]
                /\ given' = [given EXCEPT ![q] = given[q] + 1]
           /\ ProcTyped'
           /\ UNCHANGED <<execs, ring, dropped, col, closed, store, failures, taken, steady, faults>>
<1>1. p \in DOMAIN parent /\ image[p] # Zombie
      /\ UNCHANGED <<execs, ring, dropped, col, closed, store, failures, taken, steady, faults>>
  BY DEF Fork, Alive, InProc
<1>2. PICK q \in Pids \ DOMAIN parent :
        /\ parent' = [x \in DOMAIN parent \union {q} |-> IF x = q THEN p ELSE parent[x]]
        /\ image' = [x \in DOMAIN image \union {q} |-> IF x = q THEN image[p] ELSE image[x]]
        /\ given' = [given EXCEPT ![q] = @ + 1]
  BY DEF Fork
<1>3. DOMAIN image = DOMAIN parent /\ \A x \in DOMAIN parent : image[x] \in Nat
  BY DEF ProcTyped
<1>4. /\ DOMAIN parent' = DOMAIN parent \union {q} /\ parent'[q] = p
      /\ \A x \in DOMAIN parent : parent'[x] = parent[x] /\ image'[x] = image[x]
      /\ image'[q] = image[p] /\ DOMAIN image' = DOMAIN parent'
      /\ image' = [x \in DOMAIN parent' |-> image'[x]]
      /\ parent' = [x \in DOMAIN parent' |-> parent'[x]]
  BY <1>2, <1>3
<1>5. image' \in [DOMAIN parent' -> Nat]
  BY <1>1, <1>3, <1>4
<1>6. given' = [given EXCEPT ![q] = given[q] + 1] /\ given' \in [Pids -> Nat]
  BY <1>2 DEF ProcTyped
<1>7. ProcTyped'
  BY <1>1, <1>2, <1>4, <1>5, <1>6 DEF ProcTyped
<1> QED
  BY <1>1, <1>2, <1>4, <1>6, <1>7

LEMMA ExitIs ==
    ASSUME ProcTyped, NEW p \in Pids, Exit(p)
    PROVE  /\ p \in DOMAIN parent /\ p # 1 /\ image[p] # Zombie
           /\ DOMAIN parent' = DOMAIN parent
           /\ \A x \in DOMAIN parent : parent'[x] = IF parent[x] = p THEN 1 ELSE parent[x]
           /\ \A x \in DOMAIN parent : image'[x] = IF x = p THEN Zombie ELSE image[x]
           /\ ProcTyped'
           /\ steady' = {e \in steady : p # execs[e].pid /\ p \notin Ancestors(execs[e].pid)}
           /\ UNCHANGED <<given, execs, ring, dropped, col, closed, store, failures, taken, faults>>
<1>1. /\ p \in DOMAIN parent /\ p # 1 /\ image[p] # Zombie
      /\ image' = [image EXCEPT ![p] = Zombie]
      /\ parent' = [x \in DOMAIN parent |-> IF parent[x] = p THEN 1 ELSE parent[x]]
      /\ steady' = {e \in steady : p # execs[e].pid /\ p \notin Ancestors(execs[e].pid)}
      /\ UNCHANGED <<given, execs, ring, dropped, col, closed, store, failures, taken, faults>>
  BY DEF Exit, Alive, InProc
<1>2. image' \in [DOMAIN parent -> Nat]
      /\ \A x \in DOMAIN parent : image'[x] = IF x = p THEN Zombie ELSE image[x]
  BY <1>1 DEF ProcTyped, Zombie
<1>3. p # 0
  BY PidsAre
<1>4. /\ DOMAIN parent' = DOMAIN parent
      /\ \A x \in DOMAIN parent : parent'[x] = IF parent[x] = p THEN 1 ELSE parent[x]
      /\ parent' = [x \in DOMAIN parent' |-> parent'[x]]
  BY <1>1
<1>5. parent'[1] = 0 /\ \A x \in DOMAIN parent \ {1} : parent'[x] \in DOMAIN parent
  BY <1>3, <1>4 DEF ProcTyped
<1>6. ProcTyped'
  BY <1>1, <1>2, <1>4, <1>5 DEF ProcTyped
<1> QED
  BY <1>1, <1>2, <1>4, <1>6

LEMMA ReapIs ==
    ASSUME ProcTyped, Tree, NEW p \in Pids, Reap(p)
    PROVE  /\ p \in DOMAIN parent /\ p # 1 /\ image[p] = Zombie
           /\ \A x \in DOMAIN parent : parent[x] # p
           /\ DOMAIN parent' = DOMAIN parent \ {p}
           /\ \A x \in DOMAIN parent' : parent'[x] = parent[x] /\ image'[x] = image[x]
           /\ ProcTyped'
           /\ UNCHANGED <<given, execs, ring, dropped, col, closed, store, failures, taken, steady, faults>>
<1>1. /\ p \in DOMAIN parent /\ image[p] = Zombie
      /\ parent' = [x \in DOMAIN parent \ {p} |-> parent[x]]
      /\ image' = [x \in DOMAIN image \ {p} |-> image[x]]
      /\ UNCHANGED <<given, execs, ring, dropped, col, closed, store, failures, taken, steady, faults>>
  BY DEF Reap, Alive, InProc
<1>2. p # 1
  BY <1>1 DEF Tree
<1>3. \A x \in DOMAIN parent : parent[x] # p
  BY <1>1, PidsAre DEF Tree, ProcTyped
<1>4. /\ DOMAIN parent' = DOMAIN parent \ {p} /\ DOMAIN image' = DOMAIN parent'
      /\ \A x \in DOMAIN parent' : parent'[x] = parent[x] /\ image'[x] = image[x]
      /\ parent' = [x \in DOMAIN parent' |-> parent'[x]]
      /\ image' = [x \in DOMAIN parent' |-> image'[x]]
  BY <1>1 DEF ProcTyped
<1>5. \A x \in DOMAIN parent' : image'[x] \in Nat
  BY <1>4 DEF ProcTyped
<1>6. ProcTyped'
  BY <1>1, <1>2, <1>3, <1>4, <1>5 DEF ProcTyped
<1> QED
  BY <1>1, <1>2, <1>3, <1>4, <1>6

(* An exec is reserved in the ring, dropped or not seen.                   *)
LEMMA ExecIs ==
    ASSUME Typed, NEW p \in Pids, Exec(p)
    PROVE  /\ p \in DOMAIN parent /\ image[p] # Zombie
           /\ Len(execs) + 1 > 0
           /\ Execs' = Execs \union {Len(execs) + 1} /\ Len(execs) + 1 \notin Execs
           /\ image' = [image EXCEPT ![p] = Len(execs) + 1]
           /\ execs'[Len(execs) + 1] = [pid |-> p, inTree |-> Agent \in Ancestors(p)]
           /\ \A e \in Execs : execs'[e] = execs[e]
           /\ execs' \in Seq([pid : Pids, inTree : BOOLEAN])
           /\ ring' = ring \/ ring' = Append(ring, Len(execs) + 1)
           /\ dropped' \subseteq Execs'
           /\ steady' = {e \in steady : execs[e].pid # p} \union (IF InReach(p) THEN {Len(execs) + 1} ELSE {})
           /\ ProcTyped'
           /\ UNCHANGED <<parent, given, col, closed, store, failures, taken, faults>>
<1> DEFINE n == Len(execs) + 1
           new == [pid |-> p, inTree |-> Agent \in Ancestors(p)]
<1>1. /\ p \in DOMAIN parent /\ image[p] # Zombie
      /\ image' = [image EXCEPT ![p] = n] /\ execs' = Append(execs, new)
      /\ ring' = ring \/ ring' = Append(ring, n)
      /\ dropped' = dropped \/ dropped' = dropped \union {n}
      /\ steady' = {e \in steady : execs[e].pid # p} \union (IF InReach(p) THEN {n} ELSE {})
      /\ UNCHANGED <<parent, given, col, closed, store, failures, taken, faults>>
  BY DEF Exec, Alive, InProc
<1>2. new \in [pid : Pids, inTree : BOOLEAN] /\ execs \in Seq([pid : Pids, inTree : BOOLEAN])
  BY DEF Typed
<1>3. /\ n \in Nat /\ n > 0 /\ Len(execs) \in Nat
      /\ execs' \in Seq([pid : Pids, inTree : BOOLEAN]) /\ Len(execs') = n
      /\ execs'[n] = new /\ \A e \in 1..Len(execs) : execs'[e] = execs[e]
  <2> HIDE DEF new
  <2> QED
    BY <1>1, <1>2
<1>4. Execs' = Execs \union {n} /\ n \notin Execs
  BY <1>3 DEF Execs
<1>5. image' \in [DOMAIN parent -> Nat]
  BY <1>1, <1>3 DEF Typed, ProcTyped
<1>6. ProcTyped'
  BY <1>1, <1>5 DEF Typed, ProcTyped
<1>7. dropped' \subseteq Execs'
  BY <1>1, <1>4 DEF Typed
<1> QED
  BY <1>1, <1>3, <1>4, <1>6, <1>7 DEF Execs

---------------------------------------------------------------------------
(* Type correctness. *)

LEMMA ExecPid ==
    ASSUME Typed, NEW e \in Execs
    PROVE  execs[e].pid \in Pids /\ e \in Nat /\ e > 0 /\ e < Len(execs) + 1 /\ Len(execs) \in Nat
<1> DEFINE R == [pid : Pids, inTree : BOOLEAN]
<1>1. execs \in Seq(R)
  BY DEF Typed
<1>2. \A r \in R : r.pid \in Pids
  OBVIOUS
<1> HIDE DEF R
<1>3. Len(execs) \in Nat /\ e \in 1..Len(execs)
  BY <1>1 DEF Execs
<1>4. execs[e] \in R
  BY <1>1, <1>3
<1> QED
  BY <1>2, <1>3, <1>4

(* What the loop of the collector does to the ring and its memory.         *)
LEMMA TakeIs ==
    ASSUME Typed, Take
    PROVE  /\ col.at = "waiting" /\ 1 \in DOMAIN ring /\ ring[1] \in Execs
           /\ ring' \in Seq(Execs) /\ Len(ring') = Len(ring) - 1
           /\ \A i \in DOMAIN ring' : i + 1 \in DOMAIN ring /\ ring'[i] = ring[i + 1]
           /\ \/ execs[ring[1]].pid = Agent /\ taken' = taken \union {ring[1]} /\ UNCHANGED col
              \/ /\ execs[ring[1]].pid # Agent /\ UNCHANGED taken
                 /\ col' = [Waiting EXCEPT !.at = "walk", !.exec = ring[1], !.current = execs[ring[1]].pid]
           /\ UNCHANGED <<System, execs, dropped, closed, store, failures, steady, faults>>
<1>1. ring \in Seq(Execs) /\ ring # <<>> /\ ring' = Tail(ring) /\ Head(ring) = ring[1]
  BY DEF Take, Typed
<1>2. /\ 1 \in DOMAIN ring /\ ring[1] \in Execs
      /\ ring' \in Seq(Execs) /\ Len(ring') = Len(ring) - 1
      /\ \A i \in DOMAIN ring' : i + 1 \in DOMAIN ring /\ ring'[i] = ring[i + 1]
  BY <1>1
<1> QED
  BY <1>1, <1>2 DEF Take

LEMMA WalkIs ==
    ASSUME Typed, Walk
    PROVE  /\ col.at = "walk" /\ col.exec \in Execs /\ col.current \in Pids
           /\ \/ col' = [col EXCEPT !.at = "argv"]
                 /\ (col.current \in DOMAIN parent => parent[col.current] = 0 \/ Met(parent[col.current]))
              \/ /\ col.current \in DOMAIN parent /\ col.current # 1
                 /\ parent[col.current] \in DOMAIN parent
                 /\ \E at \in {"walk", "argv"} :
                      /\ col' = [col EXCEPT !.current = parent[col.current],
                                            !.chain = Append(col.chain, parent[col.current]), !.at = at]
                      /\ at = "argv" => parent[col.current] = 1 \/ Len(col.chain) + 1 = Depth
           /\ UNCHANGED <<Kernel, closed, store, failures, taken, faults>>
<1> DEFINE q == PPID(col.current)
           at == IF q = 1 \/ Len(col.chain) + 1 = Depth THEN "argv" ELSE "walk"
<1>1. /\ col.at = "walk"
      /\ \/ (q = 0 \/ Met(q)) /\ col' = [col EXCEPT !.at = "argv"]
         \/ /\ q # 0 /\ ~ Met(q)
            /\ col' = [col EXCEPT !.current = q, !.chain = Append(col.chain, q), !.at = at]
      /\ UNCHANGED <<Kernel, closed, store, failures, taken, faults>>
  BY DEF Walk
<1>2. col.exec \in Execs /\ col.current \in Pids
  BY <1>1 DEF Typed, ColTyped, InHand
<1>3. q = IF col.current \in DOMAIN parent THEN parent[col.current] ELSE 0
  BY DEF PPID, InProc
<1>4. q # 0 => col.current \in DOMAIN parent /\ col.current # 1 /\ q \in DOMAIN parent
  BY <1>3 DEF Typed, ProcTyped
<1>5. CASE (q = 0 \/ Met(q)) /\ col' = [col EXCEPT !.at = "argv"]
  BY <1>1, <1>2, <1>3, <1>5
<1>6. CASE q # 0 /\ col' = [col EXCEPT !.current = q, !.chain = Append(col.chain, q), !.at = at]
  <2>1. q = parent[col.current] /\ at \in {"walk", "argv"}
        /\ (at = "argv" => q = 1 \/ Len(col.chain) + 1 = Depth)
    BY <1>3, <1>6
  <2> HIDE DEF at
  <2> QED
    BY <1>1, <1>2, <1>4, <1>6, <2>1
<1> QED
  BY <1>1, <1>5, <1>6

(* The other steps of the collector keep the exec in hand or drop it.      *)
LEMMA ReadArgvIs ==
    ASSUME Typed, ReadArgv
    PROVE  /\ col.at = "argv" /\ col.exec \in Execs
           /\ \/ /\ HasAgent(col.chain) /\ UNCHANGED taken
                 /\ \E c \in Nat :
                      /\ col' = [col EXCEPT !.at = "write", !.argv = c]
                      /\ execs[col.exec].pid \in DOMAIN parent => c = image[execs[col.exec].pid]
              \/ /\ ~ HasAgent(col.chain) /\ col' = Waiting
                 /\ taken' = taken \union {col.exec}
           /\ UNCHANGED <<Kernel, closed, store, failures, faults>>
<1> DEFINE p == execs[col.exec].pid
           c == IF p \in DOMAIN parent THEN image[p] ELSE 0
<1>1. /\ col.at = "argv"
      /\ \/ HasAgent(col.chain) /\ UNCHANGED taken /\ col' = [col EXCEPT !.at = "write", !.argv = c]
         \/ ~ HasAgent(col.chain) /\ col' = Waiting /\ taken' = taken \union {col.exec}
      /\ UNCHANGED <<Kernel, closed, store, failures, faults>>
  BY DEF ReadArgv, InTree, HasAgent, InProc
<1>2. col.exec \in Execs
  BY <1>1 DEF Typed, ColTyped, InHand
<1>3. c \in Nat /\ (p \in DOMAIN parent => c = image[p])
  BY DEF Typed, ProcTyped
<1> HIDE DEF c
<1> QED
  BY <1>1, <1>2, <1>3

LEMMA WriteIs ==
    ASSUME Typed, Write
    PROVE  /\ col.at = "write" /\ col.exec \in Execs
           /\ \E r \in [exec : Execs, pid : Pids, ancestry : Seq(Pids), argv : Nat] :
                r.exec = col.exec /\ r.argv = col.argv /\ store' = store \union {r}
           /\ taken' = taken \union {col.exec} /\ col' = Waiting
           /\ UNCHANGED <<Kernel, closed, failures, faults>>
<1> DEFINE r == [exec |-> col.exec, pid |-> execs[col.exec].pid, ancestry |-> col.chain, argv |-> col.argv]
<1>1. col.at = "write" /\ store' = store \union {r}
      /\ taken' = taken \union {col.exec} /\ col' = Waiting
      /\ UNCHANGED <<Kernel, closed, failures, faults>>
  BY DEF Write
<1>2. col.exec \in Execs /\ execs[col.exec].pid \in Pids
  <2>1. col.exec \in Execs
    BY <1>1 DEF Typed, ColTyped, InHand
  <2> QED
    BY <2>1, ExecPid
<1>3. r \in [exec : Execs, pid : Pids, ancestry : Seq(Pids), argv : Nat]
  BY <1>2 DEF Typed, ColTyped
<1> QED
  BY <1>1, <1>2, <1>3

(* The memory of a collector with no exec in hand.                         *)
LEMMA WaitingTyped ==
    ASSUME NEW at \in {"waiting", "over"}
    PROVE  /\ Waiting \in [at : Stages, exec : Nat, current : Nat, chain : Seq(Pids), argv : Nat]
           /\ [Waiting EXCEPT !.at = at] \in [at : Stages, exec : Nat, current : Nat, chain : Seq(Pids), argv : Nat]
           /\ [Waiting EXCEPT !.at = at].at = at /\ [Waiting EXCEPT !.at = "waiting"] = Waiting
<1>1. at \in Stages /\ "waiting" \in Stages /\ <<>> \in Seq(Pids)
  BY DEF Stages
<1>2. Waiting \in [at : Stages, exec : Nat, current : Nat, chain : Seq(Pids), argv : Nat]
      /\ Waiting.at = "waiting"
  BY <1>1 DEF Waiting
<1>3. [Waiting EXCEPT !.at = "waiting"] = Waiting
  BY DEF Waiting
<1> QED
  BY <1>1, <1>2, <1>3

(* The steps that leave no exec in hand, with nothing said of one.         *)
LEMMA IdleIs ==
    ASSUME Typed, Attach \/ ReadFails \/ WriteFails \/ Stop \/ Leave
    PROVE  /\ \/ col'.at \in {"waiting", "over"} /\ col' = [Waiting EXCEPT !.at = col'.at]
              \/ Stop /\ UNCHANGED col
           /\ UNCHANGED <<Kernel, store, taken>>
           /\ closed' \in BOOLEAN /\ failures' \subseteq {"ebpf-attach"} /\ faults' \in Nat
<1>1. ASSUME GivesUp
      PROVE  /\ col' = [Waiting EXCEPT !.at = "over"] /\ failures' \subseteq {"ebpf-attach"}
             /\ faults' \in Nat
  <2>1. faults \in Nat /\ faults' = faults + 1 /\ failures \subseteq {"ebpf-attach"}
        /\ failures' \in {failures, failures \union {"ebpf-attach"}}
        /\ col' = [Waiting EXCEPT !.at = "over"]
    BY <1>1 DEF GivesUp, Typed
  <2> QED
    BY <2>1
<1>2. \/ /\ \/ col' = [Waiting EXCEPT !.at = "over"] \/ col' = Waiting
            \/ Stop /\ UNCHANGED col
         /\ closed' \in BOOLEAN /\ failures' \subseteq {"ebpf-attach"} /\ faults' \in Nat
         /\ UNCHANGED <<Kernel, store, taken>>
  BY <1>1 DEF Attach, ReadFails, WriteFails, Stop, Leave, Typed
<1> QED
  BY <1>2, WaitingTyped

LEMMA TypedKernel ==
    ASSUME Typed, Tree, NEW p \in Pids, Fork(p) \/ Exec(p) \/ Exit(p) \/ Reap(p)
    PROVE  Typed'
<1>1. CASE Fork(p) \/ Reap(p)
  <2>1. ProcTyped' /\ UNCHANGED <<execs, ring, dropped, col, closed, store, failures, taken, steady, faults>>
    BY <1>1, ForkIs, ReapIs DEF Typed
  <2> QED
    BY <2>1 DEF Typed, ColTyped, Execs
<1>2. CASE Exit(p)
  <2>1. /\ ProcTyped' /\ steady' \subseteq steady
        /\ UNCHANGED <<execs, ring, dropped, col, closed, store, failures, taken, faults>>
    BY <1>2, ExitIs DEF Typed
  <2> QED
    BY <2>1 DEF Typed, ColTyped, Execs
<1>3. CASE Exec(p)
  <2>1. /\ Execs' = Execs \union {Len(execs) + 1} /\ ProcTyped'
        /\ execs' \in Seq([pid : Pids, inTree : BOOLEAN])
        /\ ring' = ring \/ ring' = Append(ring, Len(execs) + 1)
        /\ dropped' \subseteq Execs'
        /\ steady' \subseteq steady \union {Len(execs) + 1}
        /\ UNCHANGED <<col, closed, store, failures, taken, faults>>
    BY <1>3, ExecIs
  <2> DEFINE Before2 == Execs
             After2 == Execs'
  <2>2. ring' \in Seq(After2)
    <3>1. ring \in Seq(Before2) /\ Before2 \subseteq After2 /\ Len(execs) + 1 \in After2
      BY <2>1 DEF Typed
    <3> HIDE DEF Before2, After2
    <3>2. ring \in Seq(After2)
      BY <3>1
    <3> QED
      BY <2>1, <3>1, <3>2
  <2>3. store \subseteq [exec : Execs', pid : Pids, ancestry : Seq(Pids), argv : Nat]
    BY <2>1 DEF Typed
  <2>4. ColTyped'
    BY <2>1 DEF Typed, ColTyped
  <2>5. taken' \subseteq Execs' /\ steady' \subseteq Execs'
    BY <2>1 DEF Typed
  <2> QED
    BY <2>1, <2>2, <2>3, <2>4, <2>5 DEF Typed
<1> QED
  BY <1>1, <1>2, <1>3

LEMMA TypedCollect ==
    ASSUME Typed, Attach \/ Collect \/ Stop
    PROVE  Typed'
<1>1. CASE Attach \/ ReadFails \/ WriteFails \/ Stop \/ Leave
  <2>1. /\ \/ col'.at \in {"waiting", "over"} /\ col' = [Waiting EXCEPT !.at = col'.at]
           \/ UNCHANGED col
        /\ UNCHANGED <<parent, image, given, execs, ring, dropped, steady, store, taken>>
        /\ closed' \in BOOLEAN /\ failures' \subseteq {"ebpf-attach"} /\ faults' \in Nat
    BY <1>1, IdleIs DEF Kernel
  <2>2. ColTyped'
    <3>1. CASE UNCHANGED col
      BY <2>1, <3>1 DEF Typed, ColTyped, Execs
    <3>2. CASE col'.at \in {"waiting", "over"} /\ col' = [Waiting EXCEPT !.at = col'.at]
      BY <3>2, WaitingTyped DEF ColTyped, InHand
    <3> QED
      BY <2>1, <3>1, <3>2
  <2> QED
    BY <2>1, <2>2 DEF Typed, ProcTyped, Execs
<1>2. CASE Take
  <2>1. /\ ring[1] \in Execs /\ ring' \in Seq(Execs)
        /\ \/ taken' = taken \union {ring[1]} /\ UNCHANGED col
           \/ /\ UNCHANGED taken
              /\ col' = [Waiting EXCEPT !.at = "walk", !.exec = ring[1], !.current = execs[ring[1]].pid]
        /\ UNCHANGED <<parent, image, given, execs, dropped, closed, store, failures, steady, faults>>
    BY <1>2, TakeIs DEF System
  <2>2. execs[ring[1]].pid \in Pids /\ ring[1] \in Nat /\ "walk" \in Stages
    BY <2>1, ExecPid DEF Stages, InHand
  <2>3. ColTyped'
    <3>1. CASE UNCHANGED col
      BY <2>1, <3>1 DEF Typed, ColTyped, Execs
    <3>2. CASE col' = [Waiting EXCEPT !.at = "walk", !.exec = ring[1], !.current = execs[ring[1]].pid]
      <4>1. /\ col' \in [at : Stages, exec : Nat, current : Nat, chain : Seq(Pids), argv : Nat]
            /\ col'.exec = ring[1] /\ col'.current = execs[ring[1]].pid
        BY <2>2, <3>2, WaitingTyped, PidsAre
      <4> QED
        BY <2>1, <2>2, <4>1 DEF ColTyped, Execs
    <3> QED
      BY <2>1, <3>1, <3>2
  <2> QED
    BY <2>1, <2>3 DEF Typed, ProcTyped, Execs
<1>3. CASE Walk
  <2>1. /\ col.exec \in Execs /\ col.at = "walk" /\ col.current \in Pids
        /\ UNCHANGED <<parent, image, given, execs, ring, dropped, steady, closed, store, failures, taken, faults>>
        /\ \/ col' = [col EXCEPT !.at = "argv"]
           \/ /\ parent[col.current] \in DOMAIN parent
              /\ \E at \in {"walk", "argv"} :
                   col' = [col EXCEPT !.current = parent[col.current],
                                      !.chain = Append(col.chain, parent[col.current]), !.at = at]
    BY <1>3, WalkIs DEF Kernel
  <2>2. ColTyped'
    <3>1. /\ col \in [at : Stages, exec : Nat, current : Nat, chain : Seq(Pids), argv : Nat]
          /\ "walk" \in Stages /\ "argv" \in Stages
      BY DEF Typed, ColTyped, Stages, InHand
    <3>2. CASE col' = [col EXCEPT !.at = "argv"]
      BY <2>1, <3>1, <3>2 DEF ColTyped, Execs
    <3>3. ASSUME NEW at \in {"walk", "argv"}, NEW q \in Pids,
                 col' = [col EXCEPT !.current = q, !.chain = Append(col.chain, q), !.at = at]
          PROVE  ColTyped'
      <4>1. Append(col.chain, q) \in Seq(Pids) /\ q \in Nat /\ at \in Stages
        BY <3>1, PidsAre
      <4>2. col' \in [at : Stages, exec : Nat, current : Nat, chain : Seq(Pids), argv : Nat]
            /\ col'.exec = col.exec /\ col'.current = q
        BY <3>1, <3>3, <4>1
      <4> QED
        BY <2>1, <4>2 DEF ColTyped, Execs
    <3>4. parent[col.current] \in DOMAIN parent => parent[col.current] \in Pids
      BY DEF Typed, ProcTyped
    <3> QED
      BY <2>1, <3>2, <3>3, <3>4
  <2> QED
    BY <2>1, <2>2 DEF Typed, ProcTyped, Execs
<1>4. CASE ReadArgv
  <2>1. /\ col.exec \in Execs
        /\ \/ UNCHANGED taken /\ \E c \in Nat : col' = [col EXCEPT !.at = "write", !.argv = c]
           \/ col' = Waiting /\ taken' = taken \union {col.exec}
        /\ UNCHANGED <<parent, image, given, execs, ring, dropped, steady, closed, store, failures, faults>>
    BY <1>4, ReadArgvIs DEF Kernel
  <2>2. ColTyped'
    <3>1. CASE col' = Waiting
      BY <3>1, WaitingTyped DEF ColTyped, InHand
    <3>2. ASSUME NEW c \in Nat, col' = [col EXCEPT !.at = "write", !.argv = c]
          PROVE  ColTyped'
      <4>1. /\ col \in [at : Stages, exec : Nat, current : Nat, chain : Seq(Pids), argv : Nat]
            /\ "write" \in Stages
        BY DEF Typed, ColTyped, Stages, InHand
      <4> QED
        BY <2>1, <3>2, <4>1 DEF ColTyped, Execs
    <3> QED
      BY <2>1, <3>1, <3>2
  <2> QED
    BY <2>1, <2>2 DEF Typed, ProcTyped, Execs
<1>5. CASE Write
  <2>1. /\ col.exec \in Execs /\ taken' = taken \union {col.exec} /\ col' = Waiting
        /\ \E r \in [exec : Execs, pid : Pids, ancestry : Seq(Pids), argv : Nat] : store' = store \union {r}
        /\ UNCHANGED <<parent, image, given, execs, ring, dropped, steady, closed, failures, faults>>
    BY <1>5, WriteIs DEF Kernel
  <2>2. ColTyped'
    BY <2>1, WaitingTyped DEF ColTyped, InHand
  <2> QED
    BY <2>1, <2>2 DEF Typed, ProcTyped, Execs
<1> QED
  BY <1>1, <1>2, <1>3, <1>4, <1>5 DEF Collect

LEMMA TypedInit == Init => Typed
<1> SUFFICES ASSUME Init PROVE Typed
  OBVIOUS
<1>1. /\ parent = [p \in {1, Agent} |-> IF p = 1 THEN 0 ELSE 1]
      /\ image = [p \in {1, Agent} |-> Before]
      /\ given = [p \in Pids |-> IF p \in {1, Agent} THEN 1 ELSE 0]
      /\ execs = <<>> /\ ring = <<>> /\ dropped = {} /\ taken = {} /\ steady = {} /\ store = {}
      /\ failures = {} /\ closed = FALSE /\ faults = 0
      /\ col = [Waiting EXCEPT !.at = "off"]
  BY DEF Init
<1>2. Before \in Nat
  BY CollectorConstants DEF Before
<1>3. DOMAIN parent = {1, Agent} /\ parent[1] = 0 /\ parent[Agent] = 1
  BY <1>1, PidsAre
<1>4. ProcTyped
  BY <1>1, <1>2, <1>3, PidsAre DEF ProcTyped
<1>5. ColTyped
  <2>1. "off" \in Stages /\ <<>> \in Seq(Pids)
    BY DEF Stages
  <2>2. Waiting \in [at : Stages, exec : Nat, current : Nat, chain : Seq(Pids), argv : Nat]
    BY WaitingTyped
  <2>3. col \in [at : Stages, exec : Nat, current : Nat, chain : Seq(Pids), argv : Nat] /\ col.at = "off"
    BY <1>1, <2>1, <2>2
  <2> QED
    BY <2>3 DEF ColTyped, InHand
<1>6. execs \in Seq([pid : Pids, inTree : BOOLEAN]) /\ ring \in Seq(Execs)
  <2> DEFINE R == [pid : Pids, inTree : BOOLEAN]
             E == Execs
  <2>1. execs = <<>> /\ ring = <<>>
    BY <1>1
  <2> HIDE DEF R, E
  <2>2. execs \in Seq(R) /\ ring \in Seq(E)
    BY <2>1
  <2> QED
    BY <2>2 DEF R, E
<1>7. /\ dropped \subseteq Execs /\ taken \subseteq Execs /\ steady \subseteq Execs
      /\ store \subseteq [exec : Execs, pid : Pids, ancestry : Seq(Pids), argv : Nat]
      /\ failures \subseteq {"ebpf-attach"} /\ closed \in BOOLEAN /\ faults \in Nat
  BY <1>1
<1> QED
  BY <1>4, <1>5, <1>6, <1>7 DEF Typed

---------------------------------------------------------------------------
(* The tree while processes come and go. *)

(* Ancestors are only lost, to init, as long as a process is there.        *)
LEMMA AncestorsShrink ==
    ASSUME ProcTyped, Tree, NEW p \in Pids, Fork(p) \/ Exit(p) \/ Reap(p),
           NEW x \in DOMAIN parent, x \in DOMAIN parent', NEW a, a \in Ancestors(x)', a # 1
    PROVE  a \in Ancestors(x)
<1>1. ASSUME NEW T \in SUBSET DOMAIN parent', x = 1 \/ parent'[x] \in T,
             \A y \in T \ {1} : parent'[y] \in T
      PROVE  a \in T
  BY <1>1 DEF Ancestors, Climbs
<1>2. a \in DOMAIN parent'
  BY DEF Ancestors
<1>3. ASSUME NEW S \in SUBSET DOMAIN parent, x = 1 \/ parent[x] \in S,
             \A y \in S \ {1} : parent[y] \in S
      PROVE  a \in S
  <2>1. CASE Fork(p)
    <3>1. S \in SUBSET DOMAIN parent' /\ \A y \in DOMAIN parent : parent'[y] = parent[y]
      BY <2>1, ForkIs
    <3> QED
      BY <1>1, <1>3, <3>1
  <2>2. CASE Exit(p)
    <3> DEFINE T == S \union {1}
    <3>1. /\ DOMAIN parent' = DOMAIN parent /\ 1 \in DOMAIN parent
          /\ \A y \in DOMAIN parent : parent'[y] = IF parent[y] = p THEN 1 ELSE parent[y]
      BY <2>2, ExitIs DEF ProcTyped
    <3>2. T \in SUBSET DOMAIN parent' /\ (x = 1 \/ parent'[x] \in T)
      BY <1>3, <3>1
    <3>3. \A y \in T \ {1} : parent'[y] \in T
      BY <1>3, <3>1
    <3> HIDE DEF T
    <3>4. a \in T
      BY <1>1, <3>2, <3>3
    <3> QED
      BY <3>4 DEF T
  <2>3. CASE Reap(p)
    <3> DEFINE T == S \ {p}
    <3>1. /\ DOMAIN parent' = DOMAIN parent \ {p}
          /\ \A y \in DOMAIN parent : parent[y] # p
          /\ \A y \in DOMAIN parent' : parent'[y] = parent[y]
      BY <2>3, ReapIs
    <3>2. T \in SUBSET DOMAIN parent' /\ (x = 1 \/ parent'[x] \in T)
      BY <1>3, <3>1
    <3>3. \A y \in T \ {1} : parent'[y] \in T
      BY <1>3, <3>1
    <3> HIDE DEF T
    <3>4. a \in T
      BY <1>1, <3>2, <3>3
    <3> QED
      BY <3>4 DEF T
  <2> QED
    BY <2>1, <2>2, <2>3
<1>4. a \in DOMAIN parent
  <2>1. x = 1 \/ parent[x] \in DOMAIN parent
    BY DEF ProcTyped
  <2>2. \A y \in DOMAIN parent \ {1} : parent[y] \in DOMAIN parent
    BY DEF ProcTyped
  <2> QED
    BY <1>3, <2>1, <2>2
<1> QED
  BY <1>3, <1>4 DEF Ancestors, Climbs

(* A new process is below those there were.                                *)
LEMMA NewBelow ==
    ASSUME ProcTyped, NEW p \in DOMAIN parent, NEW q, q \notin DOMAIN parent, q # 1,
           DOMAIN parent' = DOMAIN parent \union {q}, parent'[q] = p,
           \A x \in DOMAIN parent : parent'[x] = parent[x]
    PROVE  \A a \in Ancestors(q)' : a \in DOMAIN parent
<1>1. DOMAIN parent \in SUBSET DOMAIN parent' /\ parent'[q] \in DOMAIN parent
  OBVIOUS
<1>2. \A y \in DOMAIN parent \ {1} : parent'[y] \in DOMAIN parent
  BY DEF ProcTyped
<1> QED
  BY <1>1, <1>2 DEF Ancestors, Climbs

LEMMA TreeStep ==
    ASSUME Typed, Tree, NEW p \in Pids, Fork(p) \/ Exec(p) \/ Exit(p) \/ Reap(p)
    PROVE  Tree'
<1>1. ProcTyped /\ 1 \notin Ancestors(1) /\ 0 \notin DOMAIN parent
  <2>1. {} \in SUBSET DOMAIN parent
    OBVIOUS
  <2> QED
    BY <2>1, PidsAre DEF Typed, ProcTyped, Ancestors, Climbs
<1>2. CASE Exec(p)
  <2>1. UNCHANGED parent /\ image' = [image EXCEPT ![p] = Len(execs) + 1] /\ Len(execs) + 1 > 0
    BY <1>2, ExecIs
  <2>2. \A x : Ancestors(x)' = Ancestors(x)
    BY <2>1 DEF Ancestors, Climbs
  <2>3. \A x \in DOMAIN parent : image[x] # 0 => image'[x] # 0
    BY <1>1, <2>1 DEF ProcTyped
  <2> QED
    BY <1>1, <2>1, <2>2, <2>3 DEF Tree, Zombie, ProcTyped
<1>3. ASSUME Fork(p) \/ Exit(p) \/ Reap(p), NEW x \in DOMAIN parent, x \in DOMAIN parent'
      PROVE  x \notin Ancestors(x)'
  <2>1. CASE x # 1
    BY <1>1, <1>3, <2>1, AncestorsShrink DEF Tree
  <2>2. CASE x = 1
    <3>1. {} \in SUBSET DOMAIN parent'
      OBVIOUS
    <3> QED
      BY <2>2, <3>1 DEF Ancestors, Climbs
  <2> QED
    BY <2>1, <2>2
<1>4. CASE Fork(p)
  <2>1. PICK q \in Pids \ DOMAIN parent :
          /\ DOMAIN parent' = DOMAIN parent \union {q} /\ parent'[q] = p
          /\ \A x \in DOMAIN parent : parent'[x] = parent[x] /\ image'[x] = image[x]
          /\ image'[q] = image[p]
    BY <1>1, <1>4, ForkIs
  <2>2. p \in DOMAIN parent /\ image[p] # Zombie
    BY <1>1, <1>4, ForkIs
  <2>3. q # 1
    BY <1>1, <2>1 DEF ProcTyped
  <2>4. q \notin Ancestors(q)'
    BY <1>1, <2>1, <2>2, <2>3, NewBelow
  <2>5. \A x \in DOMAIN parent' : x \notin Ancestors(x)'
    BY <1>3, <1>4, <2>1, <2>4
  <2>6. image'[1] # Zombie /\ \A x \in DOMAIN parent' \ {1} : image'[parent'[x]] # Zombie
    BY <1>1, <2>1, <2>2 DEF Tree, ProcTyped
  <2> QED
    BY <2>5, <2>6 DEF Tree, Zombie
<1>5. CASE Exit(p)
  <2>1. /\ p # 1 /\ DOMAIN parent' = DOMAIN parent
        /\ \A x \in DOMAIN parent : parent'[x] = IF parent[x] = p THEN 1 ELSE parent[x]
        /\ \A x \in DOMAIN parent : image'[x] = IF x = p THEN Zombie ELSE image[x]
    BY <1>1, <1>5, ExitIs
  <2>2. \A x \in DOMAIN parent' : x \notin Ancestors(x)'
    BY <1>3, <1>5, <2>1
  <2>3. image'[1] # Zombie /\ \A x \in DOMAIN parent' \ {1} : image'[parent'[x]] # Zombie
    BY <1>1, <2>1 DEF Tree, ProcTyped
  <2> QED
    BY <2>2, <2>3 DEF Tree, Zombie
<1>6. CASE Reap(p)
  <2>1. /\ p # 1 /\ DOMAIN parent' = DOMAIN parent \ {p}
        /\ \A x \in DOMAIN parent : parent[x] # p
        /\ \A x \in DOMAIN parent' : parent'[x] = parent[x] /\ image'[x] = image[x]
    BY <1>1, <1>6, ReapIs
  <2>2. \A x \in DOMAIN parent' : x \notin Ancestors(x)'
    BY <1>3, <1>6, <2>1
  <2>3. image'[1] # Zombie /\ \A x \in DOMAIN parent' \ {1} : image'[parent'[x]] # Zombie
    BY <1>1, <2>1 DEF Tree, ProcTyped
  <2> QED
    BY <2>2, <2>3 DEF Tree, Zombie
<1> QED
  BY <1>2, <1>4, <1>5, <1>6

LEMMA TreeInit == Init => Tree
<1> SUFFICES ASSUME Init PROVE Tree
  OBVIOUS
<1>1. /\ DOMAIN parent = {1, Agent} /\ parent[1] = 0 /\ parent[Agent] = 1
      /\ image[1] = Before /\ Before > 0
  BY PidsAre, CollectorConstants DEF Init, Before
<1>2. {} \in SUBSET DOMAIN parent /\ {1} \in SUBSET DOMAIN parent
  BY <1>1
<1>3. 1 \notin Ancestors(1) /\ Agent \notin Ancestors(Agent)
  BY <1>1, <1>2, PidsAre DEF Ancestors, Climbs
<1> QED
  BY <1>1, <1>3 DEF Tree, Zombie

---------------------------------------------------------------------------
(* Pids that are given out once. *)

LEMMA KnownKernel ==
    ASSUME Typed, Tree, Known, NEW p \in Pids, Fork(p) \/ Exec(p) \/ Exit(p) \/ Reap(p)
    PROVE  Known' /\ \A x \in Pids : given[x] <= given'[x]
<1>1. ProcTyped /\ \A x \in Pids : given[x] \in Nat
  BY DEF Typed, ProcTyped
<1>2. CASE Fork(p)
  <2>1. PICK q \in Pids \ DOMAIN parent :
          /\ DOMAIN parent' = DOMAIN parent \union {q}
          /\ given' = [given EXCEPT ![q] = given[q] + 1]
    BY <1>1, <1>2, ForkIs
  <2>2. UNCHANGED <<execs, col>>
    BY <1>1, <1>2, ForkIs
  <2>3. given'[q] > 0 /\ \A x \in Pids : given[x] <= given'[x] /\ (x # q => given'[x] = given[x])
    BY <1>1, <2>1 DEF Typed, ProcTyped
  <2>4. \A x \in DOMAIN parent' : given'[x] > 0
    BY <1>1, <2>1, <2>3 DEF Known, ProcTyped
  <2>5. \A e \in Execs : given'[execs[e].pid] > 0
    BY <1>1, <2>3, ExecPid DEF Known
  <2>6. col.at = "walk" => given'[col.current] > 0
    BY <1>1, <2>3 DEF Known, Typed, ColTyped
  <2> QED
    BY <2>2, <2>3, <2>4, <2>5, <2>6 DEF Known, Execs
<1>3. CASE Exec(p)
  <2>1. /\ p \in DOMAIN parent /\ UNCHANGED <<parent, given, col>>
        /\ Execs' = Execs \union {Len(execs) + 1}
        /\ execs'[Len(execs) + 1] = [pid |-> p, inTree |-> Agent \in Ancestors(p)]
        /\ \A e \in Execs : execs'[e] = execs[e]
    BY <1>3, ExecIs
  <2>2. \A e \in Execs' : given[execs'[e].pid] > 0
    BY <2>1 DEF Known
  <2> QED
    BY <1>1, <2>1, <2>2 DEF Known
<1>4. CASE Exit(p) \/ Reap(p)
  <2>1. DOMAIN parent' \subseteq DOMAIN parent /\ UNCHANGED <<given, execs, col>>
    BY <1>1, <1>4, ExitIs, ReapIs
  <2> QED
    BY <1>1, <2>1 DEF Known, Execs
<1> QED
  BY <1>2, <1>3, <1>4

LEMMA KnownCollect ==
    ASSUME Typed, Known, Attach \/ Collect \/ Stop
    PROVE  Known'
<1>1. UNCHANGED <<parent, given, execs>>
  BY DEF Attach, Collect, Stop, Take, ReadFails, Walk, ReadArgv, Write, WriteFails, Leave, Kernel, System
<1>2. ASSUME col'.at = "walk"
      PROVE  given[col'.current] > 0
  <2>1. CASE Take
    <3>1. /\ ring[1] \in Execs /\ col.at = "waiting"
          /\ UNCHANGED col \/ col' = [Waiting EXCEPT !.at = "walk", !.exec = ring[1], !.current = execs[ring[1]].pid]
      BY <2>1, TakeIs
    <3>2. col'.current = execs[ring[1]].pid
      BY <1>2, <3>1 DEF Waiting
    <3> QED
      BY <3>1, <3>2 DEF Known
  <2>2. CASE Walk
    <3>1. /\ col \in [at : Stages, exec : Nat, current : Nat, chain : Seq(Pids), argv : Nat]
          /\ \/ col' = [col EXCEPT !.at = "argv"]
             \/ /\ parent[col.current] \in DOMAIN parent
                /\ \E at \in {"walk", "argv"} :
                     col' = [col EXCEPT !.current = parent[col.current],
                                        !.chain = Append(col.chain, parent[col.current]), !.at = at]
      BY <2>2, WalkIs DEF Typed, ColTyped
    <3>2. col'.current = parent[col.current] /\ parent[col.current] \in DOMAIN parent
      BY <1>2, <3>1
    <3> QED
      BY <3>2 DEF Known
  <2>3. CASE ReadArgv
    <3>1. /\ col \in [at : Stages, exec : Nat, current : Nat, chain : Seq(Pids), argv : Nat]
          /\ \/ \E c \in Nat : col' = [col EXCEPT !.at = "write", !.argv = c]
             \/ col' = Waiting
      BY <2>3, ReadArgvIs DEF Typed, ColTyped
    <3> QED
      BY <1>2, <3>1, WaitingTyped
  <2>4. CASE Attach \/ ReadFails \/ WriteFails \/ Stop \/ Leave \/ Write
    <3>1. col'.at \in {"waiting", "over"} \/ UNCHANGED col
      BY <2>4, IdleIs, WriteIs, WaitingTyped
    <3> QED
      BY <1>2, <3>1 DEF Known
  <2> QED
    BY <2>1, <2>2, <2>3, <2>4 DEF Collect
<1> QED
  BY <1>1, <1>2 DEF Known, Execs

(* Nothing comes to be below the agent that has been given out before.     *)
LEMMA BelowKept ==
    ASSUME Typed, Tree, Known, NEW p \in Pids, Fork(p) \/ Exec(p) \/ Exit(p) \/ Reap(p), Once',
           NEW x \in Pids, given[x] > 0, Below(x)'
    PROVE  Below(x)
<1>1. ProcTyped /\ Agent # 1
  BY PidsAre DEF Typed
<1>2. x \in DOMAIN parent' /\ Agent \in Ancestors(x)'
  BY DEF Below
<1>3. CASE Exec(p)
  BY <1>2, <1>3, ExecIs DEF Below, Ancestors, Climbs
<1>4. x \in DOMAIN parent
  <2>1. CASE Fork(p)
    <3>1. PICK q \in Pids \ DOMAIN parent :
            /\ DOMAIN parent' = DOMAIN parent \union {q}
            /\ given' = [given EXCEPT ![q] = given[q] + 1]
      BY <1>1, <2>1, ForkIs
    <3>2. given'[q] <= 1 /\ given'[q] = given[q] + 1 /\ given[q] \in Nat
      BY <3>1 DEF Once, Typed, ProcTyped
    <3> QED
      BY <1>2, <3>1, <3>2
  <2>2. CASE Exit(p) \/ Reap(p)
    BY <1>1, <1>2, <2>2, ExitIs, ReapIs
  <2> QED
    BY <1>2, <1>3, <2>1, <2>2 DEF Below
<1>5. CASE Fork(p) \/ Exit(p) \/ Reap(p)
  BY <1>1, <1>2, <1>4, <1>5, AncestorsShrink DEF Below
<1> QED
  BY <1>3, <1>5

LEMMA TruthfulKernel ==
    ASSUME Typed, Tree, Known, Truthful, NEW p \in Pids, Fork(p) \/ Exec(p) \/ Exit(p) \/ Reap(p)
    PROVE  Truthful'
<1> SUFFICES ASSUME Once' PROVE Truthful'
  BY DEF Truthful
<1>1. Once
  <2>1. \A x \in Pids : given[x] <= given'[x] /\ given[x] \in Nat /\ given'[x] \in Nat
    BY KnownKernel, TypedKernel DEF Typed, ProcTyped
  <2> QED
    BY <2>1 DEF Once
<1>2. /\ \A x \in Pids : Below(x) =>
            /\ \A e \in Execs : execs[e].pid = x => execs[e].inTree
            /\ col.at = "walk" /\ col.current = x => execs[col.exec].inTree
      /\ col.at = "walk" /\ col.current = Agent => execs[col.exec].inTree
      /\ col.at \in InHand /\ HasAgent(col.chain) => execs[col.exec].inTree
      /\ \A r \in store : execs[r.exec].inTree
  BY <1>1 DEF Truthful
<1>3. UNCHANGED <<col, store>> /\ \A e \in Execs : execs'[e] = execs[e]
  BY ForkIs, ExecIs, ExitIs, ReapIs DEF Typed
<1>4. col.at \in InHand => execs'[col.exec] = execs[col.exec]
  BY <1>3 DEF Typed, ColTyped
<1>5. \A r \in store : execs'[r.exec] = execs[r.exec]
  BY <1>3 DEF Typed
<1>6. ASSUME NEW x \in Pids, Below(x)'
      PROVE  /\ \A e \in Execs' : execs'[e].pid = x => execs'[e].inTree
             /\ col.at = "walk" /\ col.current = x => execs[col.exec].inTree
  <2>1. ASSUME NEW e \in Execs, execs[e].pid = x
        PROVE  execs[e].inTree
    <3>1. given[x] > 0
      BY <2>1 DEF Known
    <3> QED
      BY <1>2, <1>6, <2>1, <3>1, BelowKept
  <2>2. ASSUME col.at = "walk", col.current = x
        PROVE  execs[col.exec].inTree
    <3>1. given[x] > 0
      BY <2>2 DEF Known
    <3> QED
      BY <1>2, <1>6, <2>2, <3>1, BelowKept
  <2>3. ASSUME NEW e \in Execs', e \notin Execs, execs'[e].pid = x
        PROVE  execs'[e].inTree
    <3>1. CASE Exec(p)
      <4>1. /\ e = Len(execs) + 1 /\ UNCHANGED parent
            /\ execs'[e] = [pid |-> p, inTree |-> Agent \in Ancestors(p)]
        BY <2>3, <3>1, ExecIs
      <4>2. Agent \in Ancestors(x)
        <5>1. Agent \in Ancestors(x)'
          BY <1>6 DEF Below
        <5>2. Ancestors(x)' = Ancestors(x)
          BY <4>1 DEF Ancestors, Climbs
        <5> QED
          BY <5>1, <5>2
      <4>3. execs'[e].pid = p /\ execs'[e].inTree = (Agent \in Ancestors(p))
        BY <4>1
      <4>4. p = x
        BY <2>3, <4>3
      <4> QED
        BY <4>2, <4>3, <4>4
    <3>2. CASE Fork(p) \/ Exit(p) \/ Reap(p)
      BY <2>3, <3>2, ForkIs, ExitIs, ReapIs DEF Typed, Execs
    <3> QED
      BY <3>1, <3>2
  <2> QED
    BY <1>3, <2>1, <2>2, <2>3
<1>7. \A x \in Pids : Below(x)' =>
        /\ \A e \in Execs' : execs'[e].pid = x => execs'[e].inTree
        /\ col.at = "walk" /\ col.current = x => execs[col.exec].inTree
  BY <1>6
<1> QED
  BY <1>2, <1>3, <1>4, <1>5, <1>7 DEF Truthful, InHand, HasAgent

(* What every step of the collector leaves alone.                          *)
LEMMA CollectLeaves ==
    ASSUME Attach \/ Collect \/ Stop
    PROVE  UNCHANGED <<parent, image, given, execs, dropped, steady>>
BY DEF Attach, Collect, Stop, Take, ReadFails, Walk, ReadArgv, Write, WriteFails, Leave, Kernel, System

LEMMA TruthfulCollect ==
    ASSUME Typed, Tree, Truthful, Apart, Attach \/ Collect \/ Stop
    PROVE  Truthful'
<1>1. UNCHANGED <<parent, image, given, execs, dropped, steady>>
  BY CollectLeaves
<1>2. Once' <=> Once
  BY <1>1 DEF Once
<1>3. \A x : Below(x)' <=> Below(x)
  BY <1>1 DEF Below, Ancestors, Climbs
<1> SUFFICES ASSUME Once PROVE Truthful'
  BY <1>2 DEF Truthful
<1>4. /\ \A x \in Pids : Below(x) =>
            /\ \A e \in Execs : execs[e].pid = x => execs[e].inTree
            /\ col.at = "walk" /\ col.current = x => execs[col.exec].inTree
      /\ col.at = "walk" /\ col.current = Agent => execs[col.exec].inTree
      /\ col.at \in InHand /\ HasAgent(col.chain) => execs[col.exec].inTree
      /\ \A r \in store : execs[r.exec].inTree
  BY DEF Truthful
<1>5. col \in [at : Stages, exec : Nat, current : Nat, chain : Seq(Pids), argv : Nat]
  BY DEF Typed, ColTyped
<1> USE DEF HasAgent
<1>6. /\ \A x \in Pids : Below(x) /\ col'.at = "walk" /\ col'.current = x => execs[col'.exec].inTree
      /\ col'.at = "walk" /\ col'.current = Agent => execs[col'.exec].inTree
      /\ col'.at \in InHand /\ HasAgent(col'.chain) => execs[col'.exec].inTree
  <2>1. CASE Take
    <3>1. /\ ring[1] \in Execs
          /\ \/ UNCHANGED col
             \/ /\ execs[ring[1]].pid # Agent
                /\ col' = [Waiting EXCEPT !.at = "walk", !.exec = ring[1], !.current = execs[ring[1]].pid]
      BY <2>1, TakeIs
    <3>2. CASE UNCHANGED col
      BY <1>4, <3>2
    <3>3. CASE col' = [Waiting EXCEPT !.at = "walk", !.exec = ring[1], !.current = execs[ring[1]].pid]
               /\ execs[ring[1]].pid # Agent
      <4>1. /\ col'.exec = ring[1] /\ col'.current = execs[ring[1]].pid /\ col'.chain = <<>>
        BY <3>3 DEF Waiting
      <4> QED
        BY <1>4, <3>1, <3>3, <4>1
    <3> QED
      BY <3>1, <3>2, <3>3
  <2>2. CASE Walk
    <3>1. /\ col.at = "walk" /\ col.exec \in Execs /\ col.current \in Pids
          /\ \/ col' = [col EXCEPT !.at = "argv"]
             \/ /\ col.current \in DOMAIN parent /\ col.current # 1
                /\ parent[col.current] \in DOMAIN parent
                /\ \E at \in {"walk", "argv"} :
                     col' = [col EXCEPT !.current = parent[col.current],
                                        !.chain = Append(col.chain, parent[col.current]), !.at = at]
      BY <2>2, WalkIs
    <3>2. CASE col' = [col EXCEPT !.at = "argv"]
      <4>1. col'.at = "argv" /\ col'.exec = col.exec /\ col'.chain = col.chain
        BY <1>5, <3>2
      <4> QED
        BY <1>4, <3>1, <4>1 DEF InHand
    <3>3. CASE /\ col.current \in DOMAIN parent /\ col.current # 1
               /\ parent[col.current] \in DOMAIN parent
               /\ \E at \in {"walk", "argv"} :
                    col' = [col EXCEPT !.current = parent[col.current],
                                       !.chain = Append(col.chain, parent[col.current]), !.at = at]
      <4> DEFINE q == parent[col.current]
                 c == col.current
      <4>1. /\ q \in Pids /\ c \in DOMAIN parent /\ c # 1 /\ ProcTyped
        BY <3>3 DEF Typed, ProcTyped
      <4>2. col'.exec = col.exec /\ col'.chain = Append(col.chain, q) /\ col'.current = q
        BY <1>5, <3>3
      <4>3. q = Agent \/ Below(q) => Below(c)
        <5> HIDE DEF c
        <5>1. parent[c] \in Ancestors(c) /\ \A a \in Ancestors(parent[c]) : a \in Ancestors(c)
          BY <4>1, ParentIsAncestor, AncestorsOfParent
        <5> QED
          BY <4>1, <5>1 DEF Below, c
      <4>4. q = Agent \/ Below(q) => execs[col.exec].inTree
        BY <1>4, <3>1, <4>3
      <4>5. HasAgent(Append(col.chain, q)) => HasAgent(col.chain) \/ q = Agent
        BY <1>5, <4>1
      <4> QED
        BY <1>4, <3>1, <4>2, <4>4, <4>5 DEF InHand
    <3> QED
      BY <3>1, <3>2, <3>3
  <2>3. CASE ReadArgv
    <3>1. /\ col.at = "argv"
          /\ \/ \E k \in Nat : col' = [col EXCEPT !.at = "write", !.argv = k]
             \/ col' = Waiting
      BY <2>3, ReadArgvIs
    <3>2. \/ col'.at = "write" /\ col'.exec = col.exec /\ col'.chain = col.chain
          \/ col'.at = "waiting"
      BY <1>5, <3>1, WaitingTyped
    <3> QED
      BY <1>4, <3>1, <3>2 DEF InHand
  <2>4. CASE Attach \/ ReadFails \/ WriteFails \/ Stop \/ Leave \/ Write
    <3>1. col'.at \in {"waiting", "over"} \/ UNCHANGED col
      BY <2>4, IdleIs, WriteIs, WaitingTyped
    <3> QED
      BY <1>4, <3>1 DEF InHand
  <2> QED
    BY <2>1, <2>2, <2>3, <2>4 DEF Collect
<1>7. \A r \in store' : execs[r.exec].inTree
  <2>1. CASE Write
    <3>1. /\ col.at = "write"
          /\ \E r \in [exec : Execs, pid : Pids, ancestry : Seq(Pids), argv : Nat] :
               r.exec = col.exec /\ store' = store \union {r}
      BY <2>1, WriteIs
    <3>2. execs[col.exec].inTree
      BY <1>4, <3>1 DEF Apart, InHand
    <3> QED
      BY <1>4, <3>1, <3>2
  <2>2. CASE ~ Write
    <3>1. store' = store
      BY <2>2, TakeIs, WalkIs, ReadArgvIs, IdleIs DEF Collect
    <3> QED
      BY <1>4, <3>1
  <2> QED
    BY <2>1, <2>2
<1> QED
  BY <1>1, <1>3, <1>4, <1>6, <1>7 DEF Truthful, Execs

---------------------------------------------------------------------------
(* Every exec is at one place. *)

LEMMA ApartKernel ==
    ASSUME Typed, Tree, Apart, NEW p \in Pids, Fork(p) \/ Exec(p) \/ Exit(p) \/ Reap(p)
    PROVE  Apart'
<1>1. UNCHANGED <<col, store, taken>> /\ \A e \in Execs : execs'[e] = execs[e]
  BY ForkIs, ExecIs, ExitIs, ReapIs DEF Typed
<1>2. col.at \in InHand => col.exec \in Execs
  BY DEF Typed, ColTyped
<1>3. CASE ring' = ring
  BY <1>1, <1>2, <1>3 DEF Apart, HasAgent, InHand
<1>4. CASE Exec(p) /\ ring' # ring
  <2> DEFINE n == Len(execs) + 1
  <2>1. ring' = Append(ring, n) /\ n \notin Execs
    BY <1>4, ExecIs
  <2>2. ring \in Seq(Execs) /\ Len(ring) \in Nat /\ \A i \in DOMAIN ring : ring[i] \in Execs /\ ring[i] # n
    BY <2>1 DEF Typed
  <2>3. /\ DOMAIN ring' = DOMAIN ring \union {Len(ring) + 1} /\ ring'[Len(ring) + 1] = n
        /\ \A i \in DOMAIN ring : ring'[i] = ring[i]
    BY <2>1, <2>2
  <2>4. n \notin taken /\ (col.at \in InHand => n # col.exec)
    BY <1>2, <2>1 DEF Typed
  <2> HIDE DEF n
  <2> QED
    BY <1>1, <1>2, <2>2, <2>3, <2>4 DEF Apart, HasAgent, InHand
<1>5. CASE Fork(p) \/ Exit(p) \/ Reap(p)
  BY <1>3, <1>5, ForkIs, ExitIs, ReapIs DEF Typed
<1> QED
  BY <1>3, <1>4, <1>5

LEMMA ApartCollect ==
    ASSUME Typed, Apart, Attach \/ Collect \/ Stop
    PROVE  Apart'
<1>1. UNCHANGED <<parent, image, given, execs, dropped, steady>>
  BY CollectLeaves
<1>2. col \in [at : Stages, exec : Nat, current : Nat, chain : Seq(Pids), argv : Nat]
  BY DEF Typed, ColTyped
<1> USE DEF HasAgent
<1>3. CASE Take
  <2>1. /\ col.at = "waiting" /\ 1 \in DOMAIN ring /\ Len(ring) \in Nat
        /\ \A i \in DOMAIN ring' : i + 1 \in DOMAIN ring /\ ring'[i] = ring[i + 1] /\ i \in Nat
        /\ \A i \in DOMAIN ring' : i + 1 # 1
        /\ UNCHANGED <<store, execs>>
    BY <1>3, TakeIs DEF Typed
  <2>2. \A i \in DOMAIN ring' : ring'[i] # ring[1] /\ ring'[i] \notin taken
    BY <2>1 DEF Apart
  <2>3. \A i, j \in DOMAIN ring' : ring'[i] = ring'[j] => i = j
    <3> SUFFICES ASSUME NEW i \in DOMAIN ring', NEW j \in DOMAIN ring', ring'[i] = ring'[j]
                 PROVE  i = j
      OBVIOUS
    <3>1. i + 1 = j + 1 /\ i \in Nat /\ j \in Nat
      BY <2>1 DEF Apart
    <3> QED
      BY <3>1
  <2>4. CASE taken' = taken \union {ring[1]} /\ UNCHANGED col
    BY <2>1, <2>2, <2>3, <2>4 DEF Apart, InHand
  <2>5. CASE /\ execs[ring[1]].pid # Agent /\ UNCHANGED taken
             /\ col' = [Waiting EXCEPT !.at = "walk", !.exec = ring[1], !.current = execs[ring[1]].pid]
    <3>1. col'.exec = ring[1] /\ col'.at = "walk"
      BY <2>5 DEF Waiting
    <3> QED
      BY <2>1, <2>2, <2>3, <2>5, <3>1 DEF Apart
  <2> QED
    BY <1>3, <2>4, <2>5, TakeIs
<1>4. CASE Walk
  <2>1. /\ col.at = "walk" /\ UNCHANGED <<ring, store, taken, execs>>
        /\ \E at \in {"walk", "argv"} :
             \/ col' = [col EXCEPT !.at = "argv"]
             \/ col' = [col EXCEPT !.current = parent[col.current],
                                   !.chain = Append(col.chain, parent[col.current]), !.at = at]
    BY <1>4, WalkIs DEF Kernel
  <2>2. col'.exec = col.exec /\ col'.at \in {"walk", "argv"}
    BY <1>2, <2>1
  <2> QED
    BY <2>1, <2>2 DEF Apart, InHand
<1>5. CASE ReadArgv
  <2>1. /\ col.at = "argv" /\ UNCHANGED <<ring, store, execs>>
        /\ \/ /\ HasAgent(col.chain) /\ UNCHANGED taken
              /\ \E c \in Nat : col' = [col EXCEPT !.at = "write", !.argv = c]
           \/ col' = Waiting /\ taken' = taken \union {col.exec}
    BY <1>5, ReadArgvIs DEF Kernel
  <2>2. CASE /\ HasAgent(col.chain) /\ UNCHANGED taken
             /\ \E c \in Nat : col' = [col EXCEPT !.at = "write", !.argv = c]
    <3>1. col'.exec = col.exec /\ col'.at = "write" /\ col'.chain = col.chain
      BY <1>2, <2>2
    <3> QED
      BY <2>1, <2>2, <3>1 DEF Apart, InHand
  <2>3. CASE col' = Waiting /\ taken' = taken \union {col.exec}
    <3>1. col'.at = "waiting"
      BY <2>3, WaitingTyped
    <3> QED
      BY <2>1, <2>3, <3>1 DEF Apart, InHand
  <2> QED
    BY <2>1, <2>2, <2>3
<1>6. CASE Write
  <2>1. PICK r \in [exec : Execs, pid : Pids, ancestry : Seq(Pids), argv : Nat] :
          r.exec = col.exec /\ store' = store \union {r}
    BY <1>6, WriteIs
  <2>2. /\ col.at = "write" /\ UNCHANGED <<ring, execs>> /\ taken' = taken \union {col.exec}
        /\ col'.at = "waiting"
    BY <1>6, WriteIs, WaitingTyped DEF Kernel
  <2>3. col.exec \notin taken /\ \A i \in DOMAIN ring : ring[i] \notin taken /\ ring[i] # col.exec
    BY <2>2 DEF Apart, InHand
  <2>4. \A s \in store : s.exec # r.exec /\ s.exec \in taken
    BY <2>1, <2>3 DEF Apart
  <2> QED
    BY <2>1, <2>2, <2>3, <2>4 DEF Apart, InHand
<1>7. CASE Attach \/ ReadFails \/ WriteFails \/ Stop \/ Leave
  <2>1. /\ UNCHANGED <<ring, execs, store, taken>>
        /\ col'.at \in {"waiting", "over"} \/ UNCHANGED col
    BY <1>7, IdleIs DEF Kernel
  <2> QED
    BY <2>1 DEF Apart, InHand
<1> QED
  BY <1>3, <1>4, <1>5, <1>6, <1>7 DEF Collect


---------------------------------------------------------------------------
(* Steady execs are recorded. *)

(* A line stays as it is as long as nobody on it exits.                    *)
LEMMA LineStays ==
    ASSUME ProcTyped, Tree, NEW p \in Pids, Fork(p) \/ Exit(p) \/ Reap(p),
           NEW x \in DOMAIN parent, image[x] # Zombie, Exit(p) => x # p /\ p \notin Ancestors(x),
           NEW n \in Nat, n > 0, NEW line \in [1..n -> DOMAIN parent], IsLine(x, line)
    PROVE  /\ x \in DOMAIN parent' /\ image'[x] = image[x]
           /\ line \in [1..n -> DOMAIN parent'] /\ IsLine(x, line)'
<1>1. /\ line[1] = parent[x] /\ \A i \in 2..n : line[i] = parent[line[i - 1]]
      /\ \A i \in 2..n : i - 1 \in 1..n
      /\ \A i \in 1..n : line[i] \in DOMAIN parent /\ line[i] \in Ancestors(x)
  BY LineClimbs DEF IsLine
<1>2. \A i \in 1..n : \E y \in DOMAIN parent : line[i] = parent[y]
  <2> TAKE i \in 1..n
  <2>1. CASE i = 1
    BY <1>1, <2>1
  <2>2. CASE i # 1
    <3>1. i \in 2..n
      BY <2>2
    <3> QED
      BY <1>1, <3>1
  <2> QED
    BY <2>1, <2>2
<1>3. /\ x \in DOMAIN parent' /\ image'[x] = image[x] /\ parent'[x] = parent[x]
      /\ \A i \in 1..n : line[i] \in DOMAIN parent' /\ (parent'[line[i]] = parent[line[i]] \/ i = n)
      /\ line[n] \in DOMAIN parent'
  <2>1. CASE Fork(p)
    <3>1. /\ DOMAIN parent \subseteq DOMAIN parent'
          /\ \A y \in DOMAIN parent : parent'[y] = parent[y] /\ image'[y] = image[y]
      BY <2>1, ForkIs
    <3>2. n \in 1..n
      OBVIOUS
    <3> QED
      BY <1>1, <3>1, <3>2
  <2>2. CASE Exit(p)
    <3>1. /\ DOMAIN parent' = DOMAIN parent /\ x # p
          /\ \A y \in DOMAIN parent : parent'[y] = IF parent[y] = p THEN 1 ELSE parent[y]
          /\ \A y \in DOMAIN parent : image'[y] = IF y = p THEN Zombie ELSE image[y]
      BY <2>2, ExitIs
    <3>2. \A i \in 1..n : line[i] # p
      BY <1>1, <2>2
    <3>3. parent[x] # p
      BY <1>1, <3>2
    <3>4. \A i \in 1..n : i # n => parent[line[i]] # p
      <4> TAKE i \in 1..n
      <4> HAVE i # n
      <4>1. i + 1 \in 2..n /\ (i + 1) - 1 = i /\ i + 1 \in 1..n
        OBVIOUS
      <4>2. line[i + 1] = parent[line[i]]
        BY <1>1, <4>1
      <4> QED
        BY <3>2, <4>1, <4>2
    <3> QED
      BY <1>1, <3>1, <3>3, <3>4
  <2>3. CASE Reap(p)
    <3>1. /\ DOMAIN parent' = DOMAIN parent \ {p} /\ image[p] = Zombie
          /\ \A y \in DOMAIN parent : parent[y] # p
          /\ \A y \in DOMAIN parent' : parent'[y] = parent[y] /\ image'[y] = image[y]
      BY <2>3, ReapIs
    <3>2. \A i \in 1..n : line[i] \in DOMAIN parent'
      BY <1>1, <1>2, <3>1
    <3>3. x \in DOMAIN parent'
      BY <3>1
    <3>4. n \in 1..n
      OBVIOUS
    <3> QED
      BY <3>1, <3>2, <3>3, <3>4
  <2> QED
    BY <2>1, <2>2, <2>3
<1>4. \A i \in 1..n : line[i] \in DOMAIN parent'
  BY <1>3
<1>5. ASSUME NEW i \in DOMAIN line \ {1}
      PROVE  line[i] = parent'[line[i - 1]]
  <2>1. i \in 2..n /\ i - 1 \in 1..n /\ i - 1 # n
    BY <1>5
  <2> QED
    BY <1>1, <1>3, <2>1
<1>6. line[1] = parent'[x]
  BY <1>1, <1>3
<1>7. line \in [1..n -> DOMAIN parent']
  BY <1>4
<1> QED
  BY <1>3, <1>5, <1>6, <1>7 DEF IsLine


LEMMA SteadyKernel ==
    ASSUME Typed, Tree, SteadyKept, NEW p \in Pids, Fork(p) \/ Exec(p) \/ Exit(p) \/ Reap(p)
    PROVE  SteadyKept'
<1>1. ProcTyped /\ 0 \notin Execs /\ \A n \in 1..Depth : n \in Nat /\ n > 0
  BY CollectorConstants DEF Typed, Execs
<1>2. UNCHANGED <<col, store, taken>> /\ \A e \in Execs : execs'[e] = execs[e]
  BY ForkIs, ExecIs, ExitIs, ReapIs DEF Typed
<1>3. CASE Exec(p)
  <2> DEFINE new == Len(execs) + 1
  <2>a. execs'[new] = [pid |-> p, inTree |-> Agent \in Ancestors(p)]
    BY <1>3, ExecIs
  <2>b. execs'[new].pid = p
    BY <2>a
  <2>1. /\ p \in DOMAIN parent /\ new \notin Execs /\ UNCHANGED parent
        /\ image' = [image EXCEPT ![p] = new]
        /\ steady' = {e \in steady : execs[e].pid # p} \union (IF InReach(p) THEN {new} ELSE {})
    BY <1>3, ExecIs
  <2>2. image'[p] = new /\ \A x \in DOMAIN parent : x # p => image'[x] = image[x]
    BY <1>1, <2>1 DEF ProcTyped
  <2>3. \A x \in DOMAIN parent : InReach(x)' <=> InReach(x)
    BY <2>1 DEF InReach, IsLine
  <2>4. \A e \in steady' \intersect Execs : e \in steady /\ execs[e].pid # p
    BY <2>1
  <2>5. \A e \in steady' : e \in Execs \/ (e = new /\ InReach(p))
    BY <2>1 DEF Typed
  <2> HIDE DEF new
  <2>6. SteadyLives'
    <3> SUFFICES ASSUME NEW e \in steady'
                 PROVE  /\ execs'[e].pid \in DOMAIN parent /\ image'[execs'[e].pid] = e
                        /\ InReach(execs'[e].pid)
      BY <2>1, <2>3 DEF SteadyLives, InReach, IsLine
    <3>1. CASE e \in Execs
      BY <1>2, <2>2, <2>4, <3>1 DEF SteadyKept, SteadyLives
    <3>2. CASE e = new /\ InReach(p)
      BY <2>b, <2>1, <2>2, <3>2
    <3> QED
      BY <2>5, <3>1, <3>2
  <2>7. SteadyWalked'
    <3> SUFFICES ASSUME col.at \in InHand, col.exec \in steady'
                 PROVE  SteadyWalked'
      BY <1>2 DEF SteadyWalked, InHand
    <3>1. col.exec \in Execs /\ col.exec \in steady
      BY <2>4 DEF Typed, ColTyped
    <3>2. UNCHANGED <<parent, col>> /\ execs'[col.exec] = execs[col.exec]
      BY <1>2, <2>1, <3>1
    <3>3. CASE HasAgent(col.chain)
      BY <3>1, <3>2, <3>3 DEF SteadyKept, SteadyWalked, HasAgent
    <3>4. CASE ~ HasAgent(col.chain)
      <4>1. PICK n \in 1..Depth : \E line \in [1..n -> DOMAIN parent] :
              LineTo(execs[col.exec].pid, n, line) /\ OnTheWay(execs[col.exec].pid, n, line)
        BY <3>1, <3>4 DEF SteadyKept, SteadyWalked
      <4>2. PICK line \in [1..n -> DOMAIN parent] :
              LineTo(execs[col.exec].pid, n, line) /\ OnTheWay(execs[col.exec].pid, n, line)
        BY <4>1
      <4>3. LineTo(execs[col.exec].pid, n, line)' /\ OnTheWay(execs[col.exec].pid, n, line)'
        BY <3>2, <4>2 DEF LineTo, IsLine, OnTheWay
      <4>4. col.at = "walk"
        BY <3>1, <3>4 DEF SteadyKept, SteadyWalked
      <4> QED
        BY <3>2, <4>2, <4>3, <4>4 DEF SteadyWalked
    <3> QED
      BY <3>3, <3>4
  <2>8. SteadyWritten'
    <3>1. \A e \in steady' \intersect taken : e \in steady /\ execs'[e] = execs[e]
      BY <1>2, <2>4 DEF Typed
    <3> QED
      BY <1>2, <3>1 DEF SteadyKept, SteadyWritten
  <2> QED
    BY <2>6, <2>7, <2>8 DEF SteadyKept
<1>4. CASE Fork(p) \/ Exit(p) \/ Reap(p)
  <2>1. /\ UNCHANGED execs /\ steady' \subseteq steady
        /\ Exit(p) => \A e \in steady' : p # execs[e].pid /\ p \notin Ancestors(execs[e].pid)
    BY <1>1, <1>4, ForkIs, ExitIs, ReapIs
  <2>2. \A e \in steady' : /\ e \in Execs /\ execs[e].pid \in DOMAIN parent
                           /\ image[execs[e].pid] = e /\ image[execs[e].pid] # Zombie
    BY <1>1, <2>1 DEF SteadyKept, SteadyLives, Typed, Zombie
  <2>3. ASSUME NEW e \in steady', NEW n \in 1..Depth, NEW line \in [1..n -> DOMAIN parent],
               IsLine(execs[e].pid, line)
        PROVE  line \in [1..n -> DOMAIN parent'] /\ IsLine(execs[e].pid, line)'
    <3> DEFINE x == execs[e].pid
    <3>1. x \in DOMAIN parent /\ image[x] # Zombie /\ (Exit(p) => x # p /\ p \notin Ancestors(x))
      BY <2>1, <2>2
    <3>2. n \in Nat /\ n > 0 /\ IsLine(x, line)
      BY <1>1, <2>3
    <3>3. execs' = execs
      BY <2>1
    <3>4. /\ line \in [1..n -> DOMAIN parent'] /\ line[1] = parent'[x]
          /\ \A i \in DOMAIN line \ {1} : line[i] = parent'[line[i - 1]]
      <4> HIDE DEF x
      <4> QED
        BY <1>1, <1>4, <3>1, <3>2, LineStays DEF IsLine
    <3> QED
      BY <3>3, <3>4 DEF IsLine
  <2>4. SteadyLives'
    <3> SUFFICES ASSUME NEW e \in steady'
                 PROVE  (/\ execs[e].pid \in DOMAIN parent /\ image[execs[e].pid] = e
                         /\ InReach(execs[e].pid))'
      BY DEF SteadyLives
    <3>1. e \in steady /\ InReach(execs[e].pid)
      BY <2>1 DEF SteadyKept, SteadyLives
    <3>a. PICK n \in 1..Depth : \E line \in [1..n -> DOMAIN parent] :
            IsLine(execs[e].pid, line) /\ line[n] = Agent
      BY <3>1 DEF InReach
    <3>2. PICK line \in [1..n -> DOMAIN parent] :
            IsLine(execs[e].pid, line) /\ line[n] = Agent
      BY <3>a
    <3>3. line \in [1..n -> DOMAIN parent'] /\ IsLine(execs[e].pid, line)'
      BY <2>3, <3>2
    <3>4. execs[e].pid \in DOMAIN parent' /\ image'[execs[e].pid] = e
      <4> DEFINE x == execs[e].pid
      <4>1. x \in DOMAIN parent /\ image[x] = e /\ image[x] # Zombie
            /\ (Exit(p) => x # p /\ p \notin Ancestors(x))
        BY <2>1, <2>2
      <4>2. n \in Nat /\ n > 0 /\ IsLine(x, line)
        BY <1>1, <3>2
      <4> HIDE DEF x
      <4>3. x \in DOMAIN parent' /\ image'[x] = image[x]
        BY <1>1, <1>4, <4>1, <4>2, LineStays
      <4> QED
        BY <4>1, <4>3 DEF x
    <3>5. InReach(execs[e].pid)'
      BY <3>2, <3>3 DEF InReach
    <3> QED
      BY <2>1, <3>4, <3>5
  <2>5. SteadyWalked'
    <3> SUFFICES ASSUME col.at \in InHand, col.exec \in steady'
                 PROVE  SteadyWalked'
      BY <1>2 DEF SteadyWalked, InHand
    <3>1. col.exec \in steady
      BY <2>1
    <3>2. CASE HasAgent(col.chain)
      BY <1>2, <3>1, <3>2 DEF SteadyKept, SteadyWalked, HasAgent, InHand
    <3>3. CASE ~ HasAgent(col.chain)
      <4>a. PICK n \in 1..Depth : \E line \in [1..n -> DOMAIN parent] :
              LineTo(execs[col.exec].pid, n, line) /\ OnTheWay(execs[col.exec].pid, n, line)
        BY <3>1, <3>3 DEF SteadyKept, SteadyWalked
      <4>1. PICK line \in [1..n -> DOMAIN parent] :
              LineTo(execs[col.exec].pid, n, line) /\ OnTheWay(execs[col.exec].pid, n, line)
        BY <4>a
      <4>2. line \in [1..n -> DOMAIN parent'] /\ IsLine(execs[col.exec].pid, line)'
        <5>1. UNCHANGED <<execs, col>>
          BY <1>2, <2>1
        <5>2. IsLine(execs[col.exec].pid, line)
          BY <4>1 DEF LineTo
        <5>4. PICK e \in steady' : e = col.exec
          BY <1>2, <3>1
        <5>5. line \in [1..n -> DOMAIN parent'] /\ IsLine(execs[e].pid, line)'
          BY <2>3, <5>2, <5>4
        <5> QED
          BY <5>1, <5>4, <5>5
      <4>3. LineTo(execs[col.exec].pid, n, line)' /\ OnTheWay(execs[col.exec].pid, n, line)'
        BY <1>2, <2>1, <4>1, <4>2 DEF LineTo, OnTheWay
      <4>4. col.at = "walk" /\ UNCHANGED col
        BY <1>2, <3>1, <3>3 DEF SteadyKept, SteadyWalked
      <4> QED
        BY <4>2, <4>3, <4>4 DEF SteadyWalked
    <3> QED
      BY <3>2, <3>3
  <2>6. SteadyWritten'
    BY <1>2, <2>1 DEF SteadyKept, SteadyWritten
  <2> QED
    BY <2>4, <2>5, <2>6 DEF SteadyKept
<1> QED
  BY <1>3, <1>4


(* A turn of the walk on the line of a steady exec comes to its next       *)
(* process, and ends there only when that is the agent.                    *)
LEMMA WalkOnLine ==
    ASSUME Typed, Tree, Walk, NEW p \in DOMAIN parent, p = execs[col.exec].pid,
           NEW n \in 1..Depth, NEW line \in [1..n -> DOMAIN parent],
           LineTo(p, n, line), OnTheWay(p, n, line)
    PROVE  \E q \in DOMAIN parent, at \in {"walk", "argv"} :
             /\ col' = [col EXCEPT !.current = q, !.chain = Append(col.chain, q), !.at = at]
             /\ q = line[Len(col.chain) + 1]
             /\ q = Agent \/ (at = "walk" /\ Len(col.chain) + 1 < n)
<1> DEFINE k == Len(col.chain)
           q == line[k + 1]
<1>1. /\ ProcTyped /\ Depth \in Nat /\ n \in Nat /\ n > 0 /\ n <= Depth
      /\ col.chain \in Seq(Pids) /\ k \in Nat
  BY CollectorConstants DEF Typed, ColTyped
<1>2. /\ k < n /\ \A i \in 1..k : col.chain[i] = line[i]
      /\ col.current = IF k = 0 THEN p ELSE line[k]
  BY DEF OnTheWay
<1>3. /\ IsLine(p, line) /\ line[n] = Agent /\ line[1] = parent[p]
      /\ \A i \in 2..n : line[i] = parent[line[i - 1]]
  BY DEF LineTo, IsLine
<1>4. k + 1 \in 1..n /\ q \in DOMAIN parent /\ q # 0
  <2>1. k + 1 \in 1..n
    BY <1>1, <1>2
  <2> QED
    BY <1>1, <2>1, PidsAre DEF ProcTyped
<1>5. col.current \in DOMAIN parent /\ parent[col.current] = q
  <2>1. CASE k = 0
    BY <1>2, <1>3, <2>1
  <2>2. CASE k # 0
    <3>1. k + 1 \in 2..n /\ (k + 1) - 1 = k /\ k \in 1..n
      BY <1>1, <1>2, <2>2
    <3> QED
      BY <1>2, <1>3, <2>2, <3>1
  <2> QED
    BY <2>1, <2>2
<1>6. ~ Met(q)
  <2>1. line[k + 1] # p
    BY <1>1, <1>3, <1>4, LineIsStraight
  <2>2. \A i \in 1..k : i \in 1..n /\ i < k + 1
    BY <1>1, <1>2
  <2>3. \A i \in 1..k : line[i] # line[k + 1]
    <3>1. \A i, j \in 1..n : i < j => line[i] # line[j]
      BY <1>1, <1>3, LineIsStraight
    <3> QED
      BY <1>4, <2>2, <3>1
  <2>4. DOMAIN col.chain = 1..k
    BY <1>1
  <2> QED
    BY <1>2, <2>1, <2>3, <2>4 DEF Met
<1> HIDE DEF q
<1>7. PICK at \in {"walk", "argv"} :
        /\ col' = [col EXCEPT !.current = q, !.chain = Append(col.chain, q), !.at = at]
        /\ at = "argv" => q = 1 \/ k + 1 = Depth
  BY <1>4, <1>5, <1>6, WalkIs
<1>8. CASE k + 1 = n
  BY <1>3, <1>4, <1>7, <1>8 DEF q
<1>9. CASE k + 1 # n
  <2>1. k + 1 < n /\ k + 2 \in 2..n /\ (k + 2) - 1 = k + 1 /\ k + 1 # Depth /\ k + 2 \in 1..n
    BY <1>1, <1>2, <1>9
  <2>2. line[k + 2] = parent[q] /\ line[k + 2] \in DOMAIN parent
    BY <1>3, <2>1 DEF q
  <2>3. q # 1
    BY <1>1, <2>2, PidsAre DEF ProcTyped
  <2>4. at = "walk"
    BY <1>7, <2>1, <2>3
  <2> QED
    BY <1>4, <1>7, <2>1, <2>4 DEF q
<1> QED
  BY <1>8, <1>9


LEMMA SteadyWalkedCollect ==
    ASSUME Typed, Tree, SteadyKept, Attach \/ Collect \/ Stop
    PROVE  SteadyWalked'
<1>1. UNCHANGED <<parent, image, given, execs, dropped, steady>>
  BY CollectLeaves
<1>2. /\ col \in [at : Stages, exec : Nat, current : Nat, chain : Seq(Pids), argv : Nat]
      /\ ProcTyped
  BY DEF Typed, ColTyped
<1> SUFFICES ASSUME col'.at \in InHand, col'.exec \in steady
             PROVE  SteadyWalked'
  BY <1>1 DEF SteadyWalked
<1>3. \A e \in steady : /\ execs[e].pid \in DOMAIN parent /\ image[execs[e].pid] = e
                        /\ InReach(execs[e].pid)
  BY DEF SteadyKept, SteadyLives
<1>4. CASE Take /\ UNCHANGED col
  <2>1. col.at = "waiting"
    BY <1>4, TakeIs
  <2> QED
    BY <1>4, <2>1 DEF InHand
<1>5. CASE Take /\ ~ UNCHANGED col
  <2>1. /\ ring[1] \in Execs
        /\ col' = [Waiting EXCEPT !.at = "walk", !.exec = ring[1], !.current = execs[ring[1]].pid]
    BY <1>5, TakeIs
  <2>2. /\ col'.at = "walk" /\ col'.exec = ring[1] /\ col'.current = execs[ring[1]].pid
        /\ col'.chain = <<>>
    BY <2>1 DEF Waiting
  <2>3. PICK n \in 1..Depth : \E line \in [1..n -> DOMAIN parent] :
          IsLine(execs[ring[1]].pid, line) /\ line[n] = Agent
    BY <1>3, <2>2 DEF InReach
  <2>4. PICK line \in [1..n -> DOMAIN parent] : LineTo(execs[ring[1]].pid, n, line)
    BY <2>3 DEF LineTo
  <2>5. LineTo(execs[col.exec].pid, n, line)' /\ OnTheWay(execs[col.exec].pid, n, line)'
    BY <1>1, <2>2, <2>4 DEF LineTo, IsLine, OnTheWay
  <2> QED
    BY <1>1, <2>2, <2>4, <2>5 DEF SteadyWalked
<1>6. CASE Walk
  <2>1. col.at = "walk" /\ col.exec \in Execs /\ col'.exec = col.exec /\ col'.at \in {"walk", "argv"}
    <3>1. /\ col.at = "walk" /\ col.exec \in Execs
          /\ \E at \in {"walk", "argv"} :
               \/ col' = [col EXCEPT !.at = "argv"]
               \/ col' = [col EXCEPT !.current = parent[col.current],
                                     !.chain = Append(col.chain, parent[col.current]), !.at = at]
      BY <1>6, WalkIs
    <3> QED
      BY <1>2, <3>1
  <2>2. CASE HasAgent(col.chain)
    <3>1. HasAgent(col'.chain)
      <4>1. \/ col' = [col EXCEPT !.at = "argv"]
            \/ /\ parent[col.current] \in DOMAIN parent
               /\ \E at \in {"walk", "argv"} :
                    col' = [col EXCEPT !.current = parent[col.current],
                                       !.chain = Append(col.chain, parent[col.current]), !.at = at]
        BY <1>6, WalkIs
      <4>2. col.chain \in Seq(Pids) /\ (parent[col.current] \in DOMAIN parent => parent[col.current] \in Pids)
        BY <1>2 DEF ProcTyped
      <4>3. col'.chain = col.chain \/ \E q \in Pids : col'.chain = Append(col.chain, q)
        BY <1>2, <4>1, <4>2
      <4> QED
        BY <2>2, <4>2, <4>3 DEF HasAgent
    <3> QED
      BY <2>1, <3>1 DEF SteadyWalked, HasAgent
  <2>3. CASE ~ HasAgent(col.chain)
    <3>1. PICK n \in 1..Depth : \E line \in [1..n -> DOMAIN parent] :
            LineTo(execs[col.exec].pid, n, line) /\ OnTheWay(execs[col.exec].pid, n, line)
      BY <2>1, <2>3 DEF SteadyKept, SteadyWalked, InHand
    <3>2. PICK line \in [1..n -> DOMAIN parent] :
            LineTo(execs[col.exec].pid, n, line) /\ OnTheWay(execs[col.exec].pid, n, line)
      BY <3>1
    <3>3. execs[col.exec].pid \in DOMAIN parent
      BY <1>3, <2>1
    <3>4. PICK q \in DOMAIN parent, at \in {"walk", "argv"} :
            /\ col' = [col EXCEPT !.current = q, !.chain = Append(col.chain, q), !.at = at]
            /\ q = line[Len(col.chain) + 1]
            /\ q = Agent \/ (at = "walk" /\ Len(col.chain) + 1 < n)
      BY <1>6, <3>2, <3>3, WalkOnLine
    <3>5. q \in Pids /\ col.chain \in Seq(Pids) /\ Len(col.chain) \in Nat
      BY <1>2 DEF ProcTyped
    <3>6. /\ col'.current = q /\ col'.chain = Append(col.chain, q) /\ col'.at = at
      BY <1>2, <3>4
    <3>7. /\ Len(col'.chain) = Len(col.chain) + 1 /\ col'.chain[Len(col.chain) + 1] = q
          /\ \A i \in 1..Len(col.chain) : col'.chain[i] = col.chain[i]
          /\ DOMAIN col'.chain = 1..Len(col.chain) + 1
      BY <3>5, <3>6
    <3>8. CASE q = Agent
      <4>1. HasAgent(col'.chain)
        BY <3>5, <3>7, <3>8 DEF HasAgent
      <4> QED
        BY <2>1, <4>1 DEF SteadyWalked, HasAgent
    <3>9. CASE at = "walk" /\ Len(col.chain) + 1 < n
      <4>1. \A i \in 1..Len(col'.chain) : col'.chain[i] = line[i]
        <5>1. \A i \in 1..Len(col.chain) : col'.chain[i] = line[i]
          BY <3>2, <3>7 DEF OnTheWay
        <5>2. \A i \in 1..Len(col'.chain) : i \in 1..Len(col.chain) \/ i = Len(col.chain) + 1
          BY <3>5, <3>7
        <5> QED
          BY <3>4, <3>7, <5>1, <5>2
      <4>2. Len(col'.chain) < n /\ Len(col'.chain) # 0 /\ col'.current = line[Len(col'.chain)]
        BY <3>4, <3>5, <3>6, <3>7, <3>9
      <4>3. OnTheWay(execs[col.exec].pid, n, line)'
        BY <4>1, <4>2 DEF OnTheWay
      <4>4. LineTo(execs[col.exec].pid, n, line)'
        BY <1>1, <2>1, <3>2 DEF LineTo, IsLine
      <4>5. col'.at = "walk"
        BY <3>6, <3>9
      <4> QED
        BY <1>1, <4>3, <4>4, <4>5 DEF SteadyWalked
    <3> QED
      BY <3>4, <3>8, <3>9
  <2> QED
    BY <2>2, <2>3
<1>7. CASE ReadArgv
  <2>1. /\ col.at = "argv" /\ col.exec \in Execs
        /\ \/ /\ HasAgent(col.chain)
              /\ \E c \in Nat :
                   /\ col' = [col EXCEPT !.at = "write", !.argv = c]
                   /\ execs[col.exec].pid \in DOMAIN parent => c = image[execs[col.exec].pid]
           \/ col' = Waiting
    BY <1>7, ReadArgvIs
  <2>2. col' # Waiting
    BY WaitingTyped DEF InHand
  <2>3. PICK c \in Nat : /\ col' = [col EXCEPT !.at = "write", !.argv = c]
                         /\ execs[col.exec].pid \in DOMAIN parent => c = image[execs[col.exec].pid]
    BY <2>1, <2>2
  <2>4. col'.exec = col.exec /\ col'.argv = c /\ col'.chain = col.chain
    BY <1>2, <2>3
  <2>5. c = col.exec
    BY <1>3, <2>3, <2>4
  <2>6. HasAgent(col'.chain)
    BY <2>1, <2>2, <2>4
  <2> QED
    BY <2>4, <2>5, <2>6 DEF SteadyWalked, HasAgent
<1>8. CASE Attach \/ ReadFails \/ WriteFails \/ Stop \/ Leave \/ Write
  <2>1. UNCHANGED col
    BY <1>8, IdleIs, WriteIs, WaitingTyped DEF InHand
  <2> QED
    BY <1>1, <2>1 DEF SteadyKept, SteadyWalked, HasAgent, LineTo, IsLine, OnTheWay
<1> QED
  BY <1>4, <1>5, <1>6, <1>7, <1>8 DEF Collect

LEMMA SteadyCollect ==
    ASSUME Typed, Tree, SteadyKept, Attach \/ Collect \/ Stop
    PROVE  SteadyKept'
<1>1. UNCHANGED <<parent, image, given, execs, dropped, steady>>
  BY CollectLeaves
<1>2. SteadyLives'
  BY <1>1 DEF SteadyKept, SteadyLives, InReach, IsLine
<1>3. SteadyWritten'
  <2>1. CASE Take
    <3>1. UNCHANGED store /\ (UNCHANGED taken \/ (execs[ring[1]].pid = Agent /\ taken' = taken \union {ring[1]}))
      BY <2>1, TakeIs
    <3> QED
      BY <1>1, <3>1 DEF SteadyKept, SteadyWritten
  <2>2. CASE ReadArgv
    <3>1. /\ col.at = "argv" /\ UNCHANGED store
          /\ UNCHANGED taken \/ (~ HasAgent(col.chain) /\ taken' = taken \union {col.exec})
      BY <2>2, ReadArgvIs
    <3>2. ~ HasAgent(col.chain) => col.exec \notin steady
      BY <3>1 DEF SteadyKept, SteadyWalked, InHand
    <3> QED
      BY <1>1, <3>1, <3>2 DEF SteadyKept, SteadyWritten
  <2>3. CASE Write
    <3>1. /\ col.at = "write" /\ taken' = taken \union {col.exec}
          /\ \E r \in [exec : Execs, pid : Pids, ancestry : Seq(Pids), argv : Nat] :
               r.exec = col.exec /\ r.argv = col.argv /\ store' = store \union {r}
      BY <2>3, WriteIs
    <3>2. col.exec \in steady => col.argv = col.exec
      BY <3>1 DEF SteadyKept, SteadyWalked, InHand
    <3> QED
      BY <1>1, <3>1, <3>2 DEF SteadyKept, SteadyWritten
  <2>4. CASE Walk \/ Attach \/ ReadFails \/ WriteFails \/ Stop \/ Leave
    <3>1. UNCHANGED <<store, taken>>
      BY <2>4, WalkIs, IdleIs
    <3> QED
      BY <1>1, <3>1 DEF SteadyKept, SteadyWritten
  <2> QED
    BY <2>1, <2>2, <2>3, <2>4 DEF Collect
<1> QED
  BY <1>2, <1>3, SteadyWalkedCollect DEF SteadyKept


---------------------------------------------------------------------------
(* The theorems. *)

LEMMA InvInit == Init => Inv
<1> SUFFICES ASSUME Init PROVE Inv
  OBVIOUS
<1>1. /\ execs = <<>> /\ ring = <<>> /\ taken = {} /\ steady = {} /\ store = {}
      /\ col = [Waiting EXCEPT !.at = "off"] /\ DOMAIN parent = {1, Agent}
      /\ given = [p \in Pids |-> IF p \in {1, Agent} THEN 1 ELSE 0]
  BY DEF Init
<1>2. col.at = "off" /\ Execs = {} /\ DOMAIN ring = {}
  BY <1>1 DEF Waiting, Execs
<1>3. Known
  BY <1>1, <1>2, PidsAre DEF Known
<1>4. Truthful /\ Apart /\ SteadyKept
  BY <1>1, <1>2 DEF Truthful, Apart, SteadyKept, SteadyLives, SteadyWalked, SteadyWritten, InHand
<1> QED
  BY <1>3, <1>4, TreeInit DEF Inv

LEMMA InvNext ==
    ASSUME Typed, Inv, [Next]_vars
    PROVE  Typed' /\ Inv'
<1>1. CASE \E p \in Pids : Fork(p) \/ Exec(p) \/ Exit(p) \/ Reap(p)
  BY <1>1, TypedKernel, TreeStep, KnownKernel, TruthfulKernel, ApartKernel, SteadyKernel DEF Inv
<1>2. CASE Attach \/ Collect \/ Stop
  <2>1. UNCHANGED <<parent, image>>
    BY <1>2, CollectLeaves
  <2>2. Tree'
    BY <2>1 DEF Inv, Tree, Ancestors, Climbs
  <2> QED
    BY <1>2, <2>2, TypedCollect, KnownCollect, TruthfulCollect, ApartCollect, SteadyCollect DEF Inv
<1>3. CASE UNCHANGED vars
  <2>1. UNCHANGED <<parent, image, given, execs, ring, dropped, col, closed, store, failures, taken,
                    steady, faults>>
    BY <1>3 DEF vars
  <2>2. Typed'
    BY <2>1 DEF Typed, ProcTyped, ColTyped, Execs
  <2>3. Tree' /\ Known'
    BY <2>1 DEF Inv, Tree, Ancestors, Climbs, Known, Execs
  <2>4. Truthful' /\ Apart'
    BY <2>1 DEF Inv, Truthful, Once, Below, Ancestors, Climbs, Execs, HasAgent, Apart
  <2>5. SteadyKept'
    BY <2>1 DEF Inv, SteadyKept, SteadyLives, SteadyWalked, SteadyWritten, InReach, IsLine, HasAgent,
                LineTo, OnTheWay
  <2> QED
    BY <2>2, <2>3, <2>4, <2>5 DEF Inv
<1> QED
  BY <1>1, <1>2, <1>3 DEF Next

(* The state of the processes, the ring and the collector stay of their    *)
(* types: parents are in /proc, and what is in the ring, in hand or in the *)
(* store is an exec that happened.                                         *)
THEOREM TypeCorrect == Spec => []Typed
<1>1. Init => Typed /\ Inv
  BY TypedInit, InvInit
<1>2. Typed /\ Inv /\ [Next]_vars => (Typed /\ Inv)'
  BY InvNext
<1> QED
  BY <1>1, <1>2, PTL DEF Spec

(* The inductive invariant holds in every state.                           *)
THEOREM Invariance == Spec => [](Typed /\ Inv)
<1>1. Init => Typed /\ Inv
  BY TypedInit, InvInit
<1>2. Typed /\ Inv /\ [Next]_vars => (Typed /\ Inv)'
  BY InvNext
<1> QED
  BY <1>1, <1>2, PTL DEF Spec

(* Where no pid was given out twice, no exec is recorded that was not made *)
(* below the agent (Ancestry reads /proc entry by entry, and inTree judges  *)
(* by what it read).                                                       *)
THEOREM RecordedBelowAgent == Spec => []RecordedWasDescendant
<1>1. Typed /\ Inv => RecordedWasDescendant
  BY DEF Inv, Truthful, Once, RecordedWasDescendant
<1> QED
  BY <1>1, Invariance, PTL

(* An exec below the agent whose process and ancestors are still as they   *)
(* were when the collector has dealt with it is recorded, once and with    *)
(* its own command line.                                                   *)
THEOREM SteadyRecorded == Spec => []SteadyExecRecorded
<1>1. ASSUME Inv, NEW e \in steady \intersect taken, execs[e].pid # Agent
      PROVE  /\ \E r \in store : r.exec = e /\ r.argv = e
             /\ Cardinality({r \in store : r.exec = e}) = 1
  <2>1. PICK r \in store : r.exec = e /\ r.argv = e
    BY <1>1 DEF Inv, SteadyKept, SteadyWritten
  <2>2. {s \in store : s.exec = e} = {r}
    BY <1>1, <2>1 DEF Inv, Apart
  <2>3. Cardinality({r}) = 1
    BY FS_Singleton
  <2> QED
    BY <2>1, <2>2, <2>3
<1>2. Typed /\ Inv => SteadyExecRecorded
  BY <1>1 DEF SteadyExecRecorded
<1> QED
  BY <1>2, Invariance, PTL
=============================================================================
