---------------------------- MODULE MerkleChain ----------------------------
(***************************************************************************)
(* The hash chain over the events of a seal, the RFC 6962 tree over the    *)
(* chain hashes, and the proofs drawn from the tree.                       *)
(*                                                                         *)
(*   packages/chain/src/hash-chain.ts, merkle.ts        the producer       *)
(*   apps/verify/chain/replay.go, merkle/merkle.go      the verifier       *)
(*                                                                         *)
(* Both sides implement the same algorithms.  A hash is the term it was    *)
(* computed from, so two hashes are equal only when their inputs are.      *)
(* Indices count from 0 as in the code; sequences from 1.                  *)
(***************************************************************************)
EXTENDS Integers, Sequences, SequencesExt

---------------------------------------------------------------------------
(* The chain.  A link is what one event contributes: its payload hash and  *)
(* its metadata.                                                           *)

Zero32 == << >>
ChainHash(prev, link) == Append(prev, link)

ChainHashes(links) ==
    LET hash[i \in 0..Len(links)] ==
            IF i = 0 THEN Zero32 ELSE ChainHash(hash[i - 1], links[i])
    IN  [i \in 1..Len(links) |-> hash[i]]

---------------------------------------------------------------------------
(* The tree. *)

EmptyTree == <<"nothing">>
LeafHash(c) == <<"leaf", c>>
NodeHash(l, r) == <<"node", l, r>>
LeavesOf(hashes) == [i \in 1..Len(hashes) |-> LeafHash(hashes[i])]

\* The largest power of two below n, for n >= 2.
SplitPoint(n) ==
    LET double[k \in 1..n] == IF 2 * k < n THEN double[2 * k] ELSE k
    IN  double[1]

\* SubtreeRoots(leaves)[w][s] is the head over the w leaves from index s on.
SubtreeRoots(leaves) ==
    LET n == Len(leaves)
        root[w \in 0..n] ==
            [s \in 0..(n - w) |->
                CASE w = 0 -> EmptyTree
                  [] w = 1 -> leaves[s + 1]
                  [] OTHER -> LET k == SplitPoint(w)
                              IN  NodeHash(root[k][s], root[w - k][s + k])]
    IN  root

MerkleRoot(leaves) == SubtreeRoots(leaves)[Len(leaves)][0]

\* The siblings on the way from a leaf to the root.
AuditPath(leaves, index) ==
    LET n == Len(leaves)
        root == SubtreeRoots(leaves)
        path[w \in 0..n] ==
            [s \in 0..(n - w) |->
                LET k == SplitPoint(w)
                IN  IF w <= 1 THEN << >>
                    ELSE IF index < s + k THEN Append(path[k][s], root[w - k][s + k])
                    ELSE Append(path[w - k][s + k], root[k][s])]
    IN  path[n][0]

\* What proves that the first m leaves are a prefix.  The split always leaves
\* m where it is, so the recursion is on the interval alone; it still is the
\* root of the earlier tree as long as the interval starts at 0.
ConsistencyProof(leaves, m) ==
    LET n == Len(leaves)
        root == SubtreeRoots(leaves)
        proof[w \in 0..n] ==
            [s \in 0..(n - w) |->
                LET k == SplitPoint(w)
                IN  IF w <= 1 \/ m = s + w THEN IF s = 0 THEN << >> ELSE <<root[w][s]>>
                    ELSE IF m <= s + k THEN Append(proof[k][s], root[w - k][s + k])
                    ELSE Append(proof[w - k][s + k], root[k][s])]
    IN  proof[n][0]

---------------------------------------------------------------------------
(* Checking a proof: fn is the node's place in its level, sn the last place. *)

\* One step for each hash of a proof.
Walk(Step(_, _), start, proof) ==
    LET at[i \in 0..Len(proof)] == IF i = 0 THEN start ELSE Step(at[i - 1], proof[i])
    IN  at[Len(proof)]

\* How often n, not 0, can be halved.
TrailingZeros(n) ==
    LET zeros[k \in 1..n] == IF k % 2 = 1 THEN 0 ELSE 1 + zeros[k \div 2]
    IN  zeros[n]

Halve(w, times) ==
    LET half[i \in 0..times] ==
            IF i = 0 THEN w ELSE [half[i - 1] EXCEPT !.fn = @ \div 2, !.sn = @ \div 2]
    IN  half[times]

\* Mutated form of Rise: one level, whether or not there is a sibling there.
RiseOnce(fn) == 1

\* The levels a walk rises after taking a left sibling: one, and those at
\* which the node is the last of its level and has no sibling.
Rise(fn) == TrailingZeros(fn) + 1

FromLeft(w) == w.fn % 2 = 1 \/ w.fn = w.sn

\* One sibling consumed; a walk that is at the root already is too long.
Climb(w, p) ==
    IF w.sn = 0 THEN [w EXCEPT !.ok = FALSE]
    ELSE IF FromLeft(w) THEN Halve([w EXCEPT !.r = NodeHash(p, @)], Rise(w.fn))
    ELSE Halve([w EXCEPT !.r = NodeHash(@, p)], 1)

VerifyInclusion(leaf, index, size, proof, root) ==
    /\ index \in 0..(size - 1)
    /\ LET w == Walk(Climb, [fn |-> index, sn |-> size - 1, r |-> leaf, ok |-> TRUE], proof)
       IN  w.ok /\ w.sn = 0 /\ w.r = root

\* The same for two trees at once: fr the earlier root, sr the later.
ClimbBoth(w, c) ==
    IF w.sn = 0 THEN [w EXCEPT !.ok = FALSE]
    ELSE IF FromLeft(w)
    THEN Halve([w EXCEPT !.fr = NodeHash(c, @), !.sr = NodeHash(c, @)], Rise(w.fn))
    ELSE Halve([w EXCEPT !.sr = NodeHash(@, c)], 1)

VerifyConsistency(m, n, rootM, rootN, proof) ==
    /\ m \in 1..n
    /\ IF m = n THEN proof = << >> /\ rootM = rootN
       ELSE /\ proof # << >>
            /\ LET start == Halve([fn |-> m - 1, sn |-> n - 1], TrailingZeros(m))
                   whole == start.fn = 0
                   from == IF whole THEN rootM ELSE Head(proof)
                   w0 == [fn |-> start.fn, sn |-> start.sn, fr |-> from, sr |-> from, ok |-> TRUE]
                   w == Walk(ClimbBoth, w0, IF whole THEN proof ELSE Tail(proof))
               IN  w.ok /\ w.sn = 0 /\ w.fr = rootM /\ w.sr = rootN
=============================================================================
