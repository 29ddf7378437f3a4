-------------------------- MODULE TsaClientProofs ---------------------------
(***************************************************************************)
(* Proofs about TsaClient, for any authorities, any number of attempts and *)
(* rounds, and whatever the network and the authorities answer:            *)
(*                                                                         *)
(* - the round keeps the promise of TsaRound: the steps that lead nowhere  *)
(*   in TsaRound are stutters, every other is one of its steps;            *)
(* - the tokens it keeps hold, and no honest one is turned away, for       *)
(*   nonces of any length and bytes.                                       *)
(***************************************************************************)
EXTENDS TsaClient, TLAPS, FiniteSetTheorems, SequenceTheorems, WellFoundedInduction

---------------------------------------------------------------------------
(* The endpoints in the order of a round. *)

(* A round tries every authority, and none twice. *)
LEMMA EveryoneInOrder ==
    ASSUME NEW o \in SetToSeqs(Authorities)
    PROVE  /\ Len(o) \in Nat \ {0}
           /\ \A i \in 1..Len(o) : o[i] \in Authorities
           /\ \A i, j \in 1..Len(o) : i # j => o[i] # o[j]
           /\ \A a \in Authorities : \E i \in 1..Len(o) : o[i] = a
<1> DEFINE n == Cardinality(Authorities)
<1>1. n \in Nat \ {0}
  BY TsaConstants, FS_CardinalityType, FS_EmptySet
<1>2. /\ o \in [1..n -> Authorities]
      /\ \A i, j \in 1..n : i # j => o[i] # o[j]
  BY DEF SetToSeqs
<1>3. Len(o) = n
  BY <1>1, <1>2
<1>4. \A a \in Authorities : \E i \in 1..n : o[i] = a
  <2>1. IsFiniteSet(1..n) /\ Cardinality(1..n) = n
    BY <1>1, FS_Interval
  <2>2. o \in Injection(1..n, Authorities)
    BY <1>2 DEF Injection, IsInjective
  <2>3. o \in Surjection(1..n, Authorities)
    BY <2>1, <2>2, TsaConstants, FS_Injection
  <2> QED
    BY <2>3 DEF Surjection
<1> QED
  BY <1>1, <1>2, <1>3, <1>4

---------------------------------------------------------------------------
(* The invariant: authorities before the turn are dealt with, those after  *)
(* it are untouched, and the one whose turn it is may still be asked.      *)

Answered == {tokens[i].tsa : i \in 1..Len(tokens)}

DealtWith(a) == a \in Answered \/ failed[a] = Attempts

Typed ==
    /\ order \in SetToSeqs(Authorities)
    /\ wantAll \in BOOLEAN
    /\ turn \in 1..Len(order)
    /\ failed \in [Authorities -> 0..Attempts]
    /\ lastError \in BOOLEAN
    /\ tokens \in Seq({tokens[i] : i \in 1..Len(tokens)})
    /\ pc \in {"send", "wait", "sleep", "settled", "done", "hung"}

AskingOne ==
    pc \in {"send", "wait", "sleep"} =>
        /\ Endpoint \notin Answered
        /\ failed[Endpoint] < Attempts
        /\ wantAll \/ Answered = {}

SettledOne ==
    pc = "settled" =>
        /\ lastError => failed[Endpoint] = Attempts /\ (wantAll \/ Answered = {})
        /\ ~lastError => Endpoint \in Answered

InTurn ==
    pc \in {"send", "wait", "sleep", "settled"} =>
        /\ \A i \in 1..(turn - 1) : DealtWith(order[i])
        /\ \A i \in (turn + 1)..Len(order) :
             order[i] \notin Answered /\ failed[order[i]] = 0

IInv == Typed /\ AskingOne /\ SettledOne /\ InTurn

(* The first token of a round, or one more. *)
LEMMA TokenKept ==
    ASSUME Typed, NEW a, NEW t,
           tokens' = Append(tokens, [tsa |-> a, token |-> t])
    PROVE  /\ tokens' \in Seq({tokens'[i] : i \in 1..Len(tokens')})
           /\ Answered' = Answered \cup {a}
<1> DEFINE S == {tokens[i] : i \in 1..Len(tokens)}
           r == [tsa |-> a, token |-> t]
<1>1. tokens \in Seq(S)
  BY DEF Typed
<1>2. /\ Len(tokens) \in Nat
      /\ Len(tokens') = Len(tokens) + 1
      /\ \A i \in 1..Len(tokens) : tokens'[i] = tokens[i]
      /\ tokens'[Len(tokens) + 1] = r
      /\ tokens' \in Seq(S \cup {r})
  BY <1>1
<1>3. {tokens'[i] : i \in 1..Len(tokens')} = S \cup {r}
  BY <1>2
<1>4. Answered' = Answered \cup {a}
  BY <1>2 DEF Answered
<1> QED
  BY <1>2, <1>3, <1>4

(* A round that starts has dealt with nobody. *)
LEMMA RoundStarts ==
    ASSUME StartsRound
    PROVE  IInv'
<1>1. order' \in SetToSeqs(Authorities) /\ turn' = 1 /\ pc' = "send" /\ tokens' = <<>>
      /\ wantAll' \in BOOLEAN /\ lastError' = FALSE
      /\ failed' = [a \in Authorities |-> 0]
  BY DEF StartsRound
<1>2. Answered' = {}
  BY <1>1 DEF Answered
<1>3. /\ Len(order') \in Nat \ {0}
      /\ \A i \in 1..Len(order') : order'[i] \in Authorities
  BY <1>1, EveryoneInOrder
<1>4. Typed'
  <2>1. tokens' \in Seq({tokens'[i] : i \in 1..Len(tokens')})
    BY <1>1
  <2>2. failed' \in [Authorities -> 0..Attempts] /\ turn' \in 1..Len(order')
    BY <1>1, <1>3, TsaConstants
  <2>3. lastError' \in BOOLEAN /\ pc' \in {"send", "wait", "sleep", "settled", "done", "hung"}
    BY <1>1
  <2> QED
    BY <1>1, <2>1, <2>2, <2>3, Zenon DEF Typed
<1> QED
  BY <1>1, <1>2, <1>3, <1>4, TsaConstants DEF IInv, AskingOne, SettledOne, InTurn, Endpoint

LEMMA InitKeeps == Init => IInv
<1> SUFFICES ASSUME Init PROVE IInv
  OBVIOUS
<1>1. Answered = {}
  BY DEF Init, Answered
<1>2. /\ Len(order) \in Nat \ {0}
      /\ \A i \in 1..Len(order) : order[i] \in Authorities
  BY EveryoneInOrder DEF Init
<1>3. Typed
  <2>1. tokens \in Seq({tokens[i] : i \in 1..Len(tokens)})
    BY DEF Init
  <2>2. failed \in [Authorities -> 0..Attempts] /\ turn \in 1..Len(order)
    BY <1>2, TsaConstants DEF Init
  <2>3. lastError \in BOOLEAN /\ pc \in {"send", "wait", "sleep", "settled", "done", "hung"}
    BY DEF Init
  <2> QED
    BY <2>1, <2>2, <2>3, Zenon DEF Init, Typed
<1> QED
  BY <1>1, <1>2, <1>3, TsaConstants DEF Init, IInv, AskingOne, SettledOne, InTurn, Endpoint

(* The authority whose turn it is, is one of those configured. *)
LEMMA EndpointKnown ==
    ASSUME IInv
    PROVE  Endpoint \in Authorities
BY EveryoneInOrder DEF IInv, Typed, Endpoint

(* While an authority is being asked, the abstract round is open for it. *)
LEMMA RoundOpen ==
    ASSUME IInv, pc = "wait"
    PROVE  Round!Open(Endpoint)
<1>1. /\ Len(order) \in Nat \ {0}
      /\ \A a \in Authorities : \E i \in 1..Len(order) : order[i] = a
  BY EveryoneInOrder DEF IInv, Typed
<1>2. ASSUME NEW b \in Authorities \ {Endpoint}
      PROVE  DealtWith(b) \/ (b \notin Answered /\ failed[b] = 0)
  <2>1. PICK i \in 1..Len(order) : order[i] = b
    BY <1>1
  <2>2. i \in 1..(turn - 1) \/ i \in (turn + 1)..Len(order)
    BY <1>1, <2>1 DEF IInv, Typed, Endpoint
  <2> QED
    BY <2>1, <2>2 DEF IInv, InTurn
<1>3. Endpoint \in Authorities
  BY EndpointKnown
<1>4. /\ Endpoint \notin Answered /\ failed[Endpoint] # Attempts
      /\ wantAll \/ Answered = {}
  BY <1>3, TsaConstants DEF IInv, Typed, AskingOne
<1> QED
  BY <1>2, <1>4
     DEF IInv, Typed, Answered, DealtWith, Round!Open, Round!Settled, Round!Untouched

(* A failed attempt is a failure of the authority whose turn it is. *)
LEMMA FailureKeeps ==
    ASSUME IInv, pc = "wait", AttemptFailed
    PROVE  IInv' /\ Round!Fail(Endpoint)
<1>1. /\ Len(order) \in Nat \ {0}
      /\ \A i \in 1..Len(order) : order[i] \in Authorities
      /\ \A i, j \in 1..Len(order) : i # j => order[i] # order[j]
      /\ \A a \in Authorities : \E i \in 1..Len(order) : order[i] = a
  BY EveryoneInOrder DEF IInv, Typed
<1>2. Endpoint \in Authorities /\ Endpoint' = Endpoint /\ Answered' = Answered
  BY <1>1 DEF IInv, Typed, Endpoint, AttemptFailed, Answered
<1>3. /\ failed[Endpoint] < Attempts /\ Endpoint \notin Answered
      /\ wantAll \/ Answered = {}
      /\ failed'[Endpoint] = failed[Endpoint] + 1
      /\ \A a \in Authorities \ {Endpoint} : failed'[a] = failed[a]
      /\ failed' \in [Authorities -> 0..Attempts]
  BY <1>2, TsaConstants DEF IInv, Typed, AskingOne, AttemptFailed
<1>4. Typed'
  BY <1>3 DEF IInv, Typed, AttemptFailed
<1>5. AskingOne' /\ SettledOne'
  BY <1>2, <1>3, TsaConstants DEF IInv, Typed, AskingOne, SettledOne, AttemptFailed
<1>6. \A i \in 1..Len(order) : i # turn => order[i] \in Authorities \ {Endpoint}
  BY <1>1 DEF IInv, Typed, Endpoint
<1>7. InTurn'
  BY <1>1, <1>2, <1>3, <1>6 DEF IInv, Typed, InTurn, DealtWith, AttemptFailed
<1>8. Round!Fail(Endpoint)
  <2>1. Round!Open(Endpoint)
    BY RoundOpen
  <2>2. pc' # "done" /\ wantAll' = wantAll /\ failed' = [failed EXCEPT ![Endpoint] = @ + 1]
    BY DEF AttemptFailed
  <2> QED
    BY <1>2, <2>1, <2>2 DEF Answered, Round!Fail
<1> QED
  BY <1>4, <1>5, <1>7, <1>8 DEF IInv

(* A token kept is an answer of the authority whose turn it is. *)
LEMMA AnswerKeeps ==
    ASSUME IInv, pc = "wait", NEW t,
           tokens' = Append(tokens, [tsa |-> Endpoint, token |-> t]),
           lastError' = FALSE, pc' = "settled",
           UNCHANGED <<order, wantAll, turn, failed>>
    PROVE  IInv' /\ Round!Answer(Endpoint)
<1>1. Answered' = Answered \cup {Endpoint} /\ Endpoint' = Endpoint
      /\ tokens' \in Seq({tokens'[i] : i \in 1..Len(tokens')})
  BY TokenKept DEF IInv, Endpoint
<1>2. IInv'
  <2>1. Typed'
    BY <1>1 DEF IInv, Typed
  <2>2. AskingOne' /\ SettledOne'
    BY <1>1 DEF AskingOne, SettledOne
  <2>3. \A i \in 1..Len(order) : i # turn => order[i] # Endpoint
    BY EveryoneInOrder DEF IInv, Typed, Endpoint
  <2>4. InTurn'
    <3>1. turn \in 1..Len(order) /\ Len(order) \in Nat
      BY EveryoneInOrder DEF IInv, Typed
    <3> QED
      BY <1>1, <2>3, <3>1 DEF IInv, InTurn, DealtWith
  <2> QED
    BY <2>1, <2>2, <2>4 DEF IInv
<1>3. Round!Open(Endpoint)
  BY RoundOpen
<1> QED
  BY <1>1, <1>2, <1>3 DEF Answered, Round!Answer

(* A round comes to its end, or turns to the next authority. *)
LEMMA SettleKeeps ==
    ASSUME IInv, Settle
    PROVE  IInv' /\ (Round!End \/ UNCHANGED <<wantAll, failed, Answered, pc = "done">>)
<1>1. /\ Len(order) \in Nat \ {0}
      /\ \A i \in 1..Len(order) : order[i] \in Authorities
      /\ \A a \in Authorities : \E i \in 1..Len(order) : order[i] = a
  BY EveryoneInOrder DEF IInv, Typed
<1>2. pc = "settled" /\ Answered' = Answered
      /\ UNCHANGED <<order, wantAll, failed, tokens>>
  BY DEF Settle, Answered
<1>3. DealtWith(Endpoint)
  BY <1>2 DEF IInv, SettledOne, DealtWith, Typed
<1>4. turn \in 1..Len(order)
  BY DEF IInv, Typed
<1>5. \A i \in 1..turn : DealtWith(order[i])
  <2>1. \A i \in 1..turn : i \in 1..(turn - 1) \/ i = turn
    BY <1>1, <1>4
  <2> QED
    BY <1>2, <1>3, <2>1 DEF IInv, InTurn, Endpoint
<1>6. CASE turn < Len(order) /\ (lastError \/ wantAll)
  <2>1. turn' = turn + 1 /\ pc' = "send" /\ lastError' = FALSE
    BY <1>6 DEF Settle
  <2>2. Typed'
    <3>1. turn' \in 1..Len(order)
      BY <1>1, <1>4, <1>6, <2>1
    <3>2. tokens' \in Seq({tokens'[i] : i \in 1..Len(tokens')})
      BY <1>2, Zenon DEF IInv, Typed
    <3>3. pc' \in {"send", "wait", "sleep", "settled", "done", "hung"} /\ lastError' \in BOOLEAN
      BY <2>1
    <3> QED
      BY <1>2, <3>1, <3>2, <3>3, Zenon DEF IInv, Typed
  <2>3. Endpoint' \notin Answered /\ failed[Endpoint'] = 0
    BY <1>1, <1>2, <1>4, <1>6, <2>1 DEF IInv, InTurn, Endpoint
  <2>4. wantAll \/ Answered = {}
    BY <1>2, <1>6 DEF IInv, SettledOne
  <2>5. AskingOne' /\ SettledOne'
    BY <1>2, <2>1, <2>3, <2>4, TsaConstants DEF AskingOne, SettledOne
  <2>6. InTurn'
    BY <1>1, <1>2, <1>4, <1>5, <2>1 DEF IInv, InTurn, DealtWith
  <2> QED
    BY <1>2, <2>1, <2>2, <2>5, <2>6 DEF IInv
<1>7. CASE ~(turn < Len(order) /\ (lastError \/ wantAll))
  <2>1. pc' = "done" /\ turn' = turn /\ lastError' = lastError
    BY <1>7 DEF Settle
  <2>2. IInv'
    BY <1>2, <2>1 DEF IInv, Typed, AskingOne, SettledOne, InTurn
  <2>3. CASE turn = Len(order)
    <3>1. \A a \in Authorities : DealtWith(a)
      BY <1>1, <1>5, <2>3
    <3> QED
      BY <1>2, <2>1, <2>2, <3>1 DEF Answered, DealtWith, Round!End, Round!Settled
  <2>4. CASE turn # Len(order)
    <3>1. ~wantAll /\ ~lastError
      BY <1>1, <1>4, <1>7, <2>4
    <3>2. Answered # {}
      BY <1>2, <3>1 DEF IInv, SettledOne
    <3> QED
      BY <1>2, <2>1, <2>2, <3>1, <3>2 DEF Answered, Round!End
  <2> QED
    BY <2>3, <2>4
<1> QED
  BY <1>6, <1>7

---------------------------------------------------------------------------

roundVars == <<wantAll, failed, Answered, pc = "done">>

(* Every step keeps the invariant and is a step of the abstract round, or  *)
(* leaves it as it is.                                                     *)
LEMMA StepRefines ==
    ASSUME IInv, [Next]_vars
    PROVE  IInv' /\ (Round!Next \/ UNCHANGED roundVars)
<1>0. Endpoint \in Authorities
  BY EndpointKnown
<1>1. CASE Send \/ Wake \/ CutOff
  <2>1. UNCHANGED <<order, wantAll, turn, failed, lastError, tokens>>
        /\ pc # "done" /\ pc' # "done"
        /\ pc' \in {"send", "wait", "hung"} /\ pc \in {"send", "wait", "sleep"}
    BY <1>1 DEF Send, Wake, CutOff
  <2>2. Answered' = Answered /\ Endpoint' = Endpoint
    BY <2>1 DEF Answered, Endpoint
  <2> QED
    BY <2>1, <2>2
       DEF IInv, Typed, AskingOne, SettledOne, InTurn, DealtWith, roundVars
<1>2. CASE NoAnswer
  <2>1. IInv' /\ Round!Fail(Endpoint)
    BY <1>2, FailureKeeps DEF NoAnswer
  <2> QED
    BY <1>0, <2>1 DEF Round!Next
<1>3. ASSUME NEW body, pc = "wait", AnswerWith(body)
      PROVE  IInv' /\ Round!Next
  <2>1. CASE ValidateTsr(body)
    <3>1. IInv' /\ Round!Answer(Endpoint)
      BY <1>3, <2>1, AnswerKeeps DEF AnswerWith
    <3> QED
      BY <1>0, <3>1 DEF Round!Next, Round!Answer
  <2>2. CASE ~ValidateTsr(body)
    <3>1. IInv' /\ Round!Fail(Endpoint)
      BY <1>3, <2>2, FailureKeeps DEF AnswerWith
    <3> QED
      BY <1>0, <3>1 DEF Round!Next
  <2> QED
    BY <2>1, <2>2
<1>4. CASE SignedAnswer \/ ReplayedAnswer
  <2>1. PICK body : pc = "wait" /\ AnswerWith(body)
    BY <1>4 DEF SignedAnswer, ReplayedAnswer
  <2> QED
    BY <1>3, <2>1
<1>5. CASE Settle
  <2>1. IInv' /\ (Round!End \/ UNCHANGED roundVars)
    BY <1>5, SettleKeeps DEF roundVars
  <2> QED
    BY <2>1 DEF Round!Next
<1>6. CASE NextRound
  <2>1. StartsRound
    BY <1>6 DEF NextRound
  <2>2. IInv'
    BY <2>1, RoundStarts
  <2>3. Round!Again
    BY <2>1 DEF StartsRound, Round!Again, Round!Fresh
  <2> QED
    BY <2>2, <2>3 DEF Round!Next
<1>7. CASE UNCHANGED vars
  <2>1. Answered' = Answered /\ Endpoint' = Endpoint
    BY <1>7 DEF vars, Answered, Endpoint
  <2> QED
    BY <1>7, <2>1
       DEF vars, IInv, Typed, AskingOne, SettledOne, InTurn, DealtWith, roundVars
<1> QED
  BY <1>1, <1>2, <1>4, <1>5, <1>6, <1>7 DEF Next, Settles, Proceeds

(* The round TsaClient walks through, with its retries, time limits,       *)
(* refused answers and replays, is a round of TsaRound: authorities are    *)
(* dealt with one at a time, nobody is asked after a token that was        *)
(* enough, and silence is reported only after every attempt failed.        *)
THEOREM RoundImplementsPromise == Spec => RoundRefined
<1>1. Init => IInv /\ Round!Init
  <2>1. Init => Answered = {} /\ pc # "done"
    BY DEF Init, Answered
  <2> QED
    BY <2>1, InitKeeps DEF Init, Answered, Round!Init, Round!Fresh
<1>2. IInv /\ [Next]_vars => IInv' /\ [Round!Next]_roundVars
  BY StepRefines
<1> QED
  BY <1>1, <1>2, PTL DEF Spec, RoundRefined, Round!Spec, roundVars, Answered


---------------------------------------------------------------------------
(* Nonces: however an authority writes one back, what is left once padding *)
(* and leading zeros are off is what is left of the nonce drawn, and of no *)
(* other.                                                                  *)

Bytes == Seq(Byte) \ {<<>>}

(* Where the value of a byte sequence starts. *)
StartsAt(s, k) ==
    /\ k \in 1..Len(s)
    /\ \A i \in 1..(k - 1) : s[i] = 0
    /\ k = Len(s) \/ s[k] # 0

LEMMA LeastNat ==
    ASSUME NEW T \in SUBSET Nat, T # {}
    PROVE  \E x \in T : \A y \in T : x <= y
<1> DEFINE R == OpToRel(<, Nat)
<1>1. IsWellFoundedOn(R, Nat)
  BY NatLessThanWellFounded
<1>2. \E x \in T : \A y \in T : <<y, x>> \notin R
  <2> HIDE DEF R
  <2> QED
    BY <1>1, WFMin
<1>3. \A x, y \in Nat : <<x, y>> \in R <=> x < y
  BY DEF OpToRel
<1>4. PICK x \in T : \A y \in T : <<y, x>> \notin R
  BY <1>2
<1>5. x \in Nat /\ \A y \in T : y \in Nat
  OBVIOUS
<1>6. \A y \in T : x <= y
  <2> SUFFICES ASSUME NEW y \in T PROVE x <= y
    OBVIOUS
  <2>1. ~ (y < x)
    BY <1>3, <1>4, <1>5
  <2> QED
    BY <1>5, <2>1
<1> QED
  BY <1>4, <1>6

LEMMA SomeStart ==
    ASSUME NEW s \in Bytes
    PROVE  \E k : StartsAt(s, k)
<1> DEFINE T == {i \in 1..Len(s) : i = Len(s) \/ s[i] # 0}
<1>1. Len(s) \in Nat \ {0}
  BY DEF Bytes
<1>2. T \in SUBSET Nat /\ T # {}
  BY <1>1
<1>3. PICK k \in T : \A y \in T : k <= y
  <2> HIDE DEF T
  <2> QED
    BY <1>2, LeastNat
<1>4. \A i \in 1..(k - 1) : s[i] = 0
  <2> SUFFICES ASSUME NEW i \in 1..(k - 1), s[i] # 0 PROVE FALSE
    OBVIOUS
  <2>1. i \in T /\ i < k
    BY <1>1, <1>3
  <2> QED
    BY <1>1, <1>3, <2>1
<1> QED
  BY <1>3, <1>4 DEF StartsAt

LEMMA TrimIs ==
    ASSUME NEW s \in Bytes, NEW k, StartsAt(s, k)
    PROVE  /\ TrimLeadingZeroBytes(s) \in Bytes
           /\ Len(TrimLeadingZeroBytes(s)) = Len(s) - k + 1
           /\ \A i \in 1..(Len(s) - k + 1) : TrimLeadingZeroBytes(s)[i] = s[k + i - 1]
<1> DEFINE T == {i \in 1..Len(s) : i = Len(s) \/ s[i] # 0}
           t == SubSeq(s, k, Len(s))
<1>1. Len(s) \in Nat \ {0} /\ k \in 1..Len(s) /\ \A i \in 1..Len(s) : s[i] \in Byte
  BY DEF Bytes, StartsAt
<1>2. k \in T /\ \A y \in T : k <= y
  BY <1>1 DEF StartsAt
<1>3. Min(T) = k
  <2>1. T \in SUBSET Nat
    BY <1>1
  <2> HIDE DEF T
  <2>2. \A x \in T : (\A y \in T : x <= y) => x = k
    BY <1>2, <2>1
  <2> QED
    BY <1>2, <2>2 DEF Min
<1>4. TrimLeadingZeroBytes(s) = t
  BY <1>3 DEF TrimLeadingZeroBytes
<1>5. /\ t \in Seq(Byte) /\ Len(t) = Len(s) - k + 1
      /\ \A i \in 1..(Len(s) - k + 1) : t[i] = s[k + i - 1]
  BY <1>1, SubSeqProperties
<1>6. t # <<>>
  <2>1. Len(t) # 0
    BY <1>1, <1>5
  <2> HIDE DEF t
  <2> QED
    BY <2>1
<1> QED
  BY <1>4, <1>5, <1>6 DEF Bytes

(* Two byte sequences that end alike from where their values start are     *)
(* the same once trimmed.                                                  *)
LEMMA SameTrim ==
    ASSUME NEW s \in Bytes, NEW t \in Bytes, NEW j, NEW k, StartsAt(s, j), StartsAt(t, k),
           Len(s) - j = Len(t) - k,
           \A i \in 1..(Len(s) - j + 1) : s[j + i - 1] = t[k + i - 1]
    PROVE  TrimLeadingZeroBytes(s) = TrimLeadingZeroBytes(t)
<1> DEFINE u == TrimLeadingZeroBytes(s)
           v == TrimLeadingZeroBytes(t)
<1>1. u \in Bytes /\ Len(u) = Len(s) - j + 1 /\ \A i \in 1..(Len(s) - j + 1) : u[i] = s[j + i - 1]
  BY TrimIs
<1>2. v \in Bytes /\ Len(v) = Len(t) - k + 1 /\ \A i \in 1..(Len(t) - k + 1) : v[i] = t[k + i - 1]
  BY TrimIs
<1>3. Len(s) \in Nat /\ Len(t) \in Nat /\ j \in Nat /\ k \in Nat
  BY DEF Bytes, StartsAt
<1>4. Len(u) = Len(v) /\ \A i \in 1..Len(u) : u[i] = v[i]
  BY <1>1, <1>2, <1>3
<1> HIDE DEF u, v
<1>5. u \in Seq(Byte) /\ v \in Seq(Byte)
  BY <1>1, <1>2 DEF Bytes
<1>6. u = v
  BY <1>4, <1>5, SeqEqual
<1> QED
  BY <1>6 DEF u, v

(* A zero byte in front changes nothing. *)
LEMMA ZeroInFront ==
    ASSUME NEW s \in Bytes, Len(s) >= 2, s[1] = 0
    PROVE  Tail(s) \in Bytes /\ TrimLeadingZeroBytes(Tail(s)) = TrimLeadingZeroBytes(s)
<1> DEFINE t == Tail(s)
<1>1. /\ Len(s) \in Nat /\ s \in Seq(Byte) /\ t \in Seq(Byte) /\ Len(t) = Len(s) - 1
      /\ \A i \in 1..(Len(s) - 1) : t[i] = s[i + 1]
  <2>1. s # <<>> /\ s \in Seq(Byte)
    BY DEF Bytes
  <2> QED
    BY <2>1, HeadTailProperties
<1> HIDE DEF t
<1>2. t \in Bytes
  <2>1. Len(t) # 0
    BY <1>1
  <2> QED
    BY <1>1, <2>1 DEF Bytes
<1>3. PICK k : StartsAt(t, k)
  BY <1>2, SomeStart
<1>4. k \in 1..Len(t) /\ \A i \in 1..(k - 1) : t[i] = 0
  BY <1>3 DEF StartsAt
<1>5. \A i \in 1..k : s[i] = 0
  <2> SUFFICES ASSUME NEW i \in 1..k, i # 1 PROVE s[i] = 0
    OBVIOUS
  <2>1. i - 1 \in 1..(k - 1) /\ i - 1 \in 1..(Len(s) - 1)
    BY <1>1, <1>4
  <2>2. t[i - 1] = s[(i - 1) + 1]
    BY <1>1, <2>1
  <2>3. (i - 1) + 1 = i
    BY <2>1
  <2> QED
    BY <1>4, <2>1, <2>2, <2>3
<1>6. StartsAt(s, k + 1)
  BY <1>1, <1>3, <1>4, <1>5 DEF StartsAt
<1>7. Len(t) - k = Len(s) - (k + 1)
  BY <1>1, <1>4
<1>8. \A i \in 1..(Len(t) - k + 1) : t[k + i - 1] = s[(k + 1) + i - 1]
  <2> SUFFICES ASSUME NEW i \in 1..(Len(t) - k + 1) PROVE t[k + i - 1] = s[(k + 1) + i - 1]
    OBVIOUS
  <2>1. k + i - 1 \in 1..(Len(s) - 1)
    BY <1>1, <1>4
  <2>2. t[k + i - 1] = s[(k + i - 1) + 1]
    BY <1>1, <2>1
  <2>3. (k + i - 1) + 1 = (k + 1) + i - 1
    BY <1>1, <1>4
  <2> QED
    BY <2>2, <2>3
<1>9. TrimLeadingZeroBytes(t) = TrimLeadingZeroBytes(s)
  BY <1>2, <1>3, <1>6, <1>7, <1>8, SameTrim
<1> QED
  BY <1>2, <1>9 DEF t

(* Trimming, taking a sign byte off and putting one on leave what trimming *)
(* leaves.                                                                 *)
LEMMA TrimTwice ==
    ASSUME NEW s \in Bytes
    PROVE  /\ TrimLeadingZeroBytes(s) \in Bytes
           /\ TrimLeadingZeroBytes(TrimLeadingZeroBytes(s)) = TrimLeadingZeroBytes(s)
<1> DEFINE t == TrimLeadingZeroBytes(s)
<1>1. PICK k : StartsAt(s, k)
  BY SomeStart
<1>2. t \in Bytes /\ Len(t) = Len(s) - k + 1 /\ \A i \in 1..(Len(s) - k + 1) : t[i] = s[k + i - 1]
  BY <1>1, TrimIs
<1>3. Len(s) \in Nat /\ k \in 1..Len(s) /\ (k = Len(s) \/ s[k] # 0)
  BY <1>1 DEF Bytes, StartsAt
<1> HIDE DEF t
<1>4. t[1] = s[k]
  BY <1>2, <1>3
<1>5. StartsAt(t, 1)
  BY <1>2, <1>3, <1>4 DEF StartsAt
<1>6. /\ Len(s) - k = Len(t) - 1
      /\ \A i \in 1..(Len(s) - k + 1) : s[k + i - 1] = t[1 + i - 1]
  BY <1>2, <1>3
<1>7. TrimLeadingZeroBytes(s) = TrimLeadingZeroBytes(t)
  BY <1>1, <1>2, <1>5, <1>6, SameTrim
<1> QED
  BY <1>2, <1>7 DEF t

LEMMA StripKeepsTrim ==
    ASSUME NEW s \in Bytes
    PROVE  /\ StripDerIntegerPadding(s) \in Bytes
           /\ TrimLeadingZeroBytes(StripDerIntegerPadding(s)) = TrimLeadingZeroBytes(s)
BY ZeroInFront DEF StripDerIntegerPadding

LEMMA DerKeepsTrim ==
    ASSUME NEW s \in Bytes
    PROVE  /\ DerInteger(s) \in Bytes
           /\ TrimLeadingZeroBytes(DerInteger(s)) = TrimLeadingZeroBytes(s)
<1> DEFINE z == <<0>> \o s
<1>1. s \in Seq(Byte) /\ s # <<>> /\ <<0>> \in Seq(Byte)
  BY DEF Bytes, Byte
<1>2. z \in Seq(Byte) /\ Len(z) >= 2 /\ z[1] = 0 /\ Tail(z) = s
  BY <1>1
<1> HIDE DEF z
<1>3. z \in Bytes
  BY <1>2 DEF Bytes
<1>4. TrimLeadingZeroBytes(z) = TrimLeadingZeroBytes(s)
  BY <1>2, <1>3, ZeroInFront
<1> QED
  BY <1>3, <1>4 DEF DerInteger, z

LEMMA EchoKeepsTrim ==
    ASSUME NEW n \in Bytes, NEW e \in Echoes(DerInteger(n)), e # NoNonce
    PROVE  /\ e \in Bytes
           /\ TrimLeadingZeroBytes(StripDerIntegerPadding(e)) = TrimLeadingZeroBytes(n)
<1> DEFINE c == DerInteger(n)
<1>1. c \in Bytes /\ TrimLeadingZeroBytes(c) = TrimLeadingZeroBytes(n)
  BY DerKeepsTrim
<1>2. e \in {c, DerInteger(TrimLeadingZeroBytes(c)), TrimLeadingZeroBytes(c)}
  BY DEF Echoes
<1> HIDE DEF c
<1>3. e \in Bytes /\ TrimLeadingZeroBytes(e) = TrimLeadingZeroBytes(n)
  BY <1>1, <1>2, TrimTwice, DerKeepsTrim
<1> QED
  BY <1>3, StripKeepsTrim

(* Equally long nonces that are the same once trimmed are the same. *)
LEMMA NoncesApart ==
    ASSUME NEW m \in Nonces, NEW n \in Nonces,
           TrimLeadingZeroBytes(m) = TrimLeadingZeroBytes(n)
    PROVE  m = n
<1>1. m \in Bytes /\ n \in Bytes /\ Len(m) = Len(n)
  BY TsaConstants DEF Bytes
<1>2. PICK j : StartsAt(m, j)
  BY <1>1, SomeStart
<1>3. PICK k : StartsAt(n, k)
  BY <1>1, SomeStart
<1> DEFINE t == TrimLeadingZeroBytes(m)
<1>4. Len(t) = Len(m) - j + 1 /\ \A i \in 1..(Len(m) - j + 1) : t[i] = m[j + i - 1]
  BY <1>1, <1>2, TrimIs
<1>5. Len(t) = Len(n) - k + 1 /\ \A i \in 1..(Len(n) - k + 1) : t[i] = n[k + i - 1]
  BY <1>1, <1>3, TrimIs
<1> HIDE DEF t
<1>6. /\ Len(m) \in Nat /\ Len(n) \in Nat /\ j \in 1..Len(m) /\ k \in 1..Len(n)
      /\ \A i \in 1..(j - 1) : m[i] = 0
      /\ \A i \in 1..(k - 1) : n[i] = 0
  BY <1>1, <1>2, <1>3 DEF Bytes, StartsAt
<1>7. j = k
  BY <1>1, <1>4, <1>5, <1>6
<1>8. \A i \in 1..Len(m) : m[i] = n[i]
  <2> SUFFICES ASSUME NEW i \in 1..Len(m) PROVE m[i] = n[i]
    OBVIOUS
  <2>1. CASE i < j
    BY <1>6, <1>7, <2>1
  <2>2. CASE i >= j
    <3>1. i - j + 1 \in 1..(Len(m) - j + 1) /\ j + (i - j + 1) - 1 = i
      BY <1>6, <2>2
    <3>2. t[i - j + 1] = m[j + (i - j + 1) - 1] /\ t[i - j + 1] = n[j + (i - j + 1) - 1]
      BY <1>1, <1>4, <1>5, <1>7, <3>1
    <3> QED
      BY <3>1, <3>2
  <2> QED
    BY <1>6, <2>1, <2>2
<1>9. m \in Seq(Byte) /\ n \in Seq(Byte)
  BY <1>1 DEF Bytes
<1> QED
  BY <1>1, <1>8, <1>9, SeqEqual


---------------------------------------------------------------------------
(* The invariant of the tokens: no query of an earlier round carried the   *)
(* nonce of this one, which is what tells an old answer from a new one.    *)

Asked == [document : Documents, content : Seq(Byte)]

Drawn ==
    /\ document \in Documents
    /\ nonce \in Nonces
    /\ past \in Seq(Asked)

PastAsked ==
    \A r \in 1..Len(past) : \E m \in Nonces \ {nonce} : past[r].content = DerInteger(m)

TokenHolds(token) ==
    /\ VerifyToken(token, document)
    /\ token.nonce # NoNonce => token.round = rounds

TokensInv == IInv /\ Drawn /\ PastAsked /\ KeptTokensHold /\ HonestTokenKept

(* Whoever sends it, a token that validates is over this document, and     *)
(* answers this round if it answers any query at all.                      *)
LEMMA ValidHolds ==
    ASSUME Drawn, PastAsked, NEW body, ValidateTsr(body),
           body.token \in HonestTokens \cup MistakenTokens \cup EarlierTokens \cup {NoToken}
    PROVE  TokenHolds(body.token)
<1> DEFINE t == body.token
<1>1. /\ t # NoToken /\ FindTstInfo(body) = t /\ NonceMatches(t)
      /\ t.alg = "sha256" /\ t.over = document
  BY DEF ValidateTsr, FindTstInfo
<1>2. CASE t \in HonestTokens \cup MistakenTokens
  <2>1. t.round = rounds
    BY <1>2 DEF HonestTokens, MistakenTokens, Signs, TokenOver
  <2> QED
    BY <1>1, <2>1 DEF TokenHolds, VerifyToken
<1>3. CASE t \in EarlierTokens
  <2>1. PICK r \in DOMAIN past : t \in Signs(past[r], r)
    BY <1>3 DEF EarlierTokens
  <2>2. r \in 1..Len(past)
    BY <2>1 DEF Drawn
  <2>3. PICK m \in Nonces \ {nonce} : past[r].content = DerInteger(m)
    BY <2>2 DEF PastAsked
  <2>4. t.nonce \in Echoes(DerInteger(m))
    BY <2>1, <2>3 DEF Signs, TokenOver
  <2>5. t.nonce = NoNonce
    <3> SUFFICES ASSUME t.nonce # NoNonce PROVE FALSE
      OBVIOUS
    <3>1. m \in Bytes
      BY TsaConstants DEF Bytes
    <3>2. /\ t.nonce \in Bytes
          /\ TrimLeadingZeroBytes(StripDerIntegerPadding(t.nonce)) = TrimLeadingZeroBytes(m)
      BY <2>4, <3>1, EchoKeepsTrim
    <3>3. StripDerIntegerPadding(t.nonce) # NoNonce
      BY <3>2, StripKeepsTrim, TsaConstants DEF Bytes
    <3>4. TrimLeadingZeroBytes(m) = TrimLeadingZeroBytes(nonce)
      BY <1>1, <3>2, <3>3 DEF NonceMatches, TstInfoNonce
    <3> QED
      BY <3>4, NoncesApart DEF Drawn
  <2> QED
    BY <1>1, <2>5 DEF TokenHolds, VerifyToken
<1> QED
  BY <1>1, <1>2, <1>3

(* A token an honest authority signed for this query validates, in the     *)
(* response or on its own.                                                 *)
LEMMA HonestValidates ==
    ASSUME Drawn, NEW body, body.token \in HonestTokens, body.token # NoToken,
           body.form = "bare" \/ (body.form = "response" /\ body.status \in {0, 1})
    PROVE  ValidateTsr(body)
<1> DEFINE t == body.token
<1>1. FindTstInfo(body) = t
  BY DEF FindTstInfo
<1>2. PICK e \in Echoes(DerInteger(nonce)) : t = TokenOver(document, "sha256", e, rounds)
  BY DEF HonestTokens, Signs, Query
<1>3. t.nonce = e /\ t.alg = "sha256" /\ t.over = document
  BY <1>2 DEF TokenOver
<1>4. NonceMatches(t)
  <2>1. CASE e = NoNonce
    BY <1>3, <2>1 DEF NonceMatches, TstInfoNonce
  <2>2. CASE e # NoNonce
    <3>1. nonce \in Bytes
      BY TsaConstants DEF Drawn, Bytes
    <3>2. TrimLeadingZeroBytes(StripDerIntegerPadding(e)) = TrimLeadingZeroBytes(nonce)
      BY <2>2, <3>1, EchoKeepsTrim
    <3> QED
      BY <1>3, <2>2, <3>2 DEF NonceMatches, TstInfoNonce
  <2> QED
    BY <2>1, <2>2
<1> QED
  BY <1>1, <1>3, <1>4 DEF ValidateTsr

(* What comes in keeps both, kept or turned away. *)
LEMMA AnswerKeepsTokens ==
    ASSUME TokensInv, NEW some, some \subseteq HonestTokens \cup MistakenTokens \cup EarlierTokens,
           NEW body \in Bodies(some), AnswerWith(body)
    PROVE  Drawn' /\ PastAsked' /\ KeptTokensHold' /\ HonestTokenKept'
<1>1. UNCHANGED <<document, nonce, past>>
  BY DEF AnswerWith, AttemptFailed
<1>2. Drawn' /\ PastAsked' /\ rounds' = rounds /\ HonestTokens' = HonestTokens
  BY <1>1 DEF TokensInv, Drawn, PastAsked, rounds, HonestTokens, Query
<1>3. body.token \in some \cup {NoToken}
      /\ (body.token = NoToken \/ body.form = "bare"
           \/ (body.form = "response" /\ body.status \in {0, 1}))
  BY DEF Bodies, Body
<1>4. CASE ValidateTsr(body)
  <2> DEFINE r == [tsa |-> Endpoint, token |-> body.token]
  <2>1. TokenHolds(body.token)
    BY <1>3, <1>4, ValidHolds DEF TokensInv
  <2>2. tokens' = Append(tokens, r) /\ refused' = refused
    BY <1>4 DEF AnswerWith
  <2>3. tokens \in Seq({tokens[i] : i \in 1..Len(tokens)})
    BY DEF TokensInv, IInv, Typed
  <2>4. r.token = body.token
    OBVIOUS
  <2> HIDE DEF r
  <2>5. /\ Len(tokens) \in Nat /\ Len(tokens') = Len(tokens) + 1
        /\ \A i \in 1..Len(tokens) : tokens'[i] = tokens[i]
        /\ tokens'[Len(tokens) + 1] = r
    BY <2>2, <2>3
  <2>6. \A i \in 1..Len(tokens) : TokenHolds(tokens[i].token)
    BY DEF TokensInv, KeptTokensHold, TokenHolds
  <2>7. \A i \in 1..Len(tokens') : TokenHolds(tokens'[i].token)
    BY <2>1, <2>4, <2>5, <2>6
  <2>8. KeptTokensHold'
    BY <1>1, <1>2, <2>7 DEF KeptTokensHold, TokenHolds
  <2> QED
    BY <1>2, <2>2, <2>8 DEF TokensInv, HonestTokenKept
<1>5. CASE ~ValidateTsr(body)
  <2>1. refused' = {body.token} \ {NoToken} /\ tokens' = tokens
    BY <1>5 DEF AnswerWith, AttemptFailed
  <2>2. body.token = NoToken \/ body.token \notin HonestTokens
    BY <1>3, <1>5, HonestValidates DEF TokensInv
  <2> QED
    BY <1>1, <1>2, <2>1, <2>2 DEF TokensInv, KeptTokensHold, HonestTokenKept
<1> QED
  BY <1>4, <1>5

LEMMA TokensStep ==
    ASSUME TokensInv, [Next]_vars
    PROVE  TokensInv'
<1>1. IInv'
  BY StepRefines DEF TokensInv
<1>2. CASE Send \/ Wake \/ CutOff \/ NoAnswer \/ Settle \/ UNCHANGED vars
  <2>1. UNCHANGED <<document, nonce, past, tokens, refused>>
    BY <1>2 DEF Send, Wake, CutOff, NoAnswer, AttemptFailed, Settle, vars
  <2> QED
    BY <1>1, <2>1
       DEF TokensInv, Drawn, PastAsked, KeptTokensHold, HonestTokenKept, rounds,
           HonestTokens, Query
<1>3. CASE SignedAnswer
  <2>1. PICK token \in HonestTokens \cup MistakenTokens : \E body \in Bodies({token}) : AnswerWith(body)
    BY <1>3 DEF SignedAnswer
  <2>2. PICK body \in Bodies({token}) : AnswerWith(body)
    BY <2>1
  <2> QED
    BY <1>1, <2>2, AnswerKeepsTokens DEF TokensInv
<1>4. CASE ReplayedAnswer
  <2>1. PICK body \in Bodies(EarlierTokens) : AnswerWith(body)
    BY <1>4 DEF ReplayedAnswer
  <2> QED
    BY <1>1, <2>1, AnswerKeepsTokens DEF TokensInv
<1>5. CASE NextRound
  <2>1. /\ past' = Append(past, Query) /\ document' \in Documents
        /\ nonce' \in Nonces \ {nonce}
        /\ \A r \in DOMAIN past : past[r].content # DerInteger(nonce')
        /\ tokens' = <<>> /\ refused' = {}
    BY <1>5 DEF NextRound, StartsRound
  <2>2. Query \in Asked /\ Query.content = DerInteger(nonce)
    <3>1. nonce \in Bytes
      BY TsaConstants DEF TokensInv, Drawn, Bytes
    <3>2. DerInteger(nonce) \in Seq(Byte)
      BY <3>1, DerKeepsTrim DEF Bytes
    <3> QED
      BY <3>2 DEF TokensInv, Drawn, Query, Asked
  <2>3. past \in Seq(Asked)
    BY DEF TokensInv, Drawn
  <2>4. /\ Len(past) \in Nat /\ Len(past') = Len(past) + 1 /\ past' \in Seq(Asked)
        /\ DOMAIN past = 1..Len(past)
        /\ \A r \in 1..Len(past) : past'[r] = past[r]
        /\ past'[Len(past) + 1] = Query
    <3> HIDE DEF Asked
    <3> QED
      BY <2>1, <2>2, <2>3
  <2>5. PastAsked'
    <3> SUFFICES ASSUME NEW r \in 1..Len(past')
                 PROVE  \E m \in Nonces \ {nonce'} : past'[r].content = DerInteger(m)
      BY DEF PastAsked
    <3>1. CASE r = Len(past) + 1
      BY <2>1, <2>2, <2>4, <3>1 DEF TokensInv, Drawn
    <3>2. CASE r # Len(past) + 1
      <4>1. r \in 1..Len(past)
        BY <2>4, <3>2
      <4>2. PICK m \in Nonces \ {nonce} : past[r].content = DerInteger(m)
        BY <4>1 DEF TokensInv, PastAsked
      <4>3. m # nonce'
        BY <2>1, <2>4, <4>1, <4>2
      <4> QED
        BY <2>4, <4>1, <4>2, <4>3
    <3> QED
      BY <3>1, <3>2
  <2>6. KeptTokensHold' /\ HonestTokenKept' /\ Drawn'
    BY <2>1, <2>4 DEF KeptTokensHold, HonestTokenKept, Drawn
  <2> QED
    BY <1>1, <2>5, <2>6 DEF TokensInv
<1> QED
  BY <1>2, <1>3, <1>4, <1>5 DEF Next, Settles, Proceeds

(* The tokens and what they rest on, in every state. *)
THEOREM TokensInvariance == Spec => []TokensInv
<1>1. Init => TokensInv
  <2> SUFFICES ASSUME Init PROVE TokensInv
    OBVIOUS
  <2>1. IInv
    BY InitKeeps
  <2>2. past = <<>> /\ tokens = <<>> /\ refused = {} /\ document \in Documents /\ nonce \in Nonces
    BY DEF Init
  <2>3. past \in Seq(Asked)
    BY <2>2
  <2> QED
    BY <2>1, <2>2, <2>3 DEF TokensInv, Drawn, PastAsked, KeptTokensHold, HonestTokenKept
<1> QED
  BY <1>1, TokensStep, PTL DEF Spec

(* Whatever comes back, from whom and how late: the tokens a round keeps   *)
(* verify against the document it is for, and one that echoes a nonce      *)
(* answers this round and no earlier one.                                  *)
THEOREM KeptHold == Spec => []KeptTokensHold
BY TokensInvariance, PTL DEF TokensInv

(* No token signed for the query of the round is turned away, in whichever *)
(* of the encodings authorities write the nonce back.                      *)
THEOREM HonestKept == Spec => []HonestTokenKept
BY TokensInvariance, PTL DEF TokensInv
=============================================================================
