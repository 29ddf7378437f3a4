------------------------------ MODULE TsaRound ------------------------------
(***************************************************************************)
(* What a round of timestamp authorities promises its caller, apart from   *)
(* how it asks: authorities are dealt with one at a time, each until it    *)
(* has answered or failed Attempts times, and the round is over when one   *)
(* has answered (or all have been dealt with, when all are wanted).  It    *)
(* may report that nobody answered only after every one failed that often. *)
(*                                                                         *)
(* packages/chain/src/timestamp-rfc3161.ts:140-153                         *)
(***************************************************************************)
EXTENDS Integers

CONSTANTS Authorities, Attempts

VARIABLES
    wantAll,   \* whether every authority is to answer, or the first will do
    failed,    \* how often each authority has failed
    answered,  \* the authorities whose token was kept
    over       \* whether the caller has been told

Settled(a) == a \in answered \/ failed[a] = Attempts
Untouched(a) == a \notin answered /\ failed[a] = 0

Fresh ==
    /\ wantAll \in BOOLEAN
    /\ failed = [a \in Authorities |-> 0]
    /\ answered = {}
    /\ over = FALSE

Init == Fresh

Open(a) ==
    /\ ~over
    /\ ~Settled(a)
    /\ wantAll \/ answered = {}
    /\ \A b \in Authorities \ {a} : Settled(b) \/ Untouched(b)

Fail(a) ==
    /\ Open(a)
    /\ failed' = [failed EXCEPT ![a] = @ + 1]
    /\ UNCHANGED <<wantAll, answered, over>>

Answer(a) ==
    /\ Open(a)
    /\ answered' = answered \cup {a}
    /\ UNCHANGED <<wantAll, failed, over>>

End ==
    /\ ~over
    /\ \/ ~wantAll /\ answered # {}
       \/ \A a \in Authorities : Settled(a)
    /\ over' = TRUE
    /\ UNCHANGED <<wantAll, failed, answered>>

Again == Fresh'

Next == (\E a \in Authorities : Fail(a) \/ Answer(a)) \/ End \/ Again

Spec == Init /\ [][Next]_<<wantAll, failed, answered, over>>
=============================================================================
