----------------------------- MODULE TsaClient ------------------------------
(***************************************************************************)
(* Asking timestamp authorities for a token over a manifest.               *)
(*                                                                         *)
(*   tryTimestamps, sendTsaRequest   packages/chain/src/timestamp-rfc3161  *)
(*   validateTsr and what it calls   rfc3161-validate, -asn1, -tstinfo     *)
(*   buildTimeStampReq               rfc3161-request                       *)
(*   VerifyToken                     apps/verify/timestamp/rfc3161.go      *)
(*                                                                         *)
(* A round is one call of tryTimestamps.  It draws one nonce and sends one *)
(* query to every authority and at every attempt.  The network and the     *)
(* authorities may fail, answer with anything they ever signed, or cut an  *)
(* answer off.  A digest is known by the document it is over and every     *)
(* signature is good: what authorities cannot do is sign for each other.   *)
(***************************************************************************)
EXTENDS Integers, Sequences, FiniteSets, FiniteSetsExt, SequencesExt

CONSTANTS
    Authorities,  \* the configured endpoints
    Attempts,     \* attempts at each, options.attempts or 3
    Documents,    \* what may be timestamped
    Nonces,       \* nonces a round may draw, as byte sequences
    NoNonce,      \* a token without one
    NoToken,      \* an answer without one
    MaxRounds     \* bound: rounds

Byte == 0..255

\* cryptoRandomBytes(8): nonces are equally long.
ASSUME TsaConstants ==
    /\ IsFiniteSet(Authorities) /\ Authorities # {}
    /\ Attempts \in Nat \ {0} /\ MaxRounds \in Nat \ {0}
    /\ Nonces \subseteq Seq(Byte) \ {<<>>}
    /\ \A m, n \in Nonces : Len(m) = Len(n)
    /\ NoNonce \notin Seq(Byte)

VARIABLES
    order,      \* the endpoints as this round tries them
    wantAll,    \* options.requireAll
    document,   \* what is being timestamped
    nonce,      \* the nonce of this round
    turn,       \* which endpoint is being asked
    failed,     \* failed attempts at each endpoint
    pc,         \* where tryTimestamps is
    lastError,  \* whether the last attempt failed
    tokens,     \* tokens kept, with the endpoint that sent each
    errors,     \* endpoints given up on
    refused,    \* the token last turned away in this round, if any
    past        \* the earlier rounds: what each asked, and with which nonce

vars == <<order, wantAll, document, nonce, turn, failed, pc, lastError, tokens,
          errors, refused, past>>

rounds == Len(past) + 1

---------------------------------------------------------------------------
(* Integers in DER, as each side writes and reads them. *)

\* A sign byte in front of a value whose first bit is set; leading zeros of
\* the value stay, whether or not DER calls for them.
DerInteger(bytes) == IF Head(bytes) >= 128 THEN <<0>> \o bytes ELSE bytes

StripDerIntegerPadding(bytes) ==
    IF Len(bytes) >= 2 /\ bytes[1] = 0 /\ bytes[2] >= 128 THEN Tail(bytes) ELSE bytes

TrimLeadingZeroBytes(bytes) ==
    LET kept == {i \in 1..Len(bytes) : i = Len(bytes) \/ bytes[i] # 0}
    IN  SubSeq(bytes, Min(kept), Len(bytes))

\* How authorities write back the nonce of a query: as it came, in minimal
\* DER, without the sign byte, or not at all.
Echoes(content) ==
    {content, DerInteger(TrimLeadingZeroBytes(content)),
     TrimLeadingZeroBytes(content), NoNonce}

---------------------------------------------------------------------------
(* Answers and their validation. *)

Query == [document |-> document, content |-> DerInteger(nonce)]

TokenOver(doc, alg, echo, round) == [over |-> doc, alg |-> alg, nonce |-> echo, round |-> round]

\* What an honest authority signs when it is sent a round's query.
Signs(query, round) ==
    {TokenOver(query.document, "sha256", e, round) : e \in Echoes(query.content)}

HonestTokens == Signs(Query, rounds)

\* A token over something else, or with another digest.
MistakenTokens ==
    {TokenOver(d, "sha256", Query.content, rounds) : d \in Documents \ {document}}
        \cup {TokenOver(document, "sha1", Query.content, rounds)}

\* What may come back from an earlier round, whether or not it was seen then.
EarlierTokens == UNION {Signs(past[r], r) : r \in DOMAIN past}

Body(form, status, token) == [form |-> form, status |-> status, token |-> token]

\* A bare token, a response with it, a response without, or no DER at all.
Bodies(some) ==
    {Body("bare", 0, t) : t \in some} \cup {Body("response", s, t) : s \in {0, 1}, t \in some}
        \cup {Body("response", 2, NoToken), Body("junk", 0, NoToken)}

\* The token inside a body, NoToken when the walk to TSTInfo throws.
FindTstInfo(body) ==
    IF body.form = "junk" \/ (body.form = "response" /\ body.status \notin {0, 1})
    THEN NoToken ELSE body.token

TstInfoNonce(token) ==
    IF token.nonce = NoNonce THEN NoNonce ELSE StripDerIntegerPadding(token.nonce)

\* Faulty: comparing the bytes drawn with the bytes sent back.
NonceMatchesByBytes(token) == TstInfoNonce(token) \in {NoNonce, nonce}

\* Faulty: taking the nonce for checked by the transport.
NonceMatchesAlways(token) == TRUE

NonceMatches(token) ==
    \/ TstInfoNonce(token) = NoNonce
    \/ TrimLeadingZeroBytes(TstInfoNonce(token)) = TrimLeadingZeroBytes(nonce)

ValidateTsr(body) ==
    LET token == FindTstInfo(body)
    IN  /\ token # NoToken
        /\ NonceMatches(token)
        /\ token.alg = "sha256"
        /\ token.over = document

\* The verifier's reading of a token: the nonce is not its business.
VerifyToken(token, doc) == token.alg = "sha256" /\ token.over = doc

---------------------------------------------------------------------------
(* A round. *)

Endpoint == order[turn]

\* Every order the configured endpoints can be in, shuffled or preserved.
StartsRound ==
    /\ order' \in SetToSeqs(Authorities)
    /\ wantAll' \in BOOLEAN
    /\ document' \in Documents
    /\ turn' = 1
    /\ failed' = [a \in Authorities |-> 0]
    /\ pc' = "send"
    /\ lastError' = FALSE
    /\ tokens' = <<>> /\ errors' = <<>> /\ refused' = {}

Init ==
    /\ order \in SetToSeqs(Authorities)
    /\ wantAll \in BOOLEAN
    /\ document \in Documents
    /\ nonce \in Nonces
    /\ turn = 1
    /\ failed = [a \in Authorities |-> 0]
    /\ pc = "send"
    /\ lastError = FALSE
    /\ tokens = <<>> /\ errors = <<>> /\ refused = {}
    /\ past = <<>>

\* The query has gone out.
Send ==
    /\ pc = "send"
    /\ pc' = "wait"
    /\ UNCHANGED <<order, wantAll, document, nonce, turn, failed, lastError,
                   tokens, errors, refused, past>>

\* Faulty: retrying without counting.
AttemptFailedUncounted ==
    /\ failed' = [failed EXCEPT ![Endpoint] = (@ + 1) % Attempts]
    /\ lastError' = TRUE
    /\ pc' = "sleep"
    /\ UNCHANGED <<order, wantAll, document, nonce, turn, tokens, errors, past>>

\* An attempt failed: back off and try again, or give this endpoint up.
AttemptFailed ==
    /\ failed' = [failed EXCEPT ![Endpoint] = @ + 1]
    /\ lastError' = TRUE
    /\ pc' = IF failed[Endpoint] + 1 < Attempts THEN "sleep" ELSE "settled"
    /\ UNCHANGED <<order, wantAll, document, nonce, turn, tokens, errors, past>>

\* No connection, no answer in time, or a status other than 2xx.
NoAnswer ==
    /\ pc = "wait"
    /\ AttemptFailed
    /\ UNCHANGED refused

\* Faulty: not clearing the error of an earlier attempt.
AnswerWithKeepingError(body) ==
    IF ValidateTsr(body)
    THEN /\ tokens' = Append(tokens, [tsa |-> Endpoint, token |-> body.token])
         /\ pc' = "settled"
         /\ UNCHANGED <<order, wantAll, document, nonce, turn, failed, lastError,
                        errors, refused, past>>
    ELSE AttemptFailed /\ refused' = {body.token} \ {NoToken}

\* A whole answer arrives and is kept or turned away.
AnswerWith(body) ==
    IF ValidateTsr(body)
    THEN /\ tokens' = Append(tokens, [tsa |-> Endpoint, token |-> body.token])
         /\ lastError' = FALSE
         /\ pc' = "settled"
         /\ UNCHANGED <<order, wantAll, document, nonce, turn, failed, errors,
                        refused, past>>
    ELSE AttemptFailed /\ refused' = {body.token} \ {NoToken}

\* The authority signs, for this query or by mistake for something else.
SignedAnswer ==
    /\ pc = "wait"
    /\ \E token \in HonestTokens \cup MistakenTokens :
         \E body \in Bodies({token}) : AnswerWith(body)

\* An answer signed for an earlier query comes back.
ReplayedAnswer ==
    /\ pc = "wait"
    /\ \E body \in Bodies(EarlierTokens) : AnswerWith(body)

\* The connection closes inside the answer: neither 'end' nor 'error' nor
\* 'timeout' comes, the promise never settles and the process runs dry.
CutOff ==
    /\ pc = "wait"
    /\ pc' = "hung"
    /\ UNCHANGED <<order, wantAll, document, nonce, turn, failed, lastError,
                   tokens, errors, refused, past>>

Wake ==
    /\ pc = "sleep"
    /\ pc' = "send"
    /\ UNCHANGED <<order, wantAll, document, nonce, turn, failed, lastError,
                   tokens, errors, refused, past>>

\* The end of the loop's body: give up, go on to the next, or be content.
Settle ==
    /\ pc = "settled"
    /\ errors' = IF lastError THEN Append(errors, Endpoint) ELSE errors
    /\ IF turn < Len(order) /\ (lastError \/ wantAll)
       THEN turn' = turn + 1 /\ pc' = "send" /\ lastError' = FALSE
       ELSE pc' = "done" /\ UNCHANGED <<turn, lastError>>
    /\ UNCHANGED <<order, wantAll, document, nonce, failed, tokens,
                   refused, past>>

\* Another round, of this command or of a later one, over this document
\* again or over another; no nonce is taken to be drawn twice.
NextRound ==
    /\ pc \in {"done", "hung"}
    /\ rounds < MaxRounds
    /\ past' = Append(past, Query)
    /\ nonce' \in {n \in Nonces \ {nonce} : \A r \in DOMAIN past : past[r].content # DerInteger(n)}
    /\ StartsRound

\* What the socket's idle timeout makes sure of: an attempt does not wait
\* for ever.
Settles == NoAnswer \/ SignedAnswer \/ ReplayedAnswer \/ CutOff
Proceeds == Send \/ Wake \/ Settle

Next == Settles \/ Proceeds \/ NextRound

Spec == Init /\ [][Next]_vars
FairSpec == Spec /\ WF_vars(Settles) /\ WF_vars(Proceeds)

---------------------------------------------------------------------------
(* Properties. *)

Round == INSTANCE TsaRound WITH
    answered <- {tokens[i].tsa : i \in 1..Len(tokens)},
    over <- (pc = "done")

\* The round keeps the promise of its doc comment: one authority after the
\* other, each with all its attempts, nobody asked after a token that was
\* enough, and silence reported only after every attempt failed
\* (timestamp-rfc3161.ts:140-153).
RoundRefined == Round!Spec

\* An answered or silent round comes to an end however authorities fail;
\* "hung" is the answer that is cut off (timestamp-rfc3161.ts:68-90).
RoundEnds == []<>(pc \in {"done", "hung"})

\* What the round hands over will verify against the manifest it is for, and
\* a token that echoes a nonce was signed in answer to this round and to no
\* earlier one, whatever the encoding of the nonce (rfc3161-validate.ts).
KeptTokensHold ==
    \A i \in 1..Len(tokens) :
        LET token == tokens[i].token
        IN  /\ VerifyToken(token, document)
            /\ token.nonce # NoNonce => token.round = rounds

\* No token an honest authority signed for this very query is turned away,
\* however it writes the nonce back (rfc3161-validate.ts:42-56).
HonestTokenKept == refused \cap HonestTokens = {}
=============================================================================
