--------------------------- MODULE CaptureSession ---------------------------
(***************************************************************************)
(* From the hooks to the verdict: the bundle that `depose package` would   *)
(* build from the capture store at any moment of a session, and what       *)
(* depose-verify says of it.                                               *)
(*                                                                         *)
(* CaptureHooks produces the store, IntentEffect holds the merge and the   *)
(* verifier's checks.  The session's records all carry its session id, so  *)
(* the capture scope includes every one of them.                           *)
(***************************************************************************)
EXTENDS CaptureHooks, IntentEffect

(* A ULID is never null, and no clock has been read at 0.                  *)
ASSUME NoIdIsNoUlid == NoId \notin Nat \ {0}

(* The store as the timeline sees it: records become events whose id is    *)
(* the record's ULID (recordToEvent), and the merge reads inputs, files    *)
(* and the recorded link from their payloads.                              *)
IntentEvent(c) ==
    [id |-> intentRec[c].id, at |-> intentRec[c].at, files |-> intentRec[c].files,
     input |-> InputOf[c], hook |-> TRUE]
EffectEvent(c) ==
    [id |-> effectRec[c].id, at |-> effectRec[c].at, files |-> effectRec[c].files,
     input |-> InputOf[c],
     link |-> IF effectRec[c].link = NoCall THEN NoId
              ELSE intentRec[effectRec[c].link].id]

IntentEvents == {IntentEvent(c) : c \in DOMAIN intentRec}
EffectEvents == {EffectEvent(c) : c \in DOMAIN effectRec}

Bound == Bind(IntentEvents, EffectEvents)
Gaps == MergeGaps(Bound, IntentEvents, EffectEvents)

---------------------------------------------------------------------------
(* Properties of the bundle. *)

(* The verifier's intent-effect check never fails a bundle this session    *)
(* produced.                                                               *)
IntentEffectAccepts ==
    CheckIntentEffect(Bound, IntentEvents, EffectEvents, Gaps) # "FAIL"

(* Nor does its file-continuity check. *)
ContinuityAccepts ==
    CheckFileContinuity(IntentEvents, EffectEvents, Gaps) # "FAIL"

(* Every pair the bundle shows is one call: recorded or correlated, an     *)
(* effect is never attached to another call's intent.                      *)
PairsAreOneCall ==
    \A p \in Bound.pairs : \E c \in DOMAIN intentRec \intersect DOMAIN effectRec :
        p = <<intentRec[c].id, effectRec[c].id>>

(* Once the bundle holds an effect at all, a call whose outcome was lost   *)
(* is disclosed: an intent on record with no effect record of its own has  *)
(* an intent_without_effect gap.                                           *)
LostOutcomeDisclosed ==
    DOMAIN effectRec # {} =>
        \A c \in DOMAIN intentRec \ DOMAIN effectRec :
            Gap("intent_without_effect", intentRec[c].id) \in Gaps
=============================================================================
