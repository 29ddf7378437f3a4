------------------------------ MODULE BindPass ------------------------------
(***************************************************************************)
(* The pass that joins the two halves of every tool call, one effect at a  *)
(* time (bindIntentAndEffect in                                            *)
(* packages/core/src/normalize/merge-intent-effect.ts).                    *)
(*                                                                         *)
(* The pass runs over one timeline, any of a given set of them: how the    *)
(* hooks could have produced it is CaptureSession's business, here it may  *)
(* be as broken as a store can leave it (halves missing, markers lost, an  *)
(* intent named twice).  The verifier reads what the pass left behind.     *)
(***************************************************************************)
EXTENDS IntentEffect

CONSTANT Timelines   \* the timelines the pass may be given

Ids(records) == {r.id : r \in records}

(* Ids are the file names of the capture store, so no two records share    *)
(* one, and the merge has dropped duplicates before this pass.             *)
WellFormed(t) ==
    /\ \A x, y \in t.intents : x.id = y.id => x = y
    /\ \A x, y \in t.effects : x.id = y.id => x = y
    /\ Ids(t.intents) \intersect Ids(t.effects) = {}
    /\ Ids(t.intents) \union Ids(t.effects) \subseteq Nat
    /\ NoId \notin Ids(t.intents)

ASSUME TimelinesAreWellFormed == \A t \in Timelines : WellFormed(t)

VARIABLES
    intents,   \* the shell_command_pre events of the timeline
    effects,   \* its tool_call_effect events
    waiting,   \* the effects whose turn has not come
    bound,     \* the pairs, signed links and orphans so far
    gaps,      \* the gap events filed
    done       \* the pass has returned

passVars == <<intents, effects, waiting, bound, gaps, done>>

PassInit ==
    \E t \in Timelines :
        /\ intents = t.intents
        /\ effects = t.effects
        /\ waiting = t.effects
        /\ bound = NothingBound(t.effects)
        /\ gaps = {}
        /\ done = FALSE

(* The loop takes the effects in timeline order. *)
Turn ==
    \E e \in waiting :
        /\ \A f \in waiting : f = e \/ TimeBefore(e, f)
        /\ bound' = BindOne(bound, e, intents)
        /\ waiting' = waiting \ {e}
        /\ UNCHANGED <<intents, effects, gaps, done>>

(* Every effect has had its turn, or there was none and the pass returned  *)
(* at once: what is left unpaired becomes gaps.                            *)
Report ==
    /\ waiting = {}
    /\ ~done
    /\ gaps' = MergeGaps(bound, intents, effects)
    /\ done' = TRUE
    /\ UNCHANGED <<intents, effects, waiting, bound>>

PassNext == Turn \/ Report

PassSpec == PassInit /\ [][PassNext]_passVars

---------------------------------------------------------------------------
(* Properties. *)

Reasons == {"effect_without_intent", "intent_without_effect", "unwitnessed_file_change"}

(* The pass holds one record per id, and pairs, orphans and gaps about     *)
(* events of its timeline only.                                            *)
PassTypeOK ==
    /\ WellFormed([intents |-> intents, effects |-> effects])
    /\ waiting \subseteq effects
    /\ bound \in [pairs : SUBSET (Ids(intents) \X Ids(effects)),
                 named : [Ids(effects) -> Ids(intents) \union {e.link : e \in effects}],
                 orphans : SUBSET Ids(effects)]
    /\ gaps \subseteq [reason : Reasons, of : Ids(intents) \union Ids(effects)]
    /\ done \in BOOLEAN

(* The unsigned correlation the pass writes into intents and effects       *)
(* (linkedEffectId, linkedIntentId) is one-to-one and says what the signed *)
(* payload of the effect says.                                             *)
LinksFormMatching ==
    /\ \A p, q \in bound.pairs : p[1] = q[1] <=> p[2] = q[2]
    /\ \A p \in bound.pairs : bound.named[p[2]] = p[1]

(* A link the post hook recorded is never rewritten by correlation as long *)
(* as the intent it names is in the bundle.                                *)
RecordedLinkKept ==
    \A e \in effects : e.link \in Ids(intents) => bound.named[e.id] = e.link

(* No gap is a false alarm: an intent reported as never closed is named by *)
(* no effect, and an effect reported as having no intent names none that   *)
(* the bundle holds.                                                       *)
GapsTruthful ==
    /\ \A i \in intents :
         Gap("intent_without_effect", i.id) \in gaps => Naming(i.id, bound) = {}
    /\ \A e \in effects :
         Gap("effect_without_intent", e.id) \in gaps => bound.named[e.id] \notin Ids(intents)

(* Whatever the store held, the verifier's intent-effect check rejects the *)
(* merge's own output for exactly one reason: two effects name one intent. *)
(* Every other complaint it has is answered by a gap the pass filed.       *)
RejectedOnlyForDoubleClose ==
    done => (CheckIntentEffect(bound, intents, effects, gaps) = "FAIL"
               <=> DoubleClosed(bound, intents) # {})

---------------------------------------------------------------------------
(* The inductive invariant behind them (BindPassProofs). *)

(* An effect whose turn has not come still carries the link it arrived     *)
(* with, and nothing has been said of it.                                  *)
WaitingUntouched ==
    \A e \in waiting :
        /\ bound.named[e.id] = e.link
        /\ e.id \notin bound.orphans
        /\ \A p \in bound.pairs : p[2] # e.id

(* An effect that has had its turn is disclosed as an orphan, or names an  *)
(* intent that some effect was linked to.                                  *)
HandledSettled ==
    \A e \in effects \ waiting :
        e.id \in bound.orphans \/ bound.named[e.id] \in Claimed(bound)

OrphansNameNothing ==
    \A e \in effects : e.id \in bound.orphans => bound.named[e.id] \notin Ids(intents)

(* The gaps are those of the finished pass. *)
GapsAreTheMerges ==
    IF done THEN waiting = {} /\ gaps = MergeGaps(bound, intents, effects) ELSE gaps = {}

PassInv ==
    /\ PassTypeOK
    /\ LinksFormMatching
    /\ RecordedLinkKept
    /\ WaitingUntouched
    /\ HandledSettled
    /\ OrphansNameNothing
    /\ GapsAreTheMerges
=============================================================================
