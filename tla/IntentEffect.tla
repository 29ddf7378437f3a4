---------------------------- MODULE IntentEffect ----------------------------
(***************************************************************************)
(* The two halves of a tool call as the merge and the verifier see them.   *)
(*                                                                         *)
(* The producer (packages/core/src/normalize/merge-intent-effect.ts) walks *)
(* the timeline in (wallTs, monoNs) order, links each effect to an intent, *)
(* and files a gap for every hole.  The verifier                           *)
(* (apps/verify/cmd/check_intent_effect.go) walks the sealed file in id    *)
(* order and fails the bundle when a hole has no gap.  This module holds   *)
(* both as operators on the same records, so that other modules can ask    *)
(* whether what the producer emits is what the verifier demands.           *)
(*                                                                         *)
(*   intent  [id, at, input, files, hook]   a shell_command_pre event      *)
(*   effect  [id, at, input, files, link]   a tool_call_effect event       *)
(*                                                                         *)
(* id is the ULID and at the capture time, both numbers because only their *)
(* order (and for at, distance) is ever used.  input is inputHash.  files  *)
(* maps each path the record names to its hash, Absent standing for null:  *)
(* the pre-state in an intent, the post-state in an effect.  hook says     *)
(* whether the intent's source is claude-pretooluse.  link is the          *)
(* intentEventId the post hook read from the marker, or NoId.              *)
(***************************************************************************)
EXTENDS Integers, SequencesExt

CONSTANTS
    NoId,    \* the null intentEventId
    Window   \* matchWindowSeconds, in the clock's unit

---------------------------------------------------------------------------
(* The two orders. *)

(* Timeline order: wallTs, then monoNs.  Capture records get their monoNs  *)
(* from the position of their file in the store, and files are read in     *)
(* ULID order, so the tie-breaker between two captures is the id.          *)
TimeBefore(x, y) == x.at < y.at \/ (x.at = y.at /\ x.id < y.id)

(* Bundle order: the file is sealed, and replayed, in ascending id order. *)
IdBefore(x, y) == x.id < y.id

Distance(x, y) == IF x.at < y.at THEN y.at - x.at ELSE x.at - y.at

---------------------------------------------------------------------------
(* The producer: bindIntentAndEffect. *)

(* Mutated form of Candidates: any input will do. *)
CandidatesOfAnyInput(e, intents, claimed) ==
    {i \in intents : i.id \notin claimed /\ Distance(i, e) =< Window}

(* The unclaimed intents an effect without a usable link could belong to. *)
Candidates(e, intents, claimed) ==
    {i \in intents : /\ i.id \notin claimed
                     /\ i.input = e.input
                     /\ Distance(i, e) =< Window}

(* Among them the closest in time, the earlier one when two are as close:  *)
(* the loop keeps its best unless a later candidate is strictly closer.    *)
ResolveByInputHash(e, intents, claimed) ==
    LET cand == Candidates(e, intents, claimed)
    IN  {i \in cand : \A j \in cand :
            \/ Distance(i, e) < Distance(j, e)
            \/ Distance(i, e) = Distance(j, e) /\ (i = j \/ TimeBefore(i, j))}

Recorded(e, intents) == {i \in intents : i.id = e.link}

(* Mutated form of IntentOf: correlation before the recorded link. *)
IntentOfByHashFirst(e, intents, claimed) ==
    IF ResolveByInputHash(e, intents, claimed) # {} THEN ResolveByInputHash(e, intents, claimed)
    ELSE Recorded(e, intents)

IntentOf(e, intents, claimed) ==
    IF Recorded(e, intents) # {} THEN Recorded(e, intents)
    ELSE ResolveByInputHash(e, intents, claimed)

(* What the pass has built so far: the linked pairs <<intent id, effect    *)
(* id>>, the intent id each effect's signed payload names, and the effects *)
(* disclosed as having no intent.                                          *)
NothingBound(effects) ==
    [pairs   |-> {},
     named   |-> [x \in {e.id : e \in effects} |->
                    (CHOOSE e \in effects : e.id = x).link],
     orphans |-> {}]

Claimed(bound) == {p[1] : p \in bound.pairs}

(* Mutated forms of BindOne: the test of claimed dropped; the correlated    *)
(* link not written into the payload.                                       *)
BindOneUnclaimed(bound, e, intents) ==
    LET found == IntentOf(e, intents, Claimed(bound))
    IN  IF found = {} THEN [bound EXCEPT !.orphans = @ \union {e.id}]
        ELSE LET i == CHOOSE i \in found : TRUE
             IN  [bound EXCEPT !.pairs = @ \union {<<i.id, e.id>>}, !.named[e.id] = i.id]
BindOneUnsigned(bound, e, intents) ==
    LET found == IntentOf(e, intents, Claimed(bound))
    IN  IF found = {} THEN [bound EXCEPT !.orphans = @ \union {e.id}]
        ELSE LET i == CHOOSE i \in found : TRUE
             IN  IF i.id \in Claimed(bound) THEN bound
                 ELSE [bound EXCEPT !.pairs = @ \union {<<i.id, e.id>>}]
(* One turn of the loop over the effects. *)
BindOne(bound, e, intents) ==
    LET found == IntentOf(e, intents, Claimed(bound))
    IN  IF found = {}
        THEN [bound EXCEPT !.orphans = @ \union {e.id}]
        ELSE LET i == CHOOSE i \in found : TRUE
             IN  IF i.id \in Claimed(bound)
                 THEN bound
                 ELSE [bound EXCEPT !.pairs = @ \union {<<i.id, e.id>>},
                                    !.named[e.id] = i.id]

(* The effect whose turn came after the others'. *)
Latest(effects) == CHOOSE e \in effects : \A f \in effects : f = e \/ TimeBefore(f, e)

(* The effects are taken in timeline order: what is bound once a set of    *)
(* them has had its turn.                                                  *)
Bind(intents, effects) ==
    LET after[handled \in SUBSET effects] ==
            IF handled = {} THEN NothingBound(effects)
            ELSE BindOne(after[handled \ {Latest(handled)}], Latest(handled), intents)
    IN  after[effects]

(* The events are walked in time order by the merge, in id order by the    *)
(* verifier.                                                               *)
Precedes(order, x, y) == IF order = "time" THEN TimeBefore(x, y) ELSE IdBefore(x, y)

(* The last effect before x in the given order that recorded an outcome    *)
(* for path p: what lastPost holds for p when the walk reaches x.          *)
LastPost(x, p, effects, order) ==
    {e \in effects : /\ Precedes(order, e, x)
                     /\ p \in DOMAIN e.files
                     /\ \A f \in effects :
                          p \in DOMAIN f.files /\ Precedes(order, f, x)
                            => (f = e \/ Precedes(order, f, e))}

(* The paths whose pre-state in intent i contradicts the outcome carried   *)
(* forward to it.                                                          *)
Broken(i, effects, order) ==
    {p \in DOMAIN i.files :
        \E e \in LastPost(i, p, effects, order) : e.files[p] # i.files[p]}

Gap(reason, id) == [reason |-> reason, of |-> id]

(* Mutated forms of PairingGaps: every intent of the hook reported; none. *)
PairingGapsOfAll(bound, intents, effects) ==
    IF effects = {} THEN {} ELSE
         {Gap("effect_without_intent", x) : x \in bound.orphans}
    \union {Gap("intent_without_effect", i.id) : i \in {j \in intents : j.hook}}
PairingGapsOfEffects(bound, intents, effects) ==
    {Gap("effect_without_intent", x) : x \in bound.orphans}

(* Every gap the pass files.  A timeline with no effect at all returns     *)
(* early with none.                                                        *)
PairingGaps(bound, intents, effects) ==
    IF effects = {} THEN {} ELSE
         {Gap("effect_without_intent", x) : x \in bound.orphans}
    \union {Gap("intent_without_effect", i.id) :
              i \in {j \in intents : j.hook /\ j.id \notin Claimed(bound)}}

(* Mutated form of ContinuityGaps: the first outcome of a path is kept,     *)
(* later ones do not replace it.                                            *)
ContinuityGapsFromFirst(intents, effects) ==
    {Gap("unwitnessed_file_change", i.id) :
        i \in {j \in intents : \E p \in DOMAIN j.files, e \in effects :
                 /\ p \in DOMAIN e.files
                 /\ TimeBefore(e, j)
                 /\ \A f \in effects : p \in DOMAIN f.files => ~TimeBefore(f, e)
                 /\ e.files[p] # j.files[p]}}

ContinuityGaps(intents, effects) ==
    IF effects = {} THEN {} ELSE
        {Gap("unwitnessed_file_change", i.id) :
            i \in {j \in intents : Broken(j, effects, "time") # {}}}

MergeGaps(bound, intents, effects) ==
    PairingGaps(bound, intents, effects) \union ContinuityGaps(intents, effects)

---------------------------------------------------------------------------
(* The verifier: checkIntentEffect and checkFileContinuity.                *)

(* The effects whose signed payload names intent x. *)
Naming(x, bound) == {y \in DOMAIN bound.named : bound.named[y] = x}

(* The effect that closes intent x: the first one in the file naming it. *)
Closer(x, bound) == {y \in Naming(x, bound) : \A z \in Naming(x, bound) : y =< z}

DanglingEffects(bound, intents, gaps) ==
    {y \in DOMAIN bound.named :
        /\ bound.named[y] \notin {i.id : i \in intents}
        /\ Gap("effect_without_intent", y) \notin gaps}

DoubleClosed(bound, intents) ==
    {i \in intents : \E y, z \in Naming(i.id, bound) : y # z}

(* The unsigned correlation the merge wrote disagrees with the payload. *)
CrossReference(bound, intents) ==
    {i \in intents : \E y \in Closer(i.id, bound) :
        \/ \E p \in bound.pairs : p[1] = i.id /\ p[2] # y
        \/ \E p \in bound.pairs : p[2] = y /\ p[1] # i.id}

Undisclosed(bound, intents, gaps) ==
    {i \in intents : /\ i.hook
                     /\ Naming(i.id, bound) = {}
                     /\ Gap("intent_without_effect", i.id) \notin gaps}

(* SKIPPED when the bundle carries no effect, else PASS or FAIL. *)
CheckIntentEffect(bound, intents, effects, gaps) ==
    IF effects = {} THEN "SKIPPED"
    ELSE IF /\ DanglingEffects(bound, intents, gaps) = {}
            /\ DoubleClosed(bound, intents) = {}
            /\ CrossReference(bound, intents) = {}
            /\ Undisclosed(bound, intents, gaps) = {}
         THEN "PASS" ELSE "FAIL"

UndisclosedChanges(intents, effects, gaps) ==
    {i \in intents : /\ Broken(i, effects, "id") # {}
                     /\ Gap("unwitnessed_file_change", i.id) \notin gaps}

CheckFileContinuity(intents, effects, gaps) ==
    IF effects = {} THEN "SKIPPED"
    ELSE IF UndisclosedChanges(intents, effects, gaps) = {} THEN "PASS" ELSE "FAIL"
=============================================================================
