----------------------------- MODULE MCBindPass -----------------------------
(* Small timelines for BindPass: every way to fill some positions of the   *)
(* store with an intent, an effect or nothing.                             *)
EXTENDS BindPass

CONSTANTS
    Slots,       \* positions in a timeline
    LastTime,    \* capture times are 1..LastTime
    Inputs       \* input hashes of hooked calls

(* Only the hooks hash their input: an intent of the shim carries none.    *)
NoFiles == {<<>>}
Kept == [at : 1..LastTime, input : Inputs, files : NoFiles, hook : {TRUE}]
          \union [at : 1..LastTime, input : {"none"}, files : NoFiles, hook : {FALSE}]
Closed == [at : 1..LastTime, input : Inputs, files : NoFiles, link : {NoId} \union Slots]
Empty == [at |-> 0]

IsIntent(s) == "hook" \in DOMAIN s
IsEffect(s) == "link" \in DOMAIN s

Intent(x, s) == [id |-> x, at |-> s.at, input |-> s.input, files |-> s.files, hook |-> s.hook]
Effect(x, s) == [id |-> x, at |-> s.at, input |-> s.input, files |-> s.files, link |-> s.link]

(* A link is an intent's id, in the bundle or not, drawn before the        *)
(* effect's own or, when calls overlap, after it.                          *)
Fills ==
    {f \in [Slots -> Kept \union Closed \union {Empty}] :
        \A x \in Slots : IsEffect(f[x]) /\ f[x].link # NoId => ~IsEffect(f[f[x].link])}

Timeline(f) ==
    [intents |-> {Intent(x, f[x]) : x \in {y \in DOMAIN f : IsIntent(f[y])}},
     effects |-> {Effect(x, f[x]) : x \in {y \in DOMAIN f : IsEffect(f[y])}}]

SmallTimelines == {Timeline(f) : f \in Fills}
=============================================================================
