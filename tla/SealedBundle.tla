---------------------------- MODULE SealedBundle ----------------------------
(***************************************************************************)
(* A bundle directory, the two commands that write it and the verifier     *)
(* that reads it.                                                          *)
(*                                                                         *)
(*   depose package   packages/bundle/src/writer.ts, writer-attest.ts      *)
(*   depose anchor    packages/cli/src/commands/anchor.ts, anchor.ts       *)
(*   depose-verify    apps/verify/cmd                                      *)
(*                                                                         *)
(* The directory is named after the session, so packaging a session again  *)
(* writes over the bundle that is there.  Every step is one file written,  *)
(* one reading, or one exchange with a timestamp authority; a command may  *)
(* die between two of them, or in the middle of a write.                   *)
(*                                                                         *)
(* A seal is one packaging run.  It stands for everything the signature    *)
(* covers: salts and producedAt make the signing form of each run its own. *)
(* A content file is known by the seal that wrote it.  Only the signed     *)
(* mode is modelled: dev-unsigned bundles have a directory of their own    *)
(* and are never anchored.                                                 *)
(***************************************************************************)
EXTENDS Integers, FiniteSets, Sequences

CONSTANTS
    Procs,       \* processes that may run a command
    Written,     \* the content files of a run, in the order it writes them
    Optional,    \* those only some runs have (raw capture records)
    Keys,        \* signing keys, numbered as they come into use
    TokenIds,    \* what tells two tokens over one seal apart
    Torn,        \* a file whose writing was cut off
    MayForce,    \* whether anchor --force is used
    Tearing,     \* whether a crash may cut a write off
    MaxSeals,    \* bound: packaging runs
    MaxFaults    \* bound: commands that die or that packaging overtakes

ASSUME BundleConstants ==
    /\ Keys \subseteq Nat /\ 1 \in Keys
    /\ MayForce \in BOOLEAN /\ Tearing \in BOOLEAN
    /\ MaxSeals \in Nat /\ MaxFaults \in Nat
    /\ Torn \notin 1..MaxSeals

VARIABLES
    disk,      \* the files of the directory
    key,       \* the producer's signing key
    proc,      \* what each process is doing and has in memory
    seals,     \* packaging runs so far
    wrote,     \* the content files each run has written
    issued,    \* the tokens authorities have given out
    faults     \* deaths and overtakings so far

vars == <<disk, key, proc, seals, wrote, issued, faults>>

---------------------------------------------------------------------------
(* The directory. *)

Manifest == "manifest.json"
Signatures == "attestations/signatures.json"
SealToken == "attestations/rfc3161-timestamps/0.tsr"
AnchorToken == "attestations/rfc3161-timestamps/anchor-0.tsr"
Anchor == "attestations/anchor.json"
TokenFiles == {SealToken, AnchorToken}

With(d, path, content) ==
    [x \in DOMAIN d \union {path} |-> IF x = path THEN content ELSE d[x]]

Has(d, path) == path \in DOMAIN d
Whole(d, path) == path \in DOMAIN d /\ d[path] # Torn

(* buildFilesMap: every file in the tree but the manifest, the signatures  *)
(* and the token files.                                                    *)
PinnedFiles(d) == [x \in DOMAIN d \ ({Manifest, Signatures} \union TokenFiles) |-> d[x]]

ASSUME WrittenFiles ==
    /\ Written \in Seq({Written[i] : i \in DOMAIN Written})
    /\ \A i \in DOMAIN Written : Written[i] \notin {Manifest, Signatures, Anchor} \union TokenFiles
    /\ "events.jsonl" \in {Written[i] : i \in DOMAIN Written} \ Optional

---------------------------------------------------------------------------
(* The verifier.  Every operator says what is wrong with directory d under *)
(* manifest m.                                                             *)

(* What checkFilesMap does not expect in the map. *)
FilesMapExcluded == {Manifest, Signatures, Anchor} \union TokenFiles

FilesMapFails(d, m) ==
    \/ DOMAIN m.files \intersect FilesMapExcluded # {}
    \/ DOMAIN m.files # DOMAIN d \ FilesMapExcluded
    \/ \E x \in DOMAIN m.files \intersect DOMAIN d : d[x] # m.files[x]

(* An anchor document that cannot be read contributes no token here. *)
AnchorDoc(d) == IF Whole(d, Anchor) THEN {d[Anchor]} ELSE {}

AttestationFilesFail(d, m) ==
    LET bound == {<<AnchorToken, doc.token>> : doc \in AnchorDoc(d)}
                    \union {<<SealToken, t>> : t \in m.tokens}
    IN  \/ ~Has(d, Signatures)
        \/ d[Signatures] # [seal |-> m.seal, key |-> m.key]
        \/ \E b \in bound : ~Has(d, b[1]) \/ d[b[1]] # b[2]
        \/ \E x \in TokenFiles \intersect DOMAIN d : \A b \in bound : b[1] # x

TimestampsFail(d, m) ==
    \E t \in m.tokens \union {doc.token : doc \in AnchorDoc(d)} : t.of # m.seal

(* The document is judged only when the seal itself carries no token. *)
AnchorStatus(d, m) ==
    IF Has(d, Anchor) /\ ~Whole(d, Anchor) THEN "FAIL"
    ELSE IF m.tokens # {} THEN "PASS"
    ELSE IF ~Has(d, Anchor) THEN "WARN"
    ELSE IF d[Anchor].seal # m.seal \/ d[Anchor].key # m.key THEN "FAIL"
    ELSE "PASS"

EventsFail(d, m) == ~Has(d, "events.jsonl") \/ d["events.jsonl"] # m.seal

Verifies(d) ==
    /\ Whole(d, Manifest)
    /\ LET m == d[Manifest]
       IN  /\ ~EventsFail(d, m)
           /\ ~TimestampsFail(d, m)
           /\ AnchorStatus(d, m) # "FAIL"
           /\ ~FilesMapFails(d, m)
           /\ ~AttestationFilesFail(d, m)

Dated(d) == Verifies(d) /\ AnchorStatus(d, d[Manifest]) = "PASS"

---------------------------------------------------------------------------
(* Processes. *)

NoManifest == [seal |-> 0, key |-> 0, files |-> [x \in {} |-> 0], tokens |-> {}, label |-> "none"]

Idle(last) ==
    [at |-> "idle", last |-> last, todo |-> {}, flag |-> FALSE, key |-> 0, seal |-> 0,
     man |-> NoManifest, token |-> {}]

Ends(p, last) == proc' = [proc EXCEPT ![p] = Idle(last)]

AllIdle == \A p \in Procs : proc[p].at = "idle"

(* What a packaging run goes through. *)
Packaging == {"content", "stamp", "manifest", "signatures", "token"}

Moves(p, from, to) == proc[p].at = from /\ proc' = [proc EXCEPT ![p].at = to]

Init ==
    /\ disk = [x \in {} |-> 0]
    /\ key = 1
    /\ proc = [p \in Procs |-> Idle("nothing")]
    /\ seals = 0
    /\ wrote = <<>>
    /\ issued = {}
    /\ faults = 0

(* tryTimestamps: every authority, three times each, until one answers     *)
(* with a token over the bytes given, or none does.                        *)
Answer(seal, t) == t \in [id : TokenIds, of : {seal}] /\ issued' = issued \union {t}
NoAnswer == UNCHANGED issued

---------------------------------------------------------------------------
(* depose package. *)

(* handlePackage loads the key and the session; flag is --require-anchor.  *)
(* Bound: packaging runs do not overlap, and overtaking an anchor that is  *)
(* at work counts as a fault.                                              *)
PackageStart(p) ==
    /\ proc[p].at = "idle"
    /\ \A q \in Procs : proc[q].at \notin Packaging
    /\ IF AllIdle THEN UNCHANGED faults ELSE faults < MaxFaults /\ faults' = faults + 1
    /\ seals < MaxSeals
    /\ \E absent \in SUBSET Optional, require \in BOOLEAN :
         proc' = [proc EXCEPT ![p] =
                    [Idle("nothing") EXCEPT !.at = "content",
                                            !.todo = {i \in DOMAIN Written : Written[i] \notin absent},
                                            !.flag = require, !.key = key, !.seal = seals + 1]]
    /\ seals' = seals + 1
    /\ wrote' = Append(wrote, {})
    /\ UNCHANGED <<disk, key, issued>>

First(places) == CHOOSE i \in places : \A j \in places : i <= j

PackageContent(p) ==
    LET my == proc[p]
    IN  /\ my.at = "content"
        /\ my.todo # {}
        /\ disk' = With(disk, Written[First(my.todo)], my.seal)
        /\ wrote' = [wrote EXCEPT ![my.seal] = @ \union {Written[First(my.todo)]}]
        /\ proc' = [proc EXCEPT ![p].todo = @ \ {First(my.todo)}]
        /\ UNCHANGED <<key, seals, issued, faults>>

(* Mutated form of PackageSign: not every content file is there yet. *)
PackageSignEarly(p) ==
    LET my == proc[p]
    IN  /\ my.at = "content"
        /\ proc' = [proc EXCEPT ![p].at = "stamp",
                                ![p].man = [NoManifest EXCEPT !.seal = my.seal, !.key = my.key,
                                                              !.files = PinnedFiles(disk)]]
        /\ UNCHANGED <<disk, key, seals, wrote, issued, faults>>

(* The files map over everything on disk, then the signature. *)
PackageSign(p) ==
    LET my == proc[p]
    IN  /\ my.at = "content"
        /\ my.todo = {}
        /\ proc' = [proc EXCEPT ![p].at = "stamp",
                                ![p].man = [NoManifest EXCEPT !.seal = my.seal, !.key = my.key,
                                                              !.files = PinnedFiles(disk)]]
        /\ UNCHANGED <<disk, key, seals, wrote, issued, faults>>

(* attestManifest dates the signed form; unanswered, the run goes on       *)
(* pending, or throws when --require-anchor was given.                     *)
PackageStamp(p) ==
    LET my == proc[p]
    IN  /\ my.at = "stamp"
        /\ \/ \E t \in [id : TokenIds, of : {my.seal}] :
                /\ Answer(my.seal, t)
                /\ proc' = [proc EXCEPT ![p].at = "manifest", ![p].man.tokens = {t},
                                        ![p].man.label = "anchored"]
           \/ /\ NoAnswer
              /\ ~my.flag
              /\ proc' = [proc EXCEPT ![p].at = "manifest", ![p].man.label = "pending"]
           \/ /\ NoAnswer
              /\ my.flag
              /\ Ends(p, "no bundle")
        /\ UNCHANGED <<disk, key, seals, wrote, faults>>

PackageManifest(p) ==
    /\ Moves(p, "manifest", "signatures")
    /\ disk' = With(disk, Manifest, proc[p].man)
    /\ UNCHANGED <<key, seals, wrote, issued, faults>>

PackageSignatures(p) ==
    LET my == proc[p]
    IN  /\ my.at = "signatures"
        /\ disk' = With(disk, Signatures, [seal |-> my.man.seal, key |-> my.man.key])
        /\ IF my.man.tokens = {} THEN Ends(p, "packaged")
           ELSE proc' = [proc EXCEPT ![p].at = "token"]
        /\ UNCHANGED <<key, seals, wrote, issued, faults>>

PackageToken(p) ==
    /\ proc[p].at = "token"
    /\ disk' = With(disk, SealToken, CHOOSE t \in proc[p].man.tokens : TRUE)
    /\ Ends(p, "packaged")
    /\ UNCHANGED <<key, seals, wrote, issued, faults>>

---------------------------------------------------------------------------
(* depose anchor. *)

(* handleAnchor parses the manifest, or exits, and loads the key; flag is  *)
(* --force.  Bound: after the last packaging run has begun, commands take  *)
(* turns and nothing is forced.                                            *)
AnchorStart(p) ==
    /\ proc[p].at = "idle"
    /\ seals = MaxSeals => AllIdle
    /\ Whole(disk, Manifest)
    /\ \E force \in {FALSE, MayForce /\ seals < MaxSeals} :
         proc' = [proc EXCEPT ![p] =
                    [Idle("nothing") EXCEPT !.at = "check", !.flag = force, !.key = key,
                                            !.man = disk[Manifest]]]
    /\ UNCHANGED <<disk, key, seals, wrote, issued, faults>>

(* assertAnchorable. *)
Anchorable(m, my) == (m.tokens = {} \/ my.flag) /\ m.key = my.key

(* Mutated form of AnchorCheck: the key need not be the sealing one. *)
AnchorCheckAnyKey(p) ==
    LET my == proc[p]
        m == disk[Manifest]
    IN  /\ my.at = "check"
        /\ IF ~Whole(disk, Manifest) THEN Ends(p, "refused")
           ELSE IF m.tokens # {} /\ ~my.flag THEN Ends(p, "refused")
           ELSE IF Has(disk, Anchor) /\ ~my.flag THEN Ends(p, "anchored")
           ELSE proc' = [proc EXCEPT ![p].at = "ask", ![p].seal = m.seal]
        /\ UNCHANGED <<disk, key, seals, wrote, issued, faults>>

(* Mutated form of AnchorCheck: a token file counts as an anchor. *)
AnchorCheckTokenFile(p) ==
    LET my == proc[p]
        m == disk[Manifest]
    IN  /\ my.at = "check"
        /\ IF ~Whole(disk, Manifest) \/ ~Anchorable(m, my) THEN Ends(p, "refused")
           ELSE IF Has(disk, AnchorToken) /\ ~my.flag THEN Ends(p, "anchored")
           ELSE proc' = [proc EXCEPT ![p].at = "ask", ![p].seal = m.seal]
        /\ UNCHANGED <<disk, key, seals, wrote, issued, faults>>

(* anchorBundle reads the manifest again and decides whether there is      *)
(* anything to do.                                                         *)
AnchorCheck(p) ==
    LET my == proc[p]
        m == disk[Manifest]
    IN  /\ my.at = "check"
        /\ IF ~Whole(disk, Manifest) THEN Ends(p, "refused")
           ELSE IF ~Anchorable(m, my) THEN Ends(p, "refused")
           ELSE IF Has(disk, Anchor) /\ ~my.flag
                THEN Ends(p, IF Whole(disk, Anchor) THEN "anchored" ELSE "refused")
           ELSE proc' = [proc EXCEPT ![p].at = "ask", ![p].seal = m.seal]
        /\ UNCHANGED <<disk, key, seals, wrote, issued, faults>>

AnchorAnswered(p) ==
    LET my == proc[p]
    IN  /\ my.at = "ask"
        /\ \E t \in [id : TokenIds, of : {my.seal}] :
             /\ Answer(my.seal, t)
             /\ proc' = [proc EXCEPT ![p].at = "file", ![p].token = {t}]
        /\ UNCHANGED <<disk, key, seals, wrote, faults>>

AnchorUnanswered(p) ==
    /\ proc[p].at = "ask"
    /\ NoAnswer
    /\ Ends(p, "refused")
    /\ UNCHANGED <<disk, key, seals, wrote, faults>>

AnchorFile(p) ==
    /\ Moves(p, "file", "document")
    /\ disk' = With(disk, AnchorToken, CHOOSE t \in proc[p].token : TRUE)
    /\ UNCHANGED <<key, seals, wrote, issued, faults>>

(* Mutated form of AnchorDocument: the token goes into the manifest, which *)
(* docs/decisions.md D20 argues against.                                    *)
AnchorDocumentInManifest(p) ==
    LET my == proc[p]
    IN  /\ Moves(p, "document", "label")
        /\ disk' = With(With(disk, Manifest, [my.man EXCEPT !.tokens = my.token]),
                        SealToken, CHOOSE t \in my.token : TRUE)
        /\ UNCHANGED <<key, seals, wrote, issued, faults>>

(* The countersigned claim over the signing form that was read. *)
AnchorDocument(p) ==
    LET my == proc[p]
    IN  /\ Moves(p, "document", "label")
        /\ disk' = With(disk, Anchor, [seal |-> my.seal, key |-> my.key,
                                       token |-> CHOOSE t \in my.token : TRUE])
        /\ UNCHANGED <<key, seals, wrote, issued, faults>>

(* The manifest parsed at the start is written back with its label changed.*)
AnchorLabel(p) ==
    LET my == proc[p]
    IN  /\ my.at = "label"
        /\ disk' = IF my.man.label = "anchored" THEN disk
                   ELSE With(disk, Manifest, [my.man EXCEPT !.label = "anchored"])
        /\ Ends(p, "anchored")
        /\ UNCHANGED <<key, seals, wrote, issued, faults>>

---------------------------------------------------------------------------
(* The surroundings. *)

(* depose key rotate.  A command reads the key when it starts, so it is    *)
(* enough to rotate between two commands.                                  *)
RotateKey ==
    /\ AllIdle
    /\ key + 1 \in Keys
    /\ key' = key + 1
    /\ UNCHANGED <<disk, proc, seals, wrote, issued, faults>>

(* The file a process would write next. *)
NextWrite(p) ==
    CASE proc[p].at = "content" /\ proc[p].todo # {} -> {Written[First(proc[p].todo)]}
      [] proc[p].at = "manifest" -> {Manifest}
      [] proc[p].at = "signatures" -> {Signatures}
      [] proc[p].at = "token" -> {SealToken}
      [] proc[p].at = "file" -> {AnchorToken}
      [] proc[p].at = "document" -> {Anchor}
      [] proc[p].at = "label" /\ proc[p].man.label # "anchored" -> {Manifest}
      [] OTHER -> {}

Crash(p) ==
    /\ proc[p].at # "idle"
    /\ faults < MaxFaults
    /\ faults' = faults + 1
    /\ Ends(p, "crashed")
    /\ \/ disk' = disk
       \/ Tearing /\ \E x \in NextWrite(p) : disk' = With(disk, x, Torn)
    /\ UNCHANGED <<key, seals, wrote, issued>>

PackageStep(p) == \/ PackageContent(p) \/ PackageSign(p) \/ PackageStamp(p)
                  \/ PackageManifest(p) \/ PackageSignatures(p) \/ PackageToken(p)

AnchorStep(p) == \/ AnchorCheck(p) \/ AnchorAnswered(p) \/ AnchorUnanswered(p)
                 \/ AnchorFile(p) \/ AnchorDocument(p) \/ AnchorLabel(p)

Next == \/ \E p \in Procs : PackageStart(p) \/ PackageStep(p)
                              \/ AnchorStart(p) \/ AnchorStep(p) \/ Crash(p)
        \/ RotateKey

Spec == Init /\ [][Next]_vars

(* A command that has started goes on unless it dies; the producer runs    *)
(* anchor again as long as it can; an authority asked again and again      *)
(* answers in the end.                                                     *)
Fairness == \A p \in Procs : /\ WF_vars(PackageStep(p))
                             /\ WF_vars(AnchorStep(p))
                             /\ WF_vars(AnchorStart(p))
                             /\ SF_vars(AnchorAnswered(p))

FairSpec == Spec /\ Fairness

---------------------------------------------------------------------------
(* Properties. *)

(* Two anchor commands that overlapped left the token of one and the       *)
(* document of the other.                                                  *)
Mismatched == Whole(disk, Anchor) /\ disk[Anchor].token # disk[AnchorToken]

(* With nobody at work on it and nobody having died at it, a bundle sealed *)
(* once verifies: packaging produced one that does, and neither anchoring, *)
(* forcing, being refused nor a rotated key took that away, unless two     *)
(* anchor commands overlapped and were answered differently.               *)
RestingBundleVerifies ==
    AllIdle /\ faults = 0 /\ seals = 1 /\ Has(disk, Manifest) => Verifies(disk) \/ Mismatched

(* A directory that verifies is the work of one run: every content file is *)
(* there as the run behind the manifest wrote it, but for the raw records  *)
(* of a run that had none.  A run that died or was refused half-way        *)
(* through another one's files never leaves a mixture that verifies.       *)
VerifiedMeansOneRun ==
    Verifies(disk) =>
        LET seal == disk[Manifest].seal
        IN  \A i \in DOMAIN Written :
              Written[i] \in wrote[seal] \/ Written[i] \notin Optional =>
                  Has(disk, Written[i]) /\ disk[Written[i]] = seal

(* What the signature and the seal's own tokens cover. *)
SealedPart(d) == [d[Manifest] EXCEPT !.label = "none"]

(* The anchor never touches the seal (docs/decisions.md D20), not even     *)
(* with the manifest it read before waiting for an authority: it changes   *)
(* the label only, unless the session was packaged again since.            *)
SealUntouched ==
    [][Whole(disk, Manifest)
       /\ (\E p \in Procs : AnchorStep(p) /\ proc[p].man.seal = disk[Manifest].seal) =>
         Has(disk', Manifest) /\ SealedPart(disk') = SealedPart(disk)]_vars

SealComplete ==
    /\ Whole(disk, Manifest)
    /\ Whole(disk, Signatures)
    /\ disk[Manifest].tokens # {} => Whole(disk, SealToken)

(* No document names the token on disk, and nobody is past its check to    *)
(* write one, while the document that is there or the seal's own token     *)
(* turns every later `depose anchor` away (anchor.ts:119, assertAnchorable) *)
(* until it is forced.  A forced anchor that died between its token and    *)
(* its document leaves this; so do two anchors that overlapped, forced or  *)
(* not: one wrote its document and the other replaced the token and died,  *)
(* or they wrote their documents in the other order than their tokens.     *)
TokenUnclaimed ==
    /\ Has(disk, AnchorToken) /\ Whole(disk, Manifest)
    /\ Has(disk, Anchor) \/ disk[Manifest].tokens # {}
    /\ \A doc \in AnchorDoc(disk) : doc.token # disk[AnchorToken]
    /\ \A p \in Procs : proc[p].at \notin {"ask", "file", "document"}

SomeTorn == \E x \in DOMAIN disk : disk[x] = Torn

(* A bundle sealed once is dated in the end, however often anchoring was   *)
(* interrupted between two of its writes or found no authority, unless its *)
(* key is rotated away, the session is packaged again, a forced or an      *)
(* overlapping anchor left a token without its document, or a death cut a  *)
(* write off.                                                              *)
RetryDates ==
    SealComplete /\ seals = 1 ~>
        \/ Dated(disk)
        \/ seals > 1
        \/ TokenUnclaimed
        \/ SomeTorn
        \/ SealComplete /\ disk[Manifest].key # key
=============================================================================
