----------------------------- MODULE Disclosure -----------------------------
(***************************************************************************)
(* Seals of a growing session, the disclosures drawn from them, and the    *)
(* verifier's checks of both.                                              *)
(*                                                                         *)
(*   depose disclose              cli/src/commands/disclose.ts,            *)
(*                                bundle/src/disclosure.ts                 *)
(*   depose-verify verify         apps/verify/cmd/check_chain.go,          *)
(*                                check_merkle.go, commitments.go,         *)
(*                                disclosure.go, check_disclosure.go       *)
(*   depose-verify consistency    apps/verify/cmd/verify_disclosure.go     *)
(*                                                                         *)
(* A disclosure is written file by file into a directory that may hold an  *)
(* earlier one, and the command may die between two files.  A file is      *)
(* known by the build that wrote it, and its content follows from that.    *)
(*                                                                         *)
(* Events are numbered in id order.  A seal commits the fields of an event *)
(* under salts of its own, and mints ids of its own for the events that    *)
(* were not captured with one, unless it runs under the fixed seed.        *)
(***************************************************************************)
EXTENDS MerkleChain, FiniteSets

CONSTANTS
    Dirs,        \* output directories
    Paths,       \* payload fields that may be committed
    FieldsOf,    \* the committed fields of each event, as a sequence
    Captured,    \* the events whose id the capture minted
    Files,       \* other files a disclosure may be asked to carry
    Pinned,      \* those the seal's files map has
    SealAt,      \* numbers of events at which the session may be sealed
    Dated,       \* the seals an authority dated; the others carry no token
    Selections,  \* what a run may be asked for: indices, fields, files to carry
    None,        \* no file
    Spoilt,      \* what a damaged value has become
    MaxSeals,    \* bound: seals
    MaxDrawn,    \* bound: events of a seal while disclosures are drawn
    MaxBuilds,   \* bound: runs of depose disclose
    MaxFaults    \* bound: commands that die, lines that are damaged

ASSUME DisclosureConstants ==
    /\ FieldsOf \in Seq(SUBSET Paths)
    /\ SealAt \subseteq DOMAIN FieldsOf /\ Pinned \subseteq Files
    /\ Selections \subseteq [indices : SUBSET Nat, fields : SUBSET Paths, include : SUBSET Files]
    /\ MaxSeals \in Nat /\ MaxDrawn \in Nat /\ MaxBuilds \in Nat /\ MaxFaults \in Nat

VARIABLES
    seals,    \* the seals made, each with its number of events and its seed
    lines,    \* events.jsonl of each sealed bundle
    dirs,     \* what each output directory holds
    build,    \* the run of depose disclose in progress
    result,   \* the last run into a directory, once it has reported success
    builds,   \* runs so far
    faults    \* faults so far

vars == <<seals, lines, dirs, build, result, builds, faults>>

Idle == [pc |-> "idle"]
SealIds == DOMAIN seals

---------------------------------------------------------------------------
(* What a seal signs. *)

Salt(seed, i, f) == <<seed, i, f>>
FieldValue(i, f) == <<"value", i, f>>
EventId(seed, i) == <<i, IF i \in Captured THEN 0 ELSE seed>>
Commitment(salt, f, value) == <<salt, f, value>>

\* The payload as sealed, committed fields replaced; its hash is itself.
Payload(seed, i) ==
    [event |-> i,
     held |-> [f \in FieldsOf[i] |-> Commitment(Salt(seed, i, f), f, FieldValue(i, f))]]

Link(id, payloadHash) == [id |-> id, payloadHash |-> payloadHash]

\* Damage leaves no value that is the hash of something sealed.
ASSUME SpoiltIsNothing ==
    \A seed \in 0..MaxSeals, i \in DOMAIN FieldsOf :
        Spoilt \notin {Payload(seed, i), Link(EventId(seed, i), Payload(seed, i))}

\* The manifest over the first n events, as far as the checks read it; the
\* chain hashes are those of events.jsonl, and the last is the root hash.
SealEvents(n, seed) ==
    LET chain == ChainHashes([i \in 1..n |-> Link(EventId(seed, i), Payload(seed, i))])
    IN  [count |-> n, seed |-> seed, chain |-> chain, merkleRoot |-> MerkleRoot(LeavesOf(chain))]

\* The absence of a file is no seal, and no consistency entry.
ASSUME NoneIsNothing ==
    /\ None \notin 1..MaxSeals
    /\ \A m, n \in SealAt, u, v \in 0..MaxSeals :
          None # [count |-> m, root |-> SealEvents(m, u).merkleRoot,
                  proof |-> ConsistencyProof(LeavesOf(SealEvents(n, v).chain), m)]

Openings(s) ==
    UNION {{[eventId |-> EventId(seals[s].seed, i), path |-> f,
             salt |-> Salt(seals[s].seed, i, f), value |-> FieldValue(i, f)] : f \in FieldsOf[i]}
           : i \in 1..seals[s].count}

\* A line as it is read: l says whose line it is and which values of it were
\* changed.
Line(s, l) == [id |-> EventId(seals[s].seed, l.event),
               order |-> l.event,
               payload |-> IF "payload" \in l.spoilt THEN Spoilt ELSE Payload(seals[s].seed, l.event),
               payloadHash |-> Payload(seals[s].seed, l.event),
               chainHash |-> IF "chainHash" \in l.spoilt THEN <<Spoilt>>
                             ELSE seals[s].chain[l.event]]

SealedLines(n) == [i \in 1..n |-> [event |-> i, spoilt |-> {}]]
LinesOf(s, ls) == [k \in DOMAIN ls |-> Line(s, ls[k])]

---------------------------------------------------------------------------
(* The full bundle under depose-verify. *)

\* The chain recomputed over the lines as they stand.
Replayed(ls) == ChainHashes([k \in DOMAIN ls |-> Link(ls[k].id, ls[k].payloadHash)])

InOrder(ls) == \A k \in 2..Len(ls) : ls[k - 1].order <= ls[k].order

\* Mutated form of ReplayChain: the recorded payload hash is trusted.
ReplayChainTrusting(ls, manifest) ==
    /\ ls # << >> /\ InOrder(ls)
    /\ \A k \in DOMAIN ls : ls[k].chainHash = Replayed(ls)[k]
    /\ Last(Replayed(ls)) = Last(manifest.chain)

ReplayChain(ls, manifest) ==
    /\ ls # << >> /\ InOrder(ls)
    /\ \A k \in DOMAIN ls : ls[k].payload = ls[k].payloadHash
    /\ \A k \in DOMAIN ls : ls[k].chainHash = Replayed(ls)[k]
    /\ Last(Replayed(ls)) = Last(manifest.chain)

CheckMerkleRoot(ls, manifest) == MerkleRoot(LeavesOf(Replayed(ls))) = manifest.merkleRoot

\* An opening matches the placeholder of the line it names.
Opens(o, ls) == \E k \in DOMAIN ls :
    /\ ls[k].id = o.eventId /\ ls[k].payload # Spoilt
    /\ o.path \in DOMAIN ls[k].payload.held
    /\ ls[k].payload.held[o.path] = Commitment(o.salt, o.path, o.value)

OpenAll(ls, openings) == \A o \in openings : Opens(o, ls)

VerifyBundle(s) ==
    LET ls == LinesOf(s, lines[s])
    IN  /\ ReplayChain(ls, seals[s])
        /\ CheckMerkleRoot(ls, seals[s])
        /\ OpenAll(ls, Openings(s))

---------------------------------------------------------------------------
(* What a build writes.  b is the build: the seal, its lines as read, what  *)
(* was asked for, and the seal an earlier disclosure was drawn from.       *)

Withheld(b) == (0..(Len(b.lines) - 1)) \ b.indices
\* The members of S in order: each stands after those below it.
Ascending(S) == [k \in 1..Cardinality(S) |->
                   CHOOSE i \in S : Cardinality({j \in S : j < i}) = k - 1]
RecordedHashes(b) == [k \in DOMAIN b.lines |-> Line(b.seal, b.lines[k]).chainHash]
DisclosedLines(b) == [k \in 1..Cardinality(b.indices) |->
                        Line(b.seal, b.lines[Ascending(b.indices)[k] + 1])]

\* Mutated form of SelectOpenings: the fields of withheld events as well.
SelectOpeningsOfAll(b) == {o \in Openings(b.seal) : o.path \in b.fields}

SelectOpenings(b) ==
    {o \in Openings(b.seal) : /\ \E i \in b.indices : o.eventId = Line(b.seal, b.lines[i + 1]).id
                              /\ o.path \in b.fields}

BuildConsistency(b) ==
    IF b.earlier = None THEN None
    ELSE [count |-> seals[b.earlier].count, root |-> seals[b.earlier].merkleRoot,
          proof |-> ConsistencyProof(LeavesOf(RecordedHashes(b)), seals[b.earlier].count)]

Document(b) ==
    LET leaves == LeavesOf(RecordedHashes(b))
    IN  [bundleId |-> b.seal,
         merkleRoot |-> seals[b.seal].merkleRoot,
         leafCount |-> Len(b.lines),
         disclosed |-> [k \in 1..Cardinality(b.indices) |->
                          LET i == Ascending(b.indices)[k]
                          IN  [index |-> i, eventId |-> Line(b.seal, b.lines[i + 1]).id,
                               auditPath |-> AuditPath(leaves, i)]],
         withheld |-> {[index |-> i, chainHash |-> RecordedHashes(b)[i + 1],
                        auditPath |-> AuditPath(leaves, i)] : i \in Withheld(b)},
         consistency |-> BuildConsistency(b)]

\* Mutated form of SharesPrefix: only the sizes are compared.
SharesPrefixBySize(b) == b.earlier # None => seals[b.earlier].count \in 1..Len(b.lines)

\* The first leaves of the tree are the earlier disclosure's tree.
SharesPrefix(b) ==
    b.earlier # None =>
        LET m == seals[b.earlier].count
        IN  /\ m \in 1..Len(b.lines)
            /\ MerkleRoot(LeavesOf(SubSeq(RecordedHashes(b), 1, m))) = seals[b.earlier].merkleRoot

\* What buildDisclosure makes sure of before it writes anything.
MayBuild(b) ==
    /\ MerkleRoot(LeavesOf(RecordedHashes(b))) = seals[b.seal].merkleRoot
    /\ b.indices \subseteq 0..(Len(b.lines) - 1)
    /\ SharesPrefix(b)

---------------------------------------------------------------------------
(* Behaviour. *)

EmptyDir == [manifest |-> None, attestations |-> [signatures |-> None, token |-> None],
             carried |-> [f \in Files |-> None], events |-> None, commitments |-> None, document |-> None]

Init ==
    /\ seals = << >> /\ lines = << >>
    /\ dirs = [d \in Dirs |-> EmptyDir]
    /\ build = Idle
    /\ result = [d \in Dirs |-> None]
    /\ builds = 0 /\ faults = 0

\* The session is sealed with n events so far.  Seed 0 is the fixed seed.
\* Sealing touches no disclosure, so it may as well come before them all.
Seal(n, fixed) ==
    /\ Len(seals) < MaxSeals /\ builds = 0
    /\ \A s \in SealIds : seals[s].count <= n
    /\ seals' = Append(seals, SealEvents(n, IF fixed THEN 0 ELSE Len(seals) + 1))
    /\ lines' = Append(lines, SealedLines(n))
    /\ UNCHANGED <<dirs, build, result, builds, faults>>

\* A line is lost, exchanged with the next, or has a value changed.
Damage(s, ls) ==
    /\ build = Idle /\ faults < MaxFaults /\ ls # lines[s]
    /\ lines' = [lines EXCEPT ![s] = ls]
    /\ faults' = faults + 1
    /\ UNCHANGED <<seals, dirs, build, result, builds>>

LoseLine(s, k) == Damage(s, RemoveAt(lines[s], k))
SwapLines(s, k) ==
    /\ k < Len(lines[s])
    /\ Damage(s, [lines[s] EXCEPT ![k] = lines[s][k + 1], ![k + 1] = lines[s][k]])
SpoilLine(s, k, what) == Damage(s, [lines[s] EXCEPT ![k].spoilt = @ \cup {what}])

\* buildDisclosure has read everything it needs and makes sure it may go on.
Start(d, s, selection, earlierDir) ==
    LET b == [seal |-> s, lines |-> lines[s], indices |-> selection.indices,
              fields |-> selection.fields, include |-> selection.include,
              earlier |-> IF earlierDir = None THEN None ELSE dirs[earlierDir].document.seal]
    IN  /\ build = Idle /\ builds < MaxBuilds
        /\ \A t \in SealIds : seals[t].count <= MaxDrawn
        /\ earlierDir # None => dirs[earlierDir].document # None
        /\ MayBuild(b)
        /\ build' = [pc |-> "manifest", dir |-> d, of |-> b]
        /\ result' = [result EXCEPT ![d] = None]
        /\ builds' = builds + 1
        /\ UNCHANGED <<seals, lines, dirs, faults>>

\* The step at pc writes part of the output directory and the next one follows.
Writing(pc, next, part, content) ==
    /\ build.pc = pc
    /\ dirs' = [dirs EXCEPT ![build.dir][part] = content]
    /\ build' = [build EXCEPT !.pc = next]
    /\ UNCHANGED <<seals, lines, result, builds, faults>>

WriteManifest == Writing("manifest", "attestations", "manifest", build.of.seal)

\* attestations/ is copied over what is there: a seal without a token leaves
\* the token file of an earlier disclosure where it is.
CopyAttestations ==
    Writing("attestations", "carried", "attestations",
            [signatures |-> build.of.seal,
             token |-> IF build.of.seal \in Dated THEN build.of.seal
                       ELSE dirs[build.dir].attestations.token])

WriteEvents == Writing("events", "commitments", "events", build.of)
\* Mutated form of WriteCommitments: no file is written for no openings.
WriteCommitmentsIfAny ==
    Writing("commitments", "document", "commitments",
            IF SelectOpenings(build.of) = {} /\ dirs[build.dir].commitments # None
            THEN dirs[build.dir].commitments ELSE build.of)

WriteCommitments == Writing("commitments", "document", "commitments", build.of)

\* Files are copied over what is there; nothing is removed.
Copied(carried, S) == [f \in Files |-> IF f \in S THEN build.of.seal ELSE carried[f]]

CopyIncluded ==
    /\ build.pc = "carried" /\ build.of.include \subseteq Pinned
    /\ Writing("carried", "events", "carried",
               Copied(dirs[build.dir].carried, build.of.include))

\* A file the seal does not pin is refused when its turn comes.
RefuseFile ==
    /\ build.pc = "carried" /\ ~ build.of.include \subseteq Pinned
    /\ \E S \in SUBSET (build.of.include \cap Pinned) :
          dirs' = [dirs EXCEPT ![build.dir].carried = Copied(@, S)]
    /\ build' = Idle
    /\ UNCHANGED <<seals, lines, result, builds, faults>>

WriteDocument ==
    /\ build.pc = "document"
    /\ dirs' = [dirs EXCEPT ![build.dir].document = build.of]
    /\ build' = Idle
    /\ result' = [result EXCEPT ![build.dir] = build.of]
    /\ UNCHANGED <<seals, lines, builds, faults>>

Die ==
    /\ build # Idle /\ faults < MaxFaults
    /\ build' = Idle /\ faults' = faults + 1
    /\ UNCHANGED <<seals, lines, dirs, result, builds>>

Damaging == \E s \in SealIds : \E k \in DOMAIN lines[s] :
    LoseLine(s, k) \/ SwapLines(s, k) \/ \E what \in {"payload", "chainHash"} : SpoilLine(s, k, what)

Disclosing ==
    \E d \in Dirs, s \in SealIds, selection \in Selections, earlierDir \in Dirs \cup {None} :
        Start(d, s, selection, earlierDir)

Next ==
    \/ \E n \in SealAt, fixed \in BOOLEAN : Seal(n, fixed)
    \/ Damaging
    \/ Disclosing
    \/ WriteManifest \/ CopyAttestations \/ CopyIncluded \/ RefuseFile
    \/ WriteEvents \/ WriteCommitments \/ WriteDocument
    \/ Die

Spec == Init /\ [][Next]_vars

---------------------------------------------------------------------------
(* A disclosure directory under depose-verify. *)

CheckDisclosureParse(doc, s) ==
    LET disclosed == {doc.disclosed[k].index : k \in DOMAIN doc.disclosed}
        withheld == {w.index : w \in doc.withheld}
    IN  /\ doc.bundleId = s
        /\ doc.merkleRoot = seals[s].merkleRoot
        /\ doc.leafCount = seals[s].count
        /\ disclosed \cap withheld = {}
        /\ disclosed \cup withheld = 0..(doc.leafCount - 1)

\* The chain hash the event at an index was chained to: stated for a withheld
\* predecessor, recomputed (and so the recorded one) for a disclosed one.
Preceding(doc, ls, k) ==
    LET index == doc.disclosed[k].index
    IN  IF index = 0 THEN Zero32
        ELSE IF k > 1 /\ doc.disclosed[k - 1].index = index - 1 THEN ls[k - 1].chainHash
        ELSE (CHOOSE w \in doc.withheld : w.index = index - 1).chainHash

Reaches(doc, e, chainHash) ==
    VerifyInclusion(LeafHash(chainHash), e.index, doc.leafCount, e.auditPath, doc.merkleRoot)

\* Mutated form of CheckDisclosureInclusion: the payload is not hashed again.
CheckDisclosureInclusionTrusting(doc, ls) ==
    /\ Len(ls) = Len(doc.disclosed)
    /\ \A w \in doc.withheld : Reaches(doc, w, w.chainHash)
    /\ \A k \in DOMAIN ls :
          /\ ls[k].id = doc.disclosed[k].eventId
          /\ ls[k].chainHash = ChainHash(Preceding(doc, ls, k), Link(ls[k].id, ls[k].payloadHash))
          /\ Reaches(doc, doc.disclosed[k], ls[k].chainHash)

CheckDisclosureInclusion(doc, ls) ==
    /\ Len(ls) = Len(doc.disclosed)
    /\ \A w \in doc.withheld : Reaches(doc, w, w.chainHash)
    /\ \A k \in DOMAIN ls :
          /\ ls[k].id = doc.disclosed[k].eventId
          /\ k > 1 => doc.disclosed[k - 1].index < doc.disclosed[k].index
          /\ ls[k].payload = ls[k].payloadHash
          /\ ls[k].chainHash = ChainHash(Preceding(doc, ls, k), Link(ls[k].id, ls[k].payloadHash))
          /\ Reaches(doc, doc.disclosed[k], ls[k].chainHash)

CheckDisclosureFiles(d) ==
    \A f \in Files : dirs[d].carried[f] # None => f \in Pinned /\ dirs[d].carried[f] = dirs[d].manifest

\* The signature covers this manifest, and the token file is the manifest's
\* token, no more and no fewer.
CheckAttestations(d) ==
    LET s == dirs[d].manifest
    IN  dirs[d].attestations = [signatures |-> s, token |-> IF s \in Dated THEN s ELSE None]

IsDisclosure(d) == dirs[d].document # None

VerifyDisclosure(d) ==
    /\ IsDisclosure(d)
    /\ CheckAttestations(d)
    /\ CheckDisclosureFiles(d)
    /\ LET doc == Document(dirs[d].document)
           ls == DisclosedLines(dirs[d].events)
       IN  /\ CheckDisclosureParse(doc, dirs[d].manifest)
           /\ CheckDisclosureInclusion(doc, ls)
           /\ OpenAll(ls, SelectOpenings(dirs[d].commitments))

TreeConsistency(e, l) ==
    /\ e.leafCount <= l.leafCount
    /\ IF e.leafCount = l.leafCount THEN e.merkleRoot = l.merkleRoot
       ELSE /\ l.consistency # None
            /\ l.consistency.count = e.leafCount /\ l.consistency.root = e.merkleRoot
            /\ VerifyConsistency(e.leafCount, l.leafCount, e.merkleRoot, l.merkleRoot, l.consistency.proof)

\* Events both disclose are the same lines.
DisclosedOverlap(e, els, l, lls) ==
    \A j \in DOMAIN els, k \in DOMAIN lls :
        e.disclosed[j].index = l.disclosed[k].index => els[j] = lls[k]

Consistent(earlier, later) ==
    LET e == Document(dirs[earlier].document)
        l == Document(dirs[later].document)
    IN  /\ TreeConsistency(e, l)
        /\ DisclosedOverlap(e, DisclosedLines(dirs[earlier].events), l, DisclosedLines(dirs[later].events))

---------------------------------------------------------------------------
(* Properties. *)

\* A proof drawn from a sealed tree verifies for its own leaf at its own place
\* and for no other, and a consistency proof between two seals verifies
\* exactly when the earlier one's chain is a prefix of the later one's
\* (merkle.ts and merkle.go, trees of every shape up to the bound).
ProofsExact ==
    builds = 0 => \A s, t \in SealIds :
        LET cs == seals[s].chain
            ct == seals[t].chain
            n == Len(ct)
            leaves == LeavesOf(ct)
            root == MerkleRoot(leaves)
        IN  /\ \A i, j, p \in 0..(n - 1) :
                  VerifyInclusion(leaves[i + 1], j, n, AuditPath(leaves, p), root) <=> i = j /\ j = p
            /\ Len(cs) <= n =>
                  (VerifyConsistency(Len(cs), n, MerkleRoot(LeavesOf(cs)), root,
                                     ConsistencyProof(leaves, Len(cs)))
                   <=> IsPrefix(cs, ct))

\* The full bundle verifies as it was sealed, and not once a line is lost, out
\* of order or changed (check_chain.go, check_merkle.go).
DamageShows == \A s \in SealIds : VerifyBundle(s) <=> lines[s] = SealedLines(seals[s].count)

\* Whatever files the runs, the deaths and the damage left side by side in a
\* directory, if it verifies then each line in it is the line sealed at the
\* index it is listed at, each withheld position states its sealed chain hash,
\* and each opening is one of the seal's (disclosure-inclusion and
\* disclosure-commitments).
VerifiedShowsSealed ==
    \A d \in Dirs : VerifyDisclosure(d) =>
        LET s == dirs[d].manifest
            doc == Document(dirs[d].document)
            ls == DisclosedLines(dirs[d].events)
        IN  /\ \A k \in DOMAIN ls :
                  ls[k] = Line(s, [event |-> doc.disclosed[k].index + 1, spoilt |-> {}])
            /\ \A w \in doc.withheld : w.chainHash = seals[s].chain[w.index + 1]
            /\ SelectOpenings(dirs[d].commitments) \subseteq Openings(s)

\* A run that reports success over an undamaged bundle leaves a disclosure
\* that verifies, whatever an earlier run left in the directory, short of a
\* token or a carried file left there from another seal.
FinishedVerifies ==
    \A d \in Dirs :
        /\ result[d] # None
        /\ result[d].lines = SealedLines(seals[result[d].seal].count)
        /\ \A f \in Files : dirs[d].carried[f] \in {None, result[d].seal}
        /\ dirs[d].attestations.token \in {None, result[d].seal}
        => VerifyDisclosure(d)

\* Once a run has reported success nothing outside its selection is in the
\* lines or the openings of the directory, also when a run before it into the
\* same directory showed more.
NothingWithheldShown ==
    \A d \in Dirs : result[d] # None =>
        LET chosen == {EventId(seals[result[d].seal].seed, i + 1) : i \in result[d].indices}
            ls == DisclosedLines(dirs[d].events)
        IN  /\ \A k \in DOMAIN ls : ls[k].id \in chosen
            /\ \A o \in SelectOpenings(dirs[d].commitments) :
                  o.eventId \in chosen /\ o.path \in result[d].fields

\* Two disclosures that verify are found consistent only if one seal extends the other, and
\* are found so whenever the later was made to be consistent with the earlier
\* (verify_disclosure.go).
ConsistentMeansExtended ==
    LET verified == {d \in Dirs : VerifyDisclosure(d)}
    IN  \A e \in verified : \A l \in verified \ {e} :
            /\ Consistent(e, l) =>
                  IsPrefix(seals[dirs[e].manifest].chain, seals[dirs[l].manifest].chain)
            /\ dirs[l].document.earlier = dirs[e].manifest => Consistent(e, l)
=============================================================================
