------------------------- MODULE SealedBundleProofs -------------------------
(***************************************************************************)
(* Proofs about SealedBundle: any number of processes packaging, anchoring *)
(* and dying, any content files, forced anchors, writes cut off, anchors   *)
(* overtaken by packaging runs.                                            *)
(***************************************************************************)
EXTENDS SealedBundle, WellFoundedInduction, TLAPS

---------------------------------------------------------------------------
(* Types. *)

Contents == {Written[i] : i \in DOMAIN Written}
Paths == {Manifest, Signatures, Anchor} \union TokenFiles \union Contents

Tokens == [id : TokenIds, of : Nat]
Blobs == Nat \union {Torn} \union Tokens
            \union [seal : Nat, key : Nat] \union [seal : Nat, key : Nat, token : Tokens]
FilesMaps == UNION {[xs -> Blobs] : xs \in SUBSET Paths}
Manifests == [seal : Nat, key : Nat, files : FilesMaps, tokens : SUBSET Tokens,
              label : {"none", "pending", "anchored"}]

Anchoring == {"check", "ask", "file", "document", "label"}
Stages == {"idle"} \union Packaging \union Anchoring
Outcomes == {"nothing", "no bundle", "packaged", "refused", "anchored", "crashed"}

Memory == [at : Stages, last : Outcomes, todo : SUBSET DOMAIN Written, flag : BOOLEAN,
           key : Nat, seal : Nat, man : Manifests, token : SUBSET Tokens]

DiskTyped ==
    /\ disk = [x \in DOMAIN disk |-> disk[x]]
    /\ DOMAIN disk \subseteq Paths
    /\ \A x \in DOMAIN disk : disk[x] \in IF x = Manifest THEN Manifests \union {Torn} ELSE Blobs

Typed ==
    /\ DiskTyped
    /\ key \in Nat
    /\ proc \in [Procs -> Memory]
    /\ \A p \in Procs :
         /\ proc[p].at = "token" => proc[p].man.tokens # {}
         /\ proc[p].at \in {"file", "document"} => proc[p].token # {}
    /\ seals \in Nat
    /\ wrote \in Seq(SUBSET Contents) /\ Len(wrote) = seals
    /\ faults \in Nat

---------------------------------------------------------------------------
(* The inductive invariant. *)

(* What stays of a manifest when its label changes. *)
Sealed(m) == [m EXCEPT !.label = "none"]

(* A packaging run is at work and its manifest is not on disk yet.         *)
Fresh(p) == proc[p].at \in {"content", "stamp", "manifest"}

(* What a command goes through with the manifest of the directory at hand. *)
Holding == {"signatures", "token"} \union Anchoring

(* The manifest on disk and those in the memory of commands.               *)
Circulating ==
    ({disk[x] : x \in DOMAIN disk \intersect {Manifest}} \ {Torn})
        \union {proc[p].man : p \in {q \in Procs : proc[q].at \in Holding}}

(* The manifest pins what its run wrote, which is all it had to write.     *)
Covers(m, runs) ==
    \A x \in Contents : x \in runs[m.seal] \/ x \notin Optional =>
        x \in DOMAIN m.files /\ m.files[x] = m.seal

OnePackaging ==
    \A p, q \in Procs : proc[p].at \in Packaging /\ proc[q].at \in Packaging => p = q

RunsAtWork ==
    \A p \in Procs :
      /\ proc[p].at \in Packaging => seals > 0 /\ proc[p].seal = seals
      /\ proc[p].at \in Packaging \ {"content"} => proc[p].man.seal = seals
      /\ proc[p].at \in {"stamp", "manifest"} => Covers(proc[p].man, wrote)
      /\ Fresh(p) => \A m \in Circulating : m.seal # seals

ContentInOrder ==
    \A p \in Procs : proc[p].at = "content" =>
      /\ \A x \in Contents \ Optional :
           x \in wrote[seals] \/ \E i \in proc[p].todo : Written[i] = x
      /\ \A x \in wrote[seals] : x \in DOMAIN disk /\ disk[x] = seals

ManifestsKnown == \A m \in Circulating : m.seal \in 1..seals /\ Covers(m, wrote)

OneManifestPerSeal ==
    \A m, n \in Circulating : m.seal = n.seal => Sealed(m) = Sealed(n)

Inv == OnePackaging /\ RunsAtWork /\ ContentInOrder /\ ManifestsKnown /\ OneManifestPerSeal

---------------------------------------------------------------------------
(* The operators. *)

(* With puts one file in its place and leaves the others.                  *)
LEMMA WithPuts ==
    ASSUME NEW d, NEW path, NEW content
    PROVE  /\ DOMAIN With(d, path, content) = DOMAIN d \union {path}
           /\ With(d, path, content)[path] = content
           /\ \A x \in DOMAIN d : x # path => With(d, path, content)[x] = d[x]
           /\ With(d, path, content) = [x \in DOMAIN With(d, path, content) |-> With(d, path, content)[x]]
BY DEF With

(* A directory with a file put where one may be is a directory.            *)
LEMMA DiskStaysTyped ==
    ASSUME DiskTyped, NEW path \in Paths, NEW content,
           content \in IF path = Manifest THEN Manifests \union {Torn} ELSE Blobs,
           disk' = With(disk, path, content)
    PROVE  DiskTyped'
<1> DEFINE d == With(disk, path, content)
<1>1. /\ DOMAIN d = DOMAIN disk \union {path}
      /\ d[path] = content
      /\ \A x \in DOMAIN disk : x # path => d[x] = disk[x]
      /\ d = [x \in DOMAIN d |-> d[x]]
  BY DEF With
<1> HIDE DEF d
<1>2. disk' = d
  BY DEF d
<1>3. ASSUME NEW x \in DOMAIN d
      PROVE  x \in Paths /\ d[x] \in IF x = Manifest THEN Manifests \union {Torn} ELSE Blobs
  <2>1. CASE x = path
    BY <2>1, <1>1
  <2>2. CASE x # path
    BY <1>1, <2>2 DEF DiskTyped
  <2> QED
    BY <2>1, <2>2
<1> QED
  BY <1>1, <1>2, <1>3 DEF DiskTyped

(* A command that is done remembers nothing.                               *)
LEMMA NoManifestTyped == NoManifest \in Manifests
<1>1. [x \in {} |-> 0] \in [{} -> Blobs] /\ {} \in SUBSET Paths
  OBVIOUS
<1>2. [x \in {} |-> 0] \in FilesMaps
  BY <1>1 DEF FilesMaps
<1> QED
  BY <1>2 DEF NoManifest, Manifests

LEMMA IdleTyped ==
    ASSUME NEW last \in Outcomes
    PROVE  Idle(last) \in Memory /\ Idle(last).at = "idle"
BY NoManifestTyped DEF Idle, Memory, Stages

(* What a packaging run pins is a files map.                               *)
LEMMA PinnedTyped ==
    ASSUME DiskTyped
    PROVE  PinnedFiles(disk) \in FilesMaps
<1> DEFINE xs == DOMAIN disk \ ({Manifest, Signatures} \union TokenFiles)
<1>1. xs \in SUBSET Paths /\ \A x \in xs : disk[x] \in Blobs
  BY DEF DiskTyped
<1>2. PinnedFiles(disk) = [x \in xs |-> disk[x]]
  BY DEF PinnedFiles
<1>3. PinnedFiles(disk) \in [xs -> Blobs]
  BY <1>1, <1>2
<1> QED
  BY <1>1, <1>3 DEF FilesMaps

(* A manifest is its sealed part and its label.                            *)
LEMMA SealedKeeps ==
    ASSUME NEW m \in Manifests
    PROVE  /\ Sealed(m).seal = m.seal /\ Sealed(m).files = m.files /\ Sealed(m).tokens = m.tokens
           /\ Sealed(m).key = m.key
           /\ [m EXCEPT !.label = "anchored"] \in Manifests
           /\ Sealed([m EXCEPT !.label = "anchored"]) = Sealed(m)
BY DEF Manifests, Sealed

(* Every set of naturals that is not empty has a least one.                *)
LEMMA LeastNat ==
    ASSUME NEW T \in SUBSET Nat, T # {}
    PROVE  \E x \in T : \A y \in T : x <= y
<1> DEFINE R == OpToRel(<, Nat)
<1>1. IsWellFoundedOn(R, Nat)
  BY NatLessThanWellFounded
<1>2. \E x \in T : \A y \in T : <<y, x>> \notin R
  <2> HIDE DEF R
  <2> QED
    BY <1>1, WFMin
<1>3. \A x, y \in Nat : <<x, y>> \in R <=> x < y
  BY DEF OpToRel
<1>4. PICK x \in T : \A y \in T : <<y, x>> \notin R
  BY <1>2
<1> HIDE DEF R
<1>5. \A y \in T : ~ (y < x)
  BY <1>3, <1>4
<1> QED
  BY <1>5

(* So the next file of a run is one of those it still has to write.        *)
LEMMA FirstIsOne ==
    ASSUME NEW places \in SUBSET DOMAIN Written, places # {}
    PROVE  First(places) \in places
<1>1. DOMAIN Written \subseteq Nat
  BY WrittenFiles
<1>2. \E i \in places : \A j \in places : i <= j
  BY <1>1, LeastNat
<1> QED
  BY <1>2 DEF First

(* A command that goes on keeps the rest of what it remembers.             *)
LEMMA SetAt ==
    ASSUME NEW r \in Memory, NEW stage \in Stages
    PROVE  /\ [r EXCEPT !.at = stage] \in Memory
           /\ [r EXCEPT !.at = stage].at = stage
           /\ [r EXCEPT !.at = stage].last = r.last /\ [r EXCEPT !.at = stage].todo = r.todo
           /\ [r EXCEPT !.at = stage].flag = r.flag /\ [r EXCEPT !.at = stage].key = r.key
           /\ [r EXCEPT !.at = stage].seal = r.seal /\ [r EXCEPT !.at = stage].man = r.man
           /\ [r EXCEPT !.at = stage].token = r.token
BY DEF Memory

LEMMA SetMan ==
    ASSUME NEW r \in Memory, NEW m \in Manifests
    PROVE  /\ [r EXCEPT !.man = m] \in Memory
           /\ [r EXCEPT !.man = m].at = r.at
           /\ [r EXCEPT !.man = m].last = r.last /\ [r EXCEPT !.man = m].todo = r.todo
           /\ [r EXCEPT !.man = m].flag = r.flag /\ [r EXCEPT !.man = m].key = r.key
           /\ [r EXCEPT !.man = m].seal = r.seal /\ [r EXCEPT !.man = m].man = m
           /\ [r EXCEPT !.man = m].token = r.token
BY DEF Memory

(* One command's step leaves what the others remember.                     *)
LEMMA SetProc ==
    ASSUME Typed, NEW p \in Procs, NEW r \in Memory, proc' = [proc EXCEPT ![p] = r]
    PROVE  /\ proc' \in [Procs -> Memory]
           /\ proc'[p] = r
           /\ \A q \in Procs : q # p => proc'[q] = proc[q]
BY DEF Typed

(* What each step makes of the memory of the command that takes it.        *)
LEMMA MovesBecomes ==
    ASSUME Typed, NEW p \in Procs, NEW from, NEW to \in Stages, Moves(p, from, to)
    PROVE  /\ proc[p].at = from
           /\ proc' = [proc EXCEPT ![p] = [proc[p] EXCEPT !.at = to]]
           /\ [proc[p] EXCEPT !.at = to] \in Memory
BY SetAt DEF Moves, Typed

LEMMA EndsBecomes ==
    ASSUME Typed, NEW p \in Procs, NEW last \in Outcomes, Ends(p, last)
    PROVE  /\ proc' = [proc EXCEPT ![p] = Idle(last)]
           /\ Idle(last) \in Memory /\ Idle(last).at = "idle"
BY IdleTyped DEF Ends

LEMMA StartBecomes ==
    ASSUME Typed, NEW p \in Procs, PackageStart(p)
    PROVE  \E r \in Memory :
             /\ r.at = "content" /\ r.seal = seals + 1
             /\ \A i \in DOMAIN Written : Written[i] \notin Optional => i \in r.todo
             /\ proc' = [proc EXCEPT ![p] = r]
<1>1. PICK absent \in SUBSET Optional, require \in BOOLEAN :
         proc' = [proc EXCEPT ![p] =
                    [Idle("nothing") EXCEPT !.at = "content",
                                            !.todo = {i \in DOMAIN Written : Written[i] \notin absent},
                                            !.flag = require, !.key = key, !.seal = seals + 1]]
  BY DEF PackageStart
<1> DEFINE places == {i \in DOMAIN Written : Written[i] \notin absent}
           r == [Idle("nothing") EXCEPT !.at = "content", !.todo = places,
                                        !.flag = require, !.key = key, !.seal = seals + 1]
<1>2. proc' = [proc EXCEPT ![p] = r]
  BY <1>1
<1>3. "content" \in Stages /\ "nothing" \in Outcomes
  BY DEF Stages, Outcomes, Packaging
<1>4. places \in SUBSET DOMAIN Written /\ key \in Nat /\ seals + 1 \in Nat
      /\ \A i \in DOMAIN Written : Written[i] \notin Optional => i \in places
  BY DEF Typed
<1> HIDE DEF places
<1>5. r \in Memory /\ r.at = "content" /\ r.seal = seals + 1 /\ r.todo = places
  BY <1>3, <1>4, NoManifestTyped DEF Memory, Idle
<1> HIDE DEF r
<1> QED
  BY <1>2, <1>4, <1>5

LEMMA ContentBecomes ==
    ASSUME Typed, NEW p \in Procs, PackageContent(p)
    PROVE  \E r \in Memory :
             /\ r.at = "content" /\ r.seal = proc[p].seal
             /\ First(proc[p].todo) \in proc[p].todo
             /\ r.todo = proc[p].todo \ {First(proc[p].todo)}
             /\ proc' = [proc EXCEPT ![p] = r]
<1> DEFINE r == [proc[p] EXCEPT !.todo = proc[p].todo \ {First(proc[p].todo)}]
<1>1. proc[p] \in Memory /\ proc[p].at = "content" /\ proc[p].todo # {}
  BY DEF Typed, PackageContent
<1>2. proc[p].todo \in SUBSET DOMAIN Written
  BY <1>1 DEF Memory
<1>3. First(proc[p].todo) \in proc[p].todo
  BY <1>1, <1>2, FirstIsOne
<1>4. proc' = [proc EXCEPT ![p] = r]
  BY <1>1 DEF PackageContent, Typed
<1>5. r \in Memory /\ r.at = "content" /\ r.seal = proc[p].seal
      /\ r.todo = proc[p].todo \ {First(proc[p].todo)}
  BY <1>1, <1>2 DEF Memory
<1> HIDE DEF r
<1> QED
  BY <1>3, <1>4, <1>5

LEMMA SignBecomes ==
    ASSUME Typed, NEW p \in Procs, PackageSign(p)
    PROVE  \E r \in Memory :
             /\ r.at = "stamp" /\ r.seal = proc[p].seal
             /\ r.man.seal = proc[p].seal /\ r.man.files = PinnedFiles(disk)
             /\ proc' = [proc EXCEPT ![p] = r]
<1> DEFINE m == [NoManifest EXCEPT !.seal = proc[p].seal, !.key = proc[p].key,
                                   !.files = PinnedFiles(disk)]
           a == [proc[p] EXCEPT !.at = "stamp"]
           r == [a EXCEPT !.man = m]
<1>1. proc[p] \in Memory /\ proc[p].seal \in Nat /\ proc[p].key \in Nat
  BY DEF Typed, Memory
<1>2. m \in Manifests /\ m.seal = proc[p].seal /\ m.files = PinnedFiles(disk)
  BY <1>1, PinnedTyped, NoManifestTyped DEF Manifests, Typed
<1>3. proc' = [proc EXCEPT ![p] = r]
  BY <1>1 DEF PackageSign, Typed
<1>4. "stamp" \in Stages
  BY DEF Stages, Packaging
<1> HIDE DEF m
<1>5. a \in Memory /\ a.at = "stamp" /\ a.seal = proc[p].seal
  BY <1>1, <1>4, SetAt
<1> HIDE DEF a
<1>6. r \in Memory /\ r.at = "stamp" /\ r.seal = proc[p].seal /\ r.man = m
  BY <1>2, <1>5, SetMan
<1> HIDE DEF r
<1> QED
  BY <1>2, <1>3, <1>6

LEMMA StampBecomes ==
    ASSUME Typed, NEW p \in Procs, PackageStamp(p)
    PROVE  \E r \in Memory :
             /\ \/ r.at = "idle"
                \/ /\ r.at = "manifest" /\ r.seal = proc[p].seal
                   /\ r.man.seal = proc[p].man.seal /\ r.man.files = proc[p].man.files
             /\ proc' = [proc EXCEPT ![p] = r]
<1>1. /\ proc[p] \in Memory /\ proc[p].seal \in Nat /\ proc[p].man \in Manifests
      /\ "manifest" \in Stages /\ "no bundle" \in Outcomes
  BY DEF Typed, Memory, Stages, Outcomes, Packaging
<1>2. ASSUME NEW m \in Manifests, m.seal = proc[p].man.seal, m.files = proc[p].man.files,
             proc' = [proc EXCEPT ![p] = [[proc[p] EXCEPT !.at = "manifest"] EXCEPT !.man = m]]
      PROVE  \E r \in Memory :
               /\ r.at = "manifest" /\ r.seal = proc[p].seal
               /\ r.man.seal = proc[p].man.seal /\ r.man.files = proc[p].man.files
               /\ proc' = [proc EXCEPT ![p] = r]
  <2> DEFINE a == [proc[p] EXCEPT !.at = "manifest"]
             r == [a EXCEPT !.man = m]
  <2>1. a \in Memory /\ a.at = "manifest" /\ a.seal = proc[p].seal
    BY <1>1, SetAt
  <2>2. proc' = [proc EXCEPT ![p] = r]
    BY <1>2
  <2> HIDE DEF a
  <2>3. r \in Memory /\ r.at = "manifest" /\ r.seal = proc[p].seal /\ r.man = m
    BY <2>1, SetMan
  <2> HIDE DEF r
  <2> QED
    BY <1>2, <2>2, <2>3
<1>3. ASSUME NEW t \in [id : TokenIds, of : {proc[p].seal}],
             proc' = [proc EXCEPT ![p].at = "manifest", ![p].man.tokens = {t},
                                  ![p].man.label = "anchored"]
      PROVE  \E r \in Memory :
               /\ r.at = "manifest" /\ r.seal = proc[p].seal
               /\ r.man.seal = proc[p].man.seal /\ r.man.files = proc[p].man.files
               /\ proc' = [proc EXCEPT ![p] = r]
  <2> DEFINE m == [[proc[p].man EXCEPT !.tokens = {t}] EXCEPT !.label = "anchored"]
  <2>1. {t} \in SUBSET Tokens
    BY <1>1 DEF Tokens
  <2>2. m \in Manifests /\ m.seal = proc[p].man.seal /\ m.files = proc[p].man.files
    BY <1>1, <2>1 DEF Manifests
  <2>3. proc' = [proc EXCEPT ![p] = [[proc[p] EXCEPT !.at = "manifest"] EXCEPT !.man = m]]
    BY <1>1, <1>3 DEF Typed, Memory
  <2> HIDE DEF m
  <2> QED
    BY <1>2, <2>2, <2>3
<1>4. ASSUME proc' = [proc EXCEPT ![p].at = "manifest", ![p].man.label = "pending"]
      PROVE  \E r \in Memory :
               /\ r.at = "manifest" /\ r.seal = proc[p].seal
               /\ r.man.seal = proc[p].man.seal /\ r.man.files = proc[p].man.files
               /\ proc' = [proc EXCEPT ![p] = r]
  <2> DEFINE m == [proc[p].man EXCEPT !.label = "pending"]
  <2>1. m \in Manifests /\ m.seal = proc[p].man.seal /\ m.files = proc[p].man.files
    BY <1>1 DEF Manifests
  <2>2. proc' = [proc EXCEPT ![p] = [[proc[p] EXCEPT !.at = "manifest"] EXCEPT !.man = m]]
    BY <1>1, <1>4 DEF Typed, Memory
  <2> HIDE DEF m
  <2> QED
    BY <1>2, <2>1, <2>2
<1>5. ASSUME Ends(p, "no bundle")
      PROVE  \E r \in Memory : r.at = "idle" /\ proc' = [proc EXCEPT ![p] = r]
  BY <1>1, <1>5, EndsBecomes
<1> QED
  BY <1>3, <1>4, <1>5 DEF PackageStamp

LEMMA AnchorStartBecomes ==
    ASSUME Typed, NEW p \in Procs, AnchorStart(p)
    PROVE  \E r \in Memory :
             /\ r.at = "check" /\ r.man = disk[Manifest]
             /\ proc' = [proc EXCEPT ![p] = r]
<1>1. Manifest \in DOMAIN disk /\ disk[Manifest] # Torn
  BY DEF AnchorStart, Whole
<1>2. PICK force \in {FALSE, MayForce /\ seals < MaxSeals} :
         proc' = [proc EXCEPT ![p] =
                    [Idle("nothing") EXCEPT !.at = "check", !.flag = force, !.key = key,
                                            !.man = disk[Manifest]]]
  BY DEF AnchorStart
<1> DEFINE r == [Idle("nothing") EXCEPT !.at = "check", !.flag = force, !.key = key,
                                        !.man = disk[Manifest]]
<1>3. proc' = [proc EXCEPT ![p] = r]
  BY <1>2
<1>4. /\ "check" \in Stages /\ "nothing" \in Outcomes /\ force \in BOOLEAN /\ key \in Nat
      /\ disk[Manifest] \in Manifests
  BY <1>1 DEF Stages, Outcomes, Anchoring, Typed, DiskTyped
<1>5. r \in Memory /\ r.at = "check" /\ r.man = disk[Manifest]
  BY <1>4 DEF Memory, Idle
<1> HIDE DEF r
<1> QED
  BY <1>3, <1>5

(* An anchor writes its token, its document or a label, and keeps the      *)
(* manifest it has read.                                                   *)
Writes(path, content) ==
    /\ path \in {AnchorToken, Anchor} /\ content \in Blobs
    /\ disk' = With(disk, path, content)

Relabels(p) ==
    /\ proc[p].at = "label"
    /\ disk' = With(disk, Manifest, [proc[p].man EXCEPT !.label = "anchored"])

LEMMA AnchorStepBecomes ==
    ASSUME Typed, NEW p \in Procs, AnchorStep(p)
    PROVE  /\ proc[p].at \in Anchoring
           /\ \E r \in Memory :
                /\ \/ r.at = "idle"
                   \/ r.at \in Anchoring /\ r.man = proc[p].man
                /\ r.at \in {"file", "document"} => r.token # {}
                /\ proc' = [proc EXCEPT ![p] = r]
           /\ \/ disk' = disk
              \/ \E path, content : Writes(path, content)
              \/ Relabels(p)
           /\ UNCHANGED <<key, seals, wrote, faults>>
<1> DEFINE Goes(stage) == \E r \in Memory :
                            /\ r.at = stage /\ r.man = proc[p].man
                            /\ stage \in {"file", "document"} => r.token # {}
                            /\ proc' = [proc EXCEPT ![p] = r]
           Stops == \E r \in Memory : r.at = "idle" /\ proc' = [proc EXCEPT ![p] = r]
<1>1. /\ proc[p] \in Memory /\ proc[p].man \in Manifests
      /\ \A stage \in Anchoring : stage \in Stages
      /\ "refused" \in Outcomes /\ "anchored" \in Outcomes
      /\ "ask" \in Anchoring /\ "file" \in Anchoring /\ "document" \in Anchoring /\ "label" \in Anchoring
  BY DEF Typed, Memory, Stages, Outcomes, Anchoring
<1>2. ASSUME NEW last \in {"refused", "anchored"}, Ends(p, last)
      PROVE  Stops
  BY <1>1, <1>2, EndsBecomes
<1>3. CASE AnchorCheck(p)
  <2>1. \/ \E last \in {"refused", "anchored"} : Ends(p, last)
        \/ proc' = [proc EXCEPT ![p].at = "ask", ![p].seal = disk[Manifest].seal]
             /\ Whole(disk, Manifest)
    BY <1>3 DEF AnchorCheck
  <2>2. ASSUME proc' = [proc EXCEPT ![p].at = "ask", ![p].seal = disk[Manifest].seal],
               Whole(disk, Manifest)
        PROVE  Goes("ask")
    <3>1. disk[Manifest].seal \in Nat
      BY <2>2 DEF Whole, Typed, DiskTyped, Manifests
    <3> DEFINE r == [[proc[p] EXCEPT !.at = "ask"] EXCEPT !.seal = disk[Manifest].seal]
    <3>2. proc' = [proc EXCEPT ![p] = r]
      BY <2>2 DEF Typed
    <3>3. r \in Memory /\ r.at = "ask" /\ r.man = proc[p].man
      BY <1>1, <3>1 DEF Memory
    <3> HIDE DEF r
    <3> QED
      BY <3>2, <3>3
  <2>3. proc[p].at = "check" /\ disk' = disk /\ UNCHANGED <<key, seals, wrote, faults>>
    BY <1>3 DEF AnchorCheck
  <2>4. Goes("ask") \/ Stops
    BY <1>2, <2>1, <2>2
  <2> QED
    BY <1>1, <2>3, <2>4 DEF Anchoring
<1>4. CASE AnchorAnswered(p)
  <2>1. PICK t \in [id : TokenIds, of : {proc[p].seal}] :
           proc' = [proc EXCEPT ![p].at = "file", ![p].token = {t}]
    BY <1>4 DEF AnchorAnswered
  <2>2. {t} \in SUBSET Tokens /\ {t} # {}
    BY <1>1 DEF Tokens, Memory
  <2> DEFINE r == [[proc[p] EXCEPT !.at = "file"] EXCEPT !.token = {t}]
  <2>3. proc' = [proc EXCEPT ![p] = r]
    BY <2>1 DEF Typed
  <2>4. r \in Memory /\ r.at = "file" /\ r.man = proc[p].man /\ r.token # {}
    BY <1>1, <2>2 DEF Memory
  <2>5. Goes("file")
    <3> HIDE DEF r
    <3> QED
      BY <2>3, <2>4
  <2>6. proc[p].at = "ask" /\ disk' = disk /\ UNCHANGED <<key, seals, wrote, faults>>
    BY <1>4 DEF AnchorAnswered
  <2> QED
    BY <1>1, <2>5, <2>6 DEF Anchoring
<1>5. CASE AnchorUnanswered(p)
  BY <1>1, <1>2, <1>5 DEF AnchorUnanswered, Anchoring
<1>6. CASE AnchorFile(p)
  <2>1. proc[p].at = "file" /\ Moves(p, "file", "document") /\ UNCHANGED <<key, seals, wrote, faults>>
    BY <1>6 DEF AnchorFile, Moves
  <2>2. Goes("document")
    <3> DEFINE r == [proc[p] EXCEPT !.at = "document"]
    <3>1. proc' = [proc EXCEPT ![p] = r]
      BY <1>1, <2>1, MovesBecomes
    <3>2. r \in Memory /\ r.at = "document" /\ r.man = proc[p].man /\ r.token = proc[p].token
      BY <1>1, SetAt
    <3>3. proc[p].token # {}
      BY <2>1 DEF Typed
    <3> HIDE DEF r
    <3> QED
      BY <3>1, <3>2, <3>3
  <2>3. (CHOOSE t \in proc[p].token : TRUE) \in Blobs
    BY <1>1, <2>1 DEF Typed, Memory, Blobs
  <2>4. Writes(AnchorToken, CHOOSE t \in proc[p].token : TRUE)
    BY <1>6, <2>3 DEF AnchorFile, Writes
  <2> QED
    BY <1>1, <2>1, <2>2, <2>4 DEF Anchoring
<1>7. CASE AnchorDocument(p)
  <2>1. proc[p].at = "document" /\ Moves(p, "document", "label") /\ UNCHANGED <<key, seals, wrote, faults>>
    BY <1>7 DEF AnchorDocument, Moves
  <2>2. Goes("label")
    <3> DEFINE r == [proc[p] EXCEPT !.at = "label"]
    <3>1. proc' = [proc EXCEPT ![p] = r]
      BY <1>1, <2>1, MovesBecomes
    <3>2. r \in Memory /\ r.at = "label" /\ r.man = proc[p].man
      BY <1>1, SetAt
    <3> HIDE DEF r
    <3> QED
      BY <3>1, <3>2
  <2>3. (CHOOSE t \in proc[p].token : TRUE) \in Tokens /\ proc[p].seal \in Nat /\ proc[p].key \in Nat
    BY <1>1, <2>1 DEF Typed, Memory
  <2> DEFINE doc == [seal |-> proc[p].seal, key |-> proc[p].key,
                     token |-> CHOOSE t \in proc[p].token : TRUE]
  <2>4. doc \in Blobs
    BY <2>3 DEF Blobs
  <2>5. Writes(Anchor, doc)
    BY <1>7, <2>4 DEF AnchorDocument, Writes
  <2> QED
    BY <1>1, <2>1, <2>2, <2>5 DEF Anchoring
<1>8. CASE AnchorLabel(p)
  <2>1. /\ proc[p].at = "label" /\ Ends(p, "anchored") /\ UNCHANGED <<key, seals, wrote, faults>>
        /\ disk' = disk \/ Relabels(p)
    BY <1>8 DEF AnchorLabel, Relabels
  <2> QED
    BY <1>1, <1>2, <2>1 DEF Anchoring
<1> QED
  BY <1>3, <1>4, <1>5, <1>6, <1>7, <1>8 DEF AnchorStep

LEMMA ManifestBecomes ==
    ASSUME Typed, NEW p \in Procs, PackageManifest(p)
    PROVE  /\ proc[p].at = "manifest" /\ proc[p].man \in Manifests
           /\ disk' = With(disk, Manifest, proc[p].man)
           /\ \E r \in Memory :
                /\ r.at = "signatures" /\ r.seal = proc[p].seal /\ r.man = proc[p].man
                /\ proc' = [proc EXCEPT ![p] = r]
<1> DEFINE r == [proc[p] EXCEPT !.at = "signatures"]
<1>1. proc[p] \in Memory /\ "signatures" \in Stages
  BY DEF Typed, Stages, Packaging
<1>2. Moves(p, "manifest", "signatures") /\ disk' = With(disk, Manifest, proc[p].man)
  BY DEF PackageManifest
<1>3. proc[p].at = "manifest" /\ proc' = [proc EXCEPT ![p] = r]
  BY <1>1, <1>2, MovesBecomes
<1>4. r \in Memory /\ r.at = "signatures" /\ r.seal = proc[p].seal /\ r.man = proc[p].man
  BY <1>1, SetAt
<1>5. proc[p].man \in Manifests
  BY <1>1 DEF Memory
<1> HIDE DEF r
<1> QED
  BY <1>2, <1>3, <1>4, <1>5

(* The files that follow the manifest.                                     *)
LEMMA RestBecomes ==
    ASSUME Typed, NEW p \in Procs, PackageSignatures(p) \/ PackageToken(p)
    PROVE  /\ proc[p].at \in {"signatures", "token"}
           /\ \E path \in {Signatures, SealToken}, content \in Blobs : disk' = With(disk, path, content)
           /\ \E r \in Memory :
                /\ \/ r.at = "idle"
                   \/ /\ r.at = "token" /\ r.seal = proc[p].seal /\ r.man = proc[p].man
                      /\ r.man.tokens # {}
                /\ proc' = [proc EXCEPT ![p] = r]
<1>1. /\ proc[p] \in Memory /\ proc[p].man \in Manifests
      /\ "token" \in Stages /\ "packaged" \in Outcomes
  BY DEF Typed, Memory, Stages, Outcomes, Packaging
<1>2. ASSUME Ends(p, "packaged")
      PROVE  \E r \in Memory : r.at = "idle" /\ proc' = [proc EXCEPT ![p] = r]
  BY <1>1, <1>2, EndsBecomes
<1>3. CASE PackageSignatures(p)
  <2>1. [seal |-> proc[p].man.seal, key |-> proc[p].man.key] \in Blobs
    BY <1>1 DEF Manifests, Blobs
  <2>2. /\ proc[p].at = "signatures"
        /\ disk' = With(disk, Signatures, [seal |-> proc[p].man.seal, key |-> proc[p].man.key])
        /\ \/ Ends(p, "packaged")
           \/ proc[p].man.tokens # {} /\ proc' = [proc EXCEPT ![p].at = "token"]
    BY <1>3 DEF PackageSignatures
  <2> DEFINE r == [proc[p] EXCEPT !.at = "token"]
  <2>3. r \in Memory /\ r.at = "token" /\ r.seal = proc[p].seal /\ r.man = proc[p].man
    BY <1>1, SetAt
  <2>4. proc' = [proc EXCEPT ![p].at = "token"] => proc' = [proc EXCEPT ![p] = r]
    BY DEF Typed
  <2> HIDE DEF r
  <2>5. \E x \in Memory :
          /\ \/ x.at = "idle"
             \/ /\ x.at = "token" /\ x.seal = proc[p].seal /\ x.man = proc[p].man
                /\ x.man.tokens # {}
          /\ proc' = [proc EXCEPT ![p] = x]
    BY <1>2, <2>2, <2>3, <2>4
  <2> QED
    BY <2>1, <2>2, <2>5
<1>4. CASE PackageToken(p)
  <2>1. proc[p].at = "token" /\ Ends(p, "packaged")
        /\ disk' = With(disk, SealToken, CHOOSE t \in proc[p].man.tokens : TRUE)
    BY <1>4 DEF PackageToken
  <2>2. proc[p].man.tokens # {} /\ proc[p].man.tokens \subseteq Tokens
    BY <1>1, <2>1 DEF Typed, Manifests
  <2>3. (CHOOSE t \in proc[p].man.tokens : TRUE) \in Blobs
    BY <2>2 DEF Blobs
  <2> QED
    BY <1>2, <2>1, <2>3
<1> QED
  BY <1>3, <1>4

(* A command that dies leaves the file it would have written as it was, or *)
(* cut off.                                                                *)
LEMMA CrashBecomes ==
    ASSUME Typed, NEW p \in Procs, Crash(p)
    PROVE  /\ \E r \in Memory : r.at = "idle" /\ proc' = [proc EXCEPT ![p] = r]
           /\ \/ disk' = disk
              \/ \E x \in Paths : /\ disk' = With(disk, x, Torn)
                                  /\ x \in Contents => proc[p].at = "content"
           /\ UNCHANGED <<key, seals, wrote>>
<1>1. "crashed" \in Outcomes /\ Ends(p, "crashed") /\ UNCHANGED <<key, seals, wrote>>
      /\ (disk' = disk \/ \E x \in NextWrite(p) : disk' = With(disk, x, Torn))
  BY DEF Crash, Outcomes
<1>2. ASSUME NEW x \in NextWrite(p)
      PROVE  x \in Paths /\ (x \in Contents => proc[p].at = "content")
  <2>1. CASE proc[p].at = "content" /\ proc[p].todo # {}
    <3>1. proc[p].todo \in SUBSET DOMAIN Written
      BY DEF Typed, Memory
    <3>2. First(proc[p].todo) \in DOMAIN Written
      BY <2>1, <3>1, FirstIsOne
    <3>3. x = Written[First(proc[p].todo)]
      BY <1>2, <2>1 DEF NextWrite
    <3> QED
      BY <2>1, <3>2, <3>3 DEF Paths, Contents
  <2>2. CASE ~ (proc[p].at = "content" /\ proc[p].todo # {})
    <3>1. x \in {Manifest, Signatures, Anchor} \union TokenFiles
      BY <1>2, <2>2 DEF NextWrite, TokenFiles
    <3>2. x \notin Contents
      BY <3>1, WrittenFiles DEF Contents
    <3> QED
      BY <3>1, <3>2 DEF Paths
  <2> QED
    BY <2>1, <2>2
<1>3. \E r \in Memory : r.at = "idle" /\ proc' = [proc EXCEPT ![p] = r]
  BY <1>1, EndsBecomes
<1> QED
  BY <1>1, <1>2, <1>3

---------------------------------------------------------------------------
(* Type correctness. *)

LEMMA ProcStaysTyped ==
    ASSUME Typed, NEW p \in Procs, NEW r \in Memory, proc' = [proc EXCEPT ![p] = r],
           r.at = "token" => r.man.tokens # {},
           r.at \in {"file", "document"} => r.token # {}
    PROVE  /\ proc' \in [Procs -> Memory]
           /\ \A q \in Procs :
                /\ proc'[q].at = "token" => proc'[q].man.tokens # {}
                /\ proc'[q].at \in {"file", "document"} => proc'[q].token # {}
<1>1. proc' \in [Procs -> Memory] /\ proc'[p] = r /\ \A q \in Procs : q # p => proc'[q] = proc[q]
  BY SetProc
<1>2. ASSUME NEW q \in Procs
      PROVE  /\ proc'[q].at = "token" => proc'[q].man.tokens # {}
             /\ proc'[q].at \in {"file", "document"} => proc'[q].token # {}
  <2>1. CASE q = p
    BY <1>1, <2>1
  <2>2. CASE q # p
    BY <1>1, <2>2 DEF Typed
  <2> QED
    BY <2>1, <2>2
<1> QED
  BY <1>1, <1>2

LEMMA PathsKnown ==
    /\ {Manifest, Signatures, Anchor, SealToken, AnchorToken} \subseteq Paths
    /\ Signatures # Manifest /\ Anchor # Manifest /\ SealToken # Manifest /\ AnchorToken # Manifest
    /\ \A x \in Contents : x \in Paths /\ x \notin {Manifest, Signatures, Anchor, SealToken, AnchorToken}
    /\ Torn \in Blobs /\ \A n \in Nat : n \in Blobs
BY WrittenFiles DEF Paths, TokenFiles, Contents, Blobs, Manifest, Signatures, Anchor, SealToken, AnchorToken

(* The disk after each kind of step.                                       *)
LEMMA DiskAfterStep ==
    ASSUME Typed, NEW p \in Procs
    PROVE  /\ AnchorStep(p) => DiskTyped'
           /\ Crash(p) => DiskTyped'
           /\ PackageStep(p) => DiskTyped'
<1>1. ASSUME disk' = disk PROVE DiskTyped'
  BY <1>1 DEF Typed, DiskTyped
<1>2. ASSUME NEW path \in Paths, path # Manifest, NEW content \in Blobs,
             disk' = With(disk, path, content)
      PROVE  DiskTyped'
  BY <1>2, DiskStaysTyped DEF Typed
<1>3. ASSUME NEW m \in Manifests \union {Torn}, disk' = With(disk, Manifest, m)
      PROVE  DiskTyped'
  BY <1>3, DiskStaysTyped, PathsKnown DEF Typed
<1>4. AnchorStep(p) => DiskTyped'
  <2>1. ASSUME NEW path, NEW content, Writes(path, content)
        PROVE  DiskTyped'
    BY <2>1, <1>2, PathsKnown DEF Writes
  <2>2. ASSUME Relabels(p) PROVE DiskTyped'
    <3>1. proc[p].man \in Manifests
      BY DEF Typed, Memory
    <3>2. [proc[p].man EXCEPT !.label = "anchored"] \in Manifests
      BY <3>1, SealedKeeps
    <3> QED
      BY <2>2, <3>2, <1>3 DEF Relabels
  <2> QED
    BY <1>1, <2>1, <2>2, AnchorStepBecomes
<1>5. Crash(p) => DiskTyped'
  <2>1. ASSUME NEW x \in Paths, disk' = With(disk, x, Torn)
        PROVE  DiskTyped'
    <3>1. CASE x = Manifest
      BY <2>1, <3>1, <1>3
    <3>2. CASE x # Manifest
      BY <2>1, <3>2, <1>2, PathsKnown
    <3> QED
      BY <3>1, <3>2
  <2> QED
    BY <1>1, <2>1, CrashBecomes
<1>6. PackageStep(p) => DiskTyped'
  <2>1. ASSUME PackageContent(p) PROVE DiskTyped'
    <3>1. First(proc[p].todo) \in proc[p].todo /\ proc[p].todo \in SUBSET DOMAIN Written
          /\ proc[p].seal \in Nat
      BY <2>1, ContentBecomes DEF Typed, Memory
    <3>2. Written[First(proc[p].todo)] \in Contents
      BY <3>1 DEF Contents
    <3>3. disk' = With(disk, Written[First(proc[p].todo)], proc[p].seal)
      BY <2>1 DEF PackageContent
    <3> QED
      BY <3>1, <3>2, <3>3, <1>2, PathsKnown
  <2>2. PackageSign(p) \/ PackageStamp(p) => DiskTyped'
    BY <1>1 DEF PackageSign, PackageStamp
  <2>3. PackageManifest(p) => DiskTyped'
    BY <1>3, ManifestBecomes
  <2>4. PackageSignatures(p) \/ PackageToken(p) => DiskTyped'
    BY <1>2, RestBecomes, PathsKnown
  <2> QED
    BY <2>1, <2>2, <2>3, <2>4 DEF PackageStep
<1> QED
  BY <1>4, <1>5, <1>6

(* The rest of the state after each step.                                  *)
LEMMA RestAfterStep ==
    ASSUME Typed, NEW p \in Procs,
           PackageStart(p) \/ PackageStep(p) \/ AnchorStart(p) \/ AnchorStep(p) \/ Crash(p)
    PROVE  /\ key' \in Nat /\ seals' \in Nat /\ faults' \in Nat
           /\ wrote' \in Seq(SUBSET Contents) /\ Len(wrote') = seals'
<1>1. wrote \in Seq(SUBSET Contents) /\ Len(wrote) = seals /\ seals \in Nat /\ key \in Nat /\ faults \in Nat
  BY DEF Typed
<1>2. CASE PackageStart(p)
  <2>1. seals' = seals + 1 /\ wrote' = Append(wrote, {}) /\ key' = key /\ faults' \in {faults, faults + 1}
    BY <1>2 DEF PackageStart
  <2> QED
    BY <1>1, <2>1
<1>3. CASE PackageContent(p)
  <2>1. First(proc[p].todo) \in proc[p].todo /\ proc[p].todo \in SUBSET DOMAIN Written
    BY <1>3, ContentBecomes DEF Typed, Memory
  <2>2. Written[First(proc[p].todo)] \in Contents
    BY <2>1 DEF Contents
  <2>3. /\ wrote' = [wrote EXCEPT ![proc[p].seal] = @ \union {Written[First(proc[p].todo)]}]
        /\ UNCHANGED <<key, seals, faults>>
    BY <1>3 DEF PackageContent
  <2> DEFINE now == wrote[proc[p].seal] \union {Written[First(proc[p].todo)]}
  <2>4. wrote' = [wrote EXCEPT ![proc[p].seal] = now]
    BY <2>3
  <2>5. proc[p].seal \in DOMAIN wrote => now \in SUBSET Contents
    BY <1>1, <2>2
  <2> HIDE DEF now
  <2>6. wrote' \in Seq(SUBSET Contents) /\ Len(wrote') = Len(wrote)
    <3>1. DOMAIN wrote = 1..Len(wrote) /\ DOMAIN wrote' = DOMAIN wrote
      BY <1>1, <2>4
    <3>2. ASSUME NEW i \in 1..Len(wrote) PROVE wrote'[i] \in SUBSET Contents
      BY <1>1, <2>4, <2>5
    <3>3. wrote' \in [1..Len(wrote) -> SUBSET Contents]
      BY <2>4, <3>1, <3>2
    <3> QED
      BY <1>1, <3>3
  <2> QED
    BY <1>1, <2>3, <2>6
<1>4. CASE Crash(p)
  <2>1. faults' = faults + 1 /\ UNCHANGED <<key, seals, wrote>>
    BY <1>4 DEF Crash
  <2> QED
    BY <1>1, <2>1
<1>5. CASE PackageSign(p) \/ PackageStamp(p) \/ PackageManifest(p) \/ PackageSignatures(p)
             \/ PackageToken(p) \/ AnchorStart(p)
  BY <1>1, <1>5 DEF PackageSign, PackageStamp, PackageManifest, PackageSignatures, PackageToken, AnchorStart
<1>6. CASE AnchorStep(p)
  BY <1>1, <1>6, AnchorStepBecomes
<1> QED
  BY <1>2, <1>3, <1>4, <1>5, <1>6 DEF PackageStep

(* The memory of the processes after each step.                            *)
LEMMA ProcAfterStep ==
    ASSUME Typed, NEW p \in Procs,
           PackageStart(p) \/ PackageStep(p) \/ AnchorStart(p) \/ AnchorStep(p) \/ Crash(p)
    PROVE  \E r \in Memory :
             /\ proc' = [proc EXCEPT ![p] = r]
             /\ r.at = "token" => r.man.tokens # {}
             /\ r.at \in {"file", "document"} => r.token # {}
<1>1. CASE PackageStart(p)
  BY <1>1, StartBecomes
<1>2. CASE PackageContent(p)
  BY <1>2, ContentBecomes
<1>3. CASE PackageSign(p)
  BY <1>3, SignBecomes
<1>4. CASE PackageStamp(p)
  BY <1>4, StampBecomes
<1>5. CASE PackageManifest(p)
  BY <1>5, ManifestBecomes
<1>6. CASE PackageSignatures(p) \/ PackageToken(p)
  BY <1>6, RestBecomes
<1>7. CASE AnchorStart(p)
  BY <1>7, AnchorStartBecomes
<1>8. CASE AnchorStep(p)
  BY <1>8, AnchorStepBecomes DEF Anchoring
<1>9. CASE Crash(p)
  BY <1>9, CrashBecomes
<1> QED
  BY <1>1, <1>2, <1>3, <1>4, <1>5, <1>6, <1>7, <1>8, <1>9 DEF PackageStep

LEMMA TypedStep == Typed /\ [Next]_vars => Typed'
<1> SUFFICES ASSUME Typed, [Next]_vars
             PROVE  Typed'
  OBVIOUS
<1>1. ASSUME NEW p \in Procs,
             PackageStart(p) \/ PackageStep(p) \/ AnchorStart(p) \/ AnchorStep(p) \/ Crash(p)
      PROVE  Typed'
  <2>1. PackageStart(p) \/ AnchorStart(p) => DiskTyped'
    BY DEF PackageStart, AnchorStart, Typed, DiskTyped
  <2>2. DiskTyped'
    BY <1>1, <2>1, DiskAfterStep
  <2>3. PICK r \in Memory :
          /\ proc' = [proc EXCEPT ![p] = r]
          /\ r.at = "token" => r.man.tokens # {}
          /\ r.at \in {"file", "document"} => r.token # {}
    BY <1>1, ProcAfterStep
  <2>4. /\ proc' \in [Procs -> Memory]
        /\ \A q \in Procs :
             /\ proc'[q].at = "token" => proc'[q].man.tokens # {}
             /\ proc'[q].at \in {"file", "document"} => proc'[q].token # {}
    BY <2>3, ProcStaysTyped
  <2> QED
    BY <1>1, <2>2, <2>4, RestAfterStep DEF Typed
<1>2. CASE RotateKey
  <2>1. key' \in Nat /\ UNCHANGED <<disk, proc, seals, wrote, faults>>
    BY <1>2, BundleConstants DEF RotateKey
  <2> QED
    BY <2>1 DEF Typed, DiskTyped
<1>3. CASE UNCHANGED vars
  BY <1>3 DEF vars, Typed, DiskTyped
<1> QED
  BY <1>1, <1>2, <1>3 DEF Next

LEMMA TypedInit == Init => Typed
<1> SUFFICES ASSUME Init PROVE Typed
  OBVIOUS
<1>1. DiskTyped
  BY DEF Init, DiskTyped
<1>2. "nothing" \in Outcomes
  BY DEF Outcomes
<1>3. proc \in [Procs -> Memory] /\ \A p \in Procs : proc[p].at = "idle"
  BY <1>2, IdleTyped DEF Init
<1>4. wrote \in Seq(SUBSET Contents) /\ Len(wrote) = 0
  BY DEF Init
<1> QED
  BY <1>1, <1>3, <1>4 DEF Init, Typed

(* The directory holds files of known names and kinds, and every command   *)
(* remembers what its stage needs: a run that writes a token file has a    *)
(* token, and so has an anchor that writes its document.                   *)
THEOREM TypeCorrect == Spec => []Typed
BY TypedInit, TypedStep, PTL DEF Spec

---------------------------------------------------------------------------
(* The inductive invariant is kept. *)

(* The manifests in circulation, one by one.                               *)
LEMMA CirculatingIs ==
    ASSUME NEW m
    PROVE  m \in Circulating <=>
             \/ Manifest \in DOMAIN disk /\ m = disk[Manifest] /\ m # Torn
             \/ \E q \in Procs : proc[q].at \in Holding /\ m = proc[q].man
BY DEF Circulating

LEMMA CirculatingTyped == Typed => Circulating \subseteq Manifests
BY CirculatingIs DEF Typed, DiskTyped, Memory

(* What the invariant says of a manifest it says of its sealed part.       *)
LEMMA SealedAgrees ==
    ASSUME NEW m \in Manifests, NEW n \in Manifests, Sealed(m) = Sealed(n)
    PROVE  m.seal = n.seal /\ m.files = n.files /\ (Covers(m, wrote) <=> Covers(n, wrote))
<1>1. /\ Sealed(m).seal = m.seal /\ Sealed(m).files = m.files
      /\ Sealed(n).seal = n.seal /\ Sealed(n).files = n.files
  BY SealedKeeps
<1>2. m.seal = n.seal /\ m.files = n.files
  BY <1>1
<1> QED
  BY <1>2 DEF Covers

(* Steps that begin no run, write no content and bring no new manifest     *)
(* into circulation.                                                       *)
LEMMA QuietStep ==
    ASSUME Typed, Typed', Inv, NEW p \in Procs, NEW r \in Memory,
           proc' = [proc EXCEPT ![p] = r],
           UNCHANGED <<seals, wrote>>,
           \A q \in Procs : q # p /\ proc[q].at = "content" =>
               \A x \in Contents \intersect DOMAIN disk : x \in DOMAIN disk' /\ disk'[x] = disk[x],
           Manifest \in DOMAIN disk' /\ disk'[Manifest] # Torn =>
               \E m \in Circulating : Sealed(m) = Sealed(disk'[Manifest]),
           r.at \in Holding => \E m \in Circulating : Sealed(m) = Sealed(r.man),
           r.at # "content",
           r.at \in Packaging => /\ proc[p].at \in Packaging
                                 /\ r.seal = proc[p].seal /\ r.man.seal = seals,
           r.at \in {"stamp", "manifest"} => Fresh(p) /\ Covers(r.man, wrote)
    PROVE  Inv'
<1>1. proc'[p] = r /\ \A q \in Procs : q # p => proc'[q] = proc[q]
  BY SetProc
<1>2. Circulating \subseteq Manifests /\ Circulating' \subseteq Manifests
  <2>1. Circulating' \subseteq Manifests
    BY DEF Circulating, Typed, DiskTyped, Memory
  <2> QED
    BY <2>1, CirculatingTyped
<1>3. ASSUME NEW n \in Circulating'
      PROVE  \E m \in Circulating : Sealed(m) = Sealed(n)
  <2>1. \/ Manifest \in DOMAIN disk' /\ n = disk'[Manifest] /\ n # Torn
        \/ \E q \in Procs : proc'[q].at \in Holding /\ n = proc'[q].man
    BY DEF Circulating
  <2>2. ASSUME NEW q \in Procs, q # p, proc'[q].at \in Holding, n = proc'[q].man
        PROVE  n \in Circulating
    BY <1>1, <2>2, CirculatingIs
  <2> QED
    BY <1>1, <2>1, <2>2
<1>4. wrote' = wrote
  OBVIOUS
<1>5. OnePackaging'
  BY <1>1 DEF Inv, OnePackaging
<1>6. RunsAtWork'
  <2> SUFFICES ASSUME NEW q \in Procs
               PROVE  /\ proc'[q].at \in Packaging => seals' > 0 /\ proc'[q].seal = seals'
                      /\ proc'[q].at \in Packaging \ {"content"} => proc'[q].man.seal = seals'
                      /\ proc'[q].at \in {"stamp", "manifest"} => Covers(proc'[q].man, wrote')
                      /\ Fresh(q)' => \A m \in Circulating' : m.seal # seals'
    BY DEF RunsAtWork
  <2>1. proc'[q].man \in Manifests
    BY DEF Typed, Memory
  <2>2. Fresh(q)' => Fresh(q)
    BY <1>1 DEF Fresh
  <2>3. Fresh(q)' => \A m \in Circulating' : m.seal # seals'
    <3> SUFFICES ASSUME Fresh(q)', NEW n \in Circulating'
                 PROVE  n.seal # seals'
      OBVIOUS
    <3>1. PICK m \in Circulating : Sealed(m) = Sealed(n)
      BY <1>3
    <3>2. m.seal = n.seal
      BY <1>2, <3>1, SealedAgrees
    <3>3. m.seal # seals
      BY <2>2 DEF Inv, RunsAtWork
    <3> QED
      BY <3>2, <3>3
  <2>4. CASE q = p
    <3>1. proc'[q].at \in {"stamp", "manifest"} => Covers(proc'[q].man, wrote')
      BY <1>1, <1>4, <2>1, <2>4
    <3> QED
      BY <1>1, <2>3, <2>4, <3>1 DEF Inv, RunsAtWork
  <2>5. CASE q # p
    <3>1. proc'[q].at \in {"stamp", "manifest"} => Covers(proc'[q].man, wrote')
      BY <1>1, <1>4, <2>1, <2>5 DEF Inv, RunsAtWork
    <3> QED
      BY <1>1, <2>3, <2>5, <3>1 DEF Inv, RunsAtWork
  <2> QED
    BY <2>4, <2>5
<1>7. ContentInOrder'
  <2> SUFFICES ASSUME NEW q \in Procs, proc'[q].at = "content"
               PROVE  /\ \A x \in Contents \ Optional :
                           x \in wrote'[seals'] \/ \E i \in proc'[q].todo : Written[i] = x
                      /\ \A x \in wrote'[seals'] : x \in DOMAIN disk' /\ disk'[x] = seals'
    BY DEF ContentInOrder, Contents
  <2>1. q # p /\ proc'[q] = proc[q] /\ proc[q].at = "content"
    BY <1>1
  <2>2. /\ \A x \in Contents \ Optional :
             x \in wrote[seals] \/ \E i \in proc[q].todo : Written[i] = x
        /\ \A x \in wrote[seals] : x \in DOMAIN disk /\ disk[x] = seals
    BY <2>1 DEF Inv, ContentInOrder
  <2>3. "content" \in Packaging
    BY DEF Packaging
  <2>4. seals \in 1..Len(wrote)
    BY <2>1, <2>3 DEF Inv, RunsAtWork, Typed
  <2>5. wrote[seals] \subseteq Contents
    BY <2>4 DEF Typed
  <2> QED
    BY <2>1, <2>2, <2>5
<1>8. ManifestsKnown'
  <2> SUFFICES ASSUME NEW n \in Circulating'
               PROVE  n.seal \in 1..seals' /\ Covers(n, wrote')
    BY DEF ManifestsKnown
  <2>1. PICK m \in Circulating : Sealed(m) = Sealed(n)
    BY <1>3
  <2>2. m.seal = n.seal /\ (Covers(m, wrote) <=> Covers(n, wrote))
    BY <1>2, <2>1, SealedAgrees
  <2> QED
    BY <1>2, <1>4, <2>2 DEF Inv, ManifestsKnown
<1>9. OneManifestPerSeal'
  <2> SUFFICES ASSUME NEW n1 \in Circulating', NEW n2 \in Circulating', n1.seal = n2.seal
               PROVE  Sealed(n1) = Sealed(n2)
    BY DEF OneManifestPerSeal, Sealed
  <2>1. PICK m1 \in Circulating : Sealed(m1) = Sealed(n1)
    BY <1>3
  <2>2. PICK m2 \in Circulating : Sealed(m2) = Sealed(n2)
    BY <1>3
  <2>3. m1.seal = n1.seal /\ m2.seal = n2.seal
    BY <1>2, <2>1, <2>2, SealedAgrees
  <2> QED
    BY <2>1, <2>2, <2>3 DEF Inv, OneManifestPerSeal
<1> QED
  BY <1>5, <1>6, <1>7, <1>8, <1>9 DEF Inv

(* Anchors, deaths and the later steps of a packaging run are quiet.       *)
LEMMA DiskUntouched ==
    ASSUME NEW path, NEW content, disk' = With(disk, path, content)
    PROVE  /\ path # Manifest => /\ Manifest \in DOMAIN disk' <=> Manifest \in DOMAIN disk
                                 /\ Manifest \in DOMAIN disk => disk'[Manifest] = disk[Manifest]
           /\ path = Manifest => Manifest \in DOMAIN disk' /\ disk'[Manifest] = content
           /\ \A x \in DOMAIN disk : x # path => x \in DOMAIN disk' /\ disk'[x] = disk[x]
BY DEF With

LEMMA AnchorQuiet ==
    ASSUME Typed, Typed', Inv, NEW p \in Procs, AnchorStep(p)
    PROVE  Inv'
<1>1. PICK r \in Memory :
        /\ \/ r.at = "idle"
           \/ r.at \in Anchoring /\ r.man = proc[p].man
        /\ proc' = [proc EXCEPT ![p] = r]
  <2>1. \E r \in Memory :
          /\ \/ r.at = "idle"
             \/ r.at \in Anchoring /\ r.man = proc[p].man
          /\ r.at \in {"file", "document"} => r.token # {}
          /\ proc' = [proc EXCEPT ![p] = r]
    BY AnchorStepBecomes
  <2> QED
    BY <2>1
<1>2. proc[p].at \in Anchoring /\ proc[p].man \in Circulating /\ proc[p].man \in Manifests
  <2>1. proc[p].at \in Anchoring
    BY AnchorStepBecomes
  <2> QED
    BY <2>1, CirculatingIs DEF Holding, Typed, Memory
<1>3. \/ disk' = disk
      \/ \E path, content : Writes(path, content)
      \/ Relabels(p)
  BY AnchorStepBecomes
<1>4. \A x \in Contents \intersect DOMAIN disk : x \in DOMAIN disk' /\ disk'[x] = disk[x]
  <2>1. ASSUME NEW path, NEW content, Writes(path, content)
        PROVE  \A x \in Contents \intersect DOMAIN disk : x \in DOMAIN disk' /\ disk'[x] = disk[x]
    BY <2>1, DiskUntouched, PathsKnown DEF Writes
  <2>2. ASSUME Relabels(p)
        PROVE  \A x \in Contents \intersect DOMAIN disk : x \in DOMAIN disk' /\ disk'[x] = disk[x]
    BY <2>2, DiskUntouched, PathsKnown DEF Relabels
  <2> QED
    BY <1>3, <2>1, <2>2
<1>5. ASSUME Manifest \in DOMAIN disk', disk'[Manifest] # Torn
      PROVE  \E m \in Circulating : Sealed(m) = Sealed(disk'[Manifest])
  <2>1. CASE Manifest \in DOMAIN disk /\ disk'[Manifest] = disk[Manifest]
    BY <1>5, <2>1, CirculatingIs
  <2>2. CASE Relabels(p)
    <3>1. disk'[Manifest] = [proc[p].man EXCEPT !.label = "anchored"]
      BY <2>2, DiskUntouched DEF Relabels
    <3>2. Sealed(disk'[Manifest]) = Sealed(proc[p].man)
      BY <1>2, <3>1, SealedKeeps
    <3> QED
      BY <1>2, <3>2
  <2>3. ASSUME NEW path, NEW content, Writes(path, content)
        PROVE  Manifest \in DOMAIN disk /\ disk'[Manifest] = disk[Manifest]
    BY <1>5, <2>3, DiskUntouched, PathsKnown DEF Writes
  <2> QED
    BY <1>3, <1>5, <2>1, <2>2, <2>3
<1>6. /\ r.at \in Holding => \E m \in Circulating : Sealed(m) = Sealed(r.man)
      /\ r.at # "content" /\ r.at \notin Packaging
      /\ r.at \notin {"stamp", "manifest"}
  BY <1>1, <1>2 DEF Holding, Anchoring, Packaging
<1>7. UNCHANGED <<seals, wrote>>
  BY AnchorStepBecomes
<1> QED
  BY <1>1, <1>4, <1>5, <1>6, <1>7, QuietStep

LEMMA CrashQuiet ==
    ASSUME Typed, Typed', Inv, NEW p \in Procs, Crash(p)
    PROVE  Inv'
<1>1. PICK r \in Memory : r.at = "idle" /\ proc' = [proc EXCEPT ![p] = r]
  BY CrashBecomes
<1>2. \/ disk' = disk
      \/ \E x \in Paths : disk' = With(disk, x, Torn) /\ (x \in Contents => proc[p].at = "content")
  BY CrashBecomes
<1>3. ASSUME NEW q \in Procs, q # p, proc[q].at = "content"
      PROVE  \A x \in Contents \intersect DOMAIN disk : x \in DOMAIN disk' /\ disk'[x] = disk[x]
  <2>1. proc[p].at # "content"
    BY <1>3 DEF Inv, OnePackaging, Packaging
  <2> QED
    BY <1>2, <2>1, DiskUntouched
<1>4. ASSUME Manifest \in DOMAIN disk', disk'[Manifest] # Torn
      PROVE  \E m \in Circulating : Sealed(m) = Sealed(disk'[Manifest])
  <2>1. Manifest \in DOMAIN disk /\ disk'[Manifest] = disk[Manifest]
    BY <1>2, <1>4, DiskUntouched
  <2> QED
    BY <1>4, <2>1, CirculatingIs
<1>5. r.at \notin Holding /\ r.at # "content" /\ r.at \notin Packaging /\ r.at \notin {"stamp", "manifest"}
  BY <1>1 DEF Holding, Anchoring, Packaging
<1>6. UNCHANGED <<seals, wrote>>
  BY CrashBecomes
<1> QED
  BY <1>1, <1>3, <1>4, <1>5, <1>6, QuietStep

LEMMA AnchorStartQuiet ==
    ASSUME Typed, Typed', Inv, NEW p \in Procs, AnchorStart(p)
    PROVE  Inv'
<1>1. PICK r \in Memory :
        r.at = "check" /\ r.man = disk[Manifest] /\ proc' = [proc EXCEPT ![p] = r]
  BY AnchorStartBecomes
<1>2. UNCHANGED <<disk, seals, wrote>> /\ disk[Manifest] \in Circulating
  BY DEF AnchorStart, Whole, Circulating
<1>3. r.at # "content" /\ r.at \notin Packaging /\ r.at \notin {"stamp", "manifest"}
  BY <1>1 DEF Packaging
<1>4. Manifest \in DOMAIN disk' /\ disk'[Manifest] # Torn =>
        \E m \in Circulating : Sealed(m) = Sealed(disk'[Manifest])
  BY <1>2
<1> QED
  BY <1>1, <1>2, <1>3, <1>4, QuietStep

LEMMA RestQuiet ==
    ASSUME Typed, Typed', Inv, NEW p \in Procs,
           PackageStamp(p) \/ PackageSignatures(p) \/ PackageToken(p)
    PROVE  Inv'
<1>1. UNCHANGED <<seals, wrote>>
  BY DEF PackageStamp, PackageSignatures, PackageToken
<1>2. CASE PackageStamp(p)
  <2>1. PICK r \in Memory :
          /\ \/ r.at = "idle"
             \/ /\ r.at = "manifest" /\ r.seal = proc[p].seal
                /\ r.man.seal = proc[p].man.seal /\ r.man.files = proc[p].man.files
          /\ proc' = [proc EXCEPT ![p] = r]
    BY <1>2, StampBecomes
  <2>2. proc[p].at = "stamp" /\ disk' = disk
    BY <1>2 DEF PackageStamp
  <2>3. proc[p].at \in Packaging /\ proc[p].man.seal = seals /\ Covers(proc[p].man, wrote) /\ Fresh(p)
    BY <2>2 DEF Inv, RunsAtWork, Packaging, Fresh
  <2>4. r.at \in {"stamp", "manifest"} => Fresh(p) /\ Covers(r.man, wrote)
    BY <2>1, <2>3 DEF Covers
  <2>5. Manifest \in DOMAIN disk' /\ disk'[Manifest] # Torn =>
          \E m \in Circulating : Sealed(m) = Sealed(disk'[Manifest])
    BY <2>2, CirculatingIs
  <2>6. r.at \notin Holding /\ r.at # "content"
    BY <2>1 DEF Holding, Anchoring
  <2>7. r.at \in Packaging => /\ proc[p].at \in Packaging
                              /\ r.seal = proc[p].seal /\ r.man.seal = seals
    BY <2>1, <2>3 DEF Packaging
  <2> QED
    BY <1>1, <2>1, <2>2, <2>4, <2>5, <2>6, <2>7, QuietStep
<1>3. CASE PackageSignatures(p) \/ PackageToken(p)
  <2>1. PICK r \in Memory :
          /\ \/ r.at = "idle"
             \/ r.at = "token" /\ r.seal = proc[p].seal /\ r.man = proc[p].man
          /\ proc' = [proc EXCEPT ![p] = r]
    BY <1>3, RestBecomes
  <2>2. PICK path \in {Signatures, SealToken}, content \in Blobs : disk' = With(disk, path, content)
    BY <1>3, RestBecomes
  <2>3. proc[p].at \in {"signatures", "token"}
    BY <1>3, RestBecomes
  <2>4. proc[p].at \in Packaging /\ proc[p].man.seal = seals /\ proc[p].man \in Circulating
    BY <2>3 DEF Inv, RunsAtWork, Packaging, Circulating, Holding
  <2>5. Manifest \in DOMAIN disk' /\ disk'[Manifest] # Torn =>
          \E m \in Circulating : Sealed(m) = Sealed(disk'[Manifest])
    BY <2>2, DiskUntouched, PathsKnown, CirculatingIs
  <2>6. \A x \in Contents \intersect DOMAIN disk : x \in DOMAIN disk' /\ disk'[x] = disk[x]
    BY <2>2, DiskUntouched, PathsKnown
  <2>7. /\ r.at \in Holding => \E m \in Circulating : Sealed(m) = Sealed(r.man)
        /\ r.at # "content" /\ r.at \notin {"stamp", "manifest"}
        /\ r.at \in Packaging => /\ proc[p].at \in Packaging
                                 /\ r.seal = proc[p].seal /\ r.man.seal = seals
    BY <2>1, <2>4 DEF Holding, Anchoring, Packaging
  <2> QED
    BY <1>1, <2>1, <2>5, <2>6, <2>7, QuietStep
<1> QED
  BY <1>2, <1>3

(* Signing: everything the run had to write is on disk and pinned.         *)
LEMMA SignKeeps ==
    ASSUME Typed, Typed', Inv, NEW p \in Procs, PackageSign(p)
    PROVE  Inv'
<1>1. PICK r \in Memory :
        /\ r.at = "stamp" /\ r.seal = proc[p].seal
        /\ r.man.seal = proc[p].seal /\ r.man.files = PinnedFiles(disk)
        /\ proc' = [proc EXCEPT ![p] = r]
  BY SignBecomes
<1>2. proc[p].at = "content" /\ proc[p].todo = {} /\ UNCHANGED <<disk, seals, wrote>>
  BY DEF PackageSign
<1>3. proc[p].at \in Packaging /\ proc[p].seal = seals /\ Fresh(p)
  BY <1>2 DEF Inv, RunsAtWork, Packaging, Fresh
<1>4. Covers(r.man, wrote)
  <2> SUFFICES ASSUME NEW x \in Contents, x \in wrote[seals] \/ x \notin Optional
               PROVE  x \in DOMAIN r.man.files /\ r.man.files[x] = seals
    BY <1>1, <1>3 DEF Covers
  <2>1. x \in wrote[seals]
    BY <1>2 DEF Inv, ContentInOrder
  <2>2. x \in DOMAIN disk /\ disk[x] = seals
    BY <1>2, <2>1 DEF Inv, ContentInOrder
  <2>3. x \in DOMAIN PinnedFiles(disk) /\ PinnedFiles(disk)[x] = disk[x]
    BY <2>2, PathsKnown DEF PinnedFiles, TokenFiles
  <2> QED
    BY <1>1, <2>2, <2>3
<1>5. Manifest \in DOMAIN disk' /\ disk'[Manifest] # Torn =>
        \E m \in Circulating : Sealed(m) = Sealed(disk'[Manifest])
  BY <1>2, CirculatingIs
<1>6. r.at \notin Holding /\ r.at # "content"
  BY <1>1 DEF Holding, Anchoring
<1> QED
  BY <1>1, <1>2, <1>3, <1>4, <1>5, <1>6, QuietStep

(* A run begins: its seal is a new one.                                    *)
LEMMA StartKeeps ==
    ASSUME Typed, Typed', Inv, NEW p \in Procs, PackageStart(p)
    PROVE  Inv'
<1>1. PICK r \in Memory :
        /\ r.at = "content" /\ r.seal = seals + 1
        /\ \A i \in DOMAIN Written : Written[i] \notin Optional => i \in r.todo
        /\ proc' = [proc EXCEPT ![p] = r]
  BY StartBecomes
<1>2. /\ proc[p].at = "idle" /\ \A q \in Procs : proc[q].at \notin Packaging
      /\ disk' = disk /\ seals' = seals + 1 /\ wrote' = Append(wrote, {})
  BY DEF PackageStart
<1>3. proc'[p] = r /\ \A q \in Procs : q # p => proc'[q] = proc[q]
  BY <1>1, SetProc
<1>4. Circulating' \subseteq Circulating
  <2> SUFFICES ASSUME NEW n \in Circulating'
               PROVE  n \in Circulating
    OBVIOUS
  <2>1. \/ Manifest \in DOMAIN disk' /\ n = disk'[Manifest] /\ n # Torn
        \/ \E q \in Procs : proc'[q].at \in Holding /\ n = proc'[q].man
    BY DEF Circulating
  <2>2. proc'[p].at \notin Holding
    BY <1>1, <1>3 DEF Holding, Anchoring
  <2> QED
    BY <1>2, <1>3, <2>1, <2>2, CirculatingIs
<1>5. /\ seals \in Nat /\ Len(wrote) = seals /\ wrote \in Seq(SUBSET Contents)
      /\ wrote'[seals + 1] = {} /\ \A i \in 1..seals : wrote'[i] = wrote[i]
  BY <1>2 DEF Typed
<1>6. OnePackaging'
  BY <1>2, <1>3 DEF OnePackaging
<1>7. \A m \in Circulating' : m.seal \in 1..seals /\ Covers(m, wrote)
  BY <1>4 DEF Inv, ManifestsKnown
<1>8. RunsAtWork'
  <2> SUFFICES ASSUME NEW q \in Procs
               PROVE  /\ proc'[q].at \in Packaging => seals' > 0 /\ proc'[q].seal = seals'
                      /\ proc'[q].at \in Packaging \ {"content"} => proc'[q].man.seal = seals'
                      /\ proc'[q].at \in {"stamp", "manifest"} => Covers(proc'[q].man, wrote')
                      /\ Fresh(q)' => \A m \in Circulating' : m.seal # seals'
    BY DEF RunsAtWork
  <2>1. \A m \in Circulating' : m.seal # seals'
    BY <1>2, <1>5, <1>7
  <2>2. CASE q = p
    BY <1>1, <1>2, <1>3, <1>5, <2>1, <2>2
  <2>3. CASE q # p
    BY <1>2, <1>3, <2>1, <2>3 DEF Packaging
  <2> QED
    BY <2>2, <2>3
<1>9. ContentInOrder'
  <2> SUFFICES ASSUME NEW q \in Procs, proc'[q].at = "content"
               PROVE  /\ \A x \in Contents \ Optional :
                           x \in wrote'[seals'] \/ \E i \in proc'[q].todo : Written[i] = x
                      /\ \A x \in wrote'[seals'] : x \in DOMAIN disk' /\ disk'[x] = seals'
    BY DEF ContentInOrder, Contents
  <2>1. q = p
    BY <1>2, <1>3 DEF Packaging
  <2>2. \A x \in Contents \ Optional : \E i \in r.todo : Written[i] = x
    BY <1>1 DEF Contents
  <2> QED
    BY <1>2, <1>3, <1>5, <2>1, <2>2
<1>10. ManifestsKnown'
  BY <1>2, <1>5, <1>7 DEF ManifestsKnown, Covers
<1>11. OneManifestPerSeal'
  BY <1>4 DEF Inv, OneManifestPerSeal, Sealed
<1> QED
  BY <1>6, <1>8, <1>9, <1>10, <1>11 DEF Inv

(* A content file is written: the manifests in circulation are of earlier  *)
(* runs.                                                                   *)
LEMMA ContentKeeps ==
    ASSUME Typed, Typed', Inv, NEW p \in Procs, PackageContent(p)
    PROVE  Inv'
<1> DEFINE i == First(proc[p].todo)
<1>1. PICK r \in Memory :
        /\ r.at = "content" /\ r.seal = proc[p].seal
        /\ i \in proc[p].todo
        /\ r.todo = proc[p].todo \ {i}
        /\ proc' = [proc EXCEPT ![p] = r]
  BY ContentBecomes
<1>2. /\ proc[p].at = "content" /\ seals' = seals
      /\ disk' = With(disk, Written[i], proc[p].seal)
      /\ wrote' = [wrote EXCEPT ![proc[p].seal] = @ \union {Written[i]}]
  BY DEF PackageContent
<1>3. proc[p].at \in Packaging /\ proc[p].seal = seals /\ Fresh(p) /\ seals \in 1..Len(wrote)
  BY <1>2 DEF Inv, RunsAtWork, Packaging, Fresh, Typed
<1>4. proc[p].todo \subseteq DOMAIN Written
  BY DEF Typed, Memory
<1>5. Written[i] \in Contents /\ Written[i] # Manifest
  BY <1>1, <1>4, PathsKnown DEF Contents
<1> HIDE DEF i
<1>6. proc'[p] = r /\ \A q \in Procs : q # p => proc'[q] = proc[q]
  BY <1>1, SetProc
<1>7. \A q \in Procs : q # p => proc[q].at \notin Packaging
  BY <1>3 DEF Inv, OnePackaging
<1>8. Circulating' \subseteq Circulating
  <2> SUFFICES ASSUME NEW n \in Circulating'
               PROVE  n \in Circulating
    OBVIOUS
  <2>1. \/ Manifest \in DOMAIN disk' /\ n = disk'[Manifest] /\ n # Torn
        \/ \E q \in Procs : proc'[q].at \in Holding /\ n = proc'[q].man
    BY DEF Circulating
  <2>2. proc'[p].at \notin Holding
    BY <1>1, <1>6 DEF Holding, Anchoring
  <2>3. Manifest \in DOMAIN disk' => Manifest \in DOMAIN disk /\ disk'[Manifest] = disk[Manifest]
    BY <1>2, <1>5, DiskUntouched
  <2> QED
    BY <1>6, <2>1, <2>2, <2>3, CirculatingIs
<1>9. \A m \in Circulating' : m.seal # seals /\ m.seal \in 1..seals /\ Covers(m, wrote)
  BY <1>3, <1>8 DEF Inv, ManifestsKnown, RunsAtWork
<1>10. /\ wrote'[seals] = wrote[seals] \union {Written[i]}
       /\ \A s \in 1..seals : s # seals => wrote'[s] = wrote[s]
  BY <1>2, <1>3 DEF Typed
<1>11. OnePackaging'
  BY <1>3, <1>6, <1>7 DEF OnePackaging
<1>12. RunsAtWork'
  <2> SUFFICES ASSUME NEW q \in Procs
               PROVE  /\ proc'[q].at \in Packaging => seals' > 0 /\ proc'[q].seal = seals'
                      /\ proc'[q].at \in Packaging \ {"content"} => proc'[q].man.seal = seals'
                      /\ proc'[q].at \in {"stamp", "manifest"} => Covers(proc'[q].man, wrote')
                      /\ Fresh(q)' => \A m \in Circulating' : m.seal # seals'
    BY DEF RunsAtWork
  <2>1. CASE q = p
    BY <1>1, <1>2, <1>3, <1>6, <1>9, <2>1
  <2>2. CASE q # p
    BY <1>2, <1>6, <1>7, <1>9, <2>2 DEF Packaging
  <2> QED
    BY <2>1, <2>2
<1>13. ContentInOrder'
  <2> SUFFICES ASSUME NEW q \in Procs, proc'[q].at = "content"
               PROVE  /\ \A x \in Contents \ Optional :
                           x \in wrote'[seals'] \/ \E j \in proc'[q].todo : Written[j] = x
                      /\ \A x \in wrote'[seals'] : x \in DOMAIN disk' /\ disk'[x] = seals'
    BY DEF ContentInOrder, Contents
  <2>1. q = p
    BY <1>6, <1>7 DEF Packaging
  <2>2. /\ \A x \in Contents \ Optional :
             x \in wrote[seals] \/ \E j \in proc[p].todo : Written[j] = x
        /\ \A x \in wrote[seals] : x \in DOMAIN disk /\ disk[x] = seals
    BY <1>2 DEF Inv, ContentInOrder
  <2>3. ASSUME NEW x \in Contents \ Optional
        PROVE  x \in wrote'[seals'] \/ \E j \in r.todo : Written[j] = x
    BY <1>1, <1>2, <1>10, <2>2
  <2>4. ASSUME NEW x \in wrote'[seals']
        PROVE  x \in DOMAIN disk' /\ disk'[x] = seals'
    <3>1. CASE x = Written[i]
      BY <1>2, <1>3, <3>1 DEF With
    <3>2. CASE x # Written[i]
      BY <1>2, <1>10, <2>2, <3>2, DiskUntouched
    <3> QED
      BY <3>1, <3>2
  <2> QED
    BY <1>6, <2>1, <2>3, <2>4
<1>14. ManifestsKnown'
  BY <1>2, <1>9, <1>10 DEF ManifestsKnown, Covers
<1>15. OneManifestPerSeal'
  BY <1>8 DEF Inv, OneManifestPerSeal, Sealed
<1> QED
  BY <1>11, <1>12, <1>13, <1>14, <1>15 DEF Inv

(* The new manifest comes into circulation, the only one of its seal.      *)
LEMMA ManifestKeeps ==
    ASSUME Typed, Typed', Inv, NEW p \in Procs, PackageManifest(p)
    PROVE  Inv'
<1>1. PICK r \in Memory :
        /\ r.at = "signatures" /\ r.seal = proc[p].seal /\ r.man = proc[p].man
        /\ proc' = [proc EXCEPT ![p] = r]
  BY ManifestBecomes
<1>2. /\ proc[p].at = "manifest" /\ proc[p].man \in Manifests
      /\ disk' = With(disk, Manifest, proc[p].man) /\ UNCHANGED <<seals, wrote>>
  BY ManifestBecomes DEF PackageManifest
<1>3. /\ proc[p].at \in Packaging /\ proc[p].seal = seals /\ Fresh(p) /\ seals > 0
      /\ proc[p].man.seal = seals /\ Covers(proc[p].man, wrote)
  BY <1>2 DEF Inv, RunsAtWork, Packaging, Fresh
<1>4. proc'[p] = r /\ \A q \in Procs : q # p => proc'[q] = proc[q]
  BY <1>1, SetProc
<1>5. \A q \in Procs : q # p => proc[q].at \notin Packaging
  BY <1>3 DEF Inv, OnePackaging
<1>6. disk'[Manifest] = proc[p].man /\ \A x \in Contents \intersect DOMAIN disk : x \in DOMAIN disk' /\ disk'[x] = disk[x]
  BY <1>2, DiskUntouched, PathsKnown
<1>7. \A n \in Circulating' : n \in Circulating \/ n = proc[p].man
  <2> SUFFICES ASSUME NEW n \in Circulating'
               PROVE  n \in Circulating \/ n = proc[p].man
    OBVIOUS
  <2>1. \/ Manifest \in DOMAIN disk' /\ n = disk'[Manifest] /\ n # Torn
        \/ \E q \in Procs : proc'[q].at \in Holding /\ n = proc'[q].man
    BY DEF Circulating
  <2> QED
    BY <1>1, <1>4, <1>6, <2>1, CirculatingIs
<1>8. \A n \in Circulating : n.seal # seals /\ n.seal \in 1..seals /\ Covers(n, wrote)
  BY <1>3 DEF Inv, RunsAtWork, ManifestsKnown
<1>9. OnePackaging'
  BY <1>4, <1>5 DEF OnePackaging
<1>10. RunsAtWork'
  <2> SUFFICES ASSUME NEW q \in Procs
               PROVE  /\ proc'[q].at \in Packaging => seals' > 0 /\ proc'[q].seal = seals'
                      /\ proc'[q].at \in Packaging \ {"content"} => proc'[q].man.seal = seals'
                      /\ proc'[q].at \in {"stamp", "manifest"} => Covers(proc'[q].man, wrote')
                      /\ Fresh(q)' => \A m \in Circulating' : m.seal # seals'
    BY DEF RunsAtWork
  <2>1. CASE q = p
    BY <1>1, <1>2, <1>3, <1>4, <2>1 DEF Fresh
  <2>2. CASE q # p
    BY <1>4, <1>5, <2>2 DEF Packaging, Fresh
  <2> QED
    BY <2>1, <2>2
<1>11. ContentInOrder'
  BY <1>1, <1>4, <1>5 DEF ContentInOrder, Packaging
<1>12. ManifestsKnown'
  <2>1. seals \in 1..seals
    BY <1>3 DEF Typed
  <2> QED
    BY <1>2, <1>3, <1>7, <1>8, <2>1 DEF ManifestsKnown
<1>13. OneManifestPerSeal'
  <2> SUFFICES ASSUME NEW n1 \in Circulating', NEW n2 \in Circulating', n1.seal = n2.seal
               PROVE  Sealed(n1) = Sealed(n2)
    BY DEF OneManifestPerSeal, Sealed
  <2>1. CASE n1 = proc[p].man \/ n2 = proc[p].man
    BY <1>3, <1>7, <1>8, <2>1
  <2>2. CASE n1 # proc[p].man /\ n2 # proc[p].man
    BY <1>7, <2>2 DEF Inv, OneManifestPerSeal
  <2> QED
    BY <2>1, <2>2
<1> QED
  BY <1>9, <1>10, <1>11, <1>12, <1>13 DEF Inv

LEMMA InvInit == Init => Inv
<1> SUFFICES ASSUME Init PROVE Inv
  OBVIOUS
<1>1. \A p \in Procs : proc[p].at = "idle"
  BY DEF Init, Idle
<1>2. Circulating = {}
  BY <1>1 DEF Circulating, Holding, Anchoring, Init
<1> QED
  BY <1>1, <1>2 DEF Inv, OnePackaging, RunsAtWork, ContentInOrder, ManifestsKnown, OneManifestPerSeal,
                    Packaging, Fresh

LEMMA InvStep == Typed /\ Typed' /\ Inv /\ [Next]_vars => Inv'
<1> SUFFICES ASSUME Typed, Typed', Inv, [Next]_vars
             PROVE  Inv'
  OBVIOUS
<1>1. ASSUME NEW p \in Procs, PackageStart(p)
      PROVE  Inv'
  BY <1>1, StartKeeps
<1>2. ASSUME NEW p \in Procs, PackageStep(p)
      PROVE  Inv'
  BY <1>2, ContentKeeps, SignKeeps, ManifestKeeps, RestQuiet DEF PackageStep
<1>3. ASSUME NEW p \in Procs, AnchorStart(p) \/ AnchorStep(p)
      PROVE  Inv'
  BY <1>3, AnchorStartQuiet, AnchorQuiet
<1>4. ASSUME NEW p \in Procs, Crash(p)
      PROVE  Inv'
  BY <1>4, CrashQuiet
<1>5. CASE UNCHANGED <<disk, proc, seals, wrote>>
  BY <1>5 DEF Inv, OnePackaging, RunsAtWork, ContentInOrder, ManifestsKnown, OneManifestPerSeal,
              Circulating, Fresh, Sealed
<1>6. RotateKey \/ UNCHANGED vars => UNCHANGED <<disk, proc, seals, wrote>>
  BY DEF RotateKey, vars
<1> QED
  BY <1>1, <1>2, <1>3, <1>4, <1>5, <1>6 DEF Next

THEOREM Invariance == Spec => [](Typed /\ Inv)
<1>1. Init => Typed /\ Inv
  BY TypedInit, InvInit
<1>2. (Typed /\ Inv) /\ [Next]_vars => (Typed /\ Inv)'
  BY TypedStep, InvStep
<1> QED
  BY <1>1, <1>2, PTL DEF Spec

---------------------------------------------------------------------------
(* What the invariant is for. *)

(* No process ever leaves a mixture of two packaging runs that verifies:   *)
(* what the manifest pins is what its own run wrote, and the verifier      *)
(* compares every pinned file.                                             *)
THEOREM VerifiedIsOneRun == Spec => []VerifiedMeansOneRun
<1>1. Typed /\ Inv => VerifiedMeansOneRun
  <2> SUFFICES ASSUME Typed, Inv, Verifies(disk), NEW i \in DOMAIN Written,
                      Written[i] \in wrote[disk[Manifest].seal] \/ Written[i] \notin Optional
               PROVE  Has(disk, Written[i]) /\ disk[Written[i]] = disk[Manifest].seal
    BY DEF VerifiedMeansOneRun
  <2> DEFINE m == disk[Manifest]
             x == Written[i]
  <2>1. m \in Circulating
    BY DEF Verifies, Whole, Circulating
  <2>2. x \in DOMAIN m.files /\ m.files[x] = m.seal
    BY <2>1 DEF Inv, ManifestsKnown, Covers, Contents
  <2>3. ~ FilesMapFails(disk, m)
    BY DEF Verifies
  <2>4. x \in DOMAIN disk /\ disk[x] = m.files[x]
    BY <2>2, <2>3 DEF FilesMapFails
  <2> QED
    BY <2>2, <2>4 DEF Has
<1> QED
  BY <1>1, Invariance, PTL

(* No step of an anchor changes what the signature covers, whatever it     *)
(* read and however long it waited, unless the session was packaged again  *)
(* meanwhile: all manifests of one seal agree up to their label.           *)
THEOREM AnchorLeavesSeal == Spec => SealUntouched
<1>1. ASSUME Typed, Inv, Whole(disk, Manifest), NEW p \in Procs, AnchorStep(p),
             proc[p].man.seal = disk[Manifest].seal
      PROVE  Has(disk', Manifest) /\ SealedPart(disk') = SealedPart(disk)
  <2>1. disk[Manifest] \in Circulating /\ Manifest \in DOMAIN disk
    BY <1>1 DEF Whole, Circulating
  <2>2. proc[p].at \in Anchoring /\ proc[p].man \in Manifests
    BY <1>1, AnchorStepBecomes DEF Typed, Memory
  <2>3. Sealed(proc[p].man) = Sealed(disk[Manifest])
    BY <1>1, <2>1, <2>2, CirculatingIs DEF Inv, OneManifestPerSeal, Holding
  <2>4. \/ disk' = disk
        \/ \E path, content : Writes(path, content)
        \/ Relabels(p)
    BY <1>1, AnchorStepBecomes
  <2>5. ASSUME NEW path, NEW content, Writes(path, content)
        PROVE  Manifest \in DOMAIN disk' /\ disk'[Manifest] = disk[Manifest]
    BY <2>1, <2>5, DiskUntouched, PathsKnown DEF Writes
  <2>6. CASE Relabels(p)
    <3>1. Manifest \in DOMAIN disk' /\ disk'[Manifest] = [proc[p].man EXCEPT !.label = "anchored"]
      BY <2>6, DiskUntouched DEF Relabels
    <3>2. Sealed(disk'[Manifest]) = Sealed(proc[p].man)
      BY <2>2, <3>1, SealedKeeps
    <3> QED
      BY <2>3, <3>1, <3>2 DEF Has, SealedPart, Sealed
  <2> QED
    BY <2>1, <2>4, <2>5, <2>6 DEF Has, SealedPart
<1>2. Typed /\ Inv =>
        [Whole(disk, Manifest)
         /\ (\E p \in Procs : AnchorStep(p) /\ proc[p].man.seal = disk[Manifest].seal) =>
           Has(disk', Manifest) /\ SealedPart(disk') = SealedPart(disk)]_vars
  BY <1>1
<1> QED
  BY <1>2, Invariance, PTL DEF SealUntouched

---------------------------------------------------------------------------
(* A bundle sealed once, with nobody having died. *)

Calm == faults = 0 /\ seals <= 1

(* A file cut off is none of those that are written whole.                 *)
TornApart == Torn \notin Manifests \union [seal : Nat, key : Nat, token : Tokens]

(* A manifest of the first run that pins what is in the directory, dated   *)
(* by one token of its own at most.                                        *)
Pins(m, d) ==
    /\ m.seal = 1
    /\ DOMAIN m.files = DOMAIN d \ FilesMapExcluded
    /\ \A x \in DOMAIN m.files : m.files[x] = d[x]
    /\ \A t, u \in m.tokens : t.of = 1 /\ t = u

(* The signatures and the token of the seal, once their run is past them.  *)
Attested ==
    /\ (\A p \in Procs : proc[p].at # "signatures") =>
          /\ Signatures \in DOMAIN disk
          /\ disk[Signatures] = [seal |-> disk[Manifest].seal, key |-> disk[Manifest].key]
    /\ disk[Manifest].tokens = {} => SealToken \notin DOMAIN disk
    /\ disk[Manifest].tokens # {} /\ (\A p \in Procs : proc[p].at \notin {"signatures", "token"}) =>
          SealToken \in DOMAIN disk /\ disk[SealToken] \in disk[Manifest].tokens

(* The anchor's token, and its document if that is written.                *)
Anchored ==
    /\ Anchor \in DOMAIN disk =>
          /\ AnchorToken \in DOMAIN disk
          /\ disk[Anchor] \in [seal : {1}, key : {disk[Manifest].key}, token : [id : TokenIds, of : {1}]]
    /\ AnchorToken \in DOMAIN disk => Anchor \in DOMAIN disk \/ \E p \in Procs : proc[p].at = "document"

CalmInv ==
    /\ seals = 0 => DOMAIN disk = {}
    /\ Manifest \notin DOMAIN disk => DOMAIN disk \subseteq Contents /\ \A p \in Procs : proc[p].at \notin Holding
    /\ Manifest \in DOMAIN disk => /\ disk[Manifest] # Torn /\ Pins(disk[Manifest], disk)
                                   /\ Attested /\ Anchored
    /\ \A p \in Procs :
         /\ Fresh(p) => Manifest \notin DOMAIN disk
         /\ proc[p].at \in {"stamp", "manifest"} => Pins(proc[p].man, disk)
         /\ proc[p].at \in {"ask", "file", "document"} =>
               proc[p].seal = 1 /\ proc[p].key = disk[Manifest].key
         /\ proc[p].at \in {"file", "document"} => proc[p].token \subseteq [id : TokenIds, of : {1}]
         /\ proc[p].at = "document" => AnchorToken \in DOMAIN disk

(* What holds of the disk outlives a step that leaves it alone.            *)
DiskCalm ==
    /\ seals = 0 => DOMAIN disk = {}
    /\ Manifest \in DOMAIN disk => /\ disk[Manifest] # Torn /\ Pins(disk[Manifest], disk)
                                   /\ Attested /\ Anchored

(* What holds of a command.                                                *)
ProcCalm(q) ==
    /\ Manifest \notin DOMAIN disk => DOMAIN disk \subseteq Contents /\ proc[q].at \notin Holding
    /\ Fresh(q) => Manifest \notin DOMAIN disk
    /\ proc[q].at \in {"stamp", "manifest"} => Pins(proc[q].man, disk)
    /\ proc[q].at \in {"ask", "file", "document"} =>
          proc[q].seal = 1 /\ proc[q].key = disk[Manifest].key
    /\ proc[q].at \in {"file", "document"} => proc[q].token \subseteq [id : TokenIds, of : {1}]
    /\ proc[q].at = "document" => AnchorToken \in DOMAIN disk

LEMMA SameDisk ==
    ASSUME CalmInv, disk' = disk, seals' = seals, NEW p \in Procs,
           proc[p].at \notin {"signatures", "token", "document"},
           \A q \in Procs : q # p => proc'[q] = proc[q]
    PROVE  /\ DiskCalm'
           /\ \A q \in Procs : q # p => ProcCalm(q)'
<1>1. Manifest \in DOMAIN disk => /\ disk[Manifest] # Torn /\ Pins(disk[Manifest], disk)
                                  /\ Attested /\ Anchored
  BY DEF CalmInv
<1>2. Attested => Attested'
  BY DEF Attested
<1>3. Anchored => Anchored'
  <2>1. ASSUME NEW q \in Procs, proc[q].at = "document" PROVE proc'[q].at = "document"
    BY <2>1
  <2> QED
    BY <2>1 DEF Anchored
<1>5. DiskCalm'
  BY <1>1, <1>2, <1>3 DEF DiskCalm, CalmInv, Pins
<1> QED
  BY <1>5 DEF CalmInv, ProcCalm, Fresh, Pins

(* While the manifest is on disk, every command's manifest is the same up  *)
(* to its label.                                                           *)
LEMMA OneManifest ==
    ASSUME Typed, Inv, Calm, CalmInv, NEW p \in Procs, proc[p].at \in Holding
    PROVE  /\ Manifest \in DOMAIN disk /\ disk[Manifest] \in Manifests /\ proc[p].man \in Manifests
           /\ Sealed(proc[p].man) = Sealed(disk[Manifest])
           /\ proc[p].man.seal = 1 /\ proc[p].man.key = disk[Manifest].key
           /\ proc[p].man.files = disk[Manifest].files /\ proc[p].man.tokens = disk[Manifest].tokens
<1>1. Manifest \in DOMAIN disk /\ disk[Manifest] # Torn
  BY DEF CalmInv
<1>2. disk[Manifest] \in Circulating /\ proc[p].man \in Circulating
  BY <1>1, CirculatingIs
<1>3. disk[Manifest] \in Manifests /\ proc[p].man \in Manifests
  BY <1>2, CirculatingTyped
<1>4. disk[Manifest].seal = 1 /\ proc[p].man.seal = 1
  BY <1>2 DEF Inv, ManifestsKnown, Calm, Typed
<1>5. Sealed(proc[p].man) = Sealed(disk[Manifest])
  BY <1>2, <1>4 DEF Inv, OneManifestPerSeal
<1>6. /\ Sealed(proc[p].man).key = proc[p].man.key /\ Sealed(disk[Manifest]).key = disk[Manifest].key
      /\ Sealed(proc[p].man).files = proc[p].man.files /\ Sealed(disk[Manifest]).files = disk[Manifest].files
      /\ Sealed(proc[p].man).tokens = proc[p].man.tokens /\ Sealed(disk[Manifest]).tokens = disk[Manifest].tokens
  BY <1>3, SealedKeeps
<1> QED
  BY <1>1, <1>3, <1>4, <1>5, <1>6

LEMMA CalmBefore ==
    ASSUME Typed, Calm', NEW p \in Procs,
           PackageStart(p) \/ PackageStep(p) \/ AnchorStart(p) \/ AnchorStep(p) \/ Crash(p)
    PROVE  /\ Calm /\ ~ Crash(p) /\ faults' = faults
           /\ PackageStart(p) => AllIdle /\ seals = 0
           /\ ~ PackageStart(p) => seals' = seals
<1>1. faults \in Nat /\ seals \in Nat
  BY DEF Typed
<1>2. CASE PackageStart(p)
  <2>1. seals' = seals + 1 /\ (IF AllIdle THEN UNCHANGED faults ELSE faults' = faults + 1) /\ ~ Crash(p)
    BY <1>2 DEF PackageStart, Crash
  <2> QED
    BY <1>1, <1>2, <2>1 DEF Calm
<1>3. CASE Crash(p)
  BY <1>1, <1>3 DEF Crash, Calm
<1>4. CASE AnchorStep(p) /\ ~ Crash(p) /\ ~ PackageStart(p)
  BY <1>4, AnchorStepBecomes DEF Calm
<1>5. CASE (PackageStep(p) \/ AnchorStart(p)) /\ ~ Crash(p) /\ ~ PackageStart(p)
  <2>1. UNCHANGED <<seals, faults>>
    BY <1>5 DEF PackageStep, PackageContent, PackageSign, PackageStamp, PackageManifest,
                PackageSignatures, PackageToken, AnchorStart
  <2> QED
    BY <1>5, <2>1 DEF Calm
<1> QED
  BY <1>2, <1>3, <1>4, <1>5

(* Steps of a packaging run that leave the disk.                           *)
LEMMA CalmRun ==
    ASSUME Typed, Inv, Calm, CalmInv, NEW p \in Procs, seals' = seals,
           PackageSign(p) \/ PackageStamp(p)
    PROVE  CalmInv'
<1>1. disk' = disk /\ proc[p].at \in {"content", "stamp"}
  BY DEF PackageSign, PackageStamp
<1>2. Fresh(p) /\ proc[p].seal = 1
  BY <1>1 DEF Fresh, Inv, RunsAtWork, Packaging, Calm, Typed
<1>3. Manifest \notin DOMAIN disk /\ DOMAIN disk \subseteq Contents
  BY <1>2 DEF CalmInv
<1>4. \E r \in Memory :
        /\ proc' = [proc EXCEPT ![p] = r]
        /\ \/ r.at = "idle"
           \/ r.at \in {"stamp", "manifest"} /\ Pins(r.man, disk)
  <2>1. CASE PackageSign(p)
    <3>1. \E r \in Memory : r.at = "stamp" /\ proc' = [proc EXCEPT ![p] = r]
      BY <2>1, SignBecomes
    <3>2. proc' = [proc EXCEPT ![p].at = "stamp",
                               ![p].man = [NoManifest EXCEPT !.seal = proc[p].seal, !.key = proc[p].key,
                                                             !.files = PinnedFiles(disk)]]
      BY <2>1 DEF PackageSign
    <3> DEFINE m == [NoManifest EXCEPT !.seal = proc[p].seal, !.key = proc[p].key,
                                       !.files = PinnedFiles(disk)]
    <3>3. proc'[p].man = m /\ proc[p] \in Memory
      BY <3>2 DEF Typed, Memory
    <3>4. m.seal = 1 /\ m.files = PinnedFiles(disk) /\ m.tokens = {}
      BY <1>2 DEF NoManifest
    <3>5. /\ DOMAIN PinnedFiles(disk) = DOMAIN disk \ FilesMapExcluded
          /\ \A x \in DOMAIN PinnedFiles(disk) : PinnedFiles(disk)[x] = disk[x]
      BY <1>3, PathsKnown DEF PinnedFiles, FilesMapExcluded, TokenFiles
    <3> HIDE DEF m
    <3>6. Pins(m, disk)
      BY <3>4, <3>5 DEF Pins
    <3> QED
      BY <3>1, <3>3, <3>6, SetProc
  <2>2. CASE PackageStamp(p)
    <3>1. proc[p].at = "stamp" /\ proc[p].man \in Manifests /\ Pins(proc[p].man, disk) /\ proc[p] \in Memory
      BY <2>2 DEF PackageStamp, CalmInv, Typed, Memory
    <3>2. PICK r \in Memory :
            /\ \/ r.at = "idle"
               \/ /\ r.at = "manifest" /\ r.seal = proc[p].seal
                  /\ r.man.seal = proc[p].man.seal /\ r.man.files = proc[p].man.files
            /\ proc' = [proc EXCEPT ![p] = r]
      BY <2>2, StampBecomes
    <3>3. proc'[p] = r
      BY <3>2, SetProc
    <3>4. CASE \E t \in [id : TokenIds, of : {proc[p].seal}] :
                 proc' = [proc EXCEPT ![p].at = "manifest", ![p].man.tokens = {t},
                                      ![p].man.label = "anchored"]
      <4>1. PICK t \in [id : TokenIds, of : {proc[p].seal}] :
                 proc' = [proc EXCEPT ![p].at = "manifest", ![p].man.tokens = {t},
                                      ![p].man.label = "anchored"]
        BY <3>4
      <4>2. proc'[p].at = "manifest" /\ proc'[p].man.tokens = {t} /\ t.of = 1
        BY <1>2, <3>1, <4>1 DEF Typed, Memory, Manifests
      <4>3. r.at = "manifest" /\ r.man.tokens = {t}
        BY <3>3, <4>2
      <4>4. Pins(r.man, disk)
        BY <3>1, <3>2, <4>2, <4>3 DEF Pins
      <4> QED
        BY <3>2, <4>3, <4>4
    <3>5. CASE proc' = [proc EXCEPT ![p].at = "manifest", ![p].man.label = "pending"]
      <4>1. proc'[p].at = "manifest" /\ proc'[p].man.tokens = proc[p].man.tokens
        BY <3>1, <3>5 DEF Typed, Memory, Manifests
      <4>2. r.at = "manifest" /\ r.man.tokens = proc[p].man.tokens
        BY <3>3, <4>1
      <4>3. Pins(r.man, disk)
        BY <3>1, <3>2, <4>2 DEF Pins
      <4> QED
        BY <3>2, <4>2, <4>3
    <3>6. CASE Ends(p, "no bundle")
      <4>1. proc'[p].at = "idle"
        BY <3>6 DEF Ends, Typed, Idle
      <4> QED
        BY <3>2, <3>3, <4>1
    <3> QED
      BY <2>2, <3>4, <3>5, <3>6 DEF PackageStamp
  <2> QED
    BY <2>1, <2>2
<1>5. PICK r \in Memory :
        /\ proc' = [proc EXCEPT ![p] = r]
        /\ \/ r.at = "idle"
           \/ r.at \in {"stamp", "manifest"} /\ Pins(r.man, disk)
  BY <1>4
<1>6. proc'[p] = r /\ \A q \in Procs : q # p => proc'[q] = proc[q]
  BY <1>5, SetProc
<1>7. DiskCalm' /\ \A q \in Procs : q # p => ProcCalm(q)'
  BY <1>1, <1>6, SameDisk
<1>8. ProcCalm(p)'
  BY <1>1, <1>3, <1>5, <1>6 DEF ProcCalm, Holding, Anchoring
<1>9. \A q \in Procs : ProcCalm(q)'
  BY <1>7, <1>8
<1> QED
  BY <1>7, <1>9 DEF CalmInv, DiskCalm, ProcCalm

(* Steps of an anchor that leave the disk.                                 *)
LEMMA CalmAnchor ==
    ASSUME Typed, Inv, Calm, CalmInv, NEW p \in Procs, seals' = seals,
           AnchorStart(p) \/ AnchorCheck(p) \/ AnchorAnswered(p) \/ AnchorUnanswered(p)
             \/ (AnchorLabel(p) /\ disk' = disk)
    PROVE  CalmInv'
<1>1. disk' = disk /\ proc[p] \in Memory /\ proc[p].at \in {"idle", "check", "ask", "label"}
  BY DEF AnchorStart, AnchorCheck, AnchorAnswered, AnchorUnanswered, AnchorLabel, Typed
<1>2. /\ proc' \in [Procs -> Memory] /\ \A q \in Procs : q # p => proc'[q] = proc[q]
      /\ \/ proc'[p].at \in {"idle", "check"}
         \/ /\ proc'[p].at = "ask" /\ Whole(disk, Manifest) /\ disk[Manifest].key = proc[p].key
            /\ proc'[p].seal = disk[Manifest].seal /\ proc'[p].key = proc[p].key
         \/ /\ proc[p].at = "ask" /\ proc'[p].at = "file" /\ proc'[p].seal = proc[p].seal
            /\ proc'[p].key = proc[p].key
            /\ proc'[p].token \subseteq [id : TokenIds, of : {proc[p].seal}]
  <2>1. CASE AnchorStart(p)
    <3>1. \E r \in Memory : r.at = "check" /\ proc' = [proc EXCEPT ![p] = r]
      BY <2>1, AnchorStartBecomes
    <3> QED
      BY <3>1, SetProc
  <2>2. ASSUME NEW last \in {"refused", "anchored"}, Ends(p, last)
        PROVE  /\ proc' \in [Procs -> Memory] /\ \A q \in Procs : q # p => proc'[q] = proc[q]
               /\ proc'[p].at = "idle"
    <3>1. last \in Outcomes
      BY DEF Outcomes
    <3>2. proc' = [proc EXCEPT ![p] = Idle(last)] /\ Idle(last) \in Memory /\ Idle(last).at = "idle"
      BY <2>2, <3>1, EndsBecomes
    <3> QED
      BY <3>2, SetProc
  <2>3. CASE AnchorCheck(p)
    <3>1. \/ \E last \in {"refused", "anchored"} : Ends(p, last)
          \/ /\ proc' = [proc EXCEPT ![p].at = "ask", ![p].seal = disk[Manifest].seal]
             /\ Whole(disk, Manifest) /\ disk[Manifest].key = proc[p].key
      BY <2>3 DEF AnchorCheck, Anchorable
    <3>2. AnchorStep(p)
      BY <2>3 DEF AnchorStep
    <3>3. proc' \in [Procs -> Memory] /\ \A q \in Procs : q # p => proc'[q] = proc[q]
      BY <3>2, AnchorStepBecomes, SetProc
    <3>4. proc' = [proc EXCEPT ![p].at = "ask", ![p].seal = disk[Manifest].seal] =>
            /\ proc'[p].at = "ask" /\ proc'[p].seal = disk[Manifest].seal
            /\ proc'[p].key = proc[p].key
      BY <1>1 DEF Typed, Memory
    <3> QED
      BY <2>2, <3>1, <3>3, <3>4
  <2>4. CASE AnchorAnswered(p)
    <3>1. PICK t \in [id : TokenIds, of : {proc[p].seal}] :
            proc' = [proc EXCEPT ![p].at = "file", ![p].token = {t}]
      BY <2>4 DEF AnchorAnswered
    <3>2. AnchorStep(p) /\ proc[p].at = "ask"
      BY <2>4 DEF AnchorStep, AnchorAnswered
    <3>3. proc' \in [Procs -> Memory] /\ \A q \in Procs : q # p => proc'[q] = proc[q]
      BY <3>2, AnchorStepBecomes, SetProc
    <3>4. /\ proc'[p].at = "file" /\ proc'[p].seal = proc[p].seal
          /\ proc'[p].key = proc[p].key /\ proc'[p].token = {t}
      BY <1>1, <3>1 DEF Typed, Memory
    <3> QED
      BY <3>1, <3>2, <3>3, <3>4
  <2>5. CASE AnchorUnanswered(p) \/ AnchorLabel(p)
    BY <2>2, <2>5 DEF AnchorUnanswered, AnchorLabel
  <2> QED
    BY <2>1, <2>3, <2>4, <2>5
<1>3. DiskCalm' /\ \A q \in Procs : q # p => ProcCalm(q)'
  BY <1>1, <1>2, SameDisk
<1>4. Manifest \in DOMAIN disk
  <2>1. AnchorStart(p) => Manifest \in DOMAIN disk
    BY DEF AnchorStart, Whole
  <2>2. ~ AnchorStart(p) => proc[p].at \in Holding
    BY DEF AnchorCheck, AnchorAnswered, AnchorUnanswered, AnchorLabel, Holding, Anchoring
  <2> QED
    BY <2>1, <2>2, OneManifest
<1>5. disk[Manifest].seal = 1
  BY <1>4 DEF CalmInv, Pins
<1>6. proc'[p].at = "file" => proc[p].seal = 1 /\ proc[p].key = disk[Manifest].key
  BY <1>2 DEF CalmInv
<1>7. ProcCalm(p)'
  BY <1>1, <1>2, <1>4, <1>5, <1>6 DEF ProcCalm, Fresh
<1>8. \A q \in Procs : ProcCalm(q)'
  BY <1>3, <1>7
<1> QED
  BY <1>3, <1>8 DEF CalmInv, DiskCalm, ProcCalm

(* The first run begins over an empty directory.                           *)
LEMMA CalmStart ==
    ASSUME Typed, Inv, Calm, CalmInv, NEW p \in Procs, PackageStart(p), AllIdle, seals = 0
    PROVE  CalmInv'
<1>1. disk' = disk /\ seals' = 1 /\ DOMAIN disk = {}
  BY DEF PackageStart, CalmInv
<1>2. PICK r \in Memory : r.at = "content" /\ proc' = [proc EXCEPT ![p] = r]
  BY StartBecomes
<1>3. proc'[p] = r /\ \A q \in Procs : q # p => proc'[q] = proc[q]
  BY <1>2, SetProc
<1>4. \A q \in Procs : proc'[q].at \in {"idle", "content"}
  BY <1>2, <1>3 DEF AllIdle
<1> QED
  BY <1>1, <1>4 DEF CalmInv, Holding, Anchoring

(* While a run writes its content there is nothing but content.            *)
LEMMA CalmContent ==
    ASSUME Typed, Inv, Calm, CalmInv, NEW p \in Procs, PackageContent(p)
    PROVE  CalmInv'
<1>1. proc[p].at = "content" /\ seals' = seals
      /\ disk' = With(disk, Written[First(proc[p].todo)], proc[p].seal)
  BY DEF PackageContent
<1>2. PICK r \in Memory :
        /\ r.at = "content" /\ First(proc[p].todo) \in proc[p].todo
        /\ proc' = [proc EXCEPT ![p] = r]
  BY ContentBecomes
<1>3. proc'[p] = r /\ \A q \in Procs : q # p => proc'[q] = proc[q]
  BY <1>2, SetProc
<1>4. Manifest \notin DOMAIN disk /\ DOMAIN disk \subseteq Contents /\ \A q \in Procs : proc[q].at \notin Holding
  BY <1>1 DEF CalmInv, Fresh
<1>5. proc[p].todo \subseteq DOMAIN Written
  BY DEF Typed, Memory
<1>6. Written[First(proc[p].todo)] \in Contents
  BY <1>2, <1>5 DEF Contents
<1>7. Manifest \notin DOMAIN disk' /\ DOMAIN disk' \subseteq Contents
  BY <1>1, <1>4, <1>6, PathsKnown DEF With
<1>8. seals' # 0 /\ \A q \in Procs : q # p => proc[q].at \notin Packaging
  BY <1>1 DEF Inv, RunsAtWork, OnePackaging, Packaging, Typed
<1>9. \A q \in Procs : proc'[q].at \notin Holding
                       /\ proc'[q].at \notin {"stamp", "manifest", "ask", "file", "document"}
  BY <1>2, <1>3, <1>4, <1>8 DEF Holding, Anchoring, Packaging
<1> QED
  BY <1>7, <1>8, <1>9 DEF CalmInv

(* The manifest is written where there was none.                           *)
LEMMA CalmManifest ==
    ASSUME Typed, Inv, Calm, CalmInv, NEW p \in Procs, PackageManifest(p), TornApart
    PROVE  CalmInv'
<1>1. /\ proc[p].at = "manifest" /\ proc[p].man \in Manifests
      /\ disk' = With(disk, Manifest, proc[p].man) /\ seals' = seals
  BY ManifestBecomes DEF PackageManifest
<1>2. PICK r \in Memory :
        r.at = "signatures" /\ r.man = proc[p].man /\ proc' = [proc EXCEPT ![p] = r]
  BY ManifestBecomes
<1>3. proc'[p] = r /\ \A q \in Procs : q # p => proc'[q] = proc[q]
  BY <1>2, SetProc
<1>4. /\ Manifest \notin DOMAIN disk /\ DOMAIN disk \subseteq Contents
      /\ (\A q \in Procs : proc[q].at \notin Holding) /\ Pins(proc[p].man, disk)
  BY <1>1 DEF CalmInv, Fresh
<1>5. /\ DOMAIN disk' = DOMAIN disk \union {Manifest} /\ disk'[Manifest] = proc[p].man
      /\ \A x \in DOMAIN disk : disk'[x] = disk[x]
  BY <1>1, <1>4 DEF With
<1>6. seals' # 0 /\ \A q \in Procs : q # p => proc[q].at \notin Packaging
  BY <1>1 DEF Inv, RunsAtWork, OnePackaging, Packaging, Typed
<1>7. \A q \in Procs : q # p => /\ proc'[q].at \notin Holding /\ proc'[q].at \notin Packaging
  BY <1>3, <1>4, <1>6
<1>8. Pins(proc[p].man, disk') /\ disk'[Manifest] # Torn
  <2>1. DOMAIN disk' \ FilesMapExcluded = DOMAIN disk \ FilesMapExcluded
    BY <1>5 DEF FilesMapExcluded
  <2>2. /\ proc[p].man.seal = 1
        /\ DOMAIN proc[p].man.files = DOMAIN disk \ FilesMapExcluded
        /\ \A x \in DOMAIN proc[p].man.files : proc[p].man.files[x] = disk[x]
        /\ \A t, u \in proc[p].man.tokens : t.of = 1 /\ t = u
    BY <1>4 DEF Pins
  <2>3. \A x \in DOMAIN proc[p].man.files : proc[p].man.files[x] = disk'[x]
    BY <1>5, <2>2
  <2>4. Pins(proc[p].man, disk')
    BY <2>1, <2>2, <2>3 DEF Pins
  <2> QED
    BY <1>1, <1>5, <2>4 DEF TornApart
<1>9. Attested'
  <2>1. proc'[p].at = "signatures" /\ SealToken \notin DOMAIN disk'
    BY <1>2, <1>3, <1>4, <1>5, PathsKnown DEF SealToken, Manifest
  <2> QED
    BY <2>1 DEF Attested
<1>10. Anchored'
  <2>1. Anchor \notin DOMAIN disk' /\ AnchorToken \notin DOMAIN disk'
    BY <1>4, <1>5, PathsKnown DEF Anchor, AnchorToken, Manifest
  <2> QED
    BY <2>1 DEF Anchored
<1>11. DiskCalm'
  BY <1>5, <1>6, <1>8, <1>9, <1>10 DEF DiskCalm
<1>12. \A q \in Procs : ProcCalm(q)'
  <2> TAKE q \in Procs
  <2>1. Manifest \in DOMAIN disk'
    BY <1>5
  <2>2. proc'[q].at \notin {"content", "stamp", "manifest", "ask", "file", "document"}
    BY <1>2, <1>3, <1>7 DEF Packaging, Holding, Anchoring
  <2> QED
    BY <2>1, <2>2 DEF ProcCalm, Fresh
<1> QED
  BY <1>11, <1>12 DEF CalmInv, DiskCalm, ProcCalm

(* A write beside the content leaves the manifest on disk true to it.      *)
LEMMA CalmWrite ==
    ASSUME Typed, Inv, Calm, CalmInv, TornApart, NEW p \in Procs, proc[p].at \in Holding, seals' = seals,
           NEW path \in FilesMapExcluded, NEW content, disk' = With(disk, path, content),
           path = Manifest => content \in Manifests /\ Sealed(content) = Sealed(disk[Manifest]),
           NEW r \in Memory, proc' = [proc EXCEPT ![p] = r],
           r.at \in {"idle", "token", "document", "label"},
           r.at = "document" => /\ r.seal = 1 /\ r.key = disk[Manifest].key
                                /\ r.token \subseteq [id : TokenIds, of : {1}]
                                /\ AnchorToken \in DOMAIN disk',
           Attested', Anchored'
    PROVE  CalmInv'
<1>1. Manifest \in DOMAIN disk /\ disk[Manifest] \in Manifests /\ Pins(disk[Manifest], disk)
  BY OneManifest DEF CalmInv
<1>2. proc'[p] = r /\ \A q \in Procs : q # p => proc'[q] = proc[q]
  BY SetProc
<1>3. /\ DOMAIN disk' = DOMAIN disk \union {path} /\ disk'[path] = content
      /\ \A x \in DOMAIN disk : x # path => disk'[x] = disk[x]
  BY DEF With
<1>4. Manifest \in DOMAIN disk' /\ disk'[Manifest] \in Manifests
      /\ disk'[Manifest].seal = disk[Manifest].seal /\ disk'[Manifest].key = disk[Manifest].key
      /\ disk'[Manifest].files = disk[Manifest].files /\ disk'[Manifest].tokens = disk[Manifest].tokens
  <2>1. CASE path = Manifest
    <3>1. disk'[Manifest] = content /\ content \in Manifests /\ Sealed(content) = Sealed(disk[Manifest])
      BY <1>3, <2>1
    <3>2. /\ Sealed(content).seal = content.seal /\ Sealed(content).key = content.key
          /\ Sealed(content).files = content.files /\ Sealed(content).tokens = content.tokens
      BY <3>1, SealedKeeps
    <3>3. /\ Sealed(disk[Manifest]).seal = disk[Manifest].seal /\ Sealed(disk[Manifest]).key = disk[Manifest].key
          /\ Sealed(disk[Manifest]).files = disk[Manifest].files
          /\ Sealed(disk[Manifest]).tokens = disk[Manifest].tokens
      BY <1>1, SealedKeeps
    <3> QED
      BY <1>1, <1>3, <3>1, <3>2, <3>3
  <2>2. CASE path # Manifest
    BY <1>1, <1>3, <2>2
  <2> QED
    BY <2>1, <2>2
<1>5. Pins(disk'[Manifest], disk')
  <2>1. DOMAIN disk' \ FilesMapExcluded = DOMAIN disk \ FilesMapExcluded
    BY <1>3
  <2>2. \A x \in DOMAIN disk \ FilesMapExcluded : disk'[x] = disk[x]
    BY <1>3
  <2> QED
    BY <1>1, <1>4, <2>1, <2>2 DEF Pins
<1>6. DiskCalm'
  <2>1. seals # 0 /\ disk'[Manifest] # Torn
    BY <1>1, <1>4 DEF CalmInv, TornApart
  <2> QED
    BY <1>5, <2>1 DEF DiskCalm
<1>7. \A q \in Procs : ProcCalm(q)'
  <2> TAKE q \in Procs
  <2>1. CASE q = p
    BY <1>2, <1>4, <2>1 DEF ProcCalm, Fresh
  <2>2. CASE q # p
    <3>1. ProcCalm(q) /\ ~ Fresh(q)
      BY <1>1 DEF CalmInv, ProcCalm
    <3> QED
      BY <1>1, <1>2, <1>3, <1>4, <2>2, <3>1 DEF ProcCalm, Fresh
  <2> QED
    BY <2>1, <2>2
<1> QED
  BY <1>6, <1>7 DEF CalmInv, DiskCalm, ProcCalm

LEMMA AllNamesApart ==
    /\ Manifest # Signatures /\ Manifest # SealToken /\ Manifest # AnchorToken /\ Manifest # Anchor
    /\ Signatures # SealToken /\ Signatures # AnchorToken /\ Signatures # Anchor
    /\ SealToken # AnchorToken /\ SealToken # Anchor /\ AnchorToken # Anchor
    /\ FilesMapExcluded = {Manifest, Signatures, Anchor, SealToken, AnchorToken}
BY DEF Manifest, Signatures, SealToken, AnchorToken, Anchor, FilesMapExcluded, TokenFiles

(* The signatures and the token file of the run itself.                    *)
LEMMA CalmRest ==
    ASSUME Typed, Inv, Calm, CalmInv, TornApart, NEW p \in Procs,
           PackageSignatures(p) \/ PackageToken(p)
    PROVE  CalmInv'
<1>1. seals' = seals /\ proc[p].at \in {"signatures", "token"}
  BY DEF PackageSignatures, PackageToken
<1>2. proc[p].at \in Holding /\ proc[p].at \in Packaging
  BY <1>1 DEF Holding, Packaging
<1>3. /\ Manifest \in DOMAIN disk /\ disk[Manifest] \in Manifests
      /\ proc[p].man.seal = disk[Manifest].seal /\ proc[p].man.key = disk[Manifest].key
      /\ proc[p].man.tokens = disk[Manifest].tokens
  <2>1. Pins(disk[Manifest], disk)
    BY <1>2, OneManifest DEF CalmInv
  <2> QED
    BY <1>2, <2>1, OneManifest DEF Pins
<1>4. Attested /\ Anchored
  BY <1>3 DEF CalmInv
<1>5. \A q \in Procs : q # p => proc[q].at \notin Packaging
  BY <1>2 DEF Inv, OnePackaging
<1>6. PICK r \in Memory :
        /\ \/ r.at = "idle"
           \/ /\ r.at = "token" /\ r.seal = proc[p].seal /\ r.man = proc[p].man
              /\ r.man.tokens # {}
        /\ proc' = [proc EXCEPT ![p] = r]
  BY RestBecomes
<1>7. proc'[p] = r /\ \A q \in Procs : q # p => proc'[q] = proc[q]
  BY <1>6, SetProc
<1>8. CASE PackageSignatures(p)
  <2> DEFINE sigs == [seal |-> proc[p].man.seal, key |-> proc[p].man.key]
  <2>1. /\ disk' = With(disk, Signatures, sigs)
        /\ proc[p].man.tokens = {} => proc'[p].at = "idle"
        /\ proc[p].man.tokens # {} => proc'[p].at = "token"
    <3>1. proc[p].man.tokens = {} => proc'[p].at = "idle"
      BY <1>8 DEF PackageSignatures, Ends, Idle, Typed
    <3>2. proc[p].man.tokens # {} => proc'[p].at = "token"
      BY <1>8 DEF PackageSignatures, Typed, Memory
    <3> QED
      BY <1>8, <3>1, <3>2 DEF PackageSignatures
  <2>2. /\ DOMAIN disk' = DOMAIN disk \union {Signatures} /\ disk'[Signatures] = sigs
        /\ \A x \in DOMAIN disk : x # Signatures => disk'[x] = disk[x]
    BY <2>1 DEF With
  <2>3. Attested'
    BY <1>3, <1>4, <1>7, <2>1, <2>2, AllNamesApart DEF Attested
  <2>4. Anchored'
    BY <1>1, <1>3, <1>4, <1>7, <2>2, AllNamesApart DEF Anchored
  <2>5. Signatures \in FilesMapExcluded /\ Signatures # Manifest
    BY AllNamesApart
  <2> HIDE DEF sigs
  <2> QED
    BY <1>1, <1>2, <1>6, <2>1, <2>3, <2>4, <2>5, CalmWrite
<1>9. CASE PackageToken(p)
  <2> DEFINE t == CHOOSE t \in proc[p].man.tokens : TRUE
  <2>1. /\ disk' = With(disk, SealToken, t) /\ proc'[p].at = "idle" /\ proc[p].at = "token"
    BY <1>9 DEF PackageToken, Ends, Idle, Typed
  <2>2. t \in disk[Manifest].tokens /\ disk[Manifest].tokens # {}
    BY <1>3, <2>1 DEF Typed
  <2> HIDE DEF t
  <2>3. /\ DOMAIN disk' = DOMAIN disk \union {SealToken} /\ disk'[SealToken] = t
        /\ \A x \in DOMAIN disk : x # SealToken => disk'[x] = disk[x]
    BY <2>1 DEF With
  <2>4. \A q \in Procs : proc[q].at # "signatures"
    BY <1>5, <2>1 DEF Packaging
  <2>5. Attested'
    BY <1>3, <1>4, <2>2, <2>3, <2>4, AllNamesApart DEF Attested
  <2>6. Anchored'
    BY <1>1, <1>3, <1>4, <1>7, <2>3, AllNamesApart DEF Anchored
  <2>7. SealToken \in FilesMapExcluded /\ SealToken # Manifest
    BY AllNamesApart
  <2>8. r.at = "idle"
    BY <1>7, <2>1
  <2> QED
    BY <1>1, <1>2, <1>6, <2>1, <2>5, <2>6, <2>7, <2>8, CalmWrite
<1> QED
  BY <1>8, <1>9

(* The anchor's token, its document and the new label.                     *)
LEMMA CalmAnchorFile ==
    ASSUME Typed, Inv, Calm, CalmInv, TornApart, NEW p \in Procs, AnchorFile(p)
    PROVE  CalmInv'
<1> DEFINE t == CHOOSE t \in proc[p].token : TRUE
           r == [proc[p] EXCEPT !.at = "document"]
<1>1. /\ seals' = seals /\ Moves(p, "file", "document") /\ disk' = With(disk, AnchorToken, t)
      /\ proc[p].at = "file" /\ proc[p] \in Memory /\ "document" \in Stages
  BY DEF AnchorFile, Moves, Typed, Stages, Anchoring
<1>2. /\ r \in Memory /\ r.at = "document" /\ r.seal = proc[p].seal /\ r.key = proc[p].key
      /\ r.token = proc[p].token /\ proc' = [proc EXCEPT ![p] = r]
  BY <1>1, SetAt, MovesBecomes
<1> HIDE DEF t, r
<1>3. /\ proc[p].seal = 1 /\ proc[p].key = disk[Manifest].key
      /\ proc[p].token \subseteq [id : TokenIds, of : {1}]
  BY <1>1 DEF CalmInv
<1>4. Manifest \in DOMAIN disk /\ proc[p].at \in Holding
  BY <1>1, OneManifest DEF Holding, Anchoring
<1>5. Attested /\ Anchored
  BY <1>4 DEF CalmInv
<1>6. proc'[p] = r /\ \A q \in Procs : q # p => proc'[q] = proc[q]
  BY <1>2, SetProc
<1>7. /\ DOMAIN disk' = DOMAIN disk \union {AnchorToken} /\ disk'[AnchorToken] = t
      /\ \A x \in DOMAIN disk : x # AnchorToken => disk'[x] = disk[x]
  BY <1>1 DEF With
<1>8. \A q \in Procs : proc'[q].at \in {"signatures", "token"} <=> proc[q].at \in {"signatures", "token"}
  BY <1>1, <1>2, <1>6
<1>9. \A q \in Procs : proc'[q].at = "signatures" <=> proc[q].at = "signatures"
  BY <1>1, <1>2, <1>6
<1>10. Attested'
  BY <1>4, <1>5, <1>7, <1>8, <1>9, AllNamesApart DEF Attested
<1>11. Anchored'
  BY <1>2, <1>4, <1>5, <1>6, <1>7, AllNamesApart DEF Anchored
<1> QED
  BY <1>1, <1>2, <1>3, <1>4, <1>7, <1>10, <1>11, AllNamesApart, CalmWrite

LEMMA CalmAnchorDocument ==
    ASSUME Typed, Inv, Calm, CalmInv, TornApart, NEW p \in Procs, AnchorDocument(p)
    PROVE  CalmInv'
<1> DEFINE t == CHOOSE t \in proc[p].token : TRUE
           doc == [seal |-> proc[p].seal, key |-> proc[p].key, token |-> t]
           r == [proc[p] EXCEPT !.at = "label"]
<1>1. /\ seals' = seals /\ Moves(p, "document", "label") /\ disk' = With(disk, Anchor, doc)
      /\ proc[p].at = "document" /\ proc[p] \in Memory /\ "label" \in Stages
  BY DEF AnchorDocument, Moves, Typed, Stages, Anchoring
<1>2. r \in Memory /\ r.at = "label" /\ proc' = [proc EXCEPT ![p] = r]
  BY <1>1, SetAt, MovesBecomes
<1>3. /\ proc[p].seal = 1 /\ proc[p].key = disk[Manifest].key
      /\ proc[p].token \subseteq [id : TokenIds, of : {1}] /\ proc[p].token # {}
  BY <1>1 DEF CalmInv, Typed
<1>4. Manifest \in DOMAIN disk /\ proc[p].at \in Holding
  BY <1>1, OneManifest DEF Holding, Anchoring
<1>5. Attested /\ Anchored
  BY <1>4 DEF CalmInv
<1>6. doc \in [seal : {1}, key : {disk[Manifest].key}, token : [id : TokenIds, of : {1}]]
  BY <1>3
<1> HIDE DEF r, doc
<1>7. proc'[p] = r /\ \A q \in Procs : q # p => proc'[q] = proc[q]
  BY <1>2, SetProc
<1>8. /\ DOMAIN disk' = DOMAIN disk \union {Anchor} /\ disk'[Anchor] = doc
      /\ \A x \in DOMAIN disk : x # Anchor => disk'[x] = disk[x]
  BY <1>1 DEF With
<1>9. AnchorToken \in DOMAIN disk
  BY <1>1 DEF CalmInv
<1>10. \A q \in Procs : /\ proc'[q].at \in {"signatures", "token"} <=> proc[q].at \in {"signatures", "token"}
                        /\ proc'[q].at = "signatures" <=> proc[q].at = "signatures"
  BY <1>1, <1>2, <1>7
<1>11. Attested'
  BY <1>4, <1>5, <1>8, <1>10, AllNamesApart DEF Attested
<1>12. Anchored'
  BY <1>4, <1>6, <1>8, <1>9, AllNamesApart DEF Anchored
<1> QED
  BY <1>1, <1>2, <1>4, <1>11, <1>12, AllNamesApart, CalmWrite

LEMMA CalmRelabel ==
    ASSUME Typed, Inv, Calm, CalmInv, TornApart, NEW p \in Procs, AnchorLabel(p), disk' # disk
    PROVE  CalmInv'
<1> DEFINE m == [proc[p].man EXCEPT !.label = "anchored"]
<1>1. /\ seals' = seals /\ Ends(p, "anchored") /\ disk' = With(disk, Manifest, m)
      /\ proc[p].at = "label" /\ "anchored" \in Outcomes
  BY DEF AnchorLabel, Outcomes
<1>2. PICK r \in Memory : r.at = "idle" /\ proc' = [proc EXCEPT ![p] = r]
  BY <1>1, EndsBecomes
<1>3. proc[p].at \in Holding
  BY <1>1 DEF Holding, Anchoring
<1>4. /\ Manifest \in DOMAIN disk /\ disk[Manifest] \in Manifests /\ proc[p].man \in Manifests
      /\ Sealed(proc[p].man) = Sealed(disk[Manifest]) /\ disk[Manifest].seal = 1
      /\ proc[p].man.seal = 1 /\ proc[p].man.key = disk[Manifest].key
      /\ proc[p].man.tokens = disk[Manifest].tokens
  <2>1. Pins(disk[Manifest], disk)
    BY <1>3, OneManifest DEF CalmInv
  <2> QED
    BY <1>3, <2>1, OneManifest DEF Pins
<1>5. m \in Manifests /\ Sealed(m) = Sealed(disk[Manifest])
  BY <1>4, SealedKeeps
<1>6. m.seal = disk[Manifest].seal /\ m.key = disk[Manifest].key /\ m.tokens = disk[Manifest].tokens
  BY <1>4 DEF Manifests
<1> HIDE DEF m
<1>7. /\ DOMAIN disk' = DOMAIN disk \union {Manifest} /\ disk'[Manifest] = m
      /\ \A x \in DOMAIN disk : x # Manifest => disk'[x] = disk[x]
  BY <1>1 DEF With
<1>8. Attested /\ Anchored
  BY <1>4 DEF CalmInv
<1>9. proc'[p] = r /\ \A q \in Procs : q # p => proc'[q] = proc[q]
  BY <1>2, SetProc
<1>10. \A q \in Procs : /\ proc'[q].at \in {"signatures", "token"} <=> proc[q].at \in {"signatures", "token"}
                        /\ proc'[q].at = "signatures" <=> proc[q].at = "signatures"
                        /\ proc'[q].at = "document" <=> proc[q].at = "document"
  BY <1>1, <1>2, <1>9
<1>11. Attested'
  BY <1>4, <1>6, <1>7, <1>8, <1>10, AllNamesApart DEF Attested
<1>12. Anchored'
  BY <1>4, <1>6, <1>7, <1>8, <1>10, AllNamesApart DEF Anchored
<1> QED
  BY <1>1, <1>2, <1>3, <1>5, <1>11, <1>12, AllNamesApart, CalmWrite

LEMMA CalmInit == Init => CalmInv
BY DEF Init, Idle, CalmInv, Holding, Anchoring, Fresh

LEMMA CalmStep ==
    ASSUME TornApart, Typed, Inv, Calm => CalmInv, [Next]_vars
    PROVE  (Calm => CalmInv)'
<1> SUFFICES ASSUME Calm' PROVE CalmInv'
  BY DEF Calm
<1>1. ASSUME NEW p \in Procs, PackageStart(p)
      PROVE  CalmInv'
  BY <1>1, CalmBefore, CalmStart
<1>2. ASSUME NEW p \in Procs, PackageStep(p)
      PROVE  CalmInv'
  <2>1. Calm /\ CalmInv
    BY <1>2, CalmBefore
  <2>2. seals' = seals
    BY <1>2 DEF PackageStep, PackageContent, PackageSign, PackageStamp, PackageManifest,
                PackageSignatures, PackageToken
  <2> QED
    BY <1>2, <2>1, <2>2, CalmContent, CalmRun, CalmManifest, CalmRest DEF PackageStep
<1>3. ASSUME NEW p \in Procs, AnchorStart(p) \/ AnchorStep(p)
      PROVE  CalmInv'
  <2>1. Calm /\ CalmInv
    BY <1>3, CalmBefore
  <2>2. seals' = seals
    BY <1>3, AnchorStepBecomes DEF AnchorStart
  <2>3. CASE AnchorLabel(p)
    BY <2>1, <2>2, <2>3, CalmAnchor, CalmRelabel
  <2>4. CASE AnchorStart(p) \/ AnchorCheck(p) \/ AnchorAnswered(p) \/ AnchorUnanswered(p)
    BY <2>1, <2>2, <2>4, CalmAnchor
  <2>5. CASE AnchorFile(p) \/ AnchorDocument(p)
    BY <2>1, <2>5, CalmAnchorFile, CalmAnchorDocument
  <2> QED
    BY <1>3, <2>3, <2>4, <2>5 DEF AnchorStep
<1>4. ASSUME NEW p \in Procs, Crash(p)
      PROVE  FALSE
  BY <1>4, CalmBefore
<1>5. CASE RotateKey \/ UNCHANGED vars
  <2>1. UNCHANGED <<disk, proc, seals, faults>>
    BY <1>5 DEF RotateKey, vars
  <2>2. CalmInv
    BY <2>1 DEF Calm
  <2> QED
    BY <2>1, <2>2 DEF CalmInv, Pins, Attested, Anchored, Fresh
<1> QED
  BY <1>1, <1>2, <1>3, <1>4, <1>5 DEF Next

(* A bundle at rest, sealed once, verifies, whatever anchors did to it,    *)
(* unless nobody's token is the one the document names.                    *)
THEOREM RestingVerifies ==
    ASSUME TornApart
    PROVE  Spec => []RestingBundleVerifies
<1>1. Typed /\ Inv /\ (Calm => CalmInv) => RestingBundleVerifies
  <2> SUFFICES ASSUME Typed, Inv, CalmInv, AllIdle, Manifest \in DOMAIN disk, ~ Mismatched
               PROVE  Verifies(disk)
    BY DEF RestingBundleVerifies, Calm, Has
  <2> DEFINE m == disk[Manifest]
  <2>1. /\ m # Torn /\ Pins(m, disk) /\ Attested /\ Anchored
    BY DEF CalmInv
  <2>2. m \in Circulating /\ Whole(disk, Manifest)
    BY <2>1, CirculatingIs DEF Whole
  <2>3. m \in Manifests
    BY <2>2, CirculatingTyped
  <2>4. /\ m.seal = 1 /\ DOMAIN m.files = DOMAIN disk \ FilesMapExcluded
        /\ \A x \in DOMAIN m.files : m.files[x] = disk[x]
        /\ \A t, u \in m.tokens : t.of = 1 /\ t = u
    BY <2>1 DEF Pins
  <2>5. \A p \in Procs : proc[p].at \notin {"signatures", "token", "document"}
    BY DEF AllIdle
  <2>6. ~ EventsFail(disk, m)
    <3>1. "events.jsonl" \in Contents \ Optional
      BY WrittenFiles DEF Contents
    <3>2. "events.jsonl" \in DOMAIN m.files /\ m.files["events.jsonl"] = m.seal
      BY <2>2, <3>1 DEF Inv, ManifestsKnown, Covers
    <3> QED
      BY <2>4, <3>2 DEF EventsFail, Has
  <2>7. ~ FilesMapFails(disk, m)
    BY <2>4 DEF FilesMapFails
  <2>8. AnchorToken \in DOMAIN disk <=> Anchor \in DOMAIN disk
    BY <2>1, <2>5 DEF Anchored
  <2>9. Anchor \in DOMAIN disk =>
          /\ disk[Anchor] \in [seal : {1}, key : {m.key}, token : [id : TokenIds, of : {1}]]
          /\ disk[Anchor] # Torn /\ disk[Anchor].token = disk[AnchorToken]
    <3> HAVE Anchor \in DOMAIN disk
    <3>1. disk[Anchor] \in [seal : {1}, key : {m.key}, token : [id : TokenIds, of : {1}]]
      BY <2>1 DEF Anchored
    <3>2. disk[Anchor] \in [seal : Nat, key : Nat, token : Tokens]
      BY <2>3, <3>1 DEF Manifests, Tokens
    <3>3. disk[Anchor] # Torn
      BY <3>2 DEF TornApart
    <3> QED
      BY <3>1, <3>3 DEF Mismatched, Whole
  <2>10. AnchorDoc(disk) = IF Anchor \in DOMAIN disk THEN {disk[Anchor]} ELSE {}
    BY <2>9 DEF AnchorDoc, Whole
  <2> HIDE DEF m
  <2>11. ~ TimestampsFail(disk, m)
    BY <2>4, <2>9, <2>10 DEF TimestampsFail
  <2>12. AnchorStatus(disk, m) # "FAIL"
    BY <2>4, <2>9 DEF AnchorStatus, Has, Whole
  <2>13. ~ AttestationFilesFail(disk, m)
    <3> DEFINE bound == {<<AnchorToken, doc.token>> : doc \in AnchorDoc(disk)}
                           \union {<<SealToken, t>> : t \in m.tokens}
    <3>1. Signatures \in DOMAIN disk /\ disk[Signatures] = [seal |-> m.seal, key |-> m.key]
      BY <2>1, <2>5 DEF Attested, m
    <3>2. /\ m.tokens = {} => SealToken \notin DOMAIN disk
          /\ m.tokens # {} => SealToken \in DOMAIN disk /\ disk[SealToken] \in m.tokens
      BY <2>1, <2>5 DEF Attested, m
    <3>3. ASSUME NEW b \in bound
          PROVE  b[1] \in DOMAIN disk /\ disk[b[1]] = b[2]
      <4>1. CASE \E doc \in AnchorDoc(disk) : b = <<AnchorToken, doc.token>>
        BY <2>8, <2>9, <2>10, <4>1
      <4>2. CASE \E t \in m.tokens : b = <<SealToken, t>>
        BY <2>4, <3>2, <4>2
      <4> QED
        BY <4>1, <4>2
    <3>4. ASSUME NEW x \in TokenFiles \intersect DOMAIN disk
          PROVE  \E b \in bound : b[1] = x
      <4>1. CASE x = SealToken
        <5>1. PICK t \in m.tokens : TRUE
          BY <3>2, <4>1
        <5>2. <<SealToken, t>> \in bound
          BY <5>1
        <5> QED
          BY <4>1, <5>2
      <4>2. CASE x = AnchorToken
        <5>1. <<AnchorToken, disk[Anchor].token>> \in bound
          BY <2>8, <2>10, <4>2
        <5> QED
          BY <4>2, <5>1
      <4> QED
        BY <4>1, <4>2 DEF TokenFiles
    <3> QED
      BY <3>1, <3>3, <3>4 DEF AttestationFilesFail, Has
  <2> QED
    BY <2>2, <2>6, <2>7, <2>11, <2>12, <2>13 DEF Verifies, m
<1>2. Init => (Calm => CalmInv)
  BY CalmInit
<1>3. Typed /\ Inv /\ (Calm => CalmInv) /\ [Next]_vars => (Calm => CalmInv)'
  BY CalmStep
<1> QED
  BY <1>1, <1>2, <1>3, Invariance, PTL DEF Spec
=============================================================================
