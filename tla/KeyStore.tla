------------------------------ MODULE KeyStore ------------------------------
(***************************************************************************)
(* The producer's key directory: signing.key, signing.pub, archive/ and    *)
(* catalog.json (packages/chain/src/sign-ed25519.ts and key-catalog.ts,    *)
(* packages/cli/src/commands/key.ts).                                      *)
(*                                                                         *)
(* Signing loads the key pair, generating one when there is none, and adds *)
(* it to the catalog.  `depose key rotate` archives the pair, writes a new *)
(* one and records both; `key revoke` marks a fingerprint; `key catalog`   *)
(* seeds an empty catalog; `key fingerprint` shows the public key.  None   *)
(* of them takes a lock, and each step below is one file operation.        *)
(*                                                                         *)
(* A key is a number: both halves of pair k are k, and k is also its       *)
(* fingerprint.  The catalog maps fingerprints to their status.            *)
(***************************************************************************)
EXTENDS Integers, FiniteSets

CONSTANTS
    Procs,       \* processes that may run a command
    Commands,    \* the commands they run
    None,        \* a file that is not there
    Torn,        \* a catalog whose writing was cut off
    Tearing,     \* whether a crash may cut the catalog off
    MaxKeys,     \* bound: key pairs generated
    MaxCrashes   \* bound: commands that die

AllCommands == {"sign", "show", "seed", "rotate", "revoke"}

Keys == 1..MaxKeys
Catalogs == UNION {[fs -> {"active", "rotated", "revoked"}] : fs \in SUBSET Keys}

ASSUME KeyStoreConstants ==
    /\ MaxKeys \in Nat /\ MaxCrashes \in Nat
    /\ Tearing \in BOOLEAN
    /\ Commands \subseteq AllCommands
    /\ None \notin Keys /\ None \notin Catalogs
    /\ Torn \notin Catalogs /\ Torn # None

VARIABLES
    priv,        \* signing.key
    pub,         \* signing.pub
    archived,    \* archive/<fingerprint>/signing.key, by fingerprint
    archivedPub, \* the fingerprints with an archived signing.pub
    catalog,     \* catalog.json
    proc,        \* what each process is doing and has in memory
    made,        \* key pairs generated so far
    signed,      \* what bundles were signed with: private key, public key, `listed`
    crashes

vars == <<priv, pub, archived, archivedPub, catalog, proc, made, signed, crashes>>

Files == <<priv, pub, archived, archivedPub>>

---------------------------------------------------------------------------
(* The catalog (key-catalog.ts). *)

Empty == [f \in {} |-> "active"]

(* loadCatalog: a missing file is an empty catalog, a torn one an error.   *)
Entries == IF catalog = None THEN Empty ELSE catalog

RecordActive(c, f) ==
    [g \in DOMAIN c \union {f} |-> IF g \in DOMAIN c THEN c[g] ELSE "active"]

(* Mutated form of MarkRotated: rotation overrides revocation. *)
MarkRotatedAlways(c, f) == [g \in DOMAIN c |-> IF g = f THEN "rotated" ELSE c[g]]

(* Revocation wins. *)
MarkRotated(c, f) ==
    [g \in DOMAIN c |-> IF g = f /\ c[g] # "revoked" THEN "rotated" ELSE c[g]]

MarkRevoked(c, f) == [g \in DOMAIN c |-> IF g = f THEN "revoked" ELSE c[g]]

---------------------------------------------------------------------------
(* Processes.                                                              *)
(*                                                                         *)
(* `listed` is for the properties alone: this command saw its key in the   *)
(* catalog, or saved it there.                                             *)

Idle(last) ==
    [at |-> "idle", cmd |-> "none", last |-> last, priv |-> None, pub |-> None,
     new |-> 0, cat |-> Empty, listed |-> FALSE]

Ends(p, last) == proc' = [proc EXCEPT ![p] = Idle(last)]
At(p, stage) == proc[p].at = stage
Goes(p, stage) == proc' = [proc EXCEPT ![p].at = stage]

Init ==
    /\ priv = None /\ pub = None
    /\ archived = [f \in {} |-> 0] /\ archivedPub = {}
    /\ catalog = None
    /\ proc = [p \in Procs |-> Idle("nothing")]
    /\ made = 0
    /\ signed = {}
    /\ crashes = 0

Starts(p, cmd, stage) ==
    /\ At(p, "idle")
    /\ cmd \in Commands
    /\ proc' = [proc EXCEPT ![p] = [Idle("nothing") EXCEPT !.at = stage, !.cmd = cmd]]

(* A pair is numbered when it is generated. *)
Generates(p, stage) ==
    /\ made < MaxKeys
    /\ made' = made + 1
    /\ proc' = [proc EXCEPT ![p].at = stage, ![p].new = made + 1]

---------------------------------------------------------------------------
(* loadOrGenerateKeyPair, for signing and for the commands that need a     *)
(* public key when there is none.                                          *)

SignStart(p) == Starts(p, "sign", "look") /\ UNCHANGED <<Files, catalog, made, signed, crashes>>

(* key fingerprint reads signing.pub when it is there. *)
ShowStart(p) ==
    /\ pub = None
    /\ Starts(p, "show", "look")
    /\ UNCHANGED <<Files, catalog, made, signed, crashes>>

Look(p) ==
    /\ At(p, "look")
    /\ IF priv # None /\ pub # None
       THEN Goes(p, "readPriv") /\ UNCHANGED made
       ELSE Generates(p, "genPriv")
    /\ UNCHANGED <<Files, catalog, signed, crashes>>

(* A file that has gone since throws. *)
ReadPriv(p) ==
    /\ At(p, "readPriv")
    /\ IF priv = None THEN Ends(p, "failed")
       ELSE proc' = [proc EXCEPT ![p].at = "readPub", ![p].priv = priv]
    /\ UNCHANGED <<Files, catalog, made, signed, crashes>>

ReadPub(p) ==
    /\ At(p, "readPub")
    /\ IF pub = None \/ priv = None THEN Ends(p, "failed")
       ELSE proc' = [proc EXCEPT ![p].at = "catalogue", ![p].pub = pub]
    /\ UNCHANGED <<Files, catalog, made, signed, crashes>>

GenPriv(p) ==
    /\ At(p, "genPriv")
    /\ priv' = proc[p].new
    /\ proc' = [proc EXCEPT ![p].at = "genPub", ![p].priv = proc[p].new]
    /\ UNCHANGED <<pub, archived, archivedPub, catalog, made, signed, crashes>>

(* Mutated form of GenPub: a public key that is there is left alone. *)
GenPubKeeping(p) ==
    /\ At(p, "genPub")
    /\ pub' = IF pub = None THEN proc[p].new ELSE pub
    /\ proc' = [proc EXCEPT ![p].at = "catalogue", ![p].pub = proc[p].new]
    /\ UNCHANGED <<priv, archived, archivedPub, catalog, made, signed, crashes>>

GenPub(p) ==
    /\ At(p, "genPub")
    /\ pub' = proc[p].new
    /\ proc' = [proc EXCEPT ![p].at = "catalogue", ![p].pub = proc[p].new]
    /\ UNCHANGED <<priv, archived, archivedPub, catalog, made, signed, crashes>>

Loaded(p) == IF proc[p].cmd = "sign" THEN "sign" ELSE IF proc[p].cmd = "seed" THEN "seedSave" ELSE "shown"

(* ensureCatalogued returns, the key in the catalog or not.                *)
Catalogued(p, listed) ==
    proc' = [proc EXCEPT ![p].at = Loaded(p), ![p].listed = listed]

(* Mutated form of Catalogue: a key is catalogued only when generated. *)
CatalogueGenerated(p) ==
    LET f == proc[p].pub
    IN  /\ At(p, "catalogue")
        /\ IF catalog = Torn \/ f \in DOMAIN Entries \/ f # proc[p].new
           THEN Catalogued(p, catalog # Torn)
           ELSE proc' = [proc EXCEPT ![p].at = "catalogueSave", ![p].cat = RecordActive(Entries, f)]
        /\ UNCHANGED <<Files, catalog, made, signed, crashes>>

(* ensureCatalogued reads the catalog; a torn one throws, which it catches. *)
Catalogue(p) ==
    LET f == proc[p].pub
    IN  /\ At(p, "catalogue")
        /\ IF catalog = Torn \/ f \in DOMAIN Entries
           THEN Catalogued(p, catalog # Torn)
           ELSE proc' = [proc EXCEPT ![p].at = "catalogueSave", ![p].cat = RecordActive(Entries, f)]
        /\ UNCHANGED <<Files, catalog, made, signed, crashes>>

CatalogueSave(p) ==
    /\ At(p, "catalogueSave")
    /\ catalog' = proc[p].cat
    /\ Catalogued(p, TRUE)
    /\ UNCHANGED <<Files, made, signed, crashes>>

(* The catalog cannot be read, or cannot be saved (which may cut it off):  *)
(* ensureCatalogued swallows the error and the command goes on with a key  *)
(* that is in no catalog.                                                  *)
CatalogueFails(p) ==
    /\ proc[p].at \in {"catalogue", "catalogueSave"}
    /\ \/ catalog' = catalog
       \/ Tearing /\ At(p, "catalogueSave") /\ catalog' = Torn
    /\ Catalogued(p, FALSE)
    /\ UNCHANGED <<Files, made, signed, crashes>>

(* signManifest signs with one half and puts the other in the bundle. *)
Sign(p) ==
    /\ At(p, "sign")
    /\ signed' = signed \union {[priv |-> proc[p].priv, pub |-> proc[p].pub,
                                   listed |-> proc[p].listed]}
    /\ Ends(p, "signed")
    /\ UNCHANGED <<Files, catalog, made, crashes>>

Shown(p) ==
    /\ At(p, "shown")
    /\ Ends(p, "shown")
    /\ UNCHANGED <<Files, catalog, made, signed, crashes>>

---------------------------------------------------------------------------
(* depose key catalog: an empty catalog is seeded from the public key. *)

SeedStart(p) ==
    /\ catalog \in {None, Empty}
    /\ At(p, "idle")
    /\ "seed" \in Commands
    /\ proc' = [proc EXCEPT ![p] =
                  [Idle("nothing") EXCEPT !.at = IF pub = None THEN "look" ELSE "seedSave",
                                          !.cmd = "seed", !.pub = pub]]
    /\ UNCHANGED <<Files, catalog, made, signed, crashes>>

(* The catalog read at the start, with the one entry added, is saved. *)
SeedSave(p) ==
    /\ At(p, "seedSave")
    /\ catalog' = RecordActive(Empty, proc[p].pub)
    /\ Ends(p, "seeded")
    /\ UNCHANGED <<Files, made, signed, crashes>>

---------------------------------------------------------------------------
(* depose key rotate. *)

(* handleKeyRotate loads the catalog before it looks at the key files.     *)
RotateStart(p) ==
    /\ At(p, "idle")
    /\ "rotate" \in Commands
    /\ catalog # Torn
    /\ proc' = [proc EXCEPT ![p] = [Idle("nothing") EXCEPT !.at = "rotateLook", !.cmd = "rotate",
                                                          !.cat = Entries]]
    /\ UNCHANGED <<Files, catalog, made, signed, crashes>>

(* With a pair in place its entry is marked and the archive must be free;  *)
(* with half a pair or none the rotation just generates.                   *)
RotateLook(p) ==
    LET my == proc[p]
    IN  /\ At(p, "rotateLook")
        /\ IF priv = None \/ pub = None THEN Generates(p, "rotatePriv")
           ELSE /\ IF pub \in DOMAIN archived \union archivedPub THEN Ends(p, "failed")
                   ELSE proc' = [proc EXCEPT ![p].at = "archivePriv", ![p].pub = pub,
                                             ![p].cat = MarkRotated(RecordActive(my.cat, pub), pub)]
                /\ UNCHANGED made
        /\ UNCHANGED <<Files, catalog, signed, crashes>>

(* Mutated form of ArchivePriv: the private key is removed, not moved. *)
ArchivePrivByRemoval(p) ==
    /\ At(p, "archivePriv")
    /\ priv' = None
    /\ Goes(p, "archivePub")
    /\ UNCHANGED <<pub, archived, archivedPub, catalog, made, signed, crashes>>

ArchivePriv(p) ==
    LET f == proc[p].pub
    IN  /\ At(p, "archivePriv")
        /\ IF priv = None
           THEN Ends(p, "failed") /\ UNCHANGED <<priv, archived>>
           ELSE /\ priv' = None
                /\ archived' = [g \in DOMAIN archived \union {f} |->
                                  IF g = f THEN priv ELSE archived[g]]
                /\ Goes(p, "archivePub")
        /\ UNCHANGED <<pub, archivedPub, catalog, made, signed, crashes>>

ArchivePub(p) ==
    /\ At(p, "archivePub")
    /\ IF pub = None
       THEN Ends(p, "failed") /\ UNCHANGED <<pub, archivedPub, made>>
       ELSE /\ pub' = None
            /\ archivedPub' = archivedPub \union {proc[p].pub}
            /\ Generates(p, "rotatePriv")
    /\ UNCHANGED <<priv, archived, catalog, signed, crashes>>

RotatePriv(p) ==
    /\ At(p, "rotatePriv")
    /\ priv' = proc[p].new
    /\ Goes(p, "rotatePub")
    /\ UNCHANGED <<pub, archived, archivedPub, catalog, made, signed, crashes>>

RotatePub(p) ==
    /\ At(p, "rotatePub")
    /\ pub' = proc[p].new
    /\ Goes(p, "rotateSave")
    /\ UNCHANGED <<priv, archived, archivedPub, catalog, made, signed, crashes>>

RotateSave(p) ==
    /\ At(p, "rotateSave")
    /\ catalog' = RecordActive(proc[p].cat, proc[p].new)
    /\ Ends(p, "rotated")
    /\ UNCHANGED <<Files, made, signed, crashes>>

---------------------------------------------------------------------------
(* depose key revoke <fingerprint> --reason ... *)

(* A fingerprint the catalog does not hold is refused. *)
RevokeStart(p) ==
    /\ At(p, "idle")
    /\ "revoke" \in Commands
    /\ catalog # Torn
    /\ \E f \in DOMAIN Entries :
         proc' = [proc EXCEPT ![p] = [Idle("nothing") EXCEPT !.at = "revokeSave", !.cmd = "revoke",
                                                             !.cat = MarkRevoked(Entries, f)]]
    /\ UNCHANGED <<Files, catalog, made, signed, crashes>>

RevokeSave(p) ==
    /\ At(p, "revokeSave")
    /\ catalog' = proc[p].cat
    /\ Ends(p, "revoked")
    /\ UNCHANGED <<Files, made, signed, crashes>>

---------------------------------------------------------------------------
Saving == {"catalogueSave", "seedSave", "rotateSave", "revokeSave"}

(* A command dies between two file operations, or in saveCatalog. *)
Crash(p) ==
    /\ ~At(p, "idle")
    /\ crashes < MaxCrashes
    /\ crashes' = crashes + 1
    /\ \/ catalog' = catalog
       \/ Tearing /\ proc[p].at \in Saving /\ catalog' = Torn
    /\ Ends(p, "crashed")
    /\ UNCHANGED <<Files, made, signed>>

LoadStep(p) == \/ SignStart(p) \/ ShowStart(p) \/ Look(p) \/ ReadPriv(p) \/ ReadPub(p)
               \/ GenPriv(p) \/ GenPub(p) \/ Catalogue(p) \/ CatalogueSave(p)
               \/ CatalogueFails(p)
               \/ Sign(p) \/ Shown(p) \/ SeedStart(p) \/ SeedSave(p)

RotateStep(p) == \/ RotateStart(p) \/ RotateLook(p)
                 \/ ArchivePriv(p) \/ ArchivePub(p)
                 \/ RotatePriv(p) \/ RotatePub(p) \/ RotateSave(p)

Next == \E p \in Procs : \/ LoadStep(p) \/ RotateStep(p)
                         \/ RevokeStart(p) \/ RevokeSave(p) \/ Crash(p)

Spec == Init /\ [][Next]_vars

---------------------------------------------------------------------------
(* Properties. *)

Pairs == 1..made

(* The public key a bundle carries is the one its signature was made with. *)
SignatureMatchesKey == \A s \in signed : s.priv = s.pub

(* A key that signed a bundle in a command that saw or saved it in the     *)
(* catalog is one the producer can revoke ever after: rotations, seeding,  *)
(* other saves and deaths keep its entry.  Only ensureCatalogued's         *)
(* swallowed errors let a key sign uncatalogued.                           *)
SigningKeysCatalogued ==
    catalog # Torn => \A s \in signed : s.listed => s.pub \in DOMAIN Entries

(* No private key that has signed is lost, interrupted rotations included: *)
(* it is the current one or in the archive.                                *)
SigningKeysKept ==
    \A s \in signed : s.priv = priv \/ \E f \in DOMAIN archived : archived[f] = s.priv

(* Revocation wins: a saved revocation is never taken back. *)
RevocationIsFinal ==
    [][\A f \in Pairs : (catalog \notin {None, Torn} /\ f \in DOMAIN catalog /\ catalog[f] = "revoked"
                          /\ catalog' # Torn)
          => f \in DOMAIN catalog' /\ catalog'[f] = "revoked"]_vars

=============================================================================
