--------------------------- MODULE KeyStoreProofs ---------------------------
(***************************************************************************)
(* Proofs about KeyStore for commands that do not overlap: any commands,   *)
(* any number of keys, deaths anywhere, a catalog cut off or not.          *)
(***************************************************************************)
EXTENDS KeyStore, TLAPS

(* Commands are run one after the other.                                   *)
OneAtATime == \A p, r \in Procs : p = r

---------------------------------------------------------------------------
(* Types. *)

KeyFile == Keys \cup {None}

Stages == {"idle", "look", "readPriv", "readPub", "genPriv", "genPub", "catalogue",
           "catalogueSave", "sign", "shown", "seedSave", "rotateLook", "archivePriv",
           "archivePub", "rotatePriv", "rotatePub", "rotateSave", "revokeSave"}
Outcomes == {"nothing", "failed", "signed", "shown", "seeded", "rotated", "revoked", "crashed"}

Memory == [at : Stages, cmd : AllCommands \cup {"none"}, last : Outcomes, priv : KeyFile, pub : KeyFile,
           new : Nat, cat : Catalogs, listed : BOOLEAN]

Typed ==
    /\ priv \in KeyFile /\ pub \in KeyFile
    /\ catalog \in Catalogs \cup {None, Torn}
    /\ proc \in [Procs -> Memory]
    /\ made \in 0..MaxKeys

(* What maps some keys to statuses is a catalog, and so is what the        *)
(* operations of key-catalog.ts make of one.                               *)
LEMMA CatalogClosed ==
    ASSUME NEW d \in SUBSET Keys, NEW c \in [d -> {"active", "rotated", "revoked"}]
    PROVE  c \in Catalogs
BY DEF Catalogs

LEMMA CatalogIsFunction ==
    ASSUME NEW c \in Catalogs
    PROVE  /\ DOMAIN c \subseteq Keys
           /\ c \in [DOMAIN c -> {"active", "rotated", "revoked"}]
BY DEF Catalogs

LEMMA EmptyIsCatalog == Empty \in Catalogs /\ DOMAIN Empty = {}
<1>1. Empty \in [{} -> {"active", "rotated", "revoked"}] /\ {} \in SUBSET Keys
  BY DEF Empty
<1> QED
  BY <1>1, CatalogClosed DEF Empty

LEMMA CatalogSteps ==
    ASSUME NEW c \in Catalogs, NEW f \in Keys
    PROVE  /\ RecordActive(c, f) \in Catalogs
           /\ DOMAIN RecordActive(c, f) = DOMAIN c \cup {f}
           /\ \A g \in DOMAIN c : RecordActive(c, f)[g] = c[g]
           /\ MarkRotated(c, f) \in Catalogs
           /\ DOMAIN MarkRotated(c, f) = DOMAIN c
           /\ \A g \in DOMAIN c : c[g] = "revoked" => MarkRotated(c, f)[g] = "revoked"
           /\ MarkRevoked(c, f) \in Catalogs
           /\ DOMAIN MarkRevoked(c, f) = DOMAIN c
           /\ \A g \in DOMAIN c : c[g] = "revoked" => MarkRevoked(c, f)[g] = "revoked"
<1> DEFINE S == {"active", "rotated", "revoked"}
<1>1. DOMAIN c \subseteq Keys /\ c \in [DOMAIN c -> S]
  BY CatalogIsFunction
<1>2. RecordActive(c, f) \in [DOMAIN c \cup {f} -> S] /\ DOMAIN c \cup {f} \in SUBSET Keys
  BY <1>1 DEF RecordActive
<1>3. MarkRotated(c, f) \in [DOMAIN c -> S] /\ MarkRevoked(c, f) \in [DOMAIN c -> S]
  BY <1>1 DEF MarkRotated, MarkRevoked
<1>4. RecordActive(c, f) \in Catalogs
  BY <1>2, CatalogClosed
<1>5. MarkRotated(c, f) \in Catalogs /\ MarkRevoked(c, f) \in Catalogs
  BY <1>1, <1>3, CatalogClosed
<1>6. \A g \in DOMAIN c : RecordActive(c, f)[g] = c[g]
  BY DEF RecordActive
<1>7. \A g \in DOMAIN c : c[g] = "revoked" =>
          MarkRotated(c, f)[g] = "revoked" /\ MarkRevoked(c, f)[g] = "revoked"
  BY DEF MarkRotated, MarkRevoked
<1> QED
  BY <1>2, <1>3, <1>4, <1>5, <1>6, <1>7

LEMMA EntriesTyped ==
    ASSUME Typed, catalog # Torn
    PROVE  Entries \in Catalogs
BY EmptyIsCatalog DEF Typed, Entries

LEMMA IdleTyped ==
    ASSUME NEW last \in Outcomes
    PROVE  Idle(last) \in Memory
BY EmptyIsCatalog DEF Idle, Memory, KeyFile, Stages, Outcomes, AllCommands

LEMMA TypedInit == Init => Typed
BY IdleTyped, KeyStoreConstants DEF Init, Typed, KeyFile, Outcomes

---------------------------------------------------------------------------
(* What each step leaves in the memory of its command.                     *)

Becomes(p, at, cmd, kpriv, kpub, new, cat) ==
    /\ proc'[p].at = at /\ proc'[p].cmd = cmd
    /\ proc'[p].priv = kpriv /\ proc'[p].pub = kpub
    /\ proc'[p].new = new /\ proc'[p].cat = cat

(* One field of a memory changed.                                           *)
LEMMA SetAt ==
    ASSUME NEW m \in Memory, NEW s \in Stages
    PROVE  LET n == [m EXCEPT !.at = s]
           IN  n \in Memory /\ n.at = s /\ n.cmd = m.cmd /\ n.priv = m.priv
               /\ n.pub = m.pub /\ n.new = m.new /\ n.cat = m.cat
BY DEF Memory

LEMMA SetCmd ==
    ASSUME NEW m \in Memory, NEW cmd \in AllCommands
    PROVE  LET n == [m EXCEPT !.cmd = cmd]
           IN  n \in Memory /\ n.at = m.at /\ n.cmd = cmd /\ n.priv = m.priv
               /\ n.pub = m.pub /\ n.new = m.new /\ n.cat = m.cat
BY DEF Memory

LEMMA SetPub ==
    ASSUME NEW m \in Memory, NEW f \in KeyFile
    PROVE  LET n == [m EXCEPT !.pub = f]
           IN  n \in Memory /\ n.at = m.at /\ n.cmd = m.cmd /\ n.priv = m.priv
               /\ n.pub = f /\ n.new = m.new /\ n.cat = m.cat
BY DEF Memory

LEMMA SetCat ==
    ASSUME NEW m \in Memory, NEW c \in Catalogs
    PROVE  LET n == [m EXCEPT !.cat = c]
           IN  n \in Memory /\ n.at = m.at /\ n.cmd = m.cmd /\ n.priv = m.priv
               /\ n.pub = m.pub /\ n.new = m.new /\ n.cat = c
BY DEF Memory

LEMMA EndsDoes ==
    ASSUME Typed, NEW p \in Procs, NEW last \in Outcomes, Ends(p, last)
    PROVE  /\ proc' \in [Procs -> Memory]
           /\ Becomes(p, "idle", "none", None, None, 0, Empty)
<1>1. proc'[p] = Idle(last) /\ proc' \in [Procs -> Memory]
  BY IdleTyped DEF Typed, Ends
<1> QED
  BY <1>1 DEF Becomes, Idle

LEMMA GoesDoes ==
    ASSUME Typed, NEW p \in Procs, NEW stage \in Stages, Goes(p, stage)
    PROVE  /\ proc' \in [Procs -> Memory]
           /\ Becomes(p, stage, proc[p].cmd, proc[p].priv, proc[p].pub, proc[p].new, proc[p].cat)
<1>1. proc'[p] = [proc[p] EXCEPT !.at = stage] /\ proc' \in [Procs -> Memory]
  BY DEF Typed, Goes, Memory
<1> QED
  BY <1>1 DEF Becomes, Typed, Memory

LEMMA CataloguedDoes ==
    ASSUME Typed, NEW p \in Procs, NEW listed \in BOOLEAN, Catalogued(p, listed)
    PROVE  /\ proc' \in [Procs -> Memory]
           /\ Loaded(p) \in {"sign", "seedSave", "shown"}
           /\ Becomes(p, Loaded(p), proc[p].cmd, proc[p].priv, proc[p].pub, proc[p].new, proc[p].cat)
           /\ proc'[p].listed = listed
<1> DEFINE stage == Loaded(p)
           m1 == [proc[p] EXCEPT !.at = stage]
           m2 == [m1 EXCEPT !.listed = listed]
<1>1. stage \in {"sign", "seedSave", "shown"} /\ stage \in Stages
  BY DEF Loaded, Stages
<1> HIDE DEF stage
<1>2. /\ m1 \in Memory /\ m1.at = stage /\ m1.cmd = proc[p].cmd /\ m1.priv = proc[p].priv
      /\ m1.pub = proc[p].pub /\ m1.new = proc[p].new /\ m1.cat = proc[p].cat
  BY <1>1, SetAt DEF Typed
<1> HIDE DEF m1
<1>3. /\ m2 \in Memory /\ m2.at = m1.at /\ m2.cmd = m1.cmd /\ m2.priv = m1.priv
      /\ m2.pub = m1.pub /\ m2.new = m1.new /\ m2.cat = m1.cat /\ m2.listed = listed
  BY <1>2 DEF Memory
<1>4. proc' = [proc EXCEPT ![p] = m2]
  BY DEF Catalogued, stage, m1
<1> HIDE DEF m2
<1>5. proc' \in [Procs -> Memory] /\ proc'[p] = m2
  BY <1>3, <1>4 DEF Typed
<1>6. stage = Loaded(p)
  BY DEF stage
<1> QED
  BY <1>1, <1>2, <1>3, <1>5, <1>6 DEF Becomes

(* Every command starts with nothing in its memory but what it is given.   *)
LEMMA StartsDoes ==
    ASSUME Typed, NEW p \in Procs, NEW stage \in Stages, NEW cmd \in AllCommands,
           NEW k \in KeyFile, NEW c \in Catalogs,
           \/ /\ k = None /\ c = Empty
              /\ proc' = [proc EXCEPT ![p] = [Idle("nothing") EXCEPT !.at = stage, !.cmd = cmd]]
           \/ /\ c = Empty
              /\ proc' = [proc EXCEPT ![p] =
                            [Idle("nothing") EXCEPT !.at = stage, !.cmd = cmd, !.pub = k]]
           \/ /\ k = None
              /\ proc' = [proc EXCEPT ![p] =
                            [Idle("nothing") EXCEPT !.at = stage, !.cmd = cmd, !.cat = c]]
    PROVE  /\ proc' \in [Procs -> Memory]
           /\ Becomes(p, stage, cmd, None, k, 0, c)
<1> DEFINE m0 == Idle("nothing")
           m1 == [m0 EXCEPT !.at = stage]
           m2 == [m1 EXCEPT !.cmd = cmd]
           m3 == [m2 EXCEPT !.pub = k]
           m4 == [m2 EXCEPT !.cat = c]
<1>1. /\ m0 \in Memory /\ m0.priv = None /\ m0.pub = None
      /\ m0.new = 0 /\ m0.cat = Empty
  BY IdleTyped DEF Idle, Outcomes
<1>2. m1 \in Memory /\ m2 \in Memory /\ m3 \in Memory /\ m4 \in Memory
  BY <1>1, SetAt, SetCmd, SetPub, SetCat
<1>3. proc'[p] \in {m2, m3, m4} /\ proc' \in [Procs -> Memory]
  BY <1>2 DEF Typed
<1>4. /\ m2.at = stage /\ m2.cmd = cmd /\ m2.priv = None /\ m2.pub = None
      /\ m2.new = 0 /\ m2.cat = Empty
  BY <1>1, <1>2, SetAt, SetCmd
<1>5. /\ m3.at = stage /\ m3.cmd = cmd /\ m3.priv = None /\ m3.pub = k
      /\ m3.new = 0 /\ m3.cat = Empty
  BY <1>2, <1>4, SetPub
<1>6. /\ m4.at = stage /\ m4.cmd = cmd /\ m4.priv = None /\ m4.pub = None
      /\ m4.new = 0 /\ m4.cat = c
  BY <1>2, <1>4, SetCat
<1>7. \/ k = None /\ c = Empty /\ proc'[p] = m2
      \/ c = Empty /\ proc'[p] = m3
      \/ k = None /\ proc'[p] = m4
  BY DEF Typed
<1> HIDE DEF m2, m3, m4
<1> QED
  BY <1>3, <1>4, <1>5, <1>6, <1>7 DEF Becomes

LEMMA GeneratesDoes ==
    ASSUME Typed, NEW p \in Procs, NEW stage \in Stages, Generates(p, stage)
    PROVE  /\ proc' \in [Procs -> Memory]
           /\ made' \in 0..MaxKeys /\ made' \in Keys
           /\ Becomes(p, stage, proc[p].cmd, proc[p].priv, proc[p].pub, made', proc[p].cat)
<1>1. made' = made + 1 /\ made < MaxKeys /\ made \in 0..MaxKeys /\ MaxKeys \in Nat
  BY KeyStoreConstants DEF Generates, Typed
<1>2. made' \in 0..MaxKeys /\ made' \in Keys /\ made' \in Nat
  BY <1>1 DEF Keys
<1>3. proc' = [proc EXCEPT ![p].at = stage, ![p].new = made']
  BY <1>1 DEF Generates
<1>4. proc' \in [Procs -> Memory] /\ proc'[p] = [proc[p] EXCEPT !.at = stage, !.new = made']
  BY <1>2, <1>3 DEF Typed, Memory
<1> QED
  BY <1>2, <1>4 DEF Becomes, Typed, Memory

LEMMA ReadsPriv ==
    ASSUME Typed, NEW p \in Procs, NEW stage \in Stages, NEW k \in KeyFile,
           proc' = [proc EXCEPT ![p].at = stage, ![p].priv = k]
    PROVE  /\ proc' \in [Procs -> Memory]
           /\ Becomes(p, stage, proc[p].cmd, k, proc[p].pub, proc[p].new, proc[p].cat)
<1>1. proc' \in [Procs -> Memory] /\ proc'[p] = [proc[p] EXCEPT !.at = stage, !.priv = k]
  BY DEF Typed, Memory
<1> QED
  BY <1>1 DEF Becomes, Typed, Memory

LEMMA ReadsPub ==
    ASSUME Typed, NEW p \in Procs, NEW stage \in Stages, NEW f \in KeyFile,
           proc' = [proc EXCEPT ![p].at = stage, ![p].pub = f]
    PROVE  /\ proc' \in [Procs -> Memory]
           /\ Becomes(p, stage, proc[p].cmd, proc[p].priv, f, proc[p].new, proc[p].cat)
<1>1. proc' \in [Procs -> Memory] /\ proc'[p] = [proc[p] EXCEPT !.at = stage, !.pub = f]
  BY DEF Typed, Memory
<1> QED
  BY <1>1 DEF Becomes, Typed, Memory

LEMMA ReadsCatalog ==
    ASSUME Typed, NEW p \in Procs, NEW stage \in Stages, NEW c \in Catalogs,
           proc' = [proc EXCEPT ![p].at = stage, ![p].cat = c]
    PROVE  /\ proc' \in [Procs -> Memory]
           /\ Becomes(p, stage, proc[p].cmd, proc[p].priv, proc[p].pub, proc[p].new, c)
<1>1. proc' \in [Procs -> Memory] /\ proc'[p] = [proc[p] EXCEPT !.at = stage, !.cat = c]
  BY DEF Typed, Memory
<1> QED
  BY <1>1 DEF Becomes, Typed, Memory

LEMMA ReadsBoth ==
    ASSUME Typed, NEW p \in Procs, NEW stage \in Stages, NEW f \in KeyFile, NEW c \in Catalogs,
           proc' = [proc EXCEPT ![p].at = stage, ![p].pub = f, ![p].cat = c]
    PROVE  /\ proc' \in [Procs -> Memory]
           /\ Becomes(p, stage, proc[p].cmd, proc[p].priv, f, proc[p].new, c)
<1> DEFINE m1 == [proc[p] EXCEPT !.at = stage]
           m2 == [m1 EXCEPT !.pub = f]
           m3 == [m2 EXCEPT !.cat = c]
           q1 == [proc EXCEPT ![p].at = stage]
           q2 == [q1 EXCEPT ![p].pub = f]
           q3 == [q2 EXCEPT ![p].cat = c]
<1>1. m1 \in Memory /\ m2 \in Memory /\ m3 \in Memory
  BY SetAt, SetPub, SetCat DEF Typed
<1>2. q1 \in [Procs -> Memory] /\ q1[p] = m1
  BY <1>1 DEF Typed
<1>3. q2 \in [Procs -> Memory] /\ q2[p] = m2
  BY <1>1, <1>2
<1>4. q3 \in [Procs -> Memory] /\ q3[p] = m3
  BY <1>1, <1>3
<1>5. proc' = q3
  OBVIOUS
<1>6. /\ m3.at = stage /\ m3.cmd = proc[p].cmd /\ m3.priv = proc[p].priv
      /\ m3.pub = f /\ m3.new = proc[p].new /\ m3.cat = c
  BY <1>1, SetAt, SetPub, SetCat DEF Typed
<1> HIDE DEF m3, q3
<1> QED
  BY <1>4, <1>5, <1>6 DEF Becomes

---------------------------------------------------------------------------
(* The invariant. *)

(* Every key that has signed is in the archive. *)
AllArchived == \A s \in signed : \E f \in DOMAIN archived : archived[f] = s.priv

(* A key that has signed is archived before either of its files is gone.   *)
HalvesArchived == priv = None \/ pub = None => AllArchived

KeysAt(p) ==
    LET my == proc[p]
    IN  /\ my.at \in {"genPriv", "genPub", "rotatePriv", "rotatePub", "rotateSave"} =>
             my.new \in Keys
        /\ my.at \in {"genPriv", "genPub", "archivePub", "rotatePriv", "rotatePub"} => AllArchived
        /\ my.at = "genPub" => priv = my.new /\ my.priv = my.new
        /\ my.at = "readPub" => priv = my.priv /\ my.priv \in Keys
        /\ my.at \in {"catalogue", "catalogueSave", "sign"} => priv = my.priv /\ pub = my.pub
        /\ my.at \in {"catalogue", "catalogueSave", "sign"} => my.priv \in Keys /\ my.pub \in Keys
        /\ my.at \in {"archivePriv", "archivePub", "seedSave"} => my.pub \in Keys
        /\ my.at = "archivePriv" => my.pub \notin DOMAIN archived

(* What a command is about to save says all that is saved. *)
Covers(c) ==
    /\ catalog # Torn
    /\ DOMAIN Entries \subseteq DOMAIN c
    /\ \A f \in DOMAIN Entries : Entries[f] = "revoked" => c[f] = "revoked"

CatalogAt(p) ==
    LET my == proc[p]
    IN  /\ my.cmd = "seed" =>
             /\ \A s \in signed : ~s.listed
             /\ catalog # Torn => \A f \in DOMAIN Entries : Entries[f] # "revoked"
             /\ my.at = "catalogueSave" => \A f \in DOMAIN my.cat : my.cat[f] # "revoked"
        /\ my.at = "seedSave" => my.cmd = "seed"
        /\ my.at = "sign" => my.cmd = "sign" /\ (my.listed /\ catalog # Torn => my.pub \in DOMAIN Entries)
        /\ my.at \in {"catalogueSave", "rotateLook", "archivePriv", "archivePub", "rotatePriv",
                      "rotatePub", "rotateSave", "revokeSave"} => Covers(my.cat)
        /\ my.at = "catalogueSave" => my.pub \in DOMAIN my.cat

IInv ==
    /\ Typed
    /\ SigningKeysKept /\ HalvesArchived
    /\ SigningKeysCatalogued
    /\ \A p \in Procs : KeysAt(p) /\ CatalogAt(p)

LEMMA InitKeeps == Init => IInv
<1> SUFFICES ASSUME Init PROVE IInv
  OBVIOUS
<1>1. Typed
  BY TypedInit
<1>2. signed = {} /\ \A p \in Procs : proc[p].at = "idle" /\ proc[p].cmd = "none"
  BY DEF Init, Idle
<1> QED
  BY <1>1, <1>2
     DEF IInv, SigningKeysKept, HalvesArchived, AllArchived, SigningKeysCatalogued, KeysAt, CatalogAt

(* With no other command under way, the one that took the step is the one  *)
(* to look at.                                                             *)
LEMMA Closes ==
    ASSUME OneAtATime, NEW p \in Procs, Typed', SigningKeysKept', HalvesArchived',
           SigningKeysCatalogued', KeysAt(p)', CatalogAt(p)'
    PROVE  IInv'
BY DEF OneAtATime, IInv

(* A step that writes nothing.                                             *)
LEMMA QuietKeeps ==
    ASSUME OneAtATime, IInv, NEW p \in Procs, UNCHANGED <<Files, catalog, signed>>,
           proc' \in [Procs -> Memory], made' \in 0..MaxKeys, KeysAt(p)', CatalogAt(p)'
    PROVE  IInv'
<1>1. Typed'
  BY DEF IInv, Typed, Files
<1>2. SigningKeysKept' /\ HalvesArchived'
  BY DEF IInv, Files, SigningKeysKept, HalvesArchived, AllArchived
<1>3. SigningKeysCatalogued'
  BY DEF IInv, SigningKeysCatalogued, Entries
<1> QED
  BY <1>1, <1>2, <1>3, Closes

(* A command that ends without writing.                                    *)
LEMMA EndKeeps ==
    ASSUME OneAtATime, IInv, NEW p \in Procs, NEW last \in Outcomes, Ends(p, last),
           UNCHANGED <<Files, catalog, made, signed>>
    PROVE  IInv'
<1>1. proc' \in [Procs -> Memory] /\ proc'[p].at = "idle" /\ proc'[p].cmd = "none"
  BY EndsDoes DEF IInv, Becomes
<1>2. KeysAt(p)' /\ CatalogAt(p)'
  BY <1>1 DEF KeysAt, CatalogAt
<1> QED
  BY <1>1, <1>2, QuietKeeps DEF IInv, Typed

---------------------------------------------------------------------------
(* Loading a pair, signing, showing and seeding.                           *)

LEMMA LookKeeps ==
    ASSUME OneAtATime, IInv, NEW p \in Procs, Look(p)
    PROVE  IInv'
<1> USE DEF Stages
<1>1. UNCHANGED <<Files, catalog, signed>> /\ Typed
  BY DEF Look, IInv
<1>2. CASE priv # None /\ pub # None
  <2>1. Goes(p, "readPriv") /\ made' = made
    BY <1>2 DEF Look
  <2>2. proc' \in [Procs -> Memory] /\ proc'[p].at = "readPriv" /\ proc'[p].cmd = proc[p].cmd
    BY <1>1, <2>1, GoesDoes DEF Becomes
  <2>3. KeysAt(p)' /\ CatalogAt(p)'
    BY <1>1, <2>2 DEF IInv, KeysAt, CatalogAt, Entries
  <2> QED
    BY <1>1, <2>1, <2>2, <2>3, QuietKeeps DEF Typed
<1>3. CASE priv = None \/ pub = None
  <2>1. Generates(p, "genPriv")
    BY <1>3 DEF Look
  <2>2. /\ proc' \in [Procs -> Memory] /\ made' \in 0..MaxKeys
        /\ proc'[p].at = "genPriv" /\ proc'[p].cmd = proc[p].cmd /\ proc'[p].new \in Keys
    BY <1>1, <2>1, GeneratesDoes DEF Becomes
  <2>3. AllArchived'
    BY <1>1, <1>3 DEF IInv, HalvesArchived, AllArchived, Files
  <2>4. KeysAt(p)' /\ CatalogAt(p)'
    BY <1>1, <2>2, <2>3 DEF IInv, KeysAt, CatalogAt, Entries
  <2> QED
    BY <1>1, <2>2, <2>4, QuietKeeps
<1> QED
  BY <1>2, <1>3

LEMMA StartKeeps ==
    ASSUME OneAtATime, IInv, NEW p \in Procs, SignStart(p) \/ ShowStart(p)
    PROVE  IInv'
<1>1. PICK cmd \in {"sign", "show"} : Starts(p, cmd, "look")
  BY DEF SignStart, ShowStart
<1>2. UNCHANGED <<Files, catalog, made, signed>> /\ Typed
  BY DEF SignStart, ShowStart, IInv
<1> DEFINE k == None
           c == Empty
<1>a. k \in KeyFile /\ c \in Catalogs /\ k = None /\ c = Empty
      /\ "look" \in Stages /\ cmd \in AllCommands
  BY EmptyIsCatalog DEF KeyFile, Stages, AllCommands
<1>b. proc' = [proc EXCEPT ![p] = [Idle("nothing") EXCEPT !.at = "look", !.cmd = cmd]]
  BY <1>1 DEF Starts
<1> HIDE DEF k, c
<1>3. proc' \in [Procs -> Memory] /\ proc'[p].at = "look" /\ proc'[p].cmd = cmd
  BY <1>2, <1>a, <1>b, StartsDoes DEF Becomes
<1>4. KeysAt(p)' /\ CatalogAt(p)'
  BY <1>3 DEF KeysAt, CatalogAt
<1> QED
  BY <1>2, <1>3, <1>4, QuietKeeps DEF Typed

LEMMA ReadKeeps ==
    ASSUME OneAtATime, IInv, NEW p \in Procs, ReadPriv(p) \/ ReadPub(p)
    PROVE  IInv'
<1> USE DEF Stages
<1>1. UNCHANGED <<Files, catalog, made, signed>> /\ Typed /\ priv \in KeyFile /\ pub \in KeyFile
  BY DEF ReadPriv, ReadPub, IInv, Typed
<1>2. CASE Ends(p, "failed")
  BY <1>1, <1>2, EndKeeps DEF Outcomes
<1>3. CASE priv # None /\ proc' = [proc EXCEPT ![p].at = "readPub", ![p].priv = priv]
  <2>1. /\ proc' \in [Procs -> Memory] /\ proc'[p].at = "readPub"
        /\ proc'[p].cmd = proc[p].cmd /\ proc'[p].priv = priv
    BY <1>1, <1>3, ReadsPriv DEF Becomes
  <2>2. priv \in Keys
    BY <1>1, <1>3 DEF KeyFile
  <2>3. KeysAt(p)' /\ CatalogAt(p)'
    BY <1>1, <2>1, <2>2 DEF IInv, KeysAt, CatalogAt, Entries, Files
  <2> QED
    BY <1>1, <2>1, <2>3, QuietKeeps DEF Typed
<1>4. CASE /\ At(p, "readPub") /\ pub # None
           /\ proc' = [proc EXCEPT ![p].at = "catalogue", ![p].pub = pub]
  <2>1. /\ proc' \in [Procs -> Memory] /\ proc'[p].at = "catalogue"
        /\ proc'[p].cmd = proc[p].cmd /\ proc'[p].priv = proc[p].priv /\ proc'[p].pub = pub
    BY <1>1, <1>4, ReadsPub DEF Becomes
  <2>2. pub \in Keys
    BY <1>1, <1>4 DEF KeyFile
  <2>3. proc[p].at = "readPub" /\ KeysAt(p) /\ CatalogAt(p)
    BY <1>4 DEF At, IInv
  <2>4. KeysAt(p)' /\ CatalogAt(p)'
    BY <1>1, <2>1, <2>2, <2>3 DEF KeysAt, CatalogAt, Entries, Files
  <2> QED
    BY <1>1, <2>1, <2>4, QuietKeeps DEF Typed
<1> QED
  BY <1>2, <1>3, <1>4 DEF ReadPriv, ReadPub

LEMMA GenPrivKeeps ==
    ASSUME OneAtATime, IInv, NEW p \in Procs, GenPriv(p)
    PROVE  IInv'
<1> USE DEF Stages
<1>1. /\ Typed /\ proc[p].at = "genPriv" /\ KeysAt(p) /\ CatalogAt(p)
      /\ priv' = proc[p].new
      /\ proc' = [proc EXCEPT ![p].at = "genPub", ![p].priv = proc[p].new]
      /\ UNCHANGED <<pub, archived, archivedPub, catalog, made, signed, crashes>>
  BY DEF GenPriv, At, IInv
<1>2. proc[p].new \in Keys /\ AllArchived
  BY <1>1 DEF KeysAt
<1>3. /\ proc' \in [Procs -> Memory] /\ proc'[p].at = "genPub" /\ proc'[p].cmd = proc[p].cmd
      /\ proc'[p].priv = proc[p].new /\ proc'[p].new = proc[p].new
  <2> DEFINE n == proc[p].new
  <2>1. n \in KeyFile /\ "genPub" \in Stages /\ n = proc[p].new
    BY <1>2 DEF KeyFile
  <2>2. proc' = [proc EXCEPT ![p].at = "genPub", ![p].priv = n]
    BY <1>1
  <2> HIDE DEF n, Stages
  <2>3. proc' \in [Procs -> Memory] /\ Becomes(p, "genPub", proc[p].cmd, n, proc[p].pub, proc[p].new, proc[p].cat)
    BY <1>1, <2>1, <2>2, ReadsPriv
  <2> QED
    BY <2>1, <2>3 DEF Becomes
<1>4. Typed'
  BY <1>1, <1>2, <1>3 DEF Typed, KeyFile
<1>5. AllArchived'
  BY <1>1, <1>2 DEF AllArchived
<1>6. SigningKeysKept' /\ HalvesArchived' /\ SigningKeysCatalogued'
  BY <1>1, <1>5
     DEF IInv, SigningKeysKept, HalvesArchived, AllArchived, SigningKeysCatalogued, Entries
<1>7. KeysAt(p)' /\ CatalogAt(p)'
  BY <1>1, <1>2, <1>3, <1>5 DEF KeysAt, CatalogAt, Entries
<1> QED
  BY <1>4, <1>6, <1>7, Closes

LEMMA GenPubKeeps ==
    ASSUME OneAtATime, IInv, NEW p \in Procs, GenPub(p)
    PROVE  IInv'
<1> USE DEF Stages
<1>1. /\ Typed /\ proc[p].at = "genPub" /\ KeysAt(p) /\ CatalogAt(p)
      /\ pub' = proc[p].new
      /\ proc' = [proc EXCEPT ![p].at = "catalogue", ![p].pub = proc[p].new]
      /\ UNCHANGED <<priv, archived, archivedPub, catalog, made, signed, crashes>>
  BY DEF GenPub, At, IInv
<1>2. proc[p].new \in Keys /\ AllArchived /\ priv = proc[p].new /\ proc[p].priv = proc[p].new
  BY <1>1 DEF KeysAt
<1>3. /\ proc' \in [Procs -> Memory] /\ proc'[p].at = "catalogue" /\ proc'[p].cmd = proc[p].cmd
      /\ proc'[p].priv = proc[p].priv /\ proc'[p].pub = proc[p].new
  <2> DEFINE n == proc[p].new
  <2>1. n \in KeyFile /\ "catalogue" \in Stages /\ n = proc[p].new
    BY <1>2 DEF KeyFile
  <2>2. proc' = [proc EXCEPT ![p].at = "catalogue", ![p].pub = n]
    BY <1>1
  <2> HIDE DEF n, Stages
  <2>3. proc' \in [Procs -> Memory] /\ Becomes(p, "catalogue", proc[p].cmd, proc[p].priv, n, proc[p].new, proc[p].cat)
    BY <1>1, <2>1, <2>2, ReadsPub
  <2> QED
    BY <2>1, <2>3 DEF Becomes
<1>4. Typed'
  BY <1>1, <1>2, <1>3 DEF Typed, KeyFile
<1>5. AllArchived'
  BY <1>1, <1>2 DEF AllArchived
<1>6. SigningKeysKept' /\ HalvesArchived' /\ SigningKeysCatalogued'
  BY <1>1, <1>5
     DEF IInv, SigningKeysKept, HalvesArchived, AllArchived, SigningKeysCatalogued, Entries
<1>7. KeysAt(p)' /\ CatalogAt(p)'
  BY <1>1, <1>2, <1>3, <1>5 DEF KeysAt, CatalogAt, Entries
<1> QED
  BY <1>4, <1>6, <1>7, Closes

LEMMA CatalogueKeeps ==
    ASSUME OneAtATime, IInv, NEW p \in Procs, Catalogue(p)
    PROVE  IInv'
<1> USE DEF Stages
<1>1. /\ UNCHANGED <<Files, catalog, made, signed>> /\ Typed
      /\ proc[p].at = "catalogue" /\ KeysAt(p) /\ CatalogAt(p)
  BY DEF Catalogue, At, IInv
<1>2. proc[p].pub \in Keys /\ proc[p].priv \in Keys /\ priv = proc[p].priv /\ pub = proc[p].pub
  BY <1>1 DEF KeysAt
<1>3. CASE /\ catalog = Torn \/ proc[p].pub \in DOMAIN Entries
           /\ Catalogued(p, catalog # Torn)
  <2> DEFINE b == catalog # Torn
  <2>0. b \in BOOLEAN /\ (b => catalog # Torn) /\ Catalogued(p, b)
    BY <1>3
  <2> HIDE DEF b
  <2>1. /\ Loaded(p) \in {"sign", "seedSave", "shown"} /\ proc' \in [Procs -> Memory]
        /\ Becomes(p, Loaded(p), proc[p].cmd, proc[p].priv, proc[p].pub, proc[p].new, proc[p].cat)
        /\ proc'[p].listed = b
    BY <1>1, <2>0, CataloguedDoes
  <2>2. /\ proc'[p].at = Loaded(p) /\ proc'[p].cmd = proc[p].cmd
        /\ proc'[p].priv = proc[p].priv /\ proc'[p].pub = proc[p].pub
    BY <2>1 DEF Becomes
  <2>3. KeysAt(p)'
    BY <1>1, <1>2, <2>1, <2>2 DEF KeysAt, Files
  <2>4. CatalogAt(p)'
    BY <1>1, <1>3, <2>0, <2>1, <2>2 DEF CatalogAt, Entries, Loaded
  <2>5. made' \in 0..MaxKeys /\ UNCHANGED <<Files, catalog, signed>>
    BY <1>1 DEF Typed
  <2> QED
    BY <2>1, <2>3, <2>4, <2>5, QuietKeeps
<1>4. CASE /\ catalog # Torn
           /\ proc' = [proc EXCEPT ![p].at = "catalogueSave",
                                   ![p].cat = RecordActive(Entries, proc[p].pub)]
  <2> DEFINE c == RecordActive(Entries, proc[p].pub)
  <2>1. Entries \in Catalogs
    BY <1>1, <1>4, EntriesTyped
  <2>2. /\ c \in Catalogs /\ DOMAIN c = DOMAIN Entries \cup {proc[p].pub}
        /\ \A g \in DOMAIN Entries : c[g] = Entries[g]
    BY <1>2, <2>1, CatalogSteps
  <2>3. proc[p].cmd = "seed" => \A g \in DOMAIN c : c[g] # "revoked"
    BY <1>1, <1>4 DEF CatalogAt, RecordActive
  <2>a. proc' = [proc EXCEPT ![p].at = "catalogueSave", ![p].cat = c]
    BY <1>4
  <2> HIDE DEF c
  <2>4. /\ proc' \in [Procs -> Memory] /\ proc'[p].at = "catalogueSave"
        /\ proc'[p].cmd = proc[p].cmd /\ proc'[p].cat = c
        /\ proc'[p].priv = proc[p].priv /\ proc'[p].pub = proc[p].pub
    <3> HIDE DEF Stages
    <3>1. Typed /\ c \in Catalogs /\ "catalogueSave" \in Stages
      BY <1>1, <2>2 DEF Stages
    <3>2. /\ proc' \in [Procs -> Memory]
          /\ Becomes(p, "catalogueSave", proc[p].cmd, proc[p].priv, proc[p].pub, proc[p].new, c)
      BY <3>1, <2>a, ReadsCatalog
    <3> QED
      BY <3>2 DEF Becomes
  <2>5. KeysAt(p)'
    BY <1>1, <1>2, <2>4 DEF KeysAt, Files
  <2>6. Covers(proc[p].cat)'
    <3>1. Covers(c)
      BY <1>4, <2>2 DEF Covers
    <3>2. Entries' = Entries /\ catalog' = catalog /\ proc[p].cat' = c
      BY <1>1, <2>4 DEF Entries
    <3> QED
      BY <3>1, <3>2 DEF Covers
  <2>7. CatalogAt(p)'
    <3>1. Entries' = Entries /\ catalog' = catalog /\ signed' = signed
      BY <1>1 DEF Entries
    <3>2. /\ proc[p].at' = "catalogueSave" /\ proc[p].cmd' = proc[p].cmd
          /\ proc[p].cat' = c /\ proc[p].pub' = proc[p].pub
      BY <2>4
    <3> QED
      BY <1>1, <1>4, <2>2, <2>3, <2>6, <3>1, <3>2 DEF CatalogAt
  <2> QED
    BY <1>1, <2>4, <2>5, <2>7, QuietKeeps DEF Typed
<1> QED
  BY <1>3, <1>4 DEF Catalogue

(* What a save leaves. *)
LEMMA Saved ==
    ASSUME NEW c \in Catalogs, catalog' = c
    PROVE  catalog' \in Catalogs /\ catalog' # Torn /\ catalog' # None /\ Entries' = c
BY KeyStoreConstants DEF Entries

LEMMA SaveKeeps ==
    ASSUME OneAtATime, IInv, NEW p \in Procs, NEW c \in Catalogs, catalog' = c,
           \A s \in signed : s.listed => s.pub \in DOMAIN c,
           UNCHANGED <<Files, made, signed>>,
           proc' \in [Procs -> Memory], KeysAt(p)', CatalogAt(p)'
    PROVE  IInv'
<1>1. catalog' \in Catalogs /\ Entries' = c
  BY Saved
<1>2. Typed'
  BY <1>1 DEF IInv, Typed, Files
<1>3. SigningKeysKept' /\ HalvesArchived'
  BY DEF IInv, Files, SigningKeysKept, HalvesArchived, AllArchived
<1>4. SigningKeysCatalogued'
  BY <1>1 DEF SigningKeysCatalogued
<1> QED
  BY <1>2, <1>3, <1>4, Closes

(* What is saved has every signing key when it covers what was there.      *)
LEMMA CoversSigned ==
    ASSUME IInv, NEW c, Covers(c)
    PROVE  \A s \in signed : s.listed => s.pub \in DOMAIN c
BY DEF IInv, Covers, SigningKeysCatalogued

LEMMA CatalogueSaveKeeps ==
    ASSUME OneAtATime, IInv, NEW p \in Procs, CatalogueSave(p)
    PROVE  IInv'
<1> DEFINE c == proc[p].cat
<1>1. /\ UNCHANGED <<Files, made, signed>> /\ Typed /\ catalog' = c
      /\ proc[p].at = "catalogueSave" /\ KeysAt(p) /\ CatalogAt(p) /\ Catalogued(p, TRUE)
  BY DEF CatalogueSave, At, IInv
<1>2. /\ Loaded(p) \in {"sign", "seedSave", "shown"} /\ proc' \in [Procs -> Memory]
      /\ Becomes(p, Loaded(p), proc[p].cmd, proc[p].priv, proc[p].pub, proc[p].new, proc[p].cat)
  BY <1>1, CataloguedDoes
<1>3. c \in Catalogs /\ Covers(c) /\ proc[p].pub \in DOMAIN c
  BY <1>1 DEF Typed, Memory, CatalogAt
<1>4. /\ proc' \in [Procs -> Memory] /\ proc'[p].at = Loaded(p) /\ proc'[p].cmd = proc[p].cmd
      /\ proc'[p].priv = proc[p].priv /\ proc'[p].pub = proc[p].pub
  BY <1>2 DEF Becomes
<1>5. KeysAt(p)'
  BY <1>1, <1>2, <1>4 DEF KeysAt, Files
<1>6. CatalogAt(p)'
  <2>1. catalog' # Torn /\ Entries' = c
    BY <1>1, <1>3, Saved
  <2>2. proc[p].cmd = "seed" =>
          (\A s \in signed : ~s.listed) /\ \A f \in DOMAIN c : c[f] # "revoked"
    BY <1>1 DEF CatalogAt
  <2> HIDE DEF c
  <2>3. proc'[p].cmd = "seed" =>
          /\ \A s \in signed' : ~s.listed
          /\ \A f \in DOMAIN Entries' : Entries'[f] # "revoked"
    BY <1>1, <1>4, <2>1, <2>2
  <2>4. proc'[p].at = "seedSave" => proc'[p].cmd = "seed"
    BY <1>4 DEF Loaded
  <2>5. proc'[p].at = "sign" => proc'[p].cmd = "sign" /\ proc'[p].pub \in DOMAIN Entries'
    BY <1>3, <1>4, <2>1 DEF Loaded
  <2> QED
    BY <1>2, <1>4, <2>3, <2>4, <2>5 DEF CatalogAt
<1>7. \A s \in signed : s.listed => s.pub \in DOMAIN c
  BY <1>3, CoversSigned
<1> HIDE DEF c
<1> QED
  BY <1>1, <1>3, <1>4, <1>5, <1>6, <1>7, SaveKeeps

(* What goes wrong with the catalog touches neither the pair nor, short of *)
(* cutting the catalog off, an entry of it; the key counts as uncatalogued. *)
LEMMA CatalogueFailsKeeps ==
    ASSUME OneAtATime, IInv, NEW p \in Procs, CatalogueFails(p)
    PROVE  IInv'
<1>1. /\ UNCHANGED <<Files, made, signed>> /\ Typed /\ catalog' \in {catalog, Torn}
      /\ proc[p].at \in {"catalogue", "catalogueSave"} /\ KeysAt(p) /\ CatalogAt(p)
      /\ Catalogued(p, FALSE)
  BY DEF CatalogueFails, IInv
<1>2. /\ Loaded(p) \in {"sign", "seedSave", "shown"} /\ proc' \in [Procs -> Memory]
      /\ Becomes(p, Loaded(p), proc[p].cmd, proc[p].priv, proc[p].pub, proc[p].new, proc[p].cat)
      /\ proc'[p].listed = FALSE
  BY <1>1, CataloguedDoes
<1>3. /\ proc'[p].at = Loaded(p) /\ proc'[p].cmd = proc[p].cmd
      /\ proc'[p].priv = proc[p].priv /\ proc'[p].pub = proc[p].pub
  BY <1>2 DEF Becomes
<1>4. KeysAt(p)'
  BY <1>1, <1>2, <1>3 DEF KeysAt, Files
<1>5. CatalogAt(p)'
  <2>1. proc'[p].cmd = "seed" =>
          /\ \A s \in signed' : ~s.listed
          /\ catalog' # Torn => \A f \in DOMAIN Entries' : Entries'[f] # "revoked"
    BY <1>1, <1>3 DEF CatalogAt, Entries
  <2>2. /\ proc'[p].at = "seedSave" => proc'[p].cmd = "seed"
        /\ proc'[p].at = "sign" => proc'[p].cmd = "sign"
    BY <1>3 DEF Loaded
  <2> QED
    BY <1>2, <1>3, <2>1, <2>2 DEF CatalogAt
<1>6. CASE catalog' = catalog
  BY <1>1, <1>2, <1>4, <1>5, <1>6, QuietKeeps DEF Typed
<1>7. CASE catalog' = Torn
  <2>1. Typed'
    BY <1>1, <1>2, <1>7 DEF Typed, Files
  <2>2. SigningKeysKept' /\ HalvesArchived' /\ SigningKeysCatalogued'
    BY <1>1, <1>7 DEF IInv, Files, SigningKeysKept, HalvesArchived, AllArchived, SigningKeysCatalogued
  <2> QED
    BY <1>4, <1>5, <2>1, <2>2, Closes
<1> QED
  BY <1>1, <1>6, <1>7

(* A signing key is in place when it signs, and catalogued if it counts as *)
(* such.                                                                   *)
LEMMA SignKeeps ==
    ASSUME OneAtATime, IInv, NEW p \in Procs, Sign(p)
    PROVE  IInv'
<1> DEFINE s == [priv |-> proc[p].priv, pub |-> proc[p].pub, listed |-> proc[p].listed]
<1>1. /\ UNCHANGED <<Files, catalog, made>> /\ Typed /\ signed' = signed \cup {s}
      /\ proc[p].at = "sign" /\ KeysAt(p) /\ CatalogAt(p) /\ Ends(p, "signed")
  BY DEF Sign, At, IInv
<1>2. /\ priv = proc[p].priv /\ pub = proc[p].pub /\ priv \in Keys /\ pub \in Keys
      /\ (proc[p].listed /\ catalog # Torn => proc[p].pub \in DOMAIN Entries)
  BY <1>1 DEF KeysAt, CatalogAt
<1>3. proc' \in [Procs -> Memory] /\ proc'[p].at = "idle" /\ proc'[p].cmd = "none"
  BY <1>1, EndsDoes DEF Becomes, Outcomes
<1>4. Typed'
  BY <1>1, <1>3 DEF Typed, Files
<1>5. SigningKeysKept'
  BY <1>1, <1>2 DEF IInv, SigningKeysKept, Files
<1>6. HalvesArchived'
  BY <1>1, <1>2, KeyStoreConstants DEF HalvesArchived, Files
<1>7. SigningKeysCatalogued'
  BY <1>1, <1>2 DEF IInv, SigningKeysCatalogued, Entries
<1>8. KeysAt(p)' /\ CatalogAt(p)'
  BY <1>3 DEF KeysAt, CatalogAt
<1> QED
  BY <1>4, <1>5, <1>6, <1>7, <1>8, Closes

LEMMA ShownKeeps ==
    ASSUME OneAtATime, IInv, NEW p \in Procs, Shown(p)
    PROVE  IInv'
BY EndKeeps DEF Shown, Outcomes

(* Only an empty catalog is seeded, and then no catalogued key has signed. *)
LEMMA SeedStartKeeps ==
    ASSUME OneAtATime, IInv, NEW p \in Procs, SeedStart(p)
    PROVE  IInv'
<1> DEFINE stage == IF pub = None THEN "look" ELSE "seedSave"
           c == Empty
<1>1. UNCHANGED <<Files, catalog, made, signed>> /\ Typed /\ catalog \in {None, Empty}
  BY DEF SeedStart, IInv
<1>2. proc' = [proc EXCEPT ![p] = [Idle("nothing") EXCEPT !.at = stage, !.cmd = "seed", !.pub = pub]]
  BY DEF SeedStart
<1>3. /\ stage \in Stages /\ pub \in KeyFile /\ c \in Catalogs /\ c = Empty /\ "seed" \in AllCommands
      /\ (stage = "seedSave" => pub \in Keys) /\ stage \in {"look", "seedSave"}
  BY <1>1, EmptyIsCatalog DEF Stages, Typed, KeyFile, AllCommands
<1>4. catalog # Torn /\ DOMAIN Entries = {}
  BY <1>1, EmptyIsCatalog, KeyStoreConstants DEF Entries
<1>5. \A s \in signed : ~s.listed
  BY <1>4 DEF IInv, SigningKeysCatalogued
<1> HIDE DEF stage, c
<1>6. proc' \in [Procs -> Memory] /\ Becomes(p, stage, "seed", None, pub, 0, c)
  BY <1>1, <1>2, <1>3, StartsDoes
<1>7. proc'[p].at = stage /\ proc'[p].cmd = "seed" /\ proc'[p].pub = pub
  BY <1>6 DEF Becomes
<1>8. KeysAt(p)'
  BY <1>3, <1>7 DEF KeysAt
<1>9. CatalogAt(p)'
  <2>1. Entries' = Entries /\ catalog' = catalog /\ \A s \in signed' : ~s.listed
    BY <1>1, <1>5 DEF Entries
  <2> QED
    BY <1>3, <1>4, <1>7, <2>1 DEF CatalogAt
<1> QED
  BY <1>1, <1>6, <1>8, <1>9, QuietKeeps DEF Typed

LEMMA SeedSaveKeeps ==
    ASSUME OneAtATime, IInv, NEW p \in Procs, SeedSave(p)
    PROVE  IInv'
<1> DEFINE c == RecordActive(Empty, proc[p].pub)
<1>1. /\ UNCHANGED <<Files, made, signed>> /\ Typed /\ catalog' = c
      /\ proc[p].at = "seedSave" /\ KeysAt(p) /\ CatalogAt(p) /\ Ends(p, "seeded")
  BY DEF SeedSave, At, IInv
<1>2. (\A s \in signed : ~s.listed) /\ proc[p].pub \in Keys
  BY <1>1 DEF KeysAt, CatalogAt
<1>3. c \in Catalogs
  BY <1>2, CatalogSteps, EmptyIsCatalog
<1>4. proc' \in [Procs -> Memory] /\ proc'[p].at = "idle" /\ proc'[p].cmd = "none"
  BY <1>1, EndsDoes DEF Becomes, Outcomes
<1>5. KeysAt(p)' /\ CatalogAt(p)'
  BY <1>4 DEF KeysAt, CatalogAt
<1> HIDE DEF c
<1> QED
  BY <1>1, <1>2, <1>3, <1>4, <1>5, SaveKeeps

---------------------------------------------------------------------------
(* Rotation. *)

LEMMA RotateStartKeeps ==
    ASSUME OneAtATime, IInv, NEW p \in Procs, RotateStart(p)
    PROVE  IInv'
<1> DEFINE k == None
           c == Entries
<1>1. UNCHANGED <<Files, catalog, made, signed>> /\ Typed /\ catalog # Torn
  BY DEF RotateStart, IInv
<1>2. /\ k \in KeyFile /\ k = None /\ c \in Catalogs /\ c = Entries
      /\ "rotateLook" \in Stages /\ "rotate" \in AllCommands
  BY <1>1, EntriesTyped DEF KeyFile, Stages, AllCommands
<1>3. proc' = [proc EXCEPT ![p] = [Idle("nothing") EXCEPT !.at = "rotateLook", !.cmd = "rotate",
                                                          !.cat = c]]
  BY DEF RotateStart
<1> HIDE DEF k, c
<1>4. proc' \in [Procs -> Memory] /\ Becomes(p, "rotateLook", "rotate", None, k, 0, c)
  BY <1>1, <1>2, <1>3, StartsDoes
<1>5. proc'[p].at = "rotateLook" /\ proc'[p].cmd = "rotate" /\ proc'[p].cat = c
  BY <1>4 DEF Becomes
<1>6. KeysAt(p)'
  BY <1>5 DEF KeysAt
<1>7. CatalogAt(p)'
  <2>1. Entries' = Entries /\ catalog' = catalog
    BY <1>1 DEF Entries
  <2> QED
    BY <1>1, <1>2, <1>5, <2>1 DEF CatalogAt, Covers
<1> QED
  BY <1>1, <1>4, <1>6, <1>7, QuietKeeps DEF Typed

(* What a rotation is about to save covers the catalog while nothing is    *)
(* saved.                                                                  *)
LEMMA StillCovers ==
    ASSUME NEW p \in Procs, Covers(proc[p].cat), catalog' = catalog, proc'[p].cat = proc[p].cat
    PROVE  Covers(proc[p].cat)'
<1>1. Entries' = Entries
  BY DEF Entries
<1> QED
  BY <1>1 DEF Covers

LEMMA RotateLookKeeps ==
    ASSUME OneAtATime, IInv, NEW p \in Procs, RotateLook(p)
    PROVE  IInv'
<1>1. /\ UNCHANGED <<Files, catalog, signed>> /\ Typed
      /\ proc[p].at = "rotateLook" /\ KeysAt(p) /\ CatalogAt(p)
  BY DEF RotateLook, At, IInv
<1>2. Covers(proc[p].cat) /\ proc[p].cat \in Catalogs /\ proc[p].cmd \in AllCommands \cup {"none"}
  BY <1>1 DEF CatalogAt, Typed, Memory
<1>3. CASE priv = None \/ pub = None
  <2>1. Generates(p, "rotatePriv") /\ "rotatePriv" \in Stages
    BY <1>3 DEF RotateLook, Stages
  <2>2. /\ proc' \in [Procs -> Memory] /\ made' \in 0..MaxKeys
        /\ proc'[p].at = "rotatePriv" /\ proc'[p].cmd = proc[p].cmd
        /\ proc'[p].new \in Keys /\ proc'[p].cat = proc[p].cat
    BY <1>1, <2>1, GeneratesDoes DEF Becomes
  <2>3. AllArchived'
    BY <1>1, <1>3 DEF IInv, HalvesArchived, AllArchived, Files
  <2>4. Covers(proc[p].cat)'
    BY <1>1, <1>2, <2>2, StillCovers
  <2>5. KeysAt(p)'
    BY <2>2, <2>3 DEF KeysAt
  <2>6. CatalogAt(p)'
    BY <1>1, <2>2, <2>4 DEF CatalogAt, Entries
  <2> QED
    BY <1>1, <2>2, <2>5, <2>6, QuietKeeps
<1>4. CASE Ends(p, "failed") /\ made' = made
  BY <1>1, <1>4, EndKeeps DEF Outcomes
<1>5. CASE /\ pub # None /\ pub \notin DOMAIN archived \cup archivedPub
           /\ made' = made
           /\ proc' = [proc EXCEPT ![p].at = "archivePriv", ![p].pub = pub,
                                   ![p].cat = MarkRotated(RecordActive(proc[p].cat, pub), pub)]
  <2> DEFINE d == RecordActive(proc[p].cat, pub)
             c == MarkRotated(d, pub)
  <2>1. pub \in Keys /\ pub \in KeyFile /\ "archivePriv" \in Stages
    BY <1>1, <1>5 DEF Typed, KeyFile, Stages
  <2>2. /\ d \in Catalogs /\ DOMAIN d = DOMAIN proc[p].cat \cup {pub}
        /\ \A g \in DOMAIN proc[p].cat : d[g] = proc[p].cat[g]
    BY <1>2, <2>1, CatalogSteps
  <2>a. proc' = [proc EXCEPT ![p].at = "archivePriv", ![p].pub = pub, ![p].cat = c]
    BY <1>5
  <2>3. /\ c \in Catalogs /\ DOMAIN c = DOMAIN d
        /\ \A g \in DOMAIN d : d[g] = "revoked" => c[g] = "revoked"
    <3> HIDE DEF d
    <3> QED
      BY <2>1, <2>2, CatalogSteps
  <2> HIDE DEF d, c
  <2>4. /\ proc' \in [Procs -> Memory]
        /\ Becomes(p, "archivePriv", proc[p].cmd, proc[p].priv, pub, proc[p].new, c)
    BY <1>1, <2>1, <2>3, <2>a, ReadsBoth
  <2>5. /\ proc'[p].at = "archivePriv" /\ proc'[p].cmd = proc[p].cmd
        /\ proc'[p].pub = pub /\ proc'[p].cat = c
    BY <2>4 DEF Becomes
  <2>6. Covers(proc[p].cat)'
    <3>1. Covers(c)
      BY <1>2, <2>2, <2>3 DEF Covers
    <3>2. Entries' = Entries /\ catalog' = catalog
      BY <1>1 DEF Entries
    <3> QED
      BY <2>5, <3>1, <3>2 DEF Covers
  <2>7. KeysAt(p)'
    BY <1>1, <1>5, <2>1, <2>5 DEF KeysAt, Files
  <2>8. CatalogAt(p)'
    BY <1>1, <2>5, <2>6 DEF CatalogAt, Entries
  <2> QED
    BY <1>1, <1>5, <2>4, <2>7, <2>8, QuietKeeps DEF Typed
<1> QED
  BY <1>3, <1>4, <1>5 DEF RotateLook

(* What is common to the steps of a rotation that write the key files      *)
(* once every signing key is archived.                                     *)
LEMMA FilesKeep ==
    ASSUME OneAtATime, IInv, NEW p \in Procs, AllArchived',
           UNCHANGED <<catalog, signed>>,
           priv' \in KeyFile, pub' \in KeyFile, made' \in 0..MaxKeys,
           proc' \in [Procs -> Memory], KeysAt(p)', CatalogAt(p)'
    PROVE  IInv'
<1>1. Typed'
  BY DEF IInv, Typed
<1>2. SigningKeysKept' /\ HalvesArchived'
  BY DEF SigningKeysKept, HalvesArchived, AllArchived
<1>3. SigningKeysCatalogued'
  BY DEF IInv, SigningKeysCatalogued, Entries
<1> QED
  BY <1>1, <1>2, <1>3, Closes

LEMMA ArchivePrivKeeps ==
    ASSUME OneAtATime, IInv, NEW p \in Procs, ArchivePriv(p)
    PROVE  IInv'
<1>1. /\ UNCHANGED <<pub, archivedPub, catalog, made, signed>> /\ Typed /\ SigningKeysKept
      /\ proc[p].at = "archivePriv" /\ KeysAt(p) /\ CatalogAt(p)
  BY DEF ArchivePriv, At, IInv
<1>2. CASE Ends(p, "failed") /\ UNCHANGED <<priv, archived>>
  BY <1>1, <1>2, EndKeeps DEF Outcomes, Files
<1>3. CASE /\ priv' = None
           /\ archived' = [g \in DOMAIN archived \cup {proc[p].pub} |->
                             IF g = proc[p].pub THEN priv ELSE archived[g]]
           /\ Goes(p, "archivePub")
  <2>1. /\ proc[p].pub \in Keys /\ proc[p].pub \notin DOMAIN archived
        /\ Covers(proc[p].cat) /\ "archivePub" \in Stages
    BY <1>1 DEF KeysAt, CatalogAt, Stages
  <2>2. /\ proc' \in [Procs -> Memory] /\ proc'[p].at = "archivePub" /\ proc'[p].cmd = proc[p].cmd
        /\ proc'[p].pub = proc[p].pub /\ proc'[p].cat = proc[p].cat
    BY <1>1, <1>3, <2>1, GoesDoes DEF Becomes
  <2>3. AllArchived'
    <3> SUFFICES ASSUME NEW s \in signed
                 PROVE  \E f \in DOMAIN archived' : archived'[f] = s.priv
      BY <1>1 DEF AllArchived
    <3>1. CASE s.priv = priv
      BY <1>3, <3>1
    <3>2. CASE \E f \in DOMAIN archived : archived[f] = s.priv
      BY <1>3, <2>1, <3>2
    <3> QED
      BY <1>1, <3>1, <3>2 DEF SigningKeysKept
  <2>4. Covers(proc[p].cat)'
    BY <1>1, <2>1, <2>2, StillCovers
  <2>5. KeysAt(p)'
    BY <2>1, <2>2, <2>3 DEF KeysAt
  <2>6. CatalogAt(p)'
    BY <1>1, <2>2, <2>4 DEF CatalogAt, Entries
  <2>7. priv' \in KeyFile /\ pub' \in KeyFile /\ made' \in 0..MaxKeys
    BY <1>1, <1>3 DEF Typed, KeyFile
  <2> QED
    BY <1>1, <2>2, <2>3, <2>5, <2>6, <2>7, FilesKeep
<1> QED
  BY <1>2, <1>3 DEF ArchivePriv

LEMMA ArchivePubKeeps ==
    ASSUME OneAtATime, IInv, NEW p \in Procs, ArchivePub(p)
    PROVE  IInv'
<1>1. /\ UNCHANGED <<priv, archived, catalog, signed>> /\ Typed
      /\ proc[p].at = "archivePub" /\ KeysAt(p) /\ CatalogAt(p)
  BY DEF ArchivePub, At, IInv
<1>2. CASE Ends(p, "failed") /\ UNCHANGED <<pub, archivedPub, made>>
  BY <1>1, <1>2, EndKeeps DEF Outcomes, Files
<1>3. CASE pub' = None /\ Generates(p, "rotatePriv")
  <2>1. AllArchived /\ Covers(proc[p].cat) /\ "rotatePriv" \in Stages
    BY <1>1 DEF KeysAt, CatalogAt, Stages
  <2>2. /\ proc' \in [Procs -> Memory] /\ made' \in 0..MaxKeys
        /\ proc'[p].at = "rotatePriv" /\ proc'[p].cmd = proc[p].cmd
        /\ proc'[p].new \in Keys /\ proc'[p].cat = proc[p].cat
    BY <1>1, <1>3, <2>1, GeneratesDoes DEF Becomes
  <2>3. AllArchived'
    BY <1>1, <2>1 DEF AllArchived
  <2>4. Covers(proc[p].cat)'
    BY <1>1, <2>1, <2>2, StillCovers
  <2>5. KeysAt(p)'
    BY <2>2, <2>3 DEF KeysAt
  <2>6. CatalogAt(p)'
    BY <1>1, <2>2, <2>4 DEF CatalogAt, Entries
  <2>7. priv' \in KeyFile /\ pub' \in KeyFile
    BY <1>1, <1>3 DEF Typed, KeyFile
  <2> QED
    BY <1>1, <2>2, <2>3, <2>5, <2>6, <2>7, FilesKeep
<1> QED
  BY <1>2, <1>3 DEF ArchivePub

LEMMA RotatePrivKeeps ==
    ASSUME OneAtATime, IInv, NEW p \in Procs, RotatePriv(p)
    PROVE  IInv'
<1>1. /\ UNCHANGED <<pub, archived, archivedPub, catalog, made, signed>> /\ Typed
      /\ proc[p].at = "rotatePriv" /\ KeysAt(p) /\ CatalogAt(p)
      /\ priv' = proc[p].new /\ Goes(p, "rotatePub")
  BY DEF RotatePriv, At, IInv
<1>2. proc[p].new \in Keys /\ AllArchived /\ Covers(proc[p].cat) /\ "rotatePub" \in Stages
  BY <1>1 DEF KeysAt, CatalogAt, Stages
<1>3. /\ proc' \in [Procs -> Memory] /\ proc'[p].at = "rotatePub" /\ proc'[p].cmd = proc[p].cmd
      /\ proc'[p].new = proc[p].new /\ proc'[p].cat = proc[p].cat
  BY <1>1, <1>2, GoesDoes DEF Becomes
<1>4. AllArchived'
  BY <1>1, <1>2 DEF AllArchived
<1>5. Covers(proc[p].cat)'
  BY <1>1, <1>2, <1>3, StillCovers
<1>6. KeysAt(p)'
  BY <1>2, <1>3, <1>4 DEF KeysAt
<1>7. CatalogAt(p)'
  BY <1>1, <1>3, <1>5 DEF CatalogAt, Entries
<1>8. priv' \in KeyFile /\ pub' \in KeyFile /\ made' \in 0..MaxKeys
  BY <1>1, <1>2 DEF Typed, KeyFile
<1> QED
  BY <1>1, <1>3, <1>4, <1>6, <1>7, <1>8, FilesKeep

LEMMA RotatePubKeeps ==
    ASSUME OneAtATime, IInv, NEW p \in Procs, RotatePub(p)
    PROVE  IInv'
<1>1. /\ UNCHANGED <<priv, archived, archivedPub, catalog, made, signed>> /\ Typed
      /\ proc[p].at = "rotatePub" /\ KeysAt(p) /\ CatalogAt(p)
      /\ pub' = proc[p].new /\ Goes(p, "rotateSave")
  BY DEF RotatePub, At, IInv
<1>2. proc[p].new \in Keys /\ AllArchived /\ Covers(proc[p].cat) /\ "rotateSave" \in Stages
  BY <1>1 DEF KeysAt, CatalogAt, Stages
<1>3. /\ proc' \in [Procs -> Memory] /\ proc'[p].at = "rotateSave" /\ proc'[p].cmd = proc[p].cmd
      /\ proc'[p].new = proc[p].new /\ proc'[p].cat = proc[p].cat
  BY <1>1, <1>2, GoesDoes DEF Becomes
<1>4. AllArchived'
  BY <1>1, <1>2 DEF AllArchived
<1>5. Covers(proc[p].cat)'
  BY <1>1, <1>2, <1>3, StillCovers
<1>6. KeysAt(p)'
  BY <1>2, <1>3 DEF KeysAt
<1>7. CatalogAt(p)'
  BY <1>1, <1>3, <1>5 DEF CatalogAt, Entries
<1>8. priv' \in KeyFile /\ pub' \in KeyFile /\ made' \in 0..MaxKeys
  BY <1>1, <1>2 DEF Typed, KeyFile
<1> QED
  BY <1>1, <1>3, <1>4, <1>6, <1>7, <1>8, FilesKeep

(* A command that ends by saving.                                          *)
LEMMA EndSaveKeeps ==
    ASSUME OneAtATime, IInv, NEW p \in Procs, NEW c \in Catalogs, catalog' = c,
           \A s \in signed : s.listed => s.pub \in DOMAIN c,
           UNCHANGED <<Files, made, signed>>, NEW last \in Outcomes, Ends(p, last)
    PROVE  IInv'
<1>1. proc' \in [Procs -> Memory] /\ proc'[p].at = "idle" /\ proc'[p].cmd = "none"
  BY EndsDoes DEF IInv, Becomes
<1>2. KeysAt(p)' /\ CatalogAt(p)'
  BY <1>1 DEF KeysAt, CatalogAt
<1> QED
  BY <1>1, <1>2, SaveKeeps

LEMMA RotateSaveKeeps ==
    ASSUME OneAtATime, IInv, NEW p \in Procs, RotateSave(p)
    PROVE  IInv'
<1> DEFINE c == RecordActive(proc[p].cat, proc[p].new)
<1>1. /\ UNCHANGED <<Files, made, signed>> /\ Typed /\ catalog' = c
      /\ proc[p].at = "rotateSave" /\ KeysAt(p) /\ CatalogAt(p) /\ Ends(p, "rotated")
  BY DEF RotateSave, At, IInv
<1>2. proc[p].cat \in Catalogs /\ proc[p].new \in Keys /\ Covers(proc[p].cat) /\ "rotated" \in Outcomes
  BY <1>1 DEF Typed, Memory, KeysAt, CatalogAt, Outcomes
<1>3. c \in Catalogs /\ DOMAIN c = DOMAIN proc[p].cat \cup {proc[p].new}
  BY <1>2, CatalogSteps
<1>4. \A s \in signed : s.listed => s.pub \in DOMAIN c
  BY <1>2, <1>3, CoversSigned
<1> HIDE DEF c
<1> QED
  BY <1>1, <1>2, <1>3, <1>4, EndSaveKeeps

---------------------------------------------------------------------------
(* Revocation and death. *)

LEMMA RevokeStartKeeps ==
    ASSUME OneAtATime, IInv, NEW p \in Procs, RevokeStart(p)
    PROVE  IInv'
<1>1. UNCHANGED <<Files, catalog, made, signed>> /\ Typed /\ catalog # Torn
  BY DEF RevokeStart, IInv
<1>2. PICK f \in DOMAIN Entries :
        proc' = [proc EXCEPT ![p] = [Idle("nothing") EXCEPT !.at = "revokeSave", !.cmd = "revoke",
                                                            !.cat = MarkRevoked(Entries, f)]]
  BY DEF RevokeStart
<1> DEFINE k == None
           c == MarkRevoked(Entries, f)
<1>3. Entries \in Catalogs /\ f \in Keys
  BY <1>1, EntriesTyped, CatalogIsFunction
<1>4. /\ c \in Catalogs /\ DOMAIN c = DOMAIN Entries
      /\ \A g \in DOMAIN Entries : Entries[g] = "revoked" => c[g] = "revoked"
  BY <1>3, CatalogSteps
<1>5. Covers(c)
  BY <1>1, <1>4 DEF Covers
<1>6. k \in KeyFile /\ k = None /\ "revokeSave" \in Stages /\ "revoke" \in AllCommands
  BY DEF KeyFile, Stages, AllCommands
<1>7. proc' = [proc EXCEPT ![p] = [Idle("nothing") EXCEPT !.at = "revokeSave", !.cmd = "revoke",
                                                          !.cat = c]]
  BY <1>2
<1> HIDE DEF k, c
<1>8. proc' \in [Procs -> Memory] /\ Becomes(p, "revokeSave", "revoke", None, k, 0, c)
  BY <1>1, <1>4, <1>6, <1>7, StartsDoes
<1>9. proc'[p].at = "revokeSave" /\ proc'[p].cmd = "revoke" /\ proc'[p].cat = c
  BY <1>8 DEF Becomes
<1>10. Covers(proc[p].cat)'
  <2>1. Entries' = Entries /\ catalog' = catalog
    BY <1>1 DEF Entries
  <2> QED
    BY <1>5, <1>9, <2>1 DEF Covers
<1>11. KeysAt(p)' /\ CatalogAt(p)'
  BY <1>9, <1>10 DEF KeysAt, CatalogAt
<1> QED
  BY <1>1, <1>8, <1>11, QuietKeeps DEF Typed

LEMMA RevokeSaveKeeps ==
    ASSUME OneAtATime, IInv, NEW p \in Procs, RevokeSave(p)
    PROVE  IInv'
<1> DEFINE c == proc[p].cat
<1>1. /\ UNCHANGED <<Files, made, signed>> /\ Typed /\ catalog' = c
      /\ proc[p].at = "revokeSave" /\ CatalogAt(p) /\ Ends(p, "revoked")
  BY DEF RevokeSave, At, IInv
<1>2. c \in Catalogs /\ Covers(c) /\ "revoked" \in Outcomes
  BY <1>1 DEF Typed, Memory, CatalogAt, Outcomes
<1>3. \A s \in signed : s.listed => s.pub \in DOMAIN c
  BY <1>2, CoversSigned
<1> HIDE DEF c
<1> QED
  BY <1>1, <1>2, <1>3, EndSaveKeeps

LEMMA CrashKeeps ==
    ASSUME OneAtATime, IInv, NEW p \in Procs, Crash(p)
    PROVE  IInv'
<1>1. UNCHANGED <<Files, made, signed>> /\ Ends(p, "crashed") /\ catalog' \in {catalog, Torn}
  BY DEF Crash
<1>2. "crashed" \in Outcomes
  BY DEF Outcomes
<1>3. CASE catalog' = catalog
  BY <1>1, <1>2, <1>3, EndKeeps
<1>4. CASE catalog' = Torn
  <2>1. proc' \in [Procs -> Memory] /\ proc'[p].at = "idle" /\ proc'[p].cmd = "none"
    BY <1>1, <1>2, EndsDoes DEF IInv, Becomes
  <2>2. KeysAt(p)' /\ CatalogAt(p)'
    BY <2>1 DEF KeysAt, CatalogAt
  <2>3. Typed'
    BY <1>1, <1>4, <2>1 DEF IInv, Typed, Files
  <2>4. SigningKeysKept' /\ HalvesArchived'
    BY <1>1 DEF IInv, Files, SigningKeysKept, HalvesArchived, AllArchived
  <2>5. SigningKeysCatalogued'
    BY <1>4 DEF SigningKeysCatalogued
  <2> QED
    BY <2>2, <2>3, <2>4, <2>5, Closes
<1> QED
  BY <1>1, <1>3, <1>4

---------------------------------------------------------------------------
(* The theorems. *)

LEMMA NextKeeps ==
    ASSUME OneAtATime, IInv, [Next]_vars
    PROVE  IInv'
<1>1. ASSUME NEW p \in Procs, LoadStep(p) PROVE IInv'
  BY <1>1, StartKeeps, LookKeeps, ReadKeeps, GenPrivKeeps, GenPubKeeps, CatalogueKeeps,
     CatalogueSaveKeeps, CatalogueFailsKeeps, SignKeeps, ShownKeeps, SeedStartKeeps, SeedSaveKeeps
     DEF LoadStep
<1>2. ASSUME NEW p \in Procs, RotateStep(p) PROVE IInv'
  BY <1>2, RotateStartKeeps, RotateLookKeeps, ArchivePrivKeeps, ArchivePubKeeps,
     RotatePrivKeeps, RotatePubKeeps, RotateSaveKeeps
     DEF RotateStep
<1>3. ASSUME NEW p \in Procs, RevokeStart(p) \/ RevokeSave(p) \/ Crash(p) PROVE IInv'
  BY <1>3, RevokeStartKeeps, RevokeSaveKeeps, CrashKeeps
<1>4. ASSUME UNCHANGED vars PROVE IInv'
  <2>1. /\ UNCHANGED <<priv, pub, archived, archivedPub, catalog, proc, made, signed>>
        /\ Entries' = Entries
    BY <1>4 DEF vars, Entries
  <2>2. Typed' /\ SigningKeysKept' /\ HalvesArchived' /\ SigningKeysCatalogued'
    BY <2>1 DEF IInv, Typed, SigningKeysKept, HalvesArchived, AllArchived, SigningKeysCatalogued
  <2>3. ASSUME NEW p \in Procs PROVE KeysAt(p)' /\ CatalogAt(p)'
    <3>1. KeysAt(p) /\ CatalogAt(p)
      BY DEF IInv
    <3>2. KeysAt(p)'
      BY <2>1, <3>1 DEF KeysAt, AllArchived
    <3>3. CatalogAt(p)'
      BY <2>1, <3>1 DEF CatalogAt, Covers
    <3> QED
      BY <3>2, <3>3
  <2> QED
    BY <2>2, <2>3 DEF IInv
<1> QED
  BY <1>1, <1>2, <1>3, <1>4 DEF Next

(* The invariant holds of commands run one after the other, deaths         *)
(* anywhere and a torn catalog included.                                   *)
THEOREM Invariance == ASSUME OneAtATime PROVE Spec => []IInv
BY InitKeeps, NextKeeps, PTL DEF Spec

(* No private key that has signed is lost: it is signing.key or archived,  *)
(* wherever a rotation dies.                                               *)
THEOREM NoSigningKeyLost == ASSUME OneAtATime PROVE Spec => []SigningKeysKept
<1>1. IInv => SigningKeysKept
  BY DEF IInv
<1> QED
  BY <1>1, Invariance, PTL

(* A key that has signed in a command whose cataloguing did not fail is    *)
(* one `depose key revoke` finds in the catalog ever after, unless the     *)
(* catalog is torn.                                                        *)
THEOREM EverySigningKeyRevocable == ASSUME OneAtATime PROVE Spec => []SigningKeysCatalogued
<1>1. IInv => SigningKeysCatalogued
  BY DEF IInv
<1> QED
  BY <1>1, Invariance, PTL

(* What a save of a catalog that covers the saved one keeps.               *)
LEMMA CoveredIsKept ==
    ASSUME NEW c \in Catalogs, Covers(c), NEW f \in DOMAIN Entries, Entries[f] = "revoked",
           catalog' = c \/ \E k \in Keys : catalog' = RecordActive(c, k)
    PROVE  f \in DOMAIN catalog' /\ catalog'[f] = "revoked"
<1>1. f \in DOMAIN c /\ c[f] = "revoked"
  BY DEF Covers
<1>2. ASSUME NEW k \in Keys, catalog' = RecordActive(c, k)
      PROVE  f \in DOMAIN catalog' /\ catalog'[f] = "revoked"
  BY <1>1, <1>2, CatalogSteps
<1> QED
  BY <1>1, <1>2

(* No command that does not overlap another takes a saved revocation back. *)
THEOREM RevocationStands == ASSUME OneAtATime PROVE Spec => RevocationIsFinal
<1> DEFINE Stands == \A f \in Pairs :
             (catalog \notin {None, Torn} /\ f \in DOMAIN catalog /\ catalog[f] = "revoked"
               /\ catalog' # Torn)
             => f \in DOMAIN catalog' /\ catalog'[f] = "revoked"
<1>1. ASSUME IInv, [Next]_vars PROVE [Stands]_vars
  <2> SUFFICES ASSUME NEW f \in Pairs, catalog \notin {None, Torn}, f \in DOMAIN catalog,
                      catalog[f] = "revoked", catalog' # Torn, Next
               PROVE  f \in DOMAIN catalog' /\ catalog'[f] = "revoked"
    BY <1>1
  <2>1. catalog = Entries /\ Typed
    BY <1>1 DEF Entries, IInv
  <2>2. PICK p \in Procs : \/ LoadStep(p) \/ RotateStep(p)
                           \/ RevokeStart(p) \/ RevokeSave(p) \/ Crash(p)
    BY DEF Next
  <2>3. KeysAt(p) /\ CatalogAt(p) /\ proc[p].cat \in Catalogs
    BY <1>1, <2>1 DEF IInv, Typed, Memory
  <2>4. CASE CatalogueSave(p) \/ RevokeSave(p)
    <3>1. catalog' = proc[p].cat /\ Covers(proc[p].cat)
      BY <2>3, <2>4 DEF CatalogueSave, RevokeSave, At, CatalogAt
    <3> QED
      BY <2>1, <2>3, <3>1, CoveredIsKept
  <2>5. CASE RotateSave(p)
    <3>1. /\ catalog' = RecordActive(proc[p].cat, proc[p].new) /\ proc[p].new \in Keys
          /\ Covers(proc[p].cat)
      BY <2>3, <2>5 DEF RotateSave, At, CatalogAt, KeysAt
    <3> QED
      BY <2>1, <2>3, <3>1, CoveredIsKept
  <2>6. CASE SeedSave(p)
    BY <2>1, <2>3, <2>6 DEF SeedSave, At, CatalogAt
  <2>7. CASE catalog' = catalog \/ CatalogueFails(p)
    BY <2>7 DEF CatalogueFails
  <2> QED
    BY <2>2, <2>4, <2>5, <2>6, <2>7
       DEF LoadStep, RotateStep, SignStart, ShowStart, Look, ReadPriv, ReadPub, GenPriv, GenPub,
           Catalogue, Sign, Shown, SeedStart, RotateStart, RotateLook, ArchivePriv, ArchivePub,
           RotatePriv, RotatePub, RevokeStart, Crash
<1> QED
  BY <1>1, Invariance, PTL DEF Spec, RevocationIsFinal


---------------------------------------------------------------------------
(* The key in a bundle.                                                    *)
(*                                                                         *)
(* A pair that does not match comes of generating over signing.pub alone,  *)
(* interrupted; and signing.pub is alone only where a rotation died.  So   *)
(* it takes a rotation and two deaths.                                     *)

FewDeaths == MaxCrashes <= 1 \/ "rotate" \notin Commands

(* A rotation has died, and no other command will.                         *)
Spent == "rotate" \in Commands /\ crashes = MaxCrashes

Half == priv = None \/ pub = None
Lone == priv = None /\ pub # None

MatchAt(p) ==
    LET my == proc[p]
    IN  /\ my.at \in {"genPub", "rotatePub"} => priv = my.new /\ (pub # None => Spent)
        /\ my.at \in {"genPriv", "rotatePriv"} => Half
        /\ my.at \notin {"genPub", "rotatePub"} => Half \/ priv = pub
        /\ my.at \notin {"genPub", "rotatePub", "archivePub"} => (Lone => Spent)
        /\ my.at \in {"rotateLook", "archivePriv", "archivePub"} => "rotate" \in Commands

MatchInv ==
    /\ crashes \in Nat
    /\ SignatureMatchesKey
    /\ \A p \in Procs : MatchAt(p)

LEMMA MatchInit == Init => MatchInv
BY DEF Init, MatchInv, SignatureMatchesKey, MatchAt, Idle, Half, Lone

(* A step that leaves the key files alone and generates nothing over them. *)
LEMMA QuietMatches ==
    ASSUME OneAtATime, MatchInv, NEW p \in Procs,
           UNCHANGED <<priv, pub, signed, crashes>>,
           proc[p].at \notin {"genPub", "rotatePub", "archivePub"},
           proc'[p].at \notin {"genPub", "rotatePub", "archivePub"},
           proc'[p].at \in {"genPriv", "rotatePriv"} => Half,
           proc'[p].at \in {"rotateLook", "archivePriv"} => "rotate" \in Commands
    PROVE  MatchInv'
<1>1. Half' = Half /\ Lone' = Lone /\ Spent' = Spent
  BY DEF Half, Lone, Spent
<1>2. MatchAt(p)'
  BY <1>1 DEF MatchInv, MatchAt
<1> QED
  BY <1>2 DEF OneAtATime, MatchInv, SignatureMatchesKey

LEMMA LoadMatches ==
    ASSUME OneAtATime, IInv, MatchInv, NEW p \in Procs,
           \/ SignStart(p) \/ ShowStart(p) \/ Look(p) \/ ReadPriv(p) \/ ReadPub(p)
           \/ Catalogue(p) \/ CatalogueSave(p) \/ CatalogueFails(p)
           \/ Shown(p) \/ SeedStart(p) \/ SeedSave(p)
    PROVE  MatchInv'
<1>1. proc \in [Procs -> Memory] /\ UNCHANGED <<priv, pub, signed, crashes>>
  BY DEF IInv, Typed, SignStart, ShowStart, Look, ReadPriv, ReadPub, Catalogue,
         CatalogueSave, CatalogueFails, Shown, SeedStart, SeedSave, Files
<1>2. CASE Look(p)
  <2>1. proc[p].at = "look" /\ proc'[p].at \in {"readPriv", "genPriv"}
    BY <1>1, <1>2 DEF Look, At, Goes, Generates, Memory
  <2>2. proc'[p].at = "genPriv" => Half
    BY <1>1, <1>2 DEF Look, At, Goes, Generates, Memory, Half
  <2> QED
    BY <1>1, <2>1, <2>2, QuietMatches
<1>3. CASE SignStart(p) \/ ShowStart(p) \/ SeedStart(p)
  <2>1. proc[p].at = "idle" /\ proc'[p].at \in {"look", "seedSave"}
    BY <1>1, <1>3 DEF SignStart, ShowStart, SeedStart, Starts, At, Idle
  <2> QED
    BY <1>1, <2>1, QuietMatches
<1>4. CASE ReadPriv(p) \/ ReadPub(p)
  <2>1. proc[p].at \in {"readPriv", "readPub"} /\ proc'[p].at \in {"idle", "readPub", "catalogue"}
    BY <1>1, <1>4 DEF ReadPriv, ReadPub, Ends, At, Idle, Memory
  <2> QED
    BY <1>1, <2>1, QuietMatches
<1>5. CASE Catalogue(p) \/ CatalogueSave(p) \/ CatalogueFails(p)
  <2>1. /\ proc[p].at \in {"catalogue", "catalogueSave"}
        /\ proc'[p].at \in {"catalogueSave", "sign", "seedSave", "shown"}
    BY <1>1, <1>5 DEF Catalogue, CatalogueSave, CatalogueFails, Catalogued, Loaded, At, Memory
  <2> QED
    BY <1>1, <2>1, QuietMatches
<1>6. CASE Shown(p) \/ SeedSave(p)
  <2>1. proc[p].at \in {"shown", "seedSave"} /\ proc'[p].at = "idle"
    BY <1>1, <1>6 DEF Shown, SeedSave, Ends, At, Idle
  <2> QED
    BY <1>1, <2>1, QuietMatches
<1> QED
  BY <1>2, <1>3, <1>4, <1>5, <1>6

(* Signing is with the pair in the key files.                              *)
LEMMA SignMatches ==
    ASSUME OneAtATime, IInv, MatchInv, NEW p \in Procs, Sign(p)
    PROVE  MatchInv'
<1>1. /\ proc \in [Procs -> Memory] /\ proc[p].at = "sign" /\ proc'[p].at = "idle"
      /\ UNCHANGED <<priv, pub, crashes>>
      /\ signed' = signed \cup {[priv |-> proc[p].priv, pub |-> proc[p].pub,
                                listed |-> proc[p].listed]}
  BY DEF IInv, Typed, Sign, At, Ends, Idle, Files
<1>2. proc[p].priv = priv /\ proc[p].pub = pub /\ priv \in Keys /\ pub \in Keys
  BY <1>1 DEF IInv, KeysAt
<1>3. priv = pub
  BY <1>1, <1>2, KeyStoreConstants DEF MatchInv, MatchAt, Half
<1>4. SignatureMatchesKey'
  BY <1>1, <1>2, <1>3 DEF MatchInv, SignatureMatchesKey
<1>5. Half' = Half /\ Lone' = Lone /\ Spent' = Spent
  BY <1>1 DEF Half, Lone, Spent
<1>6. MatchAt(p)'
  BY <1>1, <1>5 DEF MatchInv, MatchAt
<1> QED
  BY <1>1, <1>4, <1>6 DEF OneAtATime, MatchInv

(* The private half is written where a half was missing, the public half   *)
(* over no other key, unless no command will die before it is written.     *)
LEMMA WriteMatches ==
    ASSUME OneAtATime, IInv, MatchInv, NEW p \in Procs,
           GenPriv(p) \/ GenPub(p) \/ RotatePriv(p) \/ RotatePub(p)
    PROVE  MatchInv'
<1>1. /\ proc \in [Procs -> Memory] /\ MatchAt(p) /\ UNCHANGED <<signed, crashes>>
      /\ Spent' = Spent
  BY DEF IInv, Typed, MatchInv, GenPriv, GenPub, RotatePriv, RotatePub, Spent
<1>2. CASE GenPriv(p) \/ RotatePriv(p)
  <2>1. /\ proc[p].at \in {"genPriv", "rotatePriv"}
        /\ proc'[p].at \in {"genPub", "rotatePub"} /\ proc'[p].new = proc[p].new
        /\ priv' = proc[p].new /\ pub' = pub
    BY <1>1, <1>2 DEF GenPriv, RotatePriv, At, Goes, Memory
  <2>2. pub # None => Spent
    BY <1>1, <2>1 DEF MatchAt, Half, Lone
  <2>3. MatchAt(p)'
    BY <1>1, <2>1, <2>2 DEF MatchAt
  <2> QED
    BY <1>1, <2>3 DEF OneAtATime, MatchInv, SignatureMatchesKey
<1>3. CASE GenPub(p) \/ RotatePub(p)
  <2>1. /\ proc[p].at \in {"genPub", "rotatePub"} /\ proc'[p].at \in {"catalogue", "rotateSave"}
        /\ priv' = priv /\ pub' = proc[p].new
    BY <1>1, <1>3 DEF GenPub, RotatePub, At, Goes, Memory
  <2>2. priv = proc[p].new /\ proc[p].new \in Keys
    BY <1>1, <2>1 DEF MatchAt, IInv, KeysAt
  <2>3. priv' = pub' /\ ~Lone'
    BY <2>1, <2>2, KeyStoreConstants DEF Lone
  <2>4. MatchAt(p)'
    BY <2>1, <2>3 DEF MatchAt
  <2> QED
    BY <1>1, <2>4 DEF OneAtATime, MatchInv, SignatureMatchesKey
<1> QED
  BY <1>2, <1>3

LEMMA RotateMatches ==
    ASSUME OneAtATime, IInv, MatchInv, NEW p \in Procs,
           RotateStart(p) \/ RotateLook(p) \/ RotateSave(p) \/ ArchivePriv(p) \/ ArchivePub(p)
    PROVE  MatchInv'
<1>1. /\ proc \in [Procs -> Memory] /\ MatchAt(p) /\ UNCHANGED <<signed, crashes>>
      /\ Spent' = Spent
  BY DEF IInv, Typed, MatchInv, RotateStart, RotateLook, RotateSave, ArchivePriv, ArchivePub, Spent
<1>2. CASE RotateStart(p)
  <2>1. /\ proc[p].at = "idle" /\ proc'[p].at = "rotateLook" /\ "rotate" \in Commands
        /\ UNCHANGED <<priv, pub>>
    BY <1>1, <1>2 DEF RotateStart, At, Idle, Files
  <2> QED
    BY <1>1, <2>1, QuietMatches
<1>3. CASE RotateLook(p)
  <2>1. /\ proc[p].at = "rotateLook" /\ proc'[p].at \in {"rotatePriv", "archivePriv", "idle"}
        /\ proc'[p].at = "rotatePriv" => Half
        /\ UNCHANGED <<priv, pub>>
    <3>1. proc[p].at = "rotateLook" /\ UNCHANGED <<priv, pub>>
      BY <1>3 DEF RotateLook, At, Files
    <3>2. CASE Half /\ Generates(p, "rotatePriv")
      BY <1>1, <3>1, <3>2 DEF Generates, Memory
    <3>3. CASE Ends(p, "failed")
      BY <1>1, <3>1, <3>3 DEF Ends, Idle
    <3>4. CASE proc' = [proc EXCEPT ![p].at = "archivePriv", ![p].pub = pub,
                          ![p].cat = MarkRotated(RecordActive(proc[p].cat, pub), pub)]
      BY <1>1, <3>1, <3>4 DEF Memory
    <3> QED
      BY <1>3, <3>1, <3>2, <3>3, <3>4 DEF RotateLook, Half
  <2>2. "rotate" \in Commands
    BY <1>1, <2>1 DEF MatchAt
  <2> QED
    BY <1>1, <2>1, <2>2, QuietMatches
<1>4. CASE RotateSave(p)
  <2>1. proc[p].at = "rotateSave" /\ proc'[p].at = "idle" /\ UNCHANGED <<priv, pub>>
    BY <1>1, <1>4 DEF RotateSave, At, Ends, Idle, Files
  <2> QED
    BY <1>1, <2>1, QuietMatches
<1>5. CASE ArchivePriv(p)
  <2>1. /\ proc[p].at = "archivePriv" /\ pub' = pub
        /\ \/ proc'[p].at = "idle" /\ priv' = priv
           \/ proc'[p].at = "archivePub" /\ priv' = None
    BY <1>1, <1>5 DEF ArchivePriv, At, Ends, Goes, Idle, Memory
  <2>2. MatchAt(p)'
    BY <1>1, <2>1 DEF MatchAt, Half, Lone
  <2> QED
    BY <1>1, <2>2 DEF OneAtATime, MatchInv, SignatureMatchesKey
<1>6. CASE ArchivePub(p)
  <2>1. /\ proc[p].at = "archivePub" /\ pub' = None /\ priv' = priv
        /\ proc'[p].at \in {"idle", "rotatePriv"}
    BY <1>1, <1>6 DEF ArchivePub, At, Ends, Generates, Idle, Memory
  <2>2. MatchAt(p)'
    BY <1>1, <2>1 DEF MatchAt, Half, Lone
  <2> QED
    BY <1>1, <2>2 DEF OneAtATime, MatchInv, SignatureMatchesKey
<1> QED
  BY <1>2, <1>3, <1>4, <1>5, <1>6

LEMMA RevokeMatches ==
    ASSUME OneAtATime, IInv, MatchInv, NEW p \in Procs, RevokeStart(p) \/ RevokeSave(p)
    PROVE  MatchInv'
<1> DEFINE Moves == /\ UNCHANGED <<priv, pub, signed, crashes>>
                    /\ proc[p].at \in {"idle", "revokeSave"}
                    /\ proc'[p].at \in {"revokeSave", "idle"}
<1>0. proc \in [Procs -> Memory]
  BY DEF IInv, Typed
<1>1. Moves
  <2>1. CASE RevokeStart(p)
    <3>1. PICK f \in DOMAIN Entries :
            proc' = [proc EXCEPT ![p] = [Idle("nothing") EXCEPT !.at = "revokeSave", !.cmd = "revoke",
                                                                !.cat = MarkRevoked(Entries, f)]]
      BY <2>1 DEF RevokeStart
    <3>2. proc'[p].at = "revokeSave"
      BY <1>0, <3>1 DEF Idle
    <3> QED
      BY <2>1, <3>2 DEF RevokeStart, At, Files
  <2>2. CASE RevokeSave(p)
    BY <1>0, <2>2 DEF RevokeSave, At, Ends, Idle, Files
  <2> QED
    BY <2>1, <2>2
<1>2. /\ proc[p].at \notin {"genPub", "rotatePub", "archivePub"}
      /\ proc'[p].at \notin {"genPub", "rotatePub", "archivePub", "genPriv", "rotatePriv",
                           "rotateLook", "archivePriv"}
  BY <1>1
<1> QED
  BY <1>1, <1>2, QuietMatches

(* A death leaves the halves as they are; the first in a rotation is the   *)
(* last of all.                                                            *)
LEMMA CrashMatches ==
    ASSUME FewDeaths, OneAtATime, IInv, MatchInv, NEW p \in Procs, Crash(p)
    PROVE  MatchInv'
<1>1. /\ proc \in [Procs -> Memory] /\ MatchAt(p) /\ UNCHANGED <<priv, pub, signed>>
      /\ crashes < MaxCrashes /\ crashes' = crashes + 1 /\ proc'[p].at = "idle"
      /\ crashes \in Nat /\ MaxCrashes \in Nat
  BY KeyStoreConstants DEF IInv, Typed, MatchInv, Crash, Ends, Idle, Files
<1>2. ~Spent
  BY <1>1 DEF Spent
<1>3. "rotate" \in Commands => Spent'
  BY <1>1 DEF FewDeaths, Spent
<1>4. Half \/ priv = pub
  BY <1>1, <1>2 DEF MatchAt, Half
<1>5. Lone => Spent'
  BY <1>1, <1>2, <1>3 DEF MatchAt, Lone
<1>6. MatchAt(p)'
  BY <1>1, <1>4, <1>5 DEF MatchAt, Half, Lone
<1> QED
  BY <1>1, <1>6 DEF OneAtATime, MatchInv, SignatureMatchesKey

LEMMA NextMatches ==
    ASSUME FewDeaths, OneAtATime, IInv, MatchInv, [Next]_vars
    PROVE  MatchInv'
<1>1. ASSUME NEW p \in Procs, LoadStep(p) PROVE MatchInv'
  BY <1>1, LoadMatches, SignMatches, WriteMatches DEF LoadStep
<1>2. ASSUME NEW p \in Procs, RotateStep(p) PROVE MatchInv'
  BY <1>2, RotateMatches, WriteMatches DEF RotateStep
<1>3. ASSUME NEW p \in Procs, RevokeStart(p) \/ RevokeSave(p) \/ Crash(p) PROVE MatchInv'
  BY <1>3, RevokeMatches, CrashMatches
<1>4. ASSUME UNCHANGED vars PROVE MatchInv'
  BY <1>4 DEF vars, MatchInv, SignatureMatchesKey, MatchAt, Half, Lone, Spent
<1> QED
  BY <1>1, <1>2, <1>3, <1>4 DEF Next

(* The public key a bundle carries is the one its signature was made with, *)
(* of commands run one after the other of which one may die, in a rotation *)
(* too, or any number when keys are not rotated.                           *)
THEOREM SignedWithThePair == ASSUME OneAtATime, FewDeaths PROVE Spec => []SignatureMatchesKey
<1>1. MatchInv => SignatureMatchesKey
  BY DEF MatchInv
<1> QED
  BY <1>1, MatchInit, Invariance, NextMatches, PTL DEF Spec
=============================================================================
