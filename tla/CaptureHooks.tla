---------------------------- MODULE CaptureHooks ----------------------------
(***************************************************************************)
(* The two capture hooks of one agent session and the directory they       *)
(* share (packages/capture-claude/src).                                    *)
(*                                                                         *)
(* Claude Code runs `depose-hook pretooluse` before a tool and             *)
(* `depose-hook posttooluse` after it, as separate processes.  The pre     *)
(* hook writes a record and leaves a marker naming it under pending/; the  *)
(* post hook takes the marker and writes the effect record.  The marker's  *)
(* name is the session and the hash of the tool input, so two calls with   *)
(* the same input share it.  Several calls may be in flight at once; each  *)
(* step below is one file operation or one reading of the clock, and the   *)
(* steps of different processes interleave.                                *)
(*                                                                         *)
(* A call moves through                                                    *)
(*   idle -> preHash -> preStamp -> preWrite -> preList -> preOpen         *)
(*        -> preFill -> ready -> ran -> look -> read -> unlink -> postHash *)
(*        -> postStamp -> postWrite -> over                                *)
(*                                                                         *)
(* The store never holds two records of one half of a call, so a record is *)
(* indexed by its call; its ULID is the field id.                          *)
(***************************************************************************)
EXTENDS Integers, FiniteSets

CONSTANTS
    Calls,         \* the tool calls, numbered as the agent makes them
    Inputs,        \* canonical input hashes
    InputOf,       \* [Calls -> Inputs]
    Paths,         \* the files the calls name
    PathsOf,       \* [Calls -> SUBSET Paths], the paths in a tool input
    Declared,      \* the calls whose paths count even when no file is there:
                   \* Edit and Write; a path in a Bash command counts only
                   \* when it exists
    Contents,      \* what a file may hold, by its hash
    Absent,        \* the null hash of a missing file
    NoCall,        \* no intentEventId
    Torn,          \* a marker truncated and not yet written again
    Ttl,           \* PENDING_TTL_MS, in clock units
    Durations,     \* how long a tool may take
    MaxInFlight,   \* bound: calls between their pre hook and their end
    MaxClock,      \* bound: the session's length
    MaxFaults      \* bound: hook processes that fail or die, and files
                   \* changed by someone else

ASSUME ConstantsAreTyped ==
    /\ Calls \subseteq Nat
    /\ InputOf \in [Calls -> Inputs]
    /\ PathsOf \in [Calls -> SUBSET Paths]
    /\ Absent \notin Contents
    /\ NoCall \notin Calls
    /\ Torn \notin Calls
    /\ Ttl \in Nat
    /\ Durations \subseteq Nat
    /\ MaxClock \in Nat
    /\ MaxFaults \in Nat

VARIABLES
    clock,       \* the wall clock the ids and capture times are read from
    fs,          \* the files the tools work on
    pc,          \* where each call is
    local,       \* what the running hook of each call has in memory
    intentRec,   \* the pre records in the store, by call
    effectRec,   \* the post records in the store, by call
    failed,      \* capture_failed records and sidecar lines
    marker,      \* pending/, by input hash
    faults       \* faults so far

vars == <<clock, fs, pc, local, intentRec, effectRec, failed, marker, faults>>

---------------------------------------------------------------------------
(* A directory is a function on the names it holds. *)
Nothing == [n \in {} |-> n]
With(dir, name, file) ==
    [n \in DOMAIN dir \union {name} |-> IF n = name THEN file ELSE dir[n]]
Without(dir, names) == [n \in DOMAIN dir \ names |-> dir[n]]

States == Contents \union {Absent}

(* hashFileArgs: the paths of the input that count now, with their hashes. *)
Hashes(c) ==
    [p \in {q \in PathsOf[c] : c \in Declared \/ fs[q] # Absent} |-> fs[p]]

(* old and doomed are the sweep's: names listed and not yet looked at, and *)
(* the one found older than the cutoff, if any.                            *)
Blank == [id |-> 0, at |-> 0, files |-> Nothing, ino |-> NoCall, link |-> NoCall, pre |-> Nothing,
          cut |-> 0, old |-> {}, doomed |-> {}]

(* Mutated form of MarkerName: one marker for the whole session. *)
MarkerNameOfSession(c) == CHOOSE n \in Inputs : TRUE

(* markerName: the session is one, so the input hash alone tells.          *)
MarkerName(c) == InputOf[c]

(* mergeFileStates: every path either half named, with its hash after the  *)
(* tool, or null when the post half did not name it.                       *)
MergeFileStates(pre, post) ==
    [p \in DOMAIN pre \union DOMAIN post |->
        IF p \in DOMAIN post THEN post[p] ELSE Absent]

Goes(c, from, to) == pc[c] = from /\ pc' = [pc EXCEPT ![c] = to]

(* Reading the clock.  No two readings of the model coincide; the ids of   *)
(* one millisecond are in random order, which is an interleaving.          *)
Tick == clock < MaxClock /\ clock' = clock + 1

Fault == faults < MaxFaults /\ faults' = faults + 1

InFlight == {c \in Calls : pc[c] \notin {"idle", "over"}}

Init ==
    /\ clock = 0
    /\ fs \in [Paths -> States]
    /\ pc = [c \in Calls |-> "idle"]
    /\ local = [c \in Calls |-> Blank]
    /\ intentRec = Nothing
    /\ effectRec = Nothing
    /\ failed = {}
    /\ marker = Nothing
    /\ faults = 0

---------------------------------------------------------------------------
(* The pre hook: capture, then writePendingIntent. *)

(* The agent makes its next call; the pre hook starts and draws its ULID. *)
AgentCall(c) ==
    /\ Goes(c, "idle", "preHash")
    /\ \A d \in Calls : d < c => pc[d] # "idle"
    /\ Cardinality(InFlight) < MaxInFlight
    /\ Tick
    /\ local' = [local EXCEPT ![c] = [Blank EXCEPT !.id = clock']]
    /\ UNCHANGED <<fs, intentRec, effectRec, failed, marker, faults>>

PreHash(c) ==
    /\ Goes(c, "preHash", "preStamp")
    /\ local' = [local EXCEPT ![c].files = Hashes(c)]
    /\ UNCHANGED <<clock, fs, intentRec, effectRec, failed, marker, faults>>

PreStamp(c) ==
    /\ Goes(c, "preStamp", "preWrite")
    /\ Tick
    /\ local' = [local EXCEPT ![c].at = clock']
    /\ UNCHANGED <<fs, intentRec, effectRec, failed, marker, faults>>

(* writeCaptureRecord: the record is on disk before any marker names it. *)
PreWrite(c) ==
    /\ Goes(c, "preWrite", "preList")
    /\ intentRec' = With(intentRec, c, [id |-> local[c].id, at |-> local[c].at,
                                        files |-> local[c].files])
    /\ UNCHANGED <<clock, fs, local, effectRec, failed, marker, faults>>

(* Mutated form of Stale: the fresh markers count as old. *)
FreshIsStale(n, cut) == n \in DOMAIN marker /\ cut - marker[n].at < Ttl

(* The marker is there, last written before the cutoff. *)
Stale(n, cut) == n \in DOMAIN marker /\ cut - marker[n].at > Ttl

(* sweep reads the clock and lists pending/.  A marker that is fresh now   *)
(* never falls behind the cutoff, so the old ones are all it will see.     *)
PreList(c) ==
    /\ Goes(c, "preList", "preOpen")
    /\ local' = [local EXCEPT ![c].cut = clock,
                              ![c].old = {n \in DOMAIN marker : Stale(n, clock)}]
    /\ UNCHANGED <<clock, fs, intentRec, effectRec, failed, marker, faults>>

(* The next name listed is looked at again: it may be gone or rewritten.   *)
PreStat(c) ==
    /\ Goes(c, "preOpen", "preOpen")
    /\ local[c].doomed = {}
    /\ \E n \in local[c].old :
         local' = [local EXCEPT ![c].old = @ \ {n},
                                ![c].doomed = IF Stale(n, local[c].cut) THEN {n} ELSE {}]
    /\ UNCHANGED <<clock, fs, intentRec, effectRec, failed, marker, faults>>

(* What stands under the name by then is unlinked, the file looked at or   *)
(* another call's since.  An error here is swallowed, file by file.        *)
PreSweep(c) ==
    /\ Goes(c, "preOpen", "preOpen")
    /\ local[c].doomed # {}
    /\ local' = [local EXCEPT ![c].doomed = {}]
    /\ \/ marker' = Without(marker, local[c].doomed) /\ UNCHANGED faults
       \/ Fault /\ UNCHANGED marker
    /\ UNCHANGED <<clock, fs, intentRec, effectRec, failed>>

(* With the sweep done, writeFileSync opens the marker: a file already     *)
(* there is truncated and keeps its inode.  An inode is named by the call  *)
(* that created it.                                                        *)
PreOpen(c) ==
    LET name == MarkerName(c)
        ino  == IF name \in DOMAIN marker THEN marker[name].ino ELSE c
    IN  /\ Goes(c, "preOpen", "preFill")
        /\ local[c].old = {} /\ local[c].doomed = {}
        /\ marker' = With(marker, name, [ino |-> ino, body |-> Torn, files |-> Nothing, at |-> clock])
        /\ local' = [local EXCEPT ![c].ino = ino]
        /\ UNCHANGED <<clock, fs, intentRec, effectRec, failed, faults>>

(* Mutated form of PreFill: the marker is written without a ulid. *)
PreFillAnonymous(c) ==
    /\ Goes(c, "preFill", "ready")
    /\ marker' = With(marker, MarkerName(c), [ino |-> local[c].ino, body |-> NoCall,
                                              files |-> local[c].files, at |-> clock])
    /\ local' = [local EXCEPT ![c] = Blank]
    /\ UNCHANGED <<clock, fs, intentRec, effectRec, failed, faults>>

(* writeFileSync writes through the inode it opened, which a post hook may *)
(* have unlinked in between: then the content is gone with it.             *)
PreFill(c) ==
    LET name == MarkerName(c)
        full == [ino |-> local[c].ino, body |-> c, files |-> local[c].files, at |-> clock]
    IN  /\ Goes(c, "preFill", "ready")
        /\ marker' = IF name \in DOMAIN marker /\ marker[name].ino = local[c].ino
                     THEN With(marker, name, full) ELSE marker
        /\ local' = [local EXCEPT ![c] = Blank]
        /\ UNCHANGED <<clock, fs, intentRec, effectRec, failed, faults>>

(* A throw before the record is written: runHook files a capture_failed    *)
(* record, a sidecar line if that fails, nothing if both do, and exits 0.  *)
(* Of a hook that throws over its input, before it has hashed anything,    *)
(* the record names no call.                                               *)
PreThrow(c) ==
    \E from \in {"preHash", "preStamp", "preWrite"}, where \in {"record", "sidecar", "none"},
       who \in {c, NoCall} :
        /\ Goes(c, from, "ready")
        /\ who = NoCall => from = "preHash"
        /\ Fault
        /\ failed' = failed \union {<<who, "pre", where>>}
        /\ local' = [local EXCEPT ![c] = Blank]
        /\ UNCHANGED <<clock, fs, intentRec, effectRec, marker>>

(* The pre hook is killed before its record is written.  The tool goes on. *)
PreKill(c) ==
    \E from \in {"preHash", "preStamp", "preWrite"} :
        /\ Goes(c, from, "ready")
        /\ Fault
        /\ local' = [local EXCEPT ![c] = Blank]
        /\ UNCHANGED <<clock, fs, intentRec, effectRec, failed, marker>>

(* pending/ cannot be listed, or the marker opened or written, which       *)
(* writePendingIntent keeps to itself, or the hook is killed there.        *)
MarkerLost(c) ==
    \E from \in {"preList", "preOpen", "preFill"} :
        /\ Goes(c, from, "ready")
        /\ Fault
        /\ local' = [local EXCEPT ![c] = Blank]
        /\ UNCHANGED <<clock, fs, intentRec, effectRec, failed, marker>>

---------------------------------------------------------------------------
(* Outside the hooks. *)

(* The tool runs, may leave one of the call's files in another state, and  *)
(* returns; when it was refused or failed, no post hook follows.           *)
Tool(c) ==
    \E d \in Durations, to \in {"ran", "over"} :
        /\ Goes(c, "ready", to)
        /\ clock + d =< MaxClock
        /\ clock' = clock + d
        /\ \/ fs' = fs
           \/ \E p \in PathsOf[c], s \in States : fs' = [fs EXCEPT ![p] = s]
        /\ UNCHANGED <<local, intentRec, effectRec, failed, marker, faults>>

(* A file changes outside the session. *)
OutsideChange ==
    /\ Fault
    /\ \E p \in Paths, s \in States : fs' = [fs EXCEPT ![p] = s]
    /\ UNCHANGED <<clock, pc, local, intentRec, effectRec, failed, marker>>

---------------------------------------------------------------------------
(* The post hook: handlePostToolUse, with takePendingIntent spelled out. *)

PostStart(c) ==
    /\ Goes(c, "ran", "look")
    /\ Tick
    /\ local' = [local EXCEPT ![c] = [Blank EXCEPT !.id = clock']]
    /\ UNCHANGED <<fs, intentRec, effectRec, failed, marker, faults>>

PostLook(c) ==
    /\ Goes(c, "look", IF MarkerName(c) \in DOMAIN marker THEN "read" ELSE "postHash")
    /\ UNCHANGED <<clock, fs, local, intentRec, effectRec, failed, marker, faults>>

(* A marker that is gone again, or torn, reads as no marker. *)
PostRead(c) ==
    LET name  == MarkerName(c)
        whole == name \in DOMAIN marker /\ marker[name].body # Torn
    IN  /\ Goes(c, "read", "unlink")
        /\ local' = IF whole
                    THEN [local EXCEPT ![c].link = marker[name].body, ![c].pre = marker[name].files]
                    ELSE local
        /\ UNCHANGED <<clock, fs, intentRec, effectRec, failed, marker, faults>>

(* Mutated form of PostUnlink: the marker is read and left where it is. *)
PostUnlinkNothing(c) ==
    /\ Goes(c, "unlink", "postHash")
    /\ UNCHANGED <<clock, fs, local, intentRec, effectRec, failed, marker, faults>>

(* The file of that name is removed, whether or not it is the one read. *)
PostUnlink(c) ==
    /\ Goes(c, "unlink", "postHash")
    /\ marker' = Without(marker, {MarkerName(c)})
    /\ UNCHANGED <<clock, fs, local, intentRec, effectRec, failed, faults>>

PostHash(c) ==
    /\ Goes(c, "postHash", "postStamp")
    /\ local' = [local EXCEPT ![c].files = MergeFileStates(local[c].pre, Hashes(c))]
    /\ UNCHANGED <<clock, fs, intentRec, effectRec, failed, marker, faults>>

PostStamp(c) ==
    /\ Goes(c, "postStamp", "postWrite")
    /\ Tick
    /\ local' = [local EXCEPT ![c].at = clock']
    /\ UNCHANGED <<fs, intentRec, effectRec, failed, marker, faults>>

PostWrite(c) ==
    /\ Goes(c, "postWrite", "over")
    /\ effectRec' = With(effectRec, c, [id |-> local[c].id, at |-> local[c].at,
                                        files |-> local[c].files, link |-> local[c].link])
    /\ local' = [local EXCEPT ![c] = Blank]
    /\ UNCHANGED <<clock, fs, intentRec, failed, marker, faults>>

(* A throw while hashing or writing leaves a capture_failed record; taking *)
(* the marker never throws.  Of a hook that throws while it reads or       *)
(* parses its input the record names no call.                              *)
PostThrow(c) ==
    \E from \in {"ran", "postHash", "postStamp", "postWrite"}, where \in {"record", "sidecar", "none"} :
        /\ Goes(c, from, "over")
        /\ Fault
        /\ failed' = failed \union {<<IF from = "ran" THEN NoCall ELSE c, "post", where>>}
        /\ local' = [local EXCEPT ![c] = Blank]
        /\ UNCHANGED <<clock, fs, intentRec, effectRec, marker>>

PostKill(c) ==
    \E from \in {"look", "read", "unlink", "postHash", "postStamp", "postWrite"} :
        /\ Goes(c, from, "over")
        /\ Fault
        /\ local' = [local EXCEPT ![c] = Blank]
        /\ UNCHANGED <<clock, fs, intentRec, effectRec, failed, marker>>

PreStep(c) == \/ AgentCall(c) \/ PreHash(c) \/ PreStamp(c) \/ PreWrite(c)
              \/ PreList(c) \/ PreStat(c) \/ PreSweep(c) \/ PreOpen(c) \/ PreFill(c)
              \/ PreThrow(c) \/ PreKill(c) \/ MarkerLost(c)

PostStep(c) == \/ PostStart(c) \/ PostLook(c) \/ PostRead(c) \/ PostUnlink(c)
               \/ PostHash(c) \/ PostStamp(c) \/ PostWrite(c)
               \/ PostThrow(c) \/ PostKill(c)

Next == \/ \E c \in Calls : PreStep(c) \/ Tool(c) \/ PostStep(c)
        \/ OutsideChange

Spec == Init /\ [][Next]_vars

---------------------------------------------------------------------------
(* Properties. *)

FileStates == UNION {[d -> States] : d \in SUBSET Paths}
Locations == {"idle", "preHash", "preStamp", "preWrite", "preList", "preOpen", "preFill",
              "ready", "ran", "look", "read", "unlink", "postHash",
              "postStamp", "postWrite", "over"}

LocalMemory == [id : Nat, at : Nat, files : FileStates,
                ino : Calls \union {NoCall}, link : Calls \union {NoCall},
                pre : FileStates, cut : Nat, old : SUBSET Inputs, doomed : SUBSET Inputs]
IntentRecords == [id : Nat, at : Nat, files : FileStates]
EffectRecords == [id : Nat, at : Nat, files : FileStates, link : Calls \union {NoCall}]
Markers == [ino : Calls, body : Calls \union {Torn}, files : FileStates, at : Nat]

(* Every variable has its type; records and markers sit under the names of *)
(* calls and inputs.                                                       *)
TypeOK ==
    /\ clock \in Nat
    /\ fs \in [Paths -> States]
    /\ pc \in [Calls -> Locations]
    /\ local \in [Calls -> LocalMemory]
    /\ DOMAIN intentRec \subseteq Calls
    /\ \A c \in DOMAIN intentRec : intentRec[c] \in IntentRecords
    /\ DOMAIN effectRec \subseteq Calls
    /\ \A c \in DOMAIN effectRec : effectRec[c] \in EffectRecords
    /\ failed \subseteq (Calls \union {NoCall}) \X {"pre", "post"} \X {"record", "sidecar", "none"}
    /\ DOMAIN marker \subseteq Inputs
    /\ \A n \in DOMAIN marker : marker[n] \in Markers
    /\ faults \in Nat

(* The link an effect record signs names an intent that is in the store    *)
(* and had the same input, whatever overlapped, died or was swept: the     *)
(* record is written before the marker, and the marker's name is the input *)
(* hash.                                                                   *)
LinkNamesStoredIntent ==
    \A c \in DOMAIN effectRec :
        LET link == effectRec[c].link
        IN  link # NoCall => link \in DOMAIN intentRec /\ InputOf[link] = InputOf[c]

(* Once an effect record exists, no marker names the intent of its call:   *)
(* a later call with the same input cannot pick it up.                     *)
ClosedIntentHasNoMarker ==
    \A n \in DOMAIN marker : marker[n].body \notin DOMAIN effectRec

(* A signed link is the call's own intent. *)
LinkIsOwn ==
    \A c \in DOMAIN effectRec : effectRec[c].link \in {c, NoCall}

(* While a call is in flight its marker is there to be taken, as long as   *)
(* it is younger than its lifetime and no hook has failed: no other call's *)
(* hook swept it, took it or wrote over it.  Calls of one input break it   *)
(* when they overlap: by sharing the marker, and by a sweep that found it  *)
(* old and unlinks it when it has been written again.                      *)
InFlightHasMarker ==
    faults = 0 => \A c \in DOMAIN intentRec :
        pc[c] \in {"ready", "ran", "look"} /\ clock - intentRec[c].at =< Ttl =>
            MarkerName(c) \in DOMAIN marker /\ marker[MarkerName(c)].body = c

(* A record in the store is never rewritten or lost by what the hooks do.  *)
KeepsStore ==
    /\ \A c \in DOMAIN intentRec : c \in DOMAIN intentRec' /\ intentRec'[c] = intentRec[c]
    /\ \A c \in DOMAIN effectRec : c \in DOMAIN effectRec' /\ effectRec'[c] = effectRec[c]

StoreOnlyGrows == [][KeepsStore]_vars

---------------------------------------------------------------------------
(* The inductive invariant behind them (CaptureSessionProofs). *)

(* A call's records appear at the points of its life that write them. *)
RecordsMatchProgress ==
    /\ \A c \in DOMAIN intentRec : pc[c] \notin {"idle", "preHash", "preStamp", "preWrite"}
    /\ \A c \in Calls : pc[c] \in {"preList", "preOpen", "preFill"} => c \in DOMAIN intentRec
    /\ \A c \in DOMAIN effectRec : pc[c] = "over"

(* What a whole marker names is a stored intent with the marker's input. *)
MarkerNamesStoredIntent ==
    \A n \in DOMAIN marker :
        marker[n].body # Torn =>
            marker[n].body \in DOMAIN intentRec /\ InputOf[marker[n].body] = n

(* So does the link a post hook has read and not yet written. *)
ReadLinkNamesStoredIntent ==
    \A c \in Calls :
        local[c].link # NoCall =>
            local[c].link \in DOMAIN intentRec /\ InputOf[local[c].link] = InputOf[c]

(* Past its unlink, a post hook's call is named by no marker. *)
TakenMarkerIsGone ==
    \A c \in Calls :
        pc[c] \in {"postHash", "postStamp", "postWrite"} \/ c \in DOMAIN effectRec =>
            \A n \in DOMAIN marker : marker[n].body # c

IInv ==
    /\ TypeOK
    /\ RecordsMatchProgress
    /\ MarkerNamesStoredIntent
    /\ ReadLinkNamesStoredIntent
    /\ LinkNamesStoredIntent
    /\ TakenMarkerIsGone
=============================================================================
