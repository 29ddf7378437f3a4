------------------------ MODULE CaptureSessionProofs ------------------------
(***************************************************************************)
(* Proofs about the hooks and the bundle built of their store, for any     *)
(* number of calls, inputs, files and faults: first of CaptureHooks, for   *)
(* any overlap of the hooks, then of CaptureSession, the merge and the     *)
(* verifier's two checks, and last of BindPass, the same pass over any     *)
(* timeline, one effect at a time.                                         *)
(***************************************************************************)
EXTENDS CaptureSession, BindPass, FiniteSetTheorems, WellFoundedInduction, TLAPS

---------------------------------------------------------------------------
(* Types. *)

(* What maps some paths to states is a file state. *)
LEMMA FileStatesClosed ==
    ASSUME NEW d \in SUBSET Paths, NEW f \in [d -> States]
    PROVE  f \in FileStates
BY DEF FileStates

(* The empty directory and the empty list of files are one. *)
LEMMA NothingTyped == Nothing \in FileStates /\ DOMAIN Nothing = {}
<1>1. Nothing \in [{} -> States] /\ {} \in SUBSET Paths
  BY DEF Nothing
<1> QED
  BY <1>1, FileStatesClosed DEF Nothing

(* The hashes a hook takes are file states. *)
LEMMA HashesTyped ==
    ASSUME TypeOK, NEW c \in Calls
    PROVE  Hashes(c) \in FileStates
<1> DEFINE d == {q \in PathsOf[c] : c \in Declared \/ fs[q] # Absent}
<1>1. d \in SUBSET Paths
  BY ConstantsAreTyped
<1>2. [p \in d |-> fs[p]] \in [d -> States]
  BY <1>1 DEF TypeOK
<1> QED
  BY <1>1, <1>2, FileStatesClosed DEF Hashes

(* So is what the post hook merges them into. *)
LEMMA MergeTyped ==
    ASSUME NEW pre \in FileStates, NEW post \in FileStates
    PROVE  MergeFileStates(pre, post) \in FileStates
<1>1. PICK a \in SUBSET Paths : pre \in [a -> States]
  BY DEF FileStates
<1>2. PICK b \in SUBSET Paths : post \in [b -> States]
  BY DEF FileStates
<1>3. MergeFileStates(pre, post) \in [a \union b -> States]
  BY <1>1, <1>2 DEF MergeFileStates, States
<1> QED
  BY <1>3, FileStatesClosed

(* A hook starts from, and ends in, a well-typed memory. *)
LEMMA MemoryTyped ==
    ASSUME NEW x \in Nat
    PROVE  /\ Blank \in LocalMemory
           /\ Blank.link = NoCall
           /\ [Blank EXCEPT !.id = x] \in LocalMemory
           /\ [Blank EXCEPT !.id = x].link = NoCall
BY NothingTyped DEF Blank, LocalMemory

(* The initial state. *)
LEMMA InitTyped == Init => IInv
<1> SUFFICES ASSUME Init PROVE IInv
  OBVIOUS
<1>1. TypeOK
  BY MemoryTyped, NothingTyped DEF Init, TypeOK, Locations
<1>2. RecordsMatchProgress /\ MarkerNamesStoredIntent /\ LinkNamesStoredIntent
  BY NothingTyped DEF Init, RecordsMatchProgress, MarkerNamesStoredIntent, LinkNamesStoredIntent
<1>3. ReadLinkNamesStoredIntent
  BY MemoryTyped DEF Init, ReadLinkNamesStoredIntent
<1>4. TakenMarkerIsGone
  BY NothingTyped DEF Init, TakenMarkerIsGone
<1> QED
  BY <1>1, <1>2, <1>3, <1>4 DEF IInv

---------------------------------------------------------------------------
(* Steps of a hook that leave the store and the markers alone. *)

(* Such a step keeps the invariant when it keeps the types and what its    *)
(* own call reached agrees with the store and the markers.                 *)
LEMMA StoreUntouched ==
    ASSUME IInv, TypeOK', NEW c \in Calls,
           UNCHANGED <<intentRec, effectRec, marker>>,
           \A d \in Calls : d # c => pc'[d] = pc[d] /\ local'[d] = local[d],
           pc[c] # "over",
           c \in DOMAIN intentRec => pc'[c] \notin {"idle", "preHash", "preStamp", "preWrite"},
           pc'[c] \in {"preList", "preOpen", "preFill"} => c \in DOMAIN intentRec,
           local'[c].link # NoCall =>
               local'[c].link \in DOMAIN intentRec /\ InputOf[local'[c].link] = InputOf[c],
           pc'[c] \in {"postHash", "postStamp", "postWrite"} =>
               \A n \in DOMAIN marker : marker[n].body # c
    PROVE  IInv'
<1> USE DEF IInv
<1>1. RecordsMatchProgress'
  BY DEF TypeOK, RecordsMatchProgress
<1>2. MarkerNamesStoredIntent' /\ LinkNamesStoredIntent'
  BY DEF MarkerNamesStoredIntent, LinkNamesStoredIntent
<1>3. ReadLinkNamesStoredIntent'
  BY DEF ReadLinkNamesStoredIntent
<1>4. TakenMarkerIsGone'
  BY DEF TakenMarkerIsGone, RecordsMatchProgress
<1> QED
  BY <1>1, <1>2, <1>3, <1>4

(* The invariant survives starting the pre hook. *)
LEMMA AgentCallKeeps == ASSUME IInv, NEW c \in Calls, AgentCall(c) PROVE IInv'
<1> USE DEF IInv, Goes, MarkerName
<1>1. local' \in [Calls -> LocalMemory]
  <2>1. clock' \in Nat
    BY DEF AgentCall, TypeOK, Tick
  <2>2. [Blank EXCEPT !.id = clock'] \in LocalMemory
    BY <2>1, MemoryTyped
  <2> QED
    BY <2>2 DEF AgentCall, TypeOK
<1>2. TypeOK'
  BY <1>1, ConstantsAreTyped DEF AgentCall, TypeOK, Tick, Fault, Locations
<1>3. clock' \in Nat
  BY <1>2 DEF TypeOK
<1>4. local'[c].link = NoCall /\ \A d \in Calls : d # c => local'[d] = local[d]
  <2>1. local' = [local EXCEPT ![c] = [Blank EXCEPT !.id = clock']]
    BY DEF AgentCall
  <2>2. [Blank EXCEPT !.id = clock'].link = NoCall
    BY <1>3, MemoryTyped
  <2> HIDE DEF IInv
  <2>3. local \in [Calls -> LocalMemory]
    BY DEF IInv, TypeOK
  <2> QED
    BY <2>1, <2>2, <2>3
<1>5. pc'[c] = "preHash" /\ \A d \in Calls : d # c => pc'[d] = pc[d]
  BY DEF AgentCall, TypeOK
<1> QED
  BY <1>2, <1>4, <1>5, StoreUntouched DEF AgentCall, RecordsMatchProgress, ReadLinkNamesStoredIntent, TakenMarkerIsGone

(* The invariant survives hashing before the tool. *)
LEMMA PreHashKeeps == ASSUME IInv, NEW c \in Calls, PreHash(c) PROVE IInv'
<1> USE DEF IInv, Goes, MarkerName
<1>1. local' \in [Calls -> LocalMemory]
  BY HashesTyped DEF PreHash, TypeOK, LocalMemory
<1>2. TypeOK'
  BY <1>1, ConstantsAreTyped DEF PreHash, TypeOK, Tick, Fault, Locations
<1>4. local'[c].link = local[c].link /\ \A d \in Calls : d # c => local'[d] = local[d]
  BY DEF PreHash, TypeOK, LocalMemory
<1>5. pc'[c] = "preStamp" /\ \A d \in Calls : d # c => pc'[d] = pc[d]
  BY DEF PreHash, TypeOK
<1> QED
  BY <1>2, <1>4, <1>5, StoreUntouched DEF PreHash, RecordsMatchProgress, ReadLinkNamesStoredIntent, TakenMarkerIsGone

(* The invariant survives stamping the pre record. *)
LEMMA PreStampKeeps == ASSUME IInv, NEW c \in Calls, PreStamp(c) PROVE IInv'
<1> USE DEF IInv, Goes, MarkerName
<1>1. local' \in [Calls -> LocalMemory]
  BY DEF PreStamp, TypeOK, LocalMemory, Tick
<1>2. TypeOK'
  BY <1>1, ConstantsAreTyped DEF PreStamp, TypeOK, Tick, Fault, Locations
<1>4. local'[c].link = local[c].link /\ \A d \in Calls : d # c => local'[d] = local[d]
  BY DEF PreStamp, TypeOK, LocalMemory
<1>5. pc'[c] = "preWrite" /\ \A d \in Calls : d # c => pc'[d] = pc[d]
  BY DEF PreStamp, TypeOK
<1> QED
  BY <1>2, <1>4, <1>5, StoreUntouched DEF PreStamp, RecordsMatchProgress, ReadLinkNamesStoredIntent, TakenMarkerIsGone

(* The invariant survives a failure of the pre hook. *)
LEMMA PreThrowKeeps == ASSUME IInv, NEW c \in Calls, PreThrow(c) PROVE IInv'
<1> USE DEF IInv, Goes, MarkerName
<1>1. local' \in [Calls -> LocalMemory]
  BY MemoryTyped DEF PreThrow, TypeOK, LocalMemory
<1>2. TypeOK'
  BY <1>1, ConstantsAreTyped DEF PreThrow, TypeOK, Tick, Fault, Locations
<1> QED
  BY <1>1, <1>2, StoreUntouched, MemoryTyped
     DEF PreThrow, TypeOK, LocalMemory, RecordsMatchProgress, MarkerNamesStoredIntent, ReadLinkNamesStoredIntent, TakenMarkerIsGone

(* The invariant survives the death of the pre hook. *)
LEMMA PreKillKeeps == ASSUME IInv, NEW c \in Calls, PreKill(c) PROVE IInv'
<1> USE DEF IInv, Goes, MarkerName
<1>1. local' \in [Calls -> LocalMemory]
  BY MemoryTyped DEF PreKill, TypeOK, LocalMemory
<1>2. TypeOK'
  BY <1>1, ConstantsAreTyped DEF PreKill, TypeOK, Tick, Fault, Locations
<1> QED
  BY <1>1, <1>2, StoreUntouched, MemoryTyped
     DEF PreKill, TypeOK, LocalMemory, RecordsMatchProgress, MarkerNamesStoredIntent, ReadLinkNamesStoredIntent, TakenMarkerIsGone

(* The invariant survives the loss of a marker. *)
LEMMA MarkerLostKeeps == ASSUME IInv, NEW c \in Calls, MarkerLost(c) PROVE IInv'
<1> USE DEF IInv, Goes, MarkerName
<1>1. local' \in [Calls -> LocalMemory]
  BY MemoryTyped DEF MarkerLost, TypeOK, LocalMemory
<1>2. TypeOK'
  BY <1>1, ConstantsAreTyped DEF MarkerLost, TypeOK, Tick, Fault, Locations
<1> QED
  BY <1>1, <1>2, StoreUntouched, MemoryTyped
     DEF MarkerLost, TypeOK, LocalMemory, RecordsMatchProgress, MarkerNamesStoredIntent, ReadLinkNamesStoredIntent, TakenMarkerIsGone

(* The invariant survives the tool. *)
LEMMA ToolKeeps == ASSUME IInv, NEW c \in Calls, Tool(c) PROVE IInv'
<1> USE DEF IInv, Goes, MarkerName
<1>1. local' \in [Calls -> LocalMemory]
  BY DEF Tool, TypeOK, LocalMemory
<1>2. TypeOK'
  BY <1>1, ConstantsAreTyped DEF Tool, TypeOK, Locations, States
<1> QED
  BY <1>1, <1>2, StoreUntouched, MemoryTyped
     DEF Tool, TypeOK, LocalMemory, RecordsMatchProgress, MarkerNamesStoredIntent, ReadLinkNamesStoredIntent, TakenMarkerIsGone

(* The invariant survives starting the post hook. *)
LEMMA PostStartKeeps == ASSUME IInv, NEW c \in Calls, PostStart(c) PROVE IInv'
<1> USE DEF IInv, Goes, MarkerName
<1>1. local' \in [Calls -> LocalMemory]
  <2>1. clock' \in Nat
    BY DEF PostStart, TypeOK, Tick
  <2>2. [Blank EXCEPT !.id = clock'] \in LocalMemory
    BY <2>1, MemoryTyped
  <2> QED
    BY <2>2 DEF PostStart, TypeOK
<1>2. TypeOK'
  BY <1>1, ConstantsAreTyped DEF PostStart, TypeOK, Tick, Fault, Locations
<1>3. clock' \in Nat
  BY <1>2 DEF TypeOK
<1>4. local'[c].link = NoCall /\ \A d \in Calls : d # c => local'[d] = local[d]
  <2>1. local' = [local EXCEPT ![c] = [Blank EXCEPT !.id = clock']]
    BY DEF PostStart
  <2>2. [Blank EXCEPT !.id = clock'].link = NoCall
    BY <1>3, MemoryTyped
  <2> HIDE DEF IInv
  <2>3. local \in [Calls -> LocalMemory]
    BY DEF IInv, TypeOK
  <2> QED
    BY <2>1, <2>2, <2>3
<1>5. pc'[c] = "look" /\ \A d \in Calls : d # c => pc'[d] = pc[d]
  BY DEF PostStart, TypeOK
<1> QED
  BY <1>2, <1>4, <1>5, StoreUntouched DEF PostStart, RecordsMatchProgress, ReadLinkNamesStoredIntent, TakenMarkerIsGone

(* The invariant survives looking for the marker. *)
LEMMA PostLookKeeps == ASSUME IInv, NEW c \in Calls, PostLook(c) PROVE IInv'
<1> USE DEF IInv, Goes, MarkerName
<1>1. local' \in [Calls -> LocalMemory]
  BY DEF PostLook, TypeOK, LocalMemory
<1>2. TypeOK'
  BY <1>1, ConstantsAreTyped DEF PostLook, TypeOK, Tick, Fault, Locations
(* A marker naming this call would have its input in its name. *)
<1>3. pc'[c] = "postHash" => \A n \in DOMAIN marker : marker[n].body # c
  BY ConstantsAreTyped DEF PostLook, TypeOK, MarkerNamesStoredIntent
<1>4. pc'[c] \in {"read", "postHash"}
  BY DEF PostLook, TypeOK
<1> QED
  BY <1>1, <1>2, <1>3, <1>4, StoreUntouched
     DEF PostLook, TypeOK, RecordsMatchProgress, ReadLinkNamesStoredIntent, TakenMarkerIsGone

(* The invariant survives reading the marker. *)
LEMMA PostReadKeeps == ASSUME IInv, NEW c \in Calls, PostRead(c) PROVE IInv'
<1> DEFINE name == MarkerName(c)
           whole == name \in DOMAIN marker /\ marker[name].body # Torn
           read == [local[c] EXCEPT !.link = marker[name].body, !.pre = marker[name].files]
<1> USE DEF IInv, Goes, MarkerName
<1>1. \/ local' = local
      \/ whole /\ local' = [local EXCEPT ![c] = read]
  BY DEF PostRead
<1>2. whole => /\ marker[name].body \in Calls
               /\ marker[name].files \in FileStates
               /\ marker[name].body \in DOMAIN intentRec
               /\ InputOf[marker[name].body] = InputOf[c]
  BY DEF TypeOK, Markers, MarkerNamesStoredIntent
<1>3. whole => read \in LocalMemory /\ read.link = marker[name].body
  BY <1>2 DEF TypeOK, LocalMemory
<1> HIDE DEF read
<1>4. local' \in [Calls -> LocalMemory] /\ \A d \in Calls : d # c => local'[d] = local[d]
  BY <1>1, <1>3 DEF TypeOK
<1>5. local'[c].link # NoCall =>
          local'[c].link \in DOMAIN intentRec /\ InputOf[local'[c].link] = InputOf[c]
  BY <1>1, <1>2, <1>3 DEF TypeOK, ReadLinkNamesStoredIntent
<1>6. TypeOK'
  BY <1>4 DEF PostRead, TypeOK, Locations
<1>7. pc[c] = "read" /\ pc'[c] = "unlink" /\ \A d \in Calls : d # c => pc'[d] = pc[d]
  BY DEF PostRead, TypeOK
<1> QED
  BY <1>4, <1>5, <1>6, <1>7, StoreUntouched DEF PostRead, RecordsMatchProgress

(* The invariant survives hashing after the tool. *)
LEMMA PostHashKeeps == ASSUME IInv, NEW c \in Calls, PostHash(c) PROVE IInv'
<1> USE DEF IInv, Goes, MarkerName
<1>1. local' \in [Calls -> LocalMemory]
  <2>1. MergeFileStates(local[c].pre, Hashes(c)) \in FileStates
    BY HashesTyped, MergeTyped DEF TypeOK, LocalMemory
  <2> QED
    BY <2>1 DEF PostHash, TypeOK, LocalMemory
<1>2. TypeOK'
  BY <1>1, ConstantsAreTyped DEF PostHash, TypeOK, Tick, Fault, Locations
<1>3. local'[c].link = local[c].link
  BY DEF PostHash, TypeOK, LocalMemory
<1>4. pc'[c] = "postStamp"
  BY DEF PostHash, TypeOK
<1> QED
  BY <1>1, <1>2, <1>3, <1>4, StoreUntouched
     DEF PostHash, TypeOK, RecordsMatchProgress, ReadLinkNamesStoredIntent, TakenMarkerIsGone

(* The invariant survives stamping the effect record. *)
LEMMA PostStampKeeps == ASSUME IInv, NEW c \in Calls, PostStamp(c) PROVE IInv'
<1> USE DEF IInv, Goes, MarkerName
<1>1. local' \in [Calls -> LocalMemory]
  BY DEF PostStamp, TypeOK, LocalMemory, Tick
<1>2. TypeOK'
  BY <1>1, ConstantsAreTyped DEF PostStamp, TypeOK, Tick, Fault, Locations
<1>4. local'[c].link = local[c].link /\ \A d \in Calls : d # c => local'[d] = local[d]
  BY DEF PostStamp, TypeOK, LocalMemory
<1>5. pc'[c] = "postWrite" /\ \A d \in Calls : d # c => pc'[d] = pc[d]
  BY DEF PostStamp, TypeOK
<1> QED
  BY <1>2, <1>4, <1>5, StoreUntouched DEF PostStamp, RecordsMatchProgress, ReadLinkNamesStoredIntent, TakenMarkerIsGone

(* The invariant survives a failure of the post hook. *)
LEMMA PostThrowKeeps == ASSUME IInv, NEW c \in Calls, PostThrow(c) PROVE IInv'
<1> USE DEF IInv, Goes, MarkerName
<1>1. local' \in [Calls -> LocalMemory]
  BY MemoryTyped DEF PostThrow, TypeOK, LocalMemory
<1>2. TypeOK'
  BY <1>1, ConstantsAreTyped DEF PostThrow, TypeOK, Tick, Fault, Locations
<1> QED
  BY <1>1, <1>2, StoreUntouched, MemoryTyped
     DEF PostThrow, TypeOK, LocalMemory, RecordsMatchProgress, MarkerNamesStoredIntent, ReadLinkNamesStoredIntent, TakenMarkerIsGone

(* The invariant survives the death of the post hook. *)
LEMMA PostKillKeeps == ASSUME IInv, NEW c \in Calls, PostKill(c) PROVE IInv'
<1> USE DEF IInv, Goes, MarkerName
<1>1. local' \in [Calls -> LocalMemory]
  BY MemoryTyped DEF PostKill, TypeOK, LocalMemory
<1>2. TypeOK'
  BY <1>1, ConstantsAreTyped DEF PostKill, TypeOK, Tick, Fault, Locations
<1> QED
  BY <1>1, <1>2, StoreUntouched, MemoryTyped
     DEF PostKill, TypeOK, LocalMemory, RecordsMatchProgress, MarkerNamesStoredIntent, ReadLinkNamesStoredIntent, TakenMarkerIsGone

---------------------------------------------------------------------------
(* The steps that write a record or touch the markers. *)

(* Writing the pre record: only its own call gains a record. *)
LEMMA PreWriteKeeps == ASSUME IInv, NEW c \in Calls, PreWrite(c) PROVE IInv'
<1> DEFINE r == [id |-> local[c].id, at |-> local[c].at, files |-> local[c].files]
<1> USE DEF IInv, Goes, MarkerName
<1>1. r \in IntentRecords
  BY DEF TypeOK, LocalMemory, IntentRecords
<1>2. /\ DOMAIN intentRec' = DOMAIN intentRec \union {c}
      /\ intentRec'[c] = r
      /\ \A d \in DOMAIN intentRec : d # c => intentRec'[d] = intentRec[d]
  BY DEF PreWrite, With
<1>3. TypeOK'
  BY <1>1, <1>2 DEF PreWrite, TypeOK, Locations
<1>4. RecordsMatchProgress'
  BY <1>2 DEF PreWrite, TypeOK, RecordsMatchProgress
<1>5. MarkerNamesStoredIntent' /\ ReadLinkNamesStoredIntent' /\ LinkNamesStoredIntent'
  BY <1>2 DEF PreWrite, MarkerNamesStoredIntent, ReadLinkNamesStoredIntent, LinkNamesStoredIntent
<1>6. TakenMarkerIsGone'
  BY DEF PreWrite, TypeOK, TakenMarkerIsGone
<1> QED
  BY <1>3, <1>4, <1>5, <1>6

(* Listing and looking change the sweep's memory alone.                    *)
LEMMA PreListKeeps == ASSUME IInv, NEW c \in Calls, PreList(c) PROVE IInv'
<1> DEFINE old == {n \in DOMAIN marker : Stale(n, clock)}
<1> USE DEF IInv, Goes
<1>1. clock \in Nat /\ old \in SUBSET Inputs
  BY DEF TypeOK
<1>2. local' = [local EXCEPT ![c] = [local[c] EXCEPT !.cut = clock, !.old = old]]
  BY DEF PreList
<1> HIDE DEF old
<1> DEFINE mem == [local[c] EXCEPT !.cut = clock, !.old = old]
<1>3. mem \in LocalMemory /\ mem.link = local[c].link
  BY <1>1 DEF TypeOK, LocalMemory
<1>4. local' = [local EXCEPT ![c] = mem]
  BY <1>2
<1> HIDE DEF mem
<1>5. /\ local' \in [Calls -> LocalMemory] /\ local'[c].link = local[c].link
      /\ \A d \in Calls : d # c => local'[d] = local[d]
  BY <1>3, <1>4 DEF TypeOK
<1>6. TypeOK'
  BY <1>5 DEF PreList, TypeOK, Locations
<1>7. pc[c] = "preList" /\ pc'[c] = "preOpen" /\ \A d \in Calls : d # c => pc'[d] = pc[d]
  BY DEF PreList, TypeOK
<1> QED
  BY <1>5, <1>6, <1>7, StoreUntouched DEF PreList, RecordsMatchProgress, ReadLinkNamesStoredIntent

LEMMA PreStatKeeps == ASSUME IInv, NEW c \in Calls, PreStat(c) PROVE IInv'
<1> USE DEF IInv, Goes
<1>1. PICK n \in local[c].old :
        local' = [local EXCEPT ![c].old = @ \ {n},
                               ![c].doomed = IF Stale(n, local[c].cut) THEN {n} ELSE {}]
  BY DEF PreStat
<1> DEFINE doomed == IF Stale(n, local[c].cut) THEN {n} ELSE {}
<1>2. /\ doomed \in SUBSET Inputs
      /\ local' = [local EXCEPT ![c] = [local[c] EXCEPT !.old = @ \ {n}, !.doomed = doomed]]
  BY <1>1 DEF TypeOK, LocalMemory
<1> HIDE DEF doomed
<1> DEFINE mem == [local[c] EXCEPT !.old = @ \ {n}, !.doomed = doomed]
<1>3. mem \in LocalMemory /\ mem.link = local[c].link
  BY <1>2 DEF TypeOK, LocalMemory
<1>4. local' = [local EXCEPT ![c] = mem]
  BY <1>2
<1> HIDE DEF mem
<1>5. /\ local' \in [Calls -> LocalMemory] /\ local'[c].link = local[c].link
      /\ \A d \in Calls : d # c => local'[d] = local[d]
  BY <1>3, <1>4 DEF TypeOK
<1>6. TypeOK'
  BY <1>5 DEF PreStat, TypeOK, Locations
<1>7. pc[c] = "preOpen" /\ pc'[c] = "preOpen" /\ \A d \in Calls : d # c => pc'[d] = pc[d]
  BY DEF PreStat, TypeOK
<1> QED
  BY <1>5, <1>6, <1>7, StoreUntouched DEF PreStat, RecordsMatchProgress, ReadLinkNamesStoredIntent

(* What the steps of a sweep make of the hook's memory.                    *)
LEMMA SweepMemory ==
    ASSUME IInv, NEW c \in Calls
    PROVE  /\ PreList(c) => /\ local'[c].id = local[c].id /\ local'[c].at = local[c].at
                            /\ local'[c].cut = clock /\ local'[c].doomed = local[c].doomed
                            /\ local'[c].old = {n \in DOMAIN marker : Stale(n, clock)}
           /\ PreStat(c) \/ PreSweep(c) =>
                 /\ local'[c].id = local[c].id /\ local'[c].at = local[c].at
                 /\ local'[c].cut = local[c].cut /\ local'[c].old \subseteq local[c].old
                 /\ local'[c].doomed \subseteq local[c].old
<1>1. c \in DOMAIN local /\ local[c] \in LocalMemory
  BY DEF IInv, TypeOK
<1>2. ASSUME PreList(c)
      PROVE  /\ local'[c].id = local[c].id /\ local'[c].at = local[c].at
             /\ local'[c].cut = clock /\ local'[c].doomed = local[c].doomed
             /\ local'[c].old = {n \in DOMAIN marker : Stale(n, clock)}
  <2> DEFINE old == {n \in DOMAIN marker : Stale(n, clock)}
  <2>1. local' = [local EXCEPT ![c] = [local[c] EXCEPT !.cut = clock, !.old = old]]
    BY <1>2 DEF PreList
  <2> HIDE DEF old
  <2>2. local'[c] = [local[c] EXCEPT !.cut = clock, !.old = old]
    BY <1>1, <2>1
  <2>3. local'[c].old = old
    BY <1>1, <2>2 DEF LocalMemory
  <2> QED
    BY <1>1, <2>2, <2>3 DEF LocalMemory, old
<1>3. ASSUME PreStat(c)
      PROVE  /\ local'[c].id = local[c].id /\ local'[c].at = local[c].at
             /\ local'[c].cut = local[c].cut /\ local'[c].old \subseteq local[c].old
             /\ local'[c].doomed \subseteq local[c].old
  <2>1. PICK n \in local[c].old :
          local' = [local EXCEPT ![c].old = @ \ {n},
                                 ![c].doomed = IF Stale(n, local[c].cut) THEN {n} ELSE {}]
    BY <1>3 DEF PreStat
  <2> DEFINE doomed == IF Stale(n, local[c].cut) THEN {n} ELSE {}
  <2>2. local' = [local EXCEPT ![c] = [local[c] EXCEPT !.old = @ \ {n}, !.doomed = doomed]]
    BY <2>1
  <2>3. doomed \subseteq local[c].old
    OBVIOUS
  <2> HIDE DEF doomed
  <2>4. local'[c] = [local[c] EXCEPT !.old = @ \ {n}, !.doomed = doomed]
    BY <1>1, <2>2
  <2> QED
    BY <1>1, <2>3, <2>4 DEF LocalMemory
<1>4. ASSUME PreSweep(c)
      PROVE  /\ local'[c].id = local[c].id /\ local'[c].at = local[c].at
             /\ local'[c].cut = local[c].cut /\ local'[c].old \subseteq local[c].old
             /\ local'[c].doomed \subseteq local[c].old
  BY <1>1, <1>4 DEF PreSweep, LocalMemory
<1> QED
  BY <1>2, <1>3, <1>4

(* A step of a sweep is the hook's own and no more.                        *)
LEMMA SweepStep ==
    ASSUME IInv, NEW c \in Calls, PreList(c) \/ PreStat(c) \/ PreSweep(c)
    PROVE  /\ UNCHANGED <<clock, intentRec, effectRec>> /\ pc'[c] = "preOpen"
           /\ \A d \in Calls : d # c => pc'[d] = pc[d] /\ local'[d] = local[d]
<1>1. pc \in [Calls -> Locations] /\ local \in [Calls -> LocalMemory]
  BY DEF IInv, TypeOK
<1>2. CASE PreList(c)
  BY <1>1, <1>2 DEF PreList, Goes
<1>3. CASE PreStat(c)
  BY <1>1, <1>3 DEF PreStat, Goes
<1>4. CASE PreSweep(c)
  BY <1>1, <1>4 DEF PreSweep, Goes
<1> QED
  BY <1>2, <1>3, <1>4

(* A sweep takes markers away and names nothing.                           *)
LEMMA PreSweepKeeps == ASSUME IInv, NEW c \in Calls, PreSweep(c) PROVE IInv'
<1> USE DEF IInv, Goes
<1>1. /\ DOMAIN marker' \subseteq DOMAIN marker
      /\ \A n \in DOMAIN marker' : marker'[n] = marker[n]
  BY DEF PreSweep, Without
<1>2. local' \in [Calls -> LocalMemory] /\ \A d \in Calls : local'[d].link = local[d].link
  BY DEF PreSweep, TypeOK, LocalMemory
<1>3. /\ pc' \in [Calls -> Locations] /\ pc[c] = "preOpen" /\ faults' \in Nat
      /\ \A d \in Calls : pc'[d] = pc[d]
      /\ UNCHANGED <<clock, fs, intentRec, effectRec, failed>>
  BY DEF PreSweep, TypeOK, Locations, Fault
<1>4. TypeOK'
  BY <1>1, <1>2, <1>3 DEF TypeOK
<1>5. RecordsMatchProgress'
  BY <1>3 DEF RecordsMatchProgress, TypeOK
<1>6. MarkerNamesStoredIntent' /\ LinkNamesStoredIntent'
  BY <1>1, <1>3 DEF MarkerNamesStoredIntent, LinkNamesStoredIntent
<1>7. ReadLinkNamesStoredIntent'
  BY <1>2, <1>3 DEF ReadLinkNamesStoredIntent
<1>8. TakenMarkerIsGone'
  BY <1>1, <1>3 DEF TakenMarkerIsGone
<1> QED
  BY <1>4, <1>5, <1>6, <1>7, <1>8

(* Opening a marker truncates it: no marker is left that names more than   *)
(* before.                                                                 *)
LEMMA PreOpenKeeps == ASSUME IInv, NEW c \in Calls, PreOpen(c) PROVE IInv'
<1> DEFINE name == MarkerName(c)
           ino  == IF name \in DOMAIN marker THEN marker[name].ino ELSE c
           torn == [ino |-> ino, body |-> Torn, files |-> Nothing, at |-> clock]
<1> USE DEF IInv, Goes, MarkerName
<1>2. name \in Inputs /\ ino \in Calls /\ torn \in Markers
  BY ConstantsAreTyped, NothingTyped DEF TypeOK, Markers
<1>3. /\ DOMAIN marker' = DOMAIN marker \union {name}
      /\ marker'[name] = torn
      /\ \A n \in DOMAIN marker : n # name => marker'[n] = marker[n]
  <2>1. marker' = With(marker, name, torn)
    BY DEF PreOpen
  <2> HIDE DEF torn
  <2> QED
    BY <2>1 DEF With
<1>4. \A n \in DOMAIN marker' : marker'[n] = torn \/ (n \in DOMAIN marker /\ marker'[n] = marker[n])
  BY <1>3
<1>5. torn.body = Torn
  OBVIOUS
<1>6. local' \in [Calls -> LocalMemory] /\ \A d \in Calls : local'[d].link = local[d].link
  BY <1>2 DEF PreOpen, TypeOK, LocalMemory
<1> HIDE DEF ino, torn
<1>7. TypeOK'
  BY <1>2, <1>3, <1>4, <1>6 DEF PreOpen, TypeOK, Locations
<1>8. RecordsMatchProgress'
  BY DEF PreOpen, TypeOK, RecordsMatchProgress
<1>9. MarkerNamesStoredIntent' /\ LinkNamesStoredIntent'
  BY <1>4, <1>5 DEF PreOpen, MarkerNamesStoredIntent, LinkNamesStoredIntent
<1>10. ReadLinkNamesStoredIntent'
  BY <1>6 DEF PreOpen, ReadLinkNamesStoredIntent
<1>11. TakenMarkerIsGone'
  BY <1>4, <1>5, ConstantsAreTyped DEF PreOpen, TypeOK, TakenMarkerIsGone
<1> QED
  BY <1>7, <1>8, <1>9, <1>10, <1>11

(* A marker is filled with the intent its own call has just stored. *)
LEMMA PreFillKeeps == ASSUME IInv, NEW c \in Calls, PreFill(c) PROVE IInv'
<1> DEFINE name == MarkerName(c)
           full == [ino |-> local[c].ino, body |-> c, files |-> local[c].files, at |-> clock]
<1> USE DEF IInv, Goes, MarkerName
<1>1. c \in DOMAIN intentRec /\ c \notin DOMAIN effectRec
  BY DEF PreFill, RecordsMatchProgress
<1>2. \/ marker' = marker
      \/ /\ DOMAIN marker' = DOMAIN marker \union {name}
         /\ name \in DOMAIN marker
         /\ marker'[name] = full
         /\ full \in Markers
         /\ \A n \in DOMAIN marker : n # name => marker'[n] = marker[n]
  <2>1. CASE name \in DOMAIN marker /\ marker[name].ino = local[c].ino
    <3>1. marker' = With(marker, name, full)
      BY <2>1 DEF PreFill
    <3>2. full \in Markers
      BY <2>1 DEF TypeOK, Markers, LocalMemory
    <3> HIDE DEF full
    <3> QED
      BY <2>1, <3>1, <3>2 DEF With
  <2>2. CASE ~(name \in DOMAIN marker /\ marker[name].ino = local[c].ino)
    BY <2>2 DEF PreFill
  <2> QED
    BY <2>1, <2>2
<1>3. \A n \in DOMAIN marker' :
          \/ n \in DOMAIN marker /\ marker'[n] = marker[n]
          \/ n = name /\ marker'[n].body = c
  BY <1>2
<1>4. local' \in [Calls -> LocalMemory] /\ local'[c].link = NoCall
  BY MemoryTyped DEF PreFill, TypeOK
<1>5. TypeOK'
  BY <1>2, <1>4 DEF PreFill, TypeOK, Locations
<1>6. RecordsMatchProgress'
  BY <1>1 DEF PreFill, TypeOK, RecordsMatchProgress
<1>7. MarkerNamesStoredIntent' /\ LinkNamesStoredIntent'
  BY <1>1, <1>3 DEF PreFill, MarkerNamesStoredIntent, LinkNamesStoredIntent
<1>8. ReadLinkNamesStoredIntent'
  BY <1>4 DEF PreFill, TypeOK, ReadLinkNamesStoredIntent
<1>9. TakenMarkerIsGone'
  BY <1>1, <1>3 DEF PreFill, TypeOK, TakenMarkerIsGone
<1> QED
  BY <1>5, <1>6, <1>7, <1>8, <1>9

(* Removing the marker leaves none that names the call. *)
LEMMA PostUnlinkKeeps == ASSUME IInv, NEW c \in Calls, PostUnlink(c) PROVE IInv'
<1> USE DEF IInv, Goes, MarkerName
<1>1. /\ DOMAIN marker' = DOMAIN marker \ {InputOf[c]}
      /\ \A n \in DOMAIN marker' : marker'[n] = marker[n]
  BY DEF PostUnlink, Without, MarkerName
<1>2. TypeOK'
  BY <1>1 DEF PostUnlink, TypeOK, Locations
<1>3. RecordsMatchProgress'
  BY DEF PostUnlink, TypeOK, RecordsMatchProgress
<1>4. MarkerNamesStoredIntent' /\ ReadLinkNamesStoredIntent' /\ LinkNamesStoredIntent'
  BY <1>1 DEF PostUnlink, MarkerNamesStoredIntent, ReadLinkNamesStoredIntent, LinkNamesStoredIntent
(* Only a marker of this call's own input could have named it. *)
<1>5. \A n \in DOMAIN marker' : marker'[n].body # c
  BY <1>1, ConstantsAreTyped DEF TypeOK, MarkerNamesStoredIntent
<1>6. TakenMarkerIsGone'
  BY <1>1, <1>5 DEF PostUnlink, TypeOK, TakenMarkerIsGone
<1> QED
  BY <1>2, <1>3, <1>4, <1>6

(* Writing the effect record signs the link the hook read. *)
LEMMA PostWriteKeeps == ASSUME IInv, NEW c \in Calls, PostWrite(c) PROVE IInv'
<1> DEFINE r == [id |-> local[c].id, at |-> local[c].at,
                 files |-> local[c].files, link |-> local[c].link]
<1> USE DEF IInv, Goes, MarkerName
<1>1. r \in EffectRecords /\ r.link = local[c].link
  BY DEF TypeOK, LocalMemory, EffectRecords
<1>2. /\ DOMAIN effectRec' = DOMAIN effectRec \union {c}
      /\ effectRec'[c] = r
      /\ \A d \in DOMAIN effectRec : d # c => effectRec'[d] = effectRec[d]
  BY DEF PostWrite, With
<1>3. local' \in [Calls -> LocalMemory] /\ local'[c].link = NoCall
  BY MemoryTyped DEF PostWrite, TypeOK
<1> HIDE DEF r
<1>4. TypeOK'
  BY <1>1, <1>2, <1>3 DEF PostWrite, TypeOK, Locations
<1>5. RecordsMatchProgress'
  BY <1>2 DEF PostWrite, TypeOK, RecordsMatchProgress
<1>6. MarkerNamesStoredIntent'
  BY DEF PostWrite, MarkerNamesStoredIntent
<1>7. ReadLinkNamesStoredIntent'
  BY <1>3 DEF PostWrite, TypeOK, ReadLinkNamesStoredIntent
<1>8. LinkNamesStoredIntent'
  BY <1>1, <1>2 DEF PostWrite, ReadLinkNamesStoredIntent, LinkNamesStoredIntent
<1>9. TakenMarkerIsGone'
  BY <1>2 DEF PostWrite, TypeOK, TakenMarkerIsGone
<1> QED
  BY <1>4, <1>5, <1>6, <1>7, <1>8, <1>9

(* A file changed from outside touches nothing the invariant speaks of but *)
(* the files.                                                              *)
LEMMA OutsideChangeKeeps == ASSUME IInv, OutsideChange PROVE IInv'
<1> USE DEF IInv
<1>1. TypeOK'
  BY DEF OutsideChange, TypeOK, Fault, States
<1>2. RecordsMatchProgress' /\ TakenMarkerIsGone'
  BY DEF OutsideChange, RecordsMatchProgress, TakenMarkerIsGone
<1>3. MarkerNamesStoredIntent' /\ ReadLinkNamesStoredIntent' /\ LinkNamesStoredIntent'
  BY DEF OutsideChange, MarkerNamesStoredIntent, ReadLinkNamesStoredIntent, LinkNamesStoredIntent
<1> QED
  BY <1>1, <1>2, <1>3

(* Nor does a step of something else. *)
LEMMA StutterKeeps == ASSUME IInv, UNCHANGED vars PROVE IInv'
BY DEF IInv, vars, TypeOK, RecordsMatchProgress, MarkerNamesStoredIntent,
       ReadLinkNamesStoredIntent, LinkNamesStoredIntent, TakenMarkerIsGone

---------------------------------------------------------------------------
(* The theorems. *)

(* The invariant holds throughout every session. *)
THEOREM Invariance == Spec => []IInv
<1>1. Init => IInv
  BY InitTyped
<1>2. IInv /\ [Next]_vars => IInv'
  <2> SUFFICES ASSUME IInv, [Next]_vars PROVE IInv'
    OBVIOUS
  <2>1. ASSUME NEW c \in Calls, PreStep(c) PROVE IInv'
    BY <2>1, AgentCallKeeps, PreHashKeeps, PreStampKeeps, PreWriteKeeps, PreListKeeps,
       PreStatKeeps, PreSweepKeeps, PreOpenKeeps, PreFillKeeps, PreThrowKeeps, PreKillKeeps, MarkerLostKeeps DEF PreStep
  <2>2. ASSUME NEW c \in Calls, Tool(c) PROVE IInv'
    BY <2>2, ToolKeeps
  <2>3. ASSUME NEW c \in Calls, PostStep(c) PROVE IInv'
    BY <2>3, PostStartKeeps, PostLookKeeps, PostReadKeeps, PostUnlinkKeeps, PostHashKeeps,
       PostStampKeeps, PostWriteKeeps, PostThrowKeeps, PostKillKeeps DEF PostStep
  <2>4. ASSUME OutsideChange PROVE IInv'
    BY <2>4, OutsideChangeKeeps
  <2>5. ASSUME UNCHANGED vars PROVE IInv'
    BY <2>5, StutterKeeps
  <2> QED
    BY <2>1, <2>2, <2>3, <2>4, <2>5 DEF Next
<1> QED
  BY <1>1, <1>2, PTL DEF Spec

(* Every variable of the hooks keeps its type. *)
THEOREM TypeCorrectness == Spec => []TypeOK
<1>1. IInv => TypeOK
  BY DEF IInv
<1> QED
  BY <1>1, Invariance, PTL

(* However many hooks overlap, fail or die, and whatever the sweep removes, *)
(* a link an effect record signs names a stored intent of the same input.   *)
THEOREM LinksNameStoredIntents == Spec => []LinkNamesStoredIntent
<1>1. IInv => LinkNamesStoredIntent
  BY DEF IInv
<1> QED
  BY <1>1, Invariance, PTL

(* When no two calls have the same input, the link is the call's own        *)
(* intent: the marker cannot be confused.                                   *)
THEOREM DistinctInputsLinkTheirOwn ==
    ASSUME \A c, d \in Calls : InputOf[c] = InputOf[d] => c = d
    PROVE  Spec => []LinkIsOwn
<1>1. IInv => LinkIsOwn
  BY DEF IInv, TypeOK, LinkNamesStoredIntent, LinkIsOwn
<1> QED
  BY <1>1, Invariance, PTL

(* Once a call's effect is in the store, no marker offers its intent to a   *)
(* later call.                                                              *)
THEOREM ClosedIntentsHaveNoMarker == Spec => []ClosedIntentHasNoMarker
<1>1. IInv => ClosedIntentHasNoMarker
  BY DEF IInv, TypeOK, TakenMarkerIsGone, ClosedIntentHasNoMarker
<1> QED
  BY <1>1, Invariance, PTL

(* No step of any hook rewrites or removes a record: the record a call      *)
(* writes is the first of its half.                                         *)
THEOREM StoreGrows == Spec => StoreOnlyGrows
<1>1. IInv /\ [Next]_vars => [KeepsStore]_vars
  <2> SUFFICES ASSUME IInv, Next PROVE KeepsStore
    BY DEF vars
  <2>1. ASSUME NEW c \in Calls, PreWrite(c) PROVE KeepsStore
    <3>1. c \notin DOMAIN intentRec
      BY <2>1 DEF IInv, RecordsMatchProgress, PreWrite, Goes
    <3> QED
      BY <2>1, <3>1 DEF PreWrite, With, KeepsStore
  <2>2. ASSUME NEW c \in Calls, PostWrite(c) PROVE KeepsStore
    <3>1. c \notin DOMAIN effectRec
      BY <2>2 DEF IInv, RecordsMatchProgress, PostWrite, Goes
    <3> QED
      BY <2>2, <3>1 DEF PostWrite, With, KeepsStore
  <2>3. ASSUME UNCHANGED <<intentRec, effectRec>> PROVE KeepsStore
    BY <2>3 DEF KeepsStore
  <2>4. \/ UNCHANGED <<intentRec, effectRec>>
        \/ \E c \in Calls : PreWrite(c) \/ PostWrite(c)
    BY DEF Next, PreStep, PostStep, OutsideChange, Tool,
           AgentCall, PreHash, PreStamp, PreList, PreStat, PreSweep, PreOpen, PreFill,
           PreThrow, PreKill, MarkerLost, PostStart, PostLook, PostRead, PostUnlink, PostHash, PostStamp, PostThrow, PostKill
  <2> QED
    BY <2>1, <2>2, <2>3, <2>4
<1> QED
  BY <1>1, Invariance, PTL DEF Spec, StoreOnlyGrows


---------------------------------------------------------------------------
(* The marker of a call in flight. *)

(* At no time are two calls of one input in flight: what a session makes   *)
(* sure of that runs its calls one by one, or never repeats itself.        *)
OneOfAnInput == \A c, d \in InFlight : InputOf[c] = InputOf[d] => c = d

(* What a hook's sweep has listed and not yet dealt with is, while the     *)
(* call of that name is in flight with its marker written, a name whose    *)
(* record was too old already when the sweep began.  A marker found old    *)
(* and then written again by a call of the same input breaks it.           *)
Held(d) == local[d].old \union local[d].doomed
SweepsSpare ==
    \A c, d \in Calls :
        /\ pc[c] \in {"preFill", "ready", "ran", "look"} /\ c \in DOMAIN intentRec
        /\ MarkerName(c) \in Held(d)
        => local[d].cut - intentRec[c].at > Ttl

(* Nothing is stamped with a time to come, nor swept by one.               *)
Stamped ==
    /\ \A c \in Calls : local[c].at =< clock /\ local[c].cut =< clock
    /\ \A c \in DOMAIN intentRec : intentRec[c].at =< clock

(* Where no hook has failed, a young record's marker is the one its hook   *)
(* has opened, from its opening on, and is no older than the record.       *)
Young(c) == c \in DOMAIN intentRec /\ clock - intentRec[c].at =< Ttl
Opened(c) ==
    /\ MarkerName(c) \in DOMAIN marker
    /\ marker[MarkerName(c)].at >= intentRec[c].at

MarkerStands ==
    faults = 0 => \A c \in Calls : Young(c) =>
        /\ pc[c] = "preFill" =>
             Opened(c) /\ marker[MarkerName(c)].ino = local[c].ino
        /\ pc[c] \in {"ready", "ran", "look"} =>
             Opened(c) /\ marker[MarkerName(c)].body = c

(* The clock never goes back, and what is stamped is stamped now.          *)
LEMMA StampedKept ==
    ASSUME IInv, Stamped, [Next]_vars
    PROVE  Stamped' /\ clock =< clock' /\ clock' \in Nat
<1>1. clock \in Nat /\ \A c \in Calls : local[c].at \in Nat /\ local[c].cut \in Nat
  BY DEF IInv, TypeOK, LocalMemory
<1>2. Blank.at = 0 /\ Blank.cut = 0 /\ \A x : [Blank EXCEPT !.id = x].at = 0 /\ [Blank EXCEPT !.id = x].cut = 0
  BY DEF Blank
<1>3. ASSUME NEW c \in Calls, PreStep(c) \/ Tool(c) \/ PostStep(c)
      PROVE  /\ clock =< clock' /\ clock' \in Nat
             /\ \A d \in Calls : d # c => local'[d] = local[d]
             /\ local'[c].at \in {0, local[c].at, clock'}
             /\ local'[c].cut \in {0, local[c].cut, clock'}
             /\ UNCHANGED intentRec \/ PreWrite(c)
  <2>1. local \in [Calls -> LocalMemory]
    BY DEF IInv, TypeOK
  <2>2. CASE AgentCall(c) \/ PostStart(c)
    <3>1. clock' = clock + 1 /\ UNCHANGED intentRec
          /\ local' = [local EXCEPT ![c] = [Blank EXCEPT !.id = clock']]
      BY <2>2 DEF AgentCall, PostStart, Tick
    <3>2. local'[c] = [Blank EXCEPT !.id = clock'] /\ \A d \in Calls : d # c => local'[d] = local[d]
      BY <2>1, <3>1
    <3>3. local'[c].at = 0 /\ local'[c].cut = 0
      BY <1>2, <3>2
    <3> QED
      BY <1>1, <3>1, <3>2, <3>3
  <2>3. CASE PreThrow(c) \/ PreKill(c) \/ MarkerLost(c) \/ PreFill(c)
             \/ PostWrite(c) \/ PostThrow(c) \/ PostKill(c)
    BY <1>1, <1>2, <2>1, <2>3
       DEF PreThrow, PreKill, MarkerLost, PreFill, PostWrite, PostThrow, PostKill
  <2>4. CASE PreStamp(c) \/ PostStamp(c)
    BY <1>1, <2>1, <2>4 DEF PreStamp, PostStamp, Tick, LocalMemory
  <2>5. CASE PreHash(c) \/ PreOpen(c) \/ PostRead(c) \/ PostHash(c)
    BY <1>1, <2>1, <2>5 DEF PreHash, PreOpen, PostRead, PostHash, LocalMemory
  <2>8. CASE PreList(c) \/ PreStat(c) \/ PreSweep(c)
    <3>1. UNCHANGED <<clock, intentRec>> /\ \A d \in Calls : d # c => local'[d] = local[d]
      BY <2>1, <2>8 DEF PreList, PreStat, PreSweep
    <3>2. local'[c].at = local[c].at /\ local'[c].cut \in {local[c].cut, clock}
      BY <2>8, SweepMemory
    <3> QED
      BY <1>1, <3>1, <3>2
  <2>6. CASE PreWrite(c) \/ PostLook(c) \/ PostUnlink(c)
    BY <1>1, <2>6 DEF PreWrite, PostLook, PostUnlink
  <2>7. CASE Tool(c)
    BY <1>1, <2>7, ConstantsAreTyped DEF Tool
  <2> QED
    BY <1>3, <2>2, <2>3, <2>4, <2>5, <2>6, <2>7, <2>8 DEF PreStep, PostStep
<1>4. CASE \E c \in Calls : PreStep(c) \/ Tool(c) \/ PostStep(c)
  <2>1. PICK c \in Calls : PreStep(c) \/ Tool(c) \/ PostStep(c)
    BY <1>4
  <2>2. /\ clock =< clock' /\ clock' \in Nat
        /\ \A d \in Calls : d # c => local'[d] = local[d]
        /\ local'[c].at \in {0, local[c].at, clock'}
        /\ local'[c].cut \in {0, local[c].cut, clock'}
        /\ UNCHANGED intentRec \/ PreWrite(c)
    BY <1>3, <2>1
  <2>3. \A d \in DOMAIN intentRec : intentRec[d].at \in Nat
    BY DEF IInv, TypeOK, IntentRecords
  <2>4. \A d \in Calls : local'[d].at =< clock' /\ local'[d].cut =< clock'
    BY <1>1, <2>2 DEF Stamped
  <2>5. \A d \in DOMAIN intentRec' : intentRec'[d].at =< clock'
    <3>1. CASE UNCHANGED intentRec
      BY <1>1, <2>2, <2>3, <3>1 DEF Stamped
    <3>2. CASE PreWrite(c)
      <4>1. /\ DOMAIN intentRec' = DOMAIN intentRec \union {c}
            /\ intentRec'[c].at = local[c].at /\ clock' = clock
            /\ \A d \in DOMAIN intentRec : d # c => intentRec'[d] = intentRec[d]
        BY <3>2 DEF PreWrite, With
      <4> QED
        BY <4>1 DEF Stamped
    <3> QED
      BY <2>2, <3>1, <3>2
  <2> QED
    BY <2>2, <2>4, <2>5 DEF Stamped
<1>5. CASE OutsideChange \/ UNCHANGED vars
  BY <1>1, <1>5 DEF OutsideChange, vars, Stamped
<1> QED
  BY <1>4, <1>5 DEF Next


(* A step of a call c leaves the markers of the other calls in flight      *)
(* alone: it touches the one under its own name, or sweeps one too old.    *)
LEMMA OthersStand ==
    ASSUME IInv, Stamped, MarkerStands, OneOfAnInput, SweepsSpare, faults = 0,
           NEW c \in Calls, PreStep(c) \/ Tool(c) \/ PostStep(c),
           NEW d \in Calls, d # c, Young(d), clock' >= clock,
           pc[d] \in {"preFill", "ready", "ran", "look"}
    PROVE  /\ MarkerName(d) \in DOMAIN marker'
           /\ marker'[MarkerName(d)] = marker[MarkerName(d)]
<1>1. d \in InFlight /\ Opened(d) /\ MarkerName(d) \in DOMAIN marker
  BY DEF MarkerStands, InFlight, Opened
<1>2. CASE UNCHANGED marker
  BY <1>1, <1>2
<1>3. CASE ~ UNCHANGED marker
  <2>1. PreSweep(c) \/ PreOpen(c) \/ PreFill(c) \/ PostUnlink(c)
    BY <1>3 DEF PreStep, PostStep, Tool, AgentCall, PreHash, PreStamp, PreWrite, PreList, PreStat,
                PreThrow, PreKill, MarkerLost, PostStart, PostLook, PostRead, PostHash, PostStamp, PostWrite,
                PostThrow, PostKill
  <2>2. MarkerName(c) # MarkerName(d)
    <3>1. c \in InFlight
      BY <2>1 DEF PreSweep, PreOpen, PreFill, PostUnlink, Goes, InFlight
    <3> QED
      BY <1>1, <3>1 DEF OneOfAnInput, MarkerName
  <2>6. CASE PreSweep(c)
    <3>1. marker' = Without(marker, local[c].doomed)
      BY <1>3, <2>6 DEF PreSweep
    <3>2. MarkerName(d) \notin local[c].doomed
      <4>1. /\ clock \in Nat /\ Ttl \in Nat /\ local[c].cut \in Nat /\ local[c].cut =< clock
            /\ d \in DOMAIN intentRec /\ intentRec[d].at \in Nat
        BY ConstantsAreTyped DEF IInv, TypeOK, LocalMemory, IntentRecords, Young, Stamped
      <4>2. ~ (local[c].cut - intentRec[d].at > Ttl)
        BY <4>1 DEF Young
      <4> QED
        BY <4>1, <4>2 DEF SweepsSpare, Held
    <3> QED
      BY <1>1, <3>1, <3>2 DEF Without
  <2>3. CASE PreOpen(c)
    <3>1. \E file : marker' = With(marker, MarkerName(c), file)
      BY <2>3 DEF PreOpen
    <3> QED
      BY <1>1, <2>2, <3>1 DEF With
  <2>4. CASE PreFill(c)
    <3>1. \E file : marker' = With(marker, MarkerName(c), file)
      BY <1>3, <2>4 DEF PreFill
    <3> QED
      BY <1>1, <2>2, <3>1 DEF With
  <2>5. CASE PostUnlink(c)
    BY <1>1, <2>2, <2>5 DEF PostUnlink, Without
  <2> QED
    BY <2>1, <2>3, <2>4, <2>5, <2>6
<1> QED
  BY <1>2, <1>3

(* The step of a call gives it the marker it should have, or leaves it.    *)
LEMMA OwnStands ==
    ASSUME IInv, Stamped, MarkerStands, faults = 0, faults' = 0,
           NEW c \in Calls, PreStep(c) \/ Tool(c) \/ PostStep(c), clock' >= clock, Young(c)'
    PROVE  /\ pc'[c] = "preFill" => Opened(c)' /\ marker'[MarkerName(c)].ino = local'[c].ino
           /\ pc'[c] \in {"ready", "ran", "look"} => Opened(c)' /\ marker'[MarkerName(c)].body = c
<1>1. /\ pc \in [Calls -> Locations] /\ local \in [Calls -> LocalMemory]
      /\ \A d \in DOMAIN intentRec : intentRec[d].at \in Nat
      /\ clock \in Nat /\ Ttl \in Nat /\ clock' \in Nat
  <2>1. clock' \in Nat
    BY ConstantsAreTyped
       DEF IInv, TypeOK, PreStep, PostStep, Tool, Tick, AgentCall, PreHash, PreStamp, PreWrite,
           PreList, PreStat, PreSweep, PreOpen, PreFill, PreThrow, PreKill, MarkerLost, PostStart, PostLook, PostRead,
           PostUnlink, PostHash, PostStamp, PostWrite, PostThrow, PostKill
  <2> QED
    BY <2>1, ConstantsAreTyped DEF IInv, TypeOK, IntentRecords
<1>2. CASE PreOpen(c)
  <2> DEFINE ino == IF MarkerName(c) \in DOMAIN marker THEN marker[MarkerName(c)].ino ELSE c
             torn == [ino |-> ino, body |-> Torn, files |-> Nothing, at |-> clock]
  <2>1. /\ marker' = With(marker, MarkerName(c), torn) /\ local' = [local EXCEPT ![c].ino = ino]
        /\ pc' = [pc EXCEPT ![c] = "preFill"] /\ pc[c] = "preOpen" /\ UNCHANGED <<clock, intentRec>>
    BY <1>2 DEF PreOpen, Goes
  <2>2. torn.ino = ino /\ torn.at = clock
    OBVIOUS
  <2> HIDE DEF ino, torn
  <2>3. MarkerName(c) \in DOMAIN marker' /\ marker'[MarkerName(c)] = torn
    BY <2>1 DEF With
  <2>4. local'[c].ino = ino
    BY <1>1, <2>1 DEF LocalMemory
  <2>5. pc'[c] = "preFill"
    BY <1>1, <2>1
  <2>6. intentRec'[c].at =< clock
    BY <2>1 DEF Stamped, Young
  <2>7. MarkerName(c)' = MarkerName(c)
    BY DEF MarkerName
  <2>8. Opened(c)'
    BY <1>1, <2>1, <2>2, <2>3, <2>6, <2>7 DEF Opened, Young
  <2> QED
    BY <2>2, <2>3, <2>4, <2>5, <2>8
<1>3. CASE PreFill(c)
  <2> DEFINE full == [ino |-> local[c].ino, body |-> c, files |-> local[c].files, at |-> clock]
  <2>1. /\ pc[c] = "preFill" /\ pc' = [pc EXCEPT ![c] = "ready"] /\ UNCHANGED <<clock, intentRec>>
        /\ marker' = IF MarkerName(c) \in DOMAIN marker /\ marker[MarkerName(c)].ino = local[c].ino
                     THEN With(marker, MarkerName(c), full) ELSE marker
    BY <1>3 DEF PreFill, Goes
  <2>2. Young(c) /\ MarkerName(c) \in DOMAIN marker /\ marker[MarkerName(c)].ino = local[c].ino
    BY <2>1 DEF Young, MarkerStands, Opened
  <2>3. full.body = c /\ full.at = clock
    OBVIOUS
  <2> HIDE DEF full
  <2>4. MarkerName(c) \in DOMAIN marker' /\ marker'[MarkerName(c)] = full
    BY <2>1, <2>2 DEF With
  <2>5. intentRec'[c].at =< clock
    BY <2>1, <2>2 DEF Stamped, Young
  <2>6. Opened(c)'
    BY <1>1, <2>1, <2>2, <2>3, <2>4, <2>5 DEF Opened, Young, MarkerName
  <2>7. pc'[c] = "ready"
    BY <1>1, <2>1
  <2> QED
    BY <2>3, <2>4, <2>6, <2>7
<1>4. CASE Tool(c) \/ PostStart(c)
  <2>1. /\ pc[c] \in {"ready", "ran"} /\ UNCHANGED <<intentRec, marker>> /\ pc'[c] # "preFill"
    BY <1>1, <1>4 DEF Tool, PostStart, Goes
  <2>2. Young(c)
    BY <1>1, <2>1 DEF Young
  <2> QED
    BY <2>1, <2>2 DEF MarkerStands, Opened, MarkerName
<1>5. CASE PreThrow(c) \/ PreKill(c) \/ MarkerLost(c) \/ PostThrow(c) \/ PostKill(c)
  <2>1. faults' = faults + 1
    BY <1>5 DEF PreThrow, PreKill, MarkerLost, PostThrow, PostKill, Fault
  <2> QED
    BY <2>1
<1>6. CASE AgentCall(c) \/ PreHash(c) \/ PreStamp(c) \/ PreWrite(c)
           \/ PreList(c) \/ PreStat(c) \/ PreSweep(c) \/ PostLook(c) \/ PostRead(c) \/ PostUnlink(c) \/ PostHash(c) \/ PostStamp(c) \/ PostWrite(c)
  <2>1. pc'[c] \notin {"preFill", "ready", "ran", "look"}
    BY <1>1, <1>6 DEF AgentCall, PreHash, PreStamp, PreWrite, PreList, PreStat, PreSweep, PostLook, PostRead, PostUnlink,
                      PostHash, PostStamp, PostWrite, Goes
  <2> QED
    BY <2>1
<1> QED
  BY <1>2, <1>3, <1>4, <1>5, <1>6 DEF PreStep, PostStep


LEMMA MarkerStandsKept ==
    ASSUME IInv, Stamped, MarkerStands, OneOfAnInput, SweepsSpare, [Next]_vars
    PROVE  MarkerStands'
<1> SUFFICES ASSUME faults' = 0 PROVE MarkerStands'
  BY DEF MarkerStands
<1>1. /\ pc \in [Calls -> Locations] /\ local \in [Calls -> LocalMemory] /\ clock \in Nat
      /\ faults \in Nat /\ Ttl \in Nat /\ DOMAIN intentRec \subseteq Calls
      /\ \A d \in DOMAIN intentRec : intentRec[d].at \in Nat
  BY ConstantsAreTyped DEF IInv, TypeOK, IntentRecords
<1>2. clock' >= clock /\ clock' \in Nat
  BY <1>1, StampedKept
<1>3. faults = 0
  <2>1. faults' = faults \/ faults' = faults + 1
    BY DEF Next, vars, PreStep, PostStep, Tool, OutsideChange, Fault, AgentCall, PreHash, PreStamp,
           PreWrite, PreList, PreStat, PreSweep, PreOpen, PreFill, PreThrow, PreKill, MarkerLost,
           PostStart, PostLook, PostRead, PostUnlink, PostHash, PostStamp, PostWrite, PostThrow,
           PostKill
  <2> QED
    BY <1>1, <2>1
<1>4. ASSUME NEW c \in Calls, PreStep(c) \/ Tool(c) \/ PostStep(c)
      PROVE  MarkerStands'
  <2>1. /\ \A d \in Calls : d # c => pc'[d] = pc[d] /\ local'[d] = local[d]
        /\ UNCHANGED intentRec \/ PreWrite(c)
    BY <1>1, <1>4
       DEF Goes, PreStep, PostStep, Tool, AgentCall, PreHash, PreStamp, PreWrite,
           PreList, PreStat, PreSweep, PreOpen, PreFill, PreThrow, PreKill, MarkerLost, PostStart, PostLook, PostRead,
           PostUnlink, PostHash, PostStamp, PostWrite, PostThrow, PostKill
  <2>2. ASSUME NEW d \in Calls, d # c, Young(d)'
        PROVE  /\ pc'[d] = "preFill" => Opened(d)' /\ marker'[MarkerName(d)].ino = local'[d].ino
               /\ pc'[d] \in {"ready", "ran", "look"} => Opened(d)' /\ marker'[MarkerName(d)].body = d
    <3>1. d \in DOMAIN intentRec /\ intentRec'[d] = intentRec[d]
      <4>1. d \in DOMAIN intentRec'
        BY <2>2 DEF Young
      <4> QED
        BY <2>1, <2>2, <4>1 DEF PreWrite, With
    <3>2. Young(d)
      BY <1>1, <1>2, <2>2, <3>1 DEF Young
    <3>3. SUFFICES ASSUME pc[d] \in {"preFill", "ready", "ran", "look"}
                   PROVE  /\ Opened(d)'
                          /\ pc[d] = "preFill" => marker'[MarkerName(d)].ino = local[d].ino
                          /\ pc[d] # "preFill" => marker'[MarkerName(d)].body = d
      BY <2>1, <2>2
    <3>4. /\ MarkerName(d) \in DOMAIN marker'
          /\ marker'[MarkerName(d)] = marker[MarkerName(d)]
      BY <1>2, <1>3, <1>4, <2>2, <3>2, <3>3, OthersStand
    <3> QED
      BY <1>3, <3>1, <3>2, <3>3, <3>4 DEF MarkerStands, Opened, MarkerName
  <2>3. ASSUME Young(c)'
        PROVE  /\ pc'[c] = "preFill" => Opened(c)' /\ marker'[MarkerName(c)].ino = local'[c].ino
               /\ pc'[c] \in {"ready", "ran", "look"} => Opened(c)' /\ marker'[MarkerName(c)].body = c
    BY <1>2, <1>3, <1>4, <2>3, OwnStands
  <2> QED
    BY <2>2, <2>3 DEF MarkerStands, MarkerName
<1>5. CASE OutsideChange \/ UNCHANGED vars
  BY <1>3, <1>5 DEF OutsideChange, vars, MarkerStands, Young, Opened, MarkerName
<1> QED
  BY <1>4, <1>5 DEF Next

(* At the start of a session nothing is in flight.                         *)
LEMMA MarkerStandsInit == Init => Stamped /\ MarkerStands
<1> SUFFICES ASSUME Init PROVE Stamped /\ MarkerStands
  OBVIOUS
<1>1. clock = 0 /\ local = [c \in Calls |-> Blank] /\ Blank.at = 0 /\ Blank.cut = 0 /\ DOMAIN intentRec = {}
  BY DEF Init, Blank, Nothing
<1> QED
  BY <1>1 DEF Stamped, MarkerStands, Young

(* While no two calls of one input are in flight, no sweep holds on to the *)
(* name of one, and no hook has failed, the marker of a call in flight is  *)
(* there to be taken as long as it is younger than its lifetime: no other  *)
(* call's hook sweeps it, takes it or writes over it.                      *)
LEMMA OwnMarkerInFlight == Spec /\ []OneOfAnInput /\ []SweepsSpare => []InFlightHasMarker
<1>1. Init => Stamped /\ MarkerStands
  BY MarkerStandsInit
<1>2. IInv /\ Stamped /\ MarkerStands /\ OneOfAnInput /\ SweepsSpare /\ [Next]_vars => (Stamped /\ MarkerStands)'
  BY StampedKept, MarkerStandsKept
<1>3. IInv /\ MarkerStands => InFlightHasMarker
  BY DEF IInv, TypeOK, MarkerStands, Young, Opened, InFlightHasMarker
<1> QED
  BY <1>1, <1>2, <1>3, Invariance, PTL DEF Spec

(* A step of a hook adds nothing to what its sweep holds, but for the      *)
(* listing.                                                                *)
SweepIsOpening == \A d \in Calls : Held(d) # {} => pc[d] = "preOpen"

LEMMA StepHolds ==
    ASSUME IInv, SweepIsOpening, NEW c \in Calls, PreStep(c) \/ Tool(c) \/ PostStep(c)
    PROVE  /\ \A d \in Calls : d # c => pc'[d] = pc[d] /\ local'[d] = local[d]
           /\ \/ PreList(c)
              \/ /\ pc[c] = "preOpen" /\ pc'[c] = "preOpen"
                 /\ Held(c)' \subseteq Held(c) /\ local'[c].cut = local[c].cut
              \/ Held(c)' = {}
<1>1. pc \in [Calls -> Locations] /\ local \in [Calls -> LocalMemory]
  BY DEF IInv, TypeOK
<1>2. Blank.old = {} /\ Blank.doomed = {}
      /\ \A x : [Blank EXCEPT !.id = x].old = {} /\ [Blank EXCEPT !.id = x].doomed = {}
  BY DEF Blank
<1>3. CASE AgentCall(c) \/ PostStart(c)
  <2>1. /\ \A d \in Calls : d # c => pc'[d] = pc[d] /\ local'[d] = local[d]
        /\ local'[c] = [Blank EXCEPT !.id = clock']
    BY <1>1, <1>3 DEF AgentCall, PostStart, Goes
  <2> QED
    BY <1>2, <2>1 DEF Held
<1>4. CASE PreThrow(c) \/ PreKill(c) \/ MarkerLost(c) \/ PreFill(c)
           \/ PostWrite(c) \/ PostThrow(c) \/ PostKill(c)
  <2>1. /\ \A d \in Calls : d # c => pc'[d] = pc[d] /\ local'[d] = local[d]
        /\ local'[c] = Blank
    BY <1>1, <1>4 DEF PreThrow, PreKill, MarkerLost, PreFill, PostWrite, PostThrow, PostKill, Goes
  <2> QED
    BY <1>2, <2>1 DEF Held
<1>5. CASE PreHash(c) \/ PreStamp(c) \/ PreWrite(c) \/ Tool(c) \/ PostLook(c) \/ PostRead(c)
           \/ PostUnlink(c) \/ PostHash(c) \/ PostStamp(c)
  <2>1. /\ \A d \in Calls : d # c => pc'[d] = pc[d] /\ local'[d] = local[d]
        /\ pc[c] # "preOpen"
    BY <1>1, <1>5 DEF PreHash, PreStamp, PreWrite, Tool, PostLook, PostRead, PostUnlink, PostHash,
                      PostStamp, Goes
  <2>2. local'[c].old = local[c].old /\ local'[c].doomed = local[c].doomed
    BY <1>1, <1>5 DEF PreHash, PreStamp, PreWrite, Tool, PostLook, PostRead, PostUnlink, PostHash,
                      PostStamp, LocalMemory
  <2> QED
    BY <2>1, <2>2 DEF Held, SweepIsOpening
<1>6. CASE PreOpen(c)
  <2>1. /\ \A d \in Calls : d # c => pc'[d] = pc[d] /\ local'[d] = local[d]
        /\ local'[c].old = {} /\ local'[c].doomed = {}
    BY <1>1, <1>6 DEF PreOpen, Goes, LocalMemory
  <2> QED
    BY <2>1 DEF Held
<1>7. CASE PreStat(c) \/ PreSweep(c)
  <2>1. /\ \A d \in Calls : d # c => pc'[d] = pc[d] /\ local'[d] = local[d]
        /\ pc[c] = "preOpen" /\ pc'[c] = "preOpen"
    BY <1>1, <1>7 DEF PreStat, PreSweep, Goes
  <2>2. /\ local'[c].old \subseteq local[c].old /\ local'[c].cut = local[c].cut
        /\ local'[c].doomed \subseteq local[c].old
    BY <1>7, SweepMemory
  <2> QED
    BY <2>1, <2>2 DEF Held
<1>8. CASE PreList(c)
  <2>1. \A d \in Calls : d # c => pc'[d] = pc[d] /\ local'[d] = local[d]
    BY <1>1, <1>8 DEF PreList, Goes
  <2> QED
    BY <1>8, <2>1
<1> QED
  BY <1>3, <1>4, <1>5, <1>6, <1>7, <1>8 DEF PreStep, PostStep

LEMMA SweepIsOpeningKept ==
    ASSUME IInv, SweepIsOpening, [Next]_vars
    PROVE  SweepIsOpening'
<1>1. ASSUME NEW c \in Calls, PreStep(c) \/ Tool(c) \/ PostStep(c)
      PROVE  SweepIsOpening'
  <2>1. PreList(c) => pc'[c] = "preOpen"
    BY DEF PreList, Goes, IInv, TypeOK
  <2>2. \A d \in Calls : d # c => pc'[d] = pc[d] /\ Held(d)' = Held(d)
    BY <1>1, StepHolds DEF Held
  <2>3. Held(c)' # {} => pc'[c] = "preOpen"
    BY <1>1, <2>1, StepHolds
  <2> QED
    BY <2>2, <2>3 DEF SweepIsOpening
<1>2. CASE OutsideChange \/ UNCHANGED vars
  BY <1>2 DEF OutsideChange, vars, SweepIsOpening, Held
<1> QED
  BY <1>1, <1>2 DEF Next

LEMMA SweepIsOpeningInit == Init => SweepIsOpening
BY DEF Init, SweepIsOpening, Held, Blank

(* Where every call has its own input, a marker is its call's, opened by   *)
(* it and no older than its record; so what a sweep holds is too old.      *)
Unopened == {"idle", "preHash", "preStamp", "preWrite", "preList", "preOpen"}
OldAreOld ==
    \A c \in Calls :
        /\ MarkerName(c) \in DOMAIN marker =>
              /\ pc[c] \notin Unopened
              /\ c \in DOMAIN intentRec
              /\ marker[MarkerName(c)].at >= intentRec[c].at
        /\ \A d \in Calls : MarkerName(c) \in Held(d) =>
              /\ pc[c] \notin Unopened
              /\ c \in DOMAIN intentRec
              /\ local[d].cut - intentRec[c].at > Ttl

(* What a step makes of the markers, by name.                              *)
LEMMA StepMarks ==
    ASSUME IInv, Stamped, NEW c \in Calls, PreStep(c) \/ Tool(c) \/ PostStep(c),
           NEW n \in DOMAIN marker'
    PROVE  \/ n \in DOMAIN marker /\ marker'[n] = marker[n]
           \/ /\ n = MarkerName(c) /\ marker'[n].at = clock /\ clock' = clock
              /\ c \in DOMAIN intentRec /\ UNCHANGED intentRec
              /\ pc'[c] \notin Unopened
<1>1. pc \in [Calls -> Locations]
  BY DEF IInv, TypeOK
<1>2. CASE UNCHANGED marker
  BY <1>2
<1>3. CASE PreSweep(c) \/ PostUnlink(c)
  BY <1>3 DEF PreSweep, PostUnlink, Without
<1>4. CASE PreOpen(c) \/ PreFill(c)
  <2>1. \/ marker' = marker
        \/ \E file : marker' = With(marker, MarkerName(c), file) /\ file.at = clock
    <3>1. CASE PreOpen(c)
      BY <3>1 DEF PreOpen
    <3>2. CASE PreFill(c)
      BY <3>2 DEF PreFill
    <3> QED
      BY <1>4, <3>1, <3>2
  <2>2. /\ clock' = clock /\ UNCHANGED intentRec /\ c \in DOMAIN intentRec
        /\ pc'[c] \notin Unopened
    BY <1>1, <1>4 DEF PreOpen, PreFill, Goes, IInv, RecordsMatchProgress, Unopened
  <2> QED
    BY <2>1, <2>2 DEF With
<1> QED
  BY <1>2, <1>3, <1>4 DEF PreStep, PostStep, Tool, AgentCall, PreHash, PreStamp, PreWrite, PreList,
     PreStat, PreThrow, PreKill, MarkerLost, PostStart, PostLook, PostRead, PostHash, PostStamp,
     PostWrite, PostThrow, PostKill

(* Nobody goes back before the opening, and a record stays as it is.       *)
LEMMA StepOnward ==
    ASSUME IInv, NEW c \in Calls, PreStep(c) \/ Tool(c) \/ PostStep(c),
           NEW d \in Calls, d \in DOMAIN intentRec, pc[d] \notin Unopened
    PROVE  pc'[d] \notin Unopened /\ d \in DOMAIN intentRec' /\ intentRec'[d] = intentRec[d]
<1>1. pc \in [Calls -> Locations]
  BY DEF IInv, TypeOK
<1>2. CASE PreWrite(c)
  <2>1. d # c
    BY <1>2 DEF PreWrite, Goes, Unopened
  <2> QED
    BY <1>1, <1>2, <2>1 DEF PreWrite, Goes, With
<1>3. CASE AgentCall(c) \/ PreHash(c) \/ PreStamp(c) \/ PreList(c) \/ PreStat(c) \/ PreSweep(c)
  <2>1. d # c
    BY <1>3 DEF AgentCall, PreHash, PreStamp, PreList, PreStat, PreSweep, Goes, Unopened
  <2> QED
    BY <1>1, <1>3, <2>1 DEF AgentCall, PreHash, PreStamp, PreList, PreStat, PreSweep, Goes
<1>4. CASE PreOpen(c) \/ PreFill(c) \/ PreThrow(c) \/ PreKill(c) \/ MarkerLost(c) \/ Tool(c)
           \/ PostStart(c) \/ PostLook(c) \/ PostRead(c) \/ PostUnlink(c) \/ PostHash(c)
           \/ PostStamp(c) \/ PostWrite(c) \/ PostThrow(c) \/ PostKill(c)
  <2>1. \E to : pc' = [pc EXCEPT ![c] = to] /\ to \notin Unopened
    BY <1>4 DEF PreOpen, PreFill, PreThrow, PreKill, MarkerLost, Tool, PostStart, PostLook, PostRead,
                PostUnlink, PostHash, PostStamp, PostWrite, PostThrow, PostKill, Goes, Unopened
  <2>2. UNCHANGED intentRec
    BY <1>4 DEF PreOpen, PreFill, PreThrow, PreKill, MarkerLost, Tool, PostStart, PostLook, PostRead,
                PostUnlink, PostHash, PostStamp, PostWrite, PostThrow, PostKill
  <2> QED
    BY <1>1, <2>1, <2>2
<1> QED
  BY <1>2, <1>3, <1>4 DEF PreStep, PostStep

LEMMA OldAreOldKept ==
    ASSUME \A c, d \in Calls : InputOf[c] = InputOf[d] => c = d,
           IInv, Stamped, SweepIsOpening, OldAreOld, [Next]_vars
    PROVE  OldAreOld'
<1>1. ASSUME NEW s \in Calls, PreStep(s) \/ Tool(s) \/ PostStep(s)
      PROVE  OldAreOld'
  <2>1. ASSUME NEW c \in Calls, MarkerName(c) \in DOMAIN marker'
        PROVE  /\ pc'[c] \notin Unopened
               /\ c \in DOMAIN intentRec'
               /\ marker'[MarkerName(c)].at >= intentRec'[c].at
    <3>1. CASE MarkerName(c) \in DOMAIN marker /\ marker'[MarkerName(c)] = marker[MarkerName(c)]
      BY <1>1, <3>1, StepOnward DEF OldAreOld
    <3>2. CASE /\ MarkerName(c) = MarkerName(s) /\ marker'[MarkerName(c)].at = clock
               /\ s \in DOMAIN intentRec /\ UNCHANGED intentRec /\ pc'[s] \notin Unopened
      <4>1. c = s
        BY <3>2 DEF MarkerName
      <4>2. intentRec[c].at =< clock /\ clock \in Nat /\ intentRec[c].at \in Nat
        BY <3>2, <4>1 DEF Stamped, IInv, TypeOK, IntentRecords
      <4> QED
        BY <3>2, <4>1, <4>2
    <3> QED
      BY <1>1, <2>1, <3>1, <3>2, StepMarks
  <2>2. ASSUME NEW c \in Calls, NEW d \in Calls, MarkerName(c) \in Held(d)'
        PROVE  /\ pc'[c] \notin Unopened
               /\ c \in DOMAIN intentRec'
               /\ local'[d].cut - intentRec'[c].at > Ttl
    <3>1. CASE MarkerName(c) \in Held(d) /\ local'[d].cut = local[d].cut
      BY <1>1, <3>1, StepOnward DEF OldAreOld
    <3>2. CASE d = s /\ PreList(s)
      <4>1. /\ local'[s].cut = clock
            /\ Held(s)' = {n \in DOMAIN marker : Stale(n, clock)} \union local[s].doomed
        BY <3>2, SweepMemory DEF Held
      <4>2. local[s].doomed = {}
        BY <3>2 DEF SweepIsOpening, Held, PreList, Goes
      <4>3. MarkerName(c) \in DOMAIN marker /\ clock - marker[MarkerName(c)].at > Ttl
        BY <2>2, <3>2, <4>1, <4>2 DEF Stale
      <4>4. /\ pc[c] \notin Unopened /\ c \in DOMAIN intentRec
            /\ marker[MarkerName(c)].at >= intentRec[c].at
        BY <4>3 DEF OldAreOld
      <4>5. /\ clock \in Nat /\ Ttl \in Nat /\ intentRec[c].at \in Nat
            /\ marker[MarkerName(c)].at \in Nat
        BY <4>3, <4>4, ConstantsAreTyped DEF IInv, TypeOK, IntentRecords, Markers
      <4>6. clock - intentRec[c].at > Ttl
        BY <4>3, <4>4, <4>5
      <4> QED
        BY <1>1, <3>2, <4>1, <4>4, <4>6, StepOnward
    <3>3. \/ MarkerName(c) \in Held(d) /\ local'[d].cut = local[d].cut
          \/ d = s /\ PreList(s)
      BY <1>1, <2>2, StepHolds DEF Held
    <3> QED
      BY <3>1, <3>2, <3>3
  <2> QED
    BY <2>1, <2>2 DEF OldAreOld, MarkerName
<1>2. CASE OutsideChange \/ UNCHANGED vars
  BY <1>2 DEF OutsideChange, vars, OldAreOld, Held, MarkerName
<1> QED
  BY <1>1, <1>2 DEF Next

(* In a session where no two calls have the same input, however many of    *)
(* them overlap, a call in flight keeps its marker while it is young and   *)
(* no hook has failed.                                                     *)
THEOREM DistinctInputsKeepMarkers ==
    ASSUME \A c, d \in Calls : InputOf[c] = InputOf[d] => c = d
    PROVE  Spec => []InFlightHasMarker
<1>1. OneOfAnInput
  BY DEF OneOfAnInput, InFlight
<1>2. Init => Stamped /\ SweepIsOpening /\ OldAreOld
  <2>1. Init => Stamped /\ SweepIsOpening
    BY MarkerStandsInit, SweepIsOpeningInit
  <2>2. Init => OldAreOld
    BY DEF Init, OldAreOld, Held, Blank, Nothing
  <2> QED
    BY <2>1, <2>2
<1>3. IInv /\ Stamped /\ SweepIsOpening /\ OldAreOld /\ [Next]_vars
      => (Stamped /\ SweepIsOpening /\ OldAreOld)'
  BY StampedKept, SweepIsOpeningKept, OldAreOldKept
<1>4. OldAreOld => SweepsSpare
  BY DEF OldAreOld, SweepsSpare
<1> QED
  BY <1>1, <1>2, <1>3, <1>4, Invariance, OwnMarkerInFlight, PTL DEF Spec

(* With room for one call, a call is made when none is in flight.          *)
LEMMA OneByOne ==
    ASSUME MaxInFlight = 1, IInv, \A c, d \in InFlight : c = d, [Next]_vars
    PROVE  (\A c, d \in InFlight : c = d)'
<1>1. pc \in [Calls -> Locations]
  BY DEF IInv, TypeOK
<1>2. ASSUME NEW c \in Calls, AgentCall(c)
      PROVE  InFlight' \subseteq {c}
  <2>1. Cardinality(InFlight) < 1
    BY <1>2 DEF AgentCall
  <2>2. InFlight = {}
    <3> SUFFICES ASSUME NEW d \in InFlight PROVE FALSE
      OBVIOUS
    <3>1. InFlight = {d}
      OBVIOUS
    <3>2. Cardinality({d}) = 1
      BY FS_Singleton
    <3> QED
      BY <2>1, <3>1, <3>2
  <2> QED
    BY <1>1, <1>2, <2>2 DEF AgentCall, Goes, InFlight
<1>3. (\E c \in Calls : AgentCall(c)) \/ InFlight' \subseteq InFlight
  <2>1. ASSUME NEW c \in Calls, PreStep(c) \/ Tool(c) \/ PostStep(c), ~ AgentCall(c)
        PROVE  pc[c] \notin {"idle", "over"} /\ \E to : pc' = [pc EXCEPT ![c] = to]
    BY <2>1 DEF Goes, PreStep, PostStep, Tool, PreHash, PreStamp, PreWrite, PreList, PreStat,
                PreSweep, PreOpen, PreFill,
                PreThrow, PreKill, MarkerLost, PostStart, PostLook, PostRead, PostUnlink, PostHash,
                PostStamp, PostWrite, PostThrow, PostKill
  <2>2. ASSUME NEW c \in Calls, PreStep(c) \/ Tool(c) \/ PostStep(c), ~ AgentCall(c)
        PROVE  InFlight' \subseteq InFlight
    BY <1>1, <2>1, <2>2 DEF InFlight
  <2>3. CASE OutsideChange \/ UNCHANGED vars
    BY <2>3 DEF OutsideChange, vars, InFlight
  <2> QED
    BY <2>2, <2>3 DEF Next
<1> QED
  BY <1>2, <1>3

(* So it does in a session whose calls run one by one, whatever they       *)
(* repeat: nobody else's sweep is under way.                               *)
THEOREM CallsOneByOneKeepMarkers ==
    ASSUME MaxInFlight = 1
    PROVE  Spec => []InFlightHasMarker
<1> DEFINE Single == \A c, d \in InFlight : c = d
<1>1. Init => Single
  BY DEF Init, InFlight
<1>2. IInv /\ Single /\ [Next]_vars => Single'
  BY OneByOne
<1>3. Single => OneOfAnInput
  BY DEF OneOfAnInput
<1> HIDE DEF Single
<1>4. Spec => []OneOfAnInput
  BY <1>1, <1>2, <1>3, Invariance, PTL DEF Spec
<1>5. Single /\ SweepIsOpening => SweepsSpare
  <2> SUFFICES ASSUME Single, SweepIsOpening, NEW c \in Calls, NEW d \in Calls,
                      pc[c] \in {"preFill", "ready", "ran", "look"}, MarkerName(c) \in Held(d)
               PROVE  FALSE
    BY DEF SweepsSpare
  <2>1. pc[d] = "preOpen"
    BY DEF SweepIsOpening
  <2>2. c \in InFlight /\ d \in InFlight
    BY <2>1 DEF InFlight
  <2> QED
    BY <2>1, <2>2 DEF Single
<1>6. Spec => []SweepsSpare
  BY <1>1, <1>2, <1>5, Invariance, SweepIsOpeningInit, SweepIsOpeningKept, PTL DEF Spec
<1> QED
  BY <1>4, <1>6, OwnMarkerInFlight, PTL


---------------------------------------------------------------------------
(* The pass as an operator: what Bind makes of any intents and effects.    *)

(* Every set of numbers has a least one: what the inductions below use.    *)
LEMMA LeastNat ==
    ASSUME NEW T \in SUBSET Nat, T # {}
    PROVE  \E x \in T : \A y \in T : x <= y
<1> DEFINE R == OpToRel(<, Nat)
<1>1. IsWellFoundedOn(R, Nat)
  BY NatLessThanWellFounded
<1>2. \E x \in T : \A y \in T : <<y, x>> \notin R
  <2> HIDE DEF R
  <2> QED
    BY <1>1, WFMin
<1>3. \A x, y \in Nat : <<x, y>> \in R <=> x < y
  BY DEF OpToRel
<1>4. PICK x \in T : \A y \in T : <<y, x>> \notin R
  BY <1>2
<1>5. x \in Nat /\ \A y \in T : y \in Nat
  OBVIOUS
<1>6. \A y \in T : x <= y
  <2> SUFFICES ASSUME NEW y \in T PROVE x <= y
    OBVIOUS
  <2>1. ~ (y < x)
    BY <1>3, <1>4, <1>5
  <2> QED
    BY <1>5, <2>1
<1> QED
  BY <1>4, <1>6

IdsOf(records) == {r.id : r \in records}

Ordered(records) ==
    /\ \A r \in records : r.id \in Nat /\ r.at \in Nat
    /\ \A r, s \in records : r.id = s.id => r = s

IsLatest(e, effs) == \A f \in effs : f = e \/ TimeBefore(f, e)

(* Of some effects one is the latest.                                      *)
LEMMA LatestIsThere ==
    ASSUME NEW effs, IsFiniteSet(effs), Ordered(effs), effs # {}
    PROVE  Latest(effs) \in effs
<1> DEFINE Bad(n) == \E T \in SUBSET effs : /\ T # {} /\ Cardinality(T) = n
                                           /\ ~ \E e \in T : IsLatest(e, T)
           Bads == {n \in Nat : Bad(n)}
<1>1. ASSUME Bads # {} PROVE FALSE
  <2>1. PICK n \in Bads : \A m \in Bads : n <= m
    <3> HIDE DEF Bads
    <3>1. Bads \in SUBSET Nat
      BY DEF Bads
    <3> QED
      BY <1>1, <3>1, LeastNat
  <2>2. PICK T \in SUBSET effs : /\ T # {} /\ Cardinality(T) = n
                                 /\ ~ \E e \in T : IsLatest(e, T)
    BY <2>1
  <2>3. PICK x \in T : TRUE
    BY <2>2
  <2> DEFINE U == T \ {x}
  <2>4. IsFiniteSet(T)
    BY <2>2, FS_Subset
  <2>5. IsFiniteSet(U) /\ Cardinality(U) = n - 1 /\ Cardinality(U) \in Nat
    BY <2>2, <2>3, <2>4, FS_RemoveElement, FS_CardinalityType
  <2>6. U # {}
    <3>1. IsLatest(x, {x})
      BY DEF IsLatest
    <3> QED
      BY <2>2, <2>3, <3>1
  <2>7. PICK y \in U : IsLatest(y, U)
    <3>1. n - 1 \notin Bads
      BY <2>1, <2>5
    <3>2. ~ Bad(n - 1)
      BY <2>5, <3>1
    <3> QED
      BY <2>2, <2>5, <2>6, <3>2
  <2>8. TimeBefore(x, y) \/ TimeBefore(y, x)
    BY <2>2, <2>3, <2>7 DEF Ordered, TimeBefore
  <2>9. CASE TimeBefore(x, y)
    BY <2>2, <2>7, <2>9 DEF IsLatest
  <2>10. CASE TimeBefore(y, x)
    <3>1. ASSUME NEW f \in U PROVE TimeBefore(f, x)
      <4>1. f = y \/ TimeBefore(f, y)
        BY <2>7 DEF IsLatest
      <4> QED
        BY <2>2, <2>3, <2>7, <2>10, <4>1 DEF Ordered, TimeBefore
    <3> QED
      BY <2>2, <2>3, <3>1 DEF IsLatest
  <2> QED
    BY <2>8, <2>9, <2>10
<1>2. Cardinality(effs) \in Nat
  BY FS_CardinalityType
<1>3. ~ Bad(Cardinality(effs))
  BY <1>1, <1>2
<1>4. \E e \in effs : IsLatest(e, effs)
  BY <1>3
<1> QED
  BY <1>4 DEF Latest, IsLatest

(* f is what is bound after each set of the domain. *)
Passes(f, ints, effs, D) ==
    f = [handled \in D |->
            IF handled = {} THEN NothingBound(effs)
            ELSE BindOne(f[handled \ {Latest(handled)}], Latest(handled), ints)]

UpTo(effs, n) == {h \in SUBSET effs : Cardinality(h) <= n}

LEMMA PassExists ==
    ASSUME NEW ints, NEW effs, IsFiniteSet(effs), Ordered(effs), NEW n \in Nat
    PROVE  \E f : Passes(f, ints, effs, UpTo(effs, n))
<1> DEFINE Bads == {k \in Nat : ~ \E f : Passes(f, ints, effs, UpTo(effs, k))}
<1>1. SUFFICES ASSUME Bads # {} PROVE FALSE
  OBVIOUS
<1>2. PICK k \in Bads : \A m \in Bads : k <= m
  <2>1. Bads \in SUBSET Nat
    OBVIOUS
  <2> HIDE DEF Bads
  <2> QED
    BY <1>1, <2>1, LeastNat
<1>3. k \in Nat /\ ~ \E f : Passes(f, ints, effs, UpTo(effs, k))
  BY <1>2
<1>4. \A h \in SUBSET effs : IsFiniteSet(h) /\ Cardinality(h) \in Nat
  BY FS_Subset, FS_CardinalityType
<1>5. CASE k = 0
  <2> DEFINE f == [h \in {{}} |-> NothingBound(effs)]
  <2>1. UpTo(effs, 0) = {{}}
    BY <1>4, FS_EmptySet DEF UpTo
  <2>2. f = [h \in {{}} |-> IF h = {} THEN NothingBound(effs)
                            ELSE BindOne(f[h \ {Latest(h)}], Latest(h), ints)]
    OBVIOUS
  <2>3. Passes(f, ints, effs, UpTo(effs, k))
    BY <1>5, <2>1, <2>2 DEF Passes
  <2> QED
    BY <1>3, <2>3
<1>6. CASE k # 0
  <2>1. k - 1 \in Nat /\ k - 1 \notin Bads
    BY <1>2, <1>3, <1>6
  <2>2. PICK f : Passes(f, ints, effs, UpTo(effs, k - 1))
    BY <2>1
  <2> HIDE DEF Bads
  <2> DEFINE Made(w, h) == IF h = {} THEN NothingBound(effs)
                           ELSE BindOne(w[h \ {Latest(h)}], Latest(h), ints)
             g == [h \in UpTo(effs, k) |-> IF h \in UpTo(effs, k - 1) THEN f[h] ELSE Made(f, h)]
  <2>3. f = [h \in UpTo(effs, k - 1) |-> Made(f, h)]
    BY <2>2 DEF Passes
  <2> HIDE DEF Made
  <2>4. \A h \in UpTo(effs, k - 1) : f[h] = Made(f, h)
    BY <2>3
  <2>5. ASSUME NEW h \in UpTo(effs, k), h # {}
        PROVE  h \ {Latest(h)} \in UpTo(effs, k - 1) /\ h \ {Latest(h)} \in UpTo(effs, k)
    <3>1. h \in SUBSET effs /\ IsFiniteSet(h) /\ Cardinality(h) <= k /\ Cardinality(h) \in Nat
      BY <1>4 DEF UpTo
    <3>2. Ordered(h)
      BY <3>1 DEF Ordered
    <3>3. Latest(h) \in h
      BY <2>5, <3>1, <3>2, LatestIsThere
    <3>4. Cardinality(h \ {Latest(h)}) = Cardinality(h) - 1
      BY <3>1, <3>3, FS_RemoveElement
    <3> QED
      BY <1>3, <3>1, <3>4 DEF UpTo
  <2>6. ASSUME NEW h \in UpTo(effs, k) PROVE g[h] = Made(g, h)
    <3>1. g[h] = Made(f, h)
      BY <2>4
    <3>2. CASE h = {}
      BY <3>1, <3>2 DEF Made
    <3>3. CASE h # {}
      <4>1. g[h \ {Latest(h)}] = f[h \ {Latest(h)}]
        BY <2>5, <3>3
      <4> HIDE DEF g
      <4> QED
        BY <3>1, <3>3, <4>1 DEF Made
    <3> QED
      BY <3>2, <3>3
  <2>7. g = [h \in UpTo(effs, k) |-> g[h]]
    OBVIOUS
  <2> HIDE DEF g
  <2>8. g = [h \in UpTo(effs, k) |-> Made(g, h)]
    BY <2>6, <2>7
  <2>9. Passes(g, ints, effs, UpTo(effs, k))
    BY <2>8 DEF Passes, Made
  <2> QED
    BY <1>3, <2>9
<1> QED
  BY <1>5, <1>6


Links(ints, effs) == IdsOf(ints) \union {e.link : e \in effs}

(* What has been bound of ints and effs once the effects of handled have   *)
(* had their turn: an effect is linked to the intent it names or, when the *)
(* bundle does not hold that one, to one of its input; it names that one   *)
(* then; and what is not linked is disclosed, or names one that is.        *)
BoundTyped(bnd, ints, effs) ==
    bnd \in [pairs   : SUBSET (IdsOf(ints) \X IdsOf(effs)),
             named   : [IdsOf(effs) -> Links(ints, effs)],
             orphans : SUBSET IdsOf(effs)]

Fits(i, e, ints) ==
    i.id = e.link \/ (e.link \notin IdsOf(ints) /\ i.input = e.input)

PairsFit(bnd, ints, handled) ==
    \A p \in bnd.pairs : \E i \in ints, e \in handled : p = <<i.id, e.id>> /\ Fits(i, e, ints)

PairsNamed(bnd) == \A p \in bnd.pairs : bnd.named[p[2]] = p[1]

NamesStand(bnd, effs) ==
    \A e \in effs : bnd.named[e.id] = e.link \/ <<bnd.named[e.id], e.id>> \in bnd.pairs

HandledCounted(bnd, handled) ==
    \A e \in handled : e.id \in bnd.orphans \/ bnd.named[e.id] \in Claimed(bnd)

Settled(bnd, ints, effs, handled) ==
    /\ BoundTyped(bnd, ints, effs)
    /\ PairsFit(bnd, ints, handled)
    /\ PairsNamed(bnd)
    /\ NamesStand(bnd, effs)
    /\ HandledCounted(bnd, handled)

LEMMA NothingSettled ==
    ASSUME NEW ints, NEW effs, Ordered(effs)
    PROVE  Settled(NothingBound(effs), ints, effs, {})
<1> DEFINE b == NothingBound(effs)
<1>1. b.pairs = {} /\ b.orphans = {} /\ DOMAIN b.named = IdsOf(effs)
  BY DEF NothingBound, IdsOf
<1>2. ASSUME NEW e \in effs PROVE b.named[e.id] = e.link
  <2> DEFINE f == CHOOSE f \in effs : f.id = e.id
  <2>1. f \in effs /\ f.id = e.id
    OBVIOUS
  <2>2. f = e
    BY <2>1 DEF Ordered
  <2> DEFINE w == [x \in {g.id : g \in effs} |-> (CHOOSE g \in effs : g.id = x).link]
  <2>3. b.named = w
    BY DEF NothingBound
  <2>4. w[e.id] = f.link
    OBVIOUS
  <2> HIDE DEF b, w, f
  <2> QED
    BY <2>2, <2>3, <2>4
<1>3. b.named \in [IdsOf(effs) -> Links(ints, effs)]
  <2>1. b.named = [x \in IdsOf(effs) |-> b.named[x]]
    BY DEF NothingBound, IdsOf
  <2>2. \A x \in IdsOf(effs) : b.named[x] \in Links(ints, effs)
    BY <1>2 DEF Links, IdsOf
  <2> QED
    BY <2>1, <2>2
<1>4. b = [pairs |-> b.pairs, named |-> b.named, orphans |-> b.orphans]
  BY DEF NothingBound
<1>5. BoundTyped(b, ints, effs)
  <2> HIDE DEF b
  <2> QED
    BY <1>1, <1>3, <1>4 DEF BoundTyped
<1> HIDE DEF b
<1>6. Settled(b, ints, effs, {})
  BY <1>1, <1>2, <1>5 DEF Settled, PairsFit, PairsNamed, NamesStand, HandledCounted
<1> QED
  BY <1>6 DEF b

(* An intent found for an effect fits it, and is unclaimed unless the      *)
(* effect names it.                                                        *)
LEMMA FoundFits ==
    ASSUME NEW e, NEW ints, NEW claimed, NEW i \in IntentOf(e, ints, claimed)
    PROVE  i \in ints /\ Fits(i, e, ints) /\ (i.id \in claimed => i.id = e.link)
BY DEF IntentOf, Recorded, ResolveByInputHash, Candidates, IdsOf, Fits

LEMMA TurnSettles ==
    ASSUME NEW bnd, NEW ints, NEW effs, Ordered(effs), NEW handled \in SUBSET effs, NEW e \in handled,
           Settled(bnd, ints, effs, handled \ {e})
    PROVE  Settled(BindOne(bnd, e, ints), ints, effs, handled)
<1> DEFINE found == IntentOf(e, ints, Claimed(bnd))
           i == CHOOSE i \in found : TRUE
           b == BindOne(bnd, e, ints)
<1>1. /\ bnd.pairs \subseteq IdsOf(ints) \X IdsOf(effs)
      /\ bnd.named \in [IdsOf(effs) -> Links(ints, effs)]
      /\ bnd.orphans \subseteq IdsOf(effs)
      /\ bnd = [pairs |-> bnd.pairs, named |-> bnd.named, orphans |-> bnd.orphans]
  BY DEF Settled, BoundTyped
<1>2. e \in effs /\ e.id \in IdsOf(effs)
  BY DEF IdsOf
<1>3. \A f \in effs : f.id = e.id => f = e
  BY <1>2 DEF Ordered
<1>4. CASE found = {}
  <2>1. b = [bnd EXCEPT !.orphans = @ \union {e.id}]
    BY <1>4 DEF BindOne
  <2>2. /\ b.pairs = bnd.pairs /\ b.named = bnd.named /\ b.orphans = bnd.orphans \union {e.id}
        /\ b = [pairs |-> b.pairs, named |-> b.named, orphans |-> b.orphans]
    BY <1>1, <2>1
  <2> HIDE DEF b, found, i
  <2>3. BoundTyped(b, ints, effs)
    BY <1>1, <1>2, <2>2 DEF BoundTyped
  <2>4. PairsFit(b, ints, handled) /\ PairsNamed(b) /\ NamesStand(b, effs)
    BY <2>2 DEF Settled, PairsFit, PairsNamed, NamesStand
  <2>5. HandledCounted(b, handled)
    BY <2>2 DEF Settled, HandledCounted, Claimed
  <2> QED
    BY <2>3, <2>4, <2>5 DEF Settled, b
<1>5. CASE found # {} /\ i.id \in Claimed(bnd)
  <2>1. b = bnd
    BY <1>5 DEF BindOne
  <2>2. i \in found
    BY <1>5
  <2>3. i.id = e.link
    BY <1>5, <2>2, FoundFits
  <2>4. bnd.named[e.id] \in Claimed(bnd)
    <3>1. CASE bnd.named[e.id] = e.link
      BY <1>5, <2>3, <3>1
    <3>2. CASE <<bnd.named[e.id], e.id>> \in bnd.pairs
      BY <3>2 DEF Claimed
    <3> QED
      BY <1>2, <3>1, <3>2 DEF Settled, NamesStand
  <2> HIDE DEF b, found, i
  <2>5. BoundTyped(b, ints, effs) /\ PairsFit(b, ints, handled) /\ PairsNamed(b) /\ NamesStand(b, effs)
    BY <2>1 DEF Settled, PairsFit
  <2>6. HandledCounted(b, handled)
    BY <2>1, <2>4 DEF Settled, HandledCounted
  <2> QED
    BY <2>5, <2>6 DEF Settled, b
<1>6. CASE found # {} /\ i.id \notin Claimed(bnd)
  <2>1. b = [bnd EXCEPT !.pairs = @ \union {<<i.id, e.id>>}, !.named[e.id] = i.id]
    BY <1>6 DEF BindOne
  <2>2. i \in found
    BY <1>6
  <2>3. i \in ints /\ Fits(i, e, ints) /\ i.id \in IdsOf(ints)
    BY <2>2, FoundFits DEF IdsOf
  <2>4. /\ b.pairs = bnd.pairs \union {<<i.id, e.id>>}
        /\ b.named = [bnd.named EXCEPT ![e.id] = i.id]
        /\ b.orphans = bnd.orphans
        /\ b = [pairs |-> b.pairs, named |-> b.named, orphans |-> b.orphans]
    BY <1>1, <2>1
  <2> HIDE DEF b, found, i
  <2>5. /\ b.named \in [IdsOf(effs) -> Links(ints, effs)]
        /\ b.named[e.id] = i.id
        /\ \A x \in IdsOf(effs) : x # e.id => b.named[x] = bnd.named[x]
    BY <1>1, <1>2, <2>3, <2>4 DEF Links
  <2>6. BoundTyped(b, ints, effs)
    <3>1. b.pairs \in SUBSET (IdsOf(ints) \X IdsOf(effs))
      BY <1>1, <1>2, <2>3, <2>4
    <3> QED
      BY <1>1, <2>4, <2>5, <3>1 DEF BoundTyped
  <2>7. PairsFit(b, ints, handled)
    <3> SUFFICES ASSUME NEW p \in b.pairs
                 PROVE  \E j \in ints, f \in handled : p = <<j.id, f.id>> /\ Fits(j, f, ints)
      BY DEF PairsFit
    <3>1. CASE p = <<i.id, e.id>>
      BY <2>3, <3>1
    <3>2. CASE p \in bnd.pairs
      BY <3>2 DEF Settled, PairsFit
    <3> QED
      BY <2>4, <3>1, <3>2
  <2>8. \A p \in bnd.pairs : p[2] # e.id /\ p[2] \in IdsOf(effs)
    <3> SUFFICES ASSUME NEW p \in bnd.pairs PROVE p[2] # e.id /\ p[2] \in IdsOf(effs)
      OBVIOUS
    <3>1. PICK j \in ints, f \in handled \ {e} : p = <<j.id, f.id>>
      BY DEF Settled, PairsFit
    <3> QED
      BY <1>3, <3>1 DEF IdsOf
  <2>9. PairsNamed(b)
    BY <2>4, <2>5, <2>8 DEF Settled, PairsNamed
  <2>10. NamesStand(b, effs)
    BY <1>3, <2>4, <2>5 DEF Settled, NamesStand, IdsOf
  <2>11. HandledCounted(b, handled)
    <3>1. <<i.id, e.id>> \in b.pairs /\ \A p \in bnd.pairs : p \in b.pairs
      BY <2>4
    <3>2. i.id \in {p[1] : p \in b.pairs}
      BY <3>1
    <3>3. i.id \in Claimed(b) /\ Claimed(bnd) \subseteq Claimed(b)
      BY <3>1, <3>2 DEF Claimed
    <3> QED
      BY <1>3, <2>4, <2>5, <3>3 DEF Settled, HandledCounted, IdsOf
  <2> QED
    BY <2>6, <2>7, <2>9, <2>10, <2>11 DEF Settled, b
<1> QED
  BY <1>4, <1>5, <1>6

(* The pass settles every effect.                                          *)
LEMMA BindSettles ==
    ASSUME NEW ints, NEW effs, IsFiniteSet(effs), Ordered(effs)
    PROVE  Settled(Bind(ints, effs), ints, effs, effs)
<1> DEFINE N == Cardinality(effs)
           f == CHOOSE f : Passes(f, ints, effs, SUBSET effs)
<1>1. N \in Nat /\ \A h \in SUBSET effs : IsFiniteSet(h) /\ Cardinality(h) \in Nat /\ Cardinality(h) <= N
  BY FS_Subset, FS_CardinalityType
<1>2. UpTo(effs, N) = SUBSET effs
  BY <1>1 DEF UpTo
<1>3. \E w : Passes(w, ints, effs, SUBSET effs)
  <2>1. \E w : Passes(w, ints, effs, UpTo(effs, N))
    BY <1>1, PassExists
  <2> QED
    BY <1>2, <2>1
<1>4. Passes(f, ints, effs, SUBSET effs)
  BY <1>3
<1>5. Bind(ints, effs) = f[effs]
  BY DEF Bind, Passes
<1> HIDE DEF f
<1>6. \A h \in SUBSET effs : f[h] = IF h = {} THEN NothingBound(effs)
                                    ELSE BindOne(f[h \ {Latest(h)}], Latest(h), ints)
  BY <1>4 DEF Passes
<1> DEFINE Bads == {n \in Nat : \E h \in SUBSET effs : /\ Cardinality(h) = n
                                                      /\ ~ Settled(f[h], ints, effs, h)}
<1>7. ASSUME Bads # {} PROVE FALSE
  <2>1. PICK n \in Bads : \A m \in Bads : n <= m
    <3>1. Bads \in SUBSET Nat
      OBVIOUS
    <3> HIDE DEF Bads
    <3> QED
      BY <1>7, <3>1, LeastNat
  <2>2. PICK h \in SUBSET effs : Cardinality(h) = n /\ ~ Settled(f[h], ints, effs, h)
    BY <2>1
  <2>3. h # {}
    BY <1>6, <2>2, NothingSettled
  <2> DEFINE e == Latest(h)
             g == h \ {e}
  <2>4. e \in h
    <3>1. IsFiniteSet(h) /\ Ordered(h)
      BY <1>1, <2>2 DEF Ordered
    <3> QED
      BY <2>3, <3>1, LatestIsThere
  <2>5. g \in SUBSET effs /\ Cardinality(g) = n - 1 /\ Cardinality(g) \in Nat
    BY <1>1, <2>2, <2>4, FS_RemoveElement
  <2>6. n - 1 \notin Bads
    BY <2>1, <2>5
  <2>7. Settled(f[g], ints, effs, g)
    BY <2>5, <2>6
  <2>8. f[h] = BindOne(f[g], e, ints)
    BY <1>6, <2>2, <2>3
  <2> HIDE DEF e, Bads
  <2>9. Settled(BindOne(f[g], e, ints), ints, effs, h)
    BY <2>2, <2>4, <2>7, TurnSettles
  <2> QED
    BY <2>2, <2>8, <2>9
<1>8. Settled(f[effs], ints, effs, effs)
  BY <1>1, <1>7
<1> QED
  BY <1>5, <1>8


---------------------------------------------------------------------------
(* The ids in the store. *)

PreActive == {"preHash", "preStamp", "preWrite"}
PostActive == {"look", "read", "unlink", "postHash", "postStamp", "postWrite"}

(* A call's half has its id from the start of the hook on; a record keeps  *)
(* the id its hook drew.                                                   *)
HasPre(c) == c \in DOMAIN intentRec \/ pc[c] \in PreActive
PreId(c) == IF c \in DOMAIN intentRec THEN intentRec[c].id ELSE local[c].id
HasPost(c) == c \in DOMAIN effectRec \/ pc[c] \in PostActive
PostId(c) == IF c \in DOMAIN effectRec THEN effectRec[c].id ELSE local[c].id

(* Ids are readings of the clock, and no two of one half are one.          *)
Numbered ==
    /\ \A c \in Calls : HasPre(c) => PreId(c) \in 1..clock
    /\ \A c, d \in Calls : HasPre(c) /\ HasPre(d) /\ PreId(c) = PreId(d) => c = d
    /\ \A c \in Calls : HasPost(c) => PostId(c) \in 1..clock
    /\ \A c, d \in Calls : HasPost(c) /\ HasPost(d) /\ PostId(c) = PostId(d) => c = d

(* At no time has a session made infinitely many records.                  *)
FiniteStore == IsFiniteSet(DOMAIN intentRec) /\ IsFiniteSet(DOMAIN effectRec)

(* A step gives its own call an id, drawn now, or leaves every id as it is.*)
LEMMA IdsDrawn ==
    ASSUME IInv, [Next]_vars
    PROVE  /\ clock =< clock' /\ clock' \in Nat /\ clock \in Nat
           /\ \A c \in Calls : HasPre(c)' =>
                 \/ HasPre(c) /\ PreId(c)' = PreId(c)
                 \/ AgentCall(c) /\ clock' = clock + 1 /\ PreId(c)' = clock'
           /\ \A c \in Calls : HasPost(c)' =>
                 \/ HasPost(c) /\ PostId(c)' = PostId(c)
                 \/ PostStart(c) /\ clock' = clock + 1 /\ PostId(c)' = clock'
           /\ FiniteStore => FiniteStore'
<1>1. /\ clock \in Nat /\ pc \in [Calls -> Locations] /\ local \in [Calls -> LocalMemory]
      /\ RecordsMatchProgress
  BY DEF IInv, TypeOK
<1> DEFINE Goal ==
           /\ clock =< clock' /\ clock' \in Nat /\ clock \in Nat
           /\ \A c \in Calls : HasPre(c)' =>
                 \/ HasPre(c) /\ PreId(c)' = PreId(c)
                 \/ AgentCall(c) /\ clock' = clock + 1 /\ PreId(c)' = clock'
           /\ \A c \in Calls : HasPost(c)' =>
                 \/ HasPost(c) /\ PostId(c)' = PostId(c)
                 \/ PostStart(c) /\ clock' = clock + 1 /\ PostId(c)' = clock'
           /\ FiniteStore => FiniteStore'
<1>2. ASSUME NEW c \in Calls, AgentCall(c) PROVE Goal
  <2>1. /\ clock' = clock + 1 /\ UNCHANGED <<intentRec, effectRec>> /\ pc[c] = "idle"
        /\ pc' = [pc EXCEPT ![c] = "preHash"]
        /\ local' = [local EXCEPT ![c] = [Blank EXCEPT !.id = clock']]
    BY <1>2 DEF AgentCall, Goes, Tick
  <2>2. /\ pc'[c] = "preHash" /\ local'[c].id = clock'
        /\ \A d \in Calls : d # c => pc'[d] = pc[d] /\ local'[d] = local[d]
    <3>1. local'[c] = [Blank EXCEPT !.id = clock']
      BY <1>1, <2>1
    <3>2. \A x : [Blank EXCEPT !.id = x].id = x
      BY DEF Blank
    <3> QED
      BY <1>1, <2>1, <3>1, <3>2
  <2>3. c \notin DOMAIN intentRec /\ c \notin DOMAIN effectRec
    BY <1>1, <2>1 DEF RecordsMatchProgress
  <2> QED
    BY <1>1, <1>2, <2>1, <2>2, <2>3
       DEF HasPre, PreId, HasPost, PostId, PreActive, PostActive, FiniteStore
<1>3. ASSUME NEW c \in Calls, PostStart(c) PROVE Goal
  <2>1. /\ clock' = clock + 1 /\ UNCHANGED <<intentRec, effectRec>> /\ pc[c] = "ran"
        /\ pc' = [pc EXCEPT ![c] = "look"]
        /\ local' = [local EXCEPT ![c] = [Blank EXCEPT !.id = clock']]
    BY <1>3 DEF PostStart, Goes, Tick
  <2>2. /\ pc'[c] = "look" /\ local'[c].id = clock'
        /\ \A d \in Calls : d # c => pc'[d] = pc[d] /\ local'[d] = local[d]
    <3>1. local'[c] = [Blank EXCEPT !.id = clock']
      BY <1>1, <2>1
    <3>2. \A x : [Blank EXCEPT !.id = x].id = x
      BY DEF Blank
    <3> QED
      BY <1>1, <2>1, <3>1, <3>2
  <2>3. c \notin DOMAIN effectRec
    BY <1>1, <2>1 DEF RecordsMatchProgress
  <2> QED
    BY <1>1, <1>3, <2>1, <2>2, <2>3
       DEF HasPre, PreId, HasPost, PostId, PreActive, PostActive, FiniteStore
<1>4. ASSUME NEW c \in Calls, PreWrite(c) PROVE Goal
  <2>1. /\ clock' = clock /\ UNCHANGED <<local, effectRec>> /\ pc[c] = "preWrite"
        /\ pc' = [pc EXCEPT ![c] = "preList"]
        /\ DOMAIN intentRec' = DOMAIN intentRec \union {c} /\ intentRec'[c].id = local[c].id
        /\ \A d \in DOMAIN intentRec : d # c => intentRec'[d] = intentRec[d]
    BY <1>4 DEF PreWrite, Goes, With
  <2>2. pc'[c] = "preList" /\ \A d \in Calls : d # c => pc'[d] = pc[d]
    BY <1>1, <2>1
  <2>3. c \notin DOMAIN intentRec /\ c \notin DOMAIN effectRec
    BY <1>1, <2>1 DEF RecordsMatchProgress
  <2>4. FiniteStore => FiniteStore'
    BY <2>1, FS_AddElement DEF FiniteStore
  <2> QED
    BY <1>1, <2>1, <2>2, <2>3, <2>4
       DEF HasPre, PreId, HasPost, PostId, PreActive, PostActive
<1>5. ASSUME NEW c \in Calls, PostWrite(c) PROVE Goal
  <2>1. /\ clock' = clock /\ UNCHANGED intentRec /\ pc[c] = "postWrite"
        /\ pc' = [pc EXCEPT ![c] = "over"] /\ local' = [local EXCEPT ![c] = Blank]
        /\ DOMAIN effectRec' = DOMAIN effectRec \union {c} /\ effectRec'[c].id = local[c].id
        /\ \A d \in DOMAIN effectRec : d # c => effectRec'[d] = effectRec[d]
    BY <1>5 DEF PostWrite, Goes, With
  <2>2. /\ pc'[c] = "over"
        /\ \A d \in Calls : d # c => pc'[d] = pc[d] /\ local'[d] = local[d]
    BY <1>1, <2>1
  <2>3. c \notin DOMAIN effectRec
    BY <1>1, <2>1 DEF RecordsMatchProgress
  <2>4. FiniteStore => FiniteStore'
    BY <2>1, FS_AddElement DEF FiniteStore
  <2> QED
    BY <1>1, <2>1, <2>2, <2>3, <2>4
       DEF HasPre, PreId, HasPost, PostId, PreActive, PostActive
<1>6. ASSUME NEW c \in Calls, UNCHANGED <<intentRec, effectRec>>, clock =< clock', clock' \in Nat,
             pc'[c] \in PreActive => pc[c] \in PreActive /\ local'[c].id = local[c].id,
             pc'[c] \in PostActive => pc[c] \in PostActive /\ local'[c].id = local[c].id,
             \A d \in Calls : d # c => pc'[d] = pc[d] /\ local'[d] = local[d]
      PROVE  Goal
  BY <1>1, <1>6 DEF HasPre, PreId, HasPost, PostId, FiniteStore
<1>7. ASSUME NEW c \in Calls, PreHash(c) \/ PreStamp(c) PROVE Goal
  <2>1. /\ UNCHANGED <<intentRec, effectRec>> /\ clock =< clock' /\ clock' \in Nat
        /\ pc[c] \in PreActive /\ pc'[c] \in PreActive /\ local'[c].id = local[c].id
        /\ \A d \in Calls : d # c => pc'[d] = pc[d] /\ local'[d] = local[d]
    BY <1>1, <1>7 DEF PreHash, PreStamp, Tick, Goes, PreActive, LocalMemory
  <2>2. pc'[c] \notin PostActive
    BY <2>1 DEF PreActive, PostActive
  <2> HIDE DEF Goal
  <2> QED
    BY <1>6, <2>1, <2>2
<1>8. ASSUME NEW c \in Calls,
             PreList(c) \/ PreStat(c) \/ PreSweep(c) \/ PreOpen(c) \/ PreFill(c) \/ PreThrow(c)
             \/ PreKill(c) \/ MarkerLost(c) \/ Tool(c) \/ PostThrow(c) \/ PostKill(c)
      PROVE  Goal
  <2>1. /\ UNCHANGED <<intentRec, effectRec>> /\ clock =< clock' /\ clock' \in Nat
        /\ \A d \in Calls : d # c => pc'[d] = pc[d] /\ local'[d] = local[d]
    <3>1. CASE PreList(c) \/ PreStat(c) \/ PreSweep(c)
      BY <1>1, <3>1, SweepStep
    <3>2. CASE PreOpen(c) \/ PreFill(c) \/ PreThrow(c) \/ PreKill(c) \/ MarkerLost(c) \/ Tool(c)
               \/ PostThrow(c) \/ PostKill(c)
      BY <1>1, <3>2, ConstantsAreTyped
         DEF PreOpen, PreFill, PreThrow, PreKill, MarkerLost, Tool, PostThrow, PostKill, Goes
    <3> QED
      BY <1>8, <3>1, <3>2
  <2>2. pc'[c] \in {"preOpen", "preFill", "ready", "ran", "over"}
    BY <1>1, <1>8
       DEF PreList, PreStat, PreSweep, PreOpen, PreFill, PreThrow, PreKill, MarkerLost, Tool, PostThrow, PostKill, Goes
  <2>3. pc'[c] \notin PreActive /\ pc'[c] \notin PostActive
    BY <2>2 DEF PreActive, PostActive
  <2> HIDE DEF Goal
  <2> QED
    BY <1>6, <2>1, <2>3
<1>9. ASSUME NEW c \in Calls,
             PostLook(c) \/ PostRead(c) \/ PostUnlink(c) \/ PostHash(c) \/ PostStamp(c)
      PROVE  Goal
  <2>1. /\ UNCHANGED <<intentRec, effectRec>> /\ clock =< clock' /\ clock' \in Nat
        /\ \A d \in Calls : d # c => pc'[d] = pc[d] /\ local'[d] = local[d]
    BY <1>1, <1>9 DEF PostLook, PostRead, PostUnlink, PostHash, PostStamp, Tick, Goes
  <2>2. pc[c] \in PostActive /\ pc'[c] \in PostActive
    BY <1>1, <1>9 DEF PostLook, PostRead, PostUnlink, PostHash, PostStamp, Goes, PostActive
  <2>3. local'[c].id = local[c].id
    BY <1>1, <1>9 DEF PostLook, PostRead, PostUnlink, PostHash, PostStamp, LocalMemory
  <2>4. pc'[c] \notin PreActive
    BY <2>2 DEF PreActive, PostActive
  <2> HIDE DEF Goal
  <2> QED
    BY <1>6, <2>1, <2>2, <2>3, <2>4
<1>10. ASSUME OutsideChange \/ UNCHANGED vars PROVE Goal
  BY <1>1, <1>10 DEF OutsideChange, vars, HasPre, PreId, HasPost, PostId, FiniteStore
<1> HIDE DEF Goal
<1>11. ASSUME NEW c \in Calls, PreStep(c) \/ Tool(c) \/ PostStep(c) PROVE Goal
  BY <1>2, <1>3, <1>4, <1>5, <1>7, <1>8, <1>9, <1>11 DEF PreStep, PostStep
<1>12. Goal
  BY <1>10, <1>11 DEF Next
<1> QED
  BY <1>12 DEF Goal

LEMMA NumberedInit == Init => Numbered /\ FiniteStore
<1> SUFFICES ASSUME Init PROVE Numbered /\ FiniteStore
  OBVIOUS
<1>1. /\ DOMAIN intentRec = {} /\ DOMAIN effectRec = {} /\ pc = [c \in Calls |-> "idle"]
  BY DEF Init, Nothing
<1> QED
  BY <1>1, FS_EmptySet DEF Numbered, FiniteStore, HasPre, HasPost, PreActive, PostActive

LEMMA NumberedKept ==
    ASSUME IInv, Numbered, FiniteStore, [Next]_vars
    PROVE  Numbered' /\ FiniteStore'
<1>1. /\ clock =< clock' /\ clock' \in Nat /\ clock \in Nat /\ FiniteStore'
  BY IdsDrawn
<1>2. \A c \in Calls : HasPre(c)' =>
        \/ HasPre(c) /\ PreId(c)' = PreId(c)
        \/ AgentCall(c) /\ clock' = clock + 1 /\ PreId(c)' = clock'
  BY IdsDrawn
<1>3. \A c \in Calls : HasPost(c)' =>
        \/ HasPost(c) /\ PostId(c)' = PostId(c)
        \/ PostStart(c) /\ clock' = clock + 1 /\ PostId(c)' = clock'
  BY IdsDrawn
<1>4. pc \in [Calls -> Locations]
  BY DEF IInv, TypeOK
<1>5. \A c, d \in Calls : AgentCall(c) /\ AgentCall(d) => c = d
  BY <1>4 DEF AgentCall, Goes
<1>6. \A c, d \in Calls : PostStart(c) /\ PostStart(d) => c = d
  BY <1>4 DEF PostStart, Goes
<1>7. ASSUME NEW c \in Calls, HasPre(c)' PROVE PreId(c)' \in 1..clock'
  BY <1>1, <1>2, <1>7 DEF Numbered
<1>8. ASSUME NEW c \in Calls, HasPost(c)' PROVE PostId(c)' \in 1..clock'
  BY <1>1, <1>3, <1>8 DEF Numbered
<1>9. ASSUME NEW c \in Calls, NEW d \in Calls, HasPre(c)', HasPre(d)', PreId(c)' = PreId(d)'
      PROVE  c = d
  <2>1. CASE HasPre(c) /\ PreId(c)' = PreId(c) /\ HasPre(d) /\ PreId(d)' = PreId(d)
    BY <1>9, <2>1 DEF Numbered
  <2>2. CASE HasPre(c) /\ PreId(c)' = PreId(c) /\ clock' = clock + 1 /\ PreId(d)' = clock'
    <3>1. PreId(c) \in 1..clock
      BY <2>2 DEF Numbered
    <3>2. PreId(c) = clock + 1
      BY <1>9, <2>2
    <3> QED
      BY <1>1, <3>1, <3>2
  <2>3. CASE HasPre(d) /\ PreId(d)' = PreId(d) /\ clock' = clock + 1 /\ PreId(c)' = clock'
    <3>1. PreId(d) \in 1..clock
      BY <2>3 DEF Numbered
    <3> QED
      BY <1>1, <1>9, <2>3, <3>1
  <2> QED
    BY <1>2, <1>5, <1>9, <2>1, <2>2, <2>3
<1>10. ASSUME NEW c \in Calls, NEW d \in Calls, HasPost(c)', HasPost(d)', PostId(c)' = PostId(d)'
       PROVE  c = d
  <2>1. CASE HasPost(c) /\ PostId(c)' = PostId(c) /\ HasPost(d) /\ PostId(d)' = PostId(d)
    BY <1>10, <2>1 DEF Numbered
  <2>2. CASE HasPost(c) /\ PostId(c)' = PostId(c) /\ clock' = clock + 1 /\ PostId(d)' = clock'
    <3>1. PostId(c) \in 1..clock
      BY <2>2 DEF Numbered
    <3>2. PostId(c) = clock + 1
      BY <1>10, <2>2
    <3> QED
      BY <1>1, <3>1, <3>2
  <2>3. CASE HasPost(d) /\ PostId(d)' = PostId(d) /\ clock' = clock + 1 /\ PostId(c)' = clock'
    <3>1. PostId(d) \in 1..clock
      BY <2>3 DEF Numbered
    <3> QED
      BY <1>1, <1>10, <2>3, <3>1
  <2> QED
    BY <1>3, <1>6, <1>10, <2>1, <2>2, <2>3
<1>11. Numbered'
  BY <1>7, <1>8, <1>9, <1>10 DEF Numbered
<1> QED
  BY <1>1, <1>11


---------------------------------------------------------------------------
(* The bundle of a session whose calls have inputs of their own.           *)

StoreInv == IInv /\ Numbered /\ FiniteStore

LEMMA StoreInvariance == Spec => []StoreInv
<1>1. Init => Numbered /\ FiniteStore
  BY NumberedInit
<1>2. IInv /\ Numbered /\ FiniteStore /\ [Next]_vars => (Numbered /\ FiniteStore)'
  BY NumberedKept
<1> QED
  BY <1>1, <1>2, Invariance, PTL DEF Spec, StoreInv

(* The ids of the records, and that each is one call's.                    *)
LEMMA RecordIds ==
    ASSUME StoreInv
    PROVE  /\ \A c \in DOMAIN intentRec : c \in Calls /\ intentRec[c].id \in Nat \ {0}
           /\ \A c, d \in DOMAIN intentRec : intentRec[c].id = intentRec[d].id => c = d
           /\ \A c \in DOMAIN effectRec : c \in Calls /\ effectRec[c].id \in Nat \ {0}
           /\ \A c, d \in DOMAIN effectRec : effectRec[c].id = effectRec[d].id => c = d
<1>1. DOMAIN intentRec \subseteq Calls /\ DOMAIN effectRec \subseteq Calls /\ clock \in Nat
  BY DEF StoreInv, IInv, TypeOK
<1>2. \A c \in DOMAIN intentRec : HasPre(c) /\ PreId(c) = intentRec[c].id
  BY DEF HasPre, PreId
<1>3. \A c \in DOMAIN effectRec : HasPost(c) /\ PostId(c) = effectRec[c].id
  BY DEF HasPost, PostId
<1>4. ASSUME NEW c \in DOMAIN intentRec PROVE intentRec[c].id \in 1..clock
  BY <1>1, <1>2 DEF StoreInv, Numbered
<1>5. ASSUME NEW c \in DOMAIN effectRec PROVE effectRec[c].id \in 1..clock
  BY <1>1, <1>3 DEF StoreInv, Numbered
<1>6. ASSUME NEW c \in DOMAIN intentRec, NEW d \in DOMAIN intentRec, intentRec[c].id = intentRec[d].id
      PROVE  c = d
  BY <1>1, <1>2, <1>6 DEF StoreInv, Numbered
<1>7. ASSUME NEW c \in DOMAIN effectRec, NEW d \in DOMAIN effectRec, effectRec[c].id = effectRec[d].id
      PROVE  c = d
  BY <1>1, <1>3, <1>7 DEF StoreInv, Numbered
<1> QED
  BY <1>1, <1>4, <1>5, <1>6, <1>7

LEMMA EventFields ==
    /\ \A c \in DOMAIN intentRec :
         /\ IntentEvent(c).id = intentRec[c].id /\ IntentEvent(c).input = InputOf[c]
         /\ IntentEvent(c).at = intentRec[c].at /\ IntentEvent(c).hook
    /\ \A c \in DOMAIN effectRec :
         /\ EffectEvent(c).id = effectRec[c].id /\ EffectEvent(c).input = InputOf[c]
         /\ EffectEvent(c).at = effectRec[c].at
         /\ EffectEvent(c).link = IF effectRec[c].link = NoCall THEN NoId
                                  ELSE intentRec[effectRec[c].link].id
BY DEF IntentEvent, EffectEvent

LEMMA EventsOrdered ==
    ASSUME StoreInv
    PROVE  Ordered(IntentEvents) /\ Ordered(EffectEvents) /\ IsFiniteSet(EffectEvents)
<1>1. /\ \A c \in DOMAIN intentRec : intentRec[c].at \in Nat
      /\ \A c \in DOMAIN effectRec : effectRec[c].at \in Nat
  BY DEF StoreInv, IInv, TypeOK, IntentRecords, EffectRecords
<1>2. Ordered(IntentEvents)
  BY <1>1, RecordIds, EventFields DEF Ordered, IntentEvents
<1>3. Ordered(EffectEvents)
  BY <1>1, RecordIds, EventFields DEF Ordered, EffectEvents
<1>4. IsFiniteSet(EffectEvents)
  <2> DEFINE f == [c \in DOMAIN effectRec |-> EffectEvent(c)]
  <2>1. f \in Surjection(DOMAIN effectRec, EffectEvents)
    BY DEF EffectEvents, Surjection
  <2>2. IsFiniteSet(DOMAIN effectRec)
    BY DEF StoreInv, FiniteStore
  <2> HIDE DEF f
  <2> QED
    BY <2>1, <2>2, FS_Surjection
<1> QED
  BY <1>2, <1>3, <1>4

LEMMA BoundSettled ==
    ASSUME StoreInv
    PROVE  Settled(Bound, IntentEvents, EffectEvents, EffectEvents)
BY EventsOrdered, BindSettles DEF Bound

DistinctInputs == \A c, d \in Calls : InputOf[c] = InputOf[d] => c = d

(* The intent an effect names, when it names one, is its own call's.       *)
LEMMA LinkIsOwnIntent ==
    ASSUME DistinctInputs, StoreInv, NEW c \in DOMAIN effectRec
    PROVE  \/ EffectEvent(c).link = NoId
           \/ c \in DOMAIN intentRec /\ EffectEvent(c).link = intentRec[c].id
<1>1. CASE effectRec[c].link = NoCall
  BY <1>1, EventFields
<1>2. CASE effectRec[c].link # NoCall
  <2>1. /\ effectRec[c].link \in DOMAIN intentRec /\ InputOf[effectRec[c].link] = InputOf[c]
        /\ c \in Calls /\ effectRec[c].link \in Calls
    BY <1>2, RecordIds DEF StoreInv, IInv, LinkNamesStoredIntent
  <2>2. effectRec[c].link = c
    BY <2>1 DEF DistinctInputs
  <2> QED
    BY <1>2, <2>1, <2>2, EventFields
<1> QED
  BY <1>1, <1>2

LEMMA PairsOfOneCall ==
    ASSUME DistinctInputs, StoreInv
    PROVE  PairsAreOneCall
<1> SUFFICES ASSUME NEW p \in Bound.pairs
             PROVE  \E c \in DOMAIN intentRec \intersect DOMAIN effectRec :
                        p = <<intentRec[c].id, effectRec[c].id>>
  BY DEF PairsAreOneCall
<1>1. PICK i \in IntentEvents, e \in EffectEvents : p = <<i.id, e.id>> /\ Fits(i, e, IntentEvents)
  BY BoundSettled DEF Settled, PairsFit
<1>2. PICK a \in DOMAIN intentRec : i = IntentEvent(a)
  BY DEF IntentEvents
<1>3. PICK b \in DOMAIN effectRec : e = EffectEvent(b)
  BY DEF EffectEvents
<1>4. /\ i.id = intentRec[a].id /\ i.input = InputOf[a] /\ i.id # NoId
      /\ e.id = effectRec[b].id /\ e.input = InputOf[b] /\ a \in Calls /\ b \in Calls
  BY <1>2, <1>3, EventFields, RecordIds, NoIdIsNoUlid
<1>5. CASE i.id = e.link
  <2>1. b \in DOMAIN intentRec /\ e.link = intentRec[b].id
    BY <1>3, <1>4, <1>5, LinkIsOwnIntent
  <2> QED
    BY <1>1, <1>4, <1>5, <2>1
<1>6. CASE i.input = e.input
  <2>1. a = b
    BY <1>4, <1>6 DEF DistinctInputs
  <2> QED
    BY <1>1, <1>4, <2>1
<1> QED
  BY <1>1, <1>5, <1>6 DEF Fits

LEMMA LostIsDisclosed ==
    ASSUME DistinctInputs, StoreInv
    PROVE  LostOutcomeDisclosed
<1> SUFFICES ASSUME DOMAIN effectRec # {}, NEW c \in DOMAIN intentRec \ DOMAIN effectRec
             PROVE  Gap("intent_without_effect", intentRec[c].id) \in Gaps
  BY DEF LostOutcomeDisclosed
<1> DEFINE i == IntentEvent(c)
<1>1. i \in IntentEvents /\ i.hook /\ i.id = intentRec[c].id /\ EffectEvents # {}
  BY EventFields DEF IntentEvents, EffectEvents
<1>2. i.id \notin Claimed(Bound)
  <2> SUFFICES ASSUME NEW p \in Bound.pairs, p[1] = i.id PROVE FALSE
    BY DEF Claimed
  <2>1. PICK d \in DOMAIN intentRec \intersect DOMAIN effectRec :
          p = <<intentRec[d].id, effectRec[d].id>>
    BY PairsOfOneCall DEF PairsAreOneCall
  <2>2. intentRec[d].id = intentRec[c].id
    BY <1>1, <2>1
  <2>3. d = c
    BY <2>2, RecordIds
  <2> QED
    BY <2>3
<1> HIDE DEF i
<1>3. Gap("intent_without_effect", i.id) \in PairingGaps(Bound, IntentEvents, EffectEvents)
  BY <1>1, <1>2 DEF PairingGaps
<1> QED
  BY <1>1, <1>3 DEF Gaps, MergeGaps

(* An effect that names an intent in the bundle names its own call's.      *)
LEMMA NamesOwnIntent ==
    ASSUME DistinctInputs, StoreInv, NEW a \in DOMAIN intentRec, NEW y \in Naming(intentRec[a].id, Bound)
    PROVE  a \in DOMAIN effectRec /\ y = effectRec[a].id
<1>1. y \in IdsOf(EffectEvents) /\ Bound.named[y] = intentRec[a].id
  BY BoundSettled DEF Settled, BoundTyped, Naming
<1>2. PICK b \in DOMAIN effectRec : y = EffectEvent(b).id
  BY <1>1 DEF IdsOf, EffectEvents
<1>3. /\ EffectEvent(b) \in EffectEvents /\ y = effectRec[b].id
      /\ intentRec[a].id # NoId
  BY <1>2, EventFields, RecordIds, NoIdIsNoUlid DEF EffectEvents
<1>4. CASE Bound.named[y] = EffectEvent(b).link
  <2>1. b \in DOMAIN intentRec /\ intentRec[b].id = intentRec[a].id
    BY <1>1, <1>3, <1>4, LinkIsOwnIntent
  <2>2. a = b
    BY <2>1, RecordIds
  <2> QED
    BY <1>3, <2>2
<1>5. CASE <<Bound.named[y], y>> \in Bound.pairs
  <2>1. PICK c \in DOMAIN intentRec \intersect DOMAIN effectRec :
          <<intentRec[a].id, y>> = <<intentRec[c].id, effectRec[c].id>>
    BY <1>1, <1>5, PairsOfOneCall DEF PairsAreOneCall
  <2>2. a = c
    BY <2>1, RecordIds
  <2> QED
    BY <2>1, <2>2
<1> QED
  BY <1>2, <1>3, <1>4, <1>5, BoundSettled DEF Settled, NamesStand

LEMMA VerifierAccepts ==
    ASSUME DistinctInputs, StoreInv
    PROVE  IntentEffectAccepts
<1> DEFINE ints == IntentEvents
           effs == EffectEvents
<1>1. SUFFICES ASSUME effs # {}
               PROVE  CheckIntentEffect(Bound, ints, effs, Gaps) = "PASS"
  BY DEF IntentEffectAccepts, CheckIntentEffect
<1>2. /\ \A x \in Bound.orphans : Gap("effect_without_intent", x) \in Gaps
      /\ \A i \in ints : i.hook /\ i.id \notin Claimed(Bound) => Gap("intent_without_effect", i.id) \in Gaps
  BY <1>1 DEF Gaps, MergeGaps, PairingGaps
<1>3. /\ Bound.pairs \subseteq IdsOf(ints) \X IdsOf(effs) /\ DOMAIN Bound.named = IdsOf(effs)
      /\ PairsNamed(Bound) /\ HandledCounted(Bound, effs)
  BY BoundSettled DEF Settled, BoundTyped
<1>4. \A p \in Bound.pairs : p[1] \in IdsOf(ints) /\ p[2] \in IdsOf(effs)
  BY <1>3
<1>5. DanglingEffects(Bound, ints, Gaps) = {}
  <2> SUFFICES ASSUME NEW y \in DOMAIN Bound.named, Bound.named[y] \notin IdsOf(ints)
               PROVE  Gap("effect_without_intent", y) \in Gaps
    BY DEF DanglingEffects, IdsOf
  <2>1. PICK e \in effs : e.id = y
    BY <1>3 DEF IdsOf
  <2>2. Bound.named[y] \notin Claimed(Bound)
    BY <1>4 DEF Claimed
  <2>3. y \in Bound.orphans
    BY <1>3, <2>1, <2>2 DEF HandledCounted
  <2> QED
    BY <1>2, <2>3
<1>6. ASSUME NEW i \in ints, NEW y \in Naming(i.id, Bound), NEW z \in Naming(i.id, Bound)
      PROVE  y = z
  <2>1. PICK a \in DOMAIN intentRec : i = IntentEvent(a)
    BY DEF IntentEvents
  <2>2. i.id = intentRec[a].id
    BY <2>1, EventFields
  <2> QED
    BY <1>6, <2>2, NamesOwnIntent
<1>7. DoubleClosed(Bound, ints) = {}
  BY <1>6 DEF DoubleClosed
<1>8. ASSUME NEW p \in Bound.pairs PROVE p[2] \in Naming(p[1], Bound) /\ Bound.named[p[2]] = p[1]
  BY <1>3, <1>4 DEF PairsNamed, Naming
<1>9. CrossReference(Bound, ints) = {}
  <2> SUFFICES ASSUME NEW i \in ints, NEW y \in Closer(i.id, Bound), NEW p \in Bound.pairs
               PROVE  p[1] = i.id <=> p[2] = y
    BY DEF CrossReference
  <2>1. y \in Naming(i.id, Bound) /\ Bound.named[y] = i.id
    BY DEF Closer, Naming
  <2> QED
    BY <1>6, <1>8, <2>1
<1>10. Undisclosed(Bound, ints, Gaps) = {}
  <2> SUFFICES ASSUME NEW i \in ints, i.hook, Naming(i.id, Bound) = {}
               PROVE  Gap("intent_without_effect", i.id) \in Gaps
    BY DEF Undisclosed
  <2>1. i.id \notin Claimed(Bound)
    BY <1>8 DEF Claimed
  <2> QED
    BY <1>2, <2>1
<1> QED
  BY <1>1, <1>5, <1>7, <1>9, <1>10 DEF CheckIntentEffect

(* Whatever overlapped, failed or died, and at whatever moment the bundle  *)
(* is built: when no two calls have the same input, every pair the bundle  *)
(* shows is one call, recorded or correlated.                              *)
THEOREM DistinctInputsPairTheirOwn ==
    ASSUME DistinctInputs
    PROVE  Spec => []PairsAreOneCall
<1>1. StoreInv => PairsAreOneCall
  BY PairsOfOneCall
<1> QED
  BY <1>1, StoreInvariance, PTL

(* Then a call whose outcome was lost is disclosed, as soon as the bundle  *)
(* holds an effect at all.                                                 *)
THEOREM LostOutcomesAreDisclosed ==
    ASSUME DistinctInputs
    PROVE  Spec => []LostOutcomeDisclosed
<1>1. StoreInv => LostOutcomeDisclosed
  BY LostIsDisclosed
<1> QED
  BY <1>1, StoreInvariance, PTL

(* And the verifier's intent-effect check fails no bundle of the session.  *)
THEOREM HonestBundlesPass ==
    ASSUME DistinctInputs
    PROVE  Spec => []IntentEffectAccepts
<1>1. StoreInv => IntentEffectAccepts
  BY VerifierAccepts
<1> QED
  BY <1>1, StoreInvariance, PTL

---------------------------------------------------------------------------
(* Calls one by one: the times a hook draws bracket no other record's.     *)

Single == \A c, d \in InFlight : c = d

Drawing == PreActive \union PostActive
Stamping == {"preWrite", "postWrite"}
Apart(r, s) == r.at < s.id \/ s.at < r.id

(* A record is stamped after its id was drawn; an effect's id and stamp    *)
(* both precede, or both follow, those of any other record; a hook that is *)
(* still to write came after all of them.                                  *)
RecordSpans ==
    /\ \A c \in DOMAIN intentRec : intentRec[c].id < intentRec[c].at /\ intentRec[c].at =< clock
    /\ \A c \in DOMAIN effectRec : effectRec[c].id < effectRec[c].at /\ effectRec[c].at =< clock
    /\ \A c \in DOMAIN intentRec, d \in DOMAIN effectRec : Apart(intentRec[c], effectRec[d])
    /\ \A c, d \in DOMAIN effectRec : c # d => Apart(effectRec[c], effectRec[d])
DrawnLast ==
    \A c \in Calls : pc[c] \in Drawing =>
        /\ local[c].id =< clock
        /\ \A d \in DOMAIN intentRec : intentRec[d].at < local[c].id
        /\ \A d \in DOMAIN effectRec : effectRec[d].at < local[c].id
StampedLast ==
    \A c \in Calls : pc[c] \in Stamping => local[c].id < local[c].at /\ local[c].at =< clock
Spans == RecordSpans /\ DrawnLast /\ StampedLast

LEMMA RecordTimes ==
    ASSUME IInv
    PROVE  /\ \A c \in DOMAIN intentRec : c \in Calls /\ intentRec[c].id \in Nat /\ intentRec[c].at \in Nat
           /\ \A c \in DOMAIN effectRec : c \in Calls /\ effectRec[c].id \in Nat /\ effectRec[c].at \in Nat
           /\ \A c \in Calls : local[c].id \in Nat /\ local[c].at \in Nat
           /\ clock \in Nat
BY DEF IInv, TypeOK, IntentRecords, EffectRecords, LocalMemory

(* A step that writes no record.                                           *)
LEMMA NoRecordSpans ==
    ASSUME IInv, Spans, NEW c \in Calls,
           UNCHANGED <<intentRec, effectRec>>, clock =< clock', clock' \in Nat,
           \A d \in Calls : d # c => pc'[d] = pc[d] /\ local'[d] = local[d],
           local'[c].id \in Nat,
           pc'[c] \in Drawing => \/ pc[c] \in Drawing /\ local'[c].id = local[c].id
                                 \/ clock < local'[c].id /\ local'[c].id =< clock',
           pc'[c] \in Stamping => local'[c].id < local'[c].at /\ local'[c].at =< clock'
    PROVE  Spans'
<1> USE DEF Spans
<1>1. RecordSpans'
  BY RecordTimes DEF RecordSpans, Apart
<1>2. ASSUME NEW d \in Calls, pc'[d] \in Drawing
      PROVE  /\ local'[d].id =< clock'
             /\ \A r \in DOMAIN intentRec : intentRec[r].at < local'[d].id
             /\ \A r \in DOMAIN effectRec : effectRec[r].at < local'[d].id
  <2>1. CASE pc[d] \in Drawing /\ local'[d].id = local[d].id
    BY <2>1, RecordTimes DEF DrawnLast
  <2>2. CASE clock < local'[d].id /\ local'[d].id =< clock' /\ local'[d].id \in Nat
    BY <2>2, RecordTimes DEF RecordSpans
  <2> QED
    BY <1>2, <2>1, <2>2
<1>3. DrawnLast'
  BY <1>2 DEF DrawnLast
<1>4. ASSUME NEW d \in Calls, pc'[d] \in Stamping
      PROVE  local'[d].id < local'[d].at /\ local'[d].at =< clock'
  BY <1>4, RecordTimes DEF StampedLast
<1>5. StampedLast'
  BY <1>4 DEF StampedLast
<1> QED
  BY <1>1, <1>3, <1>5

LEMMA SpansInit == Init => Spans
BY DEF Init, Nothing, Spans, RecordSpans, DrawnLast, StampedLast, Drawing, Stamping, PreActive, PostActive

(* The one call in flight writes what it drew last.                        *)
LEMMA PreWriteSpans ==
    ASSUME IInv, Single, Spans, NEW c \in Calls, PreWrite(c) PROVE Spans'
<1>1. /\ clock' = clock /\ UNCHANGED <<local, effectRec>> /\ pc[c] = "preWrite"
      /\ DOMAIN intentRec' = DOMAIN intentRec \union {c}
      /\ intentRec'[c].id = local[c].id /\ intentRec'[c].at = local[c].at
      /\ \A d \in DOMAIN intentRec : d # c => intentRec'[d] = intentRec[d]
  BY DEF PreWrite, Goes, With
<1>2. pc'[c] = "preList" /\ \A d \in Calls : d # c => pc'[d] = pc[d]
  BY DEF PreWrite, Goes, IInv, TypeOK
<1>3. \A d \in Calls : pc'[d] \notin Drawing /\ pc'[d] \notin Stamping
  <2>1. c \in InFlight
    BY <1>1 DEF InFlight
  <2>2. ASSUME NEW d \in Calls, d # c PROVE pc[d] \in {"idle", "over"}
    BY <2>1, <2>2 DEF Single, InFlight
  <2> QED
    BY <1>2, <2>2 DEF Drawing, Stamping, PreActive, PostActive
<1>4. DrawnLast' /\ StampedLast'
  BY <1>3 DEF DrawnLast, StampedLast
<1>5. /\ local[c].id < local[c].at /\ local[c].at =< clock
      /\ \A d \in DOMAIN effectRec : effectRec[d].at < local[c].id
  BY <1>1 DEF Spans, DrawnLast, StampedLast, Drawing, Stamping, PreActive
<1>6. RecordSpans'
  BY <1>1, <1>5, RecordTimes DEF Spans, RecordSpans, Apart
<1> QED
  BY <1>4, <1>6 DEF Spans

LEMMA PostWriteSpans ==
    ASSUME IInv, Single, Spans, NEW c \in Calls, PostWrite(c) PROVE Spans'
<1>1. /\ clock' = clock /\ UNCHANGED intentRec /\ pc[c] = "postWrite"
      /\ DOMAIN effectRec' = DOMAIN effectRec \union {c}
      /\ effectRec'[c].id = local[c].id /\ effectRec'[c].at = local[c].at
      /\ \A d \in DOMAIN effectRec : d # c => effectRec'[d] = effectRec[d]
  BY DEF PostWrite, Goes, With
<1>2. pc'[c] = "over" /\ \A d \in Calls : d # c => pc'[d] = pc[d]
  BY DEF PostWrite, Goes, IInv, TypeOK
<1>3. \A d \in Calls : pc'[d] \notin Drawing /\ pc'[d] \notin Stamping
  <2>1. c \in InFlight
    BY <1>1 DEF InFlight
  <2>2. ASSUME NEW d \in Calls, d # c PROVE pc[d] \in {"idle", "over"}
    BY <2>1, <2>2 DEF Single, InFlight
  <2> QED
    BY <1>2, <2>2 DEF Drawing, Stamping, PreActive, PostActive
<1>4. DrawnLast' /\ StampedLast'
  BY <1>3 DEF DrawnLast, StampedLast
<1>5. /\ local[c].id < local[c].at /\ local[c].at =< clock
      /\ \A d \in DOMAIN intentRec : intentRec[d].at < local[c].id
      /\ \A d \in DOMAIN effectRec : effectRec[d].at < local[c].id
  BY <1>1 DEF Spans, DrawnLast, StampedLast, Drawing, Stamping, PostActive
<1>6. /\ \A d \in DOMAIN intentRec' : intentRec'[d].id < intentRec'[d].at /\ intentRec'[d].at =< clock'
      /\ \A d \in DOMAIN effectRec' : effectRec'[d].id < effectRec'[d].at /\ effectRec'[d].at =< clock'
  BY <1>1, <1>5 DEF Spans, RecordSpans
<1>7. \A r \in DOMAIN intentRec', d \in DOMAIN effectRec' : Apart(intentRec'[r], effectRec'[d])
  BY <1>1, <1>5 DEF Spans, RecordSpans, Apart
<1>8. \A r, d \in DOMAIN effectRec' : r # d => Apart(effectRec'[r], effectRec'[d])
  BY <1>1, <1>5 DEF Spans, RecordSpans, Apart
<1>9. RecordSpans'
  BY <1>6, <1>7, <1>8 DEF RecordSpans, Apart
<1> QED
  BY <1>4, <1>9 DEF Spans

LEMMA SpansKept ==
    ASSUME IInv, IInv', Single, Spans, [Next]_vars
    PROVE  Spans'
<1>1. /\ clock \in Nat /\ clock' \in Nat /\ pc \in [Calls -> Locations]
      /\ local \in [Calls -> LocalMemory] /\ local' \in [Calls -> LocalMemory]
  BY DEF IInv, TypeOK
<1>2. ASSUME NEW c \in Calls, AgentCall(c) \/ PostStart(c) PROVE Spans'
  <2>1. /\ UNCHANGED <<intentRec, effectRec>> /\ clock' = clock + 1
        /\ \A d \in Calls : d # c => pc'[d] = pc[d] /\ local'[d] = local[d]
        /\ pc'[c] \in {"preHash", "look"}
        /\ local' = [local EXCEPT ![c] = [Blank EXCEPT !.id = clock']]
    BY <1>1, <1>2 DEF AgentCall, PostStart, Goes, Tick
  <2>2. local'[c].id = clock'
    <3>1. local'[c] = [Blank EXCEPT !.id = clock']
      BY <1>1, <2>1
    <3>2. \A x : [Blank EXCEPT !.id = x].id = x
      BY DEF Blank
    <3> QED
      BY <3>1, <3>2
  <2>3. clock < local'[c].id /\ local'[c].id =< clock' /\ clock =< clock' /\ local'[c].id \in Nat
    BY <1>1, <2>1, <2>2
  <2>4. pc'[c] \notin Stamping
    BY <2>1 DEF Stamping
  <2> QED
    BY <1>1, <2>1, <2>3, <2>4, NoRecordSpans
<1>3. ASSUME NEW c \in Calls, PreStamp(c) \/ PostStamp(c) PROVE Spans'
  <2>1. /\ UNCHANGED <<intentRec, effectRec>> /\ clock' = clock + 1
        /\ \A d \in Calls : d # c => pc'[d] = pc[d] /\ local'[d] = local[d]
        /\ pc[c] \in {"preStamp", "postStamp"}
        /\ local'[c].id = local[c].id /\ local'[c].at = clock'
    BY <1>1, <1>3 DEF PreStamp, PostStamp, Goes, Tick, LocalMemory
  <2>2. pc[c] \in Drawing
    BY <2>1 DEF Drawing, PreActive, PostActive
  <2>3. local[c].id =< clock /\ local[c].id \in Nat
    BY <2>2, RecordTimes DEF Spans, DrawnLast
  <2>4. local'[c].id < local'[c].at /\ local'[c].at =< clock' /\ clock =< clock'
    BY <1>1, <2>1, <2>3
  <2> QED
    BY <1>1, <2>1, <2>2, <2>3, <2>4, NoRecordSpans
<1>4. ASSUME NEW c \in Calls,
             PreHash(c) \/ PreList(c) \/ PreStat(c) \/ PreSweep(c) \/ PreOpen(c) \/ PreFill(c)
             \/ PreThrow(c) \/ PreKill(c) \/ MarkerLost(c) \/ Tool(c) \/ PostLook(c) \/ PostRead(c) \/ PostUnlink(c) \/ PostHash(c)
             \/ PostThrow(c) \/ PostKill(c)
      PROVE  Spans'
  <2>1. /\ UNCHANGED <<intentRec, effectRec>> /\ clock =< clock'
        /\ \A d \in Calls : d # c => pc'[d] = pc[d] /\ local'[d] = local[d]
        /\ pc'[c] \notin Stamping
    <3>1. CASE PreList(c) \/ PreStat(c) \/ PreSweep(c)
      BY <1>1, <3>1, SweepStep DEF Stamping
    <3>2. CASE PreHash(c) \/ PreOpen(c) \/ PreFill(c) \/ PreThrow(c) \/ PreKill(c) \/ MarkerLost(c)
               \/ Tool(c)
      BY <1>1, <3>2, ConstantsAreTyped
         DEF PreHash, PreOpen, PreFill, PreThrow, PreKill, MarkerLost, Tool, Goes, Stamping
    <3>3. CASE PostLook(c) \/ PostRead(c) \/ PostUnlink(c) \/ PostHash(c) \/ PostThrow(c) \/ PostKill(c)
      BY <1>1, <3>3
         DEF PostLook, PostRead, PostUnlink, PostHash, PostThrow, PostKill, Goes, Stamping
    <3> QED
      BY <1>4, <3>1, <3>2, <3>3
  <2>2. CASE PreHash(c) \/ PostLook(c) \/ PostRead(c) \/ PostUnlink(c) \/ PostHash(c)
    <3>1. pc[c] \in Drawing
      BY <2>2 DEF PreHash, PostLook, PostRead, PostUnlink, PostHash, Goes, Drawing, PreActive, PostActive
    <3>2. local'[c].id = local[c].id
      BY <1>1, <2>2 DEF PreHash, PostLook, PostRead, PostUnlink, PostHash, LocalMemory
    <3> QED
      BY <1>1, <2>1, <3>1, <3>2, NoRecordSpans, RecordTimes
  <2>3. CASE PreList(c) \/ PreStat(c) \/ PreSweep(c) \/ PreOpen(c) \/ PreFill(c) \/ PreThrow(c)
             \/ PreKill(c) \/ MarkerLost(c) \/ Tool(c) \/ PostThrow(c) \/ PostKill(c)
    <3>1. pc'[c] \in {"preOpen", "preFill", "ready", "ran", "over"}
      BY <1>1, <2>3
         DEF PreList, PreStat, PreSweep, PreOpen, PreFill, PreThrow, PreKill, MarkerLost, Tool, PostThrow, PostKill, Goes
    <3>2. pc'[c] \notin Drawing
      BY <3>1 DEF Drawing, PreActive, PostActive
    <3>3. local'[c].id \in Nat
      BY <1>1 DEF LocalMemory
    <3> QED
      BY <1>1, <2>1, <3>2, <3>3, NoRecordSpans
  <2> QED
    BY <1>4, <2>2, <2>3
<1>5. ASSUME OutsideChange \/ UNCHANGED vars PROVE Spans'
  BY <1>5 DEF OutsideChange, vars, Spans, RecordSpans, DrawnLast, StampedLast
<1>6. ASSUME NEW c \in Calls, PreStep(c) \/ Tool(c) \/ PostStep(c) PROVE Spans'
  BY <1>2, <1>3, <1>4, <1>6, PreWriteSpans, PostWriteSpans DEF PreStep, PostStep
<1> QED
  BY <1>5, <1>6 DEF Next

(* When they do, the merge and the verifier walk the records in one order. *)
LEMMA OneOrder ==
    ASSUME IInv, RecordSpans, NEW e \in EffectEvents
    PROVE  /\ \A i \in IntentEvents : TimeBefore(e, i) <=> IdBefore(e, i)
           /\ \A f \in EffectEvents : f = e \/ (TimeBefore(f, e) <=> IdBefore(f, e))
<1>1. PICK c \in DOMAIN effectRec : e = EffectEvent(c)
  BY DEF EffectEvents
<1>2. /\ e.id = effectRec[c].id /\ e.at = effectRec[c].at
      /\ e.id \in Nat /\ e.at \in Nat /\ e.id < e.at
  BY <1>1, EventFields, RecordTimes DEF RecordSpans
<1>3. ASSUME NEW i \in IntentEvents PROVE TimeBefore(e, i) <=> IdBefore(e, i)
  <2>1. PICK d \in DOMAIN intentRec : i = IntentEvent(d)
    BY DEF IntentEvents
  <2>2. /\ i.id = intentRec[d].id /\ i.at = intentRec[d].at
        /\ i.id \in Nat /\ i.at \in Nat /\ i.id < i.at
    BY <2>1, EventFields, RecordTimes DEF RecordSpans
  <2>3. i.at < e.id \/ e.at < i.id
    BY <1>2, <2>2 DEF RecordSpans, Apart
  <2> QED
    BY <1>2, <2>2, <2>3 DEF TimeBefore, IdBefore
<1>4. ASSUME NEW f \in EffectEvents, f # e PROVE TimeBefore(f, e) <=> IdBefore(f, e)
  <2>1. PICK d \in DOMAIN effectRec : f = EffectEvent(d)
    BY DEF EffectEvents
  <2>2. /\ f.id = effectRec[d].id /\ f.at = effectRec[d].at
        /\ f.id \in Nat /\ f.at \in Nat /\ f.id < f.at
    BY <2>1, EventFields, RecordTimes DEF RecordSpans
  <2>3. f.at < e.id \/ e.at < f.id
    BY <1>1, <1>2, <1>4, <2>1, <2>2 DEF RecordSpans, Apart
  <2> QED
    BY <1>2, <2>2, <2>3 DEF TimeBefore, IdBefore
<1> QED
  BY <1>3, <1>4

(* So a change the verifier finds is one the merge has disclosed.          *)
LEMMA ContinuityHolds ==
    ASSUME IInv, RecordSpans
    PROVE  ContinuityAccepts
<1> SUFFICES ASSUME EffectEvents # {}, NEW i \in IntentEvents,
                    Broken(i, EffectEvents, "id") # {},
                    Gap("unwitnessed_file_change", i.id) \notin Gaps
             PROVE  FALSE
  BY DEF ContinuityAccepts, CheckFileContinuity, UndisclosedChanges
<1>1. /\ \A e \in EffectEvents : Precedes("id", e, i) <=> Precedes("time", e, i)
      /\ \A e, f \in EffectEvents :
            (f = e \/ Precedes("id", f, e)) <=> (f = e \/ Precedes("time", f, e))
  BY OneOrder DEF Precedes
<1>2. ASSUME NEW p PROVE LastPost(i, p, EffectEvents, "id") = LastPost(i, p, EffectEvents, "time")
  BY <1>1, Zenon DEF LastPost
<1>3. Broken(i, EffectEvents, "time") # {}
  BY <1>2 DEF Broken
<1>4. Gap("unwitnessed_file_change", i.id) \in ContinuityGaps(IntentEvents, EffectEvents)
  BY <1>3 DEF ContinuityGaps
<1> QED
  BY <1>4 DEF Gaps, MergeGaps

(* The verifier's file-continuity check fails no bundle of a session whose *)
(* calls run one by one, whatever they repeat, whatever fails or dies, and *)
(* whoever else changes the files.                                         *)
THEOREM OneByOneIsContinuous ==
    ASSUME MaxInFlight = 1
    PROVE  Spec => []ContinuityAccepts
<1>1. Init => Single
  BY DEF Init, InFlight, Single
<1>2. IInv /\ Single /\ [Next]_vars => Single'
  BY OneByOne DEF Single
<1>3. Init => Spans
  BY SpansInit
<1>4. IInv /\ IInv' /\ Single /\ Spans /\ [Next]_vars => Spans'
  BY SpansKept
<1>5. IInv /\ Spans => ContinuityAccepts
  BY ContinuityHolds DEF Spans
<1> QED
  BY <1>1, <1>2, <1>3, <1>4, <1>5, Invariance, PTL DEF Spec

---------------------------------------------------------------------------
(* One turn of the pass. *)

(* An intent found for an effect is the recorded one, or an unclaimed one  *)
(* standing in for a recorded link the bundle cannot resolve.              *)
LEMMA FoundIntent ==
    ASSUME NEW e, NEW ints, NEW claimed, NEW i \in IntentOf(e, ints, claimed)
    PROVE  /\ i \in ints
           /\ i.id = e.link \/ (i.id \notin claimed /\ e.link \notin Ids(ints))
BY DEF IntentOf, Recorded, ResolveByInputHash, Candidates, Ids

(* When none is found the recorded link resolves to nothing. *)
LEMMA NoneFound ==
    ASSUME NEW e, NEW ints, NEW claimed, IntentOf(e, ints, claimed) = {}
    PROVE  e.link \notin Ids(ints)
BY DEF IntentOf, Recorded, Ids

Orphaned(bnd, e) == [bnd EXCEPT !.orphans = @ \union {e.id}]
Linked(bnd, i, e) == [bnd EXCEPT !.pairs = @ \union {<<i.id, e.id>>}, !.named[e.id] = i.id]

(* A turn discloses the effect, leaves a contradiction alone, or links the *)
(* effect to an intent nobody had.                                         *)
LEMMA TurnCases ==
    ASSUME NEW bnd, NEW e, NEW ints
    PROVE  \/ /\ e.link \notin Ids(ints)
              /\ BindOne(bnd, e, ints) = Orphaned(bnd, e)
           \/ /\ e.link \in Claimed(bnd) /\ e.link \in Ids(ints)
              /\ BindOne(bnd, e, ints) = bnd
           \/ \E i \in ints :
                /\ i.id \notin Claimed(bnd)
                /\ i.id = e.link \/ e.link \notin Ids(ints)
                /\ BindOne(bnd, e, ints) = Linked(bnd, i, e)
<1> DEFINE found == IntentOf(e, ints, Claimed(bnd))
           i == CHOOSE i \in found : TRUE
<1>1. CASE found = {}
  BY <1>1, NoneFound DEF BindOne, Orphaned
<1>2. CASE found # {}
  <2>1. i \in found
    BY <1>2
  <2>2. i \in ints /\ (i.id = e.link \/ (i.id \notin Claimed(bnd) /\ e.link \notin Ids(ints)))
    BY <2>1, FoundIntent
  <2>3. CASE i.id \in Claimed(bnd)
    BY <1>2, <2>2, <2>3 DEF BindOne, Ids
  <2>4. CASE i.id \notin Claimed(bnd)
    BY <1>2, <2>2, <2>4 DEF BindOne, Linked
  <2> QED
    BY <2>3, <2>4
<1> QED
  BY <1>1, <1>2

(* The pass starts with nothing bound and every effect as it arrived. *)
LEMMA InitKeeps == PassInit => PassInv
<1> SUFFICES ASSUME NEW t \in Timelines,
                    intents = t.intents, effects = t.effects, waiting = t.effects,
                    bound = NothingBound(t.effects), gaps = {}, done = FALSE
             PROVE  PassInv
  BY DEF PassInit
<1>1. WellFormed(t)
  BY TimelinesAreWellFormed
<1>2. WellFormed([intents |-> intents, effects |-> effects])
  BY <1>1 DEF WellFormed
<1>3. \A e \in effects : bound.named[e.id] = e.link
  <2> SUFFICES ASSUME NEW e \in effects PROVE bound.named[e.id] = e.link
    OBVIOUS
  <2> DEFINE f == CHOOSE f \in effects : f.id = e.id
  <2>1. f \in effects /\ f.id = e.id
    OBVIOUS
  <2>2. f = e
    BY <1>2, <2>1 DEF WellFormed
  <2>3. bound.named = [x \in {g.id : g \in effects} |-> (CHOOSE g \in effects : g.id = x).link]
    BY DEF NothingBound
  <2> QED
    BY <2>2, <2>3
<1>4. bound \in [pairs : SUBSET (Ids(intents) \X Ids(effects)),
                 named : [Ids(effects) -> Ids(intents) \union {e.link : e \in effects}],
                 orphans : SUBSET Ids(effects)]
  <2>1. bound.named \in [Ids(effects) -> {e.link : e \in effects}]
    <3>1. bound.named = [x \in Ids(effects) |-> bound.named[x]]
      BY DEF NothingBound, Ids
    <3>2. \A x \in Ids(effects) : bound.named[x] \in {e.link : e \in effects}
      BY <1>3 DEF Ids
    <3> QED
      BY <3>1, <3>2
  <2> QED
    BY <2>1 DEF NothingBound
<1>5. PassTypeOK
  BY <1>2, <1>4 DEF PassTypeOK
<1>6. LinksFormMatching /\ OrphansNameNothing
  BY DEF LinksFormMatching, OrphansNameNothing, NothingBound
<1>7. RecordedLinkKept /\ WaitingUntouched
  BY <1>3 DEF RecordedLinkKept, WaitingUntouched, NothingBound
<1>8. HandledSettled /\ GapsAreTheMerges
  BY DEF HandledSettled, GapsAreTheMerges
<1> QED
  BY <1>5, <1>6, <1>7, <1>8 DEF PassInv

(* The identity of an effect is its id. *)
LEMMA EffectById ==
    ASSUME PassTypeOK, NEW e \in effects, NEW f \in effects, e.id = f.id
    PROVE  e = f
BY DEF PassTypeOK, WellFormed

(* A turn keeps the invariant. *)
LEMMA TurnKeeps == ASSUME PassInv, Turn PROVE PassInv'
<1> USE DEF PassInv
<1>1. PICK e \in waiting :
        /\ bound' = BindOne(bound, e, intents)
        /\ waiting' = waiting \ {e}
        /\ UNCHANGED <<intents, effects, gaps, done>>
  BY DEF Turn
<1>2. e \in effects /\ ~done
  BY <1>1 DEF PassTypeOK, GapsAreTheMerges
<1>3. e.id \in Ids(effects)
  BY <1>2 DEF Ids
<1>4. GapsAreTheMerges'
  BY <1>1, <1>2 DEF GapsAreTheMerges
<1>5. CASE e.link \notin Ids(intents) /\ bound' = Orphaned(bound, e)
  <2>1. /\ bound'.pairs = bound.pairs
        /\ bound'.named = bound.named
        /\ bound'.orphans = bound.orphans \union {e.id}
    BY <1>5 DEF Orphaned, PassTypeOK
  <2>2. bound' \in [pairs : SUBSET (Ids(intents) \X Ids(effects)),
                 named : [Ids(effects) -> Ids(intents) \union {f.link : f \in effects}],
                 orphans : SUBSET Ids(effects)]
    BY <1>3, <1>5 DEF Orphaned, PassTypeOK
  <2>3. PassTypeOK'
    BY <1>1, <2>2 DEF PassTypeOK
  <2>4. LinksFormMatching' /\ RecordedLinkKept'
    BY <1>1, <2>1 DEF LinksFormMatching, RecordedLinkKept
  <2>5. WaitingUntouched'
    BY <1>1, <1>2, <2>1, EffectById DEF WaitingUntouched, PassTypeOK
  <2>6. HandledSettled'
    BY <1>1, <2>1 DEF HandledSettled, Claimed
  <2>7. OrphansNameNothing'
    BY <1>1, <1>2, <1>5, <2>1, EffectById DEF OrphansNameNothing, WaitingUntouched
  <2> QED
    BY <1>4, <2>3, <2>4, <2>5, <2>6, <2>7
<1>6. CASE e.link \in Claimed(bound) /\ e.link \in Ids(intents) /\ bound' = bound
  <2>1. PassTypeOK' /\ LinksFormMatching' /\ RecordedLinkKept' /\ OrphansNameNothing'
    BY <1>1, <1>6 DEF PassTypeOK, LinksFormMatching, RecordedLinkKept, OrphansNameNothing
  <2>2. WaitingUntouched'
    BY <1>1, <1>6 DEF WaitingUntouched
  <2>3. HandledSettled'
    BY <1>1, <1>6 DEF HandledSettled, WaitingUntouched
  <2> QED
    BY <1>4, <2>1, <2>2, <2>3
<1>7. ASSUME NEW i \in intents, i.id \notin Claimed(bound),
             i.id = e.link \/ e.link \notin Ids(intents),
             bound' = Linked(bound, i, e)
      PROVE  PassInv'
  <2>1. /\ bound'.pairs = bound.pairs \union {<<i.id, e.id>>}
        /\ bound'.named = [bound.named EXCEPT ![e.id] = i.id]
        /\ bound'.orphans = bound.orphans
    BY <1>7 DEF Linked, PassTypeOK
  <2>2. i.id \in Ids(intents)
    BY DEF Ids
  <2>3. bound' \in [pairs : SUBSET (Ids(intents) \X Ids(effects)),
                 named : [Ids(effects) -> Ids(intents) \union {f.link : f \in effects}],
                 orphans : SUBSET Ids(effects)]
    <3>1. /\ bound.pairs \subseteq Ids(intents) \X Ids(effects)
          /\ bound.named \in [Ids(effects) -> Ids(intents) \union {f.link : f \in effects}]
          /\ bound.orphans \subseteq Ids(effects)
      BY DEF PassTypeOK
    <3>2. /\ bound'.pairs \in SUBSET (Ids(intents) \X Ids(effects))
          /\ bound'.named \in [Ids(effects) -> Ids(intents) \union {f.link : f \in effects}]
          /\ bound'.orphans \in SUBSET Ids(effects)
      BY <1>3, <2>1, <2>2, <3>1
    <3>3. bound' = [pairs |-> bound'.pairs, named |-> bound'.named, orphans |-> bound'.orphans]
      BY <1>7 DEF Linked, PassTypeOK
    <3> QED
      BY <3>2, <3>3
  <2>4. PassTypeOK'
    BY <1>1, <2>3 DEF PassTypeOK
  <2>5. /\ bound'.named[e.id] = i.id
        /\ \A x \in Ids(effects) : x # e.id => bound'.named[x] = bound.named[x]
    BY <1>3, <2>1 DEF PassTypeOK
  <2>6. \A p \in bound.pairs : p[1] # i.id /\ p[2] # e.id /\ p[2] \in Ids(effects)
    BY <1>1, <1>7 DEF Claimed, WaitingUntouched, PassTypeOK
  <2>7. LinksFormMatching'
    BY <2>1, <2>5, <2>6 DEF LinksFormMatching
  <2>8. RecordedLinkKept'
    BY <1>1, <1>2, <1>7, <2>5, EffectById DEF RecordedLinkKept, Ids
  <2>9. WaitingUntouched'
    BY <1>1, <1>2, <2>1, <2>5, EffectById DEF WaitingUntouched, PassTypeOK, Ids
  <2>10. HandledSettled'
    <3>1. <<i.id, e.id>> \in bound'.pairs /\ \A p \in bound.pairs : p \in bound'.pairs
      BY <2>1
    <3>2. i.id \in {p[1] : p \in bound'.pairs}
      BY <3>1
    <3>3. Claimed(bound) \union {i.id} \subseteq Claimed(bound)'
      BY <3>1, <3>2 DEF Claimed
    <3> QED
      BY <1>1, <1>2, <2>1, <2>5, <3>3 DEF HandledSettled, Ids
  <2>11. OrphansNameNothing'
    BY <1>1, <1>2, <2>1, <2>5, EffectById DEF OrphansNameNothing, WaitingUntouched, Ids
  <2> QED
    BY <1>4, <2>4, <2>7, <2>8, <2>9, <2>10, <2>11
<1> QED
  BY <1>1, <1>5, <1>6, <1>7, TurnCases

(* Filing the gaps keeps it. *)
LEMMA ReportKeeps == ASSUME PassInv, Report PROVE PassInv'
<1> USE DEF PassInv
<1>1. \A g \in MergeGaps(bound, intents, effects) :
         g \in [reason : Reasons, of : Ids(intents) \union Ids(effects)]
  BY DEF MergeGaps, PairingGaps, ContinuityGaps, Gap, Reasons, PassTypeOK, Ids
<1>2. PassTypeOK'
  BY <1>1 DEF Report, PassTypeOK
<1>3. LinksFormMatching' /\ RecordedLinkKept' /\ WaitingUntouched' /\ HandledSettled' /\ OrphansNameNothing'
  BY DEF Report, LinksFormMatching, RecordedLinkKept, WaitingUntouched, HandledSettled, OrphansNameNothing
<1>4. GapsAreTheMerges'
  BY DEF Report, GapsAreTheMerges
<1> QED
  BY <1>2, <1>3, <1>4

---------------------------------------------------------------------------
(* The theorems. *)

(* The invariant holds throughout the pass. *)
THEOREM PassInvariance == PassSpec => []PassInv
<1>1. PassInv /\ UNCHANGED passVars => PassInv'
  BY DEF PassInv, passVars, PassTypeOK, LinksFormMatching, RecordedLinkKept, WaitingUntouched,
         HandledSettled, OrphansNameNothing, GapsAreTheMerges
<1>2. PassInv /\ [PassNext]_passVars => PassInv'
  BY <1>1, TurnKeeps, ReportKeeps DEF PassNext
<1> QED
  BY <1>2, InitKeeps, PTL DEF PassSpec

(* The pass keeps its types on every timeline. *)
THEOREM PassTypeCorrectness == PassSpec => []PassTypeOK
<1>1. PassInv => PassTypeOK
  BY DEF PassInv
<1> QED
  BY <1>1, PassInvariance, PTL

(* The correlation the merge writes is one-to-one and agrees with the      *)
(* signed links, whatever the store held.                                  *)
THEOREM LinksAreAMatching == PassSpec => []LinksFormMatching
<1>1. PassInv => LinksFormMatching
  BY DEF PassInv
<1> QED
  BY <1>1, PassInvariance, PTL

(* Correlation never rewrites a recorded link that resolves. *)
THEOREM RecordedLinksAreKept == PassSpec => []RecordedLinkKept
<1>1. PassInv => RecordedLinkKept
  BY DEF PassInv
<1> QED
  BY <1>1, PassInvariance, PTL

(* The gaps of a finished pass that concern the pairing. *)
LEMMA PairingGapsFiled ==
    ASSUME PassInv, done, effects # {}
    PROVE  /\ \A x \in bound.orphans : Gap("effect_without_intent", x) \in gaps
           /\ \A i \in intents : i.hook /\ i.id \notin Claimed(bound)
                                   => Gap("intent_without_effect", i.id) \in gaps
BY DEF PassInv, GapsAreTheMerges, MergeGaps, PairingGaps

(* A linked intent is named by the effect it is linked to. *)
LEMMA ClaimedIsNamed ==
    ASSUME PassInv, NEW x \in Claimed(bound)
    PROVE  Naming(x, bound) # {}
BY DEF PassInv, PassTypeOK, LinksFormMatching, Claimed, Naming

(* On a finished pass without a double close the verifier finds nothing to *)
(* complain of.                                                            *)
LEMMA NothingToReject ==
    ASSUME PassInv, done, effects # {}, DoubleClosed(bound, intents) = {}
    PROVE  CheckIntentEffect(bound, intents, effects, gaps) = "PASS"
<1> USE DEF PassInv
<1>1. DanglingEffects(bound, intents, gaps) = {}
  <2> SUFFICES ASSUME NEW y \in DOMAIN bound.named, bound.named[y] \notin Ids(intents)
               PROVE  Gap("effect_without_intent", y) \in gaps
    BY DEF DanglingEffects, Ids
  <2>1. PICK e \in effects : e.id = y
    BY DEF PassTypeOK, Ids
  <2>2. bound.named[y] \notin Claimed(bound)
    BY DEF Claimed, PassTypeOK
  <2>3. y \in bound.orphans
    BY <2>1, <2>2 DEF HandledSettled, GapsAreTheMerges
  <2> QED
    BY <2>3, PairingGapsFiled
<1>2. CrossReference(bound, intents) = {}
  <2> SUFFICES ASSUME NEW i \in intents, NEW y \in Closer(i.id, bound), NEW p \in bound.pairs
               PROVE  p[1] = i.id <=> p[2] = y
    BY DEF CrossReference
  <2>1. y \in Naming(i.id, bound)
    BY DEF Closer
  <2>2. bound.named[p[2]] = p[1] /\ p[2] \in DOMAIN bound.named
    BY DEF PassTypeOK, LinksFormMatching
  <2>3. p[1] = i.id => p[2] \in Naming(i.id, bound)
    BY <2>2 DEF Naming
  <2>4. \A z \in Naming(i.id, bound) : z = y
    BY <2>1 DEF DoubleClosed
  <2> QED
    BY <2>1, <2>2, <2>3, <2>4 DEF Naming
<1>3. Undisclosed(bound, intents, gaps) = {}
  BY PairingGapsFiled, ClaimedIsNamed DEF Undisclosed
<1> QED
  BY <1>1, <1>2, <1>3 DEF CheckIntentEffect

(* The verifier rejects what the merge left for one reason only, and always *)
(* for that one: two effects name one intent.                               *)
THEOREM OnlyDoubleCloseIsRejected == PassSpec => []RejectedOnlyForDoubleClose
<1>1. PassInv => RejectedOnlyForDoubleClose
  <2> SUFFICES ASSUME PassInv, done
               PROVE  CheckIntentEffect(bound, intents, effects, gaps) = "FAIL"
                        <=> DoubleClosed(bound, intents) # {}
    BY DEF RejectedOnlyForDoubleClose
  <2>1. CASE effects = {}
    <3>1. DOMAIN bound.named = {}
      BY <2>1 DEF PassInv, PassTypeOK, Ids
    <3>2. DoubleClosed(bound, intents) = {}
      BY <3>1 DEF DoubleClosed, Naming
    <3> QED
      BY <2>1, <3>2 DEF CheckIntentEffect
  <2>2. CASE effects # {} /\ DoubleClosed(bound, intents) = {}
    BY <2>2, NothingToReject
  <2>3. CASE effects # {} /\ DoubleClosed(bound, intents) # {}
    BY <2>3 DEF CheckIntentEffect
  <2> QED
    BY <2>1, <2>2, <2>3
<1> QED
  BY <1>1, PassInvariance, PTL

(* No pairing gap is a false alarm. *)
THEOREM GapsAreTruthful == PassSpec => []GapsTruthful
<1>1. PassInv => GapsTruthful
  <2> SUFFICES ASSUME PassInv PROVE GapsTruthful
    OBVIOUS
  <2>1. CASE ~done
    BY <2>1 DEF PassInv, GapsAreTheMerges, GapsTruthful
  <2>2. CASE done
    <3>1. ASSUME NEW i \in intents, Gap("intent_without_effect", i.id) \in gaps
          PROVE  Naming(i.id, bound) = {}
      <4>1. i.id \notin Claimed(bound)
        BY <2>2, <3>1 DEF PassInv, GapsAreTheMerges, MergeGaps, PairingGaps, ContinuityGaps, Gap
      <4> SUFFICES ASSUME NEW y \in Naming(i.id, bound) PROVE FALSE
        OBVIOUS
      <4>2. PICK e \in effects : e.id = y
        BY DEF PassInv, PassTypeOK, Naming, Ids
      <4>3. e.id \in bound.orphans \/ bound.named[e.id] \in Claimed(bound)
        BY <2>2 DEF PassInv, HandledSettled, GapsAreTheMerges
      <4> QED
        BY <4>1, <4>2, <4>3 DEF PassInv, OrphansNameNothing, Naming, Ids
    <3>2. ASSUME NEW e \in effects, Gap("effect_without_intent", e.id) \in gaps
          PROVE  bound.named[e.id] \notin Ids(intents)
      <4>1. e.id \in bound.orphans
        BY <2>2, <3>2 DEF PassInv, GapsAreTheMerges, MergeGaps, PairingGaps, ContinuityGaps, Gap
      <4> QED
        BY <4>1 DEF PassInv, OrphansNameNothing
    <3> QED
      BY <3>1, <3>2 DEF GapsTruthful
  <2> QED
    BY <2>1, <2>2
<1> QED
  BY <1>1, PassInvariance, PTL

---------------------------------------------------------------------------
(* The steps and the whole. *)

(* A timeline is a list of events with times: finitely many effects.       *)
TimelinesAreFinite ==
    \A t \in Timelines : IsFiniteSet(t.effects) /\ \A e \in t.effects : e.at \in Nat

(* What Bind has after each set of effects. *)
After(ints, effs) == CHOOSE f : Passes(f, ints, effs, SUBSET effs)

LEMMA AfterIs ==
    ASSUME NEW ints, NEW effs, IsFiniteSet(effs), Ordered(effs)
    PROVE  /\ Bind(ints, effs) = After(ints, effs)[effs]
           /\ \A h \in SUBSET effs :
                After(ints, effs)[h] = IF h = {} THEN NothingBound(effs)
                                       ELSE BindOne(After(ints, effs)[h \ {Latest(h)}], Latest(h), ints)
<1> DEFINE N == Cardinality(effs)
<1>1. N \in Nat /\ \A h \in SUBSET effs : IsFiniteSet(h) /\ Cardinality(h) \in Nat /\ Cardinality(h) <= N
  BY FS_Subset, FS_CardinalityType
<1>2. UpTo(effs, N) = SUBSET effs
  BY <1>1 DEF UpTo
<1>3. \E w : Passes(w, ints, effs, SUBSET effs)
  <2>1. \E w : Passes(w, ints, effs, UpTo(effs, N))
    BY <1>1, PassExists
  <2> QED
    BY <1>2, <2>1
<1>4. Passes(After(ints, effs), ints, effs, SUBSET effs)
  BY <1>3 DEF After
<1>5. Bind(ints, effs) = After(ints, effs)[effs]
  BY DEF Bind, After, Passes
<1> QED
  BY <1>4, <1>5 DEF Passes

(* The effect all others of a set come before is its latest. *)
LEMMA LatestIs ==
    ASSUME NEW effs, Ordered(effs), NEW e \in effs, IsLatest(e, effs)
    PROVE  Latest(effs) = e
<1>1. \A x, y \in effs : IsLatest(x, effs) /\ IsLatest(y, effs) => x = y
  <2> SUFFICES ASSUME NEW x \in effs, NEW y \in effs, x # y,
                      IsLatest(x, effs), IsLatest(y, effs)
               PROVE  FALSE
    OBVIOUS
  <2>1. TimeBefore(x, y) /\ TimeBefore(y, x)
    BY DEF IsLatest
  <2> QED
    BY <2>1 DEF TimeBefore, Ordered
<1> QED
  BY <1>1 DEF Latest, IsLatest

(* Which intent an effect gets depends on the order of capture times and   *)
(* on nothing else (the sort in merge.ts before bindIntentAndEffect).      *)
PassIsBind == done => bound = Bind(intents, effects)

(* The effects that have had their turn came before those that wait, and   *)
(* what is bound is what Bind has after them.                              *)
SoFar ==
    /\ IsFiniteSet(effects) /\ Ordered(effects) /\ waiting \subseteq effects
    /\ \A e \in effects \ waiting : \A f \in waiting : TimeBefore(e, f)
    /\ bound = After(intents, effects)[effects \ waiting]
    /\ done => waiting = {}

LEMMA InitSoFar == ASSUME TimelinesAreFinite, PassInit PROVE SoFar
<1>1. PICK t \in Timelines :
        /\ intents = t.intents /\ effects = t.effects /\ waiting = t.effects
        /\ bound = NothingBound(t.effects) /\ done = FALSE
  BY DEF PassInit
<1>2. WellFormed(t)
  BY TimelinesAreWellFormed
<1>3. IsFiniteSet(effects) /\ Ordered(effects)
  BY <1>1, <1>2 DEF TimelinesAreFinite, WellFormed, Ordered, Ids
<1>4. effects \ waiting = {} /\ {} \in SUBSET effects
  BY <1>1
<1>5. bound = After(intents, effects)[effects \ waiting]
  <2>1. After(intents, effects)[{}]
          = IF {} = {} THEN NothingBound(effects)
            ELSE BindOne(After(intents, effects)[{} \ {Latest({})}], Latest({}), intents)
    BY <1>3, <1>4, AfterIs
  <2>2. After(intents, effects)[{}] = NothingBound(effects)
    BY <2>1
  <2> QED
    BY <1>1, <1>4, <2>2
<1>6. waiting \subseteq effects /\ \A e \in effects \ waiting : \A f \in waiting : TimeBefore(e, f)
  BY <1>1
<1>7. done => waiting = {}
  BY <1>1, Zenon
<1> QED
  BY <1>3, <1>5, <1>6, <1>7 DEF SoFar

LEMMA TurnSoFar == ASSUME SoFar, Turn PROVE SoFar'
<1>1. PICK e \in waiting :
        /\ \A f \in waiting : f = e \/ TimeBefore(e, f)
        /\ bound' = BindOne(bound, e, intents)
        /\ waiting' = waiting \ {e}
        /\ UNCHANGED <<intents, effects, gaps, done>>
  BY DEF Turn
<1> DEFINE g == effects \ waiting
           h == effects \ waiting'
<1>2. e \in effects /\ e \in h /\ h \in SUBSET effects /\ h # {} /\ h \ {e} = g
  BY <1>1 DEF SoFar
<1>3. Ordered(h) /\ IsLatest(e, h)
  BY <1>1, <1>2 DEF SoFar, Ordered, IsLatest
<1>4. Latest(h) = e
  BY <1>2, <1>3, LatestIs
<1>5. After(intents, effects)[h] = BindOne(After(intents, effects)[g], e, intents)
  <2>1. After(intents, effects)[h] = IF h = {} THEN NothingBound(effects)
            ELSE BindOne(After(intents, effects)[h \ {Latest(h)}], Latest(h), intents)
    <3> HIDE DEF h
    <3> QED
      BY <1>2, AfterIs DEF SoFar
  <2> QED
    BY <1>2, <1>4, <2>1
<1>6. bound' = After(intents, effects)[h]
  BY <1>1, <1>5 DEF SoFar
<1>7. \A x \in effects \ waiting' : \A f \in waiting' : TimeBefore(x, f)
  BY <1>1 DEF SoFar
<1>8. bound' = After(intents, effects)[effects \ waiting]'
  <2>1. intents' = intents /\ effects' = effects
    BY <1>1
  <2> QED
    BY <1>6, <2>1
<1>9. (\A x \in effects \ waiting : \A f \in waiting : TimeBefore(x, f))'
  BY <1>1, <1>7
<1>10. (IsFiniteSet(effects) /\ Ordered(effects) /\ waiting \subseteq effects)'
  BY <1>1 DEF SoFar
<1>11. (done => waiting = {})'
  BY <1>1 DEF SoFar
<1> HIDE DEF h, g
<1> QED
  BY <1>8, <1>9, <1>10, <1>11 DEF SoFar

(* The pass, one effect at a time in the order of capture times, ends in   *)
(* what Bind makes of the whole timeline; so what is proved of Bind for    *)
(* CaptureSession is true of the pass (merge-intent-effect.ts              *)
(* bindIntentAndEffect).                                                   *)
THEOREM PassBinds == ASSUME TimelinesAreFinite PROVE PassSpec => []PassIsBind
<1>1. PassInit => SoFar
  BY InitSoFar
<1>2. SoFar /\ [PassNext]_passVars => SoFar'
  <2>1. SoFar /\ UNCHANGED passVars => SoFar'
    BY DEF SoFar, passVars
  <2>2. SoFar /\ Report => SoFar'
    BY DEF SoFar, Report
  <2> QED
    BY <2>1, <2>2, TurnSoFar DEF PassNext
<1>3. SoFar => PassIsBind
  <2> SUFFICES ASSUME SoFar, done PROVE bound = Bind(intents, effects)
    BY DEF PassIsBind
  <2>1. effects \ waiting = effects
    BY DEF SoFar
  <2> QED
    BY <2>1, AfterIs DEF SoFar
<1> QED
  BY <1>1, <1>2, <1>3, PTL DEF PassSpec
=============================================================================
