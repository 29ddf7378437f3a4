-------------------------- MODULE ExecveCollector --------------------------
(***************************************************************************)
(* depose-collect-execve: the kernel probe, its ring buffer, and the       *)
(* process that turns exec events into capture records                     *)
(* (apps/collect-execve).                                                  *)
(*                                                                         *)
(* The probe says that a pid exec'd.  Who its ancestors are and what it    *)
(* runs is read from /proc afterwards, one process at a time, while        *)
(* processes go on forking, exec'ing and exiting.  Each reading of a /proc *)
(* entry is a step.                                                        *)
(*                                                                         *)
(* Execs are numbered as they happen, and the program an exec starts is    *)
(* known by its number.  A process that has exited stays in /proc without  *)
(* a command line until it is reaped.                                      *)
(***************************************************************************)
EXTENDS Integers, SequencesExt

CONSTANTS
    Pids,           \* process ids, 1 being init's
    Agent,          \* Options.AgentPID
    Capacity,       \* records the ring buffer holds
    Depth,          \* MaxAncestryDepth
    MaxForks,       \* bound: forks
    MaxExecs,       \* bound: execs
    MaxFaults       \* bound: attachments, readings and writes that fail

ASSUME CollectorConstants ==
    /\ Pids \subseteq Nat \ {0} /\ {1, Agent} \subseteq Pids
    /\ Agent # 1
    /\ Capacity \in Nat \ {0} /\ Depth \in Nat \ {0}
    /\ MaxForks \in Nat /\ MaxExecs \in Nat /\ MaxFaults \in Nat

VARIABLES
    parent,     \* the parent of every pid in /proc
    image,      \* the exec whose program a pid runs; 0 none, also when exited
    given,      \* how often each pid was given out
    execs,      \* the execs so far, with the pid and whether it descended
                \* from the agent
    ring,       \* the ring buffer
    dropped,    \* execs the probe had no room for
    col,        \* the collector and what it has in memory
    closed,     \* the probe has been closed by a signal or the time limit
    store,      \* execve records
    failures,   \* capture_failed records
    taken,      \* execs the collector is done with
    steady,     \* execs whose process and ancestors are as they were
    faults

vars == <<parent, image, given, execs, ring, dropped, col, closed, store, failures, taken, steady,
          faults>>

System == <<parent, image, given>>
Kernel == <<parent, image, given, execs, ring, dropped, steady>>

---------------------------------------------------------------------------
(* Processes. *)

Zombie == 0
InProc(p) == p \in DOMAIN parent
Alive(p) == InProc(p) /\ image[p] # Zombie

(* The pids on the way from p up to init: those in every set of pids that  *)
(* holds p's parent and the parents of its own.                            *)
Climbs(S) == \A q \in S \ {1} : parent[q] \in S
Ancestors(p) ==
    {q \in DOMAIN parent :
        \A S \in SUBSET DOMAIN parent : (p = 1 \/ parent[p] \in S) /\ Climbs(S) => q \in S}

(* The way up from p, nearest first. *)
IsLine(p, line) ==
    line[1] = parent[p] /\ \A i \in DOMAIN line \ {1} : line[i] = parent[line[i - 1]]

(* The agent is near enough for the walk to come to it. *)
InReach(p) ==
    \E n \in 1..Depth : \E line \in [1..n -> DOMAIN parent] : IsLine(p, line) /\ line[n] = Agent

(* Init's program and the agent's started before the probe was attached.   *)
Before == MaxExecs + 1

Waiting == [at |-> "waiting", exec |-> 0, current |-> 0, chain |-> <<>>, argv |-> 0]

Init ==
    /\ parent = [p \in {1, Agent} |-> IF p = 1 THEN 0 ELSE 1]
    /\ image = [p \in {1, Agent} |-> Before]
    /\ given = [p \in Pids |-> IF p \in {1, Agent} THEN 1 ELSE 0]
    /\ execs = <<>>
    /\ ring = <<>>
    /\ dropped = {}
    /\ col = [Waiting EXCEPT !.at = "off"]
    /\ closed = FALSE
    /\ store = {}
    /\ failures = {}
    /\ taken = {}
    /\ steady = {}
    /\ faults = 0

Forks == FoldFunction(LAMBDA n, sum : n + sum, 0, given) - 2

(* A pid that is out of /proc may be given out again. *)
Fork(p) ==
    /\ Alive(p)
    /\ Forks < MaxForks
    /\ \E q \in Pids \ DOMAIN parent :
         /\ parent' = [x \in DOMAIN parent \union {q} |-> IF x = q THEN p ELSE parent[x]]
         /\ image' = [x \in DOMAIN image \union {q} |-> IF x = q THEN image[p] ELSE image[x]]
         /\ given' = [given EXCEPT ![q] = @ + 1]
    /\ UNCHANGED <<execs, ring, dropped, col, closed, store, failures, taken, steady, faults>>

Seen == col.at \notin {"off", "over"} /\ ~closed

(* The probe reserves a record, or lets the exec go by when there is none. *)
Exec(p) ==
    LET n == Len(execs) + 1
        room == Len(ring) < Capacity
    IN  /\ Alive(p) /\ p # 1
        /\ n =< MaxExecs
        /\ image' = [image EXCEPT ![p] = n]
        /\ execs' = Append(execs, [pid |-> p, inTree |-> Agent \in Ancestors(p)])
        /\ ring' = IF Seen /\ room THEN Append(ring, n) ELSE ring
        /\ dropped' = IF Seen /\ ~room THEN dropped \union {n} ELSE dropped
        /\ steady' = {e \in steady : execs[e].pid # p} \union (IF InReach(p) THEN {n} ELSE {})
        /\ UNCHANGED <<parent, given, col, closed, store, failures, taken, faults>>

(* The children of a process that exits go to init. *)
Exit(p) ==
    /\ Alive(p) /\ p # 1
    /\ image' = [image EXCEPT ![p] = Zombie]
    /\ parent' = [x \in DOMAIN parent |-> IF parent[x] = p THEN 1 ELSE parent[x]]
    /\ steady' = {e \in steady : p # execs[e].pid /\ p \notin Ancestors(execs[e].pid)}
    /\ UNCHANGED <<given, execs, ring, dropped, col, closed, store, failures, taken, faults>>

Reap(p) ==
    /\ InProc(p) /\ ~Alive(p)
    /\ parent' = [x \in DOMAIN parent \ {p} |-> parent[x]]
    /\ image' = [x \in DOMAIN image \ {p} |-> image[x]]
    /\ UNCHANGED <<given, execs, ring, dropped, col, closed, store, failures, taken, steady, faults>>

---------------------------------------------------------------------------
(* The collector (main.go, collector.go). *)

(* What ends a run early is recorded in the store, if that can be written. *)
GivesUp ==
    /\ col' = [Waiting EXCEPT !.at = "over"]
    /\ faults < MaxFaults
    /\ faults' = faults + 1
    /\ failures' \in {failures, failures \union {"ebpf-attach"}}

Attach ==
    /\ col.at = "off"
    /\ \/ col' = Waiting /\ UNCHANGED <<failures, faults>>
       \/ GivesUp
    /\ UNCHANGED <<Kernel, closed, store, taken>>

(* Read, and the start of Handle: the agent's own exec is no command. *)
Take ==
    LET e == Head(ring)
    IN  /\ col.at = "waiting"
        /\ ~closed
        /\ ring # <<>>
        /\ ring' = Tail(ring)
        /\ IF execs[e].pid = Agent
           THEN taken' = taken \union {e} /\ UNCHANGED col
           ELSE /\ col' = [Waiting EXCEPT !.at = "walk", !.exec = e, !.current = execs[e].pid]
                /\ UNCHANGED taken
        /\ UNCHANGED <<System, execs, dropped, closed, store, failures, steady, faults>>

ReadFails ==
    /\ col.at = "waiting"
    /\ ~closed
    /\ GivesUp
    /\ UNCHANGED <<Kernel, closed, store, taken>>

(* One turn of Ancestry: the parent of the current process, 0 when its     *)
(* entry has gone.                                                         *)
PPID(p) == IF InProc(p) THEN parent[p] ELSE 0

Met(q) == q = execs[col.exec].pid \/ \E i \in DOMAIN col.chain : col.chain[i] = q

(* Mutated form of Walk: the parent alone is looked at. *)
WalkOnce ==
    LET q == PPID(col.current)
    IN  /\ col.at = "walk"
        /\ col' = [col EXCEPT !.at = "argv", !.chain = IF q = 0 THEN @ ELSE Append(@, q)]
        /\ UNCHANGED <<Kernel, closed, store, failures, taken, faults>>

(* Mutated form of Walk: a process that has gone is waited for. *)
WalkWaiting ==
    LET q == PPID(col.current)
        last == q = 1 \/ Len(col.chain) + 1 = Depth
    IN  /\ col.at = "walk"
        /\ q # 0
        /\ col' = IF Met(q) THEN [col EXCEPT !.at = "argv"]
                  ELSE [col EXCEPT !.current = q, !.chain = Append(@, q),
                                   !.at = IF last THEN "argv" ELSE "walk"]
        /\ UNCHANGED <<Kernel, closed, store, failures, taken, faults>>

Walk ==
    LET q == PPID(col.current)
        last == q = 1 \/ Len(col.chain) + 1 = Depth
    IN  /\ col.at = "walk"
        /\ col' = IF q = 0 \/ Met(q) THEN [col EXCEPT !.at = "argv"]
                  ELSE [col EXCEPT !.current = q, !.chain = Append(@, q),
                                   !.at = IF last THEN "argv" ELSE "walk"]
        /\ UNCHANGED <<Kernel, closed, store, failures, taken, faults>>

(* Mutated form of InTree: a process that has gone is taken for the agent's.*)
InTreeWhenGone(chain) == chain = <<>> \/ \E i \in DOMAIN chain : chain[i] = Agent

(* inTree. *)
InTree(chain) == \E i \in DOMAIN chain : chain[i] = Agent

(* The command line, the executable and the directory; an exec outside the *)
(* agent's tree ends here.                                                 *)
ReadArgv ==
    LET p == execs[col.exec].pid
    IN  /\ col.at = "argv"
        /\ IF InTree(col.chain)
           THEN /\ col' = [col EXCEPT !.at = "write", !.argv = IF InProc(p) THEN image[p] ELSE 0]
                /\ UNCHANGED taken
           ELSE /\ col' = Waiting
                /\ taken' = taken \union {col.exec}
        /\ UNCHANGED <<Kernel, closed, store, failures, faults>>

Write ==
    /\ col.at = "write"
    /\ store' = store \union {[exec |-> col.exec, pid |-> execs[col.exec].pid,
                               ancestry |-> col.chain, argv |-> col.argv]}
    /\ taken' = taken \union {col.exec}
    /\ col' = Waiting
    /\ UNCHANGED <<Kernel, closed, failures, faults>>

(* A record that cannot be written ends the run. *)
WriteFails ==
    /\ col.at = "write"
    /\ GivesUp
    /\ UNCHANGED <<Kernel, closed, store, taken>>

(* A signal or the time limit closes the probe, whatever the loop is at. *)
Stop ==
    /\ col.at \notin {"off", "over"}
    /\ ~closed
    /\ closed' = TRUE
    /\ UNCHANGED <<Kernel, col, store, failures, taken, faults>>

(* The next Read says so, unread records or not. *)
Leave ==
    /\ col.at = "waiting"
    /\ closed
    /\ col' = [Waiting EXCEPT !.at = "over"]
    /\ UNCHANGED <<Kernel, closed, store, failures, taken, faults>>

Collect == Take \/ ReadFails \/ Walk \/ ReadArgv \/ Write \/ WriteFails \/ Leave

Next == \/ \E p \in Pids : Fork(p) \/ Exec(p) \/ Exit(p) \/ Reap(p)
        \/ Attach \/ Collect \/ Stop

Spec == Init /\ [][Next]_vars

(* The loop of the collector is scheduled. *)
FairSpec == Spec /\ WF_vars(Collect)

---------------------------------------------------------------------------
(* Properties. *)

(* As long as no pid was given out twice, no exec is recorded that was not *)
(* made below the agent, although the chain is read link by link while     *)
(* processes come and go.                                                  *)
RecordedWasDescendant ==
    (\A p \in Pids : given[p] =< 1) => \A r \in store : execs[r.exec].inTree

(* Children of children count: an exec below the agent whose process and   *)
(* ancestors are still as they were when the collector has dealt with it   *)
(* is recorded, once and with its own command line.                        *)
SteadyExecRecorded ==
    \A e \in steady \intersect taken :
        execs[e].pid # Agent =>
            /\ \E r \in store : r.exec = e /\ r.argv = e
            /\ Cardinality({r \in store : r.exec = e}) = 1

(* An event in the ring is dealt with, unless the run ends first. *)
EventsAreTaken ==
    \A n \in 1..MaxExecs :
        (\E i \in DOMAIN ring : ring[i] = n) ~> (n \in taken \/ closed \/ col.at = "over")
=============================================================================
