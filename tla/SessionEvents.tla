--------------------------- MODULE SessionEvents ----------------------------
(***************************************************************************)
(* The event every source of a bundle is turned into                       *)
(* (packages/core/src/normalize/claude-code-build-event.ts,                *)
(* merge-support.ts), with the fields the merge and the timeline look at.  *)
(* An id is drawn at random; here it is the place the event came from, so  *)
(* two events have one id only where the code would reuse it.              *)
(***************************************************************************)
EXTENDS Integers, SequencesExt

NoEvent == <<>>

BuildEvent(id, type, at, mono, parent) ==
    [id |-> id, type |-> type, at |-> at, mono |-> mono, parent |-> parent,
     use    |-> "",     \* toolUseId of a call or a result
     argv   |-> <<>>,   \* of a command, or of the command a call asks for
     cwd    |-> <<>>,   \* likewise, as path segments; <<>> when not recorded
     source |-> "",     \* hook, shim, kernel or reconstructed
     pids   |-> {},     \* the process ancestry a record carries
     input  |-> "none", \* inputHash
     files  |-> <<>>,   \* file hashes a record carries
     link   |-> NoEvent,\* the intent an effect record names
     reason |-> ""]     \* of a gap

\* Faulty: a gap at the very place of its event.
GapAboutBeside(e, reason) ==
    [BuildEvent(<<reason>> \o e.id, "gap", e.at, e.mono, e.id) EXCEPT !.reason = reason]

\* A gap about an event stands right behind it and hangs under it.
GapAbout(e, reason) ==
    [BuildEvent(<<reason>> \o e.id, "gap", e.at, e.mono + 1, e.id) EXCEPT !.reason = reason]

\* The numbers of a finite set, in order.
InOrder(S) ==
    [k \in 1..Cardinality(S) |-> CHOOSE i \in S : Cardinality({j \in S : j < i}) = k - 1]

\* The elements at some places of a sequence, in order.
ElementsAt(seq, places) ==
    LET at == InOrder(places) IN [k \in DOMAIN at |-> seq[at[k]]]

\* compareByTime: wallTs, then monoNs.
CompareByTime(x, y) == x.at < y.at \/ (x.at = y.at /\ x.mono < y.mono)

\* Array.prototype.sort is stable: equals stay in the order they came in.
SortsBefore(events, i, j) ==
    \/ CompareByTime(events[i], events[j])
    \/ ~CompareByTime(events[j], events[i]) /\ i < j

\* An event goes to the place after those that precede it.
SortByTime(events) ==
    LET rank == [i \in DOMAIN events |->
                   Cardinality({j \in DOMAIN events : SortsBefore(events, j, i)})]
    IN  [k \in DOMAIN events |-> events[CHOOSE i \in DOMAIN events : rank[i] = k - 1]]
=============================================================================
