------------------------------ MODULE InitSync ------------------------------
(***************************************************************************)
(* The initial synchronisations of a server that boots: the list of the    *)
(* naming contexts and sources to try before the server may advertise      *)
(* itself, and what is done when an attempt is over.                       *)
(*                                                                         *)
(* Source: ntdsa/dra/drainit.c.  The operators give the new value of the   *)
(* list; module DraQueue has the threads that call them.                   *)
(***************************************************************************)
EXTENDS Integers, Sequences, FiniteSets, SequencesExt

CONSTANTS
  NCs,       \* naming contexts
  Sources,   \* servers to replicate from
  DomainNC   \* the domain of this server

ASSUME InitSyncAssumption == DomainNC \in NCs /\ IsFiniteSet(NCs) /\ IsFiniteSet(Sources)

VARIABLE init

\* NCSYNCDATA.  lastTried is ulLastTriedSrcs.
NCSyncData == [writ : BOOLEAN, sources : Seq(Sources), completed : SUBSET Sources,
               synced : BOOLEAN, complete : BOOLEAN,
               tried : Nat, lastTried : Nat, untried : Nat]
NoData == [writ |-> FALSE, sources |-> <<>>, completed |-> {}, synced |-> FALSE,
           complete |-> FALSE, tried |-> 0, lastTried |-> 0, untried |-> 0]

\* first: the list from gpNCSDFirst on, freed once finished (gfInitSyncsFinished)
\* is set.  unsynced, write and readonly: gulNCUnsynced and its two parts.
\* synchronized: gfIsSynchronized.  gc: the anchor was updated for a global
\* catalog.  retry: how often CheckFullSyncProgress is in the task queue.
InitRecords == [first : Seq(NCs), data : [NCs -> NCSyncData],
                unsynced : Int, write : Int, readonly : Int, finished : BOOLEAN,
                synchronized : BOOLEAN, gc : BOOLEAN, retry : Nat]
NoInitSyncs == [first |-> <<>>, data |-> [nc \in NCs |-> NoData],
                unsynced |-> 0, write |-> 0, readonly |-> 0, finished |-> FALSE,
                synchronized |-> FALSE, gc |-> FALSE, retry |-> 0]

AddInitSyncList(I, nc, writ, src) ==
  LET d   == I.data[nc]
      new == ~Contains(I.first, nc)
      n   == IF new THEN 1 ELSE 0
  IN  IF I.finished THEN I ELSE
      [I EXCEPT !.first    = IF new THEN Append(@, nc) ELSE @,
                !.unsynced = @ + n,
                !.write    = IF writ THEN @ + n ELSE @,
                !.readonly = IF writ THEN @ ELSE @ + n,
                !.data[nc] = [d EXCEPT !.writ    = IF new THEN writ ELSE d.writ,
                                       !.sources = Append(d.sources, src),
                                       !.untried = d.untried + 1]]

\* Mutant of CheckFullSyncProgress: it is not put back into the task queue.
CheckFullSyncProgressOnce(I, vecs) ==
  IF I.synchronized THEN I
  ELSE IF DomainNC \in vecs THEN [I EXCEPT !.synchronized = TRUE]
  ELSE I

\* Mutant of CheckFullSyncProgress: the domain need not have completed a cycle.
CheckFullSyncProgressAtOnce(I, vecs) ==
  [I EXCEPT !.synchronized = TRUE]

\* vecs: the naming contexts that have an up-to-dateness vector, that is,
\* completed a cycle once.
CheckFullSyncProgress(I, vecs) ==
  IF I.synchronized THEN I
  ELSE IF DomainNC \in vecs THEN [I EXCEPT !.synchronized = TRUE]
  ELSE [I EXCEPT !.retry = @ + 1]

CheckInitSyncsFinished(I) == [I EXCEPT !.finished = @ \/ I.unsynced = 0]

\* Naming context nc needs no other source any more.
NCComplete(I, nc) ==
  [I EXCEPT !.data[nc].complete = TRUE,
            !.unsynced = @ - 1,
            !.write    = IF I.data[nc].writ THEN @ - 1 ELSE @,
            !.readonly = IF I.data[nc].writ THEN @ ELSE @ - 1]

\* Mutant of AttemptCompletes: only a success ends the wait for a context.
AttemptCompletesSynced(I, nc, ok) == ~I.data[nc].complete /\ ok /\ ~I.data[nc].synced

\* Does an attempt end the wait for nc: the first success, or the last failure?
AttemptCompletes(I, nc, ok) ==
  /\ ~I.data[nc].complete
  /\ \/ ok /\ ~I.data[nc].synced
     \/ I.data[nc].untried = 1 /\ ~I.data[nc].synced /\ ~ok

\* Mutant of Recorded: a source that is completed may be counted again.
RecordedAgain(I, nc, src) == ~I.finished /\ Contains(I.data[nc].sources, src)

\* Only the first attempt on a source of the list is recorded.
Recorded(I, nc, src) ==
  ~I.finished /\ Contains(I.data[nc].sources, src) /\ src \notin I.data[nc].completed

\* An attempt to synchronise nc from src is over; any kind of sync counts.
\* prev: the counts the caller saw before it entered the critical section.
InitSyncAttemptComplete(I, nc, src, ok, prev, vecs) ==
  LET d  == I.data[nc]
      I1 == [I EXCEPT !.data[nc] = [d EXCEPT !.completed = @ \cup {src}, !.synced = @ \/ ok,
                                             !.tried = @ + 1, !.untried = @ - 1]]
      I2 == IF AttemptCompletes(I, nc, ok) THEN NCComplete(I1, nc) ELSE I1
      I3 == IF prev.write # 0 /\ I2.write = 0 THEN CheckFullSyncProgress(I2, vecs) ELSE I2
      I4 == IF prev.readonly # 0 /\ I3.readonly = 0 THEN [I3 EXCEPT !.gc = TRUE] ELSE I3
  IN  IF Recorded(I, nc, src) THEN CheckInitSyncsFinished(I4) ELSE I

Counts(I) == [write |-> I.write, readonly |-> I.readonly]

\* CheckSyncProgress: has a source been tried since it ran last?
Progress(I) == \E nc \in ToSet(I.first) : I.data[nc].tried > I.data[nc].lastTried
NoteProgress(I) ==
  [I EXCEPT !.data = [nc \in NCs |-> [I.data[nc] EXCEPT !.lastTried = I.data[nc].tried]]]

\* The elements of a finite set of numbers, in ascending order.
Ascending(S) ==
  [k \in 1 .. Cardinality(S) |-> CHOOSE i \in S : Cardinality({j \in S : j <= i}) = k]

\* The order of its loop: every context from its first source, then every
\* context from its second one, and so on.  Cell c of the table is row c \div n,
\* column c % n.
ScanPairs(I) ==
  LET n     == Len(I.first)
      NC(c) == I.first[(c % n) + 1]
      cells == {c \in 0 .. n * Cardinality(Sources) - 1 : c \div n < Len(I.data[NC(c)].sources)}
      order == Ascending(cells)
  IN  [k \in DOMAIN order |-> <<NC(order[k]), I.data[NC(order[k])].sources[(order[k] \div n) + 1]>>]

-----------------------------------------------------------------------------
(* Properties.                                                             *)

\* The contexts the server still waits for.
Waiting(I) == {nc \in ToSet(I.first) : ~I.data[nc].complete}

\* The counters that decide when the server advertises itself agree with the
\* list, whoever reports attempts and however often.
CountsMatch ==
  /\ init.unsynced = Cardinality(Waiting(init))
  /\ init.write = Cardinality({nc \in Waiting(init) : init.data[nc].writ})
  /\ init.unsynced = init.write + init.readonly
  /\ \A nc \in ToSet(init.first) :
       init.data[nc].untried = Len(init.data[nc].sources) - Cardinality(init.data[nc].completed)

Tried(nc) == init.data[nc].synced \/ init.data[nc].completed = ToSet(init.data[nc].sources)

\* The initial syncs are over only when every context was synchronised or all
\* of its sources were tried.
FinishedMeansTried == init.finished => \A nc \in ToSet(init.first) : Tried(nc)
=============================================================================
