------------------------------ MODULE DraQueue ------------------------------
(***************************************************************************)
(* The replication queue of one server: callers that enqueue operations,   *)
(* the single worker thread that runs them and enqueues what must run      *)
(* again, and the task thread that starts the initial synchronisations.    *)
(*                                                                         *)
(* Source: ntdsa/dra/draasync.c, drasync.c, dradir.c, drainit.c,           *)
(* drancadd.c, drancdel.c, drarfmod.c, and the option masks of draatt.h.   *)
(*                                                                         *)
(* An option word is the set of the names of its flags.  A replica link is *)
(* a pair of a naming context and a source; reps maps the links that       *)
(* exist (values of repsFrom) to their persistent flags.                   *)
(***************************************************************************)
EXTENDS InitSync, FiniteSetsExt, Functions

CONSTANTS
  SchemaNC,        \* gAnchor.pDMD
  SystemNCs,       \* the schema and the configuration
  MasterNCs,       \* contexts the server is a master of
  Reps0,           \* the links at boot, with their flags
  WasPromotedGC,   \* gfWasPreviouslyPromotedGC
  Clients,         \* threads that call DirReplica*
  Requests,        \* the calls they make
  MaxRequests,     \* bound: how many calls
  MismatchNCs,     \* contexts whose updates may need a newer schema
  MaxAbandons,     \* bound: how many initial syncs are abandoned
  MaxRescans,      \* bound: how often the list of initial syncs is scanned again
  MayShutdown      \* may the service be stopped?

Links == NCs \X Sources
LinkFlags == {"writ", "neversynced", "preempted", "nevernotify", "disabled", "init"}

PrioFlags == {"writ", "neversynced", "preempted", "nevernotify"}
ReenqueueFlags == PrioFlags \cup {"byname", "full", "nodiscard", "per", "requeue", "forced"}
SyncAllFlags == {"full", "per", "nodiscard", "forced"}
Options == ReenqueueFlags \cup {"async", "all", "init", "aban", "notify", "verify", "asyncrep"}

Kinds == {"sync", "add", "del", "mod", "refs"}
Request == [kind : Kinds, nc : NCs, src : Sources, opts : SUBSET Options,
            flags : SUBSET LinkFlags]

ASSUME DraQueueAssumption ==
  /\ SchemaNC \in SystemNCs /\ SystemNCs \subseteq NCs /\ MasterNCs \subseteq NCs
  /\ DOMAIN Reps0 \subseteq Links
  /\ Reps0 \in [DOMAIN Reps0 -> SUBSET LinkFlags]
  /\ Requests \subseteq Request /\ "nobody" \notin Clients
  /\ MismatchNCs \subseteq NCs
  /\ {MaxRequests, MaxAbandons, MaxRescans} \subseteq Nat
  /\ WasPromotedGC \in BOOLEAN /\ MayShutdown \in BOOLEAN

VARIABLES
  queue,        \* the list from paoFirst on
  gulpaocount,
  hevEntries,   \* hevEntriesInAOList
  w,            \* the worker, AsyncThread
  reps,         \* repsFrom
  vecs,         \* contexts with an up-to-dateness vector
  client,       \* the callers
  task,         \* the task thread: DelayedEnqueueInitSyncs, CheckSyncProgress
  shutdown,     \* eServiceShutdown, hServDoneEvent
  count,        \* calls so far
  abandons,     \* initial syncs abandoned so far
  owed          \* auxiliary: enabled links with an accepted request that is not settled

qvars == <<queue, gulpaocount, hevEntries, owed>>
vars == <<qvars, w, reps, vecs, client, task, init, shutdown, count, abandons>>

-----------------------------------------------------------------------------
(* Operations and their priority.                                          *)

\* The synchronisation of nc from src with options opts.
Sync(nc, src, opts) == [kind |-> "sync", nc |-> nc, src |-> src, opts |-> opts, flags |-> {}]
Link(r) == <<r.nc, r.src>>
Async(r) == "async" \in r.opts

If(b, n) == IF b THEN n ELSE 0

SetOpPriority(r) ==
  CASE r.kind \in {"sync", "add"} ->
         30 + If("writ" \in r.opts \/ r.nc \in MasterNCs, 40) + If(~Async(r), 340)
            + If("neversynced" \notin r.opts, 20) + If("preempted" \in r.opts, 10)
            + If(r.nc \in SystemNCs, 80) + If("nevernotify" \notin r.opts, 160)
    [] r.kind = "del"  -> IF Async(r) THEN 10 ELSE 360
    [] r.kind = "refs" -> IF "verify" \in r.opts THEN 20 ELSE 700
    [] r.kind = "mod"  -> IF Async(r) THEN 350 ELSE 690

\* An operation is a request with the caller waiting for it, if any.
Nobody == "nobody"
Op(r, c) == [kind |-> r.kind, nc |-> r.nc, src |-> r.src, opts |-> r.opts,
             flags |-> r.flags, pri |-> SetOpPriority(r),
             client |-> IF Async(r) THEN Nobody ELSE c]
NoOp == [kind |-> "none"]

\* DirReplicaSynchronize, of an asynchronous call that is not for all sources:
\* is the link there, and does it take notifications?
Accepts(r) ==
  \/ r.kind # "sync" \/ ~Async(r) \/ "all" \in r.opts
  \/ /\ Link(r) \in DOMAIN reps
     /\ ~("notify" \in r.opts /\ "nevernotify" \in reps[Link(r)])

\* ... and the flags that decide the priority are those of the link.
Corrected(r) ==
  IF r.kind # "sync" \/ ~Async(r) \/ "all" \in r.opts THEN r
  ELSE [r EXCEPT !.opts = (@ \ PrioFlags) \cup (reps[Link(r)] \cap PrioFlags)]

-----------------------------------------------------------------------------
(* The queue.                                                              *)

Running == w.pc \in {"run", "unref", "queue", "report"}   \* gpaoCurrent # NULL

Discardable(op) == Async(op) /\ "nodiscard" \notin op.opts

\* Two syncs that draFilterDuplicateOpsFromQueue compares further.
Similar(old, new) ==
  /\ old.nc = new.nc
  /\ \A f \in {"full", "writ"} : f \in old.opts <=> f \in new.opts

SameSource(old, new) ==
  old.src = new.src /\ ("byname" \in old.opts <=> "byname" \in new.opts)

\* draIsSameOp
SameOp(old, new) == \A f \in {"kind", "nc", "src", "opts", "flags"} : old[f] = new[f]

\* The queued operation old makes the new one superfluous.
Supersedes(old, new) ==
  /\ Discardable(old) /\ old.kind = new.kind
  /\ IF new.kind # "sync" THEN SameOp(old, new)
     ELSE /\ Similar(old, new)
          /\ old.pri >= new.pri
          /\ "all" \in old.opts \/ ("all" \notin new.opts /\ SameSource(old, new))

\* A new sync of all sources replaces the queued one.
Superseded(old, new) ==
  /\ Discardable(old) /\ old.kind = "sync" /\ new.kind = "sync" /\ "all" \in new.opts
  /\ Similar(old, new) /\ ~Supersedes(old, new)

\* Mutant of StopsAt: the running operation is compared too.
StopsAtCurrent(op) ==
  LET S == {i \in DOMAIN queue : Discardable(op) /\ Supersedes(queue[i], op)}
  IN  IF Running /\ Discardable(op) /\ Supersedes(w.op, op) THEN Len(queue) + 1
      ELSE IF S = {} THEN 0 ELSE Min(S)

\* Where the scan of the queue stops because the new operation is superfluous;
\* 0 if it does not.  The operation that runs is not compared.
StopsAt(op) ==
  LET S == {i \in DOMAIN queue : Discardable(op) /\ Supersedes(queue[i], op)}
  IN  IF S = {} THEN 0 ELSE Min(S)

\* Positions of the queued operations removed: those before the stop.
Removed(op) ==
  {i \in DOMAIN queue : /\ Discardable(op) /\ Superseded(queue[i], op)
                        /\ StopsAt(op) = 0 \/ i < StopsAt(op)}

\* The queue without the operations at the positions S.
Keep(S) == LET idx == Ascending(DOMAIN queue \ S)
           IN  [j \in DOMAIN idx |-> queue[idx[j]]]

\* Before the first operation of a lower priority.
Insert(q, op) ==
  LET S == {i \in DOMAIN q : q[i].pri < op.pri}
  IN  InsertAt(q, IF S = {} THEN Len(q) + 1 ELSE Min(S), op)

\* Does the sync r lead to an attempt on link l, if l is enabled?
Attempts(r, l) ==
  r.kind = "sync" /\ r.nc = l[1] /\ (r.src = l[2] \/ "all" \in r.opts)

\* The enabled links that r is to synchronise.
Asks(r) == {l \in DOMAIN reps : "disabled" \notin reps[l] /\ Attempts(r, l)}

\* Mutant of CountAfter: what the filter and the purge remove stays counted.
CountAfterKeeps(add, rem) == gulpaocount + If(add, 1)

\* gulpaocount after the operations at the positions rem are freed.
CountAfter(add, rem) == gulpaocount - Cardinality(rem) + If(add, 1)

AddAsyncOp(op) ==
  LET add == StopsAt(op) = 0
      rem == Removed(op)
  IN  /\ queue' = IF add THEN Insert(Keep(rem), op) ELSE Keep(rem)
      /\ gulpaocount' = CountAfter(add, rem)
      /\ hevEntries' = (add \/ hevEntries)
      /\ owed' = owed \cup (IF Async(op) THEN Asks(op) ELSE {})

\* Mutant of Purged: the synchronous ones too.
PurgedSynchronous(src) ==
  {i \in DOMAIN queue : /\ queue[i].kind = "sync" /\ "byname" \notin queue[i].opts
                        /\ queue[i].src = src
                        /\ queue[i].nc \notin SystemNCs \cup {DomainNC}}

\* DraRemovePeriodicSyncsFromQueue: positions of the periodic syncs from src.
Purged(src) ==
  {i \in DOMAIN queue : /\ queue[i].kind = "sync" /\ {"async", "per"} \subseteq queue[i].opts
                        /\ "byname" \notin queue[i].opts /\ queue[i].src = src
                        /\ queue[i].nc \notin SystemNCs \cup {DomainNC}}

DraRemovePeriodicSyncsFromQueue(src) ==
  LET rem == Purged(src)
  IN  /\ queue' = Keep(rem)
      /\ gulpaocount' = CountAfter(FALSE, rem)
      /\ owed' = owed \ {Link(queue[i]) : i \in rem}
      /\ UNCHANGED hevEntries

-----------------------------------------------------------------------------
(* The worker.  todo: syncs it enqueues before it ends the operation;      *)
(* report: the attempt it then reports to the list of initial syncs; flags *)
(* of the link it removed; prev: the counts read before the report.        *)

Quiet == [pc |-> "wait", op |-> NoOp, todo |-> <<>>, report |-> <<>>, flags |-> {},
          prev |-> [write |-> 0, readonly |-> 0]]

AsyncThreadStarts ==
  /\ w.pc = "setup" /\ task.setup
  /\ w' = Quiet
  /\ UNCHANGED <<qvars, reps, vecs, client, task, init, shutdown, count, abandons>>

\* The wait ends because of the event or after thirty minutes.
Wakes ==
  /\ w.pc = "wait" /\ ~shutdown /\ hevEntries
  /\ w' = [w EXCEPT !.pc = "get"]
  /\ UNCHANGED <<qvars, reps, vecs, client, task, init, shutdown, count, abandons>>

TimesOut ==
  /\ w.pc = "wait" /\ ~shutdown /\ ~hevEntries
  /\ w' = [w EXCEPT !.pc = "get"]
  /\ UNCHANGED <<qvars, reps, vecs, client, task, init, shutdown, count, abandons>>

AsyncThreadEnds ==
  /\ w.pc = "wait" /\ shutdown
  /\ w' = [w EXCEPT !.pc = "exit"]
  /\ UNCHANGED <<qvars, reps, vecs, client, task, init, shutdown, count, abandons>>

\* Mutant of PaoGet: the event is reset when the last operation is taken, as
\* an automatic event would be, but before the list is left.
PaoGetResets ==
  /\ w.pc = "get"
  /\ hevEntries' = FALSE
  /\ IF queue = <<>> THEN w' = Quiet /\ queue' = queue
     ELSE w' = [w EXCEPT !.pc = "got", !.op = Head(queue)] /\ queue' = Tail(queue)
  /\ UNCHANGED <<gulpaocount, owed, reps, vecs, client, task, init, shutdown, count, abandons>>

PaoGet ==
  /\ w.pc = "get"
  /\ IF queue = <<>>
     THEN w' = Quiet /\ hevEntries' = FALSE /\ queue' = queue
     ELSE /\ w' = [w EXCEPT !.pc = "got", !.op = Head(queue)]
          /\ queue' = Tail(queue) /\ hevEntries' = hevEntries
  /\ UNCHANGED <<gulpaocount, owed, reps, vecs, client, task, init, shutdown, count, abandons>>

\* DispatchPao: the operation becomes gpaoCurrent, ahead of the list.  The
\* attempt on its link starts here, so what was asked before is served by it.
DispatchPao ==
  /\ w.pc = "got"
  /\ w' = [w EXCEPT !.pc = "run"]
  /\ owed' = owed \ {l \in owed : "all" \notin w.op.opts /\ Attempts(w.op, l)}
  /\ UNCHANGED <<queue, gulpaocount, hevEntries>>
  /\ UNCHANGED <<reps, vecs, client, task, init, shutdown, count, abandons>>

Runs(kind) == w.pc = "run" /\ w.op.kind = kind

\* The operation is over but for the syncs to enqueue and the report.
Then(todo, report) == w' = [w EXCEPT !.pc = "queue", !.todo = todo, !.report = report]

\* The attempt on the link of the operation, as the list of initial syncs is told.
Attempt(ok) == <<[nc |-> w.op.nc, src |-> w.op.src, ok |-> ok]>>

\* The operation must run again: what it served is owed again.
Again == /\ owed' = owed \cup Asks(w.op)
         /\ UNCHANGED <<queue, gulpaocount, hevEntries>>

\* DRA_ReplicaSync, all sources: a sync of each link is enqueued.
SyncAll ==
  /\ Runs("sync") /\ "all" \in w.op.opts
  /\ LET ls == {l \in DOMAIN reps : /\ l[1] = w.op.nc
                                    /\ "disabled" \in reps[l] => "forced" \in w.op.opts}
         Each(l) == Sync(l[1], l[2], {"async"} \cup (reps[l] \cap {"writ"})
                                               \cup (w.op.opts \cap SyncAllFlags))
     IN  IF Async(w.op)
         THEN \E order \in SetToSeqs(ls) : Then([i \in DOMAIN order |-> Each(order[i])], <<>>)
         ELSE Then(<<>>, <<>>)
  /\ UNCHANGED <<qvars, reps, vecs, client, task, init, shutdown, count, abandons>>

SyncsOne == Runs("sync") /\ "all" \notin w.op.opts

\* There is no such link any more.
NoReplica ==
  /\ SyncsOne /\ Link(w.op) \notin DOMAIN reps
  /\ Then(<<>>, IF "byname" \in w.op.opts THEN Attempt(FALSE) ELSE <<>>)
  /\ UNCHANGED <<qvars, reps, vecs, client, task, init, shutdown, count, abandons>>

Enabled == /\ SyncsOne /\ Link(w.op) \in DOMAIN reps
           /\ "disabled" \in reps[Link(w.op)] => w.op.opts \cap {"forced", "per"} # {}

SinkDisabled ==
  /\ SyncsOne /\ Link(w.op) \in DOMAIN reps /\ ~Enabled
  /\ Then(<<>>, Attempt(FALSE))
  /\ UNCHANGED <<qvars, reps, vecs, client, task, init, shutdown, count, abandons>>

RightPriority == w.op.opts \cap PrioFlags = reps[Link(w.op)] \cap PrioFlags

\* The flags of the link changed since the operation was enqueued.
InvalidPriority ==
  /\ Enabled /\ ~RightPriority /\ Async(w.op)
  /\ Then(<<Sync(w.op.nc, w.op.src,
                 {"async"} \cup (reps[Link(w.op)] \cap PrioFlags)
                           \cup (w.op.opts \cap ((ReenqueueFlags \cup {"init"}) \ PrioFlags)))>>,
          <<>>)
  /\ Again
  /\ UNCHANGED <<reps, vecs, client, task, init, shutdown, count, abandons>>

Replicates == Enabled /\ (RightPriority \/ ~Async(w.op))

\* The flags of the link after ReplicateNC, but for "preempted".
FlagsKept == (reps[Link(w.op)] \cup (IF "full" \in w.op.opts THEN {"neversynced"} ELSE {}))
               \ {"preempted"}

Requeue(extra) == Sync(w.op.nc, w.op.src, {"async"} \cup extra \cup (w.op.opts \cap ReenqueueFlags))

Synced ==
  /\ Replicates
  /\ reps' = [reps EXCEPT ![Link(w.op)] = FlagsKept \ {"neversynced"}]
  /\ vecs' = vecs \cup {w.op.nc}
  /\ Then(<<>>, Attempt(TRUE))
  /\ UNCHANGED <<qvars, client, task, init, shutdown, count, abandons>>

\* The source is disabled, the schedule does not allow it, or the call failed
\* after it was bound: no retry.
SyncFailed ==
  /\ Replicates
  /\ reps' = [reps EXCEPT ![Link(w.op)] = FlagsKept]
  /\ Then(<<>>, Attempt(FALSE))
  /\ UNCHANGED <<qvars, vecs, client, task, init, shutdown, count, abandons>>

NoBinding ==
  /\ Replicates
  /\ reps' = [reps EXCEPT ![Link(w.op)] = FlagsKept]
  /\ DraRemovePeriodicSyncsFromQueue(w.op.src)
  /\ Then(<<>>, Attempt(FALSE))
  /\ UNCHANGED <<vecs, client, task, init, shutdown, count, abandons>>

\* Mutant of SyncBusy: an operation that was requeued may be requeued again.
SyncBusyForever ==
  /\ Replicates /\ Async(w.op)
  /\ reps' = [reps EXCEPT ![Link(w.op)] = FlagsKept]
  /\ Then(<<Requeue({"requeue"})>>, Attempt(FALSE))
  /\ Again
  /\ UNCHANGED <<vecs, client, task, init, shutdown, count, abandons>>

\* Busy, or an unexpected failure of the updates: once more.  (When it was
\* requeued before, or is synchronous, it ends as SyncFailed.)
SyncBusy ==
  /\ Replicates /\ Async(w.op) /\ "requeue" \notin w.op.opts
  /\ reps' = [reps EXCEPT ![Link(w.op)] = FlagsKept]
  /\ Then(<<Requeue({"requeue"})>>, Attempt(FALSE))
  /\ Again
  /\ UNCHANGED <<vecs, client, task, init, shutdown, count, abandons>>

\* The schema comes first, then this context once more.
SchemaMismatch ==
  /\ Replicates /\ w.op.nc \in MismatchNCs
  /\ reps' = [reps EXCEPT ![Link(w.op)] = FlagsKept]
  /\ LET schema == Sync(SchemaNC, w.op.src, {"async"} \cup (w.op.opts \cap {"byname", "forced"}))
         retry  == "requeue" \notin w.op.opts
     IN  /\ Then(IF retry THEN <<schema, Requeue({"requeue"})>> ELSE <<schema>>, Attempt(FALSE))
         /\ IF retry THEN Again ELSE UNCHANGED qvars
  /\ UNCHANGED <<vecs, client, task, init, shutdown, count, abandons>>

\* IsHigherPriorityDraOpWaiting, once a packet was applied.
Preempted ==
  /\ Replicates /\ queue # <<>> /\ w.op.pri < Head(queue).pri
  /\ reps' = [reps EXCEPT ![Link(w.op)] = FlagsKept \cup {"preempted"}]
  /\ Then(IF Async(w.op) THEN <<Requeue({"preempted"})>> ELSE <<>>, Attempt(FALSE))
  /\ IF Async(w.op) THEN Again ELSE UNCHANGED qvars
  /\ UNCHANGED <<vecs, client, task, init, shutdown, count, abandons>>

\* An initial sync whose packet brings nothing gives way to others, once.  The
\* mark of the link is past that packet, so this cannot happen without end.
AbandonSync ==
  /\ Replicates /\ {"init", "async"} \subseteq w.op.opts /\ "aban" \notin w.op.opts
  /\ abandons < MaxAbandons /\ abandons' = abandons + 1
  /\ reps' = [reps EXCEPT ![Link(w.op)] = FlagsKept]
  /\ Then(<<Sync(w.op.nc, w.op.src,
                 {"async", "aban"} \cup (w.op.opts \cap (ReenqueueFlags \cup {"init"})))>>, <<>>)
  /\ Again
  /\ UNCHANGED <<vecs, client, task, init, shutdown, count>>

DRA_ReplicaSync ==
  \/ SyncAll \/ NoReplica \/ SinkDisabled \/ InvalidPriority \/ Synced \/ SyncFailed
  \/ NoBinding \/ SyncBusy \/ SchemaMismatch \/ Preempted \/ AbandonSync

\* The links and a new one.
WithLink(l, flags) == [k \in DOMAIN reps \cup {l} |-> IF k = l THEN flags ELSE reps[k]]

\* DRA_ReplicaAdd: a new link, from which all, some or only the head of the
\* context was replicated; with "asyncrep" the rest is enqueued.
DRA_ReplicaAdd ==
  LET l     == Link(w.op)
      never == w.op.flags \cup {"neversynced"}
      high  == queue # <<>> /\ w.op.pri < Head(queue).pri
  IN  /\ Runs("add")
      /\ \/ Then(<<>>, <<>>) /\ UNCHANGED <<reps, vecs>>
         \/ /\ l \notin DOMAIN reps
            /\ IF "asyncrep" \in w.op.opts
               THEN /\ reps' = WithLink(l, never)
                    /\ UNCHANGED vecs
                    /\ Then(IF "nevernotify" \in w.op.flags THEN <<>>
                            ELSE <<Sync(w.op.nc, w.op.src, {"async"} \cup (never \cap PrioFlags))>>,
                            <<>>)
               ELSE /\ \/ reps' = WithLink(l, w.op.flags) /\ vecs' = vecs \cup {w.op.nc}
                       \/ reps' = WithLink(l, never) /\ UNCHANGED vecs
                       \/ high /\ reps' = WithLink(l, never \cup {"preempted"}) /\ UNCHANGED vecs
                    /\ Then(<<>>, <<>>)
      /\ UNCHANGED <<qvars, client, task, init, shutdown, count, abandons>>

\* DRA_ReplicaDelSource: the removal of the link is committed, then the source
\* is told over the network.
DRA_ReplicaDelSource ==
  /\ Runs("del")
  /\ IF Link(w.op) \notin DOMAIN reps
     THEN Then(<<>>, <<>>) /\ UNCHANGED <<reps, owed>>
     ELSE /\ w' = [w EXCEPT !.pc = "unref", !.flags = reps[Link(w.op)]]
          /\ reps' = Restrict(reps, DOMAIN reps \ {Link(w.op)})
          /\ owed' = owed \ {Link(w.op)}
  /\ UNCHANGED <<queue, gulpaocount, hevEntries, vecs, client, task, init, shutdown, count, abandons>>

\* The source was told, or its failure was ignored.
SourceTold ==
  /\ w.pc = "unref"
  /\ Then(<<>>, IF "init" \in w.flags THEN Attempt(FALSE) ELSE <<>>)
  /\ UNCHANGED <<qvars, reps, vecs, client, task, init, shutdown, count, abandons>>

\* It could not be told: the link is put back.
SourceNotTold ==
  /\ w.pc = "unref"
  /\ reps' = WithLink(Link(w.op), w.flags)
  /\ Then(<<>>, <<>>)
  /\ UNCHANGED <<qvars, vecs, client, task, init, shutdown, count, abandons>>

SystemFlags == {"writ", "neversynced", "preempted"}   \* RFR_SYSTEM_FLAGS

\* DRA_ReplicaModify: new flags, unless the system's own flags differ from those
\* the caller saw.
DRA_ReplicaModify ==
  LET l  == Link(w.op)
      ok == l \in DOMAIN reps /\ reps[l] \cap SystemFlags = w.op.flags \cap SystemFlags
  IN  /\ Runs("mod")
      /\ reps' = IF ok THEN [reps EXCEPT ![l] = w.op.flags] ELSE reps
      /\ owed' = IF ok /\ "disabled" \in w.op.flags THEN owed \ {l} ELSE owed
      /\ Then(<<>>, <<>>)
      /\ UNCHANGED <<queue, gulpaocount, hevEntries>>
      /\ UNCHANGED <<vecs, client, task, init, shutdown, count, abandons>>

\* DRA_UpdateRefs changes repsTo, which is not part of this model.
DRA_UpdateRefs ==
  /\ Runs("refs")
  /\ Then(<<>>, <<>>)
  /\ UNCHANGED <<qvars, reps, vecs, client, task, init, shutdown, count, abandons>>

\* DirReplicaSynchronize, called by the worker for the next sync of todo.
EnqueueNext ==
  /\ w.pc = "queue" /\ w.todo # <<>>
  /\ w' = [w EXCEPT !.todo = Tail(@)]
  /\ IF Accepts(Head(w.todo)) /\ ~shutdown
     THEN AddAsyncOp(Op(Corrected(Head(w.todo)), Nobody)) ELSE UNCHANGED qvars
  /\ UNCHANGED <<reps, vecs, client, task, init, shutdown, count, abandons>>

\* InitSyncAttemptComplete reads the counts, then enters csNCSyncData, which
\* CheckSyncProgress holds while it scans the list.
ReadCounts ==
  /\ w.pc = "queue" /\ w.todo = <<>> /\ w.report # <<>>
  /\ w' = [w EXCEPT !.pc = "report", !.prev = Counts(init)]
  /\ UNCHANGED <<qvars, reps, vecs, client, task, init, shutdown, count, abandons>>

Scanning == task.pc \in {"scan", "push"}

Report ==
  /\ w.pc = "report" /\ ~Scanning
  /\ LET r == Head(w.report)
     IN  init' = InitSyncAttemptComplete(init, r.nc, r.src, r.ok, w.prev, vecs)
  /\ w' = [w EXCEPT !.pc = "queue", !.report = <<>>]
  /\ UNCHANGED <<qvars, reps, vecs, client, task, shutdown, count, abandons>>

\* Mutant of OpDone: the operation is counted off here as well as in PaoGet.
OpDoneCountsTwice ==
  /\ w.pc = "queue" /\ w.todo = <<>> /\ w.report = <<>>
  /\ w' = Quiet
  /\ gulpaocount' = gulpaocount - 2
  /\ UNCHANGED <<queue, hevEntries, owed, reps, vecs, client, task, init, shutdown, count, abandons>>

\* Mutant of OpDone: the caller of a synchronous operation is not told.
OpDoneUntold ==
  /\ w.pc = "queue" /\ w.todo = <<>> /\ w.report = <<>>
  /\ w' = Quiet
  /\ gulpaocount' = gulpaocount - 1
  /\ UNCHANGED <<queue, hevEntries, owed, reps, vecs, client, task, init, shutdown, count, abandons>>

\* The end of DispatchPao, and what AsyncThread does next: it frees the
\* operation or tells the caller who waits.
OpDone ==
  /\ w.pc = "queue" /\ w.todo = <<>> /\ w.report = <<>>
  /\ w' = Quiet
  /\ gulpaocount' = gulpaocount - 1
  /\ client' = IF w.op.client \in Clients /\ client[w.op.client].pc = "waiting"
               THEN [client EXCEPT ![w.op.client] = [pc |-> "idle", op |-> NoOp]] ELSE client
  /\ UNCHANGED <<queue, hevEntries, owed, reps, vecs, task, init, shutdown, count, abandons>>

Worker ==
  \/ AsyncThreadStarts \/ Wakes \/ AsyncThreadEnds \/ PaoGet \/ DispatchPao
  \/ DRA_ReplicaSync \/ DRA_ReplicaAdd \/ DRA_ReplicaDelSource \/ SourceTold \/ SourceNotTold
  \/ DRA_ReplicaModify \/ DRA_UpdateRefs \/ EnqueueNext \/ ReadCounts \/ OpDone

-----------------------------------------------------------------------------
(* The callers.                                                            *)

\* DirReplica*: the checks and the options of the operation.
Call(c, r) ==
  /\ client[c].pc = "idle" /\ count < MaxRequests /\ ~shutdown
  /\ count' = count + 1
  /\ client' = IF Accepts(r)
               THEN [client EXCEPT ![c] = [pc |-> "ready", op |-> Op(Corrected(r), c)]]
               ELSE client
  /\ UNCHANGED <<qvars, w, reps, vecs, task, init, shutdown, abandons>>

\* DoOpDRS: enqueue; a synchronous caller waits.
DoOpDRS(c) ==
  /\ client[c].pc = "ready"
  /\ IF shutdown
     THEN client' = [client EXCEPT ![c] = [pc |-> "idle", op |-> NoOp]] /\ UNCHANGED qvars
     ELSE /\ AddAsyncOp(client[c].op)
          /\ client' = [client EXCEPT ![c] = IF Async(client[c].op)
                                             THEN [pc |-> "idle", op |-> NoOp]
                                             ELSE [pc |-> "waiting", op |-> NoOp]]
  /\ UNCHANGED <<w, reps, vecs, task, init, shutdown, count, abandons>>

\* The wait of DoOpDRS ends because the service stops.
ShuttingDown(c) ==
  /\ client[c].pc = "waiting" /\ shutdown
  /\ client' = [client EXCEPT ![c] = [pc |-> "idle", op |-> NoOp]]
  /\ UNCHANGED <<qvars, w, reps, vecs, task, init, shutdown, count, abandons>>

Shutdown ==
  /\ MayShutdown /\ ~shutdown
  /\ shutdown' = TRUE
  /\ UNCHANGED <<qvars, w, reps, vecs, client, task, init, count, abandons>>

-----------------------------------------------------------------------------
(* The task thread.  read: links read so far; todo: pairs still to scan;   *)
(* first: the scan is the one made at startup.                             *)

\* c1 to c3 of DelayedEnqueueInitSyncs; "init" also says that the schedule of
\* the link is not "never".
NeedsInitSync(l) ==
  /\ "init" \in reps[l]
  /\ "writ" \in reps[l] \/ ~WasPromotedGC \/ "neversynced" \notin reps[l]

\* The order of the links: the contexts the server is a master of first, and one
\* context after the other.
ReadNext(l) ==
  LET left(S) == {k \in DOMAIN reps \ task.read : k[1] \in S}
  IN  /\ l \in DOMAIN reps \ task.read
      /\ l[1] \in MasterNCs \/ left(MasterNCs) = {}
      /\ \A k \in task.read : k[1] = l[1] \/ left({k[1]}) = {}

\* DelayedEnqueueInitSyncs reads the next link.  A sync that was preempted before
\* the server stopped is enqueued at once.
ReadLink(l) ==
  /\ task.pc = "boot" /\ ReadNext(l)
  /\ task' = [task EXCEPT !.read = @ \cup {l}]
  /\ init' = IF NeedsInitSync(l) THEN AddInitSyncList(init, l[1], "writ" \in reps[l], l[2])
             ELSE init
  /\ IF "preempted" \in reps[l] /\ ~shutdown
     THEN AddAsyncOp(Op(Corrected(Sync(l[1], l[2], {"async"})), Nobody)) ELSE UNCHANGED qvars
  /\ UNCHANGED <<w, reps, vecs, client, shutdown, count, abandons>>

\* SetEvent(hevDRASetup)
SetupDone ==
  /\ task.pc = "boot" /\ task.read = DOMAIN reps
  /\ task' = [task EXCEPT !.pc = "checkWrite", !.setup = TRUE, !.read = {}]
  /\ UNCHANGED <<qvars, w, reps, vecs, client, init, shutdown, count, abandons>>

\* The three checks that follow read the counts outside csNCSyncData.
CheckWrite ==
  /\ task.pc = "checkWrite"
  /\ init' = IF init.write = 0 THEN CheckFullSyncProgress(init, vecs) ELSE init
  /\ task' = [task EXCEPT !.pc = "checkReadOnly"]
  /\ UNCHANGED <<qvars, w, reps, vecs, client, shutdown, count, abandons>>

CheckReadOnly ==
  /\ task.pc = "checkReadOnly"
  /\ init' = IF init.readonly = 0 THEN [init EXCEPT !.gc = TRUE] ELSE init
  /\ task' = [task EXCEPT !.pc = "checkAll"]
  /\ UNCHANGED <<qvars, w, reps, vecs, client, shutdown, count, abandons>>

CheckAll ==
  /\ task.pc = "checkAll"
  /\ IF init.unsynced > 0
     THEN task' = [task EXCEPT !.pc = "start"] /\ init' = init
     ELSE task' = [task EXCEPT !.pc = "idle"] /\ init' = CheckInitSyncsFinished(init)
  /\ UNCHANGED <<qvars, w, reps, vecs, client, shutdown, count, abandons>>

\* CheckSyncProgress enters csNCSyncData.  It scans the list at startup, and
\* again whenever no source was tried since the last time.
CheckSyncProgress ==
  /\ task.pc = "start" \/ (task.pc = "idle" /\ ~init.finished /\ ~shutdown)
  /\ IF init.finished THEN task' = [task EXCEPT !.pc = "idle"] /\ init' = init
     ELSE IF task.pc = "idle" /\ Progress(init)
     THEN task' = task /\ init' = NoteProgress(init)
     ELSE /\ task.pc = "idle" => task.rescans < MaxRescans
          /\ task' = [task EXCEPT !.pc = "scan", !.todo = ScanPairs(init),
                                  !.first = (task.pc = "start"),
                                  !.rescans = @ + If(task.pc = "idle", 1)]
          /\ init' = init
  /\ UNCHANGED <<qvars, w, reps, vecs, client, shutdown, count, abandons>>

InitSyncOf(pair) ==
  Sync(pair[1], pair[2], {"async", "byname", "init"}
                           \cup (IF task.first THEN {"nodiscard"} ELSE {}))

\* The next pair of a context and a source.  A sync that is refused counts as
\* an attempt that failed.
ScanNext ==
  /\ task.pc = "scan" /\ task.todo # <<>>
  /\ LET p == Head(task.todo)
         r == InitSyncOf(p)
     IN  \/ /\ init.data[p[1]].complete
            /\ task' = [task EXCEPT !.todo = Tail(@)]
            /\ init' = init
         \/ /\ ~init.data[p[1]].complete /\ Accepts(r)
            /\ task' = [task EXCEPT !.todo = Tail(@), !.pc = "push", !.op = Op(Corrected(r), Nobody)]
            /\ init' = init
         \/ /\ ~init.data[p[1]].complete /\ ~Accepts(r)
            /\ task' = [task EXCEPT !.todo = Tail(@)]
            /\ init' = InitSyncAttemptComplete(init, p[1], p[2], FALSE, Counts(init), vecs)
  /\ UNCHANGED <<qvars, w, reps, vecs, client, shutdown, count, abandons>>

\* A service that stops refuses the sync too.
ScanPush ==
  /\ task.pc = "push"
  /\ task' = [task EXCEPT !.pc = "scan", !.op = NoOp]
  /\ IF shutdown
     THEN /\ init' = InitSyncAttemptComplete(init, task.op.nc, task.op.src, FALSE, Counts(init), vecs)
          /\ UNCHANGED qvars
     ELSE AddAsyncOp(task.op) /\ init' = init
  /\ UNCHANGED <<w, reps, vecs, client, shutdown, count, abandons>>

\* The scan is over; CheckInitSyncsFinished, and csNCSyncData is left.  When the
\* service stops the scan ends early, at the latest with its row.
ScanDone ==
  /\ task.pc = "scan" /\ (task.todo = <<>> \/ shutdown)
  /\ task' = [task EXCEPT !.pc = "idle", !.todo = <<>>]
  /\ init' = IF shutdown THEN init ELSE CheckInitSyncsFinished(init)
  /\ UNCHANGED <<qvars, w, reps, vecs, client, shutdown, count, abandons>>

\* CheckFullSyncProgress, run again from the task queue until it succeeds.
RetryFullSync ==
  /\ task.pc = "idle" /\ init.retry > 0
  /\ init' = IF init.synchronized \/ DomainNC \in vecs
             THEN CheckFullSyncProgress([init EXCEPT !.retry = @ - 1], vecs) ELSE init
  /\ UNCHANGED <<qvars, w, reps, vecs, client, task, shutdown, count, abandons>>

Task ==
  \/ (\E l \in DOMAIN reps : ReadLink(l)) \/ SetupDone \/ CheckWrite \/ CheckReadOnly
  \/ CheckAll \/ CheckSyncProgress \/ ScanNext \/ ScanPush \/ ScanDone \/ RetryFullSync

-----------------------------------------------------------------------------
Init ==
  /\ queue = <<>> /\ gulpaocount = 0 /\ hevEntries = FALSE
  /\ w = [Quiet EXCEPT !.pc = "setup"]
  /\ reps = Reps0
  /\ vecs = {nc \in NCs : \E l \in DOMAIN Reps0 : l[1] = nc /\ "neversynced" \notin Reps0[l]}
  /\ client = [c \in Clients |-> [pc |-> "idle", op |-> NoOp]]
  /\ task = [pc |-> "boot", read |-> {}, todo |-> <<>>, op |-> NoOp, first |-> FALSE, setup |-> FALSE,
             rescans |-> 0]
  /\ init = NoInitSyncs
  /\ shutdown = FALSE /\ count = 0 /\ abandons = 0 /\ owed = {}

Next ==
  \/ Worker \/ Report \/ TimesOut
  \/ Task
  \/ \E c \in Clients : (\E r \in Requests : Call(c, r)) \/ DoOpDRS(c) \/ ShuttingDown(c)
  \/ Shutdown

Spec == Init /\ [][Next]_vars

\* Every thread that can go on does so, and the scheduler runs the task that
\* looks for the first full sync again and again.  Calls, a shutdown and the
\* wait that times out need not happen.
FairSpec ==
  /\ Spec /\ WF_vars(Worker) /\ WF_vars(Report) /\ WF_vars(Task) /\ WF_vars(RetryFullSync)
  /\ \A c \in Clients : WF_vars(DoOpDRS(c)) /\ WF_vars(ShuttingDown(c))

-----------------------------------------------------------------------------
(* Properties.                                                             *)

Ops == [kind : Kinds, nc : NCs, src : Sources, opts : SUBSET Options,
        flags : SUBSET LinkFlags, pri : Nat, client : Clients \cup {Nobody}]

WorkerStates == [pc : {"setup", "wait", "get", "got", "run", "unref", "queue", "report", "exit"},
                 op : Ops \cup {NoOp}, todo : Seq(Request),
                 report : Seq([nc : NCs, src : Sources, ok : BOOLEAN]),
                 flags : SUBSET LinkFlags, prev : [write : Int, readonly : Int]]
CallerStates == [pc : {"idle", "ready", "waiting"}, op : Ops \cup {NoOp}]
TaskStates == [pc : {"boot", "checkWrite", "checkReadOnly", "checkAll", "start", "scan", "push", "idle"},
               read : SUBSET Links, todo : Seq(Links), op : Ops \cup {NoOp},
               first : BOOLEAN, setup : BOOLEAN, rescans : 0 .. MaxRescans]

\* The values of the variables of the queue, its threads and its callers.
TypeOK ==
  /\ queue \in Seq(Ops) /\ gulpaocount \in Nat /\ hevEntries \in BOOLEAN
  /\ w \in WorkerStates
  /\ DOMAIN reps \subseteq Links /\ reps \in [DOMAIN reps -> SUBSET LinkFlags]
  /\ vecs \subseteq NCs
  /\ owed \subseteq {l \in DOMAIN reps : "disabled" \notin reps[l]}
  /\ client \in [Clients -> CallerStates] /\ task \in TaskStates
  /\ init \in InitRecords
  /\ shutdown \in BOOLEAN /\ count \in 0 .. MaxRequests /\ abandons \in 0 .. MaxAbandons

\* gulpaocount is the number of operations queued or running, whatever the
\* filter and the purge removed: the priority of the worker thread, the size
\* of listings and the Asserts on what they return rely on it.
CountExact == gulpaocount = Len(queue) + If(w.pc = "got" \/ Running, 1)

\* No operation waits behind a reset event: the worker that goes to sleep
\* finds the event set if anything was enqueued before, between or after.
WorkSignalled == queue # <<>> => hevEntries

\* The syncs that are still to come: queued, taken, or about to be enqueued.
ToCome == ToSet(queue) \cup ToSet(w.todo)
            \cup (IF w.pc = "got" \/ (w.pc = "run" /\ "all" \in w.op.opts) THEN {w.op} ELSE {})

\* An accepted request to synchronise an enabled link is never lost: until an
\* attempt that starts after it, some sync to come attempts the link, through
\* discarded duplicates, syncs of all sources, priorities that changed,
\* preemption and requeueing.
OwedIsCovered ==
  shutdown \/ \A l \in owed : \E op \in ToCome : Attempts(op, l)

\* The operation a caller waits for is queued or in hand: neither the filter nor
\* the purge of periodic syncs drops it.
WaitedIsThere ==
  \A c \in Clients : client[c].pc = "waiting" =>
    \E op \in ToSet(queue) \cup {w.op} : op # NoOp /\ op.client = c

\* No accepted request is lost, whether its caller waits for it or not.
NoRequestLost == OwedIsCovered /\ WaitedIsThere

\* The server says it is synchronised only after every writable context was
\* synchronised or given up, and its domain completed a cycle once.
SynchronizedMeansTried ==
  init.synchronized => /\ DomainNC \in vecs
                       /\ \A nc \in ToSet(init.first) : init.data[nc].writ => Tried(nc)

\* The server neither ends its initial syncs nor advertises itself too early.
DoneMeansTried == FinishedMeansTried /\ SynchronizedMeansTried

\* A caller of a synchronous operation gets its answer.
CallersAnswered == \A c \in Clients : client[c].pc = "waiting" ~> client[c].pc # "waiting"

\* The work ends: failures, preemptions and requeued syncs do not keep the
\* worker busy for ever once nothing new is asked.
Quiesces == <>[](shutdown \/ (queue = <<>> /\ w.op = NoOp))

\* The initial syncs are over some day, whatever the attempts come to, unless
\* the service is stopped.
InitSyncsFinish == <>(init.finished \/ shutdown)

\* Once the domain completed a cycle, the server says that it is synchronised,
\* unless the service is stopped.
EventuallySynchronized == (<>(DomainNC \in vecs)) => <>(init.synchronized \/ shutdown)
=============================================================================
