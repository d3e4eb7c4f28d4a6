# Active Directory replication: a TLA+ verification project

This project models the parts of the Windows Server 2003 directory service
(`ds/src/ntdsa`) that decide whether multi-master replication is correct: the
numbering of writes, the vectors that say who has which writes, the order that
resolves conflicting writes, the replication protocol built from these, and the
queue and the initial synchronisations that drive it. TLC checks the models on small instances;
TLAPS proves the central properties for every value of the constants. Paths
below are relative to `ds/src/ntdsa`.

## 1. Inventory of the system

The repository is the `ds` tree of Windows NT: the directory service itself
(`ds/src`), its storage engine (`ese98`), and services that share the tree
(`netapi` with netlogon and the file replication service, `dns`, `adsi`, `nw`,
`security`). The core logic, and the part this project is about, is the
directory service agent (DSA) `ds/src/ntdsa`.

| Component | State | Operations | Correct when |
|---|---|---|---|
| USN allocation (`dblayer/dbisam.c`, `dbtools.c`, `dbinit.c`) | `gusnEC`, `gusnInit`, `gusnLowestUncommitted`, `UncUsn[]`, the hidden record, `THSTATE.UnCommUsn` | `DBGetNewUsn`, `AddUncUsn`, `dbFlushUncUsns`, `DBGetHighestCommittedUSN`, transactions | nobody is told of a USN while a lower one may still commit; no USN is used twice |
| Invocation id (`dra/drasig.c`, `dra/drautil.c`) | `gAnchor.pCurrInvocationID`, `pTHS->InvocationID`, retired signatures | `InitInvocationId`, `draRetireInvocationID`, `HandleRestore` | after a restore the server never claims to have what it lost |
| Attribute meta data (`dra/drameta.c`, `dra/drancrep.c`, `dblayer/dbmeta.c`, `src/mdmoddn.c`) | a stamp (version, time, server, USN) per attribute | originating, authoritative and replicated writes, override, underride, forced full synchronisation | the order is the same on all servers and replicas converge, but for what a server is made to forget |
| Up-to-dateness vectors (`dra/drauptod.c`) | a sorted array of cursors per naming context | read, improve, replace, merge, convert, search | no server claims too much and none forgets a claim |
| Replication source (`dra/dragtchg.c`) | none between calls; a read transaction | `DRA_GetNCChanges`, `DraImproveCallersUsnVector` | a packet plus the watermark leave nothing behind |
| Replication destination (`dra/drancrep.c`) | repsFrom (a watermark per source), the database | `ReplicateNC`, `UpdateNC`, `UpdateRepObj` | the watermark never passes what was applied; no object is without its parent |
| Operation queue (`dra/draasync.c`, `drasync.c`, `dradir.c`) | list by priority, `gpaoCurrent`, `gulpaocount`, an event, one worker, waiting callers | enqueue, discard duplicates, purge, run, requeue | no accepted request is lost, callers are answered, the work ends |
| Initial synchronisations (`dra/drainit.c`) | list of contexts and sources, counters, `gfInitSyncsFinished`, `gfIsSynchronized` | build, scan, report an attempt, check | the server advertises itself when it has tried everything, not earlier and not never |
| Link administration (`dra/drancadd.c`, `drancdel.c`, `drarfmod.c`) | repsFrom and its flags | add, remove, modify, as operations of the queue | links may change while syncs of them are queued or run |
| Mail transport, message versions (`dra/dramail.c`, `dra/dramsg.c`) | packets under way | translate, send, receive | as over RPC |
| Lingering objects (`dra/draexist.c`) | - | compare object lists under a merged vector | only objects both sides have seen are removed |
| KCC, topology (`ds/src/kcc`, `common/w32topl`) | configuration graph | build connections | the graph is connected |
| ESE (`ese98`) | pages, log | transactions, lazy and durable commit | (used here as an assumption) |

Interaction: a write of a client runs in a transaction of a thread (dblayer),
takes a USN and stamps the attribute (dbmeta). A partner asks with a watermark
and its vector (`GetNCChanges`); the source answers with objects up to its
highest committed USN and with its own vector; the destination reconciles each
attribute by its stamp (drameta), stores the watermark and, when the cycle is
complete, improves its vector. Cycles run as operations of one worker thread
per server; callers, notifications, the schedule and failed cycles put
operations into its queue, and a booting server scans its links and advertises
itself once their first attempts are over. Hard behaviour: transactions that commit out of
USN order, lazy commits lost in a crash, restores, changes of the invocation id
while threads write and cycles run, packets that are repeated, delayed or
abandoned, operations discarded as duplicates, preempted and requeued, lists and
counters shared by the worker, callers and the task thread, numbers that wrap.
`PROJECT.json` lists each of these hazards at its
line with the properties that cover it.

## 2. Modules

| Module | Models | Checked by |
|---|---|---|
| `Usn` | threads, transactions, USNs, hidden record, backup, crash, restore, invocation id of one server | `MCUsn`, runs `usn_threads`, `usn_restore` |
| `UsnProofs` | theorems about `Usn` | TLAPS |
| `ReplMeta` | the stamp of one attribute on several servers | `MCReplMeta`, runs `meta_conflicts`, `meta_underride` |
| `ReplMetaProofs` | theorems about `ReplMeta` | TLAPS |
| `UpToDateVec` | the vectors of one naming context on several servers | `MCUpToDateVec`, run `utd_claims` |
| `UpToDateVecProofs` | theorems about `UpToDateVec` | TLAPS |
| `UtdClaims` | the abstract specification of `UpToDateVec` | refinement, run `utd_claims` |
| `UtdClaimsProofs` | `UpToDateVec` implements `UtdClaims` | TLAPS |
| `CursorFind` | the bisection `l_CursorFind`, one comparison a step | `MCCursorFind`, run `cursor_find` |
| `CursorFindProofs` | theorems about `CursorFind` | TLAPS |
| `DraRepl` | the protocol: sources, destinations, packets, watermarks, crash, restore, change of id | `MCDraRepl`, runs `dra_packets`, `dra_crash`, `dra_restore`, `dra_backup` |
| `DraReplProofs` | theorems about `DraRepl` | TLAPS |
| `InitSync` | the list of initial synchronisations and its counters | through `DraQueue` |
| `InitSyncProofs` | lemmas about `InitSync` | TLAPS |
| `DraQueue` | the queue, its worker, callers and the task thread of one server; composes `InitSync` | `MCDraQueue`, runs `queue_requests`, `queue_init` |
| `DraQueueProofs` | theorems about `DraQueue` and, through it, `InitSync` | TLAPS |

Definitions carry the names of the functions they model; `PROJECT.json` maps
each to its lines. Definitions whose comment starts with "Mutant of" are
deliberately wrong variants: replacing the original by one of them must break
the property named in `PROJECT.json`, which shows that the property depends on
that code. No specification uses them.

### Usn

State: the globals of the allocator, per thread its phase, transaction level,
cached invocation id, lowest uncommitted USN and the writes of its open
transactions, the visible database `committed`, the durable one `disk` (with
the hidden record) and the last backup `image`. `issued` and `published` are
history. The critical section `csUncUsn` makes the allocator's operations
atomic; everything else interleaves: Jet's commit and `dbFlushUncUsns` are two
steps (`DBTransOut`, `FlushUncUsns`), as are the reading of the watermark and
the begin of the read transaction, and the two halves of the backup. A durable
commit puts every earlier one on disk because the log is written in order. A
crash keeps `disk`; a restore puts `image` back.

Abstractions: a failing update of the hidden record raises an exception before
a USN is taken and is a stutter. Threads of single user mode, which skip
`dbFlushUncUsns`, and install from media are left out. `HandleRestore` runs
before any other thread and is one step; its record of the old id is
`disk.retired`. One id change runs at a time.

### ReplMeta

A stamp stands for the value written with it. Every stamp ever visible may
reach any server at any time, any number of times (packets are repeated,
delayed and overtake each other), subject to one rule of the source: a partial
replica refuses a writable destination (`MayPull`). Which names and values make
replication override a write is left open: whenever the code could override, it
may. An attribute of an object that is being deleted can be overridden twice in
one call (version + 2); the model has the single override.

A server can also fall: put a stamp over the one it holds that loses to it. The
ways are an underridden name and a forced full synchronisation.
`ReplUnderrideMetaData` leaves version `ULONG_MAX` in a vector, which the flush
turns into 0. It is called for an inbound object that is renamed on a read-only
replica (`RenameInboundObject`), for the local object it collides with there
(`RenameLocalObject`), for the children of an object that becomes a phantom or is
collected (`PrePhantomizeChildCleanup`), and for an object whose name a phantom is
to get (`PhantomizeObject`); the last two without an inbound stamp and without a
test for a writable replica. `PhantomizeObject` stores the vector as it is,
since `DBUpdateRec` does not flush it: the entry keeps `USN_PROPERTY_TOUCHED` and
is not shipped (`touched`), and the next update of the object, of any attribute,
stamps it (`FlushTouched`). Other updates of that object between the two, such as
a replicated name, are `ApplyRemote` and the overrides. `ForcedFullSync` is the
repair mode in which the local meta data is not passed to
`ReplReconcileRemoteMetaDataVec`.

`seen` is what a server made or processed, `lost` the part of it that it fell
below and was not sent again, `fell` the falls with the server's last USN. On a
writable replica the local object of a name collision is renamed by an ordinary
originating write. A missing parent on a read-only replica (`UpdateRepObj`) makes
up a name even when the inbound name loses or is not sent: `KeepLocal` followed by
`RenameLocalObject`.

### UpToDateVec, UtdClaims, CursorFind

Vectors are sequences of cursors. The loops over them (`l_CursorFind`, the
improvement, the merge with `MergeStep` as one turn of its loop) are recursive
functions, so that TLAPS can reason about them. A cycle is reduced to its last reply, which carries the source's vector. The
retirement of an id is two transactions in the code and two steps here, with
cycles and boots in between. The clocks of all servers are one clock of
seconds. `fReplace` of `l_CursorImprove` is never passed by a caller and is
left out, as is `UpToDateVec_ValidateExternal`, which only inspects inbound
bytes. `UtdClaims` states what vectors mean, without arrays: a function from
ids to pairs of USN and time that grows by taking the larger pair. The
refinement mapping reads the claims off the arrays, the claims in replies under
way and the ids being retired (`Claimed`, `Offered`, `Retired`).
`CursorFind` is the loop of the bisection step by step, so that its
correctness can be proved for vectors of any length; the runs of `UpToDateVec`
bisect at most four cursors.

### DraRepl

The composition of the parts above for one naming context. Each server has what
its transactions see (`live`) and what a crash leaves (`disk`): the stamps of its
objects, its vector, its stored watermarks, its invocation id and the retired
ones. `cyc` holds the locals of `ReplicateNC`, `rpc` the outstanding call. A
source answers in two steps, because it reads the highest committed USN before
its read transaction starts (`GetNCChangesMark`, `DRA_GetNCChanges`); writes of
clients commit in between. A destination asks for the next packet before it
applies the one at hand, applies it object by object in lazy transactions,
asks again with ancestors or with all attributes, moves an orphan to
LostAndFound, gives way to other operations, and stores its watermark durably
every few packets and at `LABORT`, whatever ended the cycle.

The hazard that ties it together is in two invariants. `UTDSound`: whatever a
server's vector claims, it has. `SkippedIsThere`: whatever a cycle started now
would skip, because of the stored watermark as the source improves it or because
of the vector, is there. They are stated with the writes that exist anywhere,
so that a write lost by all servers breaks nothing.

Abstractions: an object has two attributes, its name, which a creation needs,
and one that stands for the others; a stamp is ordered by version, id and USN
(`ReplMeta` has the whole order). The parent of an object is fixed but for the
move to LostAndFound. An object disappears without a tombstone only by expiring.
A packet is a set of objects, each with its place in the list: behind the
visited object that brings it along, and behind its ancestors. It is applied in
that order and may be cut off after any object of the scan, except that the head of
the context alone, which comes first, does not meet a limit: the limits are at
least a hundred objects or a megabyte. The retirement of an id is one step here
and several in `Usn` and `UpToDateVec`; the cached list of retired ids is
assumed fresh. `DraHostWriteableNc` runs inside the transaction that adds the
head of another context; the model has both ends of that transaction. The one that
succeeds is durable at once in the model and lazy in the code (`drancrep.c` 3773,
5903); one that a crash takes back is, to everybody else, the one rolled back followed
by a crash, since `DRA_GetNCChanges` commits durably before it ships anything. Linked
values, partial replicas, full synchronisations on request, name collisions and
strict consistency are left out.

### InitSync and DraQueue

`queue` is the list from `paoFirst`, `w` the worker with its phase and what it
is still to enqueue and to report, `reps` the links with their flags, `client`
the callers of `DirReplica*`, `task` the task thread. An option word is a set of
flag names; the masks are those of `draatt.h`. An operation of the worker is one
action per outcome (`Synced`, `SyncBusy`, `SchemaMismatch`, `Preempted`, ...),
which sets the flags of the link; the syncs it enqueues follow one by one
through `DirReplicaSynchronize`, each filtered against the queue as it is then,
and at last the attempt is reported to the list of initial syncs. `DispatchPao`,
`PaoGet` and `AddAsyncOp` are each one critical section. The report reads two
counters before it enters the critical section of the list and the startup code
reads them outside of it: these are steps of their own. The removal of a link is
committed before the source is told, and taken back when that fails. The task
thread reads the links one by one, those of the contexts the server is a master
of first, one context after another (`ReadLink`, `ReadNext`), and enqueues a
preempted sync as it meets its link.

`owed` is auxiliary: the links for which an asynchronous sync was accepted and
no attempt has started since (`Asks`: the links enabled at that time). A removed or disabled link, or a purge after a
failed bind, settles it, which is what the code intends.

Abstractions: what a cycle does to the database is `DraRepl`; here it is its
result. Naming contexts are always found; mail links, two-way syncs, partial
attribute sets, repsTo, the schedule and urgent notifications are left out, as
is the first server of a domain, which has no source. Memory does not run out.
An initial sync whose packet brought nothing new is abandoned at most
`MaxAbandons` times: each time the stored watermark has moved past a packet, so
the code cannot do it without end, and the model has no watermark to show it.
The list of initial syncs is scanned again at most `MaxRescans` times: a
refused or failed source is enqueued at every scan, and a model without time
could scan so often that a source of high priority keeps the worker from another
for ever, while the scans of the code are ten to thirty minutes apart
(`drautil.h` 118-120). When the list of initial syncs ends in mid-scan the model
goes on with contexts that are complete, which it skips. A service that stops
ends the scan before its next row; the model lets it end between any two pairs.

## 3. Runs

| Run | Shows | Bounds |
|---|---|---|
| `usn_threads` | `SnapshotComplete`, `UncommittedTracked`, `HighestCommittedMonotone`: three threads use the whole array, commit in all orders and crash | 3 threads, 3 sessions, 4 USNs, hidden record moves by 1 |
| `usn_restore` | `UsnNeverReissued`, `OwnClaimSound`, `NothingCommitsBelow` with nested transactions, crash, backup, restore and id change | 2 threads, 2 levels, 2 ids, 3 USNs, hidden record moves by 1 |
| `meta_conflicts` | `VersionsSerial`, `ProcessedBelow`, `EqualMeansSame`, `UnderriddenLoses`, `Converges` | `Half` = 8, versions from 6 (before the middle of the range) and 14 (before its end), or from no value, 2 writable servers and a read-only one, 2 stamps after the first, which is of server 1 (`FirstOfOne`), 1 fall, restores that bump by 2 |
| `meta_underride` | violation, see section 5 | start at half of the range |
| `utd_claims` | `WellFormed` (strictly sorted, no cursor of the server itself), `NoClaimAhead`, `MergeIsCommon`, `SynchronizedMeansSynced`, refinement `ImplementsClaims` | 2 servers, 3 ids, 2 USNs, 3 seconds |
| `cursor_find` | `FindCorrect`, `ReadsInside` | all sorted vectors of even ids up to 12 |
| `dra_packets` | `UTDSound`, `SkippedIsThere`, `FullPacketSuffices`, `ParentPresent`, `WatermarkKept` with packets cut anywhere, open writes, failed or preempted cycles and objects that expire | 2 servers, one way, parent and child, 4 writes, 2 of them open, 2 cycles, 1 cut off, 1 expired object |
| `dra_crash` | `NothingLost` (both of these) with lazy commits lost in a crash, and `Converges` | 2 servers both ways, 2 conflicting writes, 1 crash, cycles without bound |
| `dra_restore` | `NothingLost` over backup, restore, crash and id changes, one of them rolled back | 2 servers both ways, 3 ids, 2 writes, 3 cycles, 1 crash |
| `dra_backup` | violation, see section 5 | 2 servers, one way, 2 objects, 3 writes, 1 cycle in packets, 1 restore |
| `queue_requests` | `CountExact`, `WorkSignalled`, `NoRequestLost` (asynchronous requests: `OwedIsCovered`, synchronous ones: `WaitedIsThere`) | 2 callers, 2 of 10 operations, 3 links, 1 rescan, a purge |
| `queue_init` | `CountsMatch`, `DoneMeansTried`, `InitSyncsFinish`, `EventuallySynchronized`, `CallersAnswered`, `Quiesces`, also when the service stops | a writable context and a read-only one with 2 sources, 1 operation of a client, 1 abandoned sync |

Why the bounds are enough to be interesting: three threads are the least for
which the promotion in `dbFlushUncUsns` has a choice; a hidden record that moves
by 1 is written at every USN, so a crash falls between any two moves; two ids
allow one retirement or one restore, before which and after which both threads
write; `Half` = 8 gives every branch of `ReplCompareVersions` including both
special pairs; two stamps after the first and a fall between them are the least
with which a server makes a stamp again, and with which it writes above what it
fell below; three ids put a cursor before and behind others. The
real constants (`USN_DELTA_INIT` 4096, a 32-bit version, the number of sessions)
are parameters of the proofs. Symmetry is used for threads only.

For `DraRepl`: a parent and a child are the least for which the order of the
scan, by last change, differs from the order of creation, so that children come
first; two open writes commit out of order around a read transaction; three
writes put one object twice into a scan, a fourth changes it once more while the
scan is under way (`FewAtOnce` admits it in the first cycle only, with one write
open at a time, and keeps failures and expiry apart); two
cycles are one to store a watermark and one to misuse it, three with a restore in
between. Each run opens the failures that meet the same state, because all of
them together are too many for TLC: cut off cycles and expiry in `dra_packets`,
crashes and conflicting writes in `dra_crash`, crashes, restores and id changes in
`dra_restore`. Restores and packets that are cut do not go together: that is the
finding of `dra_backup`; the constant `Backups` names the servers that are backed
up at all. Changes that reach a server by two ways are covered by the proofs,
which are for any number of servers.
`PersistEvery` is 1 or 2 instead of the code's interval, so that a cycle stores
its watermark before its last packet. The view of `MCDraRepl` leaves out `disk`
once no crash is left, when nothing reads it.

For `DraQueue`: what runs, what is queued and what is compared with it are two
requests of callers and the syncs that the server enqueues itself (initial,
preempted and requeued ones, the parts of a sync of all sources); the kinds of
requests are chosen so that the clauses of the filter decide (priority, all
sources, by name).

Deadlock is checked in the runs of `Usn`: the server can always go on. The
others may stop: the search of `CursorFind` ends, and `ReplMeta` and
`UpToDateVec` stop when their bounds on stamps, USNs and time are reached, and
so does `DraRepl` with those on writes and cycles. The queue never stops, because
its worker wakes every thirty minutes: deadlock is checked in `queue_requests`;
in `queue_init` the service may end.

Fairness: `ReplMeta!FairSpec` assumes that a stamp held by a writable server
and neither made nor processed elsewhere is eventually applied there: the periodic
synchronisation (`drasync.c`, schedules) asks again until a cycle succeeds.
A stamp the destination has seen is not offered again, even when the destination
fell below it, because its vector covers it, and neither is a touched entry.
Nothing is assumed about writes, overrides and falls, which the bounds stop.
`Converges` says that after the last one writable servers that did not fall agree,
and that one that fell is behind another only where the other holds a stamp it
fell below.
`DraRepl!FairSpec` assumes
that transactions end, that calls are answered or fail, that the worker goes on,
and that every source is tried again and again (strong fairness of `StartSync`,
because the one worker is busy with other sources in between): the periodic
synchronisation does that. `DraQueue!FairSpec` assumes weak
fairness of each thread: the worker, the report that ends an operation (it waits
for a critical section that the task thread leaves at the end of its scan), the
task thread, callers whose operation is done. The scheduler repeats
`CheckFullSyncProgress` until it succeeds (`RetryFullSync`). Nothing is assumed
about timeouts, new calls, outcomes of cycles or the end of the service.

## 4. Proofs

All proofs are for arbitrary constants under the named `ASSUME`s (finite sets of
threads and objects, ancestors that form a tree, positive numbers).

* `UsnProofs`: the invariant `UsnInv`. `SnapshotComplete` is not inductive: it
  needs that every write of an open transaction is at or above its thread's
  `UnCommUsn` (`PendingCovered`), that each such USN is in the global or in a
  slot (`SlotsOwned`), that the global is the lowest of them (`LowestIsLowest`),
  and that what a reader was told stays below all of them (`ReadBelow`). That a
  slot is free when `AddUncUsn` looks for one is a pigeonhole argument over the
  session pool (`FreeSlotExists`): each used slot belongs to a thread that holds
  a session and is not the one that asks, and the lowest USN uses none.
  `UsnNeverReissued`: the hidden record is ahead of every USN issued under the id
  on disk (`HiddenAhead`, `IssuedBelow`), and the ids a restore could bring back
  are never used again (`Live`).
  `OwnClaimSound` (a server has what it claims of its own writes, now or under an
  id it retired) rests on `ClaimInv`: writes of live ids that
  a partner has seen are on disk (`PublishedIsKept`); every USN still to
  be issued or to be committed lies above every claim that disk and backup make
  (`ClaimsBelow`); disk and backup each have what they claim (`Sound`). A claim rises only to
  what readers were told, in a transaction that puts every visible write on disk.
  Most steps touch none of this; they are instances of one abstract step
  (`StoreStep`), for which the invariant is proved once.
* `ReplMetaProofs`: `ReplCompareVersions`, a case analysis with special pairs, is
  serial number arithmetic for every width; it is antisymmetric, and transitive
  for versions within half a range. Beyond half a range it is not: 0, `Half - 1`
  and `2 * Half - 2` form a cycle. `ProcessedBelow` and `EqualMeansSame` therefore
  speak of servers whose versions lie within half a range of each other
  (`Close`); the versions of the other servers do not matter, and neither do
  the numbers of writes and falls. The condition is needed, not convenience: with
  6 stamps, a bump of 2 and `Half` = 8 TLC finds a change that was processed and
  wins. The code's `Half` is 2^31, and the versions that an underride brings in, 0
  and `ULONG_MAX`, are next to the small ones of common practice. The invariant
  `MetaInv`: a server made or processed what it holds (`Held`); in every
  window of half a range that has all it met, it holds the latest of what it did not
  fall below (`Latest`); no stamp is ahead of its server's USN (`UsnAhead`); a server
  has seen what it made (`MadeSeen`); and for what it fell below of its own a fall is
  recorded at a USN not before that of the stamp (`LostFell`). The last is
  what `EqualMeansSame` needs: a stamp equal to an earlier one of the same server
  is not above it, so the server had fallen below the earlier one. Every write is
  one of two: it adds to the latest version (`RisingKeepsParts`) or it is below
  everything and marked as a fall (`UnderrideKeepsParts`).
  `UnderriddenLose` needs no window: a version 0 loses against the first half
  of the versions. It rests on a touched entry having version `ULONG_MAX`.
* `CursorFindProofs`: the invariant is that everything before `iCursorBegin` is
  smaller and everything behind `iCursorEnd` is greater than the id searched,
  together with where the last compared cursor lies when the range becomes
  empty: the code then returns that index without looking again. That the range
  shrinks with every comparison, so that the loop ends, is `FindShrinks`.
* `UpToDateVecProofs`: the same bisection as a function, for vectors of any length,
  and with it what an improvement and a merge return. Induction over lengths is
  stated about sets of numbers (`NatSet`), which the provers can instantiate. The
  merge loop has the invariant `WalkInv`: what is merged so far is exactly
  what both prefixes cover, and nothing behind the two indices can pair with
  something before them. On top of these lemmas the invariant of the module:
  vectors are sorted and without the owner's id; every cursor stored, sent or
  being written for a retired id is of an id in use, up to what was committed under
  it, with a time that has come (`Claimable`), and before the first cycle no stored
  time is after the boot (`Storable`, `RetiringOK`); a reply of version 1 has the
  cursor of its sender that its translation looks for (`HasSender`).
  `MergeIsCommon` is about servers that have vectors: the code refuses a missing
  one with an exception.
* `UtdClaimsProofs`: the refinement. Each action of `UpToDateVec` maps to the
  action of `UtdClaims` of the same meaning, or to a stutter; it needs sortedness
  (else an insertion could hide a cursor behind a duplicate), the absence of the
  owner's cursor, and `HasSender`.
* `InitSyncProofs`, `DraQueueProofs`: the list of initial synchronisations keeps
  its rows well formed and in agreement with the two counters (`RowOK`, `ListOK`);
  these are lemmas about its operations, which the steps of the queue use. The
  invariant of the queue adds what the properties are silent about: what the worker
  has in hand at each point (`Holding`), that nobody waits for an asynchronous
  operation and the worker enqueues only asynchronous syncs of one source (`OpsOK`),
  that the links are read before the worker starts (`BootFirst`), that a server
  that advertises itself saw the vector of its domain (`SawDomain`), and, for
  `NoRequestLost`, that an owed link is covered by an asynchronous sync
  (`AsyncCovers`).
  `NoRequestIsLost` has the hypothesis `PeriodicNamesOne`: a periodic request names
  its source. The purge after a failed bind takes the source a periodic sync names
  for its only one and does not look at the flag for all sources (`draasync.c`
  1109-1126), so a periodic sync of all sources that also names the unreachable one
  would be lost for the others.
  `drainit.c` issues none and the instance's `Requests` hold none; a remote caller
  could set the flag (`REPSYNC_RPC_OPTIONS`, `draatt.h` 216).

* `DraReplProofs`: the protocol, for any number of servers, any topology, any
  tree of objects and any bounds. `TypeInv` and `ShapeInv` hold without hypothesis:
  an object that does not exist has no attributes and one that exists has its
  parent (`DbOK`), an open write has its object to itself (`OpenOK`), and a call and
  a packet belong to the cycle that waits for them (`CallOK`). `FullPacketEnough`
  and `ParentNeverMissing` follow.

  `NothingIsLost` (and its two halves `ClaimsAreSound`, `SkippedAreThere`) rests on
  `LossInv`. It speaks of the part of the state that vectors and watermarks are
  about, as one record `World`, and asks two questions of a database `D` and the
  objects under way to it (`Covers`): is every write had that a vector covers, and
  everything that the server of a cursor held at USNs up to it, what it replicated
  in included (`ClaimOK`)? Is everything had that a watermark makes its source skip
  (`MarkOK`)? Both are asked of what is visible and of what is on disk, since a
  crash may bring that back, and both include that the claim lies below every USN
  the server has yet to commit (`Below`): this is what the lowest uncommitted
  USN is noted for before the read transaction begins. `StoreOK` asks them of the stored
  vector and watermarks, in memory and on disk; `CycleOK` of the request, the
  watermark the source works with, the reply, the packet being applied and the
  packet asked for ahead, each with the objects that are still to be applied before
  it. `WorldOK` says that ids belong to one server and that what others know of a
  server's writes is on its disk, which is why `DRA_GetNCChanges` commits durably
  before it reads. Most actions change the world in one of a few ways, and that
  a claim or a mark survives each of them is proved once per way. The theorem
  has the hypothesis that no step is a `Restore`: with restores `NothingLost` is
  false (`dra_backup` and the remark on full packets in section 5). Changes of the
  invocation id by `DraHostWriteableNc`, crashes, cut packets, preemption, failing calls and
  expiry are all included.

  `ParentIsPresent`, with the same hypothesis, adds `ParentInv`: as long as nothing
  expires, no name is under LostAndFound in any database, open write or packet, and
  in a packet asked for with `DRS_GET_ANC` every object whose parent is missing comes
  behind that parent (`Led`, `Ahead`). That the parent is in the packet at all, and
  not left out because the vector covers it, needs `LossInv`.

  `WatermarksAreKept` adds `MarksInv`: along a cycle the object watermark grows from
  the stored one to the one asked from, the one the source works with and the
  one it answers, each under the id the source has, and stored watermarks are the
  same on disk and in memory. Its hypothesis, that no server changes its
  invocation id, is needed: an id changed in memory only (the transaction of
  `DraHostWriteableNc` rolled back) is gone after a crash of the source, and a
  cycle that went on under it between two stored watermarks starts over under the
  old id and stores an earlier one. TLC finds this with two leaves,
  `PersistEvery = 2`, one change of id and one crash. Nothing is lost by that.

  `LossInv`, `ParentInv` and `MarksInv` were checked by TLC on instances of
  `MCDraRepl` before they were proved.

Only model-checked: `NothingLost` in an instance with restores but without cut
packets or expiry (`dra_restore`), and the liveness properties (`Converges` of `ReplMeta` and of
`DraRepl`, `CallersAnswered`, `Quiesces`, `InitSyncsFinish`,
`EventuallySynchronized`), which need fairness and are out of the prover's reach.

## 5. Findings

`meta_underride`: a replica that makes up a name for an object for the time
being stamps the name with version 0, which the comments in `dblayer/dbmeta.c`
and `dra/drameta.c` call a guaranteed loser. The comparison is cyclic, so 0 wins
against any version more than half a range ahead. Such versions need about two
billion changes of one attribute or about two hundred authoritative restores with the
largest version bump, so this is a statement about the comment rather than about
common practice.

`dra_backup`: a source that is restored from a backup while a partner is in the
middle of a cycle, or has one that was cut off. `DraImproveCallersUsnVector` takes
the partner's watermark back to the USN of the backup and says that the partner
has seen what lies below. For the watermark of a complete cycle that is so. The
watermark between two packets is weaker: objects are sent in the order of their
last change, and one that was changed again after the backup comes late. After
the restore it is back at its old place, below the watermark, and is not sent; at
the end of the cycle the partner's vector claims it, so no other server sends it
either. The object stays missing there until one of its attributes is written
again, when the partner asks for all of them. Without the restore or without the
cut there is no such loss (`dra_packets`, `dra_restore`); taking back the
watermark to its second part, `usnHighPropUpdate`, loses nothing in this instance. The run
stops at the state in which the object is below the watermark. It was found in
search of the inductive invariant for `NothingLost`.

Remarks from reading the code, without a run:

* A writable server that underrides a name (`src/mdmoddn.c:952`) keeps the made-up
  name with version 0 although it has processed the real one: the other servers
  take the real one to be there, and version 0 does not displace it at them. So the
  replicas differ until the name is changed again or the server is synchronised
  in full; `Converges` has this as its exception. The same server, when it goes on
  from 0 or from a stamp that a forced full synchronisation has put back, can
  give two writes within a second the same stamp; `EqualMeansSame` says that only
  a fall between the two makes that possible.
* An object whose name a phantom gets is stored with an entry that looks as if
  an update were under way (`src/mdmoddn.c:1205`): version `ULONG_MAX`, USN -1. It is
  taken for a write by the next update of the object, which stamps the
  name with version 0 as a change made there and then.
* A sync of all sources that turns out to be superfluous has by then removed the
  syncs of single sources before it in the list, although the filter's comment
  says that a discarded request leaves the queue unchanged (`draasync.c:997`).
  Harmless: `OwedIsCovered` holds.
* A forced request for a disabled link is a duplicate of an unforced one to the
  filter, and the unforced one is refused (`draasync.c:977`). `OwedIsCovered` is
  therefore about links that are not disabled.
* The requeueing after a schema mismatch ends because the schema is synchronised
  first; a mismatch in the sync of the schema itself would enqueue it again each
  time (`drasync.c:452`). The runs have mismatches in another context only.
* A resumed preempted sync can finish the last writable context between the
  release of the worker and the startup check, so that both find the server
  synchronised, which the second takes for impossible (`drainit.c:644`).
* The purge after a failed bind would drop a periodic sync of all sources that
  names the unreachable one (`draasync.c:1109`); see
  `PeriodicNamesOne` in section 4. No caller in this tree issues one.
* A request for all attributes (`DRS_FULL_SYNC_PACKET`) skips
  `DraImproveCallersUsnVector` (`dragtchg.c` 1855-1869), and with it the look at
  the invocation id that the watermark belongs to. The cycle survives a restart of
  the source, because the next call binds again. When an object has expired at the
  partner and the source is restored between a packet and the repeated request for
  it, the watermark is not taken back and passes over writes made under the new
  id: `NothingLost` fails in an instance with an expiry, a cut and a restore.
* The debug check at the end of `draRetireInvocationID` inspects the vector it
  has built itself, not the stored ones it is meant to verify (`drasig.c:449`).

## 6. Not modelled, and the plan

Not modelled for good: the storage engine, LDAP and name service front ends, the
independent subsystems of the tree, formatting, events and performance counters.

Not modelled yet: replication by mail, linked values, partial replicas and full
synchronisations on request, tombstones and their garbage collection, removal of
lingering objects beyond its merge of vectors, the listing of pending
operations, the task scheduler, the knowledge consistency checker. Failing
allocations are left out; the one place met where they leave wrong counters behind
is `drainit.c:886`.

Planned, in this order:

1. `NothingLost` with restores, under the hypothesis that packets are not cut and
   nothing expires: `LossInv` has to be asked of the backup too, with the
   watermarks and vectors taken back to the retired USN.
2. Linked values (`drameta.c` 1933-2109) behind the objects of a packet, full
   synchronisation and partial replicas in `DraRepl`.
3. The task scheduler `taskq.c` and the mail transport.
