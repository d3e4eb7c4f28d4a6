-------------------------------- MODULE Usn --------------------------------
(***************************************************************************)
(* Update sequence numbers of one directory server (DSA).                  *)
(*                                                                         *)
(* Every write takes the next USN of the server in the middle of a         *)
(* database transaction that commits later, or never.  Replication         *)
(* partners and the backup are told "the highest committed USN" and never  *)
(* look below it again, so the dblayer keeps the lowest USN that is still  *)
(* uncommitted (gusnLowestUncommitted plus the array UncUsn).  On disk it  *)
(* keeps an upper bound of the USNs handed out (the hidden record), so     *)
(* that no USN is handed out twice across a crash; a restored server goes  *)
(* on under a new invocation id.                                           *)
(*                                                                         *)
(* Sources: ntdsa/dblayer/dbisam.c, dbtools.c, dbinit.c, ntdsa/src/        *)
(* mdinidsa.c, ntdsa/dra/dragtchg.c, drasig.c, drautil.c.                  *)
(*                                                                         *)
(* csUncUsn makes DBGetNewUsn, dbFlushUncUsns and DBGetHighestCommittedUSN *)
(* atomic.  A write is the pair of the invocation id stamped on it and of  *)
(* its local USN; perfmon counters and events are left out.                *)
(***************************************************************************)
EXTENDS Integers, FiniteSets

CONSTANTS
  Threads,           \* threads of the server (their THSTATEs)
  gcMaxJetSessions,  \* sessions of the pool and slots of the array UncUsn
  MaxTransLevel,     \* bound: nesting depth of a thread's transactions
  USN_DELTA_INIT,    \* how far the hidden record runs ahead
  USN_MAX,           \* "no uncommitted usn"; bound: USNs stay below it
  MaxInvocations,    \* bound: invocation ids ever generated
  Backups            \* bound: are backups taken at all?

ASSUME SessionsAssumption == gcMaxJetSessions \in Nat \ {0}
ASSUME LevelAssumption    == MaxTransLevel \in Nat \ {0}
ASSUME DeltaAssumption    == USN_DELTA_INIT \in Nat \ {0}
ASSUME UsnMaxAssumption   == USN_MAX \in Nat \ {0}
ASSUME IdsAssumption      == MaxInvocations \in Nat \ {0}
ASSUME ThreadsAssumption  == IsFiniteSet(Threads)
ASSUME BackupsAssumption  == Backups \in BOOLEAN

Slots  == 1 .. gcMaxJetSessions
Levels == 1 .. MaxTransLevel
Ids    == 1 .. MaxInvocations
Remote == 0              \* stands for the invocation ids of other servers
Writes == (Ids \cup {Remote}) \X Nat  \* a write's invocation id and local USN

\* What a thread is doing.  "closed": it holds no Jet session.  "open": it
\* holds one.  "ended": Jet has committed or rolled back its outermost
\* transaction and dbFlushUncUsns is yet to run.  "marked", "scan": it serves
\* DRA_GetNCChanges, before and inside its read transaction.  "retiring",
\* "retired": it changes the invocation id, before and after the commit.
\* "backup": it prepares a backup.
Phases == {"closed", "open", "ended", "marked", "scan",
           "retiring", "retired", "backup"}

VARIABLES
  up,                     \* "down", "boot" (before HandleRestore) or "up"
  gusnEC,                 \* the next USN to hand out
  gusnInit,               \* copy of the hidden record
  gusnLowestUncommitted,  \* lowest uncommitted USN, or USN_MAX
  UncUsn,                 \* the other threads' lowest uncommitted USNs
  curId,                  \* gAnchor.pCurrInvocationID
  phase,                  \* what each thread is doing
  transLevel,             \* pTHS->JetCache.transLevel
  fDRA,                   \* pTHS->fDRA: is it applying replicated changes?
  InvocationID,           \* pTHS->InvocationID
  UnCommUsn,              \* pTHS->UnCommUsn: lowest USN taken, or 0
  pending,                \* writes made at each level and not committed
  usnRead,                \* the highest committed USN a thread has asked for
  snapshot,               \* what the read transaction of a thread sees
  committed,              \* the visible writes
  disk,                   \* what a crash leaves
  image,                  \* what the last backup holds
  issued,                 \* history: every write ever given a USN
  published               \* history: own writes that a partner was sent

memory  == <<gusnEC, gusnInit, gusnLowestUncommitted, UncUsn, curId>>
threads == <<phase, transLevel, fDRA, InvocationID, UnCommUsn, pending,
             usnRead, snapshot>>
store   == <<committed, disk, image>>
history == <<issued, published>>
vars    == <<up, memory, threads, store, history>>

\* The database file: the writes that reached it, the hidden record's USN and
\* backup USN, the invocation id, the USN each retired id was retired at
\* (retiredReplDsaSignatures, 0 for none) and whether it was put back from a
\* backup and HandleRestore has not run yet.
Disks == [db : SUBSET Writes, usn : Nat, backupUsn : Nat, id : Ids,
          retired : [Ids -> Nat], restoring : BOOLEAN]

\* Ids come from UuidCreate: one that was never used, anywhere, before.
UsedIds == {w[1] : w \in issued} \cup {disk.id, image.id}
             \cup {InvocationID[t] : t \in Threads}
NewIds  == {i \in Ids : i \notin UsedIds /\ \A j \in Ids \ UsedIds : i <= j}

-----------------------------------------------------------------------------
(* The allocator, all of it inside csUncUsn.                               *)

FreeSlots == {i \in Slots : UncUsn[i] = USN_MAX}
UsedSlots == Slots \ FreeSlots

FirstFreeSlot == CHOOSE i \in FreeSlots : \A j \in FreeSlots : i <= j

\* Mutant of AddUncUsn: no search for a free slot.
AddUncUsnFirstSlot(t, usn) ==
  /\ UnCommUsn' = IF UnCommUsn[t] = 0 THEN [UnCommUsn EXCEPT ![t] = usn]
                                      ELSE UnCommUsn
  /\ \/ /\ UnCommUsn[t] = 0 /\ gusnLowestUncommitted # USN_MAX
        /\ UncUsn' = [UncUsn EXCEPT ![1] = usn]
        /\ UNCHANGED gusnLowestUncommitted
     \/ /\ UnCommUsn[t] # 0 \/ gusnLowestUncommitted = USN_MAX
        /\ gusnLowestUncommitted' = IF UnCommUsn[t] = 0 THEN usn
                                                        ELSE gusnLowestUncommitted
        /\ UNCHANGED UncUsn

\* Remember usn as the lowest uncommitted one of thread t.  With no free slot
\* it would be forgotten: there is only an Assert.
AddUncUsn(t, usn) ==
  \/ /\ UnCommUsn[t] # 0
     /\ UNCHANGED <<UnCommUsn, gusnLowestUncommitted, UncUsn>>
  \/ /\ UnCommUsn[t] = 0
     /\ UnCommUsn' = [UnCommUsn EXCEPT ![t] = usn]
     /\ \/ /\ gusnLowestUncommitted = USN_MAX
           /\ gusnLowestUncommitted' = usn
           /\ UNCHANGED UncUsn
        \/ /\ gusnLowestUncommitted # USN_MAX
           /\ UncUsn' = IF FreeSlots = {} THEN UncUsn
                        ELSE [UncUsn EXCEPT ![FirstFreeSlot] = usn]
           /\ UNCHANGED gusnLowestUncommitted

\* Mutant of LowestSlot: the first slot in use, not the lowest USN.
FirstUsedSlot == CHOOSE i \in UsedSlots : \A j \in UsedSlots : i <= j

LowestSlot == CHOOSE i \in UsedSlots : \A j \in UsedSlots : UncUsn[i] <= UncUsn[j]

\* Mutant of dbFlushUncUsns: nothing is promoted.
dbFlushUncUsnsNoPromotion(t) ==
  /\ UnCommUsn' = [UnCommUsn EXCEPT ![t] = 0]
  /\ gusnLowestUncommitted' =
       IF UnCommUsn[t] = gusnLowestUncommitted THEN USN_MAX
                                               ELSE gusnLowestUncommitted
  /\ UncUsn' = [i \in Slots |-> IF UncUsn[i] = UnCommUsn[t]
                                THEN USN_MAX ELSE UncUsn[i]]

\* Forget the uncommitted USN of thread t and promote the next lowest one.
dbFlushUncUsns(t) ==
  /\ UnCommUsn' = [UnCommUsn EXCEPT ![t] = 0]
  /\ \/ /\ UnCommUsn[t] = 0
        /\ UNCHANGED <<gusnLowestUncommitted, UncUsn>>
     \/ /\ UnCommUsn[t] # 0
        /\ UnCommUsn[t] = gusnLowestUncommitted
        /\ UsedSlots = {}
        /\ gusnLowestUncommitted' = USN_MAX
        /\ UNCHANGED UncUsn
     \/ /\ UnCommUsn[t] # 0
        /\ UnCommUsn[t] = gusnLowestUncommitted
        /\ UsedSlots # {}
        /\ gusnLowestUncommitted' = UncUsn[LowestSlot]
        /\ UncUsn' = [UncUsn EXCEPT ![LowestSlot] = USN_MAX]
     \/ /\ UnCommUsn[t] # 0
        /\ UnCommUsn[t] # gusnLowestUncommitted
        /\ UncUsn' = [i \in Slots |-> IF UncUsn[i] = UnCommUsn[t]
                                      THEN USN_MAX ELSE UncUsn[i]]
        /\ UNCHANGED gusnLowestUncommitted

DBGetHighestCommittedUSN ==
  IF gusnLowestUncommitted # USN_MAX THEN gusnLowestUncommitted - 1
                                     ELSE gusnEC - 1

\* The hidden record is never written lazily.  A transaction that is not lazy
\* waits for the log, which is written in order, so every earlier commit
\* reaches the disk with it.
DBReplaceHiddenUSN(usn) == disk' = [disk EXCEPT !.usn = usn, !.db = committed]

\* The hidden record is moved before gusnEC may pass it.
DBGetNewUsn(t) ==
  /\ gusnEC < USN_MAX
  /\ \/ /\ gusnEC + 1 > gusnInit
        /\ DBReplaceHiddenUSN(gusnInit + USN_DELTA_INIT)
        /\ gusnInit' = gusnInit + USN_DELTA_INIT
     \/ /\ gusnEC + 1 <= gusnInit
        /\ UNCHANGED <<disk, gusnInit>>
  /\ gusnEC' = gusnEC + 1
  /\ AddUncUsn(t, gusnEC)

-----------------------------------------------------------------------------
(* Threads, sessions and transactions.                                     *)

InSession == {t \in Threads : phase[t] # "closed"}

\* GrabSession waits on the semaphore of the session pool.
DBInitThread(t) ==
  /\ up = "up"
  /\ phase[t] = "closed"
  /\ Cardinality(InSession) < gcMaxJetSessions
  /\ phase' = [phase EXCEPT ![t] = "open"]
  /\ UNCHANGED <<up, memory, transLevel, fDRA, InvocationID, UnCommUsn,
                 pending, usnRead, snapshot, store, history>>

DBCloseThread(t) ==
  /\ up = "up"
  /\ phase[t] = "open"
  /\ transLevel[t] = 0
  /\ phase' = [phase EXCEPT ![t] = "closed"]
  /\ dbFlushUncUsns(t)
  /\ UNCHANGED <<up, gusnEC, gusnInit, curId, transLevel, fDRA, InvocationID,
                 pending, usnRead, snapshot, store, history>>

\* The invocation id is refreshed only on the way from level 0 to level 1.
DBTransIn(t, dra) ==
  /\ up = "up"
  /\ phase[t] = "open"
  /\ transLevel[t] < MaxTransLevel
  /\ transLevel' = [transLevel EXCEPT ![t] = @ + 1]
  /\ \/ /\ transLevel[t] = 0
        /\ InvocationID' = [InvocationID EXCEPT ![t] = curId]
        /\ fDRA' = [fDRA EXCEPT ![t] = dra]
     \/ /\ transLevel[t] # 0
        /\ dra = fDRA[t]
        /\ UNCHANGED <<InvocationID, fDRA>>
  /\ UNCHANGED <<up, memory, phase, UnCommUsn, pending, usnRead, snapshot,
                 store, history>>

\* One write: take a USN and stamp the record with it.
DBRepl(t) ==
  /\ up = "up"
  /\ \/ phase[t] = "open" /\ transLevel[t] > 0
     \/ phase[t] = "retiring" /\ pending[t][1] = {}
  /\ DBGetNewUsn(t)
  /\ pending' = [pending EXCEPT ![t][transLevel[t]] =
                   @ \cup {<<IF fDRA[t] THEN Remote ELSE InvocationID[t],
                             gusnEC>>}]
  /\ issued' = issued \cup {<<InvocationID[t], gusnEC>>}
  /\ UNCHANGED <<up, curId, phase, transLevel, fDRA, InvocationID, usnRead,
                 snapshot, committed, image, published>>

\* Mutant of DBTransOutNested: dbFlushUncUsns runs at every level.
DBTransOutNestedFlush(t, fCommit) ==
  /\ up = "up"
  /\ phase[t] = "open"
  /\ transLevel[t] > 1
  /\ pending' =
       [pending EXCEPT
          ![t][transLevel[t]] = {},
          ![t][transLevel[t] - 1] =
             IF fCommit THEN @ \cup pending[t][transLevel[t]] ELSE @]
  /\ transLevel' = [transLevel EXCEPT ![t] = @ - 1]
  /\ dbFlushUncUsns(t)
  /\ UNCHANGED <<up, gusnEC, gusnInit, curId, phase, fDRA, InvocationID,
                 usnRead, snapshot, store, history>>

\* The writes of an inner transaction join those of the enclosing one, or
\* vanish; USNs stay uncommitted until the outermost one ends.
DBTransOutNested(t, fCommit) ==
  /\ up = "up"
  /\ phase[t] = "open"
  /\ transLevel[t] > 1
  /\ pending' =
       [pending EXCEPT
          ![t][transLevel[t]] = {},
          ![t][transLevel[t] - 1] =
             IF fCommit THEN @ \cup pending[t][transLevel[t]] ELSE @]
  /\ transLevel' = [transLevel EXCEPT ![t] = @ - 1]
  /\ UNCHANGED <<up, memory, phase, fDRA, InvocationID, UnCommUsn, usnRead,
                 snapshot, store, history>>

\* What the outermost JetCommitTransaction of t makes visible.
JetCommit(t) == committed' = committed \cup pending[t][1]

\* The outermost transaction ends in Jet.  The USN is still uncommitted here:
\* dbFlushUncUsns runs after it.
DBTransOut(t, fCommit, fLazy) ==
  /\ up = "up"
  /\ phase[t] = "open"
  /\ transLevel[t] = 1
  /\ fLazy => fCommit
  /\ \/ /\ fCommit
        /\ JetCommit(t)
        /\ disk' = IF fLazy THEN disk ELSE [disk EXCEPT !.db = committed']
     \/ /\ ~fCommit
        /\ UNCHANGED <<committed, disk>>
  /\ pending' = [pending EXCEPT ![t][1] = {}]
  /\ transLevel' = [transLevel EXCEPT ![t] = 0]
  /\ fDRA' = [fDRA EXCEPT ![t] = FALSE]
  /\ phase' = [phase EXCEPT ![t] = "ended"]
  /\ UNCHANGED <<up, memory, InvocationID, UnCommUsn, usnRead, snapshot,
                 image, history>>

\* The tail of DBTransOut, and of InitInvocationId, which lets the other
\* threads know the new id last of all (UpdateAnchorWithInvocationID).
FlushUncUsns(t) ==
  /\ up = "up"
  /\ phase[t] \in {"ended", "retired"}
  /\ dbFlushUncUsns(t)
  /\ phase' = [phase EXCEPT ![t] = "open"]
  /\ curId' = IF phase[t] = "retired" THEN InvocationID[t] ELSE curId
  /\ usnRead' = [usnRead EXCEPT ![t] = 0]
  /\ UNCHANGED <<up, gusnEC, gusnInit, transLevel, fDRA, InvocationID,
                 pending, snapshot, store, history>>

\* Jet writes its log behind the lazy commits.
JetFlushLog ==
  /\ up = "up"
  /\ disk.db # committed
  /\ disk' = [disk EXCEPT !.db = committed]
  /\ UNCHANGED <<up, memory, threads, committed, image, history>>

-----------------------------------------------------------------------------
(* Readers of the highest committed USN.                                   *)

\* DRA_GetNCChanges, before its read transaction: usnLowestC is 1 + usnRead.
GetNCChangesMark(t) ==
  /\ up = "up"
  /\ phase[t] = "open"
  /\ transLevel[t] = 0
  /\ usnRead' = [usnRead EXCEPT ![t] = DBGetHighestCommittedUSN]
  /\ phase' = [phase EXCEPT ![t] = "marked"]
  /\ UNCHANGED <<up, memory, transLevel, fDRA, InvocationID, UnCommUsn,
                 pending, snapshot, store, history>>

\* Mutant of GetNCChangesBegin: no DBForceDurableCommit.
GetNCChangesBeginLazy(t) ==
  /\ up = "up"
  /\ phase[t] = "marked"
  /\ snapshot' = [snapshot EXCEPT ![t] = committed]
  /\ phase' = [phase EXCEPT ![t] = "scan"]
  /\ UNCHANGED <<up, memory, transLevel, fDRA, InvocationID, UnCommUsn,
                 pending, usnRead, store, history>>

\* BeginDraTransaction(SYNC_READ_ONLY): from here on the thread reads what is
\* committed now, and DBForceDurableCommit puts all of that on disk.
GetNCChangesBegin(t) ==
  /\ up = "up"
  /\ phase[t] = "marked"
  /\ snapshot' = [snapshot EXCEPT ![t] = committed]
  /\ disk' = [disk EXCEPT !.db = committed]
  /\ phase' = [phase EXCEPT ![t] = "scan"]
  /\ UNCHANGED <<up, memory, transLevel, fDRA, InvocationID, UnCommUsn,
                 pending, usnRead, committed, image, history>>

\* The packet goes out.  What it may contain is what the thread saw.
GetNCChangesEnd(t) ==
  /\ up = "up"
  /\ phase[t] = "scan"
  /\ published' = published \cup {w \in snapshot[t] : w[1] # Remote}
  /\ snapshot' = [snapshot EXCEPT ![t] = {}]
  /\ usnRead' = [usnRead EXCEPT ![t] = 0]
  /\ phase' = [phase EXCEPT ![t] = "open"]
  /\ UNCHANGED <<up, memory, transLevel, fDRA, InvocationID, UnCommUsn,
                 pending, store, issued>>

\* The backup asks for the highest committed USN first ...
BackupMark(t) ==
  /\ up = "up"
  /\ Backups
  /\ phase[t] = "open"
  /\ transLevel[t] = 0
  /\ usnRead' = [usnRead EXCEPT ![t] = DBGetHighestCommittedUSN]
  /\ phase' = [phase EXCEPT ![t] = "backup"]
  /\ UNCHANGED <<up, memory, transLevel, fDRA, InvocationID, UnCommUsn,
                 pending, snapshot, store, history>>

\* ... then writes it to the hidden record, which forces the log to disk.
DBReplaceHiddenTableBackupCols(t) ==
  /\ up = "up"
  /\ phase[t] = "backup"
  /\ disk' = [disk EXCEPT !.backupUsn = usnRead[t], !.db = committed]
  /\ usnRead' = [usnRead EXCEPT ![t] = 0]
  /\ phase' = [phase EXCEPT ![t] = "open"]
  /\ UNCHANGED <<up, memory, transLevel, fDRA, InvocationID, UnCommUsn,
                 pending, snapshot, committed, image, history>>

\* The database file is copied at any time after that.
BackupCopy ==
  /\ up = "up"
  /\ disk.backupUsn # 0
  /\ image' = disk
  /\ UNCHANGED <<up, memory, threads, committed, disk, history>>

-----------------------------------------------------------------------------
(* The invocation id: the name under which the USNs are known elsewhere.   *)

\* InitInvocationId outside a restore (an NC is hosted again): what will be
\* claimed for the old id is what is committed now.  Other threads go on
\* writing under the old id.
RetireBegin(t, id) ==
  /\ up = "up"
  /\ phase[t] = "open"
  /\ transLevel[t] = 0
  /\ \A s \in Threads : phase[s] \notin {"retiring", "retired"}
  /\ transLevel' = [transLevel EXCEPT ![t] = 1]
  /\ usnRead' = [usnRead EXCEPT ![t] = DBGetHighestCommittedUSN]
  /\ InvocationID' = [InvocationID EXCEPT ![t] = id]
  /\ fDRA' = [fDRA EXCEPT ![t] = FALSE]
  /\ phase' = [phase EXCEPT ![t] = "retiring"]
  /\ UNCHANGED <<up, memory, UnCommUsn, pending, snapshot, store, history>>

\* Its DBClose: the new id and the signature of the old one commit together.
RetireOut(t, fCommit) ==
  /\ up = "up"
  /\ phase[t] = "retiring"
  /\ \/ /\ fCommit
        /\ pending[t][1] # {}
        /\ JetCommit(t)
        /\ disk' = [disk EXCEPT !.db = committed', !.id = InvocationID[t],
                                !.retired[disk.id] = usnRead[t]]
        /\ phase' = [phase EXCEPT ![t] = "retired"]
     \/ /\ ~fCommit
        /\ phase' = [phase EXCEPT ![t] = "ended"]
        /\ UNCHANGED <<committed, disk>>
  /\ pending' = [pending EXCEPT ![t][1] = {}]
  /\ transLevel' = [transLevel EXCEPT ![t] = 0]
  /\ UNCHANGED <<up, memory, fDRA, InvocationID, UnCommUsn, usnRead,
                 snapshot, image, history>>

-----------------------------------------------------------------------------
(* Crash, boot and restore.                                                *)

IdleThreads ==
  /\ phase' = [t \in Threads |-> "closed"]
  /\ transLevel' = [t \in Threads |-> 0]
  /\ fDRA' = [t \in Threads |-> FALSE]
  /\ InvocationID' = [t \in Threads |-> disk'.id]
  /\ UnCommUsn' = [t \in Threads |-> 0]
  /\ pending' = [t \in Threads |-> [l \in Levels |-> {}]]
  /\ usnRead' = [t \in Threads |-> 0]
  /\ snapshot' = [t \in Threads |-> {}]

\* The database recovers to what had reached the log.
Crash ==
  /\ up # "down"
  /\ disk.usn + USN_DELTA_INIT <= USN_MAX
  /\ up' = "down"
  /\ committed' = disk.db
  /\ UNCHANGED <<memory, disk, image, history>>
  /\ IdleThreads

\* A backup is put back while the server is down.
Restore ==
  /\ up = "down"
  /\ image.backupUsn # 0
  /\ NewIds # {}
  /\ disk' = [image EXCEPT !.restoring = TRUE]
  /\ committed' = image.db
  /\ UNCHANGED <<up, memory, image, history>>
  /\ IdleThreads

\* InitDSAInfo: take the USNs above the hidden record and move it.
InitDSAInfo ==
  /\ up = "down"
  /\ gusnEC' = disk.usn
  /\ gusnInit' = disk.usn + USN_DELTA_INIT
  /\ DBReplaceHiddenUSN(disk.usn + USN_DELTA_INIT)
  /\ gusnLowestUncommitted' = USN_MAX
  /\ UncUsn' = [i \in Slots |-> USN_MAX]
  /\ curId' = disk.id
  /\ up' = IF disk.restoring THEN "boot" ELSE "up"
  /\ UNCHANGED <<threads, committed, image, history>>

\* Mutant of HandleRestore: the server keeps the invocation id it had.
HandleRestoreSameId(id) ==
  /\ up = "boot"
  /\ disk' = [disk EXCEPT !.restoring = FALSE]
  /\ up' = "up"
  /\ UNCHANGED <<memory, threads, committed, image, history>>

\* HandleRestore, alone in the server: retire the id found in the backup at
\* the USN of the backup, and record it with a first write under the new id.
HandleRestore(id) ==
  /\ up = "boot"
  /\ gusnEC < USN_MAX
  /\ gusnEC' = gusnEC + 1
  /\ issued' = issued \cup {<<id, gusnEC>>}
  /\ committed' = committed \cup {<<id, gusnEC>>}
  /\ disk' = [disk EXCEPT !.db = committed', !.id = id, !.restoring = FALSE,
                          !.retired[disk.id] = disk.backupUsn]
  /\ curId' = id
  /\ up' = "up"
  /\ UNCHANGED <<gusnInit, gusnLowestUncommitted, UncUsn, threads, image,
                 published>>

-----------------------------------------------------------------------------
\* Mutant of Init: USN_START is 0.
InitFromZero ==
  /\ up = "up"
  /\ gusnEC = 0
  /\ gusnInit = 1 + USN_DELTA_INIT
  /\ gusnLowestUncommitted = USN_MAX
  /\ UncUsn = [i \in Slots |-> USN_MAX]
  /\ curId = 1
  /\ phase = [t \in Threads |-> "closed"]
  /\ transLevel = [t \in Threads |-> 0]
  /\ fDRA = [t \in Threads |-> FALSE]
  /\ InvocationID = [t \in Threads |-> 1]
  /\ UnCommUsn = [t \in Threads |-> 0]
  /\ pending = [t \in Threads |-> [l \in Levels |-> {}]]
  /\ usnRead = [t \in Threads |-> 0]
  /\ snapshot = [t \in Threads |-> {}]
  /\ committed = {}
  /\ disk = [db |-> {}, usn |-> 1 + USN_DELTA_INIT, backupUsn |-> 0, id |-> 1,
             retired |-> [i \in Ids |-> 0], restoring |-> FALSE]
  /\ image = disk
  /\ issued = {}
  /\ published = {}

Init ==
  /\ up = "up"
  /\ gusnEC = 1
  /\ gusnInit = 1 + USN_DELTA_INIT
  /\ gusnLowestUncommitted = USN_MAX
  /\ UncUsn = [i \in Slots |-> USN_MAX]
  /\ curId = 1
  /\ phase = [t \in Threads |-> "closed"]
  /\ transLevel = [t \in Threads |-> 0]
  /\ fDRA = [t \in Threads |-> FALSE]
  /\ InvocationID = [t \in Threads |-> 1]
  /\ UnCommUsn = [t \in Threads |-> 0]
  /\ pending = [t \in Threads |-> [l \in Levels |-> {}]]
  /\ usnRead = [t \in Threads |-> 0]
  /\ snapshot = [t \in Threads |-> {}]
  /\ committed = {}
  /\ disk = [db |-> {}, usn |-> 1 + USN_DELTA_INIT, backupUsn |-> 0, id |-> 1,
             retired |-> [i \in Ids |-> 0], restoring |-> FALSE]
  /\ image = disk
  /\ issued = {}
  /\ published = {}

ThreadNext(t) ==
  \/ DBInitThread(t)
  \/ DBCloseThread(t)
  \/ \E dra \in BOOLEAN : DBTransIn(t, dra)
  \/ DBRepl(t)
  \/ \E fCommit \in BOOLEAN : DBTransOutNested(t, fCommit)
  \/ \E fCommit, fLazy \in BOOLEAN : DBTransOut(t, fCommit, fLazy)
  \/ FlushUncUsns(t)
  \/ GetNCChangesMark(t)
  \/ GetNCChangesBegin(t)
  \/ GetNCChangesEnd(t)
  \/ BackupMark(t)
  \/ DBReplaceHiddenTableBackupCols(t)
  \/ \E id \in NewIds : RetireBegin(t, id)
  \/ \E fCommit \in BOOLEAN : RetireOut(t, fCommit)

Next ==
  \/ \E t \in Threads : ThreadNext(t)
  \/ JetFlushLog
  \/ BackupCopy
  \/ Crash
  \/ Restore
  \/ InitDSAInfo
  \/ \E id \in NewIds : HandleRestore(id)

Spec == Init /\ [][Next]_vars

-----------------------------------------------------------------------------
(* Properties.                                                             *)

TypeOK ==
  /\ up \in {"down", "boot", "up"}
  /\ gusnEC \in Nat
  /\ gusnInit \in Nat
  /\ gusnLowestUncommitted \in Nat
  /\ UncUsn \in [Slots -> Nat]
  /\ curId \in Ids
  /\ phase \in [Threads -> Phases]
  /\ transLevel \in [Threads -> 0 .. MaxTransLevel]
  /\ fDRA \in [Threads -> BOOLEAN]
  /\ InvocationID \in [Threads -> Ids]
  /\ UnCommUsn \in [Threads -> Nat]
  /\ pending \in [Threads -> [Levels -> SUBSET Writes]]
  /\ usnRead \in [Threads -> Nat]
  /\ snapshot \in [Threads -> SUBSET Writes]
  /\ committed \in SUBSET Writes
  /\ disk \in Disks
  /\ image \in Disks
  /\ issued \in SUBSET Writes
  /\ published \in SUBSET Writes

\* A source that has taken usnLowestC = 1 + DBGetHighestCommittedUSN and then
\* opened its read transaction (DRA_GetNCChanges) sees every write below
\* usnLowestC that will ever be visible: its partner may start the next cycle
\* there and miss nothing, whatever transactions were open meanwhile.
SnapshotComplete ==
  \A t \in Threads : phase[t] = "scan" =>
    \A w \in committed : w[2] < 1 + usnRead[t] => w \in snapshot[t]

\* The same for a write still in an open transaction: no write that may yet
\* commit has a USN that some reader (replication, backup, retirement of an
\* invocation id) has been told is committed.
NothingCommitsBelow ==
  \A t, s \in Threads : \A l \in Levels : \A w \in pending[s][l] :
    usnRead[t] < w[2]

\* The uncommitted USN of every thread is in the global or in the array: what
\* the Assert(i < gcMaxJetSessions) of AddUncUsn and of dbFlushUncUsns say.
UncommittedTracked ==
  \A t \in Threads : UnCommUsn[t] # 0 =>
    \/ UnCommUsn[t] = gusnLowestUncommitted
    \/ \E i \in Slots : UncUsn[i] = UnCommUsn[t]

\* DBGetHighestCommittedUSN never goes back while the server runs.
HighestCommittedMonotone ==
  [][(up = "up" /\ up' = "up") =>
       DBGetHighestCommittedUSN <= DBGetHighestCommittedUSN']_vars

\* DBGetNewUsn never gives out a USN twice under one invocation id, whatever
\* crashes lose and whatever backup is put back.
UsnNeverReissued ==
  [][(up # "down" /\ gusnEC' # gusnEC) => issued' # issued]_vars

\* Up to which USN of an id the server says it has every change of that id:
\* UpToDateVec_Read for its own id, draRetireInvocationID for an older one.
Claim(id) == IF id = curId THEN DBGetHighestCommittedUSN ELSE disk.retired[id]

\* What the server claims to have of the changes it made and partners have
\* seen, it has, also after a crash that lost lazy commits or a restore:
\* partners never send back what it claims to have.
OwnClaimSound ==
  up = "up" => \A w \in published : w[2] <= Claim(w[1]) => w \in committed
=============================================================================
