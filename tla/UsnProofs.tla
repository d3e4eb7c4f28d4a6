----------------------------- MODULE UsnProofs -----------------------------
(***************************************************************************)
(* Proofs about Usn, for any number of threads, sessions, nesting levels   *)
(* and invocation ids.                                                     *)
(***************************************************************************)
EXTENDS Usn, FiniteSetTheorems, WellFoundedInduction, TLAPS

-----------------------------------------------------------------------------
(* The inductive invariant, one named part per idea.                       *)

\* Every counter is at least 1, so that DBGetHighestCommittedUSN is a natural.
Positive ==
  /\ gusnEC >= 1
  /\ gusnLowestUncommitted >= 1
  /\ \A i \in Slots : UncUsn[i] >= 1
  /\ disk.usn >= 1
  /\ image.usn >= 1

\* InitInvocationId runs in an outermost transaction of its own.
RetireLevel == \A t \in Threads : phase[t] = "retiring" => transLevel[t] = 1

TypeInv == TypeOK /\ Positive /\ RetireLevel

\* No thread of a server that is not up has anything to commit.
ThreadsIdle ==
  up # "up" => \A t \in Threads :
    /\ phase[t] = "closed"
    /\ UnCommUsn[t] = 0
    /\ usnRead[t] = 0
    /\ \A l \in Levels : pending[t][l] = {}

\* The pool hands out no more sessions than the array has slots.
SessionsBounded == Cardinality(InSession) <= gcMaxJetSessions

\* Only threads in a session hold an uncommitted USN; the global is a lower
\* bound of them all, and no two are equal.
LowestIsLowest ==
  /\ \A t \in Threads : UnCommUsn[t] # 0 =>
       /\ phase[t] # "closed"
       /\ UnCommUsn[t] < gusnEC
       /\ UnCommUsn[t] < USN_MAX
       /\ gusnLowestUncommitted <= UnCommUsn[t]
  /\ \A s, t \in Threads : s # t /\ UnCommUsn[s] # 0 => UnCommUsn[s] # UnCommUsn[t]

\* While the server runs, the array holds distinct USNs of threads, all above
\* the global.
SlotsOwned ==
  up # "down" =>
    /\ gusnLowestUncommitted # USN_MAX =>
         gusnLowestUncommitted < gusnEC /\ gusnLowestUncommitted < USN_MAX
    /\ \A i \in Slots : UncUsn[i] # USN_MAX =>
         /\ gusnLowestUncommitted < UncUsn[i]
         /\ UncUsn[i] < gusnEC
         /\ UncUsn[i] < USN_MAX
         /\ \E t \in Threads : UnCommUsn[t] = UncUsn[i]
    /\ \A i, j \in Slots : i # j /\ UncUsn[i] # USN_MAX => UncUsn[i] # UncUsn[j]

\* A thread's pending writes are covered by the USN it is known under.
PendingCovered ==
  \A t \in Threads : \A l \in Levels : \A w \in pending[t][l] :
    /\ UnCommUsn[t] # 0
    /\ UnCommUsn[t] <= w[2]
    /\ w[2] < gusnEC

\* Only levels that are open have pending writes, and none is open once Jet
\* has ended the outermost transaction.
PendingWithin ==
  /\ \A t \in Threads : phase[t] \in {"ended", "retired"} => transLevel[t] = 0
  /\ \A t \in Threads : \A l \in Levels :
       transLevel[t] < l => pending[t][l] = {}

\* What a reader was told is below every USN that is uncommitted or to come.
ReadBelow ==
  \A t \in Threads :
    /\ usnRead[t] < gusnEC
    /\ \A s \in Threads : UnCommUsn[s] # 0 => usnRead[t] < UnCommUsn[s]

UsnInv ==
  /\ TypeInv
  /\ ThreadsIdle
  /\ SessionsBounded
  /\ LowestIsLowest
  /\ SlotsOwned
  /\ UncommittedTracked
  /\ PendingCovered
  /\ PendingWithin
  /\ ReadBelow
  /\ SnapshotComplete

-----------------------------------------------------------------------------
(* The slots of the array.                                                 *)

\* A non-empty set of naturals has a least element.
LEMMA LeastNatural ==
  ASSUME NEW T, T \subseteq Nat, T # {}
  PROVE  \E x \in T : \A y \in T : x <= y
<1> DEFINE R == {ss \in Nat \X Nat : ss[1] < ss[2]}
<1>1. IsWellFoundedOn(R, Nat)
  BY NatLessThanWellFounded DEF OpToRel
<1>2. PICK x \in T : \A y \in T : ~(<<y, x>> \in R)
  <2> HIDE DEF R
  <2> QED BY <1>1, WFMin
<1>3. \A y \in T : x <= y
  <2> TAKE y \in T
  <2>1. ~(<<y, x>> \in R)
    BY <1>2
  <2>2. x \in Nat /\ y \in Nat
    OBVIOUS
  <2> QED BY <2>1, <2>2
<1> QED BY <1>3

\* The search of AddUncUsn finds the first free slot, if there is one.
LEMMA FirstFreeSlotExists ==
  ASSUME FreeSlots # {}
  PROVE  FirstFreeSlot \in FreeSlots
<1>1. FreeSlots \subseteq Nat
  BY SessionsAssumption DEF FreeSlots, Slots
<1>2. \E i \in FreeSlots : \A j \in FreeSlots : i <= j
  BY <1>1, LeastNatural
<1> QED BY <1>2 DEF FirstFreeSlot

\* The loop of dbFlushUncUsns finds a slot with the lowest USN of the array.
LEMMA LowestSlotExists ==
  ASSUME UncUsn \in [Slots -> Nat], UsedSlots # {}
  PROVE  /\ LowestSlot \in UsedSlots
         /\ \A j \in UsedSlots : UncUsn[LowestSlot] <= UncUsn[j]
<1> DEFINE U == {UncUsn[i] : i \in UsedSlots}
<1>1. U \subseteq Nat /\ U # {}
  BY DEF UsedSlots
<1>2. PICK u \in U : \A v \in U : u <= v
  <2> HIDE DEF U
  <2> QED BY <1>1, LeastNatural
<1>3. PICK i \in UsedSlots : u = UncUsn[i]
  OBVIOUS
<1>4. \A j \in UsedSlots : UncUsn[i] <= UncUsn[j]
  BY <1>2, <1>3
<1> QED BY <1>4 DEF LowestSlot

-----------------------------------------------------------------------------
(* Types.                                                                  *)

\* DBGetHighestCommittedUSN is a natural number.
LEMMA HighestCommittedType ==
  TypeInv => DBGetHighestCommittedUSN \in Nat
  BY DEF TypeInv, TypeOK, Positive, DBGetHighestCommittedUSN

\* AddUncUsn keeps the types of what it changes.
LEMMA AddUncUsnType ==
  ASSUME TypeInv, NEW t \in Threads, AddUncUsn(t, gusnEC)
  PROVE  /\ UnCommUsn' \in [Threads -> Nat]
         /\ UncUsn' \in [Slots -> Nat]
         /\ gusnLowestUncommitted' \in Nat
         /\ gusnLowestUncommitted' >= 1
         /\ \A i \in Slots : UncUsn'[i] >= 1
  BY UsnMaxAssumption DEF AddUncUsn, TypeInv, TypeOK, Positive

\* So does dbFlushUncUsns.
LEMMA FlushUncUsnsType ==
  ASSUME TypeInv, NEW t \in Threads, dbFlushUncUsns(t)
  PROVE  /\ UnCommUsn' \in [Threads -> Nat]
         /\ UncUsn' \in [Slots -> Nat]
         /\ gusnLowestUncommitted' \in Nat
         /\ gusnLowestUncommitted' >= 1
         /\ \A i \in Slots : UncUsn'[i] >= 1
<1>1. UsedSlots # {} => LowestSlot \in Slots
  BY LowestSlotExists DEF TypeInv, TypeOK, UsedSlots
<1>2. UnCommUsn' \in [Threads -> Nat]
  BY DEF dbFlushUncUsns, TypeInv, TypeOK
<1>3. /\ UncUsn \in [Slots -> Nat]
      /\ gusnLowestUncommitted \in Nat
      /\ gusnLowestUncommitted >= 1
      /\ \A i \in Slots : UncUsn[i] >= 1
      /\ USN_MAX \in Nat /\ USN_MAX >= 1
  BY UsnMaxAssumption DEF TypeInv, TypeOK, Positive
<1>4. /\ UncUsn' \in [Slots -> Nat]
      /\ gusnLowestUncommitted' \in Nat
      /\ gusnLowestUncommitted' >= 1
      /\ \A i \in Slots : UncUsn'[i] >= 1
  BY <1>1, <1>3 DEF dbFlushUncUsns
<1> QED BY <1>2, <1>4

\* Init has the types.
LEMMA InitTypeInv == Init => TypeInv
<1> SUFFICES ASSUME Init PROVE TypeInv
  OBVIOUS
<1> USE SessionsAssumption, LevelAssumption, DeltaAssumption, UsnMaxAssumption,
        IdsAssumption
<1>1. disk \in Disks /\ image \in Disks
  BY DEF Init, Disks, Writes, Ids
<1>2. TypeOK
  BY <1>1 DEF Init, TypeOK, Phases, Ids
<1> QED BY <1>2 DEF Init, TypeInv, Positive, RetireLevel

\* Every step keeps the types.
LEMMA StepTypeInv == TypeInv /\ [Next]_vars => TypeInv'
<1> SUFFICES ASSUME TypeInv, [Next]_vars PROVE TypeInv'
  OBVIOUS
<1> USE SessionsAssumption, LevelAssumption, DeltaAssumption, UsnMaxAssumption,
        IdsAssumption
<1> USE DEF TypeInv, TypeOK, Positive, RetireLevel
<1>0. DBGetHighestCommittedUSN \in Nat
  BY HighestCommittedType
<1>1. NewIds \subseteq Ids
  BY DEF NewIds
<1>2. ASSUME NEW t \in Threads, DBInitThread(t)
      PROVE  TypeInv'
  BY <1>2 DEF DBInitThread, memory, store, history, Phases
<1>3. ASSUME NEW t \in Threads, DBCloseThread(t)
      PROVE  TypeInv'
  BY <1>3, FlushUncUsnsType DEF DBCloseThread, store, history, Phases
<1>4. ASSUME NEW t \in Threads, NEW dra \in BOOLEAN, DBTransIn(t, dra)
      PROVE  TypeInv'
  <2>1. transLevel' \in [Threads -> 0 .. MaxTransLevel]
    BY <1>4 DEF DBTransIn
  <2>2. InvocationID' \in [Threads -> Ids] /\ fDRA' \in [Threads -> BOOLEAN]
    BY <1>4 DEF DBTransIn
  <2>3. \A s \in Threads : phase'[s] = "retiring" => transLevel'[s] = 1
    BY <1>4 DEF DBTransIn
  <2>4. UNCHANGED <<up, gusnEC, gusnInit, gusnLowestUncommitted, UncUsn, curId,
                    phase, UnCommUsn, pending, usnRead, snapshot, committed,
                    disk, image, issued, published>>
    BY <1>4 DEF DBTransIn, memory, store, history
  <2> QED BY <2>1, <2>2, <2>3, <2>4
<1>5. ASSUME NEW t \in Threads, DBRepl(t)
      PROVE  TypeInv'
  <2>1. AddUncUsn(t, gusnEC) /\ gusnEC' = gusnEC + 1
    BY <1>5 DEF DBRepl, DBGetNewUsn
  <2>2. disk' \in Disks /\ disk'.usn >= 1 /\ gusnInit' \in Nat
    <3>1. CASE disk' = disk /\ gusnInit' = gusnInit
      BY <3>1
    <3>2. CASE /\ disk' = [disk EXCEPT !.usn = gusnInit + USN_DELTA_INIT,
                                       !.db = committed]
               /\ gusnInit' = gusnInit + USN_DELTA_INIT
      <4>1. gusnInit + USN_DELTA_INIT \in Nat /\ gusnInit + USN_DELTA_INIT >= 1
        OBVIOUS
      <4> QED BY <3>2, <4>1 DEF Disks
    <3> QED BY <1>5, <3>1, <3>2 DEF DBRepl, DBGetNewUsn, DBReplaceHiddenUSN
  <2>3. pending' \in [Threads -> [Levels -> SUBSET Writes]]
    <3> DEFINE w == <<IF fDRA[t] THEN Remote ELSE InvocationID[t], gusnEC>>
    <3>1. w \in Writes
      BY DEF Writes
    <3>2. pending' = [pending EXCEPT ![t][transLevel[t]] = @ \cup {w}]
      BY <1>5 DEF DBRepl
    <3> HIDE DEF w
    <3>3. transLevel[t] \in Levels
      BY <1>5 DEF DBRepl, Levels
    <3> QED BY <3>1, <3>2, <3>3
  <2>4. issued' \in SUBSET Writes
    BY <1>5 DEF DBRepl, Writes
  <2> QED BY <1>5, <2>1, <2>2, <2>3, <2>4, AddUncUsnType DEF DBRepl
<1>6. ASSUME NEW t \in Threads, NEW fCommit \in BOOLEAN, DBTransOutNested(t, fCommit)
      PROVE  TypeInv'
  <2>1. pending' \in [Threads -> [Levels -> SUBSET Writes]]
    <3> DEFINE l == transLevel[t]
               q == IF fCommit THEN pending[t][l - 1] \cup pending[t][l]
                               ELSE pending[t][l - 1]
    <3>1. l \in Levels /\ l - 1 \in Levels /\ l # l - 1
      BY <1>6 DEF DBTransOutNested, Levels
    <3>2. q \in SUBSET Writes
      BY <3>1
    <3>3. pending' = [pending EXCEPT ![t] = [@ EXCEPT ![l] = {}, ![l - 1] = q]]
      BY <1>6, <3>1 DEF DBTransOutNested
    <3> HIDE DEF l, q
    <3> QED BY <3>1, <3>2, <3>3
  <2>2. transLevel' \in [Threads -> 0 .. MaxTransLevel]
    BY <1>6 DEF DBTransOutNested
  <2>3. \A s \in Threads : phase'[s] = "retiring" => transLevel'[s] = 1
    BY <1>6 DEF DBTransOutNested
  <2>4. UNCHANGED <<up, gusnEC, gusnInit, gusnLowestUncommitted, UncUsn, curId,
                    phase, fDRA, InvocationID, UnCommUsn, usnRead, snapshot,
                    committed, disk, image, issued, published>>
    BY <1>6 DEF DBTransOutNested, memory, store, history
  <2> QED BY <2>1, <2>2, <2>3, <2>4
<1>7. ASSUME NEW t \in Threads, NEW fCommit \in BOOLEAN,
             NEW fLazy \in BOOLEAN, DBTransOut(t, fCommit, fLazy)
      PROVE  TypeInv'
  <2>1. committed' \in SUBSET Writes
    <3>1. 1 \in Levels
      BY DEF Levels
    <3>2. pending[t][1] \in SUBSET Writes
      BY <3>1
    <3> QED BY <1>7, <3>2 DEF DBTransOut, JetCommit
  <2>2. disk' \in Disks /\ disk'.usn >= 1
    BY <1>7, <2>1 DEF DBTransOut, Disks
  <2>3. pending' \in [Threads -> [Levels -> SUBSET Writes]]
    BY <1>7 DEF DBTransOut
  <2> QED BY <1>7, <2>1, <2>2, <2>3 DEF DBTransOut, memory, history, Phases
<1>8. ASSUME NEW t \in Threads, FlushUncUsns(t)
      PROVE  TypeInv'
  BY <1>8, FlushUncUsnsType DEF FlushUncUsns, store, history, Phases
<1>9. ASSUME NEW t \in Threads, GetNCChangesMark(t)
      PROVE  TypeInv'
  BY <1>9, <1>0 DEF GetNCChangesMark, memory, store, history, Phases
<1>10. ASSUME NEW t \in Threads, GetNCChangesBegin(t)
      PROVE  TypeInv'
  <2>1. disk' \in Disks /\ disk'.usn >= 1
    BY <1>10 DEF GetNCChangesBegin, Disks
  <2> QED BY <1>10, <2>1 DEF GetNCChangesBegin, memory, history, Phases
<1>11. ASSUME NEW t \in Threads, GetNCChangesEnd(t)
      PROVE  TypeInv'
  BY <1>11 DEF GetNCChangesEnd, memory, store, Phases
<1>12. ASSUME NEW t \in Threads, BackupMark(t)
      PROVE  TypeInv'
  BY <1>12, <1>0 DEF BackupMark, memory, store, history, Phases
<1>13. ASSUME NEW t \in Threads, DBReplaceHiddenTableBackupCols(t)
      PROVE  TypeInv'
  <2>1. disk' \in Disks /\ disk'.usn >= 1
    BY <1>13 DEF DBReplaceHiddenTableBackupCols, Disks
  <2> QED BY <1>13, <2>1 DEF DBReplaceHiddenTableBackupCols, memory, history, Phases
<1>14. ASSUME NEW t \in Threads, NEW id \in NewIds, RetireBegin(t, id)
      PROVE  TypeInv'
  BY <1>14, <1>0, <1>1 DEF RetireBegin, memory, store, history, Phases
<1>15. ASSUME NEW t \in Threads, NEW fCommit \in BOOLEAN, RetireOut(t, fCommit)
      PROVE  TypeInv'
  <2>1. committed' \in SUBSET Writes
    <3>1. 1 \in Levels
      BY DEF Levels
    <3>2. pending[t][1] \in SUBSET Writes
      BY <3>1
    <3> QED BY <1>15, <3>2 DEF RetireOut, JetCommit
  <2>2. disk' \in Disks /\ disk'.usn >= 1
    <3>1. CASE disk' = disk
      BY <3>1
    <3>2. CASE disk' = [disk EXCEPT !.db = committed', !.id = InvocationID[t],
                                    !.retired[disk.id] = usnRead[t]]
      <4>1. [disk.retired EXCEPT ![disk.id] = usnRead[t]] \in [Ids -> Nat]
        BY DEF Disks
      <4> QED BY <3>2, <4>1, <2>1 DEF Disks
    <3> QED BY <1>15, <3>1, <3>2 DEF RetireOut
  <2>3. pending' \in [Threads -> [Levels -> SUBSET Writes]]
    BY <1>15 DEF RetireOut
  <2> QED BY <1>15, <2>1, <2>2, <2>3 DEF RetireOut, memory, history, Phases
<1>16. CASE JetFlushLog
  <2>1. disk' \in Disks /\ disk'.usn >= 1
    BY <1>16 DEF JetFlushLog, Disks
  <2> QED BY <1>16, <2>1 DEF JetFlushLog, memory, threads, history
<1>17. CASE BackupCopy
  BY <1>17 DEF BackupCopy, memory, threads, history
<1>18. CASE Crash
  <2>1. disk.id \in Ids /\ disk.db \in SUBSET Writes
    BY DEF Disks
  <2> QED BY <1>18, <2>1 DEF Crash, IdleThreads, memory, history, Phases
<1>19. CASE Restore
  <2>1. disk' \in Disks /\ disk'.usn >= 1 /\ disk'.id \in Ids /\ image.db \in SUBSET Writes
    BY <1>19 DEF Restore, Disks
  <2> QED BY <1>19, <2>1 DEF Restore, IdleThreads, memory, history, Phases
<1>20. CASE InitDSAInfo
  <2>1. disk' \in Disks /\ disk'.usn >= 1 /\ disk.usn \in Nat /\ disk.id \in Ids
    <3>1. disk.usn \in Nat /\ disk.usn + USN_DELTA_INIT \in Nat
          /\ disk.usn + USN_DELTA_INIT >= 1
      BY DEF Disks
    <3>2. disk' = [disk EXCEPT !.usn = disk.usn + USN_DELTA_INIT, !.db = committed]
      BY <1>20 DEF InitDSAInfo, DBReplaceHiddenUSN
    <3> QED BY <3>1, <3>2 DEF Disks
  <2> QED BY <1>20, <2>1 DEF InitDSAInfo, threads, history
<1>21. ASSUME NEW id \in NewIds, HandleRestore(id)
      PROVE  TypeInv'
  <2>1. issued' \in SUBSET Writes /\ committed' \in SUBSET Writes
    BY <1>21, <1>1 DEF HandleRestore, Writes
  <2>2. disk' \in Disks /\ disk'.usn >= 1
    BY <1>21, <1>1, <2>1 DEF HandleRestore, Disks
  <2> QED BY <1>21, <1>1, <2>1, <2>2 DEF HandleRestore, threads
<1>22. CASE UNCHANGED vars
  BY <1>22 DEF vars, memory, threads, store, history
<1> QED
  BY <1>2, <1>3, <1>4, <1>5, <1>6, <1>7, <1>8, <1>9, <1>10, <1>11, <1>12, <1>13, <1>14, <1>15, <1>16, <1>17, <1>18, <1>19, <1>20, <1>21, <1>22 DEF Next, ThreadNext

\* Usn is type-correct: every USN the allocator hands to a reader or stores is
\* a natural number, every thread stays within its nesting depth, and every id
\* is one that was generated.
THEOREM TypeCorrect == Spec => []TypeOK
<1>1. TypeInv => TypeOK
  BY DEF TypeInv
<1> QED BY InitTypeInv, StepTypeInv, <1>1, PTL DEF Spec

-----------------------------------------------------------------------------
(* The allocator.                                                          *)

\* A thread in a session that holds no uncommitted USN finds a free slot: the
\* slots in use belong to different threads, and there are no more threads in
\* a session than slots (the Assert of AddUncUsn).
LEMMA FreeSlotExists ==
  ASSUME UsnInv, up # "down", NEW t \in Threads,
         phase[t] # "closed", UnCommUsn[t] = 0
  PROVE  FreeSlots # {}
<1> SUFFICES ASSUME FreeSlots = {} PROVE FALSE
  OBVIOUS
<1> DEFINE T == InSession \ {t}
           f == [i \in Slots |-> CHOOSE s \in Threads : UnCommUsn[s] = UncUsn[i]]
<1>1. IsFiniteSet(InSession) /\ t \in InSession
  BY ThreadsAssumption, FS_Subset DEF InSession
<1>2. /\ IsFiniteSet(T) /\ Cardinality(T) = Cardinality(InSession) - 1
      /\ Cardinality(InSession) \in Nat
  BY <1>1, FS_RemoveElement, FS_CardinalityType
<1>3. \A i \in Slots : /\ UncUsn[i] # USN_MAX
                       /\ \E s \in Threads : UnCommUsn[s] = UncUsn[i]
  BY DEF FreeSlots, UsnInv, SlotsOwned
<1>4. \A i \in Slots : f[i] \in Threads /\ UnCommUsn[f[i]] = UncUsn[i]
  BY <1>3
<1>5. \A i \in Slots : UncUsn[i] # 0
  BY DEF UsnInv, TypeInv, TypeOK, Positive
<1>6. \A i \in Slots : f[i] \in T
  BY <1>4, <1>5 DEF UsnInv, LowestIsLowest, InSession
<1>7. \A i, j \in Slots : f[i] = f[j] => i = j
  BY <1>3, <1>4 DEF UsnInv, SlotsOwned
<1>8. f \in Injection(Slots, T)
  BY <1>6, <1>7 DEF Injection, IsInjective
<1>9. Cardinality(Slots) <= Cardinality(T)
  <2> HIDE DEF f, T
  <2> QED BY <1>2, <1>8, FS_Injection
<1>10. Cardinality(Slots) = gcMaxJetSessions
  BY SessionsAssumption, FS_Interval DEF Slots
<1> QED BY <1>2, <1>9, <1>10, SessionsAssumption DEF UsnInv, SessionsBounded

\* DBGetHighestCommittedUSN is below every USN that is uncommitted or to come.
LEMMA HighestCommittedBelow ==
  ASSUME UsnInv, up = "up"
  PROVE  /\ DBGetHighestCommittedUSN \in Nat
         /\ DBGetHighestCommittedUSN < gusnEC
         /\ \A s \in Threads : UnCommUsn[s] # 0 =>
              DBGetHighestCommittedUSN < UnCommUsn[s]
<1>1. DBGetHighestCommittedUSN \in Nat
  BY HighestCommittedType DEF UsnInv
<1> QED
  BY <1>1, UsnMaxAssumption
  DEF UsnInv, TypeInv, TypeOK, LowestIsLowest, SlotsOwned, DBGetHighestCommittedUSN

\* AddUncUsn(t, gusnEC) keeps every uncommitted USN tracked.
LEMMA AddUncUsnInv ==
  ASSUME UsnInv, up = "up", up' = up, NEW t \in Threads, phase[t] # "closed",
         phase' = phase, gusnEC < USN_MAX, gusnEC' = gusnEC + 1,
         AddUncUsn(t, gusnEC)
  PROVE  /\ LowestIsLowest' /\ SlotsOwned' /\ UncommittedTracked'
         /\ \A s \in Threads : UnCommUsn[s] # 0 => UnCommUsn'[s] = UnCommUsn[s]
         /\ \A s \in Threads : s # t => UnCommUsn'[s] = UnCommUsn[s]
         /\ UnCommUsn[t] = 0 => UnCommUsn'[t] = gusnEC
<1>0. /\ UnCommUsn \in [Threads -> Nat] /\ UncUsn \in [Slots -> Nat]
      /\ gusnLowestUncommitted \in Nat /\ gusnEC \in Nat /\ gusnEC >= 1
      /\ USN_MAX \in Nat
  BY UsnMaxAssumption DEF UsnInv, TypeInv, TypeOK, Positive
<1>1. LowestIsLowest /\ SlotsOwned /\ UncommittedTracked
  BY DEF UsnInv
<1>2. CASE UnCommUsn[t] # 0
  <2>1. UNCHANGED <<UnCommUsn, gusnLowestUncommitted, UncUsn>>
    BY <1>2 DEF AddUncUsn
  <2>2. LowestIsLowest'
    BY <1>0, <1>1, <2>1 DEF LowestIsLowest
  <2>3. SlotsOwned'
    BY <1>0, <1>1, <2>1 DEF SlotsOwned
  <2>4. UncommittedTracked'
    BY <1>1, <2>1 DEF UncommittedTracked
  <2> QED BY <1>2, <2>1, <2>2, <2>3, <2>4
<1>3. CASE UnCommUsn[t] = 0 /\ gusnLowestUncommitted = USN_MAX
  <2>1. /\ UnCommUsn' = [UnCommUsn EXCEPT ![t] = gusnEC]
        /\ gusnLowestUncommitted' = gusnEC
        /\ UncUsn' = UncUsn
    BY <1>3 DEF AddUncUsn
  <2>2. \A i \in Slots : UncUsn[i] = USN_MAX
    BY <1>0, <1>1, <1>3 DEF SlotsOwned
  <2>3. \A s \in Threads : UnCommUsn[s] = 0
    BY <1>0, <1>1, <1>3 DEF LowestIsLowest
  <2>4. LowestIsLowest'
    BY <1>0, <1>1, <2>1, <2>3 DEF LowestIsLowest
  <2>5. SlotsOwned'
    BY <1>0, <2>1, <2>2 DEF SlotsOwned
  <2>6. UncommittedTracked'
    BY <1>0, <2>1, <2>3 DEF UncommittedTracked
  <2> QED BY <1>0, <1>3, <2>1, <2>4, <2>5, <2>6
<1>4. CASE UnCommUsn[t] = 0 /\ gusnLowestUncommitted # USN_MAX
  <2> DEFINE k == FirstFreeSlot
  <2>1. FreeSlots # {}
    BY <1>4, FreeSlotExists
  <2>2. k \in Slots /\ UncUsn[k] = USN_MAX
    BY <2>1, FirstFreeSlotExists DEF FreeSlots
  <2>3. /\ UnCommUsn' = [UnCommUsn EXCEPT ![t] = gusnEC]
        /\ UncUsn' = [UncUsn EXCEPT ![k] = gusnEC]
        /\ gusnLowestUncommitted' = gusnLowestUncommitted
    BY <1>4, <2>1 DEF AddUncUsn
  <2> HIDE DEF k
  <2>4. LowestIsLowest'
    BY <1>0, <1>1, <1>4, <2>3 DEF LowestIsLowest, SlotsOwned
  <2>5. SlotsOwned'
    <3>1. /\ gusnLowestUncommitted' < gusnEC' /\ gusnLowestUncommitted' < USN_MAX
      BY <1>0, <1>1, <1>4, <2>3 DEF SlotsOwned
    <3>2. ASSUME NEW i \in Slots, UncUsn'[i] # USN_MAX
          PROVE  /\ gusnLowestUncommitted' < UncUsn'[i]
                 /\ UncUsn'[i] < gusnEC'
                 /\ UncUsn'[i] < USN_MAX
                 /\ \E s \in Threads : UnCommUsn'[s] = UncUsn'[i]
      <4>1. CASE i = k
        <5>1. UncUsn'[i] = gusnEC /\ UnCommUsn'[t] = gusnEC
          BY <1>0, <2>2, <2>3, <4>1
        <5> QED BY <1>0, <1>1, <1>4, <2>3, <5>1 DEF SlotsOwned
      <4>2. CASE i # k
        <5>1. UncUsn'[i] = UncUsn[i]
          BY <1>0, <2>2, <2>3, <4>2
        <5>2. PICK s \in Threads : UnCommUsn[s] = UncUsn[i]
          BY <1>1, <3>2, <5>1 DEF SlotsOwned
        <5>3. s # t
          BY <1>0, <1>1, <1>4, <3>2, <5>1, <5>2 DEF SlotsOwned
        <5> QED BY <1>0, <1>1, <2>3, <3>2, <5>1, <5>2, <5>3 DEF SlotsOwned
      <4> QED BY <4>1, <4>2
    <3>3. \A i, j \in Slots : i # j /\ UncUsn'[i] # USN_MAX => UncUsn'[i] # UncUsn'[j]
      BY <1>0, <1>1, <2>2, <2>3 DEF SlotsOwned
    <3> QED BY <3>1, <3>2, <3>3 DEF SlotsOwned
  <2>6. UncommittedTracked'
    BY <1>0, <1>1, <2>2, <2>3 DEF UncommittedTracked, LowestIsLowest
  <2> QED BY <1>0, <1>4, <2>3, <2>4, <2>5, <2>6
<1> QED BY <1>2, <1>3, <1>4

\* dbFlushUncUsns(t) forgets the USN of t and no other, and the global only
\* grows.
LEMMA FlushUncUsnsInv ==
  ASSUME UsnInv, up = "up", up' = up, NEW t \in Threads, gusnEC' = gusnEC,
         \A s \in Threads : s # t => phase'[s] = phase[s],
         dbFlushUncUsns(t)
  PROVE  /\ LowestIsLowest' /\ SlotsOwned' /\ UncommittedTracked'
         /\ UnCommUsn' = [UnCommUsn EXCEPT ![t] = 0]
         /\ \/ gusnLowestUncommitted' = gusnLowestUncommitted
            \/ /\ gusnLowestUncommitted # USN_MAX
               /\ gusnLowestUncommitted < gusnLowestUncommitted'
<1>0. /\ UnCommUsn \in [Threads -> Nat] /\ UncUsn \in [Slots -> Nat]
      /\ gusnLowestUncommitted \in Nat /\ gusnEC \in Nat /\ gusnEC >= 1
      /\ USN_MAX \in Nat
  BY UsnMaxAssumption DEF UsnInv, TypeInv, TypeOK, Positive
<1>1. LowestIsLowest /\ SlotsOwned /\ UncommittedTracked
  BY DEF UsnInv
<1>2. UnCommUsn' = [UnCommUsn EXCEPT ![t] = 0]
  BY DEF dbFlushUncUsns
<1>3. CASE UnCommUsn[t] = 0
  <2>1. UNCHANGED <<UnCommUsn, gusnLowestUncommitted, UncUsn>>
    BY <1>0, <1>2, <1>3 DEF dbFlushUncUsns
  <2>2. LowestIsLowest'
    BY <1>0, <1>1, <1>3, <2>1 DEF LowestIsLowest
  <2>3. SlotsOwned'
    BY <1>0, <1>1, <2>1 DEF SlotsOwned
  <2>4. UncommittedTracked'
    BY <1>1, <2>1 DEF UncommittedTracked
  <2> QED BY <1>2, <2>1, <2>2, <2>3, <2>4
<1>4. CASE UnCommUsn[t] # 0 /\ UnCommUsn[t] = gusnLowestUncommitted /\ UsedSlots = {}
  <2>1. gusnLowestUncommitted' = USN_MAX /\ UncUsn' = UncUsn
    BY <1>4 DEF dbFlushUncUsns
  <2>2. \A i \in Slots : UncUsn[i] = USN_MAX
    BY <1>4 DEF UsedSlots, FreeSlots
  <2>3. \A s \in Threads : UnCommUsn'[s] = 0
    BY <1>0, <1>1, <1>2, <1>4, <2>2 DEF UncommittedTracked, LowestIsLowest
  <2>4. LowestIsLowest'
    BY <2>3 DEF LowestIsLowest
  <2>5. SlotsOwned'
    BY <2>1, <2>2 DEF SlotsOwned
  <2>6. UncommittedTracked'
    BY <2>3 DEF UncommittedTracked
  <2>7. gusnLowestUncommitted < USN_MAX
    BY <1>0, <1>1, <1>4 DEF LowestIsLowest
  <2> QED BY <1>0, <1>2, <2>1, <2>4, <2>5, <2>6, <2>7
<1>5. CASE UnCommUsn[t] # 0 /\ UnCommUsn[t] = gusnLowestUncommitted /\ UsedSlots # {}
  <2> DEFINE k == LowestSlot
  <2>1. /\ gusnLowestUncommitted' = UncUsn[k]
        /\ UncUsn' = [UncUsn EXCEPT ![k] = USN_MAX]
    BY <1>5 DEF dbFlushUncUsns
  <2>2. /\ k \in Slots /\ UncUsn[k] # USN_MAX
        /\ \A j \in Slots : UncUsn[j] # USN_MAX => UncUsn[k] <= UncUsn[j]
    BY <1>0, <1>5, LowestSlotExists DEF UsedSlots, FreeSlots
  <2> HIDE DEF k
  <2>3. \A s \in Threads : s # t /\ UnCommUsn[s] # 0 =>
          \E i \in Slots : UncUsn[i] = UnCommUsn[s] /\ UncUsn[i] # USN_MAX
    BY <1>0, <1>1, <1>5 DEF UncommittedTracked, LowestIsLowest
  <2>4. \A s \in Threads : s # t /\ UnCommUsn[s] # 0 => UncUsn[k] <= UnCommUsn[s]
    BY <2>2, <2>3
  <2>5. LowestIsLowest'
    BY <1>0, <1>1, <1>2, <2>1, <2>4 DEF LowestIsLowest
  <2>6. SlotsOwned'
    <3>1. gusnLowestUncommitted' < gusnEC' /\ gusnLowestUncommitted' < USN_MAX
      BY <1>0, <1>1, <2>1, <2>2 DEF SlotsOwned
    <3>2. ASSUME NEW i \in Slots, UncUsn'[i] # USN_MAX
          PROVE  /\ gusnLowestUncommitted' < UncUsn'[i]
                 /\ UncUsn'[i] < gusnEC'
                 /\ UncUsn'[i] < USN_MAX
                 /\ \E s \in Threads : UnCommUsn'[s] = UncUsn'[i]
      <4>1. i # k /\ UncUsn'[i] = UncUsn[i]
        BY <1>0, <2>1, <2>2, <3>2
      <4>2. UncUsn[k] # UncUsn[i] /\ UncUsn[k] <= UncUsn[i]
        BY <1>1, <2>2, <3>2, <4>1 DEF SlotsOwned
      <4>3. PICK s \in Threads : UnCommUsn[s] = UncUsn[i]
        BY <1>1, <3>2, <4>1 DEF SlotsOwned
      <4>4. s # t
        BY <1>0, <1>1, <1>5, <3>2, <4>1, <4>3 DEF SlotsOwned
      <4>5. UnCommUsn'[s] = UncUsn'[i]
        BY <1>0, <1>2, <4>1, <4>3, <4>4
      <4> QED BY <1>0, <1>1, <2>1, <2>2, <3>2, <4>1, <4>2, <4>5 DEF SlotsOwned
    <3>3. \A i, j \in Slots : i # j /\ UncUsn'[i] # USN_MAX => UncUsn'[i] # UncUsn'[j]
      BY <1>0, <1>1, <2>1, <2>2 DEF SlotsOwned
    <3> QED BY <3>1, <3>2, <3>3 DEF SlotsOwned
  <2>7. UncommittedTracked'
    BY <1>0, <1>2, <2>1, <2>2, <2>3 DEF UncommittedTracked
  <2>8. /\ gusnLowestUncommitted # USN_MAX
        /\ gusnLowestUncommitted < gusnLowestUncommitted'
    BY <1>0, <1>1, <2>1, <2>2 DEF SlotsOwned
  <2> QED BY <1>2, <2>5, <2>6, <2>7, <2>8
<1>6. CASE UnCommUsn[t] # 0 /\ UnCommUsn[t] # gusnLowestUncommitted
  <2>1. /\ gusnLowestUncommitted' = gusnLowestUncommitted
        /\ UncUsn' = [i \in Slots |-> IF UncUsn[i] = UnCommUsn[t]
                                      THEN USN_MAX ELSE UncUsn[i]]
    BY <1>6 DEF dbFlushUncUsns
  <2>2. LowestIsLowest'
    BY <1>0, <1>1, <1>2, <2>1 DEF LowestIsLowest
  <2>3. SlotsOwned'
    <3>1. gusnLowestUncommitted' # USN_MAX =>
            gusnLowestUncommitted' < gusnEC' /\ gusnLowestUncommitted' < USN_MAX
      BY <1>1, <2>1 DEF SlotsOwned
    <3>2. ASSUME NEW i \in Slots, UncUsn'[i] # USN_MAX
          PROVE  /\ gusnLowestUncommitted' < UncUsn'[i]
                 /\ UncUsn'[i] < gusnEC'
                 /\ UncUsn'[i] < USN_MAX
                 /\ \E s \in Threads : UnCommUsn'[s] = UncUsn'[i]
      <4>1. UncUsn'[i] = UncUsn[i] /\ UncUsn[i] # UnCommUsn[t]
        BY <2>1, <3>2
      <4>2. PICK s \in Threads : UnCommUsn[s] = UncUsn[i]
        BY <1>1, <3>2, <4>1 DEF SlotsOwned
      <4>3. UnCommUsn'[s] = UncUsn'[i]
        BY <1>0, <1>2, <4>1, <4>2
      <4> QED BY <1>1, <2>1, <3>2, <4>1, <4>3 DEF SlotsOwned
    <3>3. \A i, j \in Slots : i # j /\ UncUsn'[i] # USN_MAX => UncUsn'[i] # UncUsn'[j]
      BY <1>0, <1>1, <2>1 DEF SlotsOwned
    <3> QED BY <3>1, <3>2, <3>3 DEF SlotsOwned
  <2>4. UncommittedTracked'
    BY <1>0, <1>1, <1>2, <2>1 DEF UncommittedTracked, LowestIsLowest
  <2> QED BY <1>2, <2>1, <2>2, <2>3, <2>4
<1> QED BY <1>3, <1>4, <1>5, <1>6

\* A step that touches neither the allocator nor what is uncommitted, and
\* closes no session, keeps the allocator's part of the invariant.
LEMMA AllocatorUnchanged ==
  ASSUME UsnInv, up' = up,
         UNCHANGED <<gusnEC, gusnLowestUncommitted, UncUsn, UnCommUsn>>,
         \A s \in Threads : phase[s] # "closed" => phase'[s] # "closed"
  PROVE  LowestIsLowest' /\ SlotsOwned' /\ UncommittedTracked'
<1>1. LowestIsLowest /\ SlotsOwned /\ UncommittedTracked
  BY DEF UsnInv
<1>2. LowestIsLowest'
  BY <1>1 DEF LowestIsLowest
<1>3. SlotsOwned'
  BY <1>1 DEF SlotsOwned
<1> QED BY <1>1, <1>2, <1>3 DEF UncommittedTracked

\* A step that opens no session keeps the number of sessions within bounds.
LEMMA SessionsUnchanged ==
  ASSUME UsnInv, \A s \in Threads : phase[s] = "closed" => phase'[s] = "closed"
  PROVE  SessionsBounded'
<1>1. InSession' \subseteq InSession
  BY DEF InSession
<1>2. IsFiniteSet(InSession)
  BY ThreadsAssumption, FS_Subset DEF InSession
<1>3. /\ Cardinality(InSession') <= Cardinality(InSession)
      /\ Cardinality(InSession') \in Nat /\ Cardinality(InSession) \in Nat
  BY <1>1, <1>2, FS_Subset, FS_CardinalityType
<1> QED BY <1>3, SessionsAssumption DEF UsnInv, SessionsBounded

-----------------------------------------------------------------------------
(* The invariant is inductive.                                             *)

\* Init satisfies the invariant.
LEMMA InitUsnInv == Init => UsnInv
<1> SUFFICES ASSUME Init PROVE UsnInv
  OBVIOUS
<1>1. TypeInv
  BY InitTypeInv
<1>2. InSession = {}
  BY DEF Init, InSession
<1>3. SessionsBounded
  BY <1>2, FS_EmptySet, SessionsAssumption DEF SessionsBounded
<1>4. ThreadsIdle /\ LowestIsLowest /\ SlotsOwned /\ UncommittedTracked
  BY DEF Init, ThreadsIdle, LowestIsLowest, SlotsOwned, UncommittedTracked
<1>5. PendingCovered /\ PendingWithin /\ ReadBelow /\ SnapshotComplete
  BY DEF Init, PendingCovered, PendingWithin, ReadBelow, SnapshotComplete
<1> QED BY <1>1, <1>3, <1>4, <1>5 DEF UsnInv

\* Every step keeps the invariant.
LEMMA StepUsnInv == UsnInv /\ [Next]_vars => UsnInv'
<1> SUFFICES ASSUME UsnInv, [Next]_vars PROVE UsnInv'
  OBVIOUS
<1> USE DEF UsnInv
<1>1. TypeInv'
  BY StepTypeInv
<1>2. /\ UnCommUsn \in [Threads -> Nat] /\ gusnEC \in Nat /\ gusnEC >= 1
      /\ usnRead \in [Threads -> Nat] /\ phase \in [Threads -> Phases]
      /\ snapshot \in [Threads -> SUBSET Writes]
      /\ pending \in [Threads -> [Levels -> SUBSET Writes]]
      /\ transLevel \in [Threads -> 0 .. MaxTransLevel]
      /\ \A w \in Writes : w[2] \in Nat
  BY DEF TypeInv, TypeOK, Positive, Writes
<1>3. ASSUME NEW t \in Threads, DBInitThread(t)
      PROVE  UsnInv'
  <2>1. LowestIsLowest' /\ SlotsOwned' /\ UncommittedTracked'
    BY <1>3, <1>2, AllocatorUnchanged DEF DBInitThread, memory, store, history
  <2>2. SessionsBounded'
    <3>1. InSession' = InSession \cup {t} /\ t \notin InSession
      BY <1>3, <1>2 DEF DBInitThread, InSession
    <3>2. IsFiniteSet(InSession)
      BY ThreadsAssumption, FS_Subset DEF InSession
    <3>3. /\ Cardinality(InSession') = Cardinality(InSession) + 1
          /\ Cardinality(InSession) \in Nat
      BY <3>1, <3>2, FS_AddElement, FS_CardinalityType
    <3> QED BY <1>3, <3>3, SessionsAssumption DEF DBInitThread, SessionsBounded
  <2>3. ThreadsIdle'
    BY <1>3 DEF DBInitThread, memory, store, history, ThreadsIdle
  <2>4. PendingCovered'
    BY <1>3 DEF DBInitThread, memory, store, history, PendingCovered
  <2>5. PendingWithin'
    BY <1>3, <1>2 DEF DBInitThread, memory, store, history, PendingWithin
  <2>6. ReadBelow'
    BY <1>3, <1>2 DEF DBInitThread, memory, store, history, ReadBelow
  <2>7. SnapshotComplete'
    BY <1>3, <1>2 DEF DBInitThread, memory, store, history, SnapshotComplete
  <2> QED BY <1>1, <2>1, <2>2, <2>3, <2>4, <2>5, <2>6, <2>7
<1>4. ASSUME NEW t \in Threads, NEW dra \in BOOLEAN, DBTransIn(t, dra)
      PROVE  UsnInv'
  <2>1. LowestIsLowest' /\ SlotsOwned' /\ UncommittedTracked'
    BY <1>4, <1>2, AllocatorUnchanged DEF DBTransIn, memory, store, history
  <2>2. SessionsBounded'
    BY <1>4, <1>2, SessionsUnchanged DEF DBTransIn, memory, store, history
  <2>3. ThreadsIdle'
    BY <1>4 DEF DBTransIn, memory, store, history, ThreadsIdle
  <2>4. PendingCovered'
    BY <1>4 DEF DBTransIn, memory, store, history, PendingCovered
  <2>5. PendingWithin'
    <3>1. /\ pending' = pending /\ Levels \subseteq Nat
          /\ phase[t] \notin {"ended", "retired"}
          /\ phase'[t] \notin {"ended", "retired"}
          /\ \A s \in Threads : s # t => /\ transLevel'[s] = transLevel[s]
                                         /\ phase'[s] = phase[s]
      BY <1>4, <1>2, LevelAssumption DEF DBTransIn, Levels
    <3>2. transLevel[t] <= transLevel'[t] /\ transLevel'[t] \in Nat
      BY <1>4, <1>2 DEF DBTransIn
    <3> QED BY <1>2, <3>1, <3>2 DEF PendingWithin
  <2>6. ReadBelow'
    BY <1>4, <1>2 DEF DBTransIn, memory, store, history, ReadBelow
  <2>7. SnapshotComplete'
    BY <1>4, <1>2 DEF DBTransIn, memory, store, history, SnapshotComplete
  <2> QED BY <1>1, <2>1, <2>2, <2>3, <2>4, <2>5, <2>6, <2>7
<1>5. ASSUME NEW t \in Threads, GetNCChangesMark(t)
      PROVE  UsnInv'
  <2>1. LowestIsLowest' /\ SlotsOwned' /\ UncommittedTracked'
    BY <1>5, <1>2, AllocatorUnchanged DEF GetNCChangesMark, memory, store, history
  <2>2. SessionsBounded'
    BY <1>5, <1>2, SessionsUnchanged DEF GetNCChangesMark, memory, store, history
  <2>3. ThreadsIdle'
    BY <1>5 DEF GetNCChangesMark, memory, store, history, ThreadsIdle
  <2>4. PendingCovered'
    BY <1>5 DEF GetNCChangesMark, memory, store, history, PendingCovered
  <2>5. PendingWithin'
    BY <1>5, <1>2 DEF GetNCChangesMark, memory, store, history, PendingWithin
  <2>6. ReadBelow'
    BY <1>5, <1>2, HighestCommittedBelow DEF GetNCChangesMark, memory, store, history, ReadBelow
  <2>7. SnapshotComplete'
    BY <1>5, <1>2 DEF GetNCChangesMark, memory, store, history, SnapshotComplete
  <2> QED BY <1>1, <2>1, <2>2, <2>3, <2>4, <2>5, <2>6, <2>7
<1>6. ASSUME NEW t \in Threads, GetNCChangesBegin(t)
      PROVE  UsnInv'
  <2>1. LowestIsLowest' /\ SlotsOwned' /\ UncommittedTracked'
    BY <1>6, <1>2, AllocatorUnchanged DEF GetNCChangesBegin, memory, history
  <2>2. SessionsBounded'
    BY <1>6, <1>2, SessionsUnchanged DEF GetNCChangesBegin, memory, history
  <2>3. ThreadsIdle'
    BY <1>6 DEF GetNCChangesBegin, memory, history, ThreadsIdle
  <2>4. PendingCovered'
    BY <1>6 DEF GetNCChangesBegin, memory, history, PendingCovered
  <2>5. PendingWithin'
    BY <1>6, <1>2 DEF GetNCChangesBegin, memory, history, PendingWithin
  <2>6. ReadBelow'
    BY <1>6, <1>2 DEF GetNCChangesBegin, memory, history, ReadBelow
  <2>7. SnapshotComplete'
    BY <1>6, <1>2 DEF GetNCChangesBegin, memory, history, SnapshotComplete
  <2> QED BY <1>1, <2>1, <2>2, <2>3, <2>4, <2>5, <2>6, <2>7
<1>7. ASSUME NEW t \in Threads, GetNCChangesEnd(t)
      PROVE  UsnInv'
  <2>1. LowestIsLowest' /\ SlotsOwned' /\ UncommittedTracked'
    BY <1>7, <1>2, AllocatorUnchanged DEF GetNCChangesEnd, memory, store
  <2>2. SessionsBounded'
    BY <1>7, <1>2, SessionsUnchanged DEF GetNCChangesEnd, memory, store
  <2>3. ThreadsIdle'
    BY <1>7 DEF GetNCChangesEnd, memory, store, ThreadsIdle
  <2>4. PendingCovered'
    BY <1>7 DEF GetNCChangesEnd, memory, store, PendingCovered
  <2>5. PendingWithin'
    BY <1>7, <1>2 DEF GetNCChangesEnd, memory, store, PendingWithin
  <2>6. ReadBelow'
    BY <1>7, <1>2 DEF GetNCChangesEnd, memory, store, ReadBelow
  <2>7. SnapshotComplete'
    BY <1>7, <1>2 DEF GetNCChangesEnd, memory, store, SnapshotComplete
  <2> QED BY <1>1, <2>1, <2>2, <2>3, <2>4, <2>5, <2>6, <2>7
<1>8. ASSUME NEW t \in Threads, BackupMark(t)
      PROVE  UsnInv'
  <2>1. LowestIsLowest' /\ SlotsOwned' /\ UncommittedTracked'
    BY <1>8, <1>2, AllocatorUnchanged DEF BackupMark, memory, store, history
  <2>2. SessionsBounded'
    BY <1>8, <1>2, SessionsUnchanged DEF BackupMark, memory, store, history
  <2>3. ThreadsIdle'
    BY <1>8 DEF BackupMark, memory, store, history, ThreadsIdle
  <2>4. PendingCovered'
    BY <1>8 DEF BackupMark, memory, store, history, PendingCovered
  <2>5. PendingWithin'
    BY <1>8, <1>2 DEF BackupMark, memory, store, history, PendingWithin
  <2>6. ReadBelow'
    BY <1>8, <1>2, HighestCommittedBelow DEF BackupMark, memory, store, history, ReadBelow
  <2>7. SnapshotComplete'
    BY <1>8, <1>2 DEF BackupMark, memory, store, history, SnapshotComplete
  <2> QED BY <1>1, <2>1, <2>2, <2>3, <2>4, <2>5, <2>6, <2>7
<1>9. ASSUME NEW t \in Threads, DBReplaceHiddenTableBackupCols(t)
      PROVE  UsnInv'
  <2>1. LowestIsLowest' /\ SlotsOwned' /\ UncommittedTracked'
    BY <1>9, <1>2, AllocatorUnchanged DEF DBReplaceHiddenTableBackupCols, memory, history
  <2>2. SessionsBounded'
    BY <1>9, <1>2, SessionsUnchanged DEF DBReplaceHiddenTableBackupCols, memory, history
  <2>3. ThreadsIdle'
    BY <1>9 DEF DBReplaceHiddenTableBackupCols, memory, history, ThreadsIdle
  <2>4. PendingCovered'
    BY <1>9 DEF DBReplaceHiddenTableBackupCols, memory, history, PendingCovered
  <2>5. PendingWithin'
    BY <1>9, <1>2 DEF DBReplaceHiddenTableBackupCols, memory, history, PendingWithin
  <2>6. ReadBelow'
    BY <1>9, <1>2 DEF DBReplaceHiddenTableBackupCols, memory, history, ReadBelow
  <2>7. SnapshotComplete'
    BY <1>9, <1>2 DEF DBReplaceHiddenTableBackupCols, memory, history, SnapshotComplete
  <2> QED BY <1>1, <2>1, <2>2, <2>3, <2>4, <2>5, <2>6, <2>7
<1>10. ASSUME NEW t \in Threads, NEW id \in NewIds, RetireBegin(t, id)
      PROVE  UsnInv'
  <2>1. LowestIsLowest' /\ SlotsOwned' /\ UncommittedTracked'
    BY <1>10, <1>2, AllocatorUnchanged DEF RetireBegin, memory, store, history
  <2>2. SessionsBounded'
    BY <1>10, <1>2, SessionsUnchanged DEF RetireBegin, memory, store, history
  <2>3. ThreadsIdle'
    BY <1>10 DEF RetireBegin, memory, store, history, ThreadsIdle
  <2>4. PendingCovered'
    BY <1>10 DEF RetireBegin, memory, store, history, PendingCovered
  <2>5. PendingWithin'
    <3>1. /\ pending' = pending /\ Levels \subseteq Nat
          /\ phase[t] \notin {"ended", "retired"}
          /\ phase'[t] \notin {"ended", "retired"}
          /\ \A s \in Threads : s # t => /\ transLevel'[s] = transLevel[s]
                                         /\ phase'[s] = phase[s]
      BY <1>10, <1>2, LevelAssumption DEF RetireBegin, Levels
    <3>2. transLevel[t] <= transLevel'[t] /\ transLevel'[t] \in Nat
      BY <1>10, <1>2 DEF RetireBegin
    <3>3. \A l \in Levels : transLevel'[t] < l => pending[t][l] = {}
      BY <1>2, <3>1, <3>2 DEF PendingWithin
    <3> QED BY <3>1, <3>3 DEF PendingWithin
  <2>6. ReadBelow'
    BY <1>10, <1>2, HighestCommittedBelow DEF RetireBegin, memory, store, history, ReadBelow
  <2>7. SnapshotComplete'
    BY <1>10, <1>2 DEF RetireBegin, memory, store, history, SnapshotComplete
  <2> QED BY <1>1, <2>1, <2>2, <2>3, <2>4, <2>5, <2>6, <2>7
<1>11. ASSUME NEW t \in Threads, DBCloseThread(t)
      PROVE  UsnInv'
  <2>1. LowestIsLowest' /\ SlotsOwned' /\ UncommittedTracked'
        /\ UnCommUsn' = [UnCommUsn EXCEPT ![t] = 0]
    BY <1>11, <1>2, FlushUncUsnsInv DEF DBCloseThread
  <2>2. SessionsBounded'
    BY <1>11, <1>2, SessionsUnchanged DEF DBCloseThread, store, history
  <2>3. ThreadsIdle'
    BY <1>11 DEF DBCloseThread, store, history, ThreadsIdle
  <2>4. pending' = pending /\ \A l \in Levels : pending[t][l] = {}
    <3>1. transLevel[t] = 0 /\ pending' = pending
      BY <1>11, <1>2 DEF DBCloseThread, PendingWithin
    <3>2. \A l \in Levels : 0 < l
      BY LevelAssumption DEF Levels
    <3> QED BY <3>1, <3>2 DEF PendingWithin
  <2>5. PendingCovered'
    BY <1>11, <1>2, <2>1, <2>4 DEF DBCloseThread, store, history, PendingCovered
  <2>6. PendingWithin'
    BY <1>11, <1>2 DEF DBCloseThread, store, history, PendingWithin
  <2>7. ReadBelow'
    BY <1>11, <1>2, <2>1 DEF DBCloseThread, store, history, ReadBelow
  <2>8. SnapshotComplete'
    BY <1>11, <1>2 DEF DBCloseThread, store, history, SnapshotComplete
  <2> QED BY <1>1, <2>1, <2>2, <2>3, <2>4, <2>5, <2>6, <2>7, <2>8
<1>12. ASSUME NEW t \in Threads, FlushUncUsns(t)
      PROVE  UsnInv'
  <2>1. LowestIsLowest' /\ SlotsOwned' /\ UncommittedTracked'
        /\ UnCommUsn' = [UnCommUsn EXCEPT ![t] = 0]
    BY <1>12, <1>2, FlushUncUsnsInv DEF FlushUncUsns
  <2>2. SessionsBounded'
    BY <1>12, <1>2, SessionsUnchanged DEF FlushUncUsns, store, history
  <2>3. ThreadsIdle'
    BY <1>12 DEF FlushUncUsns, store, history, ThreadsIdle
  <2>4. pending' = pending /\ \A l \in Levels : pending[t][l] = {}
    <3>1. transLevel[t] = 0 /\ pending' = pending
      BY <1>12, <1>2 DEF FlushUncUsns, PendingWithin
    <3>2. \A l \in Levels : 0 < l
      BY LevelAssumption DEF Levels
    <3> QED BY <3>1, <3>2 DEF PendingWithin
  <2>5. PendingCovered'
    BY <1>12, <1>2, <2>1, <2>4 DEF FlushUncUsns, store, history, PendingCovered
  <2>6. PendingWithin'
    BY <1>12, <1>2 DEF FlushUncUsns, store, history, PendingWithin
  <2>7. ReadBelow'
    BY <1>12, <1>2, <2>1 DEF FlushUncUsns, store, history, ReadBelow
  <2>8. SnapshotComplete'
    BY <1>12, <1>2 DEF FlushUncUsns, store, history, SnapshotComplete
  <2> QED BY <1>1, <2>1, <2>2, <2>3, <2>4, <2>5, <2>6, <2>7, <2>8
<1>13. ASSUME NEW t \in Threads, DBRepl(t)
      PROVE  UsnInv'
  <2>1. /\ phase[t] # "closed" /\ up = "up" /\ up' = up /\ phase' = phase
        /\ gusnEC < USN_MAX /\ gusnEC' = gusnEC + 1 /\ AddUncUsn(t, gusnEC)
    BY <1>13 DEF DBRepl, DBGetNewUsn
  <2>2. /\ LowestIsLowest' /\ SlotsOwned' /\ UncommittedTracked'
        /\ \A s \in Threads : UnCommUsn[s] # 0 => UnCommUsn'[s] = UnCommUsn[s]
        /\ \A s \in Threads : s # t => UnCommUsn'[s] = UnCommUsn[s]
        /\ UnCommUsn[t] = 0 => UnCommUsn'[t] = gusnEC
    BY <2>1, AddUncUsnInv
  <2>3. SessionsBounded'
    BY <2>1, SessionsUnchanged
  <2>4. ThreadsIdle'
    BY <2>1 DEF ThreadsIdle
  <2>5. \A s \in Threads : \A l \in Levels : \A w \in pending'[s][l] :
           \/ w \in pending[s][l]
           \/ s = t /\ l = transLevel[t] /\ w[2] = gusnEC
    BY <1>13, <1>2 DEF DBRepl
  <2>6. UnCommUsn'[t] # 0 /\ UnCommUsn'[t] <= gusnEC
    BY <1>2, <2>1, <2>2 DEF LowestIsLowest
  <2>7. PendingCovered'
    <3> SUFFICES ASSUME NEW s \in Threads, NEW l \in Levels, NEW w \in pending'[s][l]
                 PROVE  /\ UnCommUsn'[s] # 0
                        /\ UnCommUsn'[s] <= w[2]
                        /\ w[2] < gusnEC'
      BY DEF PendingCovered
    <3>1. CASE w \in pending[s][l]
      <4>1. /\ UnCommUsn[s] # 0 /\ UnCommUsn[s] <= w[2] /\ w[2] < gusnEC
            /\ w[2] \in Nat
        BY <1>2, <3>1 DEF PendingCovered
      <4> QED BY <1>2, <2>1, <2>2, <4>1
    <3>2. CASE s = t /\ l = transLevel[t] /\ w[2] = gusnEC
      BY <1>2, <2>1, <2>6, <3>2
    <3> QED BY <2>5, <3>1, <3>2
  <2>8. PendingWithin'
    BY <1>13, <1>2, <2>5 DEF DBRepl, PendingWithin, Levels
  <2>9. ReadBelow'
    <3>1. usnRead' = usnRead
      BY <1>13 DEF DBRepl
    <3> QED BY <1>2, <2>1, <2>2, <3>1 DEF ReadBelow
  <2>10. SnapshotComplete'
    BY <1>13 DEF DBRepl, SnapshotComplete
  <2> QED BY <1>1, <2>1, <2>2, <2>3, <2>4, <2>5, <2>6, <2>7, <2>8, <2>9, <2>10
<1>14. ASSUME NEW t \in Threads, NEW fCommit \in BOOLEAN, DBTransOutNested(t, fCommit)
      PROVE  UsnInv'
  <2>1. LowestIsLowest' /\ SlotsOwned' /\ UncommittedTracked'
    BY <1>14, AllocatorUnchanged DEF DBTransOutNested, memory
  <2>2. SessionsBounded'
    BY <1>14, SessionsUnchanged DEF DBTransOutNested
  <2>3. ThreadsIdle'
    BY <1>14 DEF DBTransOutNested, ThreadsIdle
  <2>4. /\ transLevel[t] \in Levels /\ transLevel[t] - 1 \in Levels
        /\ transLevel[t] # transLevel[t] - 1
    BY <1>14, <1>2, LevelAssumption DEF DBTransOutNested, Levels
  <2>5. /\ pending'[t][transLevel[t]] = {}
        /\ \A s \in Threads : \A l \in Levels : \A w \in pending'[s][l] :
             \E k \in Levels : w \in pending[s][k]
        /\ \A s \in Threads : \A l \in Levels :
             s # t \/ l > transLevel[t] => pending'[s][l] = pending[s][l]
    <3> DEFINE l == transLevel[t]
               q == IF fCommit THEN pending[t][l - 1] \cup pending[t][l]
                               ELSE pending[t][l - 1]
    <3>1. pending' = [pending EXCEPT ![t] = [@ EXCEPT ![l] = {}, ![l - 1] = q]]
      BY <1>14, <1>2, <2>4 DEF DBTransOutNested
    <3>2. \A w \in q : \E k \in Levels : w \in pending[t][k]
      BY <2>4
    <3>3. l \in Levels /\ l - 1 \in Levels /\ l # l - 1 /\ Levels \subseteq Nat
      BY <2>4, LevelAssumption DEF Levels
    <3> HIDE DEF l, q
    <3>4. pending'[t][l] = {}
      BY <1>2, <3>1, <3>3
    <3>5. \A s \in Threads : \A m \in Levels : \A w \in pending'[s][m] :
             \E k \in Levels : w \in pending[s][k]
      BY <1>2, <3>1, <3>2, <3>3
    <3>6. \A s \in Threads : \A m \in Levels :
             s # t \/ m > l => pending'[s][m] = pending[s][m]
      BY <1>2, <3>1, <3>3
    <3> QED BY <3>4, <3>5, <3>6 DEF l
  <2>6. PendingCovered'
    <3>1. UnCommUsn' = UnCommUsn /\ gusnEC' = gusnEC
      BY <1>14 DEF DBTransOutNested, memory
    <3> QED BY <2>5, <3>1 DEF PendingCovered
  <2>7. PendingWithin'
    <3>1. transLevel' = [transLevel EXCEPT ![t] = @ - 1] /\ phase' = phase
      BY <1>14 DEF DBTransOutNested
    <3>2. phase[t] = "open" /\ Levels \subseteq Nat
      BY <1>14, LevelAssumption DEF DBTransOutNested, Levels
    <3>3. \A l \in Levels : transLevel[t] - 1 < l => pending'[t][l] = {}
      <4>1. \A l \in Levels : transLevel[t] - 1 < l => l = transLevel[t] \/ l > transLevel[t]
        BY <1>2, <2>4, <3>2
      <4>2. \A l \in Levels : l > transLevel[t] => pending'[t][l] = {}
        BY <2>5 DEF PendingWithin
      <4> QED BY <2>5, <4>1, <4>2
    <3> QED BY <1>2, <2>5, <3>1, <3>2, <3>3 DEF PendingWithin
  <2>8. ReadBelow'
    BY <1>14 DEF DBTransOutNested, memory, ReadBelow
  <2>9. SnapshotComplete'
    BY <1>14 DEF DBTransOutNested, store, SnapshotComplete
  <2> QED BY <1>1, <2>1, <2>2, <2>3, <2>4, <2>5, <2>6, <2>7, <2>8, <2>9
<1>15. ASSUME NEW t \in Threads, NEW fCommit \in BOOLEAN,
             NEW fLazy \in BOOLEAN, DBTransOut(t, fCommit, fLazy)
      PROVE  UsnInv'
  <2>1. LowestIsLowest' /\ SlotsOwned' /\ UncommittedTracked'
    BY <1>15, <1>2, AllocatorUnchanged DEF DBTransOut, memory
  <2>2. SessionsBounded'
    BY <1>15, <1>2, SessionsUnchanged DEF DBTransOut
  <2>3. ThreadsIdle'
    BY <1>15 DEF DBTransOut, ThreadsIdle
  <2>4. 1 \in Levels /\ Levels \subseteq Nat
    BY LevelAssumption DEF Levels
  <2>5. /\ pending'[t][1] = {}
        /\ \A s \in Threads : \A l \in Levels : pending'[s][l] \subseteq pending[s][l]
    BY <1>15, <1>2, <2>4 DEF DBTransOut
  <2>6. PendingCovered'
    BY <1>15, <2>5 DEF DBTransOut, memory, PendingCovered
  <2>7. transLevel[t] = 1 /\ transLevel'[t] = 0
    BY <1>15, <1>2 DEF DBTransOut, TypeInv, RetireLevel
  <2>8. PendingWithin'
    <3>1. \A l \in Levels : pending'[t][l] = {}
      <4>1. \A l \in Levels : l = 1 \/ transLevel[t] < l
        BY <2>4, <2>7 DEF Levels
      <4> QED BY <2>5, <4>1 DEF PendingWithin
    <3>2. \A s \in Threads : s # t => /\ transLevel'[s] = transLevel[s]
                                      /\ phase'[s] = phase[s]
      BY <1>15, <1>2 DEF DBTransOut
    <3> QED BY <2>5, <2>7, <3>1, <3>2 DEF PendingWithin
  <2>9. ReadBelow'
    BY <1>15 DEF DBTransOut, memory, ReadBelow
  <2>10. \A w \in committed' : w \in committed \/ w \in pending[t][1]
    BY <1>15 DEF DBTransOut, JetCommit
  <2>11. SnapshotComplete'
    <3> SUFFICES ASSUME NEW s \in Threads, phase'[s] = "scan", NEW w \in committed',
                        w[2] < 1 + usnRead'[s]
                 PROVE  w \in snapshot'[s]
      BY DEF SnapshotComplete
    <3>1. phase[s] = "scan" /\ usnRead' = usnRead /\ snapshot' = snapshot
      BY <1>15, <1>2 DEF DBTransOut
    <3>2. CASE w \in committed
      BY <3>1, <3>2 DEF SnapshotComplete
    <3>3. CASE w \in pending[t][1]
      <4>1. /\ UnCommUsn[t] # 0 /\ UnCommUsn[t] <= w[2]
            /\ w[2] \in Nat
        BY <1>2, <2>4, <3>3 DEF PendingCovered
      <4> QED BY <1>2, <3>1, <4>1 DEF ReadBelow
    <3> QED BY <2>10, <3>2, <3>3
  <2> QED BY <1>1, <2>1, <2>2, <2>3, <2>4, <2>5, <2>6, <2>7, <2>8, <2>9, <2>10, <2>11
<1>16. ASSUME NEW t \in Threads, NEW fCommit \in BOOLEAN, RetireOut(t, fCommit)
      PROVE  UsnInv'
  <2>1. LowestIsLowest' /\ SlotsOwned' /\ UncommittedTracked'
    BY <1>16, <1>2, AllocatorUnchanged DEF RetireOut, memory
  <2>2. SessionsBounded'
    BY <1>16, <1>2, SessionsUnchanged DEF RetireOut
  <2>3. ThreadsIdle'
    BY <1>16 DEF RetireOut, ThreadsIdle
  <2>4. 1 \in Levels /\ Levels \subseteq Nat
    BY LevelAssumption DEF Levels
  <2>5. /\ pending'[t][1] = {}
        /\ \A s \in Threads : \A l \in Levels : pending'[s][l] \subseteq pending[s][l]
    BY <1>16, <1>2, <2>4 DEF RetireOut
  <2>6. PendingCovered'
    BY <1>16, <2>5 DEF RetireOut, memory, PendingCovered
  <2>7. transLevel[t] = 1 /\ transLevel'[t] = 0
    BY <1>16, <1>2 DEF RetireOut, TypeInv, RetireLevel
  <2>8. PendingWithin'
    <3>1. \A l \in Levels : pending'[t][l] = {}
      <4>1. \A l \in Levels : l = 1 \/ transLevel[t] < l
        BY <2>4, <2>7 DEF Levels
      <4> QED BY <2>5, <4>1 DEF PendingWithin
    <3>2. \A s \in Threads : s # t => /\ transLevel'[s] = transLevel[s]
                                      /\ phase'[s] = phase[s]
      BY <1>16, <1>2 DEF RetireOut
    <3> QED BY <2>5, <2>7, <3>1, <3>2 DEF PendingWithin
  <2>9. ReadBelow'
    BY <1>16 DEF RetireOut, memory, ReadBelow
  <2>10. \A w \in committed' : w \in committed \/ w \in pending[t][1]
    BY <1>16 DEF RetireOut, JetCommit
  <2>11. SnapshotComplete'
    <3> SUFFICES ASSUME NEW s \in Threads, phase'[s] = "scan", NEW w \in committed',
                        w[2] < 1 + usnRead'[s]
                 PROVE  w \in snapshot'[s]
      BY DEF SnapshotComplete
    <3>1. phase[s] = "scan" /\ usnRead' = usnRead /\ snapshot' = snapshot
      BY <1>16, <1>2 DEF RetireOut
    <3>2. CASE w \in committed
      BY <3>1, <3>2 DEF SnapshotComplete
    <3>3. CASE w \in pending[t][1]
      <4>1. /\ UnCommUsn[t] # 0 /\ UnCommUsn[t] <= w[2]
            /\ w[2] \in Nat
        BY <1>2, <2>4, <3>3 DEF PendingCovered
      <4> QED BY <1>2, <3>1, <4>1 DEF ReadBelow
    <3> QED BY <2>10, <3>2, <3>3
  <2> QED BY <1>1, <2>1, <2>2, <2>3, <2>4, <2>5, <2>6, <2>7, <2>8, <2>9, <2>10, <2>11
<1>17. CASE JetFlushLog
  <2>1. LowestIsLowest' /\ SlotsOwned' /\ UncommittedTracked'
    BY <1>17, AllocatorUnchanged DEF JetFlushLog, memory, threads
  <2>2. SessionsBounded'
    BY <1>17, SessionsUnchanged DEF JetFlushLog, memory, threads
  <2>3. /\ ThreadsIdle' /\ PendingCovered' /\ PendingWithin' /\ ReadBelow'
        /\ SnapshotComplete'
    BY <1>17 DEF JetFlushLog, memory, threads,
           ThreadsIdle, PendingCovered, PendingWithin, ReadBelow, SnapshotComplete
  <2> QED BY <1>1, <2>1, <2>2, <2>3
<1>18. CASE BackupCopy
  <2>1. LowestIsLowest' /\ SlotsOwned' /\ UncommittedTracked'
    BY <1>18, AllocatorUnchanged DEF BackupCopy, memory, threads
  <2>2. SessionsBounded'
    BY <1>18, SessionsUnchanged DEF BackupCopy, memory, threads
  <2>3. /\ ThreadsIdle' /\ PendingCovered' /\ PendingWithin' /\ ReadBelow'
        /\ SnapshotComplete'
    BY <1>18 DEF BackupCopy, memory, threads,
           ThreadsIdle, PendingCovered, PendingWithin, ReadBelow, SnapshotComplete
  <2> QED BY <1>1, <2>1, <2>2, <2>3
<1>19. CASE Crash
  <2>1. /\ \A t \in Threads :
            /\ phase'[t] = "closed" /\ UnCommUsn'[t] = 0 /\ usnRead'[t] = 0
            /\ \A l \in Levels : pending'[t][l] = {}
        /\ gusnEC' >= 1
    BY <1>19, <1>1, <1>2 DEF Crash, IdleThreads, memory, TypeInv, Positive, ThreadsIdle
  <2>2. LowestIsLowest' /\ UncommittedTracked'
    BY <2>1 DEF LowestIsLowest, UncommittedTracked
  <2>3. SlotsOwned'
    BY <1>19, <1>2 DEF Crash, SlotsOwned
  <2>4. SessionsBounded'
    <3>1. InSession' = {}
      BY <2>1 DEF InSession
    <3> QED BY <3>1, FS_EmptySet, SessionsAssumption DEF SessionsBounded
  <2>5. ThreadsIdle' /\ PendingCovered' /\ PendingWithin'
    BY <2>1 DEF ThreadsIdle, PendingCovered, PendingWithin
  <2>6. ReadBelow' /\ SnapshotComplete'
    BY <1>1, <2>1 DEF TypeInv, TypeOK, ReadBelow, SnapshotComplete
  <2> QED BY <1>1, <2>1, <2>2, <2>3, <2>4, <2>5, <2>6
<1>20. CASE Restore
  <2>1. /\ \A t \in Threads :
            /\ phase'[t] = "closed" /\ UnCommUsn'[t] = 0 /\ usnRead'[t] = 0
            /\ \A l \in Levels : pending'[t][l] = {}
        /\ gusnEC' >= 1
    BY <1>20, <1>1, <1>2 DEF Restore, IdleThreads, memory, TypeInv, Positive, ThreadsIdle
  <2>2. LowestIsLowest' /\ UncommittedTracked'
    BY <2>1 DEF LowestIsLowest, UncommittedTracked
  <2>3. SlotsOwned'
    BY <1>20, <1>2 DEF Restore, SlotsOwned
  <2>4. SessionsBounded'
    <3>1. InSession' = {}
      BY <2>1 DEF InSession
    <3> QED BY <3>1, FS_EmptySet, SessionsAssumption DEF SessionsBounded
  <2>5. ThreadsIdle' /\ PendingCovered' /\ PendingWithin'
    BY <2>1 DEF ThreadsIdle, PendingCovered, PendingWithin
  <2>6. ReadBelow' /\ SnapshotComplete'
    BY <1>1, <2>1 DEF TypeInv, TypeOK, ReadBelow, SnapshotComplete
  <2> QED BY <1>1, <2>1, <2>2, <2>3, <2>4, <2>5, <2>6
<1>21. CASE InitDSAInfo
  <2>1. /\ \A t \in Threads :
            /\ phase'[t] = "closed" /\ UnCommUsn'[t] = 0 /\ usnRead'[t] = 0
            /\ \A l \in Levels : pending'[t][l] = {}
        /\ gusnEC' >= 1
    BY <1>21, <1>1, <1>2 DEF InitDSAInfo, threads, TypeInv, Positive, ThreadsIdle
  <2>2. LowestIsLowest' /\ UncommittedTracked'
    BY <2>1 DEF LowestIsLowest, UncommittedTracked
  <2>3. SlotsOwned'
    BY <1>21, <1>2 DEF InitDSAInfo, SlotsOwned
  <2>4. SessionsBounded'
    <3>1. InSession' = {}
      BY <2>1 DEF InSession
    <3> QED BY <3>1, FS_EmptySet, SessionsAssumption DEF SessionsBounded
  <2>5. ThreadsIdle' /\ PendingCovered' /\ PendingWithin'
    BY <2>1 DEF ThreadsIdle, PendingCovered, PendingWithin
  <2>6. ReadBelow' /\ SnapshotComplete'
    BY <1>1, <2>1 DEF TypeInv, TypeOK, ReadBelow, SnapshotComplete
  <2> QED BY <1>1, <2>1, <2>2, <2>3, <2>4, <2>5, <2>6
<1>22. ASSUME NEW id \in NewIds, HandleRestore(id)
      PROVE  UsnInv'
  <2>1. /\ \A t \in Threads :
            /\ phase'[t] = "closed" /\ UnCommUsn'[t] = 0 /\ usnRead'[t] = 0
            /\ \A l \in Levels : pending'[t][l] = {}
        /\ gusnEC' >= 1
    BY <1>22, <1>1, <1>2 DEF HandleRestore, threads, TypeInv, Positive, ThreadsIdle
  <2>2. LowestIsLowest' /\ UncommittedTracked'
    BY <2>1 DEF LowestIsLowest, UncommittedTracked
  <2>3. SlotsOwned'
    <3>1. /\ UNCHANGED <<gusnLowestUncommitted, UncUsn, UnCommUsn>>
          /\ gusnEC' = gusnEC + 1 /\ up # "down"
      BY <1>22 DEF HandleRestore, threads
    <3>2. gusnLowestUncommitted \in Nat /\ UncUsn \in [Slots -> Nat]
      BY DEF TypeInv, TypeOK
    <3> QED BY <1>2, <3>1, <3>2 DEF SlotsOwned
  <2>4. SessionsBounded'
    <3>1. InSession' = {}
      BY <2>1 DEF InSession
    <3> QED BY <3>1, FS_EmptySet, SessionsAssumption DEF SessionsBounded
  <2>5. ThreadsIdle' /\ PendingCovered' /\ PendingWithin'
    BY <2>1 DEF ThreadsIdle, PendingCovered, PendingWithin
  <2>6. ReadBelow' /\ SnapshotComplete'
    BY <1>1, <2>1 DEF TypeInv, TypeOK, ReadBelow, SnapshotComplete
  <2> QED BY <1>1, <2>1, <2>2, <2>3, <2>4, <2>5, <2>6
<1>23. CASE UNCHANGED vars
  <2>1. UNCHANGED <<up, gusnEC, gusnLowestUncommitted, UncUsn, UnCommUsn, phase,
                 pending, transLevel, usnRead, snapshot, committed>>
    BY <1>23 DEF vars, memory, threads, store
  <2>2. LowestIsLowest' /\ SlotsOwned' /\ UncommittedTracked' /\ SessionsBounded'
    BY <2>1, AllocatorUnchanged, SessionsUnchanged
  <2>3. /\ ThreadsIdle' /\ PendingCovered' /\ PendingWithin' /\ ReadBelow'
        /\ SnapshotComplete'
    BY <2>1
    DEF ThreadsIdle, PendingCovered, PendingWithin, ReadBelow, SnapshotComplete
  <2> QED BY <1>1, <2>1, <2>2, <2>3
<1> QED
  BY <1>3, <1>4, <1>5, <1>6, <1>7, <1>8, <1>9, <1>10, <1>11, <1>12, <1>13,
     <1>14, <1>15, <1>16, <1>17, <1>18, <1>19, <1>20, <1>21, <1>22,
     <1>23
  DEF Next, ThreadNext

\* The invariant holds in every reachable state.
THEOREM UsnInvariant == Spec => []UsnInv
  BY InitUsnInv, StepUsnInv, PTL DEF Spec

-----------------------------------------------------------------------------
(* What the invariant is for.                                              *)

\* Whatever transactions are open while DRA_GetNCChanges takes usnLowestC and
\* then opens its read transaction, it sees every write below usnLowestC that
\* will ever be visible.
THEOREM SnapshotIsComplete == Spec => []SnapshotComplete
<1>1. UsnInv => SnapshotComplete
  BY DEF UsnInv
<1> QED BY UsnInvariant, <1>1, PTL

\* The array always has room for another thread's uncommitted USN and the
\* promotion of dbFlushUncUsns loses none.
THEOREM UncommittedAreTracked == Spec => []UncommittedTracked
<1>1. UsnInv => UncommittedTracked
  BY DEF UsnInv
<1> QED BY UsnInvariant, <1>1, PTL

\* No transaction that is still open can commit a write at or below a USN that
\* a reader has been told is committed.
THEOREM NothingEverCommitsBelow == Spec => []NothingCommitsBelow
<1>1. UsnInv => NothingCommitsBelow
  <2> SUFFICES ASSUME UsnInv, NEW t \in Threads, NEW s \in Threads,
                      NEW l \in Levels, NEW w \in pending[s][l]
               PROVE  usnRead[t] < w[2]
    BY DEF NothingCommitsBelow
  <2>1. /\ usnRead[t] \in Nat /\ UnCommUsn[s] \in Nat /\ w[2] \in Nat
    BY DEF UsnInv, TypeInv, TypeOK, Writes
  <2>2. UnCommUsn[s] # 0 /\ UnCommUsn[s] <= w[2]
    BY DEF UsnInv, PendingCovered
  <2>3. usnRead[t] < UnCommUsn[s]
    BY <2>2 DEF UsnInv, ReadBelow
  <2> QED BY <2>1, <2>2, <2>3
<1> QED BY UsnInvariant, <1>1, PTL

\* DBGetHighestCommittedUSN never goes back while the server is up.
THEOREM HighestCommittedIsMonotone == Spec => HighestCommittedMonotone
<1> DEFINE Mono == (up = "up" /\ up' = "up") =>
                     DBGetHighestCommittedUSN <= DBGetHighestCommittedUSN'
<1>1. UsnInv /\ [Next]_vars => [Mono]_vars
  <2> SUFFICES ASSUME UsnInv, Next, up = "up", up' = "up"
               PROVE  DBGetHighestCommittedUSN <= DBGetHighestCommittedUSN'
    OBVIOUS
  <2>1. /\ gusnEC \in Nat /\ gusnLowestUncommitted \in Nat /\ USN_MAX \in Nat
        /\ gusnLowestUncommitted # USN_MAX => gusnLowestUncommitted < gusnEC
    BY UsnMaxAssumption DEF UsnInv, TypeInv, TypeOK, SlotsOwned
  <2>2. CASE UNCHANGED <<gusnEC, gusnLowestUncommitted>>
    BY <2>1, <2>2 DEF DBGetHighestCommittedUSN
  <2>3. ASSUME NEW t \in Threads, DBRepl(t)
        PROVE  DBGetHighestCommittedUSN <= DBGetHighestCommittedUSN'
    <3>1. /\ gusnEC' = gusnEC + 1
          /\ \/ gusnLowestUncommitted' = gusnLowestUncommitted
             \/ gusnLowestUncommitted = USN_MAX /\ gusnLowestUncommitted' = gusnEC
      BY <2>3 DEF DBRepl, DBGetNewUsn, AddUncUsn
    <3> QED BY <2>1, <3>1 DEF DBGetHighestCommittedUSN
  <2>4. ASSUME NEW t \in Threads, DBCloseThread(t) \/ FlushUncUsns(t)
        PROVE  DBGetHighestCommittedUSN <= DBGetHighestCommittedUSN'
    <3>1. /\ gusnEC' = gusnEC /\ dbFlushUncUsns(t) /\ up' = up
          /\ \A s \in Threads : s # t => phase'[s] = phase[s]
      BY <2>4 DEF DBCloseThread, FlushUncUsns, UsnInv, TypeInv, TypeOK
    <3>2. \/ gusnLowestUncommitted' = gusnLowestUncommitted
          \/ /\ gusnLowestUncommitted # USN_MAX
             /\ gusnLowestUncommitted < gusnLowestUncommitted'
      BY <3>1, FlushUncUsnsInv
    <3>3. gusnLowestUncommitted' \in Nat
      BY StepTypeInv DEF UsnInv, TypeInv, TypeOK
    <3>4. gusnEC' = gusnEC
      BY <3>1
    <3>5. CASE gusnLowestUncommitted' = gusnLowestUncommitted
      BY <2>1, <3>4, <3>5 DEF DBGetHighestCommittedUSN
    <3>6. CASE /\ gusnLowestUncommitted # USN_MAX
               /\ gusnLowestUncommitted < gusnLowestUncommitted'
      <4>1. /\ DBGetHighestCommittedUSN = gusnLowestUncommitted - 1
            /\ gusnLowestUncommitted < gusnEC
        BY <2>1, <3>6 DEF DBGetHighestCommittedUSN
      <4>2. CASE gusnLowestUncommitted' = USN_MAX
        <5>1. DBGetHighestCommittedUSN' = gusnEC - 1
          BY <3>4, <4>2 DEF DBGetHighestCommittedUSN
        <5> QED BY <2>1, <4>1, <5>1
      <4>3. CASE gusnLowestUncommitted' # USN_MAX
        <5>1. DBGetHighestCommittedUSN' = gusnLowestUncommitted' - 1
          BY <4>3 DEF DBGetHighestCommittedUSN
        <5>2. \A x, y \in Nat : x < y => x - 1 <= y - 1
          OBVIOUS
        <5>3. gusnLowestUncommitted - 1 <= gusnLowestUncommitted' - 1
          BY <2>1, <3>3, <3>6, <5>2
        <5> QED BY <4>1, <5>1, <5>3
      <4> QED BY <4>2, <4>3
    <3> QED BY <3>2, <3>5, <3>6
  <2>5. CASE JetFlushLog \/ BackupCopy
    BY <2>2, <2>5 DEF JetFlushLog, BackupCopy, memory
  <2>6. CASE Crash \/ Restore \/ InitDSAInfo \/ \E id \in NewIds : HandleRestore(id)
    BY <2>6 DEF Crash, Restore, InitDSAInfo, HandleRestore
  <2>7. ASSUME NEW t \in Threads, ThreadNext(t), ~DBRepl(t),
               ~DBCloseThread(t), ~FlushUncUsns(t)
        PROVE  UNCHANGED <<gusnEC, gusnLowestUncommitted>>
    BY <2>7 DEF ThreadNext, DBInitThread, DBTransIn, DBTransOutNested, DBTransOut,
       GetNCChangesMark, GetNCChangesBegin, GetNCChangesEnd, BackupMark,
       DBReplaceHiddenTableBackupCols, RetireBegin, RetireOut, memory
  <2> QED BY <2>2, <2>3, <2>4, <2>5, <2>6, <2>7 DEF Next
<1>2. Spec => [][Mono]_vars
  BY UsnInvariant, <1>1, PTL DEF Spec
<1> QED BY <1>2 DEF HighestCommittedMonotone

-----------------------------------------------------------------------------
(* No USN is handed out twice under one invocation id, through crashes,    *)
(* restores and changes of the id.  This rests on the types alone: the     *)
(* hidden record and the change of id are what matters, not the tracking   *)
(* of commits.                                                             *)


\* The hidden record stays ahead of the USNs handed out.
HiddenAhead ==
  /\ up # "down" => gusnEC <= disk.usn /\ gusnInit = disk.usn
  /\ up = "boot" => gusnEC < disk.usn

\* No transaction is open in a server that is not up, and a server put back
\* from a backup is not up before HandleRestore has run.
NotUpIdle ==
  /\ up # "up" => \A t \in Threads : transLevel[t] = 0 /\ phase[t] = "closed"
  /\ up = "up" => ~disk.restoring
  /\ up = "boot" => disk.restoring

\* The ids under which a USN may still be handed out: the one on disk, the one
\* in memory and those of the transactions that are open.
Live(id) ==
  \/ id = disk.id
  \/ /\ up = "up"
     /\ \/ id = curId
        \/ \E t \in Threads : /\ transLevel[t] > 0 \/ phase[t] = "retired"
                              /\ InvocationID[t] = id

\* Where the next USN comes from.
NextUsn == IF up = "down" THEN disk.usn ELSE gusnEC

\* Under a live id, everything handed out is below the next USN.
IssuedBelow ==
  ~disk.restoring => \A w \in issued : Live(w[1]) => w[2] < NextUsn

IdInv == TypeInv /\ HiddenAhead /\ NotUpIdle /\ IssuedBelow

-----------------------------------------------------------------------------
\* Init satisfies the invariant.
LEMMA InitIdInv == Init => IdInv
<1> SUFFICES ASSUME Init PROVE IdInv
  OBVIOUS
<1>1. TypeInv
  BY InitTypeInv
<1> QED BY <1>1, DeltaAssumption DEF Init, IdInv, HiddenAhead, NotUpIdle, IssuedBelow

\* A step that hands out nothing, adds no live id and stays up keeps the
\* invariant.
LEMMA NothingIssued ==
  ASSUME IdInv, TypeInv', up = "up", up' = "up", UNCHANGED <<gusnEC, gusnInit, issued>>,
         disk'.usn = disk.usn, disk'.restoring = disk.restoring,
         \A w \in issued : Live(w[1])' => Live(w[1])
  PROVE  IdInv'
<1>1. HiddenAhead'
  BY DEF IdInv, HiddenAhead
<1>2. NotUpIdle'
  BY DEF IdInv, NotUpIdle
<1>3. IssuedBelow'
  <2> SUFFICES ASSUME NEW w \in issued, Live(w[1])' PROVE w[2] < gusnEC
    BY DEF IssuedBelow, NextUsn
  <2>1. Live(w[1])
    OBVIOUS
  <2> QED BY <2>1 DEF IdInv, IssuedBelow, NextUsn, NotUpIdle
<1> QED BY <1>1, <1>2, <1>3 DEF IdInv

\* The steps of threads but for DBRepl hand out nothing.
LEMMA QuietThreads ==
  ASSUME TypeInv, NEW t \in Threads, ThreadNext(t), ~DBRepl(t)
  PROVE  /\ up = "up" /\ up' = "up" /\ UNCHANGED <<gusnEC, gusnInit, issued>>
         /\ disk'.usn = disk.usn /\ disk'.restoring = disk.restoring
<1>1. /\ up = "up" /\ up' = "up" /\ UNCHANGED <<gusnEC, gusnInit, issued>>
  BY DEF ThreadNext, DBInitThread, DBCloseThread, DBTransIn, DBTransOutNested,
     DBTransOut, FlushUncUsns, GetNCChangesMark, GetNCChangesBegin, GetNCChangesEnd,
     BackupMark, DBReplaceHiddenTableBackupCols, RetireBegin, RetireOut, memory, history
<1>2. disk \in Disks
  BY DEF TypeInv, TypeOK
<1>3. disk'.usn = disk.usn /\ disk'.restoring = disk.restoring
  BY <1>2 DEF ThreadNext, DBInitThread, DBCloseThread, DBTransIn, DBTransOutNested,
     DBTransOut, FlushUncUsns, GetNCChangesMark, GetNCChangesBegin, GetNCChangesEnd,
     BackupMark, DBReplaceHiddenTableBackupCols, RetireBegin, RetireOut, store, Disks
<1> QED BY <1>1, <1>3

\* No id comes to life that USNs were handed out under: a new one is unused, and
\* a backup that is put back keeps its id from being used until HandleRestore has
\* replaced it.
LEMMA LiveStays ==
  ASSUME IdInv, [Next]_vars, ~disk'.restoring, NEW w \in issued, Live(w[1])'
  PROVE  ~disk.restoring /\ Live(w[1])
<1>1. TypeInv
  BY DEF IdInv
<1>2. /\ disk \in Disks /\ image \in Disks
      /\ InvocationID \in [Threads -> Ids] /\ phase \in [Threads -> Phases]
      /\ transLevel \in [Threads -> 0 .. MaxTransLevel]
  BY <1>1 DEF TypeInv, TypeOK
<1>3. \A id \in NewIds : w[1] # id
  BY DEF NewIds, UsedIds
<1>4. up = "up" => ~disk.restoring
  BY DEF IdInv, NotUpIdle
<1>5. ASSUME NEW t \in Threads,
             DBInitThread(t) \/ DBCloseThread(t) \/ GetNCChangesMark(t)
               \/ GetNCChangesEnd(t) \/ BackupMark(t)
               \/ GetNCChangesBegin(t) \/ DBReplaceHiddenTableBackupCols(t)
      PROVE  ~disk.restoring /\ Live(w[1])
  <2>1. /\ up = "up" /\ UNCHANGED <<curId, InvocationID, transLevel>>
        /\ \A s \in Threads : phase'[s] = "retired" => phase[s] = "retired"
    BY <1>2, <1>5 DEF DBInitThread, DBCloseThread, GetNCChangesMark, GetNCChangesEnd,
       BackupMark, GetNCChangesBegin, DBReplaceHiddenTableBackupCols, memory
  <2>2. disk'.id = disk.id
    BY <1>2, <1>5 DEF DBInitThread, DBCloseThread, GetNCChangesMark, GetNCChangesEnd,
       BackupMark, GetNCChangesBegin, DBReplaceHiddenTableBackupCols, store, Disks
  <2> QED BY <1>4, <2>1, <2>2 DEF Live
<1>6. ASSUME NEW t \in Threads, NEW dra \in BOOLEAN, DBTransIn(t, dra)
      PROVE  ~disk.restoring /\ Live(w[1])
  <2>1. /\ up = "up" /\ UNCHANGED <<disk, curId, phase>>
        /\ \A s \in Threads : s # t => /\ transLevel'[s] = transLevel[s]
                                       /\ InvocationID'[s] = InvocationID[s]
    BY <1>2, <1>6 DEF DBTransIn, memory, store
  <2>2. \/ InvocationID'[t] = curId
        \/ InvocationID'[t] = InvocationID[t] /\ transLevel[t] > 0
    BY <1>2, <1>6 DEF DBTransIn
  <2>3. phase[t] # "retired"
    BY <1>6 DEF DBTransIn
  <2> QED BY <1>4, <2>1, <2>2, <2>3 DEF Live
<1>7. ASSUME NEW t \in Threads, NEW fCommit \in BOOLEAN, DBTransOutNested(t, fCommit)
      PROVE  ~disk.restoring /\ Live(w[1])
  <2>1. /\ up = "up" /\ UNCHANGED <<disk, curId, phase, InvocationID>>
        /\ \A s \in Threads : transLevel'[s] > 0 => transLevel[s] > 0
    BY <1>2, <1>7 DEF DBTransOutNested, memory, store
  <2> QED BY <1>4, <2>1 DEF Live
<1>8. ASSUME NEW t \in Threads, NEW fCommit \in BOOLEAN, NEW fLazy \in BOOLEAN,
             DBTransOut(t, fCommit, fLazy)
      PROVE  ~disk.restoring /\ Live(w[1])
  <2>1. /\ up = "up" /\ UNCHANGED <<curId, InvocationID>>
        /\ \A s \in Threads : /\ transLevel'[s] > 0 => transLevel[s] > 0
                              /\ phase'[s] = "retired" => phase[s] = "retired"
    BY <1>2, <1>8 DEF DBTransOut, memory
  <2>2. disk'.id = disk.id
    BY <1>2, <1>8 DEF DBTransOut, Disks
  <2> QED BY <1>4, <2>1, <2>2 DEF Live
<1>9. ASSUME NEW t \in Threads, FlushUncUsns(t)
      PROVE  ~disk.restoring /\ Live(w[1])
  <2>1. /\ up = "up" /\ UNCHANGED <<disk, InvocationID, transLevel>>
        /\ \A s \in Threads : phase'[s] = "retired" => phase[s] = "retired"
    BY <1>2, <1>9 DEF FlushUncUsns, store
  <2>2. \/ curId' = curId
        \/ phase[t] = "retired" /\ curId' = InvocationID[t]
    BY <1>9 DEF FlushUncUsns
  <2> QED BY <1>4, <2>1, <2>2 DEF Live
<1>10. ASSUME NEW t \in Threads, NEW id \in NewIds, RetireBegin(t, id)
       PROVE  ~disk.restoring /\ Live(w[1])
  <2>1. /\ up = "up" /\ UNCHANGED <<disk, curId>>
        /\ \A s \in Threads : s # t => /\ transLevel'[s] = transLevel[s]
                                       /\ InvocationID'[s] = InvocationID[s]
                                       /\ phase'[s] = phase[s]
        /\ InvocationID'[t] = id
    BY <1>2, <1>10 DEF RetireBegin, memory, store
  <2> QED BY <1>3, <1>4, <2>1 DEF Live
<1>11. ASSUME NEW t \in Threads, NEW fCommit \in BOOLEAN, RetireOut(t, fCommit)
       PROVE  ~disk.restoring /\ Live(w[1])
  <2>1. /\ up = "up" /\ UNCHANGED <<curId, InvocationID>>
        /\ transLevel[t] = 1
        /\ \A s \in Threads :
             transLevel'[s] > 0 \/ phase'[s] = "retired" =>
               transLevel[s] > 0 \/ phase[s] = "retired"
    BY <1>1, <1>2, <1>11 DEF RetireOut, memory, TypeInv, RetireLevel
  <2>2. disk'.id = disk.id \/ disk'.id = InvocationID[t]
    BY <1>2, <1>11 DEF RetireOut, Disks
  <2> QED BY <1>4, <2>1, <2>2 DEF Live
<1>12. ASSUME NEW t \in Threads, DBRepl(t)
       PROVE  ~disk.restoring /\ Live(w[1])
  <2>1. up = "up" /\ UNCHANGED <<curId, phase, transLevel, InvocationID>>
    BY <1>12 DEF DBRepl
  <2>2. disk'.id = disk.id
    BY <1>2, <1>12 DEF DBRepl, DBGetNewUsn, DBReplaceHiddenUSN, Disks
  <2> QED BY <1>4, <2>1, <2>2 DEF Live
<1>13. CASE JetFlushLog \/ BackupCopy
  <2>1. up = "up" /\ UNCHANGED <<curId, InvocationID, transLevel, phase>>
    BY <1>13 DEF JetFlushLog, BackupCopy, memory, threads
  <2>2. disk'.id = disk.id
    BY <1>2, <1>13 DEF JetFlushLog, BackupCopy, Disks
  <2> QED BY <1>4, <2>1, <2>2 DEF Live
<1>14. CASE Crash
  <2>1. up' = "down" /\ UNCHANGED disk
    BY <1>14 DEF Crash
  <2> QED BY <2>1 DEF Live
<1>15. CASE Restore
  <2>1. disk'.restoring
    BY <1>2, <1>15 DEF Restore, Disks
  <2> QED BY <2>1
<1>16. CASE InitDSAInfo
  <2>1. /\ up = "down" /\ curId' = disk.id /\ UNCHANGED <<transLevel, phase>>
    BY <1>16 DEF InitDSAInfo, threads
  <2>2. disk'.restoring = disk.restoring /\ disk'.id = disk.id
    BY <1>2, <1>16 DEF InitDSAInfo, DBReplaceHiddenUSN, Disks
  <2>3. \A t \in Threads : transLevel[t] = 0 /\ phase[t] = "closed"
    BY <2>1 DEF IdInv, NotUpIdle
  <2> QED BY <2>1, <2>2, <2>3 DEF Live
<1>17. ASSUME NEW id \in NewIds, HandleRestore(id)
       PROVE  FALSE
  <2>1. up = "boot" /\ curId' = id /\ UNCHANGED <<transLevel, phase>>
    BY <1>17 DEF HandleRestore, threads
  <2>2. disk'.id = id
    BY <1>2, <1>17 DEF HandleRestore, Disks
  <2>3. \A t \in Threads : transLevel[t] = 0 /\ phase[t] = "closed"
    BY <2>1 DEF IdInv, NotUpIdle
  <2> QED BY <1>3, <2>1, <2>2, <2>3 DEF Live
<1>18. CASE UNCHANGED vars
  BY <1>18 DEF vars, memory, threads, store, history, Live
<1> QED
  BY <1>5, <1>6, <1>7, <1>8, <1>9, <1>10, <1>11, <1>12, <1>13, <1>14,
     <1>15, <1>16, <1>17, <1>18
  DEF Next, ThreadNext

\* Every step keeps the invariant.
LEMMA StepIdInv == IdInv /\ [Next]_vars => IdInv'
<1> SUFFICES ASSUME IdInv, [Next]_vars PROVE IdInv'
  OBVIOUS
<1>1. TypeInv' /\ TypeInv
  BY StepTypeInv DEF IdInv
<1>2. /\ disk \in Disks /\ image \in Disks /\ gusnEC \in Nat /\ gusnEC >= 1
      /\ InvocationID \in [Threads -> Ids] /\ phase \in [Threads -> Phases]
      /\ transLevel \in [Threads -> 0 .. MaxTransLevel]
      /\ issued \subseteq Writes /\ disk.usn \in Nat /\ disk.usn >= 1
  BY <1>1 DEF TypeInv, TypeOK, Positive, Disks
<1>3. \A id \in NewIds : \A w \in issued : w[1] # id
  BY DEF NewIds, UsedIds
<1>4. ~disk'.restoring => \A w \in issued : Live(w[1])' => Live(w[1])
  BY LiveStays
<1>5. up = "up" => ~disk.restoring
  BY DEF IdInv, NotUpIdle
<1>6. ASSUME NEW t \in Threads, ThreadNext(t), ~DBRepl(t)
      PROVE  IdInv'
  <2>1. /\ up = "up" /\ up' = "up" /\ UNCHANGED <<gusnEC, gusnInit, issued>>
        /\ disk'.usn = disk.usn /\ disk'.restoring = disk.restoring
    BY <1>1, <1>6, QuietThreads
  <2>2. \A w \in issued : Live(w[1])' => Live(w[1])
    BY <1>4, <1>5, <2>1
  <2> QED BY <1>1, <2>1, <2>2, NothingIssued
<1>7. ASSUME NEW t \in Threads, DBRepl(t)
      PROVE  IdInv'
  <2>1. /\ up = "up" /\ up' = "up" /\ gusnEC' = gusnEC + 1
        /\ UNCHANGED <<curId, phase, transLevel, InvocationID>>
        /\ issued' = issued \cup {<<InvocationID[t], gusnEC>>}
    BY <1>7 DEF DBRepl, DBGetNewUsn
  <2>2. /\ disk'.restoring = disk.restoring /\ disk'.id = disk.id
        /\ gusnInit' = disk'.usn /\ gusnEC' <= disk'.usn
    <3>1. gusnInit = disk.usn /\ gusnEC <= disk.usn
      BY <2>1 DEF IdInv, HiddenAhead
    <3>2. CASE gusnEC + 1 <= gusnInit /\ UNCHANGED <<disk, gusnInit>>
      BY <2>1, <3>1, <3>2
    <3>3. CASE /\ disk' = [disk EXCEPT !.usn = gusnInit + USN_DELTA_INIT,
                                       !.db = committed]
               /\ gusnInit' = gusnInit + USN_DELTA_INIT
      BY <1>2, <2>1, <3>1, <3>3, DeltaAssumption DEF Disks
    <3> QED BY <1>7, <3>2, <3>3 DEF DBRepl, DBGetNewUsn, DBReplaceHiddenUSN
  <2>3. HiddenAhead' /\ NotUpIdle'
    BY <2>1, <2>2 DEF IdInv, HiddenAhead, NotUpIdle
  <2>4. \A w \in issued : Live(w[1])' => Live(w[1])
    BY <1>4, <1>5, <2>1, <2>2
  <2>5. \A w \in issued : Live(w[1]) => w[2] < gusnEC
    BY <2>1 DEF IdInv, IssuedBelow, NotUpIdle, NextUsn
  <2>6. \A w \in issued' : Live(w[1])' => w[2] < gusnEC + 1
    <3> SUFFICES ASSUME NEW w \in issued', Live(w[1])' PROVE w[2] < gusnEC + 1
      OBVIOUS
    <3>1. CASE w \in issued
      <4>1. w[2] < gusnEC /\ w[2] \in Nat
        BY <1>2, <2>4, <2>5, <3>1 DEF Writes
      <4> QED BY <1>2, <4>1
    <3>2. CASE w = <<InvocationID[t], gusnEC>>
      BY <1>2, <3>2
    <3> QED BY <2>1, <3>1, <3>2
  <2>7. IssuedBelow'
    BY <2>1, <2>6 DEF IssuedBelow, NextUsn
  <2> QED BY <1>1, <2>3, <2>7 DEF IdInv
<1>8. CASE JetFlushLog \/ BackupCopy
  <2>1. up = "up" /\ up' = "up" /\ UNCHANGED <<gusnEC, gusnInit, issued>>
    BY <1>8 DEF JetFlushLog, BackupCopy, memory, history
  <2>2. disk'.usn = disk.usn /\ disk'.restoring = disk.restoring
    BY <1>2, <1>8 DEF JetFlushLog, BackupCopy, Disks
  <2>3. \A w \in issued : Live(w[1])' => Live(w[1])
    BY <1>4, <1>5, <2>1, <2>2
  <2> QED BY <1>1, <2>1, <2>2, <2>3, NothingIssued
<1>9. CASE Crash
  <2>1. /\ up # "down" /\ up' = "down" /\ UNCHANGED <<disk, issued>>
        /\ \A t \in Threads : transLevel'[t] = 0 /\ phase'[t] = "closed"
    BY <1>9 DEF Crash, IdleThreads, history
  <2>2. HiddenAhead' /\ NotUpIdle'
    BY <2>1 DEF HiddenAhead, NotUpIdle
  <2>3. IssuedBelow'
    <3> SUFFICES ASSUME ~disk.restoring, NEW w \in issued, w[1] = disk.id
                 PROVE  w[2] < disk.usn
      BY <2>1 DEF IssuedBelow, Live, NextUsn
    <3>1. gusnEC <= disk.usn /\ w[2] < gusnEC /\ w[2] \in Nat
      BY <1>2, <2>1 DEF IdInv, HiddenAhead, IssuedBelow, Live, NextUsn, Writes
    <3> QED BY <1>2, <3>1
  <2> QED BY <1>1, <2>2, <2>3 DEF IdInv
<1>10. CASE Restore
  <2>1. /\ up = "down" /\ up' = "down" /\ disk'.restoring = TRUE
        /\ \A t \in Threads : transLevel'[t] = 0 /\ phase'[t] = "closed"
    BY <1>2, <1>10 DEF Restore, IdleThreads, Disks
  <2> QED BY <1>1, <2>1 DEF IdInv, HiddenAhead, NotUpIdle, IssuedBelow
<1>11. CASE InitDSAInfo
  <2>1. /\ up = "down" /\ up' = (IF disk.restoring THEN "boot" ELSE "up")
        /\ gusnEC' = disk.usn /\ gusnInit' = disk.usn + USN_DELTA_INIT
        /\ curId' = disk.id
        /\ UNCHANGED <<issued, transLevel, phase>>
    BY <1>11 DEF InitDSAInfo, threads, history
  <2>2. /\ disk'.usn = disk.usn + USN_DELTA_INIT
        /\ disk'.restoring = disk.restoring /\ disk'.id = disk.id
    BY <1>2, <1>11 DEF InitDSAInfo, DBReplaceHiddenUSN, Disks
  <2>3. \A t \in Threads : transLevel[t] = 0 /\ phase[t] = "closed"
    BY <2>1 DEF IdInv, NotUpIdle
  <2>4. disk.restoring \in BOOLEAN
    BY <1>2 DEF Disks
  <2>5. HiddenAhead'
    BY <1>2, <2>1, <2>2, DeltaAssumption DEF HiddenAhead
  <2>6. NotUpIdle'
    BY <2>1, <2>2, <2>3, <2>4 DEF NotUpIdle
  <2>7. IssuedBelow'
    <3> SUFFICES ASSUME ~disk.restoring, NEW w \in issued, Live(w[1])'
                 PROVE  w[2] < disk.usn
      BY <2>1, <2>2 DEF IssuedBelow, NextUsn
    <3>1. w[1] = disk.id
      BY <2>1, <2>2, <2>3 DEF Live
    <3> QED BY <2>1, <3>1 DEF IdInv, IssuedBelow, Live, NextUsn
  <2> QED BY <1>1, <2>5, <2>6, <2>7 DEF IdInv
<1>12. ASSUME NEW id \in NewIds, HandleRestore(id)
      PROVE  IdInv'
  <2>1. /\ up = "boot" /\ up' = "up" /\ gusnEC' = gusnEC + 1 /\ curId' = id
        /\ issued' = issued \cup {<<id, gusnEC>>}
        /\ UNCHANGED <<gusnInit, transLevel, phase>>
    BY <1>12 DEF HandleRestore, threads
  <2>2. disk'.usn = disk.usn /\ disk'.restoring = FALSE /\ disk'.id = id
    BY <1>2, <1>12 DEF HandleRestore, Disks
  <2>3. \A t \in Threads : transLevel'[t] = 0 /\ phase'[t] = "closed"
    BY <2>1 DEF IdInv, NotUpIdle
  <2>4. IssuedBelow'
    <3> SUFFICES ASSUME NEW w \in issued', Live(w[1])' PROVE w[2] < gusnEC + 1
      BY <2>1 DEF IssuedBelow, NextUsn
    <3>1. w[1] = id
      BY <2>1, <2>2, <2>3 DEF Live
    <3>2. w = <<id, gusnEC>>
      BY <1>3, <2>1, <3>1
    <3> QED BY <1>2, <3>2
  <2>5. HiddenAhead'
    BY <1>2, <2>1, <2>2 DEF IdInv, HiddenAhead
  <2> QED BY <1>1, <2>1, <2>2, <2>4, <2>5 DEF IdInv, NotUpIdle
<1>13. CASE UNCHANGED vars
  <2>1. UNCHANGED <<up, gusnEC, gusnInit, issued, disk, curId, InvocationID,
                    transLevel, phase>>
    BY <1>13 DEF vars, memory, threads, store, history
  <2> QED BY <1>1, <2>1 DEF IdInv, HiddenAhead, NotUpIdle, IssuedBelow, Live, NextUsn
<1> QED
  BY <1>6, <1>7, <1>8, <1>9, <1>10, <1>11, <1>12, <1>13 DEF Next

\* The invariant holds in every reachable state.
THEOREM IdInvariant == Spec => []IdInv
  BY InitIdInv, StepIdInv, PTL DEF Spec

\* DBGetNewUsn never hands out a USN twice under one invocation id, whatever
\* crashes lose and whatever backup is put back.
THEOREM UsnIsNeverReissued == Spec => UsnNeverReissued
<1> DEFINE Fresh == (up # "down" /\ gusnEC' # gusnEC) => issued' # issued
<1>1. IdInv /\ [Next]_vars => [Fresh]_vars
  <2> SUFFICES ASSUME IdInv, Next, up # "down", gusnEC' # gusnEC
               PROVE  issued' # issued
    OBVIOUS
  <2>1. gusnEC \in Nat /\ issued \subseteq Writes
    BY DEF IdInv, TypeInv, TypeOK
  <2>2. ASSUME NEW t \in Threads, DBRepl(t)
        PROVE  issued' # issued
    <3>1. /\ up = "up" /\ issued' = issued \cup {<<InvocationID[t], gusnEC>>}
          /\ transLevel[t] > 0
      BY <2>2 DEF DBRepl, IdInv, TypeInv, RetireLevel
    <3>2. Live(InvocationID[t]) /\ ~disk.restoring
      BY <3>1 DEF Live, IdInv, NotUpIdle
    <3>3. <<InvocationID[t], gusnEC>> \notin issued
      BY <2>1, <3>1, <3>2 DEF IdInv, IssuedBelow, NextUsn
    <3> QED BY <3>1, <3>3
  <2>3. ASSUME NEW id \in NewIds, HandleRestore(id)
        PROVE  issued' # issued
    <3>1. issued' = issued \cup {<<id, gusnEC>>}
      BY <2>3 DEF HandleRestore
    <3>2. <<id, gusnEC>> \notin issued
      BY DEF NewIds, UsedIds
    <3> QED BY <3>1, <3>2
  <2>4. CASE JetFlushLog \/ BackupCopy \/ Crash \/ Restore \/ InitDSAInfo
    BY <2>4 DEF JetFlushLog, BackupCopy, Crash, Restore, InitDSAInfo, memory
  <2>5. ASSUME NEW t \in Threads, ThreadNext(t), ~DBRepl(t)
        PROVE  FALSE
    BY <2>5 DEF ThreadNext, DBInitThread, DBCloseThread, DBTransIn, DBTransOutNested,
       DBTransOut, FlushUncUsns, GetNCChangesMark, GetNCChangesBegin,
       GetNCChangesEnd, BackupMark, DBReplaceHiddenTableBackupCols, RetireBegin,
       RetireOut, memory
  <2> QED BY <2>2, <2>3, <2>4, <2>5 DEF Next
<1>2. Spec => [][Fresh]_vars
  BY IdInvariant, <1>1, PTL DEF Spec
<1> QED BY <1>2 DEF UsnNeverReissued

-----------------------------------------------------------------------------
(* What the server claims to have of its own changes, it has.              *)

\* The writes that are not committed yet.
Uncommitted == UNION {UNION {pending[t][l] : l \in Levels} : t \in Threads}

\* What is on disk is visible, and what a source is sending is on disk.
OnDisk ==
  /\ disk.db \subseteq committed
  /\ \A t \in Threads : snapshot[t] \subseteq disk.db

\* Only writes that were given a USN are seen anywhere.
OwnAreIssued ==
  /\ \A w \in published : w[1] # Remote
  /\ \A w \in published \cup committed \cup image.db \cup Uncommitted :
       w[1] # Remote => w \in issued

\* A database file claims to have no write with this USN.
ClaimedBelow(d, usn) == d.backupUsn < usn /\ \A i \in Ids : d.retired[i] < usn

\* Every USN to come is above what the server claims to have, or would claim
\* with the backup put back, and so is every USN not yet committed.
ClaimsBelow ==
  /\ ClaimedBelow(disk, NextUsn)
  /\ ClaimedBelow(image, NextUsn)
  /\ ClaimedBelow(image, image.usn)
  /\ \A w \in Uncommitted : ClaimedBelow(disk, w[2]) /\ ClaimedBelow(image, w[2])

\* A write of a live id that a partner has seen is on disk.
PublishedIsKept ==
  ~disk.restoring => \A w \in published : Live(w[1]) => w \in disk.db

\* A database file claims to have write w: for the id it holds up to the USN of
\* the backup, for a retired one up to where it was retired.
Claims(d, w) ==
  \/ w[1] # Remote /\ w[2] <= d.retired[w[1]]
  \/ w[1] = d.id /\ w[2] <= d.backupUsn

Sound(d) == \A w \in published \cup committed : Claims(d, w) => w \in d.db

ClaimInv ==
  /\ OnDisk /\ OwnAreIssued /\ ClaimsBelow /\ PublishedIsKept
  /\ Sound(disk) /\ Sound(image)

\* A claim is about USNs below.
LEMMA NotClaimed ==
  ASSUME NEW d \in Disks, NEW w \in Writes, ClaimedBelow(d, w[2])
  PROVE  ~Claims(d, w)
<1>1. w[2] \in Nat /\ w[1] \in Ids \cup {Remote}
  BY DEF Writes
<1>2. d.backupUsn \in Nat /\ d.retired \in [Ids -> Nat]
  BY DEF Disks
<1>3. ~(w[2] <= d.backupUsn)
  BY <1>1, <1>2 DEF ClaimedBelow
<1>4. ASSUME w[1] # Remote PROVE ~(w[2] <= d.retired[w[1]])
  <2>1. w[1] \in Ids
    BY <1>1, <1>4
  <2>2. d.retired[w[1]] \in Nat /\ d.retired[w[1]] < w[2]
    BY <1>2, <2>1 DEF ClaimedBelow
  <2> QED BY <1>1, <2>2
<1> QED BY <1>3, <1>4 DEF Claims

\* It stays below a later USN.
LEMMA ClaimedBelowLater ==
  ASSUME NEW d \in Disks, NEW x \in Nat, NEW y \in Nat, ClaimedBelow(d, x), x <= y
  PROVE  ClaimedBelow(d, y)
<1>1. d.backupUsn \in Nat /\ \A i \in Ids : d.retired[i] \in Nat
  BY DEF Disks
<1> QED BY <1>1 DEF ClaimedBelow

\* Readers were told of nothing that is uncommitted or to come.
LEMMA ReadersBelow ==
  ASSUME UsnInv, NEW t \in Threads
  PROVE  /\ usnRead[t] \in Nat
         /\ usnRead[t] < NextUsn
         /\ \A w \in Uncommitted : usnRead[t] < w[2]
<1>1. usnRead[t] \in Nat /\ usnRead[t] < gusnEC
  BY DEF UsnInv, ReadBelow, TypeInv, TypeOK
<1>2. ASSUME NEW w \in Uncommitted PROVE usnRead[t] < w[2]
  <2>1. PICK s \in Threads, l \in Levels : w \in pending[s][l]
    BY DEF Uncommitted
  <2>2. w \in Writes /\ UnCommUsn[s] \in Nat
    BY <2>1 DEF UsnInv, TypeInv, TypeOK
  <2>3. w[2] \in Nat
    BY <2>2 DEF Writes
  <2>4. UnCommUsn[s] # 0 /\ UnCommUsn[s] <= w[2]
    BY <2>1 DEF UsnInv, PendingCovered
  <2>5. usnRead[t] < UnCommUsn[s]
    BY <2>4 DEF UsnInv, ReadBelow
  <2> QED BY <1>1, <2>2, <2>3, <2>4, <2>5
<1>3. CASE up = "down"
  <2>1. usnRead[t] = 0 /\ disk.usn \in Nat /\ disk.usn >= 1
    BY <1>3 DEF UsnInv, ThreadsIdle, TypeInv, TypeOK, Positive, Disks
  <2> QED BY <1>1, <1>2, <1>3, <2>1 DEF NextUsn
<1>4. CASE up # "down"
  BY <1>1, <1>2, <1>4 DEF NextUsn
<1> QED BY <1>3, <1>4

LEMMA NextUsnType == TypeInv => NextUsn \in Nat
  BY DEF TypeInv, TypeOK, Disks, NextUsn

LEMMA UncommittedType == TypeInv => Uncommitted \subseteq Writes
<1> SUFFICES ASSUME TypeInv, NEW w \in Uncommitted PROVE w \in Writes
  OBVIOUS
<1>1. PICK t \in Threads, l \in Levels : w \in pending[t][l]
  BY DEF Uncommitted
<1> QED BY <1>1 DEF TypeInv, TypeOK

\* What most steps do to the database, to what is pending and to what was sent.
\* Nothing but the tail of the log is lost.  A claim that rises is about what
\* readers were told and about live ids, and all that is visible reaches the disk
\* with it.
StoreStep ==
  /\ disk.db \subseteq disk'.db /\ disk'.db \subseteq committed'
  /\ committed' \subseteq committed \cup Uncommitted
  /\ image' = image
  /\ issued \subseteq issued'
  /\ NextUsn <= NextUsn'
  /\ \A w \in Uncommitted' :
       \/ w \in Uncommitted
       \/ w[2] = NextUsn /\ (w[1] # Remote => w \in issued')
  /\ \A t \in Threads : snapshot'[t] \subseteq disk'.db
  /\ published' \subseteq published \cup {w \in disk.db : w[1] # Remote}
  /\ \A usn \in Nat :
       ClaimedBelow(disk, usn) /\ (\A t \in Threads : usnRead[t] < usn)
         => ClaimedBelow(disk', usn)
  /\ \A w \in published : Claims(disk', w) => \/ Claims(disk, w)
                                              \/ ~disk.restoring /\ Live(w[1])
  /\ \A w \in committed' : Claims(disk', w) => Claims(disk, w) \/ w \in disk'.db

LEMMA StoreStepKeepsClaims ==
  ASSUME UsnInv, IdInv, ClaimInv, TypeInv', [Next]_vars, StoreStep
  PROVE  ClaimInv'
<1>1. /\ TypeInv /\ disk \in Disks /\ image \in Disks /\ disk' \in Disks /\ image' \in Disks
      /\ published \subseteq Writes /\ committed \subseteq Writes
  BY DEF IdInv, TypeInv, TypeOK
<1>2. NextUsn \in Nat /\ NextUsn' \in Nat /\ Uncommitted \subseteq Writes
  <2>1. NextUsn \in Nat /\ Uncommitted \subseteq Writes
    BY <1>1, NextUsnType, UncommittedType
  <2>2. NextUsn' \in Nat
    BY DEF TypeInv, TypeOK, Disks, NextUsn
  <2> QED BY <2>1, <2>2
<1>3. OnDisk'
  BY DEF OnDisk, StoreStep
<1>4. OwnAreIssued'
  <2>1. ASSUME NEW w \in published' PROVE w[1] # Remote
    BY <2>1 DEF StoreStep, ClaimInv, OwnAreIssued
  <2>2. ASSUME NEW w \in published' \cup committed' \cup image'.db \cup Uncommitted',
               w[1] # Remote
        PROVE  w \in issued'
    <3>1. \/ w \in published \cup committed \cup image.db \cup Uncommitted
          \/ w \in issued'
      BY <2>2 DEF StoreStep, ClaimInv, OnDisk
    <3>2. w \in issued \/ w \in issued'
      BY <2>2, <3>1 DEF ClaimInv, OwnAreIssued
    <3> QED BY <3>2 DEF StoreStep
  <2> QED BY <2>1, <2>2 DEF OwnAreIssued
<1>5. ClaimsBelow'
  <2>1. \A t \in Threads : usnRead[t] < NextUsn /\ \A w \in Uncommitted : usnRead[t] < w[2]
    BY ReadersBelow
  <2>2. ClaimedBelow(disk', NextUsn) /\ ClaimedBelow(image', NextUsn)
    BY <1>2, <2>1 DEF StoreStep, ClaimInv, ClaimsBelow
  <2>3. ClaimedBelow(disk', NextUsn') /\ ClaimedBelow(image', NextUsn')
    BY <1>1, <1>2, <2>2, ClaimedBelowLater DEF StoreStep
  <2>4. ClaimedBelow(image', image'.usn)
    BY DEF StoreStep, ClaimInv, ClaimsBelow
  <2>5. ASSUME NEW w \in Uncommitted'
        PROVE  ClaimedBelow(disk', w[2]) /\ ClaimedBelow(image', w[2])
    <3>1. CASE w \in Uncommitted
      <4>1. w[2] \in Nat
        BY <1>2, <3>1 DEF Writes
      <4>2. ClaimedBelow(disk, w[2]) /\ ClaimedBelow(image, w[2])
        BY <3>1 DEF ClaimInv, ClaimsBelow
      <4> QED BY <2>1, <3>1, <4>1, <4>2 DEF StoreStep
    <3>2. CASE w[2] = NextUsn
      BY <2>2, <3>2
    <3> QED BY <3>1, <3>2 DEF StoreStep
  <2> QED BY <2>3, <2>4, <2>5 DEF ClaimsBelow, ClaimedBelow
<1>6. PublishedIsKept'
  <2> SUFFICES ASSUME ~disk'.restoring, NEW w \in published', Live(w[1])'
               PROVE  w \in disk'.db
    BY DEF PublishedIsKept
  <2>1. CASE w \in published
    <3>1. w \in issued
      BY <2>1 DEF ClaimInv, OwnAreIssued
    <3>2. ~disk.restoring /\ Live(w[1])
      BY <3>1, LiveStays
    <3> QED BY <2>1, <3>2 DEF ClaimInv, PublishedIsKept, StoreStep
  <2>2. CASE w \in disk.db
    BY <2>2 DEF StoreStep
  <2> QED BY <2>1, <2>2 DEF StoreStep
<1>7. ASSUME NEW w \in Uncommitted PROVE ~Claims(disk, w) /\ ~Claims(image, w)
  BY <1>1, <1>2, <1>7, NotClaimed DEF ClaimInv, ClaimsBelow
<1>8. Sound(disk)'
  <2> SUFFICES ASSUME NEW w \in published' \cup committed', Claims(disk', w)
               PROVE  w \in disk'.db
    BY DEF Sound, Claims
  <2>1. CASE w \in published
    <3>1. Claims(disk, w) \/ (~disk.restoring /\ Live(w[1]))
      BY <2>1 DEF StoreStep
    <3>2. w \in disk.db
      BY <2>1, <3>1 DEF ClaimInv, Sound, PublishedIsKept
    <3> QED BY <3>2 DEF StoreStep
  <2>2. CASE w \in committed'
    <3>1. Claims(disk, w) \/ w \in disk'.db
      BY <2>2 DEF StoreStep
    <3>2. CASE Claims(disk, w)
      <4>1. w \in committed
        BY <1>7, <2>2, <3>2 DEF StoreStep
      <4> QED BY <3>2, <4>1 DEF ClaimInv, Sound, StoreStep
    <3> QED BY <3>1, <3>2
  <2> QED BY <2>1, <2>2 DEF StoreStep
<1>9. Sound(image)'
  <2> SUFFICES ASSUME NEW w \in published' \cup committed', Claims(image, w)
               PROVE  w \in image.db
    BY DEF Sound, Claims, StoreStep
  <2>1. w \in published \cup committed
    BY <1>7 DEF StoreStep, ClaimInv, OnDisk
  <2> QED BY <2>1 DEF ClaimInv, Sound
<1> QED BY <1>3, <1>4, <1>5, <1>6, <1>8, <1>9 DEF ClaimInv

\* Where what is pending after a step comes from.
LEMMA UncommittedAfter ==
  ASSUME NEW X, \A s \in Threads, l \in Levels : pending'[s][l] \subseteq X
  PROVE  Uncommitted' \subseteq X
  BY DEF Uncommitted

LEMMA PendingIsUncommitted ==
  ASSUME NEW t \in Threads, NEW l \in Levels
  PROVE  pending[t][l] \subseteq Uncommitted
  BY DEF Uncommitted

\* A step that leaves the claims alone.
LEMMA SameClaims ==
  ASSUME ClaimInv,
         disk.db \subseteq disk'.db, disk'.db \subseteq committed',
         committed' \subseteq committed \cup Uncommitted,
         disk'.id = disk.id, disk'.backupUsn = disk.backupUsn,
         disk'.retired = disk.retired,
         image' = image, issued \subseteq issued', NextUsn <= NextUsn',
         \A w \in Uncommitted' :
           \/ w \in Uncommitted
           \/ w[2] = NextUsn /\ (w[1] # Remote => w \in issued'),
         \A t \in Threads : snapshot'[t] \subseteq disk'.db,
         published' \subseteq published \cup {w \in disk.db : w[1] # Remote}
  PROVE  StoreStep
<1>1. \A usn \in Nat : ClaimedBelow(disk, usn) => ClaimedBelow(disk', usn)
  BY DEF ClaimedBelow
<1>2. \A w \in published \cup committed' : Claims(disk', w) => Claims(disk, w)
  BY DEF Claims
<1> QED BY <1>1, <1>2 DEF StoreStep

\* A step that leaves the database alone.
LEMMA QuietStore ==
  ASSUME ClaimInv, TypeInv,
         UNCHANGED <<up, gusnEC, committed, disk, image, issued, published, snapshot>>,
         Uncommitted' \subseteq Uncommitted
  PROVE  StoreStep
<1>1. NextUsn' = NextUsn /\ NextUsn \in Nat
  BY NextUsnType DEF NextUsn
<1>2. NextUsn <= NextUsn'
  BY <1>1
<1>3. disk.db \subseteq committed /\ \A t \in Threads : snapshot'[t] \subseteq disk.db
  BY DEF ClaimInv, OnDisk
<1> QED BY <1>2, <1>3, SameClaims

\* The step of a thread is such a step.
LEMMA ThreadStores ==
  ASSUME UsnInv, IdInv, ClaimInv, NEW t \in Threads, ThreadNext(t)
  PROVE  StoreStep
<1>1. /\ TypeInv /\ disk \in Disks /\ gusnEC \in Nat
      /\ pending \in [Threads -> [Levels -> SUBSET Writes]]
      /\ snapshot \in [Threads -> SUBSET Writes]
      /\ transLevel \in [Threads -> 0 .. MaxTransLevel]
  BY DEF IdInv, TypeInv, TypeOK
<1>2. disk.db \subseteq committed /\ \A s \in Threads : snapshot[s] \subseteq disk.db
  BY DEF ClaimInv, OnDisk
<1>3. 1 \in Levels /\ pending[t][1] \subseteq Uncommitted
  BY LevelAssumption, PendingIsUncommitted DEF Levels
<1>4. CASE \/ DBInitThread(t) \/ DBCloseThread(t) \/ FlushUncUsns(t)
           \/ GetNCChangesMark(t) \/ BackupMark(t)
           \/ (\E dra \in BOOLEAN : DBTransIn(t, dra))
           \/ \E id \in NewIds : RetireBegin(t, id)
  <2>1. UNCHANGED <<up, gusnEC, committed, disk, image, issued, published, snapshot, pending>>
    BY <1>4 DEF DBInitThread, DBCloseThread, FlushUncUsns, GetNCChangesMark, BackupMark,
       DBTransIn, RetireBegin, memory, store, history
  <2>2. Uncommitted' \subseteq Uncommitted
    BY <2>1 DEF Uncommitted
  <2> QED BY <1>1, <2>1, <2>2, QuietStore
<1>5. ASSUME NEW fCommit \in BOOLEAN, DBTransOutNested(t, fCommit)
      PROVE  StoreStep
  <2>1. UNCHANGED <<up, gusnEC, committed, disk, image, issued, published, snapshot>>
    BY <1>5 DEF DBTransOutNested, memory, store, history
  <2>2. ASSUME NEW s \in Threads, NEW l \in Levels PROVE pending'[s][l] \subseteq Uncommitted
    <3> DEFINE k == transLevel[t]
               q == IF fCommit THEN pending[t][k - 1] \cup pending[t][k]
                               ELSE pending[t][k - 1]
    <3>1. k \in Levels /\ k - 1 \in Levels /\ k # k - 1
      BY <1>1, <1>5, LevelAssumption DEF DBTransOutNested, Levels
    <3>2. q \subseteq Uncommitted
      BY <3>1, PendingIsUncommitted
    <3>3. pending' = [pending EXCEPT ![t] = [@ EXCEPT ![k] = {}, ![k - 1] = q]]
      BY <1>5, <3>1 DEF DBTransOutNested
    <3> HIDE DEF k, q
    <3>4. pending'[s][l] \subseteq pending[s][l] \cup q
      BY <1>1, <3>1, <3>3
    <3> QED BY <3>2, <3>4, PendingIsUncommitted
  <2>3. Uncommitted' \subseteq Uncommitted
    BY <2>2, UncommittedAfter
  <2> QED BY <1>1, <2>1, <2>3, QuietStore
<1>6. CASE GetNCChangesEnd(t)
  <2>1. /\ UNCHANGED <<up, gusnEC, committed, disk, image, issued, pending>>
        /\ published' = published \cup {w \in snapshot[t] : w[1] # Remote}
        /\ \A s \in Threads : snapshot'[s] \subseteq snapshot[s]
    BY <1>1, <1>6 DEF GetNCChangesEnd, memory, store
  <2>2. Uncommitted' = Uncommitted /\ NextUsn' = NextUsn /\ NextUsn \in Nat
    BY <1>1, <2>1, NextUsnType DEF Uncommitted, NextUsn
  <2>3. NextUsn <= NextUsn'
    BY <2>2
  <2> QED BY <1>2, <2>1, <2>2, <2>3, SameClaims
<1>7. CASE GetNCChangesBegin(t)
  <2>1. /\ UNCHANGED <<up, gusnEC, committed, image, issued, published, pending>>
        /\ disk' = [disk EXCEPT !.db = committed]
        /\ \A s \in Threads : snapshot'[s] \subseteq committed
    <3>1. \A s \in Threads : snapshot[s] \subseteq committed
      BY <1>2
    <3> QED BY <1>1, <1>7, <3>1 DEF GetNCChangesBegin, memory, history
  <2>2. /\ disk'.db = committed /\ disk'.id = disk.id
        /\ disk'.backupUsn = disk.backupUsn /\ disk'.retired = disk.retired
    BY <1>1, <2>1 DEF Disks
  <2>3. Uncommitted' = Uncommitted /\ NextUsn' = NextUsn /\ NextUsn \in Nat
    <3>1. up = "up"
      BY <1>7 DEF GetNCChangesBegin
    <3> QED BY <1>1, <2>1, <3>1 DEF Uncommitted, NextUsn
  <2>4. NextUsn <= NextUsn'
    BY <2>3
  <2> QED BY <1>2, <2>1, <2>2, <2>3, <2>4, SameClaims
<1>8. CASE DBRepl(t)
  <2> DEFINE w == <<IF fDRA[t] THEN Remote ELSE InvocationID[t], gusnEC>>
  <2>1. /\ up = "up" /\ up' = "up" /\ gusnEC' = gusnEC + 1
        /\ UNCHANGED <<committed, image, published, snapshot>>
        /\ issued' = issued \cup {<<InvocationID[t], gusnEC>>}
        /\ pending' = [pending EXCEPT ![t][transLevel[t]] = @ \cup {w}]
    BY <1>8 DEF DBRepl, DBGetNewUsn
  <2>2. w[2] = gusnEC /\ (w[1] # Remote => w \in issued')
    BY <2>1
  <2> HIDE DEF w
  <2>3. /\ disk'.db = disk.db \/ disk'.db = committed
        /\ disk'.id = disk.id
        /\ disk'.backupUsn = disk.backupUsn /\ disk'.retired = disk.retired
    BY <1>1, <1>8 DEF DBRepl, DBGetNewUsn, DBReplaceHiddenUSN, Disks
  <2>4. NextUsn = gusnEC /\ NextUsn <= NextUsn'
    BY <1>1, <2>1 DEF NextUsn
  <2>5. \A s \in Threads, l \in Levels : pending'[s][l] \subseteq Uncommitted \cup {w}
    <3>1. \A s \in Threads, l \in Levels : pending'[s][l] \subseteq pending[s][l] \cup {w}
      BY <1>1, <2>1
    <3> QED BY <3>1, PendingIsUncommitted
  <2>6. Uncommitted' \subseteq Uncommitted \cup {w}
    BY <2>5, UncommittedAfter
  <2>7. \A v \in Uncommitted' :
           \/ v \in Uncommitted
           \/ v[2] = NextUsn /\ (v[1] # Remote => v \in issued')
    BY <2>2, <2>4, <2>6
  <2>8. disk.db \subseteq disk'.db /\ disk'.db \subseteq committed
        /\ \A s \in Threads : snapshot'[s] \subseteq disk'.db
    BY <1>2, <2>1, <2>3
  <2> QED BY <2>1, <2>3, <2>4, <2>7, <2>8, SameClaims
<1>9. ASSUME NEW fCommit \in BOOLEAN, NEW fLazy \in BOOLEAN, DBTransOut(t, fCommit, fLazy)
      PROVE  StoreStep
  <2>1. /\ up = "up" /\ UNCHANGED <<up, gusnEC, image, issued, published, snapshot>>
        /\ pending' = [pending EXCEPT ![t][1] = {}]
    BY <1>9 DEF DBTransOut, memory, history
  <2>2. committed \subseteq committed' /\ committed' \subseteq committed \cup Uncommitted
    BY <1>3, <1>9 DEF DBTransOut, JetCommit
  <2>3. /\ disk'.db = disk.db \/ disk'.db = committed'
        /\ disk'.id = disk.id
        /\ disk'.backupUsn = disk.backupUsn /\ disk'.retired = disk.retired
    BY <1>1, <1>9 DEF DBTransOut, Disks
  <2>4. disk.db \subseteq disk'.db /\ disk'.db \subseteq committed'
        /\ \A s \in Threads : snapshot'[s] \subseteq disk'.db
    BY <1>2, <2>1, <2>2, <2>3
  <2>5. Uncommitted' \subseteq Uncommitted
    <3>1. \A s \in Threads, l \in Levels : pending'[s][l] \subseteq pending[s][l]
      BY <1>1, <1>3, <2>1
    <3> QED BY <3>1, PendingIsUncommitted, UncommittedAfter
  <2>6. NextUsn <= NextUsn'
    BY <1>1, <2>1 DEF NextUsn
  <2> QED BY <2>1, <2>2, <2>3, <2>4, <2>5, <2>6, SameClaims
<1> DEFINE u == usnRead[t]
<1>10. u \in Nat
  BY DEF UsnInv, TypeInv, TypeOK
<1>11. CASE DBReplaceHiddenTableBackupCols(t)
  <2>1. /\ up = "up" /\ UNCHANGED <<up, gusnEC, committed, image, issued, published, snapshot, pending>>
        /\ disk' = [disk EXCEPT !.backupUsn = u, !.db = committed]
    BY <1>11 DEF DBReplaceHiddenTableBackupCols, memory, history
  <2>2. /\ disk'.db = committed /\ disk'.id = disk.id
        /\ disk'.backupUsn = u /\ disk'.retired = disk.retired
    BY <1>1, <2>1 DEF Disks
  <2>3. Uncommitted' = Uncommitted /\ NextUsn <= NextUsn'
    BY <1>1, <2>1 DEF Uncommitted, NextUsn
  <2>4. \A usn \in Nat :
          ClaimedBelow(disk, usn) /\ (\A s \in Threads : usnRead[s] < usn)
            => ClaimedBelow(disk', usn)
    BY <2>2 DEF ClaimedBelow
  <2>5. \A w \in published : Claims(disk', w) => Claims(disk, w) \/ w[1] = disk.id
    BY <2>2 DEF Claims
  <2>6. ~disk.restoring /\ Live(disk.id)
    BY <2>1 DEF Live, IdInv, NotUpIdle
  <2>7. \A w \in published : Claims(disk', w) => \/ Claims(disk, w)
                                                 \/ ~disk.restoring /\ Live(w[1])
    BY <2>5, <2>6
  <2>8. \A s \in Threads : snapshot'[s] \subseteq disk'.db
    BY <1>2, <2>1, <2>2
  <2> QED BY <1>2, <2>1, <2>2, <2>3, <2>4, <2>7, <2>8 DEF StoreStep
<1>12. ASSUME NEW fCommit \in BOOLEAN, RetireOut(t, fCommit)
       PROVE  StoreStep
  <2>1. /\ up = "up" /\ UNCHANGED <<up, gusnEC, image, issued, published, snapshot>>
        /\ pending' = [pending EXCEPT ![t][1] = {}]
    BY <1>12 DEF RetireOut, memory, history
  <2>2. Uncommitted' \subseteq Uncommitted
    <3>1. \A s \in Threads, l \in Levels : pending'[s][l] \subseteq pending[s][l]
      BY <1>1, <1>3, <2>1
    <3> QED BY <3>1, PendingIsUncommitted, UncommittedAfter
  <2>3. NextUsn <= NextUsn'
    BY <1>1, <2>1 DEF NextUsn
  <2>4. CASE UNCHANGED <<committed, disk>>
    BY <1>2, <2>1, <2>2, <2>3, <2>4, SameClaims
  <2>5. CASE /\ JetCommit(t)
             /\ disk' = [disk EXCEPT !.db = committed', !.id = InvocationID[t],
                                     !.retired[disk.id] = u]
    <3>1. committed \subseteq committed' /\ committed' \subseteq committed \cup Uncommitted
      BY <1>3, <2>5 DEF JetCommit
    <3>2. /\ disk'.db = committed' /\ disk'.id = InvocationID[t]
          /\ disk'.backupUsn = disk.backupUsn
          /\ disk'.retired = [disk.retired EXCEPT ![disk.id] = u]
      BY <1>1, <2>5 DEF Disks
    <3>3. /\ disk.retired \in [Ids -> Nat] /\ disk.id \in Ids
          /\ \A i \in Ids : disk'.retired[i] = IF i = disk.id THEN u ELSE disk.retired[i]
      BY <1>1, <3>2 DEF Disks
    <3>4. \A usn \in Nat :
            ClaimedBelow(disk, usn) /\ (\A s \in Threads : usnRead[s] < usn)
              => ClaimedBelow(disk', usn)
      BY <3>2, <3>3 DEF ClaimedBelow
    <3>5. Live(disk.id) /\ Live(InvocationID[t]) /\ ~disk.restoring
      <4>1. transLevel[t] = 1
        BY <1>1, <1>12 DEF RetireOut, TypeInv, RetireLevel
      <4> QED BY <2>1, <4>1 DEF Live, IdInv, NotUpIdle
    <3>6. ASSUME NEW w \in published, Claims(disk', w)
          PROVE  Claims(disk, w) \/ (~disk.restoring /\ Live(w[1]))
      <4>1. w \in Writes
        BY DEF UsnInv, TypeInv, TypeOK
      <4>2. w[1] # Remote => w[1] \in Ids
        BY <4>1 DEF Writes
      <4>3. Claims(disk, w) \/ w[1] = disk.id \/ w[1] = InvocationID[t]
        BY <3>2, <3>3, <3>6, <4>2 DEF Claims
      <4> QED BY <3>5, <4>3
    <3>7. disk.db \subseteq committed' /\ \A s \in Threads : snapshot'[s] \subseteq disk'.db
      BY <1>2, <2>1, <3>1, <3>2
    <3> QED BY <2>1, <2>2, <2>3, <3>1, <3>2, <3>4, <3>6, <3>7 DEF StoreStep
  <2> QED BY <1>12, <2>4, <2>5 DEF RetireOut
<1> QED
  BY <1>4, <1>5, <1>6, <1>7, <1>8, <1>9, <1>11, <1>12 DEF ThreadNext

\* So are the flush of the log, a crash and a boot.
LEMMA ServerStores ==
  ASSUME UsnInv, IdInv, ClaimInv, JetFlushLog \/ Crash \/ InitDSAInfo
  PROVE  StoreStep
<1>1. TypeInv /\ disk \in Disks /\ gusnEC \in Nat /\ disk.usn \in Nat
  BY DEF IdInv, TypeInv, TypeOK, Disks
<1>2. disk.db \subseteq committed /\ \A s \in Threads : snapshot[s] \subseteq disk.db
  BY DEF ClaimInv, OnDisk
<1>3. /\ image' = image /\ issued' = issued /\ published' = published
      /\ committed' \subseteq committed
  BY <1>2 DEF JetFlushLog, Crash, InitDSAInfo, history
<1>4. /\ disk.db \subseteq disk'.db /\ disk'.db \subseteq committed'
      /\ disk'.id = disk.id
      /\ disk'.backupUsn = disk.backupUsn /\ disk'.retired = disk.retired
  BY <1>1, <1>2 DEF JetFlushLog, Crash, InitDSAInfo, DBReplaceHiddenUSN, Disks
<1>5. \A s \in Threads : snapshot'[s] \subseteq disk'.db
  BY <1>2, <1>4 DEF JetFlushLog, Crash, InitDSAInfo, threads, IdleThreads
<1>6. Uncommitted' \subseteq Uncommitted
  <2>1. CASE pending' = pending
    BY <2>1 DEF Uncommitted
  <2>2. CASE pending' = [t \in Threads |-> [l \in Levels |-> {}]]
    <3>1. \A s \in Threads, l \in Levels : pending'[s][l] \subseteq Uncommitted
      BY <2>2
    <3> QED BY <3>1, UncommittedAfter
  <2> QED BY <2>1, <2>2 DEF JetFlushLog, Crash, InitDSAInfo, threads, IdleThreads
<1>7. NextUsn <= NextUsn'
  <2>1. CASE JetFlushLog
    BY <1>1, <2>1 DEF JetFlushLog, memory, NextUsn
  <2>2. CASE Crash
    <3>1. gusnEC <= disk.usn /\ up # "down" /\ up' = "down" /\ disk' = disk
      BY <2>2 DEF Crash, IdInv, HiddenAhead
    <3> QED BY <1>1, <3>1 DEF NextUsn
  <2>3. CASE InitDSAInfo
    <3>1. up = "down" /\ up' # "down" /\ gusnEC' = disk.usn
      BY <2>3 DEF InitDSAInfo
    <3> QED BY <1>1, <3>1 DEF NextUsn
  <2> QED BY <2>1, <2>2, <2>3
<1> QED BY <1>3, <1>4, <1>5, <1>6, <1>7, SameClaims

\* A backup claims what the disk does.
LEMMA BackupKeepsClaims ==
  ASSUME UsnInv, IdInv, ClaimInv, BackupCopy
  PROVE  ClaimInv'
<1>1. /\ up = "up" /\ image' = disk
      /\ UNCHANGED <<up, gusnEC, curId, phase, transLevel, InvocationID, pending, snapshot,
                     committed, disk, issued, published>>
  BY DEF BackupCopy, memory, threads, history
<1>2. disk \in Disks /\ gusnEC \in Nat /\ disk.usn \in Nat
  BY DEF IdInv, TypeInv, TypeOK, Disks
<1>3. Uncommitted' = Uncommitted /\ NextUsn' = NextUsn /\ NextUsn = gusnEC
  BY <1>1 DEF Uncommitted, NextUsn
<1>4. OnDisk' /\ PublishedIsKept'
  BY <1>1 DEF ClaimInv, OnDisk, PublishedIsKept, Live
<1>5. OwnAreIssued'
  BY <1>1, <1>3 DEF ClaimInv, OnDisk, OwnAreIssued
<1>6. ClaimsBelow'
  <2>1. ClaimedBelow(disk, gusnEC) /\ \A w \in Uncommitted : ClaimedBelow(disk, w[2])
    BY <1>3 DEF ClaimInv, ClaimsBelow
  <2>2. gusnEC <= disk.usn
    BY <1>1 DEF IdInv, HiddenAhead
  <2>3. ClaimedBelow(disk, disk.usn)
    BY <1>2, <2>1, <2>2, ClaimedBelowLater
  <2> QED BY <1>1, <1>3, <2>1, <2>3 DEF ClaimsBelow, ClaimedBelow
<1>7. Sound(disk)' /\ Sound(image)'
  BY <1>1 DEF ClaimInv, Sound, Claims
<1> QED BY <1>4, <1>5, <1>6, <1>7 DEF ClaimInv

\* A backup that is put back has what it claims.
LEMMA RestoreKeepsClaims ==
  ASSUME UsnInv, IdInv, ClaimInv, Restore
  PROVE  ClaimInv'
<1>1. /\ up = "down" /\ up' = "down" /\ disk' = [image EXCEPT !.restoring = TRUE]
      /\ committed' = image.db /\ UNCHANGED <<image, issued, published>>
      /\ \A t \in Threads : snapshot'[t] = {}
      /\ \A t \in Threads, l \in Levels : pending'[t][l] = {}
  BY DEF Restore, IdleThreads, history
<1>2. image \in Disks
  BY DEF IdInv, TypeInv, TypeOK
<1>3. /\ disk'.db = image.db /\ disk'.id = image.id /\ disk'.usn = image.usn
      /\ disk'.backupUsn = image.backupUsn /\ disk'.retired = image.retired
      /\ disk'.restoring
  BY <1>1, <1>2 DEF Disks
<1>4. Uncommitted' = {} /\ NextUsn' = image.usn
  BY <1>1, <1>3 DEF Uncommitted, NextUsn
<1>5. OnDisk' /\ PublishedIsKept'
  BY <1>1, <1>3 DEF OnDisk, PublishedIsKept
<1>6. OwnAreIssued'
  BY <1>1, <1>4 DEF ClaimInv, OwnAreIssued
<1>7. ClaimsBelow'
  <2>1. ClaimedBelow(image, image.usn)
    BY DEF ClaimInv, ClaimsBelow
  <2> QED BY <1>1, <1>3, <1>4, <2>1 DEF ClaimsBelow, ClaimedBelow
<1>8. Sound(disk)' /\ Sound(image)'
  <2> SUFFICES ASSUME NEW w \in published \cup image.db, Claims(image, w)
               PROVE  w \in image.db
    BY <1>1, <1>3 DEF Sound, Claims
  <2> QED BY DEF ClaimInv, Sound
<1> QED BY <1>5, <1>6, <1>7, <1>8 DEF ClaimInv

\* HandleRestore retires the id of the backup at what the backup claimed for it.
LEMMA HandleRestoreKeepsClaims ==
  ASSUME UsnInv, IdInv, ClaimInv, NEW id \in NewIds, HandleRestore(id)
  PROVE  ClaimInv'
<1> DEFINE w0 == <<id, gusnEC>>
<1>1. /\ up = "boot" /\ up' = "up" /\ gusnEC' = gusnEC + 1 /\ curId' = id
      /\ issued' = issued \cup {w0} /\ committed' = committed \cup {w0}
      /\ UNCHANGED <<image, published, pending, snapshot, transLevel, phase>>
      /\ disk' = [disk EXCEPT !.db = committed', !.id = id, !.restoring = FALSE,
                              !.retired[disk.id] = disk.backupUsn]
  BY DEF HandleRestore, threads
<1>2. /\ disk \in Disks /\ image \in Disks /\ gusnEC \in Nat /\ id \in Ids
      /\ published \subseteq Writes /\ committed \subseteq Writes
  BY DEF IdInv, TypeInv, TypeOK, NewIds
<1>3. /\ disk'.db = committed' /\ disk'.id = id
      /\ disk'.backupUsn = disk.backupUsn
      /\ disk'.retired = [disk.retired EXCEPT ![disk.id] = disk.backupUsn]
  BY <1>1, <1>2 DEF Disks
<1>4. /\ disk.backupUsn \in Nat /\ disk.retired \in [Ids -> Nat] /\ disk.id \in Ids
      /\ \A i \in Ids : disk'.retired[i] = IF i = disk.id THEN disk.backupUsn
                                                         ELSE disk.retired[i]
  BY <1>2, <1>3 DEF Disks
<1>5. \A w \in issued : w[1] # id
  BY DEF NewIds, UsedIds
<1>6. w0 \in Writes /\ w0[1] = id /\ w0[2] = gusnEC
  BY <1>2 DEF Writes
<1> HIDE DEF w0
<1>7. /\ NextUsn = gusnEC /\ NextUsn' = gusnEC + 1 /\ Uncommitted' = Uncommitted
  BY <1>1 DEF NextUsn, Uncommitted
<1>8. Uncommitted = {}
  BY <1>1 DEF UsnInv, ThreadsIdle, Uncommitted
<1>9. \A usn \in Nat : ClaimedBelow(disk, usn) => ClaimedBelow(disk', usn)
  BY <1>3, <1>4 DEF ClaimedBelow
<1>10. OnDisk'
  BY <1>1, <1>3 DEF ClaimInv, OnDisk
<1>11. OwnAreIssued'
  BY <1>1, <1>7 DEF ClaimInv, OwnAreIssued
<1>12. ClaimsBelow'
  <2>1. ClaimedBelow(disk', gusnEC) /\ ClaimedBelow(image, gusnEC)
    BY <1>2, <1>7, <1>9 DEF ClaimInv, ClaimsBelow
  <2>2. disk' \in Disks
    <3>1. committed' \subseteq Writes
      BY <1>1, <1>2, <1>6
    <3>2. [disk.retired EXCEPT ![disk.id] = disk.backupUsn] \in [Ids -> Nat]
      BY <1>4
    <3> QED BY <1>1, <1>2, <3>1, <3>2 DEF Disks
  <2>3. gusnEC + 1 \in Nat /\ gusnEC <= gusnEC + 1
    BY <1>2
  <2>4. ClaimedBelow(disk', gusnEC + 1) /\ ClaimedBelow(image, gusnEC + 1)
    BY <1>2, <2>1, <2>2, <2>3, ClaimedBelowLater
  <2>5. ClaimedBelow(image, image.usn)
    BY DEF ClaimInv, ClaimsBelow
  <2> QED BY <1>1, <1>7, <1>8, <2>4, <2>5 DEF ClaimsBelow, ClaimedBelow
<1>13. PublishedIsKept'
  <2> SUFFICES ASSUME NEW w \in published, Live(w[1])' PROVE FALSE
    BY <1>1 DEF PublishedIsKept
  <2>1. \A t \in Threads : transLevel'[t] = 0 /\ phase'[t] = "closed"
    BY <1>1 DEF IdInv, NotUpIdle
  <2>2. w[1] = id
    BY <1>1, <1>3, <2>1 DEF Live
  <2>3. w \in issued
    BY DEF ClaimInv, OwnAreIssued
  <2> QED BY <1>5, <2>2, <2>3
<1>14. Sound(disk)'
  <2> SUFFICES ASSUME NEW w \in published \cup committed', Claims(disk', w)
               PROVE  w \in committed'
    BY <1>1, <1>3 DEF Sound, Claims
  <2>1. CASE w \in committed'
    BY <2>1
  <2>2. CASE w \in published
    <3>1. w \in issued /\ w \in Writes
      BY <1>2, <2>2 DEF ClaimInv, OwnAreIssued
    <3>2. w[1] # id /\ (w[1] # Remote => w[1] \in Ids)
      BY <1>5, <3>1 DEF Writes
    <3>3. Claims(disk, w)
      BY <1>3, <1>4, <3>2 DEF Claims
    <3>4. w \in disk.db
      BY <2>2, <3>3 DEF ClaimInv, Sound
    <3> QED BY <1>1, <3>4 DEF ClaimInv, OnDisk
  <2> QED BY <2>1, <2>2
<1>15. Sound(image)'
  <2> SUFFICES ASSUME NEW w \in published \cup committed', Claims(image, w)
               PROVE  w \in image.db
    BY <1>1 DEF Sound, Claims
  <2>1. ClaimedBelow(image, w0[2])
    BY <1>6, <1>7 DEF ClaimInv, ClaimsBelow
  <2>2. w # w0
    BY <1>2, <1>6, <2>1, NotClaimed
  <2> QED BY <1>1, <2>2 DEF ClaimInv, Sound
<1> QED BY <1>10, <1>11, <1>12, <1>13, <1>14, <1>15 DEF ClaimInv

LEMMA InitClaimInv == Init => ClaimInv
<1> SUFFICES ASSUME Init PROVE ClaimInv
  OBVIOUS
<1>1. /\ up = "up" /\ gusnEC = 1 /\ committed = {} /\ published = {} /\ issued = {}
      /\ image = disk
      /\ \A t \in Threads : snapshot[t] = {} /\ \A l \in Levels : pending[t][l] = {}
  BY DEF Init
<1>2. /\ disk.db = {} /\ disk.usn = 1 + USN_DELTA_INIT /\ disk.backupUsn = 0
      /\ \A i \in Ids : disk.retired[i] = 0
  BY DEF Init
<1>3. Uncommitted = {} /\ NextUsn = 1
  BY <1>1 DEF Uncommitted, NextUsn
<1>4. ClaimedBelow(disk, 1) /\ ClaimedBelow(disk, disk.usn)
  BY <1>2, DeltaAssumption DEF ClaimedBelow
<1> QED BY <1>1, <1>2, <1>3, <1>4
  DEF ClaimInv, OnDisk, OwnAreIssued, ClaimsBelow, PublishedIsKept, Sound

LEMMA StepClaimInv == UsnInv /\ IdInv /\ ClaimInv /\ [Next]_vars => ClaimInv'
<1> SUFFICES ASSUME UsnInv, IdInv, ClaimInv, [Next]_vars PROVE ClaimInv'
  OBVIOUS
<1>1. TypeInv /\ TypeInv'
  BY StepTypeInv DEF IdInv
<1>2. CASE \E t \in Threads : ThreadNext(t)
  BY <1>1, <1>2, ThreadStores, StoreStepKeepsClaims
<1>3. CASE JetFlushLog \/ Crash \/ InitDSAInfo
  BY <1>1, <1>3, ServerStores, StoreStepKeepsClaims
<1>4. CASE BackupCopy
  BY <1>4, BackupKeepsClaims
<1>5. CASE Restore
  BY <1>5, RestoreKeepsClaims
<1>6. CASE \E id \in NewIds : HandleRestore(id)
  BY <1>6, HandleRestoreKeepsClaims
<1>7. CASE UNCHANGED vars
  <2>1. /\ UNCHANGED <<up, gusnEC, committed, disk, image, issued, published, snapshot>>
        /\ Uncommitted' \subseteq Uncommitted
    BY <1>7 DEF vars, memory, threads, store, history, Uncommitted
  <2> QED BY <1>1, <2>1, QuietStore, StoreStepKeepsClaims
<1> QED BY <1>2, <1>3, <1>4, <1>5, <1>6, <1>7 DEF Next

\* What the server claims to have of its own changes that partners have seen, it
\* has: through lazy commits lost in a crash, backups put back, and the retirement
\* of invocation ids under which other threads go on writing (UpToDateVec_Read,
\* draRetireInvocationID).
THEOREM OwnClaimIsSound == Spec => []OwnClaimSound
<1>1. IdInv /\ ClaimInv => OwnClaimSound
  <2> SUFFICES ASSUME IdInv, ClaimInv, up = "up", NEW w \in published, w[2] <= Claim(w[1])
               PROVE  w \in committed
    BY DEF OwnClaimSound
  <2>1. ~disk.restoring /\ w[1] # Remote
    BY DEF IdInv, NotUpIdle, ClaimInv, OwnAreIssued
  <2>2. CASE w[1] = curId
    <3>1. Live(w[1])
      BY <2>2 DEF Live
    <3> QED BY <2>1, <3>1 DEF ClaimInv, PublishedIsKept, OnDisk
  <2>3. CASE w[1] # curId
    <3>1. Claims(disk, w)
      BY <2>1, <2>3 DEF Claim, Claims
    <3> QED BY <3>1 DEF ClaimInv, Sound, OnDisk
  <2> QED BY <2>2, <2>3
<1>2. Spec => []ClaimInv
  BY UsnInvariant, IdInvariant, InitClaimInv, StepClaimInv, PTL DEF Spec
<1> QED BY <1>1, <1>2, IdInvariant, PTL
=============================================================================
