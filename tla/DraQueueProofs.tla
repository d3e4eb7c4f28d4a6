--------------------------- MODULE DraQueueProofs ---------------------------
(***************************************************************************)
(* Proofs about DraQueue, for any links, callers and requests.             *)
(***************************************************************************)
EXTENDS DraQueue, InitSyncProofs, WellFoundedInduction, SequenceTheorems

-----------------------------------------------------------------------------
(* The inductive invariant, one named part per idea.                       *)

\* What the worker holds in each of its phases.
Holding ==
  /\ w.op = NoOp <=> w.pc \in {"setup", "wait", "get", "exit"}
  /\ w.pc # "queue" => w.todo = <<>>
  /\ w.pc \notin {"queue", "report"} => w.report = <<>>
  /\ w.pc = "report" => w.report # <<>>
  /\ w.pc = "unref" => Link(w.op) \notin DOMAIN reps

\* Nobody waits for an asynchronous operation.
OpOK(op) == op # NoOp /\ Async(op) => op.client = Nobody

\* A sync the worker enqueues: asynchronous, of one source, no notification.
TodoOK(r) == r.kind = "sync" /\ Async(r) /\ r.opts \cap {"all", "notify"} = {}

OpsOK ==
  /\ \A i \in DOMAIN queue : OpOK(queue[i])
  /\ OpOK(w.op)
  /\ \A i \in DOMAIN w.todo : TodoOK(w.todo[i])
  /\ \A c \in Clients : client[c].pc = "ready" =>
       /\ client[c].op \in Ops /\ OpOK(client[c].op)
       /\ Async(client[c].op) \/ client[c].op.client = c
  /\ task.pc = "push" => task.op \in Ops /\ OpOK(task.op) /\ Async(task.op)

\* The worker starts when all links were read.
BootFirst ==
  /\ task.setup <=> task.pc # "boot"
  /\ task.pc = "boot" => /\ w.pc = "setup" /\ Fresh(init)
                         /\ \A l \in Links : Contains(init.data[l[1]].sources, l[2]) => l \in task.read

\* Whoever says that the server is synchronised saw the domain's vector.
SawDomain == init.synchronized => DomainNC \in vecs

\* Calls for all sources are not marked periodic.
OneSource(op) == op # NoOp /\ "per" \in op.opts => "all" \notin op.opts
PeriodicIsOne ==
  /\ \A i \in DOMAIN queue : OneSource(queue[i])
  /\ OneSource(w.op)
  /\ \A c \in Clients : OneSource(client[c].op)
  /\ OneSource(task.op)

\* The sync that covers an owed link is asynchronous.
AsyncCovers ==
  shutdown \/ \A l \in owed : \E op \in ToCome : Async(op) /\ Attempts(op, l)

-----------------------------------------------------------------------------
(* The queue.                                                              *)

\* Keep drops the operations at the positions S, and no others.
LEMMA KeepOK ==
  ASSUME queue \in Seq(Ops), NEW S \in SUBSET DOMAIN queue
  PROVE  /\ Keep(S) \in Seq(Ops)
         /\ IsFiniteSet(S) /\ Cardinality(S) \in Nat
         /\ Len(Keep(S)) = Len(queue) - Cardinality(S)
         /\ ToSet(Keep(S)) = {queue[i] : i \in DOMAIN queue \ S}
<1> DEFINE D == DOMAIN queue \ S
           idx == Ascending(D)
           n == Cardinality(D)
<1>1. Len(queue) \in Nat /\ DOMAIN queue = 1 .. Len(queue)
  OBVIOUS
<1>2. IsFiniteSet(DOMAIN queue) /\ Cardinality(DOMAIN queue) = Len(queue)
  <2>1. /\ IsFiniteSet(1 .. Len(queue))
        /\ Cardinality(1 .. Len(queue)) = IF 1 > Len(queue) THEN 0 ELSE Len(queue) - 1 + 1
    BY <1>1, FS_Interval
  <2>2. QED
    BY <1>1, <2>1
<1>3. IsFiniteSet(S) /\ Cardinality(S) \in Nat
  BY <1>2, FS_Subset, FS_CardinalityType
<1>4. D \in SUBSET Nat /\ D \subseteq DOMAIN queue
  BY <1>1
<1>5. IsFiniteSet(D) /\ n = Len(queue) - Cardinality(S)
  <2>1. IsFiniteSet(D) /\ n \in Nat
    BY <1>2, <1>4, FS_Subset, FS_CardinalityType
  <2>2. D \cup S = DOMAIN queue /\ D \cap S = {}
    OBVIOUS
  <2>3. Cardinality(D \cup S) = Cardinality(D) + Cardinality(S) - Cardinality(D \cap S)
    BY <2>1, <1>3, FS_Union
  <2>4. Cardinality({}) = 0
    BY FS_EmptySet
  <2> HIDE DEF D
  <2>5. Len(queue) = Cardinality(D) + Cardinality(S) - 0
    BY <2>2, <2>3, <2>4, <1>2
  <2>6. QED
    BY <2>1, <2>5, <1>3, <1>1
<1>6. /\ n \in Nat /\ idx \in [1 .. n -> D]
      /\ \A i \in D : \E k \in 1 .. n : idx[k] = i
  BY <1>4, <1>5, AscendingLists
<1>7. Keep(S) = [j \in DOMAIN idx |-> queue[idx[j]]]
  BY DEF Keep
<1> HIDE DEF idx, n, D
<1>8. Keep(S) \in [1 .. n -> Ops]
  <2>1. \A j \in 1 .. n : idx[j] \in D /\ queue[idx[j]] \in Ops
    <3>1. \A i \in DOMAIN queue : queue[i] \in Ops
      BY ElementOfSeq, <1>1
    <3>2. QED
      BY <3>1, <1>4, <1>6
  <2>2. DOMAIN idx = 1 .. n
    BY <1>6
  <2>3. QED
    BY <2>1, <2>2, <1>7
<1>9. Keep(S) \in Seq(Ops) /\ Len(Keep(S)) = n /\ DOMAIN Keep(S) = 1 .. n
  BY <1>6, <1>8
<1>10. ToSet(Keep(S)) = {queue[i] : i \in D}
  <2>1. \A j \in 1 .. n : Keep(S)[j] = queue[idx[j]] /\ idx[j] \in D
    BY <1>6, <1>7
  <2>2. \A i \in D : \E j \in 1 .. n : Keep(S)[j] = queue[i]
    BY <2>1, <1>6
  <2>3. QED
    BY <2>1, <2>2, <1>9 DEF ToSet
<1>11. QED
  BY <1>3, <1>5, <1>9, <1>10 DEF D, n

\* A nonempty set of numbers has a least element.
LEMMA MinOK ==
  ASSUME NEW S \in SUBSET Nat, S # {}
  PROVE  Min(S) \in S
<1>1. PICK m \in S : \A j \in S : <<j, m>> \notin OpToRel(<, Nat)
  BY NatLessThanWellFounded, WFMin
<1>2. \A j \in S : m <= j
  <2> SUFFICES ASSUME NEW j \in S PROVE m <= j
    OBVIOUS
  <2>1. j \in Nat /\ m \in Nat
    OBVIOUS
  <2>2. ~(j < m)
    BY <2>1, <1>1 DEF OpToRel
  <2>3. QED
    BY <2>1, <2>2
<1>3. QED
  BY <1>2 DEF Min

\* Insert adds one operation.
LEMMA InsertOK ==
  ASSUME NEW q \in Seq(Ops), NEW op \in Ops
  PROVE  /\ Insert(q, op) \in Seq(Ops)
         /\ Len(Insert(q, op)) = Len(q) + 1
         /\ ToSet(Insert(q, op)) = ToSet(q) \cup {op}
<1> DEFINE S == {i \in DOMAIN q : q[i].pri < op.pri}
           p == IF S = {} THEN Len(q) + 1 ELSE Min(S)
           n == Len(q)
           r == InsertAt(q, p, op)
<1>1. n \in Nat /\ DOMAIN q = 1 .. n /\ \A i \in 1 .. n : q[i] \in Ops
  OBVIOUS
<1>2. p \in 1 .. n + 1
  <2>1. CASE S = {}
    BY <2>1, <1>1
  <2>2. CASE S # {}
    <3>1. S \in SUBSET Nat /\ S \subseteq 1 .. n
      BY <1>1
    <3>2. Min(S) \in S
      BY <2>2, <3>1, MinOK
    <3>3. QED
      BY <2>2, <3>1, <3>2
  <2>3. QED
    BY <2>1, <2>2
<1>3. Insert(q, op) = r
  BY DEF Insert
<1> HIDE DEF p, S
<1> DEFINE a == SubSeq(q, 1, p - 1)
           b == SubSeq(q, p, n)
<1>4. /\ a \in Seq(Ops) /\ Len(a) = p - 1 /\ \A i \in 1 .. p - 1 : a[i] = q[i]
      /\ b \in Seq(Ops) /\ Len(b) = n - p + 1 /\ \A i \in 1 .. n - p + 1 : b[i] = q[i + p - 1]
  BY <1>1, <1>2
<1>5. r = a \o <<op>> \o b
  BY DEF InsertAt
<1> HIDE DEF r
<1>6. /\ r \in Seq(Ops) /\ Len(r) = n + 1
      /\ \A i \in 1 .. n + 1 : r[i] = IF i < p THEN q[i] ELSE IF i = p THEN op ELSE q[i - 1]
  <2> DEFINE c == a \o <<op>>
  <2> HIDE DEF a, b, n
  <2>1. /\ c \in Seq(Ops) /\ Len(c) = p
        /\ \A i \in 1 .. p : c[i] = IF i < p THEN q[i] ELSE op
    BY <1>4, <1>2, <1>1
  <2>2. r = c \o b
    BY <1>5
  <2> HIDE DEF c
  <2>3. b \in Seq(Ops) /\ Len(b) = n - p + 1
    BY <1>4
  <2>6. /\ r \in Seq(Ops) /\ Len(r) = Len(c) + Len(b)
        /\ \A i \in 1 .. Len(c) + Len(b) : r[i] = IF i <= Len(c) THEN c[i] ELSE b[i - Len(c)]
    BY <2>1, <2>2, <2>3, ConcatProperties
  <2>7. /\ Len(r) = n + 1
        /\ \A i \in 1 .. n + 1 : r[i] = IF i <= p THEN c[i] ELSE b[i - p]
    <3>1. Len(c) + Len(b) = n + 1 /\ Len(c) = p
      BY <2>1, <2>3, <1>1, <1>2
    <3>2. QED
      BY <3>1, <2>6
  <2>4. \A i \in 1 .. n + 1 : i > p => b[i - p] = q[i - 1]
    <3> SUFFICES ASSUME NEW i \in 1 .. n + 1, i > p PROVE b[i - p] = q[i - 1]
      OBVIOUS
    <3>1. i - p \in 1 .. n - p + 1 /\ (i - p) + p - 1 = i - 1
      BY <1>1, <1>2
    <3>2. QED
      BY <3>1, <1>4
  <2>5. \A i \in 1 .. n + 1 : i <= p => c[i] = IF i < p THEN q[i] ELSE op
    BY <2>1, <1>2
  <2>8. QED
    BY <2>4, <2>5, <2>6, <2>7, <1>1, <1>2
<1>7. ToSet(r) = ToSet(q) \cup {op}
  <2>1. DOMAIN r = 1 .. n + 1
    BY <1>6
  <2> HIDE DEF n
  <2>2. ASSUME NEW x \in ToSet(r) PROVE x \in ToSet(q) \cup {op}
    <3>1. PICK i \in 1 .. n + 1 : x = r[i]
      BY <2>1 DEF ToSet
    <3>2. x = op \/ \E j \in 1 .. n : x = q[j]
      <4>1. CASE i < p
        BY <4>1, <3>1, <1>1, <1>2, <1>6
      <4>2. CASE i = p
        BY <4>2, <3>1, <1>1, <1>2, <1>6
      <4>3. CASE i > p
        <5>1. i - 1 \in 1 .. n /\ x = q[i - 1]
          BY <4>3, <3>1, <1>1, <1>2, <1>6
        <5>2. QED
          BY <5>1
      <4>4. QED
        BY <4>1, <4>2, <4>3, <1>1, <1>2
    <3>3. QED
      BY <3>2, <1>1 DEF ToSet
  <2>3. op \in ToSet(r)
    <3>1. p \in DOMAIN r /\ r[p] = op
      BY <2>1, <1>1, <1>2, <1>6
    <3>2. QED
      BY <3>1 DEF ToSet
  <2>4. ASSUME NEW x \in ToSet(q) PROVE x \in ToSet(r)
    <3>1. PICK j \in 1 .. n : x = q[j]
      BY <1>1 DEF ToSet
    <3>2. \E i \in 1 .. n + 1 : r[i] = x
      <4>1. CASE j < p
        <5>1. j \in 1 .. n + 1 /\ r[j] = q[j]
          BY <4>1, <1>1, <1>2, <1>6
        <5>2. QED
          BY <5>1, <3>1
      <4>2. CASE j >= p
        <5>1. j + 1 \in 1 .. n + 1 /\ r[j + 1] = q[j]
          BY <4>2, <1>1, <1>2, <1>6
        <5>2. QED
          BY <5>1, <3>1
      <4>3. QED
        BY <4>1, <4>2, <1>1, <1>2
    <3>3. QED
      BY <3>2, <2>1 DEF ToSet
  <2>5. QED
    BY <2>2, <2>3, <2>4
<1>8. QED
  BY <1>3, <1>6, <1>7

\* The scan stops at a queued operation that stays in the queue.
LEMMA StopsAtOK ==
  ASSUME queue \in Seq(Ops), NEW op
  PROVE  /\ Removed(op) \in SUBSET DOMAIN queue
         /\ StopsAt(op) # 0 => /\ Discardable(op)
                               /\ StopsAt(op) \in DOMAIN queue \ Removed(op)
                               /\ Supersedes(queue[StopsAt(op)], op)
<1> DEFINE S == {i \in DOMAIN queue : Discardable(op) /\ Supersedes(queue[i], op)}
<1>1. S \in SUBSET Nat
  OBVIOUS
<1>2. StopsAt(op) # 0 => StopsAt(op) \in S
  BY <1>1, MinOK DEF StopsAt
<1>3. StopsAt(op) # 0 => StopsAt(op) \in Nat
  BY <1>1, <1>2
<1>4. StopsAt(op) # 0 => StopsAt(op) \notin Removed(op)
  BY <1>3 DEF Removed
<1>5. QED
  BY <1>2, <1>4 DEF Removed

\* Some queued asynchronous sync of q attempts link l.
CoveredBy(Q, l) == \E o \in Q : Async(o) /\ Attempts(o, l)

\* What AddAsyncOp does to the queue: the count follows it, only operations that
\* may be discarded leave it or are not added, what was covered stays covered,
\* and so is what the new operation attempts.
AddEffect(op) ==
  /\ queue' \in Seq(Ops)
  /\ gulpaocount' = gulpaocount + (Len(queue') - Len(queue))
  /\ hevEntries' \in BOOLEAN
  /\ queue' # <<>> => hevEntries'
  /\ ToSet(queue') \subseteq ToSet(queue) \cup {op}
  /\ \A o \in ToSet(queue) \cup {op} : Discardable(o) \/ o \in ToSet(queue')
  /\ \A l : CoveredBy(ToSet(queue) \cup {op}, l) => CoveredBy(ToSet(queue'), l)
  /\ owed' = owed \cup (IF Async(op) THEN Asks(op) ELSE {})

LEMMA AddAsyncOpOK ==
  ASSUME queue \in Seq(Ops), gulpaocount \in Nat, hevEntries \in BOOLEAN, WorkSignalled,
         NEW op \in Ops, AddAsyncOp(op)
  PROVE  AddEffect(op)
<1> DEFINE add == StopsAt(op) = 0
           rem == Removed(op)
           kept == Keep(rem)
<1>1. /\ queue' = IF add THEN Insert(kept, op) ELSE kept
      /\ gulpaocount' = gulpaocount - Cardinality(rem) + If(add, 1)
      /\ hevEntries' = (add \/ hevEntries)
      /\ owed' = owed \cup (IF Async(op) THEN Asks(op) ELSE {})
  BY DEF AddAsyncOp, CountAfter
<1>2. rem \in SUBSET DOMAIN queue
  BY StopsAtOK
<1>3. /\ kept \in Seq(Ops) /\ Cardinality(rem) \in Nat
      /\ Len(kept) = Len(queue) - Cardinality(rem)
      /\ ToSet(kept) = {queue[i] : i \in DOMAIN queue \ rem}
  BY <1>2, KeepOK
<1>4. /\ Insert(kept, op) \in Seq(Ops) /\ Len(Insert(kept, op)) = Len(kept) + 1
      /\ ToSet(Insert(kept, op)) = ToSet(kept) \cup {op}
  BY <1>3, InsertOK
<1>5. ~add => /\ Discardable(op) /\ StopsAt(op) \in DOMAIN queue \ rem
              /\ Supersedes(queue[StopsAt(op)], op)
  BY StopsAtOK
<1> HIDE DEF kept, rem, add
<1>6. queue' \in Seq(Ops)
  BY <1>1, <1>3, <1>4
<1>7. gulpaocount' = gulpaocount + (Len(queue') - Len(queue))
  <2>1. Len(queue) \in Nat
    OBVIOUS
  <2>2. CASE add
    BY <2>1, <2>2, <1>1, <1>3, <1>4 DEF If
  <2>3. CASE ~add
    BY <2>1, <2>3, <1>1, <1>3 DEF If
  <2>4. QED
    BY <2>2, <2>3
<1>8. hevEntries' \in BOOLEAN
  BY <1>1
<1>9. queue' # <<>> => hevEntries'
  <2>1. CASE add
    BY <2>1, <1>1
  <2>2. CASE ~add
    <3>1. queue # <<>>
      BY <2>2, <1>5
    <3>2. QED
      BY <3>1, <1>1 DEF WorkSignalled
  <2>3. QED
    BY <2>1, <2>2
<1>10. ToSet(kept) \subseteq ToSet(queue)
  BY <1>3 DEF ToSet
<1>11. ToSet(queue') = IF add THEN ToSet(kept) \cup {op} ELSE ToSet(kept)
  BY <1>1, <1>4
<1>12. \A i \in rem : Superseded(queue[i], op)
  BY DEF rem, Removed
<1>13. \A o \in ToSet(queue) : o \in ToSet(kept) \/ Superseded(o, op)
  BY <1>2, <1>3, <1>12 DEF ToSet
<1>14. ~add => \E o \in ToSet(kept) : Supersedes(o, op)
  BY <1>3, <1>5
<1>15. \A o \in ToSet(queue) \cup {op} : Discardable(o) \/ o \in ToSet(queue')
  <2>1. \A o \in ToSet(queue) : Discardable(o) \/ o \in ToSet(queue')
    BY <1>11, <1>13 DEF Superseded
  <2>2. Discardable(op) \/ op \in ToSet(queue')
    BY <1>5, <1>11
  <2>3. QED
    BY <2>1, <2>2
<1>16. ASSUME NEW l, Async(op), Attempts(op, l)
       PROVE  CoveredBy(ToSet(queue'), l)
  <2>1. CASE add
    BY <2>1, <1>11, <1>16 DEF CoveredBy
  <2>2. CASE ~add
    <3>1. PICK o \in ToSet(queue') : Supersedes(o, op)
      BY <2>2, <1>11, <1>14
    <3>2. Async(o) /\ Attempts(o, l)
      BY <3>1, <1>16 DEF Supersedes, Discardable, Attempts, Similar, SameSource
    <3>3. QED
      BY <3>2 DEF CoveredBy
  <2>3. QED
    BY <2>1, <2>2
<1>17. ASSUME NEW l, NEW o \in ToSet(queue), Async(o), Attempts(o, l)
       PROVE  CoveredBy(ToSet(queue'), l)
  <2>1. CASE o \in ToSet(queue')
    BY <2>1, <1>17 DEF CoveredBy
  <2>2. CASE o \notin ToSet(queue')
    <3>1. Superseded(o, op)
      BY <2>2, <1>11, <1>13
    <3>2. op.kind = "sync" /\ "all" \in op.opts /\ o.nc = op.nc
      BY <3>1 DEF Superseded, Similar
    <3>3. CASE add
      <4>1. StopsAt(op) = 0 /\ op \in ToSet(queue')
        BY <3>3, <1>11 DEF add
      <4>2. Discardable(op)
        BY <2>2, <1>11, <1>13, <1>3, <1>2 DEF rem, Removed, ToSet
      <4>3. Attempts(op, l) /\ Async(op)
        BY <3>2, <4>2, <1>17 DEF Attempts, Discardable
      <4>4. QED
        BY <4>1, <4>3 DEF CoveredBy
    <3>4. CASE ~add
      <4>1. Async(op) /\ Attempts(op, l)
        BY <3>2, <3>4, <1>5, <1>17 DEF Attempts, Discardable
      <4>2. QED
        BY <4>1, <1>16
    <3>5. QED
      BY <3>3, <3>4
  <2>3. QED
    BY <2>1, <2>2
<1>18. \A l : CoveredBy(ToSet(queue) \cup {op}, l) => CoveredBy(ToSet(queue'), l)
  BY <1>16, <1>17 DEF CoveredBy
<1>19. ToSet(queue') \subseteq ToSet(queue) \cup {op}
  BY <1>10, <1>11
<1>20. QED
  BY <1>1, <1>6, <1>7, <1>8, <1>9, <1>15, <1>18, <1>19 DEF AddEffect

\* What any step may do to the queue: N are the operations it adds.
QueueStep(N) ==
  /\ queue' \in Seq(Ops)
  /\ gulpaocount' = gulpaocount + (Len(queue') - Len(queue))
  /\ hevEntries' \in BOOLEAN
  /\ queue' # <<>> => hevEntries'
  /\ ToSet(queue') \subseteq ToSet(queue) \cup N
  /\ \A o \in ToSet(queue) \cup N : Async(o) \/ o \in ToSet(queue')

LEMMA AddIsStep ==
  ASSUME NEW op, AddEffect(op)
  PROVE  QueueStep({op})
BY DEF AddEffect, QueueStep, Discardable

LEMMA NoChangeIsStep ==
  ASSUME queue \in Seq(Ops), gulpaocount \in Nat, hevEntries \in BOOLEAN, WorkSignalled,
         UNCHANGED <<queue, gulpaocount, hevEntries>>
  PROVE  QueueStep({})
<1>1. Len(queue) \in Nat /\ queue' = queue /\ gulpaocount' = gulpaocount /\ hevEntries' = hevEntries
  OBVIOUS
<1>2. QED
  BY <1>1 DEF QueueStep, WorkSignalled

\* The purge drops periodic syncs from one source only.
LEMMA PurgeOK ==
  ASSUME queue \in Seq(Ops), gulpaocount \in Nat, hevEntries \in BOOLEAN, WorkSignalled,
         NEW src, DraRemovePeriodicSyncsFromQueue(src)
  PROVE  /\ QueueStep({})
         /\ \A o \in ToSet(queue) : \/ o \in ToSet(queue')
                                    \/ /\ o.kind = "sync" /\ {"async", "per"} \subseteq o.opts
                                       /\ Link(o) \notin owed'
         /\ owed' \subseteq owed
<1> DEFINE rem == Purged(src)
<1>1. rem \in SUBSET DOMAIN queue
  BY DEF Purged
<1>2. /\ Keep(rem) \in Seq(Ops) /\ Cardinality(rem) \in Nat
      /\ Len(Keep(rem)) = Len(queue) - Cardinality(rem)
      /\ ToSet(Keep(rem)) = {queue[i] : i \in DOMAIN queue \ rem}
  BY <1>1, KeepOK
<1>3. /\ queue' = Keep(rem) /\ gulpaocount' = gulpaocount - Cardinality(rem) + If(FALSE, 1)
      /\ hevEntries' = hevEntries /\ owed' = owed \ {Link(queue[i]) : i \in rem}
  BY DEF DraRemovePeriodicSyncsFromQueue, CountAfter
<1>4. \A i \in rem : /\ queue[i].kind = "sync" /\ {"async", "per"} \subseteq queue[i].opts
                      /\ Link(queue[i]) \notin owed'
  BY <1>3 DEF Purged
<1> HIDE DEF rem
<1>5. gulpaocount' = gulpaocount + (Len(queue') - Len(queue))
  <2>1. Len(queue) \in Nat
    OBVIOUS
  <2>2. QED
    BY <2>1, <1>2, <1>3 DEF If
<1>6. \A o \in ToSet(queue) : \/ o \in ToSet(queue')
                              \/ \E i \in rem : o = queue[i]
  BY <1>2, <1>3 DEF ToSet
<1>7. ToSet(queue') \subseteq ToSet(queue)
  BY <1>2, <1>3 DEF ToSet
<1>8. queue' # <<>> => queue # <<>>
  BY <1>2, <1>3
<1>9. QueueStep({})
  BY <1>2, <1>3, <1>4, <1>5, <1>6, <1>7, <1>8 DEF QueueStep, WorkSignalled, Async
<1>10. QED
  BY <1>3, <1>4, <1>6, <1>9

-----------------------------------------------------------------------------
(* Operations and requests.                                                *)

\* The priority of an operation is a number.
LEMMA PriorityType ==
  ASSUME NEW r \in Request
  PROVE  SetOpPriority(r) \in Nat
<1>1. \A b, n : n \in Nat => If(b, n) \in Nat
  BY DEF If
<1>2. CASE r.kind \in {"sync", "add"}
  <2>1. SetOpPriority(r) =
          30 + If("writ" \in r.opts \/ r.nc \in MasterNCs, 40) + If(~Async(r), 340)
             + If("neversynced" \notin r.opts, 20) + If("preempted" \in r.opts, 10)
             + If(r.nc \in SystemNCs, 80) + If("nevernotify" \notin r.opts, 160)
    BY <1>2 DEF SetOpPriority
  <2>2. QED
    BY <2>1, <1>1
<1>3. CASE r.kind = "del"
  BY <1>3 DEF SetOpPriority
<1>4. CASE r.kind = "refs"
  BY <1>4 DEF SetOpPriority
<1>5. CASE r.kind = "mod"
  BY <1>5 DEF SetOpPriority
<1>6. QED
  BY <1>2, <1>3, <1>4, <1>5 DEF Request, Kinds

\* The operation of a request: nobody waits for an asynchronous one.
LEMMA OpType ==
  ASSUME NEW r \in Request, NEW c \in Clients \cup {Nobody}
  PROVE  /\ Op(r, c) \in Ops /\ OpOK(Op(r, c))
         /\ Op(r, c).kind = r.kind /\ Op(r, c).nc = r.nc /\ Op(r, c).src = r.src
         /\ Op(r, c).opts = r.opts
         /\ ~Async(r) => Op(r, c).client = c
<1>1. SetOpPriority(r) \in Nat
  BY PriorityType
<1>2. (IF Async(r) THEN Nobody ELSE c) \in Clients \cup {Nobody}
  OBVIOUS
<1>3. Op(r, c) \in Ops
  BY <1>1, <1>2 DEF Op, Ops, Request
<1>4. QED
  BY <1>3 DEF Op, OpOK, Async

\* An operation is not the absence of one.
LEMMA OpIsThere ==
  /\ \A op \in Ops : op # NoOp /\ op.kind \in Kinds /\ op.nc \in NCs /\ op.src \in Sources
                      /\ op.opts \in SUBSET Options /\ op.flags \in SUBSET LinkFlags
                      /\ op.pri \in Nat /\ op.client \in Clients \cup {Nobody}
                      /\ Link(op) \in Links
  /\ NoOp.kind \notin Kinds
<1>1. NoOp.kind \notin Kinds
  BY DEF NoOp, Kinds
<1>2. \A op \in Ops : op.kind \in Kinds
  BY DEF Ops
<1>3. QED
  BY <1>1, <1>2 DEF Ops, Link, Links

\* A sync is a request.
LEMMA SyncType ==
  ASSUME NEW nc \in NCs, NEW src \in Sources, NEW opts \in SUBSET Options
  PROVE  /\ Sync(nc, src, opts) \in Request
         /\ Sync(nc, src, opts).kind = "sync" /\ Sync(nc, src, opts).nc = nc
         /\ Sync(nc, src, opts).src = src /\ Sync(nc, src, opts).opts = opts
BY DEF Sync, Request, Kinds

\* Correcting the priority flags leaves the rest of a request alone.
LEMMA CorrectedType ==
  ASSUME DOMAIN reps \subseteq Links, reps \in [DOMAIN reps -> SUBSET LinkFlags],
         NEW r \in Request, Accepts(r)
  PROVE  /\ Corrected(r) \in Request
         /\ Corrected(r).kind = r.kind /\ Corrected(r).nc = r.nc /\ Corrected(r).src = r.src
         /\ \A f \in {"async", "all", "per"} : f \in Corrected(r).opts <=> f \in r.opts
<1>1. CASE r.kind # "sync" \/ ~Async(r) \/ "all" \in r.opts
  BY <1>1 DEF Corrected
<1>2. CASE ~(r.kind # "sync" \/ ~Async(r) \/ "all" \in r.opts)
  <2> DEFINE o == (r.opts \ PrioFlags) \cup (reps[Link(r)] \cap PrioFlags)
  <2>1. Corrected(r) = [r EXCEPT !.opts = o]
    BY <1>2 DEF Corrected
  <2>2. o \in SUBSET Options
    BY DEF PrioFlags, Options, ReenqueueFlags, Request
  <2>3. \A f \in {"async", "all", "per"} : f \in o <=> f \in r.opts
    BY DEF PrioFlags
  <2> HIDE DEF o
  <2>4. QED
    BY <2>1, <2>2, <2>3 DEF Request
<1>3. QED
  BY <1>1, <1>2

-----------------------------------------------------------------------------
(* The operations of the worker.                                           *)

EnabledLinks == {l \in DOMAIN reps : "disabled" \notin reps[l]}

\* The worker keeps its operation, and what it is to enqueue is as it must be.
WorkerPart ==
  /\ w' \in WorkerStates /\ w'.op = w.op /\ w'.pc \in {"queue", "unref"}
  /\ w'.pc = "unref" => w'.todo = <<>> /\ w'.report = <<>>
  /\ \A i \in DOMAIN w'.todo : TodoOK(w'.todo[i])

\* The links keep their type, and enabled links only are owed.
LinkPart ==
  /\ DOMAIN reps' \subseteq Links /\ reps' \in [DOMAIN reps' -> SUBSET LinkFlags]
  /\ owed' \subseteq EnabledLinks'

\* What an operation may do, whichever it is.
OpEffect ==
  /\ WorkerPart /\ LinkPart
  /\ vecs \subseteq vecs' /\ vecs' \subseteq NCs
  /\ w'.pc = "unref" => Link(w.op) \notin DOMAIN reps'
  /\ QueueStep({})
  /\ abandons' \in 0 .. MaxAbandons
  /\ UNCHANGED <<client, task, init, shutdown, count>>

\* The links that are owed stay covered by the queue or are by what the worker
\* is to enqueue.
CoverPart ==
  \A l \in owed' :
    \/ CoveredBy(ToSet(w'.todo), l)
    \/ /\ l \in owed
       /\ CoveredBy(ToSet(queue), l) => CoveredBy(ToSet(queue'), l)
       /\ ~(w.pc = "run" /\ "all" \in w.op.opts /\ CoveredBy({w.op}, l))

\* The worker runs an operation.
AtWork == TypeOK /\ WorkSignalled /\ Holding /\ w.pc \in {"run", "unref"}

Reports == [nc : NCs, src : Sources, ok : BOOLEAN]

LEMMA ThenOK ==
  ASSUME w \in WorkerStates, NEW T \in Seq(Request), NEW R \in Seq(Reports),
         \A i \in DOMAIN T : TodoOK(T[i]), Then(T, R)
  PROVE  WorkerPart
<1>1. w' = [w EXCEPT !.pc = "queue", !.todo = T, !.report = R]
  BY DEF Then
<1>2. w' \in WorkerStates
  BY <1>1 DEF WorkerStates, Reports
<1>3. w'.op = w.op /\ w'.pc = "queue" /\ w'.todo = T
  BY <1>1 DEF WorkerStates
<1>4. QED
  BY <1>2, <1>3 DEF WorkerPart

\* ... when nothing is to be enqueued, or one or two syncs are.
LEMMA ThenFew ==
  ASSUME w \in WorkerStates, NEW R \in Seq(Reports)
  PROVE  /\ Then(<<>>, R) => WorkerPart
         /\ \A r \in Request : TodoOK(r) /\ Then(<<r>>, R) => WorkerPart
         /\ \A r, s \in Request : TodoOK(r) /\ TodoOK(s) /\ Then(<<r, s>>, R) => WorkerPart
<1>1. ASSUME Then(<<>>, R) PROVE WorkerPart
  <2>1. <<>> \in Seq(Request) /\ DOMAIN <<>> = {}
    OBVIOUS
  <2>2. QED
    BY <1>1, <2>1, ThenOK
<1>2. ASSUME NEW r \in Request, TodoOK(r), Then(<<r>>, R) PROVE WorkerPart
  <2>1. <<r>> \in Seq(Request) /\ DOMAIN <<r>> = {1} /\ <<r>>[1] = r
    OBVIOUS
  <2>2. \A i \in DOMAIN <<r>> : TodoOK(<<r>>[i])
    BY <1>2, <2>1
  <2>3. QED
    BY <1>2, <2>1, <2>2, ThenOK
<1>3. ASSUME NEW r \in Request, NEW s \in Request, TodoOK(r), TodoOK(s), Then(<<r, s>>, R)
      PROVE  WorkerPart
  <2>1. <<r, s>> \in Seq(Request) /\ DOMAIN <<r, s>> = {1, 2} /\ <<r, s>>[1] = r /\ <<r, s>>[2] = s
    OBVIOUS
  <2>2. \A i \in DOMAIN <<r, s>> : TodoOK(<<r, s>>[i])
    BY <1>3, <2>1
  <2>3. QED
    BY <1>3, <2>1, <2>2, ThenOK
<1>4. QED
  BY <1>1, <1>2, <1>3

\* The attempt the worker reports.
LEMMA AttemptType ==
  ASSUME w.op \in Ops, NEW ok \in BOOLEAN
  PROVE  Attempt(ok) \in Seq(Reports) /\ <<>> \in Seq(Reports)
<1>1. [nc |-> w.op.nc, src |-> w.op.src, ok |-> ok] \in Reports
  BY OpIsThere DEF Reports
<1>2. QED
  BY <1>1 DEF Attempt

\* A sync with the options of the operation that may be kept.
LEMMA SyncAgain ==
  ASSUME NEW nc \in NCs, NEW src \in Sources,
         NEW X \in SUBSET (ReenqueueFlags \cup {"init", "aban"})
  PROVE  /\ Sync(nc, src, {"async"} \cup X) \in Request
         /\ TodoOK(Sync(nc, src, {"async"} \cup X))
         /\ Attempts(Sync(nc, src, {"async"} \cup X), <<nc, src>>)
<1>1. {"async"} \cup X \in SUBSET Options
  BY DEF Options
<1>2. ({"async"} \cup X) \cap {"all", "notify"} = {}
  BY DEF ReenqueueFlags, PrioFlags
<1>3. QED
  BY <1>1, <1>2, SyncType DEF TodoOK, Async, Attempts

\* The flags of a link are replaced, but for "disabled".
LEMMA FlagsOK ==
  ASSUME DOMAIN reps \subseteq Links, reps \in [DOMAIN reps -> SUBSET LinkFlags],
         owed \subseteq EnabledLinks,
         NEW l \in DOMAIN reps, NEW F \in SUBSET LinkFlags,
         "disabled" \in F <=> "disabled" \in reps[l],
         reps' = [reps EXCEPT ![l] = F], owed' \subseteq owed \cup EnabledLinks
  PROVE  LinkPart
BY DEF LinkPart, EnabledLinks

\* A link is added.
LEMMA NewLinkOK ==
  ASSUME DOMAIN reps \subseteq Links, reps \in [DOMAIN reps -> SUBSET LinkFlags],
         owed \subseteq EnabledLinks,
         NEW l \in Links, NEW F \in SUBSET LinkFlags,
         l \notin DOMAIN reps, reps' = WithLink(l, F), owed' = owed
  PROVE  LinkPart /\ DOMAIN reps' = DOMAIN reps \cup {l}
BY DEF WithLink, LinkPart, EnabledLinks

\* Nothing happens to the links.
LEMMA SameLinksOK ==
  ASSUME DOMAIN reps \subseteq Links, reps \in [DOMAIN reps -> SUBSET LinkFlags],
         owed \subseteq EnabledLinks, reps' = reps, owed' \subseteq owed \cup EnabledLinks
  PROVE  LinkPart
BY DEF LinkPart, EnabledLinks

\* FlagsKept are flags of a link, and leave it enabled or disabled.
LEMMA FlagsKeptOK ==
  ASSUME reps \in [DOMAIN reps -> SUBSET LinkFlags], Link(w.op) \in DOMAIN reps,
         NEW X \in SUBSET {"neversynced"}, NEW Y \in SUBSET {"preempted"}
  PROVE  /\ (FlagsKept \ X) \cup Y \in SUBSET LinkFlags
         /\ "disabled" \in (FlagsKept \ X) \cup Y <=> "disabled" \in reps[Link(w.op)]
BY DEF FlagsKept, LinkFlags

LEMMA AtWorkFacts ==
  ASSUME AtWork
  PROVE  /\ w \in WorkerStates /\ w.op \in Ops /\ w.todo = <<>> /\ w.report = <<>>
         /\ w.flags \in SUBSET LinkFlags
         /\ w.op.nc \in NCs /\ w.op.src \in Sources /\ Link(w.op) \in Links
         /\ w.op.opts \in SUBSET Options /\ w.op.flags \in SUBSET LinkFlags
         /\ DOMAIN reps \subseteq Links /\ reps \in [DOMAIN reps -> SUBSET LinkFlags]
         /\ owed \subseteq EnabledLinks
         /\ queue \in Seq(Ops) /\ gulpaocount \in Nat /\ hevEntries \in BOOLEAN
         /\ vecs \subseteq NCs /\ abandons \in 0 .. MaxAbandons
<1>1. w \in WorkerStates /\ w.op \in Ops /\ w.todo = <<>> /\ w.report = <<>>
      /\ w.flags \in SUBSET LinkFlags
  BY DEF AtWork, TypeOK, Holding, WorkerStates
<1>2. QED
  BY <1>1, OpIsThere DEF AtWork, TypeOK, EnabledLinks

\* An operation that leaves the queue alone.
LEMMA QuietOp ==
  ASSUME AtWork, WorkerPart, w'.pc = "queue", LinkPart, vecs \subseteq vecs', vecs' \subseteq NCs,
         UNCHANGED <<queue, gulpaocount, hevEntries>>, abandons' \in 0 .. MaxAbandons,
         UNCHANGED <<client, task, init, shutdown, count>>,
         \A l \in owed' : l \in owed \/ CoveredBy(ToSet(w'.todo), l),
         ~(w.op.kind = "sync" /\ Async(w.op) /\ "all" \in w.op.opts)
  PROVE  OpEffect /\ CoverPart
<1>1. QueueStep({})
  BY AtWorkFacts, NoChangeIsStep DEF AtWork
<1>2. OpEffect
  BY <1>1 DEF OpEffect
<1>3. \A l : ~("all" \in w.op.opts /\ CoveredBy({w.op}, l))
  BY DEF CoveredBy, Attempts
<1>4. CoverPart
  BY <1>3 DEF CoverPart
<1>5. QED
  BY <1>2, <1>4

\* ... and the links.
LEMMA IdleOp ==
  ASSUME AtWork, UNCHANGED <<qvars, reps, vecs, client, task, init, shutdown, count, abandons>>,
         WorkerPart, w'.pc = "queue",
         ~(w.op.kind = "sync" /\ Async(w.op) /\ "all" \in w.op.opts)
  PROVE  OpEffect /\ CoverPart
<1>1. LinkPart
  BY AtWorkFacts, SameLinksOK DEF qvars
<1>2. QED
  BY <1>1, AtWorkFacts, QuietOp DEF qvars

\* An operation that will run again owes its link to the sync it enqueues.
LEMMA AgainOK ==
  ASSUME AtWork, "all" \notin w.op.opts, Again, NEW s \in ToSet(w'.todo), Async(s),
         Attempts(s, Link(w.op))
  PROVE  /\ owed' \subseteq owed \cup EnabledLinks
         /\ \A l \in owed' : l \in owed \/ CoveredBy(ToSet(w'.todo), l)
         /\ UNCHANGED <<queue, gulpaocount, hevEntries>>
<1>1. \A l \in Asks(w.op) : l \in EnabledLinks /\ l = Link(w.op)
  BY AtWorkFacts DEF Asks, Attempts, EnabledLinks, Link, Links
<1>2. CoveredBy(ToSet(w'.todo), Link(w.op))
  BY DEF CoveredBy
<1>3. QED
  BY <1>1, <1>2 DEF Again

\* A sync of all sources owes every link to the sync it enqueues for it.
LEMMA SyncAllOK ==
  ASSUME AtWork, SyncAll
  PROVE  OpEffect /\ CoverPart
<1> DEFINE ls == {l \in DOMAIN reps : /\ l[1] = w.op.nc
                                      /\ "disabled" \in reps[l] => "forced" \in w.op.opts}
           X(l) == (reps[l] \cap {"writ"}) \cup (w.op.opts \cap SyncAllFlags)
           Each(l) == Sync(l[1], l[2], {"async"} \cup (reps[l] \cap {"writ"})
                                                 \cup (w.op.opts \cap SyncAllFlags))
<1>1. <<>> \in Seq(Reports) /\ w \in WorkerStates
  BY AtWorkFacts
<1>2. UNCHANGED <<qvars, reps, vecs, client, task, init, shutdown, count, abandons>>
  BY DEF SyncAll
<1>3. CASE ~Async(w.op)
  <2>1. Then(<<>>, <<>>)
    BY <1>3 DEF SyncAll
  <2>2. WorkerPart /\ w'.pc = "queue"
    BY <2>1, <1>1, ThenFew DEF Then, WorkerStates
  <2>3. QED
    BY <1>2, <1>3, <2>2, IdleOp
<1>4. CASE Async(w.op)
  <2>1. PICK order \in SetToSeqs(ls) : Then([i \in DOMAIN order |-> Each(order[i])], <<>>)
    BY <1>4 DEF SyncAll
  <2> DEFINE T == [i \in DOMAIN order |-> Each(order[i])]
             n == Cardinality(ls)
  <2>2. IsFiniteSet(ls) /\ n \in Nat
    <3>1. IsFiniteSet(Links)
      BY InitSyncAssumption, FS_Product DEF Links
    <3>2. ls \subseteq Links
      BY AtWorkFacts
    <3>3. QED
      BY <3>1, <3>2, FS_Subset, FS_CardinalityType
  <2>3. order \in [1 .. n -> ls] /\ \A i, j \in 1 .. n : i # j => order[i] # order[j]
    BY <2>1 DEF SetToSeqs
  <2>4. \A l \in ls : \E i \in 1 .. n : order[i] = l
    <3>1. order \in Injection(1 .. n, ls)
      BY <2>3 DEF Injection, IsInjective
    <3>2. Cardinality(1 .. n) = n
      <4>1. Cardinality(1 .. n) = IF 1 > n THEN 0 ELSE n - 1 + 1
        BY <2>2, FS_Interval
      <4>2. QED
        BY <4>1, <2>2
    <3>3. order \in Surjection(1 .. n, ls)
      BY <3>1, <3>2, <2>2, FS_Injection
    <3>4. QED
      BY <3>3 DEF Surjection
  <2>5. \A l \in ls : /\ Each(l) \in Request /\ TodoOK(Each(l)) /\ Async(Each(l))
                      /\ Attempts(Each(l), l)
    <3> SUFFICES ASSUME NEW l \in ls
                 PROVE  /\ Each(l) \in Request /\ TodoOK(Each(l)) /\ Async(Each(l))
                        /\ Attempts(Each(l), l)
      OBVIOUS
    <3>1. l \in Links /\ l[1] \in NCs /\ l[2] \in Sources /\ l = <<l[1], l[2]>>
      BY AtWorkFacts DEF Links
    <3>2. X(l) \in SUBSET (ReenqueueFlags \cup {"init", "aban"})
      BY DEF ReenqueueFlags, PrioFlags, SyncAllFlags
    <3>3. {"async"} \cup X(l) = {"async"} \cup (reps[l] \cap {"writ"}) \cup (w.op.opts \cap SyncAllFlags)
      OBVIOUS
    <3>4. Each(l) = Sync(l[1], l[2], {"async"} \cup X(l))
      BY <3>3
    <3> HIDE DEF X, Each, ls
    <3>5. Each(l) \in Request /\ TodoOK(Each(l)) /\ Attempts(Each(l), <<l[1], l[2]>>)
      BY <3>1, <3>2, <3>4, SyncAgain
    <3>6. QED
      BY <3>1, <3>5 DEF TodoOK
  <2> HIDE DEF ls, Each
  <2>6. DOMAIN order = 1 .. n
    BY <2>3
  <2>7. T \in Seq(Request) /\ DOMAIN T = 1 .. n /\ \A i \in 1 .. n : T[i] = Each(order[i])
    <3>1. T \in [1 .. n -> Request]
      BY <2>3, <2>5, <2>6
    <3>2. QED
      BY <3>1, <2>2, <2>6
  <2>8. \A i \in DOMAIN T : TodoOK(T[i])
    BY <2>3, <2>5, <2>7
  <2>9. WorkerPart
    BY <1>1, <2>1, <2>7, <2>8, ThenOK
  <2> HIDE DEF n, T
  <2>10. w'.todo = T /\ w'.pc = "queue"
    BY <1>1, <2>1 DEF Then, WorkerStates, T
  <2>11. LinkPart
    BY <1>2, AtWorkFacts, SameLinksOK DEF qvars
  <2>12. OpEffect
    <3>1. QueueStep({})
      BY <1>2, AtWorkFacts, NoChangeIsStep DEF AtWork, qvars
    <3>2. QED
      BY <1>2, <2>9, <2>10, <2>11, <3>1, AtWorkFacts DEF OpEffect
  <2>13. ASSUME NEW l \in ls PROVE CoveredBy(ToSet(w'.todo), l)
    <3>1. PICK i \in 1 .. n : order[i] = l
      BY <2>4
    <3>2. T[i] = Each(l) /\ T[i] \in ToSet(T)
      BY <3>1, <2>7 DEF ToSet
    <3>3. QED
      BY <3>2, <2>5, <2>10 DEF CoveredBy
  <2>14. CoverPart
    <3> SUFFICES ASSUME NEW l \in owed'
                 PROVE  \/ CoveredBy(ToSet(w'.todo), l)
                        \/ /\ l \in owed
                           /\ CoveredBy(ToSet(queue), l) => CoveredBy(ToSet(queue'), l)
                           /\ ~(w.pc = "run" /\ "all" \in w.op.opts /\ CoveredBy({w.op}, l))
      BY DEF CoverPart
    <3>1. l \in owed /\ queue' = queue
      BY <1>2 DEF qvars
    <3>2. l \in DOMAIN reps /\ "disabled" \notin reps[l]
      BY <3>1, AtWorkFacts DEF EnabledLinks
    <3>3. CASE l[1] = w.op.nc
      <4>1. l \in ls
        BY <3>2, <3>3 DEF ls
      <4>2. QED
        BY <4>1, <2>13
    <3>4. CASE l[1] # w.op.nc
      <4>1. ~CoveredBy({w.op}, l)
        BY <3>4 DEF CoveredBy, Attempts
      <4>2. QED
        BY <3>1, <4>1
    <3>5. QED
      BY <3>3, <3>4
  <2>15. QED
    BY <2>12, <2>14
<1>5. QED
  BY <1>3, <1>4

\* What the worker is to do next, by the syncs it is to enqueue.
LEMMA ThenShape ==
  ASSUME w \in WorkerStates, NEW T, NEW R, Then(T, R)
  PROVE  w'.pc = "queue" /\ w'.todo = T
BY DEF Then, WorkerStates

\* A sync of one source that enqueues nothing and leaves the links alone.
LEMMA SyncIdleOK ==
  ASSUME AtWork, NoReplica \/ SinkDisabled
  PROVE  OpEffect /\ CoverPart
<1>1. /\ <<>> \in Seq(Reports) /\ Attempt(FALSE) \in Seq(Reports) /\ w \in WorkerStates
      /\ "all" \notin w.op.opts
  BY AtWorkFacts, AttemptType DEF NoReplica, SinkDisabled, SyncsOne
<1>2. \E R \in Seq(Reports) : Then(<<>>, R)
  BY <1>1 DEF NoReplica, SinkDisabled
<1>3. WorkerPart /\ w'.pc = "queue"
  BY <1>1, <1>2, ThenFew, ThenShape
<1>4. UNCHANGED <<qvars, reps, vecs, client, task, init, shutdown, count, abandons>>
  BY DEF NoReplica, SinkDisabled
<1>5. QED
  BY <1>1, <1>3, <1>4, IdleOp

\* The sync runs, ends, and its link gets the flags F.
LEMMA SyncEndsOK ==
  ASSUME AtWork, Replicates, NEW F \in SUBSET LinkFlags,
         "disabled" \in F <=> "disabled" \in reps[Link(w.op)],
         reps' = [reps EXCEPT ![Link(w.op)] = F],
         vecs \subseteq vecs', vecs' \subseteq NCs, abandons' \in 0 .. MaxAbandons,
         WorkerPart, w'.pc = "queue",
         UNCHANGED <<queue, gulpaocount, hevEntries>>, owed' \subseteq owed \cup EnabledLinks,
         \A l \in owed' : l \in owed \/ CoveredBy(ToSet(w'.todo), l),
         UNCHANGED <<client, task, init, shutdown, count>>
  PROVE  OpEffect /\ CoverPart
<1>1. Link(w.op) \in DOMAIN reps /\ "all" \notin w.op.opts
  BY DEF Replicates, Enabled, SyncsOne
<1>2. LinkPart
  BY <1>1, AtWorkFacts, FlagsOK
<1>3. QED
  BY <1>1, <1>2, QuietOp

\* FlagsKept and what Synced and Preempted make of it.
LEMMA KeptFlags ==
  ASSUME AtWork, Replicates
  PROVE  /\ FlagsKept \in SUBSET LinkFlags
         /\ FlagsKept \ {"neversynced"} \in SUBSET LinkFlags
         /\ FlagsKept \cup {"preempted"} \in SUBSET LinkFlags
         /\ "disabled" \in FlagsKept <=> "disabled" \in reps[Link(w.op)]
         /\ "disabled" \in FlagsKept \ {"neversynced"} <=> "disabled" \in reps[Link(w.op)]
         /\ "disabled" \in FlagsKept \cup {"preempted"} <=> "disabled" \in reps[Link(w.op)]
<1>1. Link(w.op) \in DOMAIN reps /\ reps \in [DOMAIN reps -> SUBSET LinkFlags]
  BY AtWorkFacts DEF Replicates, Enabled
<1>2. reps[Link(w.op)] \in SUBSET LinkFlags
  BY <1>1
<1>3. QED
  BY <1>2 DEF FlagsKept, LinkFlags

LEMMA SyncedOK ==
  ASSUME AtWork, Synced \/ SyncFailed
  PROVE  OpEffect /\ CoverPart
<1>1. Replicates /\ UNCHANGED <<qvars, client, task, init, shutdown, count, abandons>>
  BY DEF Synced, SyncFailed
<1>2. Attempt(TRUE) \in Seq(Reports) /\ Attempt(FALSE) \in Seq(Reports) /\ w \in WorkerStates
  BY AtWorkFacts, AttemptType
<1>3. WorkerPart /\ w'.pc = "queue"
  BY <1>2, ThenFew, ThenShape DEF Synced, SyncFailed
<1>4. vecs \subseteq vecs' /\ vecs' \subseteq NCs /\ abandons' \in 0 .. MaxAbandons
  BY <1>1, AtWorkFacts DEF Synced, SyncFailed
<1>5. \/ reps' = [reps EXCEPT ![Link(w.op)] = FlagsKept \ {"neversynced"}]
      \/ reps' = [reps EXCEPT ![Link(w.op)] = FlagsKept]
  BY DEF Synced, SyncFailed
<1>6. \E F \in SUBSET LinkFlags : /\ "disabled" \in F <=> "disabled" \in reps[Link(w.op)]
                                  /\ reps' = [reps EXCEPT ![Link(w.op)] = F]
  BY <1>1, <1>5, KeptFlags
<1>7. owed' = owed /\ UNCHANGED <<queue, gulpaocount, hevEntries>>
  BY <1>1 DEF qvars
<1>8. QED
  BY <1>1, <1>3, <1>4, <1>6, <1>7, SyncEndsOK

\* The sync is enqueued again, alone or after another one.
LEMMA RetryOK ==
  ASSUME AtWork, Replicates, NEW s \in Request, TodoOK(s), Attempts(s, Link(w.op)),
         NEW R \in Seq(Reports),
         Then(<<s>>, R) \/ \E r \in Request : TodoOK(r) /\ Then(<<r, s>>, R),
         NEW F \in SUBSET LinkFlags, "disabled" \in F <=> "disabled" \in reps[Link(w.op)],
         reps' = [reps EXCEPT ![Link(w.op)] = F],
         Again, abandons' \in 0 .. MaxAbandons, UNCHANGED <<vecs, client, task, init, shutdown, count>>
  PROVE  OpEffect /\ CoverPart
<1>1. w \in WorkerStates /\ vecs \subseteq NCs
  BY AtWorkFacts
<1>2. WorkerPart /\ w'.pc = "queue"
  BY <1>1, ThenFew, ThenShape
<1>3. s \in ToSet(w'.todo) /\ Async(s)
  <2>1. w'.todo = <<s>> \/ \E r : w'.todo = <<r, s>>
    BY <1>1, ThenShape
  <2>2. s \in ToSet(w'.todo)
    BY <2>1 DEF ToSet
  <2>3. QED
    BY <2>2 DEF TodoOK
<1>4. "all" \notin w.op.opts
  BY DEF Replicates, Enabled, SyncsOne
<1>5. /\ owed' \subseteq owed \cup EnabledLinks
      /\ \A l \in owed' : l \in owed \/ CoveredBy(ToSet(w'.todo), l)
      /\ UNCHANGED <<queue, gulpaocount, hevEntries>>
  BY <1>3, <1>4, AgainOK
<1>6. vecs \subseteq vecs' /\ vecs' \subseteq NCs
  BY <1>1
<1>7. QED
  BY <1>2, <1>5, <1>6, SyncEndsOK

LEMMA RequeueOK ==
  ASSUME AtWork, NEW X \in SUBSET {"requeue", "preempted"}
  PROVE  Requeue(X) \in Request /\ TodoOK(Requeue(X)) /\ Attempts(Requeue(X), Link(w.op))
<1> DEFINE Y == X \cup (w.op.opts \cap ReenqueueFlags)
<1>1. Y \in SUBSET (ReenqueueFlags \cup {"init", "aban"})
  BY DEF ReenqueueFlags, PrioFlags
<1>2. {"async"} \cup X \cup (w.op.opts \cap ReenqueueFlags) = {"async"} \cup Y
  OBVIOUS
<1>3. Requeue(X) = Sync(w.op.nc, w.op.src, {"async"} \cup Y)
  BY <1>2 DEF Requeue
<1> HIDE DEF Y
<1>4. QED
  BY <1>1, <1>3, SyncAgain, AtWorkFacts DEF Link

LEMMA SyncBusyOK ==
  ASSUME AtWork, SyncBusy
  PROVE  OpEffect /\ CoverPart
<1>1. /\ Replicates /\ Again /\ UNCHANGED <<vecs, client, task, init, shutdown, count, abandons>>
      /\ Then(<<Requeue({"requeue"})>>, Attempt(FALSE))
      /\ reps' = [reps EXCEPT ![Link(w.op)] = FlagsKept]
  BY DEF SyncBusy
<1>2. Attempt(FALSE) \in Seq(Reports) /\ abandons' \in 0 .. MaxAbandons
  BY <1>1, AtWorkFacts, AttemptType
<1>3. /\ Requeue({"requeue"}) \in Request /\ TodoOK(Requeue({"requeue"}))
      /\ Attempts(Requeue({"requeue"}), Link(w.op))
  BY RequeueOK
<1>4. QED
  BY <1>1, <1>2, <1>3, KeptFlags, RetryOK

LEMMA AbandonSyncOK ==
  ASSUME AtWork, AbandonSync
  PROVE  OpEffect /\ CoverPart
<1> DEFINE Y == {"aban"} \cup (w.op.opts \cap (ReenqueueFlags \cup {"init"}))
           s == Sync(w.op.nc, w.op.src,
                     {"async", "aban"} \cup (w.op.opts \cap (ReenqueueFlags \cup {"init"})))
<1>1. /\ Replicates /\ Again /\ UNCHANGED <<vecs, client, task, init, shutdown, count>>
      /\ Then(<<s>>, <<>>)
      /\ reps' = [reps EXCEPT ![Link(w.op)] = FlagsKept]
  BY DEF AbandonSync
<1>2. <<>> \in Seq(Reports)
  OBVIOUS
<1>3. abandons' \in 0 .. MaxAbandons
  BY AtWorkFacts, DraQueueAssumption DEF AbandonSync
<1>4. Y \in SUBSET (ReenqueueFlags \cup {"init", "aban"})
  OBVIOUS
<1>5. s = Sync(w.op.nc, w.op.src, {"async"} \cup Y)
  <2>1. {"async", "aban"} \cup (w.op.opts \cap (ReenqueueFlags \cup {"init"})) = {"async"} \cup Y
    OBVIOUS
  <2>2. QED
    BY <2>1
<1> HIDE DEF s, Y
<1>6. s \in Request /\ TodoOK(s) /\ Attempts(s, Link(w.op))
  BY <1>4, <1>5, SyncAgain, AtWorkFacts DEF Link
<1>7. QED
  BY <1>1, <1>2, <1>3, <1>6, KeptFlags, RetryOK

LEMMA InvalidPriorityOK ==
  ASSUME AtWork, InvalidPriority
  PROVE  OpEffect /\ CoverPart
<1> DEFINE L == reps[Link(w.op)] \cap PrioFlags
           K == w.op.opts \cap ((ReenqueueFlags \cup {"init"}) \ PrioFlags)
           s == Sync(w.op.nc, w.op.src, {"async"} \cup L \cup K)
<1>1. /\ Again /\ UNCHANGED <<reps, vecs, client, task, init, shutdown, count, abandons>>
      /\ Then(<<s>>, <<>>) /\ "all" \notin w.op.opts
  BY DEF InvalidPriority, Enabled, SyncsOne
<1>2. <<>> \in Seq(Reports) /\ w \in WorkerStates
  BY AtWorkFacts
<1>3. s \in Request /\ TodoOK(s) /\ Attempts(s, Link(w.op))
  <2>1. L \cup K \in SUBSET (ReenqueueFlags \cup {"init", "aban"})
    BY DEF ReenqueueFlags
  <2>2. {"async"} \cup L \cup K = {"async"} \cup (L \cup K)
    OBVIOUS
  <2>3. s = Sync(w.op.nc, w.op.src, {"async"} \cup (L \cup K))
    BY <2>2
  <2> HIDE DEF s, L, K
  <2>4. QED
    BY <2>1, <2>3, SyncAgain, AtWorkFacts DEF Link
<1> HIDE DEF s
<1>4. WorkerPart /\ w'.pc = "queue" /\ w'.todo = <<s>>
  BY <1>1, <1>2, <1>3, ThenFew, ThenShape
<1>5. s \in ToSet(w'.todo) /\ Async(s)
  BY <1>3, <1>4 DEF ToSet, TodoOK
<1>6. /\ owed' \subseteq owed \cup EnabledLinks
      /\ \A l \in owed' : l \in owed \/ CoveredBy(ToSet(w'.todo), l)
      /\ UNCHANGED <<queue, gulpaocount, hevEntries>>
  BY <1>1, <1>3, <1>5, AgainOK
<1>7. LinkPart
  BY <1>1, <1>6, AtWorkFacts, SameLinksOK
<1>8. QED
  BY <1>1, <1>4, <1>6, <1>7, AtWorkFacts, QuietOp

\* The purge after a failed binding drops periodic syncs, and what they cover is
\* not owed any more.
LEMMA NoBindingOK ==
  ASSUME AtWork, NoBinding
  PROVE  OpEffect /\ (PeriodicIsOne => CoverPart)
<1>1. /\ Replicates /\ DraRemovePeriodicSyncsFromQueue(w.op.src)
      /\ reps' = [reps EXCEPT ![Link(w.op)] = FlagsKept]
      /\ Then(<<>>, Attempt(FALSE))
      /\ UNCHANGED <<vecs, client, task, init, shutdown, count, abandons>>
  BY DEF NoBinding
<1>2. Link(w.op) \in DOMAIN reps /\ "all" \notin w.op.opts
  BY <1>1 DEF Replicates, Enabled, SyncsOne
<1>3. /\ QueueStep({}) /\ owed' \subseteq owed
      /\ \A o \in ToSet(queue) : \/ o \in ToSet(queue')
                                 \/ /\ o.kind = "sync" /\ {"async", "per"} \subseteq o.opts
                                    /\ Link(o) \notin owed'
  BY <1>1, AtWorkFacts, PurgeOK DEF AtWork
<1>4. WorkerPart /\ w'.pc = "queue"
  <2>1. Attempt(FALSE) \in Seq(Reports) /\ w \in WorkerStates
    BY AtWorkFacts, AttemptType
  <2>2. QED
    BY <2>1, <1>1, ThenFew, ThenShape
<1>5. LinkPart
  BY <1>1, <1>2, <1>3, KeptFlags, AtWorkFacts, FlagsOK
<1>6. OpEffect
  BY <1>1, <1>3, <1>4, <1>5, AtWorkFacts DEF OpEffect
<1>7. ASSUME PeriodicIsOne, NEW l \in owed' PROVE CoveredBy(ToSet(queue), l) => CoveredBy(ToSet(queue'), l)
  <2> SUFFICES ASSUME NEW o \in ToSet(queue), Async(o), Attempts(o, l)
               PROVE  CoveredBy(ToSet(queue'), l)
    BY DEF CoveredBy
  <2>1. l \in Links /\ l = <<l[1], l[2]>>
    BY <1>3, AtWorkFacts DEF EnabledLinks, Links
  <2>2. o \in Ops /\ o # NoOp /\ OneSource(o)
    BY <1>7, AtWorkFacts, OpIsThere, ElementOfSeq DEF PeriodicIsOne, ToSet
  <2>3. o \in ToSet(queue')
    <3> SUFFICES ASSUME "per" \in o.opts, Link(o) \notin owed' PROVE FALSE
      BY <1>3
    <3>1. o.nc = l[1] /\ o.src = l[2]
      BY <2>2 DEF OneSource, Attempts
    <3>2. QED
      BY <2>1, <3>1 DEF Link
  <2>4. QED
    BY <2>3 DEF CoveredBy
<1>8. PeriodicIsOne => CoverPart
  BY <1>2, <1>3, <1>7 DEF CoverPart
<1>9. QED
  BY <1>6, <1>8

LEMMA SchemaMismatchOK ==
  ASSUME AtWork, SchemaMismatch
  PROVE  OpEffect /\ CoverPart
<1> DEFINE s == Sync(SchemaNC, w.op.src, {"async"} \cup (w.op.opts \cap {"byname", "forced"}))
           retry == "requeue" \notin w.op.opts
<1>1. /\ Replicates /\ UNCHANGED <<vecs, client, task, init, shutdown, count, abandons>>
      /\ reps' = [reps EXCEPT ![Link(w.op)] = FlagsKept]
      /\ retry => Again /\ Then(<<s, Requeue({"requeue"})>>, Attempt(FALSE))
      /\ ~retry => UNCHANGED qvars /\ Then(<<s>>, Attempt(FALSE))
  BY DEF SchemaMismatch
<1>2. /\ Attempt(FALSE) \in Seq(Reports) /\ abandons' \in 0 .. MaxAbandons
      /\ w \in WorkerStates /\ vecs \subseteq NCs
  BY <1>1, AtWorkFacts, AttemptType
<1>3. s \in Request /\ TodoOK(s)
  <2>1. w.op.opts \cap {"byname", "forced"} \in SUBSET (ReenqueueFlags \cup {"init", "aban"})
    BY DEF ReenqueueFlags
  <2>2. SchemaNC \in NCs
    BY DraQueueAssumption
  <2>3. QED
    BY <2>1, <2>2, SyncAgain, AtWorkFacts
<1>4. /\ Requeue({"requeue"}) \in Request /\ TodoOK(Requeue({"requeue"}))
      /\ Attempts(Requeue({"requeue"}), Link(w.op))
  BY RequeueOK
<1> HIDE DEF s, retry
<1>5. CASE retry
  BY <1>5, <1>1, <1>2, <1>3, <1>4, KeptFlags, RetryOK
<1>6. CASE ~retry
  <2>1. WorkerPart /\ w'.pc = "queue"
    BY <1>6, <1>1, <1>2, <1>3, ThenFew, ThenShape
  <2>2. owed' = owed /\ UNCHANGED <<queue, gulpaocount, hevEntries>>
    BY <1>6, <1>1 DEF qvars
  <2>3. QED
    BY <1>1, <1>2, <2>1, <2>2, KeptFlags, SyncEndsOK
<1>7. QED
  BY <1>5, <1>6

LEMMA PreemptedOK ==
  ASSUME AtWork, Preempted
  PROVE  OpEffect /\ CoverPart
<1>1. /\ Replicates /\ UNCHANGED <<vecs, client, task, init, shutdown, count, abandons>>
      /\ reps' = [reps EXCEPT ![Link(w.op)] = FlagsKept \cup {"preempted"}]
      /\ Async(w.op) => Again /\ Then(<<Requeue({"preempted"})>>, Attempt(FALSE))
      /\ ~Async(w.op) => UNCHANGED qvars /\ Then(<<>>, Attempt(FALSE))
  BY DEF Preempted
<1>2. /\ Attempt(FALSE) \in Seq(Reports) /\ abandons' \in 0 .. MaxAbandons
      /\ w \in WorkerStates /\ vecs \subseteq NCs
  BY <1>1, AtWorkFacts, AttemptType
<1>3. /\ Requeue({"preempted"}) \in Request /\ TodoOK(Requeue({"preempted"}))
      /\ Attempts(Requeue({"preempted"}), Link(w.op))
  BY RequeueOK
<1>4. CASE Async(w.op)
  BY <1>4, <1>1, <1>2, <1>3, KeptFlags, RetryOK
<1>5. CASE ~Async(w.op)
  <2>1. WorkerPart /\ w'.pc = "queue"
    BY <1>5, <1>1, <1>2, ThenFew, ThenShape
  <2>2. owed' = owed /\ UNCHANGED <<queue, gulpaocount, hevEntries>>
    BY <1>5, <1>1 DEF qvars
  <2>3. QED
    BY <1>1, <1>2, <2>1, <2>2, KeptFlags, SyncEndsOK
<1>6. QED
  BY <1>4, <1>5

LEMMA ReplicaAddOK ==
  ASSUME AtWork, DRA_ReplicaAdd
  PROVE  OpEffect /\ CoverPart
<1> DEFINE l == Link(w.op)
           never == w.op.flags \cup {"neversynced"}
           s == Sync(w.op.nc, w.op.src, {"async"} \cup (never \cap PrioFlags))
<1>1. /\ w.op.kind = "add"
      /\ UNCHANGED <<qvars, client, task, init, shutdown, count, abandons>>
      /\ owed' = owed /\ UNCHANGED <<queue, gulpaocount, hevEntries>>
  BY DEF DRA_ReplicaAdd, Runs, qvars
<1>2. <<>> \in Seq(Reports) /\ w \in WorkerStates /\ l \in Links /\ abandons' \in 0 .. MaxAbandons
  BY <1>1, AtWorkFacts
<1>3. s \in Request /\ TodoOK(s)
  <2>1. never \cap PrioFlags \in SUBSET (ReenqueueFlags \cup {"init", "aban"})
    BY DEF ReenqueueFlags
  <2>2. QED
    BY <2>1, SyncAgain, AtWorkFacts
<1>4. \/ reps' = reps
      \/ /\ l \notin DOMAIN reps
         /\ \E F \in {w.op.flags, never, never \cup {"preempted"}} : reps' = WithLink(l, F)
  BY DEF DRA_ReplicaAdd
<1>5. Then(<<>>, <<>>) \/ Then(<<s>>, <<>>)
  BY DEF DRA_ReplicaAdd
<1>6. vecs' \in {vecs, vecs \cup {w.op.nc}}
  BY DEF DRA_ReplicaAdd
<1>7. never \in SUBSET LinkFlags /\ never \cup {"preempted"} \in SUBSET LinkFlags
      /\ w.op.flags \in SUBSET LinkFlags
  BY AtWorkFacts DEF LinkFlags
<1> HIDE DEF s, never, l
<1>8. WorkerPart /\ w'.pc = "queue"
  BY <1>2, <1>3, <1>5, ThenFew, ThenShape
<1>9. LinkPart
  <2>1. CASE reps' = reps
    BY <2>1, <1>1, AtWorkFacts, SameLinksOK
  <2>2. ASSUME l \notin DOMAIN reps, NEW F \in {w.op.flags, never, never \cup {"preempted"}},
               reps' = WithLink(l, F)
        PROVE  LinkPart
    <3>1. F \in SUBSET LinkFlags
      BY <1>7
    <3>2. QED
      BY <2>2, <3>1, <1>1, <1>2, AtWorkFacts, NewLinkOK
  <2>3. QED
    BY <2>1, <2>2, <1>4
<1>10. vecs \subseteq vecs' /\ vecs' \subseteq NCs
  BY <1>6, AtWorkFacts
<1>11. QED
  BY <1>1, <1>2, <1>8, <1>9, <1>10, QuietOp

\* The link is removed, or there is none.
LEMMA ReplicaDelOK ==
  ASSUME AtWork, DRA_ReplicaDelSource
  PROVE  OpEffect /\ CoverPart
<1>1. /\ w.op.kind = "del"
      /\ UNCHANGED <<queue, gulpaocount, hevEntries, vecs, client, task, init, shutdown, count, abandons>>
  BY DEF DRA_ReplicaDelSource, Runs
<1>2. <<>> \in Seq(Reports) /\ w \in WorkerStates
  BY AtWorkFacts
<1>3. CASE Link(w.op) \notin DOMAIN reps
  <2>1. Then(<<>>, <<>>) /\ UNCHANGED <<reps, owed>>
    BY <1>3 DEF DRA_ReplicaDelSource
  <2>2. WorkerPart /\ w'.pc = "queue"
    BY <1>2, <2>1, ThenFew, ThenShape
  <2>3. QED
    BY <1>1, <2>1, <2>2, IdleOp DEF qvars
<1>4. CASE Link(w.op) \in DOMAIN reps
  <2>1. /\ w' = [w EXCEPT !.pc = "unref", !.flags = reps[Link(w.op)]]
        /\ reps' = Restrict(reps, DOMAIN reps \ {Link(w.op)})
        /\ owed' = owed \ {Link(w.op)}
    BY <1>4 DEF DRA_ReplicaDelSource
  <2>2. reps[Link(w.op)] \in SUBSET LinkFlags
    BY <1>4, AtWorkFacts
  <2>3. w' \in WorkerStates
    BY <2>1, <2>2, <1>2 DEF WorkerStates
  <2>4. w'.op = w.op /\ w'.pc = "unref" /\ w'.todo = <<>> /\ w'.report = <<>>
    BY <2>1, AtWorkFacts DEF WorkerStates
  <2>5. WorkerPart
    BY <2>3, <2>4 DEF WorkerPart
  <2>6. reps' = [k \in DOMAIN reps \ {Link(w.op)} |-> reps[k]]
    BY <2>1 DEF Restrict
  <2>7. LinkPart /\ Link(w.op) \notin DOMAIN reps'
    BY <2>1, <2>6, AtWorkFacts DEF LinkPart, EnabledLinks
  <2>8. QueueStep({})
    BY <1>1, AtWorkFacts, NoChangeIsStep DEF AtWork
  <2>9. OpEffect
    BY <1>1, <2>5, <2>7, <2>8, AtWorkFacts DEF OpEffect
  <2>10. CoverPart
    BY <1>1, <2>1 DEF CoverPart, CoveredBy, Attempts
  <2>11. QED
    BY <2>9, <2>10
<1>5. QED
  BY <1>3, <1>4

\* The source of a removed link was told or not.
LEMMA SourceOK ==
  ASSUME AtWork, SourceTold \/ SourceNotTold
  PROVE  OpEffect /\ CoverPart
<1>1. /\ <<>> \in Seq(Reports) /\ Attempt(FALSE) \in Seq(Reports) /\ w \in WorkerStates
  BY AtWorkFacts, AttemptType
<1>2. \E R \in Seq(Reports) : Then(<<>>, R)
  BY <1>1 DEF SourceTold, SourceNotTold
<1>3. WorkerPart /\ w'.pc = "queue"
  BY <1>1, <1>2, ThenFew, ThenShape
<1>4. /\ UNCHANGED <<queue, gulpaocount, hevEntries, owed, vecs, client, task, init, shutdown, count, abandons>>
      /\ w.pc = "unref"
  BY DEF SourceTold, SourceNotTold, qvars
<1>5. LinkPart
  <2>1. CASE SourceTold
    BY <2>1, <1>4, AtWorkFacts, SameLinksOK DEF SourceTold
  <2>2. CASE SourceNotTold
    <3>1. Link(w.op) \notin DOMAIN reps
      BY <1>4 DEF AtWork, Holding
    <3>2. reps' = WithLink(Link(w.op), w.flags)
      BY <2>2 DEF SourceNotTold
    <3>3. QED
      BY <3>1, <3>2, <1>4, AtWorkFacts, NewLinkOK
  <2>3. QED
    BY <2>1, <2>2
<1>6. QueueStep({})
  BY <1>4, AtWorkFacts, NoChangeIsStep DEF AtWork
<1>7. OpEffect
  BY <1>3, <1>4, <1>5, <1>6, AtWorkFacts DEF OpEffect
<1>8. CoverPart
  BY <1>4 DEF CoverPart
<1>9. QED
  BY <1>7, <1>8

LEMMA ReplicaModifyOK ==
  ASSUME AtWork, DRA_ReplicaModify
  PROVE  OpEffect /\ CoverPart
<1> DEFINE l == Link(w.op)
           ok == l \in DOMAIN reps /\ reps[l] \cap SystemFlags = w.op.flags \cap SystemFlags
<1>1. /\ w.op.kind = "mod" /\ Then(<<>>, <<>>)
      /\ reps' = IF ok THEN [reps EXCEPT ![l] = w.op.flags] ELSE reps
      /\ owed' = IF ok /\ "disabled" \in w.op.flags THEN owed \ {l} ELSE owed
      /\ UNCHANGED <<queue, gulpaocount, hevEntries, vecs, client, task, init, shutdown, count, abandons>>
  BY DEF DRA_ReplicaModify, Runs
<1>2. <<>> \in Seq(Reports) /\ w \in WorkerStates
  BY AtWorkFacts
<1>3. WorkerPart /\ w'.pc = "queue"
  BY <1>1, <1>2, ThenFew, ThenShape
<1>4. LinkPart
  <2>1. CASE ok
    <3>1. l \in DOMAIN reps /\ reps' = [reps EXCEPT ![l] = w.op.flags]
      BY <2>1, <1>1
    <3>2. "disabled" \in w.op.flags => owed' = owed \ {l}
      BY <2>1, <1>1
    <3>3. owed' \subseteq owed
      BY <1>1
    <3> HIDE DEF l, ok
    <3>4. QED
      BY <3>1, <3>2, <3>3, AtWorkFacts DEF LinkPart, EnabledLinks
  <2>2. CASE ~ok
    BY <2>2, <1>1, AtWorkFacts, SameLinksOK
  <2>3. QED
    BY <2>1, <2>2
<1>5. \A k \in owed' : k \in owed
  BY <1>1
<1> HIDE DEF l, ok
<1>6. QED
  BY <1>1, <1>3, <1>4, <1>5, AtWorkFacts, QuietOp

LEMMA UpdateRefsOK ==
  ASSUME AtWork, DRA_UpdateRefs
  PROVE  OpEffect /\ CoverPart
<1>1. /\ w.op.kind = "refs" /\ Then(<<>>, <<>>)
      /\ UNCHANGED <<qvars, reps, vecs, client, task, init, shutdown, count, abandons>>
  BY DEF DRA_UpdateRefs, Runs
<1>2. <<>> \in Seq(Reports) /\ w \in WorkerStates
  BY AtWorkFacts
<1>3. WorkerPart /\ w'.pc = "queue"
  BY <1>1, <1>2, ThenFew, ThenShape
<1>4. QED
  BY <1>1, <1>3, IdleOp

\* The steps of the worker in which it runs its operation.
Operation ==
  \/ DRA_ReplicaSync \/ DRA_ReplicaAdd \/ DRA_ReplicaDelSource \/ SourceTold \/ SourceNotTold
  \/ DRA_ReplicaModify \/ DRA_UpdateRefs

LEMMA OperationOK ==
  ASSUME TypeOK, WorkSignalled, Holding, Operation
  PROVE  /\ w.pc \in {"run", "unref"} /\ AtWork
         /\ OpEffect /\ (PeriodicIsOne => CoverPart)
<1>1. w.pc \in {"run", "unref"}
  BY DEF Operation, DRA_ReplicaSync, SyncAll, NoReplica, SinkDisabled, InvalidPriority, Synced,
         SyncFailed, NoBinding, SyncBusy, SchemaMismatch, Preempted, AbandonSync, Replicates,
         Enabled, SyncsOne, Runs, DRA_ReplicaAdd, DRA_ReplicaDelSource, SourceTold, SourceNotTold,
         DRA_ReplicaModify, DRA_UpdateRefs
<1>2. AtWork
  BY <1>1 DEF AtWork
<1> DEFINE Goal == OpEffect /\ (PeriodicIsOne => CoverPart)
<1>3. ASSUME DRA_ReplicaSync PROVE Goal
  <2>1. CASE SyncAll
    BY <1>2, <2>1, SyncAllOK
  <2>2. CASE NoReplica
    BY <1>2, <2>2, SyncIdleOK
  <2>3. CASE SinkDisabled
    BY <1>2, <2>3, SyncIdleOK
  <2>4. CASE InvalidPriority
    BY <1>2, <2>4, InvalidPriorityOK
  <2>5. CASE Synced
    BY <1>2, <2>5, SyncedOK
  <2>6. CASE SyncFailed
    BY <1>2, <2>6, SyncedOK
  <2>7. CASE NoBinding
    BY <1>2, <2>7, NoBindingOK
  <2>8. CASE SyncBusy
    BY <1>2, <2>8, SyncBusyOK
  <2>9. CASE SchemaMismatch
    BY <1>2, <2>9, SchemaMismatchOK
  <2>10. CASE Preempted
    BY <1>2, <2>10, PreemptedOK
  <2>11. CASE AbandonSync
    BY <1>2, <2>11, AbandonSyncOK
  <2>12. QED
    BY <1>3, <2>1, <2>2, <2>3, <2>4, <2>5, <2>6, <2>7, <2>8, <2>9, <2>10, <2>11 DEF DRA_ReplicaSync
<1>4. ASSUME DRA_ReplicaAdd PROVE Goal
  BY <1>2, <1>4, ReplicaAddOK
<1>5. ASSUME DRA_ReplicaDelSource PROVE Goal
  BY <1>2, <1>5, ReplicaDelOK
<1>6. ASSUME SourceTold PROVE Goal
  BY <1>2, <1>6, SourceOK
<1>7. ASSUME SourceNotTold PROVE Goal
  BY <1>2, <1>7, SourceOK
<1>8. ASSUME DRA_ReplicaModify PROVE Goal
  BY <1>2, <1>8, ReplicaModifyOK
<1>9. ASSUME DRA_UpdateRefs PROVE Goal
  BY <1>2, <1>9, UpdateRefsOK
<1>10. QED
  BY <1>1, <1>2, <1>3, <1>4, <1>5, <1>6, <1>7, <1>8, <1>9 DEF Operation

-----------------------------------------------------------------------------
(* The inductive invariant.                                                *)

\* The worker has an operation in hand.
Busy == w.pc = "got" \/ Running

Inv ==
  /\ TypeOK /\ CountExact /\ WorkSignalled
  /\ Holding /\ OpsOK /\ WaitedIsThere
  /\ BootFirst /\ ListOK(init) /\ SawDomain

\* The count follows the queue.
LEMMA CountStep ==
  ASSUME TypeOK, CountExact, NEW N, QueueStep(N), Busy' <=> Busy
  PROVE  /\ queue' \in Seq(Ops) /\ gulpaocount' \in Nat /\ hevEntries' \in BOOLEAN
         /\ CountExact' /\ WorkSignalled'
<1>1. /\ queue' \in Seq(Ops) /\ hevEntries' \in BOOLEAN /\ (queue' # <<>> => hevEntries')
      /\ gulpaocount' = gulpaocount + (Len(queue') - Len(queue))
  BY DEF QueueStep
<1>2. Len(queue) \in Nat /\ Len(queue') \in Nat /\ gulpaocount \in Nat
  BY <1>1 DEF TypeOK
<1>3. gulpaocount = Len(queue) + If(Busy, 1) /\ If(Busy', 1) = If(Busy, 1) /\ If(Busy, 1) \in Nat
  BY DEF CountExact, Busy, If
<1>4. gulpaocount' = Len(queue') + If(Busy', 1)
  BY <1>1, <1>2, <1>3
<1>5. gulpaocount' \in Nat
  BY <1>1, <1>2, <1>3
<1>6. CountExact'
  BY <1>4 DEF CountExact, Busy
<1>7. QED
  BY <1>1, <1>5, <1>6 DEF WorkSignalled

\* Nobody waits for an operation that may leave the queue.
LEMMA WaitedStep ==
  ASSUME TypeOK, OpsOK, WaitedIsThere, NEW N, QueueStep(N), w'.op = w.op,
         \A c \in Clients : client'[c].pc = "waiting" => client[c].pc = "waiting"
  PROVE  WaitedIsThere'
<1> SUFFICES ASSUME NEW c \in Clients, client'[c].pc = "waiting"
             PROVE  \E op \in ToSet(queue') \cup {w'.op} : op # NoOp /\ op.client = c
  BY DEF WaitedIsThere
<1>1. PICK op \in ToSet(queue) \cup {w.op} : op # NoOp /\ op.client = c
  BY DEF WaitedIsThere
<1>2. CASE op = w.op
  BY <1>1, <1>2
<1>3. CASE op \in ToSet(queue)
  <2>1. OpOK(op)
    BY <1>3 DEF OpsOK, ToSet
  <2>2. ~Async(op)
    BY <1>1, <2>1, DraQueueAssumption DEF OpOK, Nobody
  <2>3. op \in ToSet(queue')
    BY <1>3, <2>2 DEF QueueStep
  <2>4. QED
    BY <1>1, <2>3
<1>4. QED
  BY <1>2, <1>3, <1>1

\* A step of the worker that changes its own state only.
LEMMA WorkerStep ==
  ASSUME Inv, UNCHANGED <<qvars, reps, vecs, client, task, init, shutdown, count, abandons>>,
         w' \in WorkerStates, w'.op = w.op, w'.todo = w.todo, Busy' <=> Busy, Holding',
         task.pc = "boot" => w'.pc = "setup"
  PROVE  Inv'
<1>1. QueueStep({})
  BY NoChangeIsStep DEF Inv, TypeOK, qvars
<1>2. CountExact' /\ WorkSignalled'
  BY <1>1, CountStep DEF Inv
<1>3. WaitedIsThere'
  BY <1>1, WaitedStep DEF Inv
<1>4. TypeOK'
  BY DEF Inv, TypeOK, qvars
<1>5. OpsOK'
  BY DEF Inv, OpsOK, qvars, OpOK
<1>6. BootFirst' /\ ListOK(init)' /\ SawDomain'
  BY DEF Inv, BootFirst, SawDomain
<1>7. QED
  BY <1>2, <1>3, <1>4, <1>5, <1>6 DEF Inv

LEMMA QuietType == Quiet \in WorkerStates /\ Quiet.op = NoOp /\ Quiet.todo = <<>> /\ Quiet.report = <<>>
                   /\ Quiet.pc = "wait"
<1>1. <<>> \in Seq(Request) /\ <<>> \in Seq([nc : NCs, src : Sources, ok : BOOLEAN])
  OBVIOUS
<1>2. QED
  BY <1>1 DEF Quiet, WorkerStates

\* The worker between two operations.
LEMMA WorkerWaitsOK ==
  ASSUME Inv, AsyncThreadStarts \/ Wakes \/ TimesOut \/ AsyncThreadEnds \/ ReadCounts
  PROVE  Inv'
<1>1. /\ w \in WorkerStates
      /\ UNCHANGED <<qvars, reps, vecs, client, task, init, shutdown, count, abandons>>
  BY DEF Inv, TypeOK, AsyncThreadStarts, Wakes, TimesOut, AsyncThreadEnds, ReadCounts
<1>2. CASE AsyncThreadStarts
  <2>1. w.pc = "setup" /\ task.setup /\ w' = Quiet
    BY <1>2 DEF AsyncThreadStarts
  <2>2. w.op = NoOp /\ w.todo = <<>> /\ task.pc # "boot"
    BY <2>1 DEF Inv, Holding, BootFirst
  <2>3. Holding' /\ (Busy' <=> Busy)
    BY <2>1, <2>2, QuietType DEF Holding, Busy, Running
  <2>4. QED
    BY <1>1, <2>1, <2>2, <2>3, QuietType, WorkerStep
<1>3. CASE Wakes \/ TimesOut \/ AsyncThreadEnds
  <2>1. PICK pc \in {"get", "exit"} : w' = [w EXCEPT !.pc = pc]
    BY <1>3 DEF Wakes, TimesOut, AsyncThreadEnds
  <2>2. w.pc = "wait"
    BY <1>3 DEF Wakes, TimesOut, AsyncThreadEnds
  <2>3. /\ w' \in WorkerStates /\ w'.op = w.op /\ w'.todo = w.todo /\ w'.report = w.report
        /\ w'.pc = pc
    BY <1>1, <2>1 DEF WorkerStates
  <2>4. Holding' /\ (Busy' <=> Busy)
    BY <2>2, <2>3 DEF Inv, Holding, Busy, Running
  <2>5. task.pc # "boot"
    BY <2>2 DEF Inv, BootFirst
  <2>6. QED
    BY <1>1, <2>3, <2>4, <2>5, WorkerStep
<1>4. CASE ReadCounts
  <2>1. /\ w.pc = "queue" /\ w.todo = <<>> /\ w.report # <<>>
        /\ w' = [w EXCEPT !.pc = "report", !.prev = Counts(init)]
    BY <1>4 DEF ReadCounts
  <2>2. Counts(init) \in [write : Int, readonly : Int]
    BY DEF Inv, TypeOK, InitRecords, Counts
  <2>3. w' \in WorkerStates
    BY <1>1, <2>1, <2>2 DEF WorkerStates
  <2>4. w'.op = w.op /\ w'.todo = w.todo /\ w'.report = w.report /\ w'.pc = "report"
    BY <1>1, <2>1 DEF WorkerStates
  <2>5. Holding' /\ (Busy' <=> Busy)
    BY <2>1, <2>4 DEF Inv, Holding, Busy, Running
  <2>6. task.pc # "boot"
    BY <2>1 DEF Inv, BootFirst
  <2>7. QED
    BY <1>1, <2>3, <2>4, <2>5, <2>6, WorkerStep
<1>5. QED
  BY <1>2, <1>3, <1>4

\* The worker runs its operation.
LEMMA OperationInv ==
  ASSUME Inv, Operation
  PROVE  Inv'
<1>1. w.pc \in {"run", "unref"} /\ AtWork /\ OpEffect
  BY OperationOK DEF Inv
<1>2. /\ WorkerPart /\ LinkPart /\ QueueStep({}) /\ vecs \subseteq vecs' /\ vecs' \subseteq NCs
      /\ (w'.pc = "unref" => Link(w.op) \notin DOMAIN reps') /\ abandons' \in 0 .. MaxAbandons
      /\ client' = client /\ task' = task /\ init' = init /\ shutdown' = shutdown /\ count' = count
  BY <1>1 DEF OpEffect
<1>3. w'.op = w.op /\ w'.pc \in {"queue", "unref"} /\ w' \in WorkerStates
      /\ (w'.pc = "unref" => w'.todo = <<>> /\ w'.report = <<>>)
      /\ \A i \in DOMAIN w'.todo : TodoOK(w'.todo[i])
  BY <1>2 DEF WorkerPart
<1>4. Busy' <=> Busy
  BY <1>1, <1>3 DEF Busy, Running
<1>5. /\ queue' \in Seq(Ops) /\ gulpaocount' \in Nat /\ hevEntries' \in BOOLEAN
      /\ CountExact' /\ WorkSignalled'
  BY <1>2, <1>4, CountStep DEF Inv
<1>6. WaitedIsThere'
  BY <1>2, <1>3, WaitedStep DEF Inv
<1>7. TypeOK'
  BY <1>2, <1>3, <1>5 DEF Inv, TypeOK, LinkPart, EnabledLinks
<1>8. Holding'
  BY <1>1, <1>2, <1>3, AtWorkFacts, OpIsThere DEF Holding
<1>9. OpsOK'
  <2>1. \A i \in DOMAIN queue' : queue'[i] \in ToSet(queue)
    BY <1>2 DEF QueueStep, ToSet
  <2>2. \A o \in ToSet(queue) : OpOK(o)
    BY DEF Inv, OpsOK, ToSet
  <2>3. \A i \in DOMAIN queue' : OpOK(queue'[i])
    BY <2>1, <2>2
  <2>4. QED
    BY <1>2, <1>3, <2>3 DEF Inv, OpsOK
<1>10. BootFirst'
  BY <1>1, <1>2 DEF Inv, BootFirst
<1>11. ListOK(init)' /\ SawDomain'
  BY <1>2 DEF Inv, SawDomain
<1>12. QED
  BY <1>5, <1>6, <1>7, <1>8, <1>9, <1>10, <1>11 DEF Inv

\* The first operation leaves the queue for the worker.
LEMMA PaoGetOK ==
  ASSUME Inv, PaoGet
  PROVE  Inv'
<1>1. /\ w.pc = "get" /\ w \in WorkerStates /\ queue \in Seq(Ops) /\ gulpaocount \in Nat
      /\ UNCHANGED <<gulpaocount, owed, reps, vecs, client, task, init, shutdown, count, abandons>>
      /\ w.todo = <<>> /\ w.report = <<>> /\ task.pc # "boot" /\ ~Busy
      /\ hevEntries \in BOOLEAN
  BY DEF PaoGet, Inv, TypeOK, Holding, BootFirst, Busy, Running
<1>2. CASE queue = <<>>
  <2>1. w' = Quiet /\ hevEntries' = FALSE /\ queue' = queue
    BY <1>2 DEF PaoGet
  <2>2. ~Busy' /\ Holding' /\ w' \in WorkerStates
    BY <2>1, QuietType DEF Busy, Running, Holding
  <2>3. CountExact' /\ WorkSignalled'
    BY <1>1, <1>2, <2>1, <2>2 DEF Inv, CountExact, WorkSignalled, Busy
  <2>4. TypeOK'
    BY <1>1, <2>1, <2>2 DEF Inv, TypeOK
  <2>5. w'.op = w.op /\ w'.todo = w.todo
    BY <1>1, <2>1, QuietType DEF Inv, Holding
  <2>6. OpsOK' /\ WaitedIsThere'
    BY <1>1, <2>1, <2>5 DEF Inv, OpsOK, WaitedIsThere, OpOK
  <2>7. BootFirst' /\ ListOK(init)' /\ SawDomain'
    BY <1>1 DEF Inv, BootFirst, SawDomain
  <2>8. QED
    BY <2>2, <2>3, <2>4, <2>6, <2>7 DEF Inv
<1>3. CASE queue # <<>>
  <2>1. /\ w' = [w EXCEPT !.pc = "got", !.op = Head(queue)]
        /\ queue' = Tail(queue) /\ hevEntries' = hevEntries
    BY <1>3 DEF PaoGet
  <2>2. /\ Head(queue) \in Ops /\ Tail(queue) \in Seq(Ops) /\ Len(queue) \in Nat
        /\ Len(Tail(queue)) = Len(queue) - 1
        /\ Head(queue) = queue[1] /\ 1 \in DOMAIN queue /\ DOMAIN queue = 1 .. Len(queue)
        /\ \A i \in DOMAIN Tail(queue) : i + 1 \in DOMAIN queue /\ Tail(queue)[i] = queue[i + 1]
        /\ DOMAIN Tail(queue) = 1 .. Len(queue) - 1
    BY <1>1, <1>3
  <2>3. w' \in WorkerStates /\ w'.pc = "got" /\ w'.op = Head(queue) /\ w'.todo = <<>> /\ w'.report = <<>>
    BY <1>1, <2>1, <2>2 DEF WorkerStates
  <2>4. Holding' /\ Busy'
    BY <2>2, <2>3, OpIsThere DEF Holding, Busy, Running
  <2>5. CountExact'
    <3>1. gulpaocount = Len(queue)
      BY <1>1, <2>2 DEF Inv, CountExact, Busy, If
    <3>2. QED
      BY <3>1, <1>1, <2>1, <2>2, <2>4 DEF CountExact, Busy, If
  <2>6. WorkSignalled'
    BY <1>3, <2>1 DEF Inv, WorkSignalled
  <2>7. TypeOK'
    BY <1>1, <2>1, <2>2, <2>3 DEF Inv, TypeOK
  <2>8. OpsOK'
    <3>1. \A i \in DOMAIN queue' : OpOK(queue'[i])
      BY <2>1, <2>2 DEF Inv, OpsOK
    <3>2. OpOK(w'.op)
      BY <2>2, <2>3 DEF Inv, OpsOK
    <3>3. QED
      BY <3>1, <3>2, <1>1, <2>3 DEF Inv, OpsOK
  <2>9. WaitedIsThere'
    <3>1. \A o \in ToSet(queue) : o \in ToSet(queue') \/ o = w'.op
      <4> SUFFICES ASSUME NEW o \in ToSet(queue) PROVE o \in ToSet(queue') \/ o = w'.op
        OBVIOUS
      <4>1. PICK i \in DOMAIN queue : o = queue[i]
        BY DEF ToSet
      <4>2. CASE i = 1
        BY <4>1, <4>2, <2>2, <2>3
      <4>3. CASE i # 1
        <5>1. i - 1 \in DOMAIN Tail(queue) /\ (i - 1) + 1 = i
          BY <4>3, <2>2
        <5>2. Tail(queue)[i - 1] = o
          BY <5>1, <4>1, <2>2
        <5>3. QED
          BY <5>1, <5>2, <2>1 DEF ToSet
      <4>4. QED
        BY <4>2, <4>3
    <3>2. w.op = NoOp
      BY <1>1 DEF Inv, Holding
    <3>3. QED
      BY <3>1, <3>2, <1>1 DEF Inv, WaitedIsThere
  <2>10. BootFirst' /\ ListOK(init)' /\ SawDomain'
    BY <1>1 DEF Inv, BootFirst, SawDomain
  <2>11. QED
    BY <2>4, <2>5, <2>6, <2>7, <2>8, <2>9, <2>10 DEF Inv
<1>4. QED
  BY <1>2, <1>3

LEMMA DispatchPaoOK ==
  ASSUME Inv, DispatchPao
  PROVE  Inv'
<1>1. /\ w.pc = "got" /\ w \in WorkerStates /\ w' = [w EXCEPT !.pc = "run"]
      /\ owed' \subseteq owed
      /\ UNCHANGED <<queue, gulpaocount, hevEntries, reps, vecs, client, task, init, shutdown, count, abandons>>
  BY DEF DispatchPao, Inv, TypeOK
<1>2. w' \in WorkerStates /\ w'.pc = "run" /\ w'.op = w.op /\ w'.todo = w.todo /\ w'.report = w.report
  BY <1>1 DEF WorkerStates
<1>3. Holding' /\ (Busy' <=> Busy)
  BY <1>1, <1>2 DEF Inv, Holding, Busy, Running
<1>4. QueueStep({})
  BY <1>1, NoChangeIsStep DEF Inv, TypeOK
<1>5. CountExact' /\ WorkSignalled'
  BY <1>3, <1>4, CountStep DEF Inv
<1>6. WaitedIsThere'
  BY <1>1, <1>2, <1>4, WaitedStep DEF Inv
<1>7. TypeOK'
  BY <1>1, <1>2 DEF Inv, TypeOK
<1>8. OpsOK'
  BY <1>1, <1>2 DEF Inv, OpsOK, OpOK
<1>9. BootFirst' /\ ListOK(init)' /\ SawDomain'
  BY <1>1, <1>2 DEF Inv, BootFirst, SawDomain
<1>10. QED
  BY <1>3, <1>5, <1>6, <1>7, <1>8, <1>9 DEF Inv

\* What holds of the queue after an operation was added or not.
LEMMA AddStep ==
  ASSUME Inv, NEW op \in Ops, OpOK(op), AddAsyncOp(op) \/ UNCHANGED qvars,
         reps' = reps, w'.op = w.op, Busy' <=> Busy
  PROVE  /\ queue' \in Seq(Ops) /\ gulpaocount' \in Nat /\ hevEntries' \in BOOLEAN
         /\ CountExact' /\ WorkSignalled'
         /\ \A i \in DOMAIN queue' : OpOK(queue'[i])
         /\ owed' \subseteq EnabledLinks'
         /\ \E N : QueueStep(N) /\ (AddAsyncOp(op) => N = {op})
<1>1. /\ queue \in Seq(Ops) /\ gulpaocount \in Nat /\ hevEntries \in BOOLEAN /\ WorkSignalled
      /\ owed \subseteq EnabledLinks
  BY DEF Inv, TypeOK, EnabledLinks
<1>2. CASE AddAsyncOp(op)
  <2>1. AddEffect(op)
    BY <1>1, <1>2, AddAsyncOpOK
  <2>2. QueueStep({op})
    BY <2>1, AddIsStep
  <2>3. /\ queue' \in Seq(Ops) /\ gulpaocount' \in Nat /\ hevEntries' \in BOOLEAN
        /\ CountExact' /\ WorkSignalled'
    BY <2>2, CountStep DEF Inv
  <2>4. \A i \in DOMAIN queue' : OpOK(queue'[i])
    <3>1. \A o \in ToSet(queue) : OpOK(o)
      BY DEF Inv, OpsOK, ToSet
    <3>2. \A i \in DOMAIN queue' : queue'[i] \in ToSet(queue) \cup {op}
      BY <2>1 DEF AddEffect, ToSet
    <3>3. QED
      BY <3>1, <3>2
  <2>5. owed' \subseteq EnabledLinks'
    BY <1>1, <2>1 DEF AddEffect, Asks, EnabledLinks
  <2>6. QED
    BY <2>2, <2>3, <2>4, <2>5
<1>3. CASE ~AddAsyncOp(op) /\ UNCHANGED qvars
  <2>1. queue' = queue /\ gulpaocount' = gulpaocount /\ hevEntries' = hevEntries /\ owed' = owed
    BY <1>3 DEF qvars
  <2>2. QueueStep({})
    BY <1>1, <2>1, NoChangeIsStep
  <2>3. /\ queue' \in Seq(Ops) /\ gulpaocount' \in Nat /\ hevEntries' \in BOOLEAN
        /\ CountExact' /\ WorkSignalled'
    BY <2>2, CountStep DEF Inv
  <2>4. \A i \in DOMAIN queue' : OpOK(queue'[i])
    BY <2>1 DEF Inv, OpsOK
  <2>5. owed' \subseteq EnabledLinks'
    BY <1>1, <2>1 DEF EnabledLinks
  <2>6. QED
    BY <1>3, <2>2, <2>3, <2>4, <2>5
<1>4. QED
  BY <1>2, <1>3

LEMMA EnqueueNextOK ==
  ASSUME Inv, EnqueueNext
  PROVE  Inv'
<1> DEFINE r == Head(w.todo)
           op == Op(Corrected(r), Nobody)
<1>1. /\ w.pc = "queue" /\ w.todo # <<>> /\ w' = [w EXCEPT !.todo = Tail(w.todo)]
      /\ UNCHANGED <<reps, vecs, client, task, init, shutdown, count, abandons>>
      /\ (Accepts(r) /\ AddAsyncOp(op)) \/ UNCHANGED qvars
  BY DEF EnqueueNext
<1>2. /\ w \in WorkerStates /\ w.todo \in Seq(Request) /\ DOMAIN reps \subseteq Links
      /\ reps \in [DOMAIN reps -> SUBSET LinkFlags]
  BY DEF Inv, TypeOK, WorkerStates
<1>3. /\ r \in Request /\ Tail(w.todo) \in Seq(Request)
      /\ \A i \in DOMAIN Tail(w.todo) : TodoOK(Tail(w.todo)[i])
  <2>1. /\ r \in Request /\ Tail(w.todo) \in Seq(Request)
        /\ \A i \in DOMAIN Tail(w.todo) : i + 1 \in DOMAIN w.todo /\ Tail(w.todo)[i] = w.todo[i + 1]
    BY <1>1, <1>2
  <2>2. QED
    BY <2>1 DEF Inv, OpsOK
<1>4. w' \in WorkerStates
  BY <1>1, <1>2, <1>3 DEF WorkerStates
<1>5. w'.op = w.op /\ w'.pc = "queue" /\ w'.todo = Tail(w.todo) /\ w'.report = w.report
  BY <1>1, <1>2 DEF WorkerStates
<1>6. Busy' <=> Busy
  BY <1>1, <1>5 DEF Busy, Running
<1>7. Accepts(r) => op \in Ops /\ OpOK(op)
  BY <1>2, <1>3, CorrectedType, OpType
<1> HIDE DEF r, op
<1>8. /\ queue' \in Seq(Ops) /\ gulpaocount' \in Nat /\ hevEntries' \in BOOLEAN
      /\ CountExact' /\ WorkSignalled'
      /\ \A i \in DOMAIN queue' : OpOK(queue'[i])
      /\ owed' \subseteq EnabledLinks'
      /\ \E N : QueueStep(N)
  <2>1. CASE Accepts(r) /\ AddAsyncOp(op)
    BY <2>1, <1>1, <1>5, <1>6, <1>7, AddStep
  <2>2. CASE UNCHANGED qvars
    <3>1. QueueStep({})
      BY <2>2, NoChangeIsStep DEF Inv, TypeOK, qvars
    <3>2. QED
      BY <2>2, <3>1, <1>1, <1>6, CountStep DEF Inv, OpsOK, TypeOK, EnabledLinks, qvars
  <2>3. QED
    BY <1>1, <2>1, <2>2
<1>9. WaitedIsThere'
  BY <1>1, <1>5, <1>8, WaitedStep DEF Inv
<1>10. TypeOK'
  BY <1>1, <1>4, <1>8 DEF Inv, TypeOK, EnabledLinks
<1>11. Holding'
  BY <1>1, <1>5 DEF Inv, Holding
<1>12. OpsOK'
  BY <1>1, <1>3, <1>5, <1>8 DEF Inv, OpsOK
<1>13. BootFirst' /\ ListOK(init)' /\ SawDomain'
  BY <1>1 DEF Inv, BootFirst, SawDomain
<1>14. QED
  BY <1>8, <1>9, <1>10, <1>11, <1>12, <1>13 DEF Inv

LEMMA ReportOK ==
  ASSUME Inv, Report
  PROVE  Inv'
<1> DEFINE r == Head(w.report)
<1>1. /\ w.pc = "report" /\ w' = [w EXCEPT !.pc = "queue", !.report = <<>>]
      /\ init' = InitSyncAttemptComplete(init, r.nc, r.src, r.ok, w.prev, vecs)
      /\ UNCHANGED <<qvars, reps, vecs, client, task, shutdown, count, abandons>>
  BY DEF Report
<1>2. w \in WorkerStates /\ w.report # <<>> /\ task.pc # "boot"
  BY <1>1 DEF Inv, TypeOK, Holding, BootFirst
<1>3. r \in Reports
  <2>1. w.report \in Seq(Reports)
    BY <1>2 DEF WorkerStates, Reports
  <2>2. QED
    BY <1>2, <2>1
<1>4. r.nc \in NCs /\ r.src \in Sources /\ r.ok \in BOOLEAN
  BY <1>3 DEF Reports
<1> HIDE DEF r
<1>5. ListOK(init') /\ (init'.synchronized => init.synchronized \/ DomainNC \in vecs)
  BY <1>1, <1>4, InitSyncAttemptCompleteOK DEF Inv
<1>6. init' \in InitRecords
  BY <1>5 DEF ListOK
<1>7. w' \in WorkerStates /\ w'.op = w.op /\ w'.pc = "queue" /\ w'.todo = w.todo /\ w'.report = <<>>
  <2>1. <<>> \in Seq([nc : NCs, src : Sources, ok : BOOLEAN])
    OBVIOUS
  <2>2. QED
    BY <2>1, <1>1, <1>2 DEF WorkerStates
<1>8. Holding' /\ (Busy' <=> Busy)
  BY <1>1, <1>7 DEF Inv, Holding, Busy, Running
<1>9. QueueStep({})
  BY <1>1, NoChangeIsStep DEF Inv, TypeOK, qvars
<1>10. CountExact' /\ WorkSignalled'
  BY <1>8, <1>9, CountStep DEF Inv
<1>11. WaitedIsThere'
  BY <1>1, <1>7, <1>9, WaitedStep DEF Inv
<1>12. TypeOK'
  BY <1>1, <1>6, <1>7 DEF Inv, TypeOK, qvars
<1>13. OpsOK'
  BY <1>1, <1>7 DEF Inv, OpsOK, OpOK, qvars
<1>14. BootFirst'
  BY <1>1, <1>2 DEF Inv, BootFirst
<1>15. SawDomain'
  BY <1>1, <1>5 DEF Inv, SawDomain
<1>16. QED
  BY <1>5, <1>8, <1>10, <1>11, <1>12, <1>13, <1>14, <1>15 DEF Inv

\* The caller of the operation that ends is told.
LEMMA OpDoneOK ==
  ASSUME Inv, OpDone
  PROVE  Inv'
<1>1. /\ w.pc = "queue" /\ w.todo = <<>> /\ w.report = <<>> /\ w' = Quiet
      /\ gulpaocount' = gulpaocount - 1
      /\ client' = IF w.op.client \in Clients /\ client[w.op.client].pc = "waiting"
                   THEN [client EXCEPT ![w.op.client] = [pc |-> "idle", op |-> NoOp]] ELSE client
      /\ UNCHANGED <<queue, hevEntries, owed, reps, vecs, task, init, shutdown, count, abandons>>
  BY DEF OpDone
<1>2. /\ w' \in WorkerStates /\ Holding' /\ ~Busy' /\ Busy /\ task.pc # "boot"
      /\ w'.op = NoOp /\ w'.todo = <<>>
  BY <1>1, QuietType DEF Inv, Holding, Busy, Running, BootFirst
<1>3. gulpaocount' = Len(queue) /\ Len(queue) \in Nat
  BY <1>1, <1>2 DEF Inv, TypeOK, CountExact, Busy, If
<1>4. CountExact' /\ WorkSignalled'
  BY <1>1, <1>2, <1>3 DEF CountExact, Busy, If, Inv, WorkSignalled
<1>5. client' \in [Clients -> CallerStates]
  <2>1. [pc |-> "idle", op |-> NoOp] \in CallerStates
    BY DEF CallerStates
  <2>2. QED
    BY <1>1, <2>1 DEF Inv, TypeOK
<1>6. TypeOK'
  BY <1>1, <1>2, <1>3, <1>5 DEF Inv, TypeOK
<1>7. \A c \in Clients : /\ client'[c] = client[c] \/ client'[c] = [pc |-> "idle", op |-> NoOp]
                         /\ client'[c].pc = "waiting" => w.op.client # c
  BY <1>1 DEF Inv, TypeOK
<1>8. OpsOK'
  <2>1. \A c \in Clients : client'[c].pc = "ready" => client'[c] = client[c]
    BY <1>7
  <2>2. QED
    BY <1>1, <1>2, <2>1 DEF Inv, OpsOK, OpOK
<1>9. WaitedIsThere'
  <2> SUFFICES ASSUME NEW c \in Clients, client'[c].pc = "waiting"
               PROVE  \E op \in ToSet(queue') \cup {w'.op} : op # NoOp /\ op.client = c
    BY DEF WaitedIsThere
  <2>1. client[c].pc = "waiting" /\ w.op.client # c
    BY <1>7
  <2>2. PICK op \in ToSet(queue) \cup {w.op} : op # NoOp /\ op.client = c
    BY <2>1 DEF Inv, WaitedIsThere
  <2>3. QED
    BY <1>1, <2>1, <2>2
<1>10. BootFirst' /\ ListOK(init)' /\ SawDomain'
  BY <1>1, <1>2 DEF Inv, BootFirst, SawDomain
<1>11. QED
  BY <1>2, <1>4, <1>6, <1>8, <1>9, <1>10 DEF Inv

-----------------------------------------------------------------------------
(* The callers.                                                            *)

LEMMA CallOK ==
  ASSUME Inv, NEW c \in Clients, NEW r \in Requests, Call(c, r)
  PROVE  Inv'
<1> DEFINE op == Op(Corrected(r), c)
<1>1. /\ client[c].pc = "idle" /\ count < MaxRequests /\ count' = count + 1
      /\ client' = client \/ (Accepts(r) /\ client' = [client EXCEPT ![c] = [pc |-> "ready", op |-> op]])
      /\ UNCHANGED <<qvars, w, reps, vecs, task, init, shutdown, abandons>>
  BY DEF Call
<1>2. Accepts(r) => op \in Ops /\ OpOK(op) /\ (Async(op) \/ op.client = c)
  <2>1. r \in Request /\ DOMAIN reps \subseteq Links /\ reps \in [DOMAIN reps -> SUBSET LinkFlags]
    BY DraQueueAssumption DEF Inv, TypeOK
  <2>2. Accepts(r) => Corrected(r) \in Request
    BY <2>1, CorrectedType
  <2>3. QED
    BY <2>2, OpType DEF Async
<1> HIDE DEF op
<1>3. count' \in 0 .. MaxRequests
  BY <1>1, DraQueueAssumption DEF Inv, TypeOK
<1>4. client' \in [Clients -> CallerStates]
  <2>1. Accepts(r) => [pc |-> "ready", op |-> op] \in CallerStates
    BY <1>2 DEF CallerStates
  <2>2. QED
    BY <1>1, <2>1 DEF Inv, TypeOK
<1>5. TypeOK'
  BY <1>1, <1>3, <1>4 DEF Inv, TypeOK, qvars
<1>6. /\ \A d \in Clients : client'[d].pc = "waiting" => client[d].pc = "waiting"
      /\ \A d \in Clients : client'[d].pc = "ready" =>
           \/ client'[d] = client[d]
           \/ d = c /\ Accepts(r) /\ client'[d].op = op
  BY <1>1 DEF Inv, TypeOK
<1>7. OpsOK'
  BY <1>1, <1>2, <1>6 DEF Inv, OpsOK, OpOK, qvars
<1>8. WaitedIsThere'
  BY <1>1, <1>6 DEF Inv, WaitedIsThere, qvars
<1>9. CountExact' /\ WorkSignalled' /\ Holding'
  BY <1>1 DEF Inv, CountExact, WorkSignalled, Holding, Running, qvars
<1>10. BootFirst' /\ ListOK(init)' /\ SawDomain'
  BY <1>1 DEF Inv, BootFirst, SawDomain
<1>11. QED
  BY <1>5, <1>7, <1>8, <1>9, <1>10 DEF Inv

\* A synchronous caller waits for an operation that is in the queue.
LEMMA DoOpDRSOK ==
  ASSUME Inv, NEW c \in Clients, DoOpDRS(c)
  PROVE  Inv'
<1> DEFINE op == client[c].op
           S(pc) == [pc |-> pc, op |-> NoOp]
<1>1. /\ client[c].pc = "ready"
      /\ UNCHANGED <<w, reps, vecs, task, init, shutdown, count, abandons>>
      /\ \/ client' = [client EXCEPT ![c] = S("idle")] /\ UNCHANGED qvars
         \/ Async(op) /\ client' = [client EXCEPT ![c] = S("idle")] /\ AddAsyncOp(op)
         \/ ~Async(op) /\ client' = [client EXCEPT ![c] = S("waiting")] /\ AddAsyncOp(op)
  BY DEF DoOpDRS
<1>2. op \in Ops /\ OpOK(op) /\ (Async(op) \/ op.client = c)
  BY <1>1 DEF Inv, OpsOK
<1> HIDE DEF op
<1>3. Busy' <=> Busy
  BY <1>1 DEF Busy, Running
<1>4. /\ queue' \in Seq(Ops) /\ gulpaocount' \in Nat /\ hevEntries' \in BOOLEAN
      /\ CountExact' /\ WorkSignalled'
      /\ \A i \in DOMAIN queue' : OpOK(queue'[i])
      /\ owed' \subseteq EnabledLinks'
      /\ \E N : QueueStep(N) /\ (AddAsyncOp(op) => N = {op})
  BY <1>1, <1>2, <1>3, AddStep
<1>5. \A pc \in {"idle", "waiting"} : S(pc) \in CallerStates
  BY DEF CallerStates
<1>6. client' \in [Clients -> CallerStates]
  BY <1>1, <1>5 DEF Inv, TypeOK
<1>7. TypeOK'
  BY <1>1, <1>4, <1>6 DEF Inv, TypeOK, EnabledLinks
<1>8. /\ \A d \in Clients : client'[d].pc = "ready" => client'[d] = client[d]
      /\ \A d \in Clients : client'[d].pc = "waiting" =>
           \/ client[d].pc = "waiting"
           \/ d = c /\ AddAsyncOp(op) /\ ~Async(op)
  BY <1>1 DEF Inv, TypeOK
<1>9. OpsOK'
  BY <1>1, <1>4, <1>8 DEF Inv, OpsOK
<1>10. WaitedIsThere'
  <2> SUFFICES ASSUME NEW d \in Clients, client'[d].pc = "waiting"
               PROVE  \E o \in ToSet(queue') \cup {w'.op} : o # NoOp /\ o.client = d
    BY DEF WaitedIsThere
  <2>0. PICK N : QueueStep(N) /\ (AddAsyncOp(op) => N = {op})
    BY <1>4
  <2>1. CASE client[d].pc = "waiting"
    <3>1. PICK o \in ToSet(queue) \cup {w.op} : o # NoOp /\ o.client = d
      BY <2>1 DEF Inv, WaitedIsThere
    <3>2. CASE o = w.op
      BY <3>1, <3>2, <1>1
    <3>3. CASE o \in ToSet(queue)
      <4>1. OpOK(o)
        BY <3>3 DEF Inv, OpsOK, ToSet
      <4>2. ~Async(o)
        BY <3>1, <4>1, DraQueueAssumption DEF OpOK, Nobody
      <4>3. o \in ToSet(queue')
        BY <2>0, <3>3, <4>2 DEF QueueStep
      <4>4. QED
        BY <3>1, <4>3
    <3>4. QED
      BY <3>1, <3>2, <3>3
  <2>2. CASE d = c /\ AddAsyncOp(op) /\ ~Async(op)
    <3>1. op \in ToSet(queue')
      BY <2>0, <2>2 DEF QueueStep
    <3>2. QED
      BY <3>1, <2>2, <1>2, OpIsThere
  <2>3. QED
    BY <1>8, <2>1, <2>2
<1>11. Holding' /\ BootFirst' /\ ListOK(init)' /\ SawDomain'
  BY <1>1 DEF Inv, Holding, BootFirst, SawDomain
<1>12. QED
  BY <1>4, <1>7, <1>9, <1>10, <1>11 DEF Inv

LEMMA ShutdownOK ==
  ASSUME Inv, Shutdown \/ \E c \in Clients : ShuttingDown(c)
  PROVE  Inv'
<1>1. /\ UNCHANGED <<qvars, w, reps, vecs, task, init, count, abandons>>
      /\ shutdown' \in BOOLEAN
  BY DEF Shutdown, ShuttingDown, Inv, TypeOK
<1>2. \/ client' = client
      \/ \E c \in Clients : client' = [client EXCEPT ![c] = [pc |-> "idle", op |-> NoOp]]
  BY DEF Shutdown, ShuttingDown
<1>3. client' \in [Clients -> CallerStates]
  <2>1. [pc |-> "idle", op |-> NoOp] \in CallerStates
    BY DEF CallerStates
  <2>2. QED
    BY <1>2, <2>1 DEF Inv, TypeOK
<1>4. \A d \in Clients : /\ client'[d].pc = "ready" => client'[d] = client[d]
                         /\ client'[d].pc = "waiting" => client[d].pc = "waiting"
  BY <1>2 DEF Inv, TypeOK
<1>5. TypeOK'
  BY <1>1, <1>3 DEF Inv, TypeOK, qvars
<1>6. OpsOK'
  BY <1>1, <1>4 DEF Inv, OpsOK, OpOK, qvars
<1>7. WaitedIsThere'
  BY <1>1, <1>4 DEF Inv, WaitedIsThere, qvars
<1>8. CountExact' /\ WorkSignalled' /\ Holding'
  BY <1>1 DEF Inv, CountExact, WorkSignalled, Holding, Running, qvars
<1>9. BootFirst' /\ ListOK(init)' /\ SawDomain'
  BY <1>1 DEF Inv, BootFirst, SawDomain
<1>10. QED
  BY <1>5, <1>6, <1>7, <1>8, <1>9 DEF Inv

-----------------------------------------------------------------------------
(* The task thread.                                                        *)

\* The task thread reports failures only.
LEMMA FailureOK ==
  ASSUME NEW I, ListOK(I), NEW nc \in NCs, NEW src \in Sources, NEW prev, NEW V
  PROVE  LET J == InitSyncAttemptComplete(I, nc, src, FALSE, prev, V)
         IN  ListOK(J) /\ (J.synchronized => I.synchronized \/ DomainNC \in V)
<1>1. ASSUME NEW ok \in BOOLEAN
      PROVE  LET J == InitSyncAttemptComplete(I, nc, src, ok, prev, V)
             IN  ListOK(J) /\ (J.synchronized => I.synchronized \/ DomainNC \in V)
  BY InitSyncAttemptCompleteOK
<1>2. FALSE \in BOOLEAN
  OBVIOUS
<1>3. QED
  BY <1>1, <1>2, Zenon

\* A step of the task thread after startup that leaves the queue alone.
LEMMA TaskStep ==
  ASSUME Inv, UNCHANGED <<qvars, w, reps, vecs, client, shutdown, count, abandons>>,
         task' \in TaskStates, task'.pc # "boot", task'.setup,
         task'.pc = "push" => task'.op \in Ops /\ OpOK(task'.op) /\ Async(task'.op),
         ListOK(init'), init'.synchronized => init.synchronized \/ DomainNC \in vecs
  PROVE  Inv'
<1>1. init' \in InitRecords
  BY DEF ListOK
<1>2. TypeOK'
  BY <1>1 DEF Inv, TypeOK, qvars
<1>3. OpsOK'
  BY DEF Inv, OpsOK, OpOK, qvars
<1>4. WaitedIsThere'
  BY DEF Inv, WaitedIsThere, qvars
<1>5. CountExact' /\ WorkSignalled' /\ Holding'
  BY DEF Inv, CountExact, WorkSignalled, Holding, Running, qvars
<1>6. BootFirst' /\ SawDomain'
  BY DEF Inv, BootFirst, SawDomain
<1>7. QED
  BY <1>2, <1>3, <1>4, <1>5, <1>6 DEF Inv

\* The task thread reads a link: the list and the queue grow.
LEMMA ReadLinkOK ==
  ASSUME Inv, NEW l \in DOMAIN reps, ReadLink(l)
  PROVE  Inv'
<1> DEFINE r == Sync(l[1], l[2], {"async"})
           op == Op(Corrected(r), Nobody)
<1>1. /\ task.pc = "boot" /\ l \notin task.read /\ task' = [task EXCEPT !.read = task.read \cup {l}]
      /\ init' = IF NeedsInitSync(l) THEN AddInitSyncList(init, l[1], "writ" \in reps[l], l[2])
                 ELSE init
      /\ AddAsyncOp(op) \/ UNCHANGED qvars
      /\ UNCHANGED <<w, reps, vecs, client, shutdown, count, abandons>>
  BY DEF ReadLink, ReadNext
<1>2. l \in Links /\ l[1] \in NCs /\ l[2] \in Sources /\ l = <<l[1], l[2]>>
  BY DEF Inv, TypeOK, Links
<1>3. op \in Ops /\ OpOK(op)
  <2>1. {"async"} \in SUBSET Options
    BY DEF Options
  <2>2. r \in Request /\ r.kind = "sync" /\ r.nc = l[1] /\ r.src = l[2] /\ r.opts = {"async"}
    BY <1>2, <2>1, SyncType
  <2>3. Accepts(r)
    BY <1>2, <2>2 DEF Accepts, Link
  <2> HIDE DEF r
  <2>4. Corrected(r) \in Request
    BY <2>2, <2>3, CorrectedType DEF Inv, TypeOK
  <2>5. QED
    BY <2>4, OpType
<1> HIDE DEF op, r
<1>4. task \in TaskStates
  BY DEF Inv, TypeOK
<1>5. task' \in TaskStates
  BY <1>1, <1>2, <1>4 DEF TaskStates
<1>6. task'.read = task.read \cup {l} /\ task'.pc = "boot" /\ task'.setup = task.setup
  BY <1>1, <1>4 DEF TaskStates
<1>7. Busy' <=> Busy
  BY <1>1 DEF Busy, Running
<1>8. /\ queue' \in Seq(Ops) /\ gulpaocount' \in Nat /\ hevEntries' \in BOOLEAN
      /\ CountExact' /\ WorkSignalled'
      /\ \A i \in DOMAIN queue' : OpOK(queue'[i])
      /\ owed' \subseteq EnabledLinks'
      /\ \E N : QueueStep(N)
  BY <1>1, <1>3, <1>7, AddStep
<1>9. /\ Fresh(init) /\ w.pc = "setup"
      /\ \A k \in Links : Contains(init.data[k[1]].sources, k[2]) => k \in task.read
  BY <1>1 DEF Inv, BootFirst
<1>10. /\ ListOK(init') /\ Fresh(init')
       /\ \A k \in Links : Contains(init'.data[k[1]].sources, k[2]) => k \in task'.read
  <2>1. CASE ~NeedsInitSync(l)
    BY <2>1, <1>1, <1>6, <1>9 DEF Inv
  <2>2. CASE NeedsInitSync(l)
    <3>1. PICK writ \in BOOLEAN : init' = AddInitSyncList(init, l[1], writ, l[2])
      <4>1. ("writ" \in reps[l]) \in BOOLEAN
        OBVIOUS
      <4>2. init' = AddInitSyncList(init, l[1], "writ" \in reps[l], l[2])
        BY <2>2, <1>1
      <4>3. QED
        BY <4>1, <4>2, Zenon
    <3>2. ~Contains(init.data[l[1]].sources, l[2])
      BY <1>1, <1>2, <1>9
    <3>3. /\ ListOK(init') /\ Fresh(init')
          /\ \A n \in NCs, s \in Sources :
               Contains(init'.data[n].sources, s) =>
                 Contains(init.data[n].sources, s) \/ (n = l[1] /\ s = l[2])
      BY <3>1, <3>2, <1>2, <1>9, AddInitSyncListOK DEF Inv
    <3>4. ASSUME NEW k \in Links, Contains(init'.data[k[1]].sources, k[2])
          PROVE  k \in task'.read
      <4>1. k[1] \in NCs /\ k[2] \in Sources /\ k = <<k[1], k[2]>>
        BY DEF Links
      <4>2. Contains(init.data[k[1]].sources, k[2]) \/ (k[1] = l[1] /\ k[2] = l[2])
        BY <3>3, <3>4, <4>1
      <4>3. k \in task.read \/ k = l
        BY <1>2, <1>9, <4>1, <4>2
      <4>4. QED
        BY <4>3, <1>6
    <3>5. QED
      BY <3>3, <3>4
  <2>3. QED
    BY <2>1, <2>2
<1>11. init' \in InitRecords /\ ~init'.synchronized
  BY <1>10 DEF ListOK, Fresh
<1>12. TypeOK'
  BY <1>1, <1>5, <1>8, <1>11 DEF Inv, TypeOK, EnabledLinks
<1>13. OpsOK'
  BY <1>1, <1>6, <1>8 DEF Inv, OpsOK, OpOK
<1>14. WaitedIsThere'
  BY <1>1, <1>8, WaitedStep DEF Inv
<1>15. Holding'
  BY <1>1 DEF Inv, Holding
<1>16. BootFirst' /\ SawDomain'
  BY <1>1, <1>6, <1>9, <1>10, <1>11 DEF Inv, BootFirst, SawDomain
<1>17. QED
  BY <1>8, <1>10, <1>12, <1>13, <1>14, <1>15, <1>16 DEF Inv

LEMMA SetupDoneOK ==
  ASSUME Inv, SetupDone
  PROVE  Inv'
<1>1. /\ task \in TaskStates /\ ListOK(init)
      /\ task' = [task EXCEPT !.pc = "checkWrite", !.setup = TRUE, !.read = {}]
      /\ init' = init
      /\ UNCHANGED <<qvars, w, reps, vecs, client, shutdown, count, abandons>>
  BY DEF SetupDone, Inv, TypeOK
<1>2. task' \in TaskStates /\ task'.pc = "checkWrite" /\ task'.setup
  BY <1>1 DEF TaskStates
<1>3. QED
  BY <1>1, <1>2, TaskStep

\* The three checks after startup, and the retry of the first.
LEMMA ChecksOK ==
  ASSUME Inv, CheckWrite \/ CheckReadOnly \/ CheckAll \/ RetryFullSync
  PROVE  Inv'
<1>1. /\ UNCHANGED <<qvars, w, reps, vecs, client, shutdown, count, abandons>>
      /\ task \in TaskStates /\ ListOK(init) /\ init \in InitRecords /\ task.pc # "boot" /\ task.setup
      /\ task.pc # "push"
  BY DEF CheckWrite, CheckReadOnly, CheckAll, RetryFullSync, Inv, TypeOK, BootFirst
<1>2. /\ task' \in TaskStates /\ task'.pc \notin {"boot", "push"} /\ task'.setup
  <2>1. \/ task' = task
        \/ \E pc \in {"checkReadOnly", "checkAll", "start", "idle"} : task' = [task EXCEPT !.pc = pc]
    BY DEF CheckWrite, CheckReadOnly, CheckAll, RetryFullSync
  <2>2. QED
    BY <1>1, <2>1 DEF TaskStates
<1>3. ListOK(init') /\ (init'.synchronized => init.synchronized \/ DomainNC \in vecs)
  <2>1. CASE CheckWrite
    BY <2>1, <1>1, CheckFullSyncProgressOK DEF CheckWrite
  <2>2. CASE CheckReadOnly
    BY <2>2, <1>1, AnchorOK DEF CheckReadOnly
  <2>3. CASE CheckAll
    BY <2>3, <1>1, CheckInitSyncsFinishedOK DEF CheckAll
  <2>4. CASE RetryFullSync
    <3> DEFINE J == [init EXCEPT !.retry = init.retry - 1]
    <3>1. /\ init.retry > 0
          /\ init' = init \/ init' = CheckFullSyncProgress(J, vecs)
      BY <2>4 DEF RetryFullSync
    <3>2. init.retry \in Nat /\ init.retry - 1 \in Nat
      BY <3>1, <1>1, ListTypes
    <3>3. J \in InitRecords
      BY <1>1, <3>2 DEF InitRecords
    <3>4. /\ J.first = init.first /\ J.data = init.data /\ J.unsynced = init.unsynced
          /\ J.write = init.write /\ J.readonly = init.readonly /\ J.finished = init.finished
          /\ J.synchronized = init.synchronized
      BY <1>1 DEF InitRecords
    <3>5. init.write = 0 /\ (init.finished => init.unsynced = 0)
      BY <1>1, <3>1 DEF ListOK
    <3> HIDE DEF J
    <3>6. ListOK(J)
      BY <1>1, <3>3, <3>4, <3>5, SameRowsOK
    <3>7. QED
      BY <1>1, <3>1, <3>4, <3>5, <3>6, CheckFullSyncProgressOK
  <2>5. QED
    BY <2>1, <2>2, <2>3, <2>4
<1>4. QED
  BY <1>1, <1>2, <1>3, TaskStep

LEMMA CheckSyncProgressOK ==
  ASSUME Inv, CheckSyncProgress
  PROVE  Inv'
<1> DEFINE P == ScanPairs(init)
           f == (task.pc = "start")
           n == task.rescans + If(task.pc = "idle", 1)
<1>1. /\ UNCHANGED <<qvars, w, reps, vecs, client, shutdown, count, abandons>>
      /\ task \in TaskStates /\ ListOK(init) /\ init \in InitRecords /\ task.setup
      /\ task.pc \in {"start", "idle"}
  BY DEF CheckSyncProgress, Inv, TypeOK, BootFirst
<1>2. \/ task' = [task EXCEPT !.pc = "idle"] /\ init' = init
      \/ task' = task /\ init' = NoteProgress(init)
      \/ /\ task.pc = "idle" => task.rescans < MaxRescans
         /\ task' = [task EXCEPT !.pc = "scan", !.todo = P, !.first = f, !.rescans = n]
         /\ init' = init
  BY DEF CheckSyncProgress
<1>3. task.rescans \in 0 .. MaxRescans /\ MaxRescans \in Nat
  BY <1>1, DraQueueAssumption DEF TaskStates
<1>4. (task.pc = "idle" => task.rescans < MaxRescans) => n \in 0 .. MaxRescans
  BY <1>3 DEF If
<1>5. P \in Seq(Links) /\ f \in BOOLEAN
  BY <1>1, ScanPairsType DEF Links
<1> HIDE DEF P, f, n
<1>6. task' \in TaskStates /\ task'.pc \notin {"boot", "push"} /\ task'.setup
  <2>1. CASE task' = [task EXCEPT !.pc = "idle"]
    BY <2>1, <1>1 DEF TaskStates
  <2>2. CASE task' = task
    BY <2>2, <1>1
  <2>3. CASE /\ n \in 0 .. MaxRescans
             /\ task' = [task EXCEPT !.pc = "scan", !.todo = P, !.first = f, !.rescans = n]
    BY <2>3, <1>1, <1>5 DEF TaskStates
  <2>4. QED
    BY <1>2, <1>4, <2>1, <2>2, <2>3
<1>7. ListOK(init') /\ (init'.synchronized => init.synchronized)
  BY <1>1, <1>2, NoteProgressOK
<1>8. QED
  BY <1>1, <1>6, <1>7, TaskStep

\* The scan of the list: a pair is skipped, made an operation, or refused.
LEMMA ScanNextOK ==
  ASSUME Inv, ScanNext
  PROVE  Inv'
<1> DEFINE p == Head(task.todo)
           r == InitSyncOf(p)
           op == Op(Corrected(r), Nobody)
           T == Tail(task.todo)
<1>1. /\ UNCHANGED <<qvars, w, reps, vecs, client, shutdown, count, abandons>>
      /\ task \in TaskStates /\ ListOK(init) /\ task.setup
      /\ task.pc = "scan" /\ task.todo # <<>>
      /\ DOMAIN reps \subseteq Links /\ reps \in [DOMAIN reps -> SUBSET LinkFlags]
  BY DEF ScanNext, Inv, TypeOK, BootFirst
<1>2. \/ task' = [task EXCEPT !.todo = T] /\ init' = init
      \/ /\ Accepts(r) /\ task' = [task EXCEPT !.todo = T, !.pc = "push", !.op = op]
         /\ init' = init
      \/ /\ task' = [task EXCEPT !.todo = T]
         /\ init' = InitSyncAttemptComplete(init, p[1], p[2], FALSE, Counts(init), vecs)
  BY DEF ScanNext
<1>3. p \in Links /\ T \in Seq(Links)
  <2>1. task.todo \in Seq(Links)
    BY <1>1 DEF TaskStates
  <2>2. QED
    BY <1>1, <2>1
<1>4. p[1] \in NCs /\ p[2] \in Sources
  BY <1>3 DEF Links
<1>5. Accepts(r) => op \in Ops /\ OpOK(op) /\ Async(op)
  <2> DEFINE o == {"async", "byname", "init"} \cup (IF task.first THEN {"nodiscard"} ELSE {})
  <2>1. o \in SUBSET Options /\ "async" \in o
    BY DEF Options, ReenqueueFlags
  <2>2. r = Sync(p[1], p[2], o)
    BY DEF InitSyncOf
  <2> HIDE DEF o, p, r
  <2>3. r \in Request /\ r.opts = o
    BY <1>4, <2>1, <2>2, SyncType
  <2>4. Accepts(r) => Corrected(r) \in Request /\ "async" \in Corrected(r).opts
    BY <1>1, <2>1, <2>3, CorrectedType
  <2>5. QED
    BY <2>4, OpType DEF Async
<1> HIDE DEF p, r, op, T
<1>6. /\ task' \in TaskStates /\ task'.pc # "boot" /\ task'.setup
      /\ task'.pc = "push" => task'.op \in Ops /\ OpOK(task'.op) /\ Async(task'.op)
  <2>1. CASE task' = [task EXCEPT !.todo = T]
    BY <2>1, <1>1, <1>3 DEF TaskStates
  <2>2. CASE Accepts(r) /\ task' = [task EXCEPT !.todo = T, !.pc = "push", !.op = op]
    <3>1. task' \in TaskStates
      BY <2>2, <1>1, <1>3, <1>5 DEF TaskStates
    <3>2. task'.pc = "push" /\ task'.op = op /\ task'.setup = task.setup
      BY <2>2, <1>1 DEF TaskStates
    <3>3. QED
      BY <2>2, <3>1, <3>2, <1>1, <1>5
  <2>3. QED
    BY <1>2, <2>1, <2>2
<1>7. ListOK(init') /\ (init'.synchronized => init.synchronized \/ DomainNC \in vecs)
  <2>1. CASE init' = init
    BY <2>1, <1>1
  <2>2. CASE init' = InitSyncAttemptComplete(init, p[1], p[2], FALSE, Counts(init), vecs)
    <3>1. ListOK(init)
      BY <1>1
    <3>2. QED
      BY <2>2, <3>1, <1>4, FailureOK, Zenon
  <2>3. QED
    BY <1>2, <2>1, <2>2
<1>8. QED
  BY <1>1, <1>6, <1>7, TaskStep

\* The operation of the scan is enqueued, or refused when the service stops.
LEMMA ScanPushOK ==
  ASSUME Inv, ScanPush
  PROVE  Inv'
<1>1. /\ task.pc = "push" /\ task' = [task EXCEPT !.pc = "scan", !.op = NoOp]
      /\ UNCHANGED <<w, reps, vecs, client, shutdown, count, abandons>>
      /\ \/ /\ init' = InitSyncAttemptComplete(init, task.op.nc, task.op.src, FALSE, Counts(init), vecs)
            /\ UNCHANGED qvars
         \/ AddAsyncOp(task.op) /\ init' = init
  BY DEF ScanPush
<1>2. /\ task \in TaskStates /\ task.op \in Ops /\ OpOK(task.op) /\ task.setup /\ ListOK(init)
  BY <1>1 DEF Inv, TypeOK, OpsOK, BootFirst
<1>3. task.op.nc \in NCs /\ task.op.src \in Sources
  BY <1>2, OpIsThere
<1>4. task' \in TaskStates /\ task'.pc = "scan" /\ task'.setup
  BY <1>1, <1>2 DEF TaskStates
<1>5. ListOK(init') /\ (init'.synchronized => init.synchronized \/ DomainNC \in vecs)
  <2>1. CASE init' = init
    BY <2>1, <1>2
  <2>2. CASE init' = InitSyncAttemptComplete(init, task.op.nc, task.op.src, FALSE, Counts(init), vecs)
    <3>1. ListOK(init)
      BY <1>2
    <3>2. QED
      BY <2>2, <3>1, <1>3, FailureOK, Zenon
  <2>3. QED
    BY <1>1, <2>1, <2>2
<1>6. init' \in InitRecords
  BY <1>5 DEF ListOK
<1>7. Busy' <=> Busy
  BY <1>1 DEF Busy, Running
<1>8. /\ queue' \in Seq(Ops) /\ gulpaocount' \in Nat /\ hevEntries' \in BOOLEAN
      /\ CountExact' /\ WorkSignalled'
      /\ \A i \in DOMAIN queue' : OpOK(queue'[i])
      /\ owed' \subseteq EnabledLinks'
      /\ \E N : QueueStep(N)
  BY <1>1, <1>2, <1>7, AddStep
<1>9. TypeOK'
  BY <1>1, <1>4, <1>6, <1>8 DEF Inv, TypeOK, EnabledLinks
<1>10. OpsOK'
  BY <1>1, <1>4, <1>8 DEF Inv, OpsOK, OpOK
<1>11. WaitedIsThere'
  BY <1>1, <1>8, WaitedStep DEF Inv
<1>12. Holding' /\ BootFirst' /\ SawDomain'
  BY <1>1, <1>4, <1>5 DEF Inv, Holding, BootFirst, SawDomain
<1>13. QED
  BY <1>5, <1>8, <1>9, <1>10, <1>11, <1>12 DEF Inv

LEMMA ScanDoneOK ==
  ASSUME Inv, ScanDone
  PROVE  Inv'
<1>1. /\ UNCHANGED <<qvars, w, reps, vecs, client, shutdown, count, abandons>>
      /\ task \in TaskStates /\ ListOK(init) /\ task.setup
      /\ task' = [task EXCEPT !.pc = "idle", !.todo = <<>>]
      /\ init' = init \/ init' = CheckInitSyncsFinished(init)
  BY DEF ScanDone, Inv, TypeOK, BootFirst
<1>2. <<>> \in Seq(Links)
  OBVIOUS
<1>3. task' \in TaskStates /\ task'.pc = "idle" /\ task'.setup
  BY <1>1, <1>2 DEF TaskStates
<1>4. ListOK(init') /\ (init'.synchronized => init.synchronized)
  BY <1>1, CheckInitSyncsFinishedOK
<1>5. QED
  BY <1>1, <1>3, <1>4, TaskStep

-----------------------------------------------------------------------------
(* The theorems.                                                           *)

LEMMA InitOK ==
  ASSUME Init
  PROVE  Inv
<1>1. /\ queue = <<>> /\ gulpaocount = 0 /\ hevEntries = FALSE /\ w = [Quiet EXCEPT !.pc = "setup"]
      /\ reps = Reps0 /\ vecs \subseteq NCs /\ owed = {}
      /\ client = [c \in Clients |-> [pc |-> "idle", op |-> NoOp]]
      /\ task = [pc |-> "boot", read |-> {}, todo |-> <<>>, op |-> NoOp, first |-> FALSE,
                 setup |-> FALSE, rescans |-> 0]
      /\ init = NoInitSyncs /\ shutdown = FALSE /\ count = 0 /\ abandons = 0
  BY DEF Init
<1>2. w \in WorkerStates /\ w.op = NoOp /\ w.todo = <<>> /\ w.report = <<>> /\ w.pc = "setup"
  BY <1>1, QuietType DEF WorkerStates
<1>3. ListOK(init) /\ Fresh(init) /\ init \in InitRecords
  BY <1>1, NoListOK DEF ListOK
<1>4. <<>> \in Seq(Ops) /\ <<>> \in Seq(Links) /\ Len(<<>>) = 0
  OBVIOUS
<1>5. /\ MaxRequests \in Nat /\ MaxAbandons \in Nat /\ MaxRescans \in Nat
      /\ DOMAIN reps \subseteq Links /\ \A l \in DOMAIN reps : reps[l] \in SUBSET LinkFlags
  BY <1>1, DraQueueAssumption
<1>6. 0 \in 0 .. MaxRequests /\ 0 \in 0 .. MaxAbandons /\ 0 \in 0 .. MaxRescans
  BY <1>5
<1>7. task \in TaskStates /\ task.pc = "boot" /\ ~task.setup
  BY <1>1, <1>4, <1>6 DEF TaskStates
<1>8. client \in [Clients -> CallerStates] /\ \A c \in Clients : client[c].pc = "idle"
  BY <1>1 DEF CallerStates
<1>9. reps \in [DOMAIN reps -> SUBSET LinkFlags]
  BY <1>1, DraQueueAssumption
<1>10. TypeOK
  BY <1>1, <1>2, <1>3, <1>4, <1>5, <1>6, <1>7, <1>8, <1>9 DEF TypeOK
<1>11. CountExact /\ WorkSignalled /\ Holding
  BY <1>1, <1>2, <1>4 DEF CountExact, WorkSignalled, Holding, Running, If
<1>12. OpsOK
  BY <1>1, <1>2, <1>7, <1>8 DEF OpsOK, OpOK
<1>13. WaitedIsThere
  BY <1>8 DEF WaitedIsThere
<1>14. BootFirst
  <2>1. \A l \in Links : ~Contains(init.data[l[1]].sources, l[2])
    BY <1>1 DEF NoInitSyncs, NoData, Contains, Links
  <2>2. QED
    BY <2>1, <1>2, <1>3, <1>7 DEF BootFirst
<1>15. SawDomain
  BY <1>3 DEF SawDomain, Fresh
<1>16. QED
  BY <1>3, <1>10, <1>11, <1>12, <1>13, <1>14, <1>15 DEF Inv

LEMMA StutterOK ==
  ASSUME Inv, UNCHANGED vars
  PROVE  Inv'
<1>1. /\ UNCHANGED <<qvars, reps, vecs, client, task, init, shutdown, count, abandons>> /\ w' = w
      /\ reps' = reps
  BY DEF vars
<1>2. Holding' /\ (Busy' <=> Busy) /\ w' \in WorkerStates /\ (task.pc = "boot" => w'.pc = "setup")
  BY <1>1 DEF Inv, Holding, Busy, Running, TypeOK, BootFirst
<1>3. QED
  BY <1>1, <1>2, WorkerStep

LEMMA NextOK ==
  ASSUME Inv, [Next]_vars
  PROVE  Inv'
<1>1. CASE Worker
  <2>1. CASE AsyncThreadStarts \/ Wakes \/ AsyncThreadEnds \/ ReadCounts
    BY <2>1, WorkerWaitsOK
  <2>2. CASE PaoGet
    BY <2>2, PaoGetOK
  <2>3. CASE DispatchPao
    BY <2>3, DispatchPaoOK
  <2>4. CASE Operation
    BY <2>4, OperationInv
  <2>5. CASE EnqueueNext
    BY <2>5, EnqueueNextOK
  <2>6. CASE OpDone
    BY <2>6, OpDoneOK
  <2>7. QED
    BY <1>1, <2>1, <2>2, <2>3, <2>4, <2>5, <2>6 DEF Worker, Operation
<1>2. CASE Report
  BY <1>2, ReportOK
<1>3. CASE TimesOut
  BY <1>3, WorkerWaitsOK
<1>4. CASE Task
  <2>1. ASSUME NEW l \in DOMAIN reps, ReadLink(l) PROVE Inv'
    BY <2>1, ReadLinkOK
  <2>2. CASE SetupDone
    BY <2>2, SetupDoneOK
  <2>3. CASE CheckWrite \/ CheckReadOnly \/ CheckAll \/ RetryFullSync
    BY <2>3, ChecksOK
  <2>4. CASE CheckSyncProgress
    BY <2>4, CheckSyncProgressOK
  <2>5. CASE ScanNext
    BY <2>5, ScanNextOK
  <2>6. CASE ScanPush
    BY <2>6, ScanPushOK
  <2>7. CASE ScanDone
    BY <2>7, ScanDoneOK
  <2>8. QED
    BY <1>4, <2>1, <2>2, <2>3, <2>4, <2>5, <2>6, <2>7 DEF Task
<1>5. ASSUME NEW c \in Clients, NEW r \in Requests, Call(c, r) PROVE Inv'
  BY <1>5, CallOK
<1>6. ASSUME NEW c \in Clients, DoOpDRS(c) PROVE Inv'
  BY <1>6, DoOpDRSOK
<1>7. ASSUME NEW c \in Clients, ShuttingDown(c) PROVE Inv'
  BY <1>7, ShutdownOK
<1>8. CASE Shutdown
  BY <1>8, ShutdownOK
<1>9. CASE UNCHANGED vars
  BY <1>9, StutterOK
<1>10. QED
  BY <1>1, <1>2, <1>3, <1>4, <1>5, <1>6, <1>7, <1>8, <1>9 DEF Next

\* The inductive invariant holds in every state of the queue, its worker, its
\* callers and the task thread.
THEOREM QueueInvariant == Spec => []Inv
<1>1. Init => Inv
  BY InitOK
<1>2. Inv /\ [Next]_vars => Inv'
  BY NextOK
<1>3. QED
  BY <1>1, <1>2, PTL DEF Spec

\* The variables of the queue, its threads and its callers have their types.
THEOREM QueueTypes == Spec => []TypeOK
<1>1. Inv => TypeOK
  BY DEF Inv
<1>2. QED
  BY <1>1, QueueInvariant, PTL

\* gulpaocount is the number of operations queued or in hand, whatever the
\* filter of duplicates and the purge of periodic syncs take out of the queue.
THEOREM CountIsExact == Spec => []CountExact
<1>1. Inv => CountExact
  BY DEF Inv
<1>2. QED
  BY <1>1, QueueInvariant, PTL

\* The worker never sleeps behind a reset event while an operation is queued.
THEOREM WorkIsSignalled == Spec => []WorkSignalled
<1>1. Inv => WorkSignalled
  BY DEF Inv
<1>2. QED
  BY <1>1, QueueInvariant, PTL

\* The operation a synchronous caller waits for is queued or in hand: it is
\* neither a duplicate for the filter nor a periodic sync for the purge.
THEOREM WaitedForIsThere == Spec => []WaitedIsThere
<1>1. Inv => WaitedIsThere
  BY DEF Inv
<1>2. QED
  BY <1>1, QueueInvariant, PTL

\* The counters of the initial syncs agree with the list, whoever reports
\* attempts, in whatever order and however often.
THEOREM CountersMatchList == Spec => []CountsMatch
<1>1. Inv => CountsMatch
  <2> SUFFICES ASSUME Inv PROVE CountsMatch
    OBVIOUS
  <2>1. ListOK(init) /\ init \in InitRecords
    BY DEF Inv, ListOK
  <2>2. \A nc \in ToSet(init.first) : nc \in NCs
    BY <2>1, ListTypes DEF ToSet
  <2>3. QED
    BY <2>1, <2>2 DEF ListOK, RowOK, WaitingWrit, CountsMatch
<1>2. QED
  BY <1>1, QueueInvariant, PTL

\* The server ends its initial syncs only when every context was synchronised or
\* all of its sources were tried, and says that it is synchronised only when
\* this is so of the writable contexts and the domain completed a cycle.
THEOREM DoneIsTried == Spec => []DoneMeansTried
<1>1. Inv => DoneMeansTried
  <2> SUFFICES ASSUME Inv PROVE DoneMeansTried
    OBVIOUS
  <2>1. ListOK(init) /\ init \in InitRecords
    BY DEF Inv, ListOK
  <2>2. \A nc \in ToSet(init.first) : nc \in NCs
    BY <2>1, ListTypes DEF ToSet
  <2>3. \A nc \in NCs : init.data[nc].complete => Tried(nc)
    BY <2>1 DEF ListOK, RowOK, Tried
  <2>4. ASSUME init.finished, NEW nc \in ToSet(init.first) PROVE Tried(nc)
    <3>1. Cardinality(Waiting(init)) = 0
      BY <2>1, <2>4 DEF ListOK
    <3>2. Waiting(init) = {}
      BY <2>1, <3>1, WaitingFinite, FS_EmptySet
    <3>3. QED
      BY <2>2, <2>3, <3>2 DEF Waiting
  <2>5. ASSUME init.synchronized, NEW nc \in ToSet(init.first), init.data[nc].writ PROVE Tried(nc)
    <3>1. Cardinality(WaitingWrit(init)) = 0
      BY <2>1, <2>5 DEF ListOK
    <3>2. WaitingWrit(init) = {}
      BY <2>1, <3>1, WaitingFinite, FS_EmptySet
    <3>3. QED
      BY <2>2, <2>3, <2>5, <3>2 DEF Waiting, WaitingWrit
  <2>6. QED
    BY <2>4, <2>5 DEF DoneMeansTried, FinishedMeansTried, SynchronizedMeansTried, Inv, SawDomain
<1>2. QED
  BY <1>1, QueueInvariant, PTL

-----------------------------------------------------------------------------
(* No request is lost, as long as no caller asks for a periodic sync of all *)
(* sources: the purge after a failed binding takes the source such a sync  *)
(* names for its only one, and would drop it for the others too.           *)

\* drainit.c issues periodic syncs for one source at a time.
PeriodicNamesOne == \A r \in Requests : "per" \in r.opts => "all" \notin r.opts

CoverInv == Inv /\ PeriodicIsOne /\ AsyncCovers

\* What the worker has in hand of the syncs to come.
InHand == IF w.pc = "got" \/ (w.pc = "run" /\ "all" \in w.op.opts) THEN {w.op} ELSE {}

\* AsyncCovers, by the place of the sync that covers the link.
LEMMA CoverPlaces ==
  AsyncCovers <=> \/ shutdown
                  \/ \A l \in owed : \/ CoveredBy(ToSet(queue), l) \/ CoveredBy(ToSet(w.todo), l)
                                     \/ CoveredBy(InHand, l)
BY DEF AsyncCovers, ToCome, InHand, CoveredBy

\* The operations that the threads and callers keep.
LEMMA PeriodicStep ==
  ASSUME PeriodicIsOne, queue' \in Seq(Ops),
         \A o \in ToSet(queue') : o \in ToSet(queue) \/ OneSource(o),
         OneSource(w'.op), OneSource(task'.op), \A c \in Clients : OneSource(client'[c].op)
  PROVE  PeriodicIsOne'
<1>1. \A i \in DOMAIN queue' : queue'[i] \in ToSet(queue')
  BY DEF ToSet
<1>2. \A o \in ToSet(queue) : OneSource(o)
  BY DEF PeriodicIsOne, ToSet
<1>3. QED
  BY <1>1, <1>2 DEF PeriodicIsOne

\* An operation is added: its links are covered, and those that were stay so.
LEMMA AddCovers ==
  ASSUME Inv, AsyncCovers, NEW op \in Ops, AddAsyncOp(op) \/ UNCHANGED qvars, shutdown' = shutdown,
         \A l \in owed : (CoveredBy(ToSet(w.todo), l) \/ CoveredBy(InHand, l)) =>
                           \/ CoveredBy(ToSet(w'.todo), l) \/ CoveredBy(InHand', l)
                           \/ AddAsyncOp(op) /\ CoveredBy({op}, l)
  PROVE  AsyncCovers'
<1> SUFFICES ASSUME ~shutdown, NEW l \in owed'
             PROVE  \/ CoveredBy(ToSet(queue'), l) \/ CoveredBy(ToSet(w'.todo), l)
                    \/ CoveredBy(InHand', l)
  <2>1. AsyncCovers' <=>
          \/ shutdown'
          \/ \A l \in owed' : \/ CoveredBy(ToSet(queue'), l) \/ CoveredBy(ToSet(w'.todo), l)
                              \/ CoveredBy(InHand', l)
    BY DEF AsyncCovers, ToCome, InHand, CoveredBy
  <2>2. QED
    BY <2>1
<1>1. \A k \in owed : \/ CoveredBy(ToSet(queue), k) \/ CoveredBy(ToSet(w.todo), k)
                      \/ CoveredBy(InHand, k)
  BY CoverPlaces
<1>2. CASE AddAsyncOp(op)
  <2>1. AddEffect(op)
    BY <1>2, AddAsyncOpOK DEF Inv, TypeOK
  <2>2. \A k : CoveredBy(ToSet(queue), k) \/ CoveredBy({op}, k) => CoveredBy(ToSet(queue'), k)
    BY <2>1 DEF AddEffect, CoveredBy
  <2>3. CASE l \in owed
    BY <1>1, <2>2, <2>3
  <2>4. CASE l \notin owed
    <3>1. Async(op) /\ l \in Asks(op)
      BY <2>1, <2>4 DEF AddEffect
    <3>2. CoveredBy({op}, l)
      BY <3>1 DEF Asks, CoveredBy
    <3>3. QED
      BY <2>2, <3>2
  <2>5. QED
    BY <2>3, <2>4
<1>3. CASE ~AddAsyncOp(op) /\ UNCHANGED qvars
  BY <1>1, <1>3 DEF qvars
<1>4. QED
  BY <1>2, <1>3

\* A step that neither touches the queue nor what the worker has in hand.
LEMMA SameCover ==
  ASSUME CoverInv, UNCHANGED qvars, shutdown' = shutdown \/ shutdown',
         w'.op = w.op, w'.todo = w.todo, InHand' = InHand, OneSource(task'.op),
         \A c \in Clients : OneSource(client'[c].op)
  PROVE  PeriodicIsOne' /\ AsyncCovers'
<1>1. queue' = queue /\ owed' = owed /\ queue \in Seq(Ops)
  BY DEF CoverInv, Inv, TypeOK, qvars
<1>2. PeriodicIsOne'
  BY <1>1, PeriodicStep DEF CoverInv, PeriodicIsOne
<1>3. \/ shutdown
      \/ \A l \in owed : \/ CoveredBy(ToSet(queue), l) \/ CoveredBy(ToSet(w.todo), l)
                         \/ CoveredBy(InHand, l)
  BY CoverPlaces DEF CoverInv
<1>4. AsyncCovers' <=>
        \/ shutdown'
        \/ \A l \in owed' : \/ CoveredBy(ToSet(queue'), l) \/ CoveredBy(ToSet(w'.todo), l)
                            \/ CoveredBy(InHand', l)
  BY DEF AsyncCovers, ToCome, InHand, CoveredBy
<1>5. QED
  BY <1>1, <1>2, <1>3, <1>4

LEMMA WorkerWaitsCover ==
  ASSUME CoverInv, AsyncThreadStarts \/ Wakes \/ TimesOut \/ AsyncThreadEnds \/ ReadCounts \/ Report
  PROVE  PeriodicIsOne' /\ AsyncCovers'
<1>1. /\ w \in WorkerStates /\ UNCHANGED qvars /\ shutdown' = shutdown /\ task' = task /\ client' = client
  BY DEF CoverInv, Inv, TypeOK, AsyncThreadStarts, Wakes, TimesOut, AsyncThreadEnds, ReadCounts, Report
<1>2. w.pc \notin {"got", "run"}
  BY DEF AsyncThreadStarts, Wakes, TimesOut, AsyncThreadEnds, ReadCounts, Report
<1>3. w'.op = w.op /\ w'.todo = w.todo /\ w'.pc \notin {"got", "run"}
  <2>1. CASE AsyncThreadStarts
    BY <2>1, QuietType DEF AsyncThreadStarts, CoverInv, Inv, Holding
  <2>2. CASE ~AsyncThreadStarts
    BY <2>2, <1>1 DEF WorkerStates, Wakes, TimesOut, AsyncThreadEnds, ReadCounts, Report
  <2>3. QED
    BY <2>1, <2>2
<1>4. InHand' = InHand
  BY <1>2, <1>3 DEF InHand
<1>5. QED
  BY <1>1, <1>3, <1>4, SameCover DEF CoverInv, PeriodicIsOne

LEMMA OperationCover ==
  ASSUME CoverInv, Operation
  PROVE  PeriodicIsOne' /\ AsyncCovers'
<1>1. w.pc \in {"run", "unref"} /\ AtWork /\ OpEffect /\ CoverPart
  BY OperationOK DEF CoverInv, Inv
<1>2. /\ w'.op = w.op /\ QueueStep({}) /\ client' = client /\ task' = task /\ shutdown' = shutdown
  BY <1>1 DEF OpEffect, WorkerPart
<1>3. w.todo = <<>>
  BY <1>1, AtWorkFacts
<1>4. queue' \in Seq(Ops) /\ ToSet(queue') \subseteq ToSet(queue)
  BY <1>2 DEF QueueStep
<1>5. PeriodicIsOne'
  BY <1>2, <1>4, PeriodicStep DEF CoverInv, PeriodicIsOne
<1>6. ASSUME ~shutdown, NEW l \in owed'
      PROVE  CoveredBy(ToSet(queue'), l) \/ CoveredBy(ToSet(w'.todo), l)
  <2>1. CASE CoveredBy(ToSet(w'.todo), l)
    BY <2>1
  <2>2. CASE /\ l \in owed
             /\ CoveredBy(ToSet(queue), l) => CoveredBy(ToSet(queue'), l)
             /\ ~(w.pc = "run" /\ "all" \in w.op.opts /\ CoveredBy({w.op}, l))
    <3>1. CoveredBy(ToSet(queue), l) \/ CoveredBy(ToSet(w.todo), l) \/ CoveredBy(InHand, l)
      BY <1>6, <2>2, CoverPlaces DEF CoverInv
    <3>2. ~CoveredBy(ToSet(w.todo), l)
      BY <1>3 DEF CoveredBy, ToSet
    <3>3. ~CoveredBy(InHand, l)
      BY <1>1, <2>2 DEF InHand, CoveredBy
    <3>4. QED
      BY <2>2, <3>1, <3>2, <3>3
  <2>3. QED
    BY <1>1, <2>1, <2>2 DEF CoverPart
<1>7. AsyncCovers'
  BY <1>2, <1>6 DEF AsyncCovers, ToCome, CoveredBy
<1>8. QED
  BY <1>5, <1>7

LEMMA PaoGetCover ==
  ASSUME CoverInv, PaoGet
  PROVE  PeriodicIsOne' /\ AsyncCovers'
<1>1. /\ w.pc = "get" /\ w \in WorkerStates /\ queue \in Seq(Ops)
      /\ client' = client /\ task' = task /\ shutdown' = shutdown /\ owed' = owed
      /\ w.op = NoOp /\ w.todo = <<>>
  BY DEF PaoGet, CoverInv, Inv, TypeOK, Holding
<1>2. InHand = {} /\ ToSet(w.todo) = {}
  BY <1>1 DEF InHand, ToSet
<1>3. \A l \in owed : shutdown \/ CoveredBy(ToSet(queue), l)
  BY <1>2, CoverPlaces DEF CoverInv, CoveredBy
<1>4. CASE queue = <<>>
  <2>1. w' = Quiet /\ queue' = queue
    BY <1>4 DEF PaoGet
  <2>2. PeriodicIsOne'
    BY <1>1, <2>1, QuietType, PeriodicStep DEF CoverInv, PeriodicIsOne
  <2>3. AsyncCovers'
    BY <1>1, <1>3, <2>1 DEF AsyncCovers, ToCome, CoveredBy
  <2>4. QED
    BY <2>2, <2>3
<1>5. CASE queue # <<>>
  <2>1. w' = [w EXCEPT !.pc = "got", !.op = Head(queue)] /\ queue' = Tail(queue)
    BY <1>5 DEF PaoGet
  <2>2. /\ Tail(queue) \in Seq(Ops) /\ Len(queue) \in Nat
        /\ Head(queue) = queue[1] /\ 1 \in DOMAIN queue /\ DOMAIN queue = 1 .. Len(queue)
        /\ \A i \in DOMAIN Tail(queue) : i + 1 \in DOMAIN queue /\ Tail(queue)[i] = queue[i + 1]
        /\ DOMAIN Tail(queue) = 1 .. Len(queue) - 1
    BY <1>1, <1>5
  <2>3. w'.pc = "got" /\ w'.op = Head(queue)
    BY <1>1, <2>1 DEF WorkerStates
  <2>4. /\ \A o \in ToSet(queue') : o \in ToSet(queue)
        /\ Head(queue) \in ToSet(queue)
    BY <2>1, <2>2 DEF ToSet
  <2>5. \A o \in ToSet(queue) : o \in ToSet(queue') \/ o = w'.op
    <3> SUFFICES ASSUME NEW o \in ToSet(queue) PROVE o \in ToSet(queue') \/ o = w'.op
      OBVIOUS
    <3>1. PICK i \in DOMAIN queue : o = queue[i]
      BY DEF ToSet
    <3>2. CASE i = 1
      BY <3>1, <3>2, <2>2, <2>3
    <3>3. CASE i # 1
      <4>1. i - 1 \in DOMAIN Tail(queue) /\ (i - 1) + 1 = i
        BY <3>3, <2>2
      <4>2. QED
        BY <4>1, <3>1, <2>1, <2>2 DEF ToSet
    <3>4. QED
      BY <3>2, <3>3
  <2>6. PeriodicIsOne'
    <3>1. OneSource(Head(queue))
      BY <2>2 DEF CoverInv, PeriodicIsOne
    <3>2. QED
      BY <1>1, <2>1, <2>2, <2>3, <2>4, <3>1, PeriodicStep DEF CoverInv, PeriodicIsOne
  <2>7. InHand' = {w'.op}
    BY <2>3 DEF InHand
  <2>8. \A l \in owed' : shutdown' \/ CoveredBy(ToSet(queue'), l) \/ CoveredBy(InHand', l)
    BY <1>1, <1>3, <2>5, <2>7 DEF CoveredBy
  <2>9. AsyncCovers'
    BY <2>8 DEF AsyncCovers, ToCome, InHand, CoveredBy
  <2>10. QED
    BY <2>6, <2>9
<1>6. QED
  BY <1>4, <1>5

LEMMA DispatchPaoCover ==
  ASSUME CoverInv, DispatchPao
  PROVE  PeriodicIsOne' /\ AsyncCovers'
<1>1. /\ w.pc = "got" /\ w \in WorkerStates /\ w' = [w EXCEPT !.pc = "run"]
      /\ owed' = owed \ {l \in owed : "all" \notin w.op.opts /\ Attempts(w.op, l)}
      /\ queue' = queue /\ client' = client /\ task' = task /\ shutdown' = shutdown
      /\ queue \in Seq(Ops)
  BY DEF DispatchPao, CoverInv, Inv, TypeOK
<1>2. w'.pc = "run" /\ w'.op = w.op /\ w'.todo = w.todo
  BY <1>1 DEF WorkerStates
<1>3. PeriodicIsOne'
  BY <1>1, <1>2, PeriodicStep DEF CoverInv, PeriodicIsOne
<1>4. ASSUME ~shutdown, NEW l \in owed'
      PROVE  \/ CoveredBy(ToSet(queue'), l) \/ CoveredBy(ToSet(w'.todo), l)
             \/ CoveredBy(InHand', l)
  <2>1. l \in owed /\ ("all" \in w.op.opts \/ ~Attempts(w.op, l))
    BY <1>1
  <2>2. CoveredBy(ToSet(queue), l) \/ CoveredBy(ToSet(w.todo), l) \/ CoveredBy(InHand, l)
    BY <1>4, <2>1, CoverPlaces DEF CoverInv
  <2>3. CoveredBy(InHand, l) => CoveredBy(InHand', l)
    BY <1>1, <1>2, <2>1 DEF InHand, CoveredBy
  <2>4. QED
    BY <1>1, <1>2, <2>2, <2>3
<1>5. AsyncCovers'
  BY <1>1, <1>4 DEF AsyncCovers, ToCome, InHand, CoveredBy
<1>6. QED
  BY <1>3, <1>5

\* The worker enqueues its next sync, whose link still exists if it is owed.
LEMMA EnqueueNextCover ==
  ASSUME CoverInv, EnqueueNext
  PROVE  PeriodicIsOne' /\ AsyncCovers'
<1> DEFINE r == Head(w.todo)
           op == Op(Corrected(r), Nobody)
<1>1. /\ w.pc = "queue" /\ w.todo # <<>> /\ w' = [w EXCEPT !.todo = Tail(w.todo)]
      /\ reps' = reps /\ client' = client /\ task' = task /\ shutdown' = shutdown
      /\ IF Accepts(r) /\ ~shutdown THEN AddAsyncOp(op) ELSE UNCHANGED qvars
  BY DEF EnqueueNext
<1>2. /\ w \in WorkerStates /\ w.todo \in Seq(Request) /\ DOMAIN reps \subseteq Links
      /\ reps \in [DOMAIN reps -> SUBSET LinkFlags] /\ owed \subseteq DOMAIN reps /\ queue \in Seq(Ops)
  BY DEF CoverInv, Inv, TypeOK, WorkerStates
<1>3. /\ r \in Request /\ r = w.todo[1] /\ 1 \in DOMAIN w.todo /\ DOMAIN w.todo = 1 .. Len(w.todo)
      /\ Len(w.todo) \in Nat
      /\ \A i \in DOMAIN w.todo : i # 1 => /\ i - 1 \in DOMAIN Tail(w.todo)
                                           /\ Tail(w.todo)[i - 1] = w.todo[i]
  BY <1>1, <1>2
<1>4. w'.pc = "queue" /\ w'.op = w.op /\ w'.todo = Tail(w.todo)
  BY <1>1, <1>2 DEF WorkerStates
<1>5. TodoOK(r)
  BY <1>3 DEF CoverInv, Inv, OpsOK
<1>6. \A o \in ToSet(w.todo) : o = r \/ o \in ToSet(w'.todo)
  BY <1>3, <1>4 DEF ToSet
<1>7. r.kind = "sync" /\ "async" \in r.opts /\ "all" \notin r.opts /\ "notify" \notin r.opts
  BY <1>5 DEF TodoOK, Async
<1> HIDE DEF r, op
<1>8. Accepts(r) => /\ op \in Ops /\ OpOK(op) /\ OneSource(op) /\ Async(op)
                    /\ \A l : Attempts(r, l) => Attempts(op, l)
  <2>1. Accepts(r) => /\ Corrected(r) \in Request /\ Corrected(r).kind = r.kind
                      /\ Corrected(r).nc = r.nc /\ Corrected(r).src = r.src
                      /\ "async" \in Corrected(r).opts /\ "all" \notin Corrected(r).opts
    BY <1>2, <1>3, <1>7, CorrectedType
  <2>2. Nobody \in Clients \cup {Nobody}
    OBVIOUS
  <2>3. Accepts(r) => /\ op \in Ops /\ OpOK(op) /\ op.kind = r.kind /\ op.nc = r.nc /\ op.src = r.src
                      /\ "async" \in op.opts /\ "all" \notin op.opts
    BY <2>1, <2>2, OpType DEF op
  <2>4. QED
    BY <1>7, <2>3 DEF OneSource, Async, Attempts
<1>9. \A l \in owed : Attempts(r, l) => Accepts(r)
  <2> SUFFICES ASSUME NEW l \in owed, Attempts(r, l) PROVE Accepts(r)
    OBVIOUS
  <2>1. l \in Links /\ l = <<l[1], l[2]>> /\ l \in DOMAIN reps
    BY <1>2 DEF Links
  <2>2. Link(r) = l
    BY <1>7, <2>1 DEF Attempts, Link
  <2>3. QED
    BY <1>7, <2>1, <2>2 DEF Accepts
<1>10. InHand = {} /\ InHand' = {}
  BY <1>1, <1>4 DEF InHand
<1>11. PeriodicIsOne'
  <2>1. Accepts(r) /\ ~shutdown => ToSet(queue') \subseteq ToSet(queue) \cup {op} /\ queue' \in Seq(Ops)
    BY <1>1, <1>8, AddAsyncOpOK DEF CoverInv, Inv, TypeOK, AddEffect
  <2>2. ~(Accepts(r) /\ ~shutdown) => queue' = queue
    BY <1>1 DEF qvars
  <2>3. QED
    BY <2>1, <2>2, <1>1, <1>2, <1>4, <1>8, PeriodicStep DEF CoverInv, PeriodicIsOne
<1>12. CASE shutdown
  BY <1>1, <1>11, <1>12 DEF AsyncCovers
<1>13. ASSUME ~shutdown, Accepts(r) PROVE AsyncCovers'
  <2>1. AddAsyncOp(op) /\ op \in Ops
    BY <1>1, <1>8, <1>13
  <2>2. \A l \in owed : (CoveredBy(ToSet(w.todo), l) \/ CoveredBy(InHand, l)) =>
                           \/ CoveredBy(ToSet(w'.todo), l) \/ CoveredBy(InHand', l)
                           \/ AddAsyncOp(op) /\ CoveredBy({op}, l)
    BY <2>1, <1>6, <1>8, <1>10, <1>13 DEF CoveredBy
  <2>3. QED
    BY <2>1, <2>2, <1>1, AddCovers DEF CoverInv
<1>14. ASSUME ~shutdown, ~Accepts(r) PROVE AsyncCovers'
  <2>1. queue' = queue /\ owed' = owed
    BY <1>1, <1>14 DEF qvars
  <2>2. \A l \in owed : CoveredBy(ToSet(queue), l) \/ CoveredBy(ToSet(w.todo), l) \/ CoveredBy(InHand, l)
    BY <1>14, CoverPlaces DEF CoverInv
  <2>3. \A l \in owed : CoveredBy(ToSet(w.todo), l) => CoveredBy(ToSet(w'.todo), l)
    BY <1>6, <1>9, <1>14 DEF CoveredBy
  <2>4. \A l \in owed' : CoveredBy(ToSet(queue'), l) \/ CoveredBy(ToSet(w'.todo), l)
    BY <2>1, <2>2, <2>3, <1>10 DEF CoveredBy
  <2>5. QED
    BY <2>4 DEF AsyncCovers, ToCome, CoveredBy
<1>15. QED
  BY <1>11, <1>12, <1>13, <1>14

LEMMA OpDoneCover ==
  ASSUME CoverInv, OpDone
  PROVE  PeriodicIsOne' /\ AsyncCovers'
<1>1. /\ w.pc = "queue" /\ w.todo = <<>> /\ w' = Quiet /\ queue' = queue /\ owed' = owed
      /\ task' = task /\ shutdown' = shutdown /\ queue \in Seq(Ops)
      /\ client' = IF w.op.client \in Clients /\ client[w.op.client].pc = "waiting"
                   THEN [client EXCEPT ![w.op.client] = [pc |-> "idle", op |-> NoOp]] ELSE client
  BY DEF OpDone, CoverInv, Inv, TypeOK
<1>2. \A c \in Clients : client'[c] = client[c] \/ client'[c] = [pc |-> "idle", op |-> NoOp]
  BY <1>1 DEF CoverInv, Inv, TypeOK
<1>3. OneSource(NoOp)
  BY DEF OneSource
<1>4. \A c \in Clients : OneSource(client'[c].op)
  BY <1>2, <1>3 DEF CoverInv, PeriodicIsOne
<1>5. PeriodicIsOne'
  BY <1>1, <1>3, <1>4, QuietType, PeriodicStep DEF CoverInv, PeriodicIsOne
<1>6. InHand = {} /\ InHand' = {} /\ w'.todo = <<>>
  BY <1>1, QuietType DEF InHand
<1>7. \A l \in owed : shutdown \/ CoveredBy(ToSet(queue), l)
  BY <1>1, <1>6, CoverPlaces DEF CoverInv, CoveredBy, ToSet
<1>8. AsyncCovers'
  BY <1>1, <1>7 DEF AsyncCovers, ToCome, CoveredBy
<1>9. QED
  BY <1>5, <1>8

LEMMA CallersCover ==
  ASSUME CoverInv, PeriodicNamesOne, NEW c \in Clients,
         (\E r \in Requests : Call(c, r)) \/ DoOpDRS(c) \/ ShuttingDown(c)
  PROVE  PeriodicIsOne' /\ AsyncCovers'
<1>0. w' = w /\ task' = task /\ shutdown' = shutdown /\ reps' = reps
  BY DEF Call, DoOpDRS, ShuttingDown
<1>1. ASSUME NEW r \in Requests, Call(c, r) PROVE PeriodicIsOne' /\ AsyncCovers'
  <2> DEFINE op == Op(Corrected(r), c)
  <2>1. /\ UNCHANGED qvars
        /\ client' = client \/ (Accepts(r) /\ client' = [client EXCEPT ![c] = [pc |-> "ready", op |-> op]])
    BY <1>1 DEF Call
  <2>2. Accepts(r) => OneSource(op)
    <3>1. r \in Request /\ DOMAIN reps \subseteq Links /\ reps \in [DOMAIN reps -> SUBSET LinkFlags]
      BY DraQueueAssumption DEF CoverInv, Inv, TypeOK
    <3>2. Accepts(r) => /\ Corrected(r) \in Request
                        /\ "per" \in Corrected(r).opts => "all" \notin Corrected(r).opts
      BY <3>1, CorrectedType DEF PeriodicNamesOne
    <3>3. QED
      BY <3>2, OpType DEF OneSource
  <2> HIDE DEF op
  <2>3. \A d \in Clients : OneSource(client'[d].op)
    BY <2>1, <2>2 DEF CoverInv, PeriodicIsOne, Inv, TypeOK
  <2>4. InHand' = InHand
    BY <1>0 DEF InHand
  <2>5. QED
    BY <1>0, <2>1, <2>3, <2>4, SameCover DEF CoverInv, PeriodicIsOne
<1>2. CASE ShuttingDown(c)
  <2>1. UNCHANGED qvars /\ client' = [client EXCEPT ![c] = [pc |-> "idle", op |-> NoOp]]
    BY <1>2 DEF ShuttingDown
  <2>2. OneSource(NoOp)
    BY DEF OneSource
  <2>3. \A d \in Clients : OneSource(client'[d].op)
    BY <2>1, <2>2 DEF CoverInv, PeriodicIsOne, Inv, TypeOK
  <2>4. InHand' = InHand
    BY <1>0 DEF InHand
  <2>5. QED
    BY <1>0, <2>1, <2>3, <2>4, SameCover DEF CoverInv, PeriodicIsOne
<1>3. CASE DoOpDRS(c)
  <2> DEFINE op == client[c].op
  <2>1. /\ client[c].pc = "ready"
        /\ AddAsyncOp(op) \/ UNCHANGED qvars
        /\ \E pc \in {"idle", "waiting"} : client' = [client EXCEPT ![c] = [pc |-> pc, op |-> NoOp]]
    BY <1>3 DEF DoOpDRS
  <2>2. op \in Ops /\ OneSource(op)
    BY <2>1 DEF CoverInv, Inv, OpsOK, PeriodicIsOne
  <2>3. OneSource(NoOp)
    BY DEF OneSource
  <2>4. \A d \in Clients : OneSource(client'[d].op)
    BY <2>1, <2>3 DEF CoverInv, PeriodicIsOne, Inv, TypeOK
  <2> HIDE DEF op
  <2>5. ToSet(queue') \subseteq ToSet(queue) \cup {op} /\ queue' \in Seq(Ops)
    <3>1. CASE AddAsyncOp(op)
      BY <3>1, <2>2, AddAsyncOpOK DEF CoverInv, Inv, TypeOK, AddEffect
    <3>2. CASE UNCHANGED qvars
      BY <3>2 DEF CoverInv, Inv, TypeOK, qvars
    <3>3. QED
      BY <2>1, <3>1, <3>2
  <2>6. PeriodicIsOne'
    BY <1>0, <2>2, <2>4, <2>5, PeriodicStep DEF CoverInv, PeriodicIsOne
  <2>7. InHand' = InHand
    BY <1>0 DEF InHand
  <2>8. AsyncCovers'
    BY <1>0, <2>1, <2>2, <2>7, AddCovers DEF CoverInv
  <2>9. QED
    BY <2>6, <2>8
<1>4. QED
  BY <1>1, <1>2, <1>3

LEMMA TaskCover ==
  ASSUME CoverInv, Task
  PROVE  PeriodicIsOne' /\ AsyncCovers'
<1>0. /\ w' = w /\ client' = client /\ shutdown' = shutdown /\ reps' = reps
      /\ task \in TaskStates /\ DOMAIN reps \subseteq Links
      /\ reps \in [DOMAIN reps -> SUBSET LinkFlags] /\ queue \in Seq(Ops)
  BY DEF Task, ReadLink, SetupDone, CheckWrite, CheckReadOnly, CheckAll, CheckSyncProgress, ScanNext,
         ScanPush, ScanDone, RetryFullSync, CoverInv, Inv, TypeOK
<1>1. InHand' = InHand
  BY <1>0 DEF InHand
<1>2. CASE SetupDone \/ CheckWrite \/ CheckReadOnly \/ CheckAll \/ CheckSyncProgress \/ ScanDone
            \/ RetryFullSync
  <2>1. UNCHANGED qvars
    BY <1>2 DEF SetupDone, CheckWrite, CheckReadOnly, CheckAll, CheckSyncProgress, ScanDone, RetryFullSync
  <2>2. task'.op = task.op
    BY <1>0, <1>2 DEF SetupDone, CheckWrite, CheckReadOnly, CheckAll, CheckSyncProgress, ScanDone,
                      RetryFullSync, TaskStates
  <2>3. QED
    BY <1>0, <1>1, <2>1, <2>2, SameCover DEF CoverInv, PeriodicIsOne
<1>3. CASE ScanNext
  <2> DEFINE p == Head(task.todo)
             r == InitSyncOf(p)
             op == Op(Corrected(r), Nobody)
             T == Tail(task.todo)
  <2>1. /\ UNCHANGED qvars /\ task.todo # <<>>
        /\ \/ task' = [task EXCEPT !.todo = T]
           \/ Accepts(r) /\ task' = [task EXCEPT !.todo = T, !.pc = "push", !.op = op]
    BY <1>3 DEF ScanNext
  <2>2. Accepts(r) => OneSource(op)
    <3> DEFINE o == {"async", "byname", "init"} \cup (IF task.first THEN {"nodiscard"} ELSE {})
    <3>1. o \in SUBSET Options /\ "per" \notin o
      BY DEF Options, ReenqueueFlags
    <3>2. r = Sync(p[1], p[2], o)
      BY DEF InitSyncOf
    <3>3. p \in Links
      <4>1. task.todo \in Seq(Links)
        BY <1>0 DEF TaskStates
      <4>2. QED
        BY <2>1, <4>1
    <3>4. p[1] \in NCs /\ p[2] \in Sources
      BY <3>3 DEF Links
    <3> HIDE DEF o, p, r
    <3>5. r \in Request /\ r.opts = o
      BY <3>1, <3>2, <3>4, SyncType
    <3>6. Accepts(r) => Corrected(r) \in Request /\ "per" \notin Corrected(r).opts
      BY <1>0, <3>1, <3>5, CorrectedType
    <3>7. QED
      BY <3>6, OpType DEF OneSource
  <2> HIDE DEF op, r, p, T
  <2>3. OneSource(task'.op)
    <3>1. task'.op = task.op \/ (Accepts(r) /\ task'.op = op)
      BY <1>0, <2>1 DEF TaskStates
    <3>2. QED
      BY <2>2, <3>1 DEF CoverInv, PeriodicIsOne
  <2>4. QED
    BY <1>0, <1>1, <2>1, <2>3, SameCover DEF CoverInv, PeriodicIsOne
<1>4. ASSUME NEW op \in Ops, OneSource(op), AddAsyncOp(op) \/ UNCHANGED qvars, OneSource(task'.op)
      PROVE  PeriodicIsOne' /\ AsyncCovers'
  <2>1. ToSet(queue') \subseteq ToSet(queue) \cup {op} /\ queue' \in Seq(Ops)
    <3>1. CASE AddAsyncOp(op)
      BY <3>1, <1>4, AddAsyncOpOK DEF CoverInv, Inv, TypeOK, AddEffect
    <3>2. CASE UNCHANGED qvars
      BY <3>2, <1>0 DEF qvars
    <3>3. QED
      BY <1>4, <3>1, <3>2
  <2>2. PeriodicIsOne'
    BY <1>0, <1>4, <2>1, PeriodicStep DEF CoverInv, PeriodicIsOne
  <2>3. AsyncCovers'
    BY <1>0, <1>1, <1>4, AddCovers DEF CoverInv
  <2>4. QED
    BY <2>2, <2>3
<1>5. CASE ScanPush
  <2>1. /\ task.pc = "push" /\ task' = [task EXCEPT !.pc = "scan", !.op = NoOp]
        /\ AddAsyncOp(task.op) \/ UNCHANGED qvars
    BY <1>5 DEF ScanPush
  <2>2. task.op \in Ops /\ OneSource(task.op)
    BY <2>1 DEF CoverInv, Inv, OpsOK, PeriodicIsOne
  <2>3. task'.op = NoOp /\ OneSource(NoOp)
    BY <1>0, <2>1 DEF TaskStates, OneSource
  <2>4. QED
    BY <1>4, <2>1, <2>2, <2>3
<1>6. ASSUME NEW l \in DOMAIN reps, ReadLink(l) PROVE PeriodicIsOne' /\ AsyncCovers'
  <2> DEFINE r == Sync(l[1], l[2], {"async"})
             op == Op(Corrected(r), Nobody)
  <2>1. /\ AddAsyncOp(op) \/ UNCHANGED qvars
        /\ task' = [task EXCEPT !.read = task.read \cup {l}]
    BY <1>6 DEF ReadLink
  <2>2. l \in Links /\ l[1] \in NCs /\ l[2] \in Sources /\ l = <<l[1], l[2]>>
    BY <1>0 DEF Links
  <2>3. op \in Ops /\ OneSource(op)
    <3>1. {"async"} \in SUBSET Options
      BY DEF Options
    <3>2. r \in Request /\ r.kind = "sync" /\ r.nc = l[1] /\ r.src = l[2] /\ r.opts = {"async"}
      BY <2>2, <3>1, SyncType
    <3>3. Accepts(r)
      BY <2>2, <3>2 DEF Accepts, Link
    <3> HIDE DEF r
    <3>4. Corrected(r) \in Request /\ "per" \notin Corrected(r).opts
      BY <1>0, <3>2, <3>3, CorrectedType
    <3>5. QED
      BY <3>4, OpType DEF OneSource
  <2> HIDE DEF op
  <2>4. task'.op = task.op
    BY <1>0, <2>1 DEF TaskStates
  <2>5. QED
    BY <1>4, <2>1, <2>3, <2>4 DEF CoverInv, PeriodicIsOne
<1>7. QED
  BY <1>2, <1>3, <1>5, <1>6 DEF Task

LEMMA CoverNext ==
  ASSUME PeriodicNamesOne, CoverInv, [Next]_vars
  PROVE  CoverInv'
<1> SUFFICES PeriodicIsOne' /\ AsyncCovers'
  BY NextOK DEF CoverInv
<1>1. CASE Worker
  <2>1. CASE AsyncThreadStarts \/ Wakes \/ AsyncThreadEnds \/ ReadCounts
    BY <2>1, WorkerWaitsCover
  <2>2. CASE PaoGet
    BY <2>2, PaoGetCover
  <2>3. CASE DispatchPao
    BY <2>3, DispatchPaoCover
  <2>4. CASE Operation
    BY <2>4, OperationCover
  <2>5. CASE EnqueueNext
    BY <2>5, EnqueueNextCover
  <2>6. CASE OpDone
    BY <2>6, OpDoneCover
  <2>7. QED
    BY <1>1, <2>1, <2>2, <2>3, <2>4, <2>5, <2>6 DEF Worker, Operation
<1>2. CASE Report \/ TimesOut
  BY <1>2, WorkerWaitsCover
<1>3. CASE Task
  BY <1>3, TaskCover
<1>4. ASSUME NEW c \in Clients, (\E r \in Requests : Call(c, r)) \/ DoOpDRS(c) \/ ShuttingDown(c)
      PROVE  PeriodicIsOne' /\ AsyncCovers'
  BY <1>4, CallersCover
<1>5. CASE Shutdown \/ UNCHANGED vars
  <2>1. /\ UNCHANGED qvars /\ w' = w /\ task' = task /\ client' = client
        /\ shutdown' = shutdown \/ shutdown'
    BY <1>5 DEF Shutdown, vars
  <2>2. InHand' = InHand
    BY <2>1 DEF InHand
  <2>3. QED
    BY <2>1, <2>2, SameCover DEF CoverInv, PeriodicIsOne
<1>6. QED
  BY <1>1, <1>2, <1>3, <1>4, <1>5 DEF Next

LEMMA CoverInit ==
  ASSUME Init
  PROVE  CoverInv
<1>1. Inv
  BY InitOK
<1>2. /\ queue = <<>> /\ owed = {} /\ w.op = NoOp /\ task.op = NoOp
      /\ \A c \in Clients : client[c].op = NoOp
  BY QuietType DEF Init, WorkerStates
<1>3. PeriodicIsOne /\ AsyncCovers
  BY <1>2 DEF PeriodicIsOne, OneSource, AsyncCovers
<1>4. QED
  BY <1>1, <1>3 DEF CoverInv

\* No accepted request is lost, through discarded duplicates, syncs of all
\* sources, changed priorities, preemption, requeueing and the purge, as long as
\* no caller asks for a periodic sync of all sources.
THEOREM NoRequestIsLost ==
  ASSUME PeriodicNamesOne
  PROVE  Spec => []NoRequestLost
<1>1. Init => CoverInv
  BY CoverInit
<1>2. CoverInv /\ [Next]_vars => CoverInv'
  BY CoverNext
<1>3. CoverInv => NoRequestLost
  BY DEF CoverInv, Inv, AsyncCovers, NoRequestLost, OwedIsCovered
<1>4. QED
  BY <1>1, <1>2, <1>3, PTL DEF Spec
=============================================================================
