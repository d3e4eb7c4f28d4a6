--------------------------- MODULE InitSyncProofs ---------------------------
(***************************************************************************)
(* Lemmas about the list of initial syncs: what each operator of InitSync  *)
(* preserves.  DraQueueProofs uses them for the threads that call the      *)
(* operators.                                                              *)
(***************************************************************************)
EXTENDS InitSync, FiniteSetTheorems, TLAPS

-----------------------------------------------------------------------------
(* The invariant of the list.                                              *)

\* One context of the list: its sources are distinct, those completed are among
\* them, and the context is complete only if it was synchronised or given up.
RowOK(d) ==
  /\ Cardinality(ToSet(d.sources)) = Len(d.sources)
  /\ d.completed \subseteq ToSet(d.sources)
  /\ d.untried = Len(d.sources) - Cardinality(d.completed)
  /\ d.complete => d.synced \/ d.completed = ToSet(d.sources)

WaitingWrit(I) == {nc \in Waiting(I) : I.data[nc].writ}

\* The list: a context that is not on it has no source, the counters count
\* what is incomplete, and nobody acted on a counter before it was zero.
ListOK(I) ==
  /\ I \in InitRecords
  /\ \A nc \in NCs : RowOK(I.data[nc])
  /\ \A nc \in NCs \ ToSet(I.first) : I.data[nc].sources = <<>>
  /\ I.unsynced = Cardinality(Waiting(I))
  /\ I.write = Cardinality(WaitingWrit(I))
  /\ I.unsynced = I.write + I.readonly
  /\ I.finished => I.unsynced = 0
  /\ I.synchronized \/ I.retry > 0 => I.write = 0

\* Nothing was reported yet: the state while the list is built.
Fresh(I) ==
  /\ \A nc \in NCs : I.data[nc].completed = {} /\ ~I.data[nc].synced /\ ~I.data[nc].complete
  /\ ~I.finished /\ ~I.synchronized /\ I.retry = 0

-----------------------------------------------------------------------------
(* Sequences and finite sets.                                              *)

\* The contents of a sequence after an append, and membership in it.
LEMMA AppendSet ==
  ASSUME NEW S, NEW s \in Seq(S), NEW e \in S
  PROVE  /\ ToSet(s) \subseteq S
         /\ ToSet(Append(s, e)) = ToSet(s) \cup {e}
         /\ Contains(s, e) <=> e \in ToSet(s)
         /\ Append(s, e) \in Seq(S) /\ Len(Append(s, e)) = Len(s) + 1
         /\ Len(s) \in Nat
<1>1. DOMAIN s = 1 .. Len(s) /\ \A i \in DOMAIN s : s[i] \in S
  OBVIOUS
<1>2. /\ DOMAIN Append(s, e) = 1 .. (Len(s) + 1)
      /\ Append(s, e)[Len(s) + 1] = e
      /\ \A i \in 1 .. Len(s) : Append(s, e)[i] = s[i]
  OBVIOUS
<1>3. ToSet(Append(s, e)) = ToSet(s) \cup {e}
  BY <1>1, <1>2 DEF ToSet
<1>4. QED
  BY <1>1, <1>3 DEF ToSet, Contains

\* Ascending lists a finite set of numbers completely.
LEMMA AscendingLists ==
  ASSUME NEW S \in SUBSET Nat, IsFiniteSet(S)
  PROVE  /\ Cardinality(S) \in Nat
         /\ Ascending(S) \in [1 .. Cardinality(S) -> S]
         /\ \A i \in S : \E k \in 1 .. Cardinality(S) : Ascending(S)[k] = i
<1> DEFINE n == Cardinality(S)
           below(i) == {j \in S : j <= i}
           rank == [i \in S |-> Cardinality(below(i))]
<1>0. \A i \in S : i \in Nat
  OBVIOUS
<1>1. n \in Nat
  BY FS_CardinalityType
<1>2. \A i \in S : IsFiniteSet(below(i)) /\ Cardinality(below(i)) \in 1 .. n
  <2> SUFFICES ASSUME NEW i \in S
               PROVE  IsFiniteSet(below(i)) /\ Cardinality(below(i)) \in 1 .. n
    OBVIOUS
  <2>1. IsFiniteSet(below(i)) /\ Cardinality(below(i)) <= n
    BY FS_Subset
  <2>2. Cardinality(below(i)) \in Nat
    BY <2>1, FS_CardinalityType
  <2>3. i \in below(i)
    BY <1>0
  <2>4. Cardinality(below(i)) # 0
    BY <2>1, <2>3, FS_EmptySet
  <2>5. QED
    BY <2>1, <2>2, <2>4, <1>1
<1>3. \A i, j \in S : i < j => Cardinality(below(i)) # Cardinality(below(j))
  <2> SUFFICES ASSUME NEW i \in S, NEW j \in S, i < j
               PROVE  Cardinality(below(i)) # Cardinality(below(j))
    OBVIOUS
  <2>0. i \in Nat /\ j \in Nat
    BY <1>0
  <2>1. below(i) \in SUBSET below(j)
    <3>1. \A k \in S : k <= i => k <= j
      BY <1>0, <2>0
    <3>2. QED
      BY <3>1
  <2>2. j \in below(j) /\ j \notin below(i)
    BY <1>0
  <2>3. QED
    BY <2>1, <2>2, <1>2, FS_Subset
<1>4. rank \in Injection(S, 1 .. n)
  <2>1. rank \in [S -> 1 .. n]
    BY <1>2
  <2>2. ASSUME NEW i \in S, NEW j \in S, rank[i] = rank[j] PROVE i = j
    <3>1. Cardinality(below(i)) = Cardinality(below(j))
      BY <2>2
    <3>2. ~(i < j) /\ ~(j < i)
      BY <3>1, <1>3
    <3>3. QED
      BY <3>2, <1>0
  <2>3. QED
    BY <2>1, <2>2 DEF Injection, IsInjective
<1>5. IsFiniteSet(1 .. n) /\ Cardinality(1 .. n) = n
  BY <1>1, FS_Interval
<1>6. rank \in Surjection(S, 1 .. n)
  BY <1>4, <1>5, FS_Injection
<1>7. \A k \in 1 .. n : \E i \in S : Cardinality(below(i)) = k
  BY <1>6 DEF Surjection
<1>8. \A k \in 1 .. n : /\ Ascending(S)[k] \in S
                        /\ Cardinality(below(Ascending(S)[k])) = k
  BY <1>7 DEF Ascending
<1>9. \A i \in S : Ascending(S)[Cardinality(below(i))] = i
  <2> SUFFICES ASSUME NEW i \in S
               PROVE  Ascending(S)[Cardinality(below(i))] = i
    OBVIOUS
  <2> DEFINE a == Ascending(S)[Cardinality(below(i))]
  <2>1. a \in S /\ Cardinality(below(a)) = Cardinality(below(i))
    BY <1>2, <1>8
  <2>2. ~(a < i) /\ ~(i < a)
    BY <2>1, <1>3
  <2>3. a \in Nat /\ i \in Nat
    BY <2>1, <1>0
  <2> HIDE DEF a
  <2>4. a = i
    BY <2>2, <2>3
  <2>5. QED
    BY <2>4 DEF a
<1>10. Ascending(S) \in [1 .. n -> S]
  BY <1>8 DEF Ascending
<1>11. QED
  BY <1>1, <1>2, <1>9, <1>10

-----------------------------------------------------------------------------
(* The list is built.                                                      *)

\* The types of the parts of a list.
LEMMA ListTypes ==
  ASSUME NEW I \in InitRecords
  PROVE  /\ I.first \in Seq(NCs) /\ I.data \in [NCs -> NCSyncData]
         /\ I.unsynced \in Int /\ I.write \in Int /\ I.readonly \in Int /\ I.retry \in Nat
         /\ I.finished \in BOOLEAN /\ I.synchronized \in BOOLEAN /\ I.gc \in BOOLEAN
         /\ \A nc \in NCs : /\ I.data[nc] \in NCSyncData
                            /\ I.data[nc].sources \in Seq(Sources)
                            /\ I.data[nc].completed \subseteq Sources
                            /\ I.data[nc].untried \in Nat /\ I.data[nc].tried \in Nat
                            /\ I.data[nc].writ \in BOOLEAN /\ I.data[nc].synced \in BOOLEAN
                            /\ I.data[nc].complete \in BOOLEAN
BY DEF InitRecords, NCSyncData

\* The contexts waited for are finitely many.
LEMMA WaitingFinite ==
  ASSUME NEW I \in InitRecords
  PROVE  /\ Waiting(I) \subseteq NCs
         /\ IsFiniteSet(Waiting(I)) /\ IsFiniteSet(WaitingWrit(I))
         /\ Cardinality(Waiting(I)) \in Nat /\ Cardinality(WaitingWrit(I)) \in Nat
<1>1. Waiting(I) \subseteq NCs /\ WaitingWrit(I) \subseteq NCs
  BY ListTypes DEF Waiting, WaitingWrit, ToSet
<1>2. QED
  BY <1>1, FS_Subset, FS_CardinalityType, InitSyncAssumption

\* The empty list.
LEMMA NoListOK == ListOK(NoInitSyncs) /\ Fresh(NoInitSyncs)
<1>1. NoData \in NCSyncData /\ <<>> \in Seq(NCs)
  BY DEF NoData, NCSyncData
<1>2. NoInitSyncs \in InitRecords
  BY <1>1 DEF NoInitSyncs, InitRecords
<1>3. ToSet(<<>>) = {}
  BY DEF ToSet
<1>4. Waiting(NoInitSyncs) = {} /\ WaitingWrit(NoInitSyncs) = {}
  BY <1>3 DEF Waiting, WaitingWrit, NoInitSyncs
<1>5. Cardinality({}) = 0
  BY FS_EmptySet
<1>6. \A nc \in NCs : NoInitSyncs.data[nc] = NoData
  BY DEF NoInitSyncs
<1>7. RowOK(NoData)
  BY <1>3, <1>5 DEF RowOK, NoData
<1>8. /\ NoInitSyncs.unsynced = 0 /\ NoInitSyncs.write = 0 /\ NoInitSyncs.readonly = 0
      /\ ~NoInitSyncs.finished /\ ~NoInitSyncs.synchronized /\ NoInitSyncs.retry = 0
  BY DEF NoInitSyncs
<1>9. NoData.completed = {} /\ ~NoData.synced /\ ~NoData.complete /\ NoData.sources = <<>>
  BY DEF NoData
<1>10. ListOK(NoInitSyncs)
  BY <1>2, <1>4, <1>5, <1>6, <1>7, <1>8, <1>9 DEF ListOK
<1>11. QED
  BY <1>6, <1>8, <1>9, <1>10 DEF Fresh

\* AddInitSyncList, of a source that the context does not have yet.
LEMMA AddInitSyncListOK ==
  ASSUME NEW I, ListOK(I), Fresh(I), NEW nc \in NCs, NEW src \in Sources, NEW writ \in BOOLEAN,
         ~Contains(I.data[nc].sources, src)
  PROVE  LET J == AddInitSyncList(I, nc, writ, src)
         IN  /\ ListOK(J) /\ Fresh(J)
             /\ \A n \in NCs, s \in Sources :
                  Contains(J.data[n].sources, s) =>
                    Contains(I.data[n].sources, s) \/ (n = nc /\ s = src)
<1> DEFINE J   == AddInitSyncList(I, nc, writ, src)
           new == ~Contains(I.first, nc)
           n1  == IF new THEN 1 ELSE 0
           e   == I.data[nc]
           d   == [e EXCEPT !.writ = IF new THEN writ ELSE e.writ,
                            !.sources = Append(e.sources, src), !.untried = e.untried + 1]
<1>1. I \in InitRecords
  BY DEF ListOK
<1>2. /\ I.data[nc].sources \in Seq(Sources) /\ I.data[nc] \in NCSyncData
      /\ I.first \in Seq(NCs)
  BY <1>1, ListTypes
<1>3. J = [I EXCEPT !.first = IF new THEN Append(@, nc) ELSE @, !.unsynced = @ + n1,
                    !.write = IF writ THEN @ + n1 ELSE @,
                    !.readonly = IF writ THEN @ ELSE @ + n1, !.data[nc] = d]
  BY DEF AddInitSyncList, Fresh
<1>4. d \in NCSyncData
  <2>1. Append(e.sources, src) \in Seq(Sources)
    BY <1>2, AppendSet
  <2>2. (IF new THEN writ ELSE e.writ) \in BOOLEAN
    BY <1>2 DEF NCSyncData
  <2>3. e.untried + 1 \in Nat
    BY <1>2 DEF NCSyncData
  <2>4. QED
    BY <2>1, <2>2, <2>3, <1>2 DEF NCSyncData
<1>5. /\ d.sources = Append(I.data[nc].sources, src) /\ d.untried = I.data[nc].untried + 1
      /\ d.completed = I.data[nc].completed /\ d.synced = I.data[nc].synced
      /\ d.complete = I.data[nc].complete
      /\ d.writ = IF new THEN writ ELSE I.data[nc].writ
  BY <1>2 DEF NCSyncData
<1> HIDE DEF d, n1, new, J
<1>6. /\ J.first = (IF new THEN Append(I.first, nc) ELSE I.first)
      /\ J.unsynced = I.unsynced + n1
      /\ J.write = (IF writ THEN I.write + n1 ELSE I.write)
      /\ J.readonly = (IF writ THEN I.readonly ELSE I.readonly + n1)
      /\ J.data = [I.data EXCEPT ![nc] = d]
      /\ J.finished = I.finished /\ J.synchronized = I.synchronized /\ J.retry = I.retry
      /\ J.gc = I.gc
  BY <1>1, <1>3 DEF InitRecords
<1>7. n1 \in Nat /\ Append(I.first, nc) \in Seq(NCs)
  BY <1>2, AppendSet DEF n1
<1>8. J \in InitRecords
  <2>1. J = [first |-> J.first, data |-> J.data, unsynced |-> J.unsynced, write |-> J.write,
             readonly |-> J.readonly, finished |-> J.finished,
             synchronized |-> J.synchronized, gc |-> J.gc, retry |-> J.retry]
    BY <1>1, <1>3 DEF InitRecords
  <2>2. J.data \in [NCs -> NCSyncData]
    BY <1>4, <1>6, <1>1, ListTypes
  <2>3. J.first \in Seq(NCs)
    BY <1>2, <1>6, <1>7
  <2>4. J.unsynced \in Int /\ J.write \in Int /\ J.readonly \in Int
    BY <1>6, <1>7, <1>1, ListTypes
  <2>5. /\ J.finished \in BOOLEAN /\ J.synchronized \in BOOLEAN /\ J.gc \in BOOLEAN
        /\ J.retry \in Nat
    BY <1>6, <1>1, ListTypes
  <2>6. QED
    BY <2>1, <2>2, <2>3, <2>4, <2>5 DEF InitRecords
<1>9. /\ J.data[nc] = d
      /\ \A m \in NCs : m # nc => J.data[m] = I.data[m]
  BY <1>1, <1>6, ListTypes
<1>10. ToSet(J.first) = ToSet(I.first) \cup (IF new THEN {nc} ELSE {})
  BY <1>2, <1>6, AppendSet
<1>11. new <=> nc \notin ToSet(I.first)
  BY <1>2, AppendSet DEF new
<1>12. ToSet(d.sources) = ToSet(I.data[nc].sources) \cup {src}
  BY <1>2, <1>5, AppendSet
<1>13. src \notin ToSet(I.data[nc].sources) /\ ToSet(I.data[nc].sources) \subseteq Sources
  BY <1>2, AppendSet
<1>14. RowOK(d)
  <2>1. IsFiniteSet(ToSet(I.data[nc].sources))
    BY <1>13, FS_Subset, InitSyncAssumption
  <2>2. Cardinality(ToSet(d.sources)) = Cardinality(ToSet(I.data[nc].sources)) + 1
    BY <2>1, <1>12, <1>13, FS_AddElement
  <2>3. Len(d.sources) = Len(I.data[nc].sources) + 1 /\ Len(I.data[nc].sources) \in Nat
    BY <1>2, <1>5, AppendSet
  <2>4. RowOK(I.data[nc]) /\ ~I.data[nc].complete /\ I.data[nc].completed = {}
    BY DEF ListOK, Fresh
  <2>5. Cardinality({}) = 0
    BY FS_EmptySet
  <2>6. I.data[nc].untried = Len(I.data[nc].sources)
    BY <2>3, <2>4, <2>5 DEF RowOK
  <2>7. d.completed = {} /\ ~d.complete /\ d.untried = Len(d.sources) - 0
    BY <2>3, <2>4, <2>6, <1>5
  <2>8. Cardinality(ToSet(d.sources)) = Len(d.sources)
    BY <2>2, <2>3, <2>4 DEF RowOK
  <2>9. QED
    BY <2>5, <2>7, <2>8 DEF RowOK
<1>15. Fresh(J)
  BY <1>5, <1>6, <1>9 DEF Fresh
<1>16. \A m \in NCs : RowOK(J.data[m])
  BY <1>9, <1>14 DEF ListOK
<1>17. \A m \in NCs \ ToSet(J.first) : J.data[m].sources = <<>>
  BY <1>9, <1>10, <1>11 DEF ListOK
<1>18. Waiting(J) = Waiting(I) \cup (IF new THEN {nc} ELSE {})
  BY <1>2, <1>10, <1>5, <1>9, <1>15, AppendSet DEF Waiting, Fresh
<1>19. Waiting(I) \subseteq ToSet(I.first) /\ WaitingWrit(I) \subseteq ToSet(I.first)
  BY DEF Waiting, WaitingWrit
<1>20. WaitingWrit(J) = WaitingWrit(I) \cup (IF new /\ writ THEN {nc} ELSE {})
  <2>1. CASE new
    BY <2>1, <1>18, <1>19, <1>11, <1>5, <1>9, <1>1, WaitingFinite DEF WaitingWrit
  <2>2. CASE ~new
    BY <2>2, <1>18, <1>5, <1>9, <1>1, WaitingFinite DEF WaitingWrit
  <2>3. QED
    BY <2>1, <2>2
<1>21. Cardinality(Waiting(J)) = Cardinality(Waiting(I)) + n1
  <2>1. CASE new
    BY <2>1, <1>18, <1>19, <1>11, <1>1, WaitingFinite, FS_AddElement DEF n1
  <2>2. CASE ~new
    BY <2>2, <1>18, <1>1, WaitingFinite DEF n1
  <2>3. QED
    BY <2>1, <2>2
<1>22. Cardinality(WaitingWrit(J)) = IF writ THEN Cardinality(WaitingWrit(I)) + n1
                                     ELSE Cardinality(WaitingWrit(I))
  <2>1. CASE new /\ writ
    BY <2>1, <1>20, <1>19, <1>11, <1>1, WaitingFinite, FS_AddElement DEF n1
  <2>2. CASE ~(new /\ writ)
    <3>1. WaitingWrit(J) = WaitingWrit(I)
      BY <2>2, <1>20
    <3>2. Cardinality(WaitingWrit(I)) \in Nat
      BY <1>1, WaitingFinite
    <3>3. writ => n1 = 0
      BY <2>2 DEF n1
    <3>4. QED
      BY <3>1, <3>2, <3>3
  <2>3. QED
    BY <2>1, <2>2
<1>23. ListOK(J)
  <2>1. J.unsynced = Cardinality(Waiting(J)) /\ J.write = Cardinality(WaitingWrit(J))
    BY <1>6, <1>21, <1>22 DEF ListOK
  <2>2. J.unsynced = J.write + J.readonly
    BY <1>6, <1>7, <1>1, ListTypes DEF ListOK
  <2>3. ~J.finished /\ ~J.synchronized /\ J.retry = 0
    BY <1>15 DEF Fresh
  <2>4. QED
    BY <2>1, <2>2, <2>3, <1>8, <1>16, <1>17 DEF ListOK
<1>24. ASSUME NEW n \in NCs, NEW s \in Sources, Contains(J.data[n].sources, s)
       PROVE  Contains(I.data[n].sources, s) \/ (n = nc /\ s = src)
  <2>1. CASE n # nc
    BY <2>1, <1>24, <1>9
  <2>2. CASE n = nc
    <3>1. d.sources \in Seq(Sources)
      BY <1>4 DEF NCSyncData
    <3>2. s \in ToSet(d.sources)
      BY <2>2, <3>1, <1>24, <1>9, AppendSet
    <3>3. QED
      BY <3>2, <2>2, <1>2, <1>12, AppendSet
  <2>3. QED
    BY <2>1, <2>2
<1>25. QED
  BY <1>15, <1>23, <1>24 DEF J

-----------------------------------------------------------------------------
(* Attempts are reported and the counters acted on.                        *)

\* A change of the flags alone: what ListOK says of the rows stays true.
LEMMA SameRowsOK ==
  ASSUME NEW I, ListOK(I), NEW J \in InitRecords,
         J.first = I.first, J.data = I.data, J.unsynced = I.unsynced, J.write = I.write,
         J.readonly = I.readonly, J.finished => J.unsynced = 0,
         J.synchronized \/ J.retry > 0 => J.write = 0
  PROVE  ListOK(J)
<1>1. Waiting(J) = Waiting(I) /\ WaitingWrit(J) = WaitingWrit(I)
  BY DEF Waiting, WaitingWrit
<1>2. QED
  BY <1>1 DEF ListOK

\* CheckFullSyncProgress, called when no writable context is waited for.
LEMMA CheckFullSyncProgressOK ==
  ASSUME NEW I, ListOK(I), I.write = 0, NEW vecs
  PROVE  LET J == CheckFullSyncProgress(I, vecs)
         IN  /\ ListOK(J) /\ J.first = I.first /\ J.data = I.data /\ J.write = I.write
             /\ J.readonly = I.readonly
             /\ J.synchronized => I.synchronized \/ DomainNC \in vecs
<1> DEFINE J == CheckFullSyncProgress(I, vecs)
<1>1. I \in InitRecords
  BY DEF ListOK
<1>2. J \in InitRecords
  <2>1. I.retry + 1 \in Nat
    BY <1>1, ListTypes
  <2>2. \A r \in Nat : [I EXCEPT !.retry = r] \in InitRecords
    BY <1>1 DEF InitRecords
  <2>3. [I EXCEPT !.synchronized = TRUE] \in InitRecords
    BY <1>1 DEF InitRecords
  <2>4. QED
    BY <2>1, <2>2, <2>3, <1>1 DEF CheckFullSyncProgress
<1>3. /\ J.first = I.first /\ J.data = I.data /\ J.unsynced = I.unsynced
      /\ J.write = I.write /\ J.readonly = I.readonly /\ J.finished = I.finished
      /\ J.synchronized => I.synchronized \/ DomainNC \in vecs
  BY <1>1 DEF CheckFullSyncProgress, InitRecords
<1> HIDE DEF J
<1>4. ListOK(J)
  <2>1. J.finished => J.unsynced = 0
    BY <1>3 DEF ListOK
  <2>2. QED
    BY <2>1, <1>2, <1>3, SameRowsOK
<1>5. QED
  BY <1>3, <1>4 DEF J

\* CheckInitSyncsFinished
LEMMA CheckInitSyncsFinishedOK ==
  ASSUME NEW I, ListOK(I)
  PROVE  LET J == CheckInitSyncsFinished(I)
         IN  /\ ListOK(J) /\ J.first = I.first /\ J.data = I.data
             /\ J.synchronized = I.synchronized
<1> DEFINE J == CheckInitSyncsFinished(I)
<1>1. I \in InitRecords
  BY DEF ListOK
<1>2. J \in InitRecords
  BY <1>1 DEF CheckInitSyncsFinished, InitRecords
<1>3. /\ J.first = I.first /\ J.data = I.data /\ J.unsynced = I.unsynced
      /\ J.write = I.write /\ J.readonly = I.readonly /\ J.synchronized = I.synchronized
      /\ J.retry = I.retry /\ J.finished = (I.finished \/ I.unsynced = 0)
  BY <1>1 DEF CheckInitSyncsFinished, InitRecords
<1> HIDE DEF J
<1>4. ListOK(J)
  <2>1. J.finished => J.unsynced = 0
    BY <1>3 DEF ListOK
  <2>2. J.synchronized \/ J.retry > 0 => J.write = 0
    BY <1>3 DEF ListOK
  <2>3. QED
    BY <2>1, <2>2, <1>2, <1>3, SameRowsOK
<1>5. QED
  BY <1>3, <1>4 DEF J

\* The anchor is updated: nothing of the list changes.
LEMMA AnchorOK ==
  ASSUME NEW I, ListOK(I)
  PROVE  LET J == [I EXCEPT !.gc = TRUE]
         IN  /\ ListOK(J) /\ J.first = I.first /\ J.data = I.data
             /\ J.synchronized = I.synchronized
<1> DEFINE J == [I EXCEPT !.gc = TRUE]
<1>1. I \in InitRecords
  BY DEF ListOK
<1>2. J \in InitRecords
  BY <1>1 DEF InitRecords
<1>3. /\ J.first = I.first /\ J.data = I.data /\ J.unsynced = I.unsynced
      /\ J.write = I.write /\ J.readonly = I.readonly /\ J.synchronized = I.synchronized
      /\ J.retry = I.retry /\ J.finished = I.finished
  BY <1>1 DEF InitRecords
<1> HIDE DEF J
<1>4. /\ J.finished => J.unsynced = 0
      /\ J.synchronized \/ J.retry > 0 => J.write = 0
  BY <1>3 DEF ListOK
<1>5. ListOK(J)
  BY <1>2, <1>3, <1>4, SameRowsOK
<1>6. QED
  BY <1>3, <1>5 DEF J

\* The row of a context after an attempt that is recorded: completes says
\* whether it ends the wait.
AttemptRow(d, src, ok, completes) ==
  [d EXCEPT !.completed = d.completed \cup {src}, !.synced = d.synced \/ ok,
            !.tried = d.tried + 1, !.untried = d.untried - 1,
            !.complete = d.complete \/ completes]

\* ... is a row again: the last failure completes it exactly when no source is
\* left.
LEMMA AttemptRowOK ==
  ASSUME NEW d \in NCSyncData, RowOK(d), NEW src \in Sources, NEW ok \in BOOLEAN,
         src \in ToSet(d.sources), src \notin d.completed, NEW completes \in BOOLEAN,
         completes => ok \/ d.untried = 1
  PROVE  /\ AttemptRow(d, src, ok, completes) \in NCSyncData
         /\ RowOK(AttemptRow(d, src, ok, completes))
<1> DEFINE r == AttemptRow(d, src, ok, completes)
<1>1. /\ d.sources \in Seq(Sources) /\ d.completed \subseteq Sources
      /\ d.untried \in Nat /\ d.tried \in Nat /\ Len(d.sources) \in Nat
  BY DEF NCSyncData
<1>2. /\ r.sources = d.sources /\ r.completed = d.completed \cup {src}
      /\ r.synced = (d.synced \/ ok) /\ r.untried = d.untried - 1
      /\ r.complete = (d.complete \/ completes)
  BY DEF AttemptRow, NCSyncData
<1>3. ToSet(d.sources) \subseteq Sources
  BY <1>1, AppendSet
<1>4. IsFiniteSet(ToSet(d.sources)) /\ IsFiniteSet(d.completed)
  BY <1>1, <1>3, FS_Subset, InitSyncAssumption
<1>5. r.completed \in SUBSET ToSet(d.sources)
  BY <1>2 DEF RowOK
<1>6. Cardinality(r.completed) = Cardinality(d.completed) + 1 /\ Cardinality(d.completed) \in Nat
  BY <1>2, <1>4, FS_AddElement, FS_CardinalityType
<1>7. Cardinality(r.completed) <= Cardinality(ToSet(d.sources))
  BY <1>4, <1>5, FS_Subset
<1>8. d.untried - 1 \in Nat
  BY <1>1, <1>6, <1>7 DEF RowOK
<1>9. r \in NCSyncData
  <2>1. (d.synced \/ ok) \in BOOLEAN /\ (d.complete \/ completes) \in BOOLEAN
    OBVIOUS
  <2>2. d.completed \cup {src} \in SUBSET Sources
    BY <1>1
  <2>3. d.tried + 1 \in Nat
    BY <1>1
  <2>4. ASSUME NEW C \in SUBSET Sources, NEW s \in BOOLEAN, NEW t \in Nat, NEW u \in Nat,
               NEW c \in BOOLEAN
        PROVE  [d EXCEPT !.completed = C, !.synced = s, !.tried = t, !.untried = u,
                         !.complete = c] \in NCSyncData
    BY DEF NCSyncData
  <2>5. QED
    BY <2>1, <2>2, <2>3, <2>4, <1>8 DEF AttemptRow
<1>10. r.untried = Len(r.sources) - Cardinality(r.completed)
  BY <1>1, <1>2, <1>6 DEF RowOK
<1>11. r.complete => r.synced \/ r.completed = ToSet(r.sources)
  <2>1. CASE d.complete
    BY <2>1, <1>2 DEF RowOK
  <2>2. CASE completes /\ ~ok
    <3>0. d.untried = 1 /\ 1 = Len(d.sources) - Cardinality(d.completed)
      BY <2>2 DEF RowOK
    <3>1. Cardinality(r.completed) = Cardinality(ToSet(d.sources))
      BY <3>0, <1>1, <1>6 DEF RowOK
    <3>2. QED
      BY <3>1, <1>2, <1>4, <1>5, FS_Subset
  <2>3. CASE ok
    BY <2>3, <1>2
  <2>4. QED
    BY <2>1, <2>2, <2>3, <1>2
<1>12. QED
  BY <1>2, <1>5, <1>9, <1>10, <1>11 DEF RowOK

\* The list after the row of nc is rewritten and, if the wait for nc ends, the
\* counters are decremented.
LEMMA AttemptListOK ==
  ASSUME NEW I, ListOK(I), NEW nc \in NCs, NEW src \in Sources, NEW ok \in BOOLEAN,
         Recorded(I, nc, src)
  PROVE  LET d  == I.data[nc]
             I1 == [I EXCEPT !.data[nc] = [d EXCEPT !.completed = @ \cup {src}, !.synced = @ \/ ok,
                                                    !.tried = @ + 1, !.untried = @ - 1]]
             I2 == IF AttemptCompletes(I, nc, ok) THEN NCComplete(I1, nc) ELSE I1
         IN  ListOK(I2) /\ I2.first = I.first /\ I2.synchronized = I.synchronized
<1> DEFINE d  == I.data[nc]
           I1 == [I EXCEPT !.data[nc] = [d EXCEPT !.completed = @ \cup {src}, !.synced = @ \/ ok,
                                                  !.tried = @ + 1, !.untried = @ - 1]]
           I2 == IF AttemptCompletes(I, nc, ok) THEN NCComplete(I1, nc) ELSE I1
           completes == AttemptCompletes(I, nc, ok)
           r  == AttemptRow(d, src, ok, completes)
           wr == d.writ
<1>1. I \in InitRecords
  BY DEF ListOK
<1>2. /\ d \in NCSyncData /\ RowOK(d) /\ completes \in BOOLEAN
      /\ I.data \in [NCs -> NCSyncData] /\ d.sources \in Seq(Sources)
  BY <1>1, ListTypes DEF ListOK, AttemptCompletes
<1>3. src \in ToSet(d.sources) /\ src \notin d.completed /\ ~I.finished
  BY <1>2, AppendSet DEF Recorded
<1>4. completes => ok \/ d.untried = 1
  BY DEF AttemptCompletes
<1>5. completes => ~d.complete
  BY DEF AttemptCompletes
<1>6. r \in NCSyncData /\ RowOK(r)
  BY <1>2, <1>3, <1>4, AttemptRowOK
<1>7. I2.data = [I.data EXCEPT ![nc] = r]
  <2>1. I1.data = [I.data EXCEPT ![nc] = AttemptRow(d, src, ok, FALSE)]
    BY <1>1, <1>2 DEF AttemptRow, InitRecords, NCSyncData
  <2>2. CASE completes
    <3>1. I2.data = [I1.data EXCEPT ![nc].complete = TRUE]
      BY <2>2, <1>1 DEF NCComplete, InitRecords
    <3>2. [AttemptRow(d, src, ok, FALSE) EXCEPT !.complete = TRUE] = r
      BY <2>2, <1>2 DEF AttemptRow, NCSyncData
    <3>3. I1.data \in [NCs -> NCSyncData] /\ I1.data[nc] = AttemptRow(d, src, ok, FALSE)
      <4>1. AttemptRow(d, src, ok, FALSE) \in NCSyncData
        BY <1>2, <1>3, AttemptRowOK
      <4> HIDE DEF d, I1
      <4>2. QED
        BY <2>1, <4>1, <1>2
    <3>4. I2.data = [I1.data EXCEPT ![nc] = r]
      <4> HIDE DEF d, I1, I2, r
      <4>1. QED
        BY <3>1, <3>2, <3>3
    <3> HIDE DEF d, I1, I2, r
    <3>5. QED
      BY <2>1, <3>4, <1>2
  <2>3. CASE ~completes
    BY <2>1, <2>3, <1>2 DEF AttemptRow, NCSyncData
  <2>4. QED
    BY <2>2, <2>3
<1>8. /\ I2.first = I.first /\ I2.finished = I.finished /\ I2.synchronized = I.synchronized
      /\ I2.gc = I.gc /\ I2.retry = I.retry
      /\ I2.unsynced = (IF completes THEN I.unsynced - 1 ELSE I.unsynced)
      /\ I2.write = (IF completes /\ wr THEN I.write - 1 ELSE I.write)
      /\ I2.readonly = (IF completes /\ ~wr THEN I.readonly - 1 ELSE I.readonly)
  <2>1. /\ I1.first = I.first /\ I1.finished = I.finished /\ I1.synchronized = I.synchronized
        /\ I1.gc = I.gc /\ I1.retry = I.retry /\ I1.unsynced = I.unsynced
        /\ I1.write = I.write /\ I1.readonly = I.readonly
    BY <1>1 DEF InitRecords
  <2>2. I1.data[nc].writ = wr
    BY <1>1, <1>2 DEF InitRecords, NCSyncData
  <2>3. CASE ~completes
    BY <2>1, <2>3
  <2>4. CASE completes
    BY <2>1, <2>2, <2>4, <1>1 DEF NCComplete, InitRecords
  <2>5. QED
    BY <2>3, <2>4
<1>9. I2 = [first |-> I2.first, data |-> I2.data, unsynced |-> I2.unsynced, write |-> I2.write,
            readonly |-> I2.readonly, finished |-> I2.finished,
            synchronized |-> I2.synchronized, gc |-> I2.gc, retry |-> I2.retry]
  BY <1>1 DEF NCComplete, InitRecords
<1> HIDE DEF I1, I2, r, completes
<1>10. I2 \in InitRecords
  <2>1. I2.data \in [NCs -> NCSyncData]
    BY <1>2, <1>6, <1>7
  <2>2. I2.unsynced \in Int /\ I2.write \in Int /\ I2.readonly \in Int
    BY <1>1, <1>8, ListTypes
  <2>3. /\ I2.first \in Seq(NCs) /\ I2.finished \in BOOLEAN /\ I2.synchronized \in BOOLEAN
        /\ I2.gc \in BOOLEAN /\ I2.retry \in Nat
    BY <1>1, <1>8, ListTypes
  <2>4. QED
    BY <2>1, <2>2, <2>3, <1>9 DEF InitRecords
<1>11. /\ I2.data[nc] = r
       /\ \A m \in NCs : m # nc => I2.data[m] = I.data[m]
  BY <1>2, <1>7
<1>12. r.complete = (d.complete \/ completes) /\ r.sources = d.sources /\ r.writ = d.writ
  BY <1>2 DEF r, AttemptRow, NCSyncData
<1>13. nc \in ToSet(I.first)
  <2>1. d.sources # <<>>
    BY <1>3 DEF ToSet
  <2>2. QED
    BY <2>1 DEF ListOK
<1>14. Waiting(I2) = IF completes THEN Waiting(I) \ {nc} ELSE Waiting(I)
  <2>1. ToSet(I2.first) = ToSet(I.first) /\ ToSet(I.first) \subseteq NCs
    BY <1>1, <1>8, ListTypes, AppendSet
  <2>2. CASE completes
    BY <2>1, <2>2, <1>11, <1>12 DEF Waiting
  <2>3. CASE ~completes
    BY <2>1, <2>3, <1>11, <1>12 DEF Waiting
  <2>4. QED
    BY <2>2, <2>3
<1>15. completes => nc \in Waiting(I)
  BY <1>5, <1>13 DEF Waiting, completes
<1>16. WaitingWrit(I2) = IF completes /\ wr THEN WaitingWrit(I) \ {nc} ELSE WaitingWrit(I)
  <2>1. Waiting(I) \subseteq NCs
    BY <1>1, WaitingFinite
  <2>2. CASE completes
    BY <2>1, <2>2, <1>14, <1>11, <1>12 DEF WaitingWrit
  <2>3. CASE ~completes
    BY <2>1, <2>3, <1>14, <1>11, <1>12 DEF WaitingWrit
  <2>4. QED
    BY <2>2, <2>3
<1>17. completes /\ wr => nc \in WaitingWrit(I)
  BY <1>15 DEF WaitingWrit
<1>18. I2.unsynced = Cardinality(Waiting(I2))
  BY <1>1, <1>8, <1>14, <1>15, WaitingFinite, FS_RemoveElement DEF ListOK
<1>19. I2.write = Cardinality(WaitingWrit(I2))
  <2>1. I.write = Cardinality(WaitingWrit(I))
    BY DEF ListOK
  <2>2. CASE completes /\ wr
    <3>1. Cardinality(WaitingWrit(I) \ {nc}) = Cardinality(WaitingWrit(I)) - 1
      BY <2>2, <1>1, <1>17, WaitingFinite, FS_RemoveElement
    <3>2. QED
      BY <2>1, <2>2, <3>1, <1>8, <1>16
  <2>3. CASE ~(completes /\ wr)
    BY <2>1, <2>3, <1>8, <1>16
  <2>4. QED
    BY <2>2, <2>3
<1>20. I2.unsynced = I2.write + I2.readonly
  BY <1>1, <1>8, ListTypes DEF ListOK
<1>21. I2.synchronized \/ I2.retry > 0 => I2.write = 0
  <2>1. I.write = 0 => WaitingWrit(I) = {}
    BY <1>1, WaitingFinite, FS_EmptySet DEF ListOK
  <2>2. I.write = 0 => I2.write = 0
    BY <2>1, <1>8, <1>17
  <2>3. QED
    BY <2>2, <1>8 DEF ListOK
<1>22. \A m \in NCs : RowOK(I2.data[m])
  BY <1>6, <1>11 DEF ListOK
<1>23. \A m \in NCs \ ToSet(I2.first) : I2.data[m].sources = <<>>
  BY <1>8, <1>11, <1>13 DEF ListOK
<1>24. ListOK(I2)
  BY <1>3, <1>8, <1>10, <1>18, <1>19, <1>20, <1>21, <1>22, <1>23 DEF ListOK
<1>25. QED
  BY <1>8, <1>24 DEF I2, I1, completes

\* InitSyncAttemptComplete, whoever calls it and whatever counts it saw before.
LEMMA InitSyncAttemptCompleteOK ==
  ASSUME NEW I, ListOK(I), NEW nc \in NCs, NEW src \in Sources, NEW ok \in BOOLEAN,
         NEW prev, NEW vecs
  PROVE  LET J == InitSyncAttemptComplete(I, nc, src, ok, prev, vecs)
         IN  ListOK(J) /\ (J.synchronized => I.synchronized \/ DomainNC \in vecs)
<1> DEFINE J == InitSyncAttemptComplete(I, nc, src, ok, prev, vecs)
<1>1. CASE ~Recorded(I, nc, src)
  BY <1>1 DEF InitSyncAttemptComplete
<1>2. CASE Recorded(I, nc, src)
  <2> DEFINE d  == I.data[nc]
             I1 == [I EXCEPT !.data[nc] = [d EXCEPT !.completed = @ \cup {src}, !.synced = @ \/ ok,
                                                    !.tried = @ + 1, !.untried = @ - 1]]
             I2 == IF AttemptCompletes(I, nc, ok) THEN NCComplete(I1, nc) ELSE I1
             I3 == IF prev.write # 0 /\ I2.write = 0 THEN CheckFullSyncProgress(I2, vecs) ELSE I2
             I4 == IF prev.readonly # 0 /\ I3.readonly = 0 THEN [I3 EXCEPT !.gc = TRUE] ELSE I3
  <2>1. ListOK(I2) /\ I2.synchronized = I.synchronized
    BY <1>2, AttemptListOK, ZenonT(60)
  <2>2. J = CheckInitSyncsFinished(I4)
    BY <1>2 DEF InitSyncAttemptComplete
  <2> HIDE DEF I1, I2
  <2>3. ListOK(I3) /\ (I3.synchronized => I2.synchronized \/ DomainNC \in vecs)
    BY <2>1, CheckFullSyncProgressOK
  <2> HIDE DEF I3
  <2>4. ListOK(I4) /\ I4.synchronized = I3.synchronized
    BY <2>3, AnchorOK
  <2> HIDE DEF I4
  <2>5. ListOK(J) /\ J.synchronized = I4.synchronized
    BY <2>2, <2>4, CheckInitSyncsFinishedOK
  <2>6. QED
    BY <2>1, <2>3, <2>4, <2>5
<1>3. QED
  BY <1>1, <1>2

\* NoteProgress changes nothing but ulLastTriedSrcs.
LEMMA NoteProgressOK ==
  ASSUME NEW I, ListOK(I)
  PROVE  ListOK(NoteProgress(I)) /\ NoteProgress(I).synchronized = I.synchronized
<1> DEFINE J == NoteProgress(I)
           row(nc) == [I.data[nc] EXCEPT !.lastTried = I.data[nc].tried]
<1>1. I \in InitRecords
  BY DEF ListOK
<1>2. \A nc \in NCs : /\ row(nc) \in NCSyncData
                      /\ row(nc).sources = I.data[nc].sources
                      /\ row(nc).completed = I.data[nc].completed
                      /\ row(nc).untried = I.data[nc].untried
                      /\ row(nc).synced = I.data[nc].synced
                      /\ row(nc).complete = I.data[nc].complete
                      /\ row(nc).writ = I.data[nc].writ
  BY <1>1, ListTypes DEF NCSyncData
<1>3. J = [I EXCEPT !.data = [nc \in NCs |-> row(nc)]]
  BY DEF NoteProgress
<1> HIDE DEF row, J
<1>4. [nc \in NCs |-> row(nc)] \in [NCs -> NCSyncData]
  BY <1>2
<1>5. J \in InitRecords
  BY <1>1, <1>3, <1>4 DEF InitRecords
<1>6. /\ J.first = I.first /\ J.unsynced = I.unsynced /\ J.write = I.write
      /\ J.readonly = I.readonly /\ J.finished = I.finished /\ J.retry = I.retry
      /\ J.synchronized = I.synchronized
      /\ J.data = [nc \in NCs |-> row(nc)]
  BY <1>1, <1>3 DEF InitRecords
<1>7. \A nc \in NCs : J.data[nc] = row(nc)
  BY <1>6
<1>8. ToSet(I.first) \subseteq NCs
  BY <1>1, ListTypes DEF ToSet
<1>9. Waiting(J) = Waiting(I) /\ WaitingWrit(J) = WaitingWrit(I)
  BY <1>2, <1>6, <1>7, <1>8 DEF Waiting, WaitingWrit
<1>10. \A nc \in NCs : RowOK(J.data[nc])
  BY <1>2, <1>7 DEF ListOK, RowOK
<1>11. \A nc \in NCs \ ToSet(J.first) : J.data[nc].sources = <<>>
  BY <1>2, <1>6, <1>7 DEF ListOK
<1>12. ListOK(J)
  BY <1>5, <1>6, <1>9, <1>10, <1>11 DEF ListOK
<1>13. QED
  BY <1>6, <1>12 DEF J

\* The scan visits pairs of a context and a source.
LEMMA ScanPairsType ==
  ASSUME NEW I \in InitRecords
  PROVE  ScanPairs(I) \in Seq(NCs \X Sources)
<1> DEFINE n     == Len(I.first)
           K     == Cardinality(Sources)
           NC(c) == I.first[(c % n) + 1]
           cells == {c \in 0 .. n * K - 1 : c \div n < Len(I.data[NC(c)].sources)}
           order == Ascending(cells)
           pair(c) == <<NC(c), I.data[NC(c)].sources[(c \div n) + 1]>>
<1>1. n \in Nat /\ K \in Nat /\ I.first \in Seq(NCs)
  BY ListTypes, FS_CardinalityType, InitSyncAssumption
<1>2. n * K - 1 \in Int /\ (n = 0 => n * K = 0)
  <2> HIDE DEF n, K
  <2>1. QED
    BY <1>1
<1>3. cells \subseteq 0 .. n * K - 1 /\ cells \in SUBSET Nat
  BY <1>2
<1>4. IsFiniteSet(cells)
  <2> HIDE DEF n, K, cells
  <2>1. IsFiniteSet(0 .. n * K - 1)
    BY <1>2, FS_Interval
  <2>2. cells \in SUBSET (0 .. n * K - 1)
    BY <1>3
  <2>3. QED
    BY <2>1, <2>2, FS_Subset
<1>5. \A c \in cells : pair(c) \in NCs \X Sources
  <2> SUFFICES ASSUME NEW c \in cells PROVE pair(c) \in NCs \X Sources
    OBVIOUS
  <2>0. c \in 0 .. n * K - 1 /\ c \div n < Len(I.data[NC(c)].sources)
    OBVIOUS
  <2>1. c \in Nat /\ n # 0
    <3> HIDE DEF n, K, cells
    <3>1. QED
      BY <2>0, <1>1, <1>2
  <2>2. c % n \in 0 .. n - 1 /\ c \div n \in Nat
    <3> HIDE DEF n, cells
    <3>1. QED
      BY <2>1, <1>1
  <2>3. NC(c) \in NCs
    <3>1. (c % n) + 1 \in 1 .. n
      <4> HIDE DEF n, cells
      <4>1. QED
        BY <2>2, <1>1
    <3>2. QED
      BY <3>1, <1>1
  <2>4. I.data[NC(c)].sources \in Seq(Sources)
    <3> HIDE DEF NC, cells
    <3>1. QED
      BY <2>3, ListTypes
  <2>5. (c \div n) + 1 \in 1 .. Len(I.data[NC(c)].sources)
    <3> HIDE DEF n, NC, cells
    <3>1. QED
      BY <2>0, <2>2, <2>4
  <2>6. I.data[NC(c)].sources[(c \div n) + 1] \in Sources
    <3> HIDE DEF n, NC, cells
    <3>1. QED
      BY <2>4, <2>5
  <2>7. QED
    BY <2>3, <2>6
<1>6. Cardinality(cells) \in Nat /\ order \in [1 .. Cardinality(cells) -> cells]
  BY <1>3, <1>4, AscendingLists
<1>7. ScanPairs(I) = [k \in DOMAIN order |-> pair(order[k])]
  BY DEF ScanPairs
<1> HIDE DEF cells, order, pair
<1>8. \A k \in 1 .. Cardinality(cells) : pair(order[k]) \in NCs \X Sources
  BY <1>5, <1>6
<1>9. ScanPairs(I) \in [1 .. Cardinality(cells) -> NCs \X Sources]
  BY <1>6, <1>7, <1>8
<1>10. QED
  BY <1>6, <1>9
=============================================================================
