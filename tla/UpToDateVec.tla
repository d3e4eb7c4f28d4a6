---------------------------- MODULE UpToDateVec ----------------------------
(***************************************************************************)
(* Up-to-dateness vectors of one naming context.                           *)
(*                                                                         *)
(* Every server stores a vector of cursors, one per invocation id: "I have *)
(* all writes of that id up to this USN, as of this time".  At the end of  *)
(* a replication cycle the destination merges in the vector the source     *)
(* read for it.  The vector is an array sorted by UUID and is searched by  *)
(* bisection.                                                              *)
(*                                                                         *)
(* Sources: ntdsa/dra/drauptod.c; its callers in drancrep.c, dragtchg.c,   *)
(* dramsg.c, drasig.c, drautil.c, draexist.c.                              *)
(*                                                                         *)
(* UUIDs are numbers ordered as UuidCompare orders them.  The null pointer *)
(* is the empty vector: no vector without cursors is ever stored or sent.  *)
(* The clocks of the servers are one clock.                                *)
(***************************************************************************)
EXTENDS Integers, Sequences, FiniteSets, SequencesExt

CONSTANTS
  Servers,   \* servers with a replica of the naming context
  Ids,       \* invocation ids
  FirstId,   \* each server's first invocation id
  Gcs,       \* servers with a partial replica, which run PAS cycles
  W2k,       \* servers that only speak version 1 of the reply
  New,       \* servers whose replica is still coming at the start
  MaxUsn,    \* bound: USNs
  MaxTime,   \* bound: seconds on the clock
  MaxCycles  \* bound: cycles under way at a time

ASSUME IdsAssumption ==
  /\ Ids \subseteq Nat
  /\ FirstId \in [Servers -> Ids]
  /\ \A s, r \in Servers : s # r => FirstId[s] # FirstId[r]
ASSUME RolesAssumption ==
  Gcs \subseteq Servers /\ W2k \subseteq Servers /\ New \subseteq Servers
ASSUME BoundsAssumption ==
  /\ MaxUsn \in Nat \ {0}
  /\ MaxTime \in Nat \ {0}
  /\ MaxCycles \in Nat

Usns    == 1 .. MaxUsn
Seconds == 1 .. MaxTime
Cursors == [uuidDsa : Ids, usnHighPropUpdate : Usns,
            timeLastSyncSuccess : Seconds \cup {0}]
Vectors == Seq(Cursors)

-----------------------------------------------------------------------------
(* The vector and its operations.                                          *)

\* Mutant of InsertIndex: always before the last cursor compared.
InsertIndexBefore(uuidDsa, other, iCurrent) == iCurrent

\* Where a missing cursor belongs, next to the last cursor compared.
InsertIndex(uuidDsa, other, iCurrent) ==
  IF uuidDsa < other THEN iCurrent ELSE iCurrent + 1

\* Triples of iCursorBegin, iCursorEnd and the last cursor compared.
Ranges(vec) == (0 .. Len(vec)) \X (-1 .. Len(vec) - 1) \X (0 .. Len(vec))
Middle(r) == (r[1] + r[2]) \div 2

\* Bisection.  iCursor, counted from 0, is where the id's cursor is or where
\* it is to be inserted.
l_CursorFind(vec, uuidDsa) ==
  LET Other(r) == vec[Middle(r) + 1].uuidDsa
      Search[r \in Ranges(vec)] ==
        IF r[2] < r[1] THEN [fFound |-> FALSE, iCursor |-> r[3]]
        ELSE IF uuidDsa = Other(r) THEN [fFound |-> TRUE, iCursor |-> Middle(r)]
        ELSE IF r[2] = r[1] THEN
          [fFound |-> FALSE, iCursor |-> InsertIndex(uuidDsa, Other(r), Middle(r))]
        ELSE IF uuidDsa < Other(r) THEN Search[<<r[1], Middle(r) - 1, Middle(r)>>]
        ELSE Search[<<Middle(r) + 1, r[2], Middle(r)>>]
  IN Search[<<0, Len(vec) - 1, 0>>]

\* The index of a sequence is one more than that of the array.
Position(vec, uuidDsa) == l_CursorFind(vec, uuidDsa).iCursor + 1
HasCursor(vec, uuidDsa) == l_CursorFind(vec, uuidDsa).fFound

l_CursorInsert(vec, cursor) ==
  InsertAt(vec, Position(vec, cursor.uuidDsa), cursor)

l_CursorRemove(vec, uuidDsa) ==
  IF HasCursor(vec, uuidDsa) THEN RemoveAt(vec, Position(vec, uuidDsa)) ELSE vec

\* Mutant of l_CursorImprove: at the same USN the new time is taken.
CursorImproveTime(cursor, vec) ==
  LET i == Position(vec, cursor.uuidDsa) IN
  IF ~ HasCursor(vec, cursor.uuidDsa) THEN l_CursorInsert(vec, cursor)
  ELSE IF vec[i].usnHighPropUpdate <= cursor.usnHighPropUpdate
       THEN [vec EXCEPT ![i] = cursor] ELSE vec

\* The cursor with the higher USN wins, time included; at the same USN the
\* later time is kept.  (No caller passes fReplace.)
l_CursorImprove(cursor, vec) ==
  LET i     == Position(vec, cursor.uuidDsa)
      usn   == cursor.usnHighPropUpdate
      time  == cursor.timeLastSyncSuccess
  IN IF ~ HasCursor(vec, cursor.uuidDsa) THEN l_CursorInsert(vec, cursor)
     ELSE CASE vec[i].usnHighPropUpdate < usn -> [vec EXCEPT ![i] = cursor]
            [] vec[i].usnHighPropUpdate = usn ->
                 [vec EXCEPT ![i].timeLastSyncSuccess = IF @ > time THEN @ ELSE time]
            [] vec[i].usnHighPropUpdate > usn -> vec

Cursor(uuidDsa, usn, time) ==
  [uuidDsa |-> uuidDsa, usnHighPropUpdate |-> usn, timeLastSyncSuccess |-> time]

\* Mutant of UpToDateVec_Read: the first uncommitted USN.
ReadUncommitted(vec, fComing, InvocationID, usnLocalDsa, now) ==
  IF fComing THEN <<>>
  ELSE l_CursorImprove(Cursor(InvocationID, usnLocalDsa + 1, now), vec)

\* The stored vector, with a cursor for ourselves.
UpToDateVec_Read(vec, fComing, InvocationID, usnLocalDsa, now) ==
  IF fComing THEN <<>>
  ELSE l_CursorImprove(Cursor(InvocationID, usnLocalDsa, now), vec)

\* Merge every remote cursor but our own, one after the other.
UpToDateVec_Improve(vec, vecRemote, InvocationID) ==
  LET After[k \in 0 .. Len(vecRemote)] ==
        IF k = 0 THEN vec
        ELSE IF vecRemote[k].uuidDsa = InvocationID THEN After[k - 1]
        ELSE l_CursorImprove(vecRemote[k], After[k - 1])
  IN After[Len(vecRemote)]

UpToDateVec_Replace(vecRemote, InvocationID) ==
  l_CursorRemove(vecRemote, InvocationID)

\* To version 1, which has no times, and back.
UpToDateVec_Convert(vec) ==
  [i \in DOMAIN vec |-> [vec[i] EXCEPT !.timeLastSyncSuccess = 0]]

UpToDateVec_AddTimestamp(vec, uuidInvocId, time) ==
  IF HasCursor(vec, uuidInvocId)
  THEN [vec EXCEPT ![Position(vec, uuidInvocId)].timeLastSyncSuccess = time]
  ELSE vec

UpToDateVec_HasSunkSince(vec, time) ==
  \E i \in DOMAIN vec : vec[i].timeLastSyncSuccess > time

\* Mutant of MIN: the other one.
MAX(a, b) == IF a < b THEN b ELSE a

MIN(a, b) == IF a < b THEN a ELSE b

\* One turn of the loop of UpToDateVec_Merge over both arrays; nothing when
\* either of them has ended.
MergeStep(vec1, vec2, w) ==
  LET i   == w.iUTD1
      j   == w.iUTD2
      id1 == vec1[i].uuidDsa
      id2 == vec2[j].uuidDsa
      usn == MIN(vec1[i].usnHighPropUpdate, vec2[j].usnHighPropUpdate)
      Moved(i2, j2, merged) == [iUTD1 |-> i2, iUTD2 |-> j2, merged |-> merged]
  IN IF i > Len(vec1) \/ j > Len(vec2) THEN w
     ELSE IF id1 = id2 THEN Moved(i + 1, j + 1, l_CursorInsert(w.merged, Cursor(id1, usn, 0)))
     ELSE IF id1 < id2 THEN Moved(i + 1, j, w.merged)
     ELSE Moved(i, j + 1, w.merged)

\* The vector both servers can vouch for: their common ids, without times.
\* (Without one of the vectors it raises DRAERR_InvalidParameter.)
UpToDateVec_Merge(vec1, vec2) ==
  LET Walk[k \in 0 .. Len(vec1) + Len(vec2)] ==
        IF k = 0 THEN [iUTD1 |-> 1, iUTD2 |-> 1, merged |-> <<>>]
        ELSE MergeStep(vec1, vec2, Walk[k - 1])
  IN Walk[Len(vec1) + Len(vec2)].merged

\* Does the owner of the vector still need that write?
UpToDateVec_IsChangeNeeded(vec, uuidDsaOrig, usnOrig) ==
  HasCursor(vec, uuidDsaOrig) =>
    usnOrig > vec[Position(vec, uuidDsaOrig)].usnHighPropUpdate

-----------------------------------------------------------------------------
VARIABLES
  InvocationID,   \* each server's current invocation id
  used,           \* invocation ids in use so far
  committed,      \* each server's highest committed USN
  stored,         \* each server's stored vector
  coming,         \* is the replica still IT_NC_COMING?
  clock,
  gtimeDSAStarted,
  reply,          \* the last reply of each server's cycle, or NoReply
  retiring,       \* the cursor of an id just retired, or NoReply
  high,           \* history: the highest USN committed under each id
  synced          \* history: has the server finished a cycle since it booted?

vars == <<InvocationID, used, committed, stored, coming, clock,
          gtimeDSAStarted, reply, retiring, high, synced>>

NoReply == [none |-> TRUE]
Replies == [uuidInvocIdSrc : Ids, vec : Vectors, dwVersion : {1, 2}]

\* A transaction of the server commits (module Usn).
Commit(s) ==
  /\ committed[s] < MaxUsn
  /\ committed' = [committed EXCEPT ![s] = @ + 1]
  /\ high' = [high EXCEPT ![InvocationID[s]] = committed[s] + 1]
  /\ UNCHANGED <<InvocationID, used, stored, coming, clock, gtimeDSAStarted,
                 reply, retiring, synced>>

Tick ==
  /\ clock < MaxTime
  /\ clock' = clock + 1
  /\ UNCHANGED <<InvocationID, used, committed, stored, coming,
                 gtimeDSAStarted, reply, retiring, high, synced>>

\* s answers the request of d with the last packet of a cycle: there is no
\* more data.  (The packets themselves are left out.)
GetNCChanges(d, s) ==
  /\ d # s
  /\ reply[d] = NoReply
  /\ Cardinality({r \in Servers : reply[r] # NoReply}) < MaxCycles
  /\ LET vec == UpToDateVec_Read(stored[s], coming[s], InvocationID[s],
                                 committed[s], clock)
     IN reply' = [reply EXCEPT ![d] =
          [uuidInvocIdSrc |-> InvocationID[s],
           vec       |-> IF s \in W2k THEN UpToDateVec_Convert(vec) ELSE vec,
           dwVersion |-> IF s \in W2k THEN 1 ELSE 2]]
  /\ UNCHANGED <<InvocationID, used, committed, stored, coming, clock,
                 gtimeDSAStarted, retiring, high, synced>>

\* The destination gets a version 1 reply and puts its own time in.
TranslateReply(d) ==
  /\ reply[d] # NoReply
  /\ reply[d].dwVersion = 1
  /\ LET r == reply[d]
     IN reply' = [reply EXCEPT ![d] =
          [r EXCEPT !.dwVersion = 2,
                    !.vec = UpToDateVec_AddTimestamp(r.vec, r.uuidInvocIdSrc, clock)]]
  /\ UNCHANGED <<InvocationID, used, committed, stored, coming, clock,
                 gtimeDSAStarted, retiring, high, synced>>

\* The cycle ends well and the source is not itself coming.
EndCycle(d) ==
  /\ reply[d] # NoReply
  /\ reply[d].dwVersion = 2
  /\ reply[d].vec # <<>>
  /\ coming' = [coming EXCEPT ![d] = FALSE]
  /\ stored' = [stored EXCEPT ![d] =
                  UpToDateVec_Improve(@, reply[d].vec, InvocationID[d])]
  /\ reply' = [reply EXCEPT ![d] = NoReply]
  /\ synced' = [synced EXCEPT ![d] = TRUE]
  /\ UNCHANGED <<InvocationID, used, committed, clock, gtimeDSAStarted,
                 retiring, high>>

\* The same when attributes were added to the partial attribute set: the
\* server is only as up to date as its source.
EndPasCycle(d) ==
  /\ d \in Gcs
  /\ reply[d] # NoReply
  /\ reply[d].dwVersion = 2
  /\ reply[d].vec # <<>>
  /\ coming' = [coming EXCEPT ![d] = FALSE]
  /\ stored' = [stored EXCEPT ![d] =
                  UpToDateVec_Replace(reply[d].vec, InvocationID[d])]
  /\ reply' = [reply EXCEPT ![d] = NoReply]
  /\ synced' = [synced EXCEPT ![d] = TRUE]
  /\ UNCHANGED <<InvocationID, used, committed, clock, gtimeDSAStarted,
                 retiring, high>>

\* The cycle fails, or the reply has no vector.
AbandonCycle(d) ==
  /\ reply[d] # NoReply
  /\ reply' = [reply EXCEPT ![d] = NoReply]
  /\ UNCHANGED <<InvocationID, used, committed, stored, coming, clock,
                 gtimeDSAStarted, retiring, high, synced>>

\* Adopt a new invocation id (InitInvocationId, a transaction of its own) and
\* remember the cursor of the old one.
Retire(s, new, usn, time) ==
  /\ new \notin used
  /\ retiring[s] = NoReply
  /\ used' = used \cup {new}
  /\ InvocationID' = [InvocationID EXCEPT ![s] = new]
  /\ high' = [high EXCEPT ![new] = committed[s]]
  /\ retiring' = [retiring EXCEPT ![s] = Cursor(InvocationID[s], usn, time)]
  /\ UNCHANGED <<committed, stored, coming, clock, gtimeDSAStarted, reply,
                 synced>>

\* Mutants of draRetireInvocationID: the next USN; the time of day.
RetireNextUsn(s, new) ==
  committed[s] < MaxUsn /\ Retire(s, new, committed[s] + 1, gtimeDSAStarted[s])
RetireNow(s, new) == Retire(s, new, committed[s], clock)

draRetireInvocationID(s, new) ==
  Retire(s, new, committed[s], gtimeDSAStarted[s])

\* Its second transaction: store that cursor; the vector of a replica that is
\* still coming is left alone.
RetireImprove(s) ==
  /\ retiring[s] # NoReply
  /\ stored' = [stored EXCEPT ![s] =
       IF coming[s] THEN @
       ELSE UpToDateVec_Improve(@, <<retiring[s]>>, InvocationID[s])]
  /\ retiring' = [retiring EXCEPT ![s] = NoReply]
  /\ UNCHANGED <<InvocationID, used, committed, coming, clock,
                 gtimeDSAStarted, reply, high, synced>>

\* The server restarts, at most once a second (bound); a cycle under way is
\* lost, and so is the second half of a retirement.
Boot(s) ==
  /\ gtimeDSAStarted[s] # clock
  /\ gtimeDSAStarted' = [gtimeDSAStarted EXCEPT ![s] = clock]
  /\ synced' = [synced EXCEPT ![s] = FALSE]
  /\ reply' = [reply EXCEPT ![s] = NoReply]
  /\ retiring' = [retiring EXCEPT ![s] = NoReply]
  /\ UNCHANGED <<InvocationID, used, committed, stored, coming, clock, high>>

draPartitionSynchronizedSinceBoot(s) ==
  /\ ~ coming[s]
  /\ UpToDateVec_HasSunkSince(stored[s], gtimeDSAStarted[s])

Init ==
  /\ InvocationID = FirstId
  /\ used = {FirstId[s] : s \in Servers}
  /\ committed = [s \in Servers |-> 1]
  /\ stored = [s \in Servers |-> <<>>]
  /\ coming = [s \in Servers |-> s \in New]
  /\ clock = 1
  /\ gtimeDSAStarted = [s \in Servers |-> 1]
  /\ reply = [s \in Servers |-> NoReply]
  /\ retiring = [s \in Servers |-> NoReply]
  /\ high = [i \in Ids |-> IF i \in used THEN 1 ELSE 0]
  /\ synced = [s \in Servers |-> FALSE]

Next ==
  \/ Tick
  \/ \E s \in Servers : Commit(s)
  \/ \E d, s \in Servers : GetNCChanges(d, s)
  \/ \E d \in Servers : TranslateReply(d)
  \/ \E d \in Servers : EndCycle(d)
  \/ \E d \in Servers : EndPasCycle(d)
  \/ \E d \in Servers : AbandonCycle(d)
  \/ \E s \in Servers, new \in Ids : draRetireInvocationID(s, new)
  \/ \E s \in Servers : RetireImprove(s)
  \/ \E s \in Servers : Boot(s)

Spec == Init /\ [][Next]_vars

-----------------------------------------------------------------------------
(* Properties.                                                             *)

TypeOK ==
  /\ InvocationID \in [Servers -> Ids]
  /\ used \subseteq Ids
  /\ committed \in [Servers -> Usns]
  /\ stored \in [Servers -> Vectors]
  /\ coming \in [Servers -> BOOLEAN]
  /\ clock \in Seconds
  /\ gtimeDSAStarted \in [Servers -> Seconds]
  /\ reply \in [Servers -> Replies \cup {NoReply}]
  /\ retiring \in [Servers -> Cursors \cup {NoReply}]
  /\ high \in [Ids -> Usns \cup {0}]
  /\ synced \in [Servers -> BOOLEAN]

\* Every vector in the system: stored, or on its way to a destination.
AllVectors ==
  {stored[s] : s \in Servers}
    \cup {reply[s].vec : s \in {r \in Servers : reply[r] # NoReply}}

\* Cursors are in strict order of their UUIDs: bisection would miss cursors of
\* any other vector and l_CursorInsert would store an id twice.
StrictlySorted ==
  \A vec \in AllVectors : \A i, j \in DOMAIN vec :
    i < j => vec[i].uuidDsa < vec[j].uuidDsa

\* No server stores a cursor for its own current invocation id, whatever its
\* partners send back to it (the Assert in l_CursorImprove relies on it).
NoOwnCursor ==
  \A s \in Servers : \A i \in DOMAIN stored[s] :
    stored[s][i].uuidDsa # InvocationID[s]

\* The two conditions on which the search in a stored vector relies, for vectors
\* that were read, converted, improved, replaced and merged in any order.
WellFormed == StrictlySorted /\ NoOwnCursor

\* Nobody claims more of an id's writes than were committed under it (the
\* Assert at the end of DraImproveCallersUsnVector), not even of an id that
\* was retired while a vector was on its way.
NoClaimAhead ==
  \A vec \in AllVectors : \A i \in DOMAIN vec :
    vec[i].usnHighPropUpdate <= high[vec[i].uuidDsa]

\* draPartitionSynchronizedSinceBoot: times that reach a server through
\* others, through version 1 replies or through its own retired ids never
\* make it believe in a cycle it has not finished since it booted.
SynchronizedMeansSynced ==
  \A s \in Servers : draPartitionSynchronizedSinceBoot(s) => synced[s]

\* The vector a server reads to answer with.
LocalVector(s) ==
  UpToDateVec_Read(stored[s], coming[s], InvocationID[s], committed[s], clock)

\* UpToDateVec_Merge: a write is covered by the common vector exactly when it
\* is covered by both.  (It refuses servers without a vector.)
MergeIsCommon ==
  \A s, r \in Servers :
    LET vec1   == LocalVector(s)
        vec2   == LocalVector(r)
        common == UpToDateVec_Merge(vec1, vec2)
    IN vec1 # <<>> /\ vec2 # <<>> =>
         \A i \in Ids, u \in Usns :
           UpToDateVec_IsChangeNeeded(common, i, u) <=>
             \/ UpToDateVec_IsChangeNeeded(vec1, i, u)
             \/ UpToDateVec_IsChangeNeeded(vec2, i, u)

-----------------------------------------------------------------------------
(* The vectors as functions from ids to what is claimed of them.           *)

Claim(vec) ==
  [id \in Ids |->
     LET at == {i \in DOMAIN vec : vec[i].uuidDsa = id} IN
     IF at = {} THEN <<0, 0>>
     ELSE LET c == vec[CHOOSE i \in at : TRUE]
          IN <<c.usnHighPropUpdate, c.timeLastSyncSuccess>>]

\* A reply offers what its vector claims; version 1 has lost the times.
OfferOf(r) ==
  IF r = NoReply THEN NoReply
  ELSE [from  |-> r.uuidInvocIdSrc,
        claim |-> Claim(r.vec),
        times |-> IF r.dwVersion = 2 THEN "known" ELSE "lost"]

Claimed == [s \in Servers |-> Claim(stored[s])]
Offered == [s \in Servers |-> OfferOf(reply[s])]
Retired ==
  [s \in Servers |-> Claim(IF retiring[s] = NoReply THEN <<>> ELSE <<retiring[s]>>)]

Claims == INSTANCE UtdClaims WITH
  claim <- Claimed, offer <- Offered, NoOffer <- NoReply, retired <- Retired,
  id <- InvocationID, started <- gtimeDSAStarted

\* The arrays, their bisection, insertion and merge loop implement claims
\* that grow by taking the larger pair of USN and time.
ImplementsClaims == Claims!Spec
=============================================================================
