-------------------------- MODULE UtdClaimsProofs --------------------------
(***************************************************************************)
(* The vectors of UpToDateVec implement the claims of UtdClaims, for any   *)
(* servers, ids, roles and bounds, and for vectors of any length.          *)
(*                                                                         *)
(* The first part shows what each operation on the array does to the pair  *)
(* of USN and time that the vector claims of an id, from what the lemmas   *)
(* of UpToDateVecProofs say of its cursors.  The second part maps every    *)
(* action to its abstract one.  It needs the invariant of the vectors:     *)
(* bisection finds nothing in an unsorted array, a vector with a cursor of *)
(* its owner would keep the older of two claims when it is read, and a     *)
(* version 1 reply without its sender's cursor would not be timed.         *)
(***************************************************************************)
EXTENDS UpToDateVecProofs
-----------------------------------------------------------------------------
(* The vectors as claims.                                                  *)

\* What a sorted vector claims of an id.
LEMMA ClaimOf ==
  ASSUME NEW vec \in SortedVectors, NEW id \in Ids
  PROVE  /\ (\A c \in ToSet(vec) : c.uuidDsa # id) => Claim(vec)[id] = <<0, 0>>
         /\ \A c \in ToSet(vec) : c.uuidDsa = id =>
              Claim(vec)[id] = <<c.usnHighPropUpdate, c.timeLastSyncSuccess>>
<1> DEFINE at == {i \in DOMAIN vec : vec[i].uuidDsa = id}
           k == CHOOSE i \in at : TRUE
<1>1. Claim(vec)[id] = IF at = {} THEN <<0, 0>>
                       ELSE <<vec[k].usnHighPropUpdate, vec[k].timeLastSyncSuccess>>
  BY DEF Claim
<1>2. DOMAIN vec = 1 .. Len(vec)
  BY VectorFacts
<1>3. ASSUME \A c \in ToSet(vec) : c.uuidDsa # id
      PROVE  at = {}
  BY <1>3 DEF ToSet
<1>4. ASSUME NEW c \in ToSet(vec), c.uuidDsa = id
      PROVE  at # {} /\ vec[k] = c
  <2>1. at # {}
    BY <1>4 DEF ToSet
  <2>2. k \in at
    BY <2>1
  <2> HIDE DEF k
  <2>3. vec[k] \in ToSet(vec) /\ vec[k].uuidDsa = c.uuidDsa
    BY <2>2, <1>4 DEF ToSet
  <2>4. vec[k] = c
    BY <2>3, OneCursor
  <2>5. QED
    BY <2>1, <2>4
<1> HIDE DEF k, at
<1>5. QED
  BY <1>1, <1>3, <1>4

LEMMA ClaimIsFunction ==
  ASSUME NEW vec
  PROVE  Claim(vec) = [i \in Ids |-> Claim(vec)[i]]
  BY DEF Claim

\* Two claims about every id are the same when they agree on each.
LEMMA ClaimIs ==
  ASSUME NEW vec, NEW f, f = [i \in Ids |-> f[i]], \A i \in Ids : Claim(vec)[i] = f[i]
  PROVE  Claim(vec) = f
  BY ClaimIsFunction

LEMMA ClaimEmpty == Claim(<<>>) = Claims!Nothing
<1>1. \A i \in Ids : Claim(<<>>)[i] = <<0, 0>>
  BY EmptyVector, ClaimOf
<1>2. QED
  BY <1>1, ClaimIsFunction DEF Claims!Nothing

\* No vector with cursors claims nothing.
LEMMA ClaimSomething ==
  ASSUME NEW vec \in SortedVectors, Claim(vec) = Claims!Nothing
  PROVE  vec = <<>>
<1> SUFFICES ASSUME vec # <<>> PROVE FALSE
  OBVIOUS
<1>1. /\ Len(vec) \in Nat /\ vec \in Seq(Cursors)
      /\ \A i \in 1 .. Len(vec) : vec[i] \in Cursors
  BY VectorFacts
<1>2. Len(vec) # 0
  BY <1>1, EmptySeq
<1>3. vec[1] \in Cursors /\ vec[1] \in ToSet(vec)
  BY <1>1, <1>2, CursorsOf
<1>4. /\ vec[1].uuidDsa \in Ids /\ vec[1].usnHighPropUpdate \in Usns
      /\ Claim(vec)[vec[1].uuidDsa] = <<vec[1].usnHighPropUpdate, vec[1].timeLastSyncSuccess>>
  BY <1>3, CursorFields, ClaimOf
<1>5. 0 \notin Usns
  BY BoundsAssumption DEF Usns
<1>6. Claim(vec)[vec[1].uuidDsa] = <<0, 0>>
  BY <1>4 DEF Claims!Nothing
<1>7. QED
  BY <1>4, <1>5, <1>6

\* The claims of one cursor.
LEMMA ClaimSingle ==
  ASSUME NEW id \in Ids, NEW usn \in Usns, NEW time \in Seconds \cup {0}
  PROVE  Claim(<<Cursor(id, usn, time)>>) = Claims!Only(id, usn, time)
<1> DEFINE c == Cursor(id, usn, time)
           f == Claims!Only(id, usn, time)
<1>1. c \in Cursors /\ c.uuidDsa = id /\ c.usnHighPropUpdate = usn /\ c.timeLastSyncSuccess = time
  BY CursorType
<1>2. f = [i \in Ids |-> IF i = id THEN <<usn, time>> ELSE <<0, 0>>]
  BY DEF Claims!Only, Claims!Nothing
<1> HIDE DEF c, f
<1>3. <<c>> \in SortedVectors /\ ToSet(<<c>>) = {c}
  BY <1>1, SingleVector
<1>4. ASSUME NEW i \in Ids PROVE Claim(<<c>>)[i] = IF i = id THEN <<usn, time>> ELSE <<0, 0>>
  BY <1>1, <1>3, ClaimOf
<1>5. QED
  BY <1>2, <1>4, ClaimIsFunction DEF c, f

\* A vector without a cursor of the id, and one for it.
LEMMA ClaimRead ==
  ASSUME NEW vec \in SortedVectors, NEW id \in Ids, NEW usn \in Usns, NEW now \in Seconds,
         \A c \in ToSet(vec) : c.uuidDsa # id
  PROVE  Claim(l_CursorImprove(Cursor(id, usn, now), vec)) = [Claim(vec) EXCEPT ![id] = <<usn, now>>]
<1> DEFINE c == Cursor(id, usn, now)
           r == l_CursorImprove(c, vec)
<1>1. c \in Cursors /\ c.uuidDsa = id /\ c.usnHighPropUpdate = usn /\ c.timeLastSyncSuccess = now
  BY CursorType
<1> HIDE DEF c
<1>2. r \in SortedVectors /\ ToSet(r) = Improved(ToSet(vec), c)
  BY <1>1, CursorImproveOK
<1>3. \A d : d \in Improved(ToSet(vec), c) <=> d \in ToSet(vec) \/ d = c
  BY <1>1 DEF Improved
<1> HIDE DEF r
<1>4. ASSUME NEW i \in Ids PROVE Claim(r)[i] = IF i = id THEN <<usn, now>> ELSE Claim(vec)[i]
  <2>1. CASE i = id
    BY <2>1, <1>1, <1>2, <1>3, ClaimOf
  <2>2. CASE i # id /\ \E d \in ToSet(vec) : d.uuidDsa = i
    BY <2>2, <1>2, <1>3, ClaimOf
  <2>3. CASE i # id /\ \A d \in ToSet(vec) : d.uuidDsa # i
    BY <2>3, <1>1, <1>2, <1>3, ClaimOf
  <2>4. QED
    BY <2>1, <2>2, <2>3
<1>5. [Claim(vec) EXCEPT ![id] = <<usn, now>>]
        = [i \in Ids |-> IF i = id THEN <<usn, now>> ELSE Claim(vec)[i]]
  BY ClaimIsFunction
<1>6. QED
  BY <1>4, <1>5, ClaimIsFunction DEF c, r

LEMMA ClaimRemove ==
  ASSUME NEW vec \in SortedVectors, NEW id \in Ids
  PROVE  Claim(l_CursorRemove(vec, id)) = [Claim(vec) EXCEPT ![id] = <<0, 0>>]
<1> DEFINE r == l_CursorRemove(vec, id)
<1>1. r \in SortedVectors /\ ToSet(r) = {d \in ToSet(vec) : d.uuidDsa # id}
  BY RemoveOK
<1> HIDE DEF r
<1>2. ASSUME NEW i \in Ids PROVE Claim(r)[i] = IF i = id THEN <<0, 0>> ELSE Claim(vec)[i]
  <2>1. CASE i = id
    BY <2>1, <1>1, ClaimOf
  <2>2. CASE i # id /\ \E d \in ToSet(vec) : d.uuidDsa = i
    BY <2>2, <1>1, ClaimOf
  <2>3. CASE i # id /\ \A d \in ToSet(vec) : d.uuidDsa # i
    BY <2>3, <1>1, ClaimOf
  <2>4. QED
    BY <2>1, <2>2, <2>3
<1>3. [Claim(vec) EXCEPT ![id] = <<0, 0>>]
        = [i \in Ids |-> IF i = id THEN <<0, 0>> ELSE Claim(vec)[i]]
  BY ClaimIsFunction
<1>4. QED
  BY <1>2, <1>3, ClaimIsFunction DEF r

LEMMA ClaimConvert ==
  ASSUME NEW vec \in SortedVectors
  PROVE  Claim(UpToDateVec_Convert(vec)) = [i \in Ids |-> <<Claim(vec)[i][1], 0>>]
<1> DEFINE r == UpToDateVec_Convert(vec)
<1>1. r \in SortedVectors /\ ToSet(r) = {Untimed(c) : c \in ToSet(vec)}
  BY ConvertOK
<1>2. ASSUME NEW c \in ToSet(vec)
      PROVE  /\ Untimed(c).uuidDsa = c.uuidDsa /\ Untimed(c).timeLastSyncSuccess = 0
             /\ Untimed(c).usnHighPropUpdate = c.usnHighPropUpdate
  BY CursorsOf, VectorFacts, UntimedType
<1> HIDE DEF r
<1>3. ASSUME NEW i \in Ids PROVE Claim(r)[i] = <<Claim(vec)[i][1], 0>>
  <2>1. CASE \E d \in ToSet(vec) : d.uuidDsa = i
    <3>1. PICK d \in ToSet(vec) : d.uuidDsa = i
      BY <2>1
    <3>2. Claim(vec)[i] = <<d.usnHighPropUpdate, d.timeLastSyncSuccess>>
      BY <3>1, ClaimOf
    <3>3. Untimed(d) \in ToSet(r)
      BY <1>1
    <3>4. Claim(r)[i] = <<Untimed(d).usnHighPropUpdate, Untimed(d).timeLastSyncSuccess>>
      BY <3>1, <3>3, <1>1, <1>2, ClaimOf
    <3>5. QED
      BY <3>2, <3>4, <1>2
  <2>2. CASE \A d \in ToSet(vec) : d.uuidDsa # i
    <3>1. Claim(vec)[i] = <<0, 0>>
      BY <2>2, ClaimOf
    <3>2. \A d \in ToSet(r) : d.uuidDsa # i
      BY <2>2, <1>1, <1>2
    <3>3. Claim(r)[i] = <<0, 0>>
      BY <1>1, <3>2, ClaimOf
    <3>4. QED
      BY <3>1, <3>3
  <2>3. QED
    BY <2>1, <2>2
<1>4. QED
  BY <1>3, ClaimIsFunction DEF r

LEMMA ClaimTimestamp ==
  ASSUME NEW vec \in SortedVectors, NEW id \in Ids, NEW time \in Seconds,
         \E c \in ToSet(vec) : c.uuidDsa = id
  PROVE  Claim(UpToDateVec_AddTimestamp(vec, id, time))
           = [Claim(vec) EXCEPT ![id] = <<Claim(vec)[id][1], time>>]
<1> DEFINE r == UpToDateVec_AddTimestamp(vec, id, time)
           p == <<Claim(vec)[id][1], time>>
<1>1. PICK c \in ToSet(vec) : c.uuidDsa = id
  OBVIOUS
<1> DEFINE e == Cursor(id, c.usnHighPropUpdate, time)
<1>2. c.usnHighPropUpdate \in Usns
  BY CursorsOf, VectorFacts, CursorFields
<1>3. r \in SortedVectors
  BY AddTimestampOK
<1>4. \A d : d \in ToSet(r) <=> (d \in ToSet(vec) /\ d.uuidDsa # id) \/ d = e
  <2>1. {d \in ToSet(vec) : d.uuidDsa = id} = {c}
    BY <1>1, OneCursor
  <2>2. {Cursor(id, d.usnHighPropUpdate, time) : d \in {f \in ToSet(vec) : f.uuidDsa = id}} = {e}
    BY <2>1
  <2>3. ToSet(r) = {d \in ToSet(vec) : d.uuidDsa # id} \cup {e}
    BY <2>2, AddTimestampOK, ZenonT(60)
  <2>4. QED
    BY <2>3
<1>5. e.uuidDsa = id /\ e.usnHighPropUpdate = c.usnHighPropUpdate /\ e.timeLastSyncSuccess = time
  BY <1>2, CursorType
<1> HIDE DEF r, e
<1>6. p = <<c.usnHighPropUpdate, time>>
  <2>1. Claim(vec)[id] = <<c.usnHighPropUpdate, c.timeLastSyncSuccess>>
    BY <1>1, ClaimOf
  <2>2. QED
    BY <2>1
<1> HIDE DEF p
<1>7. ASSUME NEW i \in Ids PROVE Claim(r)[i] = IF i = id THEN p ELSE Claim(vec)[i]
  <2>1. CASE i = id
    BY <2>1, <1>3, <1>4, <1>5, <1>6, ClaimOf
  <2>2. CASE i # id /\ \E d \in ToSet(vec) : d.uuidDsa = i
    BY <2>2, <1>3, <1>4, ClaimOf
  <2>3. CASE i # id /\ \A d \in ToSet(vec) : d.uuidDsa # i
    BY <2>3, <1>3, <1>4, <1>5, ClaimOf
  <2>4. QED
    BY <2>1, <2>2, <2>3
<1>8. [Claim(vec) EXCEPT ![id] = p] = [i \in Ids |-> IF i = id THEN p ELSE Claim(vec)[i]]
  BY ClaimIsFunction
<1>9. QED
  BY <1>7, <1>8, ClaimIsFunction DEF r, p

\* The merge loop takes the larger claim about every id but the server's own.
LEMMA ClaimJoin ==
  ASSUME NEW vec \in SortedVectors, NEW vecRemote \in SortedVectors, NEW own
  PROVE  Claim(UpToDateVec_Improve(vec, vecRemote, own))
           = Claims!Join(Claim(vec), Claim(vecRemote), own)
<1> DEFINE r == UpToDateVec_Improve(vec, vecRemote, own)
           A == ToSet(vec)
           B == ToSet(vecRemote)
           p(i) == Claim(vec)[i]
           q(i) == Claim(vecRemote)[i]
<1>1. r \in SortedVectors /\ \A d : d \in ToSet(r) <=> Joined(d, A, B, own)
  BY ImproveOK
<1> HIDE DEF r
<1>2. ASSUME NEW d, d \in A \/ d \in B
      PROVE  /\ d.usnHighPropUpdate \in Int /\ d.timeLastSyncSuccess \in Int
             /\ d.usnHighPropUpdate > 0 /\ d.uuidDsa \in Ids
  <2>1. d \in Cursors
    BY <1>2, CursorsOf, VectorFacts
  <2>2. /\ d.usnHighPropUpdate \in Usns /\ d.timeLastSyncSuccess \in Int /\ d.uuidDsa \in Ids
    BY <2>1, CursorFields
  <2>3. QED
    BY <2>2, BoundsAssumption DEF Usns
<1>3. \A d, e \in A : d.uuidDsa = e.uuidDsa => d = e
  BY OneCursor
<1>4. \A d, e \in B : d.uuidDsa = e.uuidDsa => d = e
  BY OneCursor
<1>5. ASSUME NEW i \in Ids
      PROVE  /\ \A a \in A : a.uuidDsa = i => p(i) = <<a.usnHighPropUpdate, a.timeLastSyncSuccess>>
             /\ \A b \in B : b.uuidDsa = i => q(i) = <<b.usnHighPropUpdate, b.timeLastSyncSuccess>>
             /\ (\A a \in A : a.uuidDsa # i) => p(i) = <<0, 0>>
             /\ (\A b \in B : b.uuidDsa # i) => q(i) = <<0, 0>>
             /\ \A d : Joined(d, A, B, own) /\ d.uuidDsa = i =>
                         Claim(r)[i] = <<d.usnHighPropUpdate, d.timeLastSyncSuccess>>
             /\ (\A d : Joined(d, A, B, own) => d.uuidDsa # i) => Claim(r)[i] = <<0, 0>>
  BY <1>1, ClaimOf
<1> HIDE DEF A, B
<1>6. ASSUME NEW i \in Ids
      PROVE  Claim(r)[i] = IF i = own THEN p(i) ELSE Claims!Larger(p(i), q(i))
  <2> HIDE DEF p, q
  <2>1. CASE i = own
    <3>1. CASE \E a \in A : a.uuidDsa = i
      BY <2>1, <3>1, <1>5 DEF Joined
    <3>2. CASE \A a \in A : a.uuidDsa # i
      <4>1. \A d : Joined(d, A, B, own) => d.uuidDsa # i
        BY <2>1, <3>2 DEF Joined
      <4>2. QED
        BY <4>1, <3>2, <2>1, <1>5
    <3>3. QED
      BY <3>1, <3>2
  <2>2. CASE i # own /\ \A a \in A : a.uuidDsa # i
    <3>1. CASE \E b \in B : b.uuidDsa = i
      <4>1. PICK b \in B : b.uuidDsa = i
        BY <3>1
      <4>2. Joined(b, A, B, own)
        BY <2>2, <4>1 DEF Joined
      <4>3. Claim(r)[i] = q(i) /\ q(i) = <<b.usnHighPropUpdate, b.timeLastSyncSuccess>>
        BY <4>1, <4>2, <1>5
      <4>4. p(i) = <<0, 0>> /\ b.usnHighPropUpdate \in Int /\ b.usnHighPropUpdate > 0
        BY <2>2, <1>2, <1>5
      <4>5. Claims!Larger(p(i), q(i)) = q(i)
        BY <4>3, <4>4 DEF Claims!Larger
      <4>6. QED
        BY <2>2, <4>3, <4>5
    <3>2. CASE \A b \in B : b.uuidDsa # i
      <4>1. \A d : Joined(d, A, B, own) => d.uuidDsa # i
        BY <2>2, <3>2 DEF Joined
      <4>2. Claim(r)[i] = <<0, 0>> /\ p(i) = <<0, 0>> /\ q(i) = <<0, 0>>
        BY <4>1, <2>2, <3>2, <1>5
      <4>3. QED
        BY <2>2, <4>2 DEF Claims!Larger
    <3>3. QED
      BY <3>1, <3>2
  <2>3. CASE i # own /\ \E a \in A : a.uuidDsa = i
    <3>1. PICK a \in A : a.uuidDsa = i
      BY <2>3
    <3>2. /\ p(i) = <<a.usnHighPropUpdate, a.timeLastSyncSuccess>>
          /\ a.usnHighPropUpdate \in Int /\ a.timeLastSyncSuccess \in Int
          /\ a.usnHighPropUpdate > 0
      BY <3>1, <1>2, <1>5
    <3>3. CASE \A b \in B : b.uuidDsa # i
      <4>1. Joined(a, A, B, own)
        BY <3>1, <3>3 DEF Joined
      <4>2. Claim(r)[i] = p(i) /\ q(i) = <<0, 0>>
        BY <3>1, <3>2, <3>3, <4>1, <1>5
      <4>3. QED
        BY <2>3, <3>2, <4>2 DEF Claims!Larger
    <3>4. CASE \E b \in B : b.uuidDsa = i
      <4>1. PICK b \in B : b.uuidDsa = i
        BY <3>4
      <4>2. /\ q(i) = <<b.usnHighPropUpdate, b.timeLastSyncSuccess>>
            /\ b.usnHighPropUpdate \in Int /\ b.timeLastSyncSuccess \in Int
        BY <4>1, <1>2, <1>5
      <4>3. CASE Covers(a, b)
        <5>1. Joined(a, A, B, own)
          BY <3>1, <4>1, <4>3, <1>4 DEF Joined
        <5>2. Claim(r)[i] = p(i)
          BY <5>1, <3>1, <3>2, <1>5
        <5>3. Claims!Larger(p(i), q(i)) = p(i)
          BY <3>2, <4>2, <4>3 DEF Covers, Claims!Larger
        <5>4. QED
          BY <2>3, <5>2, <5>3
      <4>4. CASE ~Covers(a, b)
        <5>1. Joined(b, A, B, own)
          BY <2>3, <3>1, <4>1, <4>4, <1>3 DEF Joined
        <5>2. Claim(r)[i] = q(i)
          BY <5>1, <4>1, <4>2, <1>5
        <5>3. Claims!Larger(p(i), q(i)) = q(i)
          BY <3>2, <4>2, <4>4 DEF Covers, Claims!Larger
        <5>4. QED
          BY <2>3, <5>2, <5>3
      <4>5. QED
        BY <4>3, <4>4
    <3>5. QED
      BY <3>3, <3>4
  <2>4. QED
    BY <2>1, <2>2, <2>3
<1>7. QED
  BY <1>6, ClaimIsFunction DEF r, Claims!Join

-----------------------------------------------------------------------------
(* Every step is a step of UtdClaims or changes nothing there.             *)

\* Replies and offers are there at the same time.
LEMMA OfferIsThere ==
  ASSUME NEW r
  PROVE  /\ OfferOf(r) = NoReply <=> r = NoReply
         /\ r # NoReply => /\ OfferOf(r).from = r.uuidInvocIdSrc
                           /\ OfferOf(r).claim = Claim(r.vec)
                           /\ OfferOf(r).times = IF r.dwVersion = 2 THEN "known" ELSE "lost"
<1>1. ASSUME NEW a, NEW b, NEW c, [from |-> a, claim |-> b, times |-> c] = NoReply
      PROVE  FALSE
  <2>1. DOMAIN [from |-> a, claim |-> b, times |-> c] = {"from", "claim", "times"}
    OBVIOUS
  <2>2. DOMAIN NoReply = {"none"}
    BY DEF NoReply
  <2>3. QED
    BY <1>1, <2>1, <2>2
<1>2. CASE r = NoReply
  BY <1>2 DEF OfferOf
<1>3. CASE r # NoReply
  <2>1. OfferOf(r) = [from |-> r.uuidInvocIdSrc, claim |-> Claim(r.vec),
                      times |-> IF r.dwVersion = 2 THEN "known" ELSE "lost"]
    BY <1>3 DEF OfferOf
  <2>2. QED
    BY <1>1, <1>3, <2>1
<1>4. QED
  BY <1>2, <1>3

LEMMA ReplyIsThere == NoReply \notin Replies
<1> SUFFICES ASSUME NoReply \in Replies PROVE FALSE
  OBVIOUS
<1>1. DOMAIN NoReply = {"uuidInvocIdSrc", "vec", "dwVersion"}
  BY DEF Replies
<1>2. DOMAIN NoReply = {"none"}
  BY DEF NoReply
<1>3. QED
  BY <1>1, <1>2

LEMMA NoOffer == OfferOf(NoReply) = NoReply
  BY DEF OfferOf

\* What a change of one server's vector, reply or retired cursor changes.
LEMMA StoredChange ==
  ASSUME stored = [s \in Servers |-> stored[s]], NEW d \in Servers, NEW v,
         stored' = [stored EXCEPT ![d] = v]
  PROVE  Claimed' = [Claimed EXCEPT ![d] = Claim(v)]
  BY DEF Claimed

LEMMA ReplyChange ==
  ASSUME reply = [s \in Servers |-> reply[s]], NEW d \in Servers, NEW r,
         reply' = [reply EXCEPT ![d] = r]
  PROVE  Offered' = [Offered EXCEPT ![d] = OfferOf(r)]
  BY DEF Offered

LEMMA RetiringChange ==
  ASSUME retiring = [s \in Servers |-> retiring[s]], NEW d \in Servers, NEW c,
         retiring' = [retiring EXCEPT ![d] = c]
  PROVE  Retired' = [Retired EXCEPT ![d] = Claim(IF c = NoReply THEN <<>> ELSE <<c>>)]
  BY DEF Retired

LEMMA SameClaims ==
  /\ stored' = stored => Claimed' = Claimed
  /\ reply' = reply => Offered' = Offered
  /\ retiring' = retiring => Retired' = Retired
  BY DEF Claimed, Offered, Retired

LEMMA ClaimsAt ==
  ASSUME NEW s \in Servers
  PROVE  /\ Claimed[s] = Claim(stored[s]) /\ Offered[s] = OfferOf(reply[s])
         /\ Retired[s] = Claim(IF retiring[s] = NoReply THEN <<>> ELSE <<retiring[s]>>)
  BY DEF Claimed, Offered, Retired

LEMMA InitClaims == Init => Claims!Init
<1> SUFFICES ASSUME Init PROVE Claims!Init
  OBVIOUS
<1>1. /\ stored = [s \in Servers |-> <<>>] /\ reply = [s \in Servers |-> NoReply]
      /\ retiring = [s \in Servers |-> NoReply]
  BY DEF Init
<1>2. Claimed = [s \in Servers |-> Claims!Nothing]
  BY <1>1, ClaimEmpty DEF Claimed
<1>3. Offered = [s \in Servers |-> NoReply]
  BY <1>1 DEF Offered, OfferOf
<1>4. Retired = [s \in Servers |-> Claims!Nothing]
  BY <1>1, ClaimEmpty DEF Retired
<1>5. QED
  BY <1>2, <1>3, <1>4 DEF Init, Claims!Init

LEMMA TickClaims ==
  ASSUME Tick PROVE Claims!Tick
  BY SameClaims DEF Tick, Claims!Tick

LEMMA CommitClaims ==
  ASSUME NEW s \in Servers, Commit(s) PROVE Claims!Commit(s)
  BY SameClaims DEF Commit, Claims!Commit

LEMMA RefuseClaims ==
  ASSUME Inv, NEW d \in Servers, AbandonCycle(d) PROVE Claims!Refuse(d)
<1>1. /\ reply' = [reply EXCEPT ![d] = NoReply]
      /\ UNCHANGED <<InvocationID, used, committed, stored, coming, clock, gtimeDSAStarted,
                     retiring>>
  BY DEF AbandonCycle
<1>2. Offered' = [Offered EXCEPT ![d] = NoReply]
  BY <1>1, InvFacts, ReplyChange, NoOffer
<1>3. QED
  BY <1>1, <1>2, SameClaims DEF Claims!Refuse

LEMMA BootClaims ==
  ASSUME Inv, NEW s \in Servers, Boot(s) PROVE Claims!Boot(s)
<1>1. /\ gtimeDSAStarted' = [gtimeDSAStarted EXCEPT ![s] = clock]
      /\ reply' = [reply EXCEPT ![s] = NoReply] /\ retiring' = [retiring EXCEPT ![s] = NoReply]
      /\ UNCHANGED <<InvocationID, used, committed, stored, coming, clock>>
  BY DEF Boot
<1>2. Offered' = [Offered EXCEPT ![s] = NoReply]
  BY <1>1, InvFacts, ReplyChange, NoOffer
<1>3. Retired' = [Retired EXCEPT ![s] = Claims!Nothing]
  BY <1>1, InvFacts, RetiringChange, ClaimEmpty
<1>4. QED
  BY <1>1, <1>2, <1>3, SameClaims DEF Claims!Boot

LEMMA OfferClaims ==
  ASSUME Inv, NEW d \in Servers, NEW s \in Servers, GetNCChanges(d, s)
  PROVE  Claims!Offer(d, s)
<1> DEFINE vec == UpToDateVec_Read(stored[s], coming[s], InvocationID[s], committed[s], clock)
           v == IF s \in W2k THEN UpToDateVec_Convert(vec) ELSE vec
           n == IF s \in W2k THEN 1 ELSE 2
           r == [uuidInvocIdSrc |-> InvocationID[s], vec |-> v, dwVersion |-> n]
           all == [Claimed[s] EXCEPT ![InvocationID[s]] = <<committed[s], clock>>]
           c == IF s \in W2k THEN [i \in Ids |-> <<all[i][1], 0>>] ELSE all
           o == [from |-> InvocationID[s],
                 claim |-> IF coming[s] THEN Claims!Nothing ELSE c,
                 times |-> IF s \in W2k THEN "lost" ELSE "known"]
<1>1. /\ d # s /\ reply[d] = NoReply /\ reply' = [reply EXCEPT ![d] = r]
      /\ UNCHANGED <<InvocationID, used, committed, stored, coming, clock, gtimeDSAStarted,
                     retiring>>
  BY DEF GetNCChanges
<1>2. /\ stored[s] \in SortedVectors /\ coming[s] \in BOOLEAN /\ InvocationID[s] \in Ids
      /\ committed[s] \in Usns /\ clock \in Seconds
      /\ \A e \in ToSet(stored[s]) : e.uuidDsa # InvocationID[s]
  BY InvFacts DEF ScalarsOK, StoredOK, Storable
<1> DEFINE offered == IF coming[s] THEN Claims!Nothing ELSE c
<1>3. Claim(v) = offered
  <2>1. CASE coming[s] = TRUE
    <3>1. vec = <<>>
      BY <2>1, Zenon DEF UpToDateVec_Read
    <3>2. UpToDateVec_Convert(<<>>) = <<>>
      BY DEF UpToDateVec_Convert
    <3> HIDE DEF vec
    <3>3. Claim(v) = Claims!Nothing
      BY <3>1, <3>2, ClaimEmpty
    <3> HIDE DEF v, c
    <3>4. QED
      BY <2>1, <3>3
  <2>2. CASE coming[s] = FALSE
    <3>1. vec = l_CursorImprove(Cursor(InvocationID[s], committed[s], clock), stored[s])
      BY <2>2, Zenon DEF UpToDateVec_Read
    <3>2. Cursor(InvocationID[s], committed[s], clock) \in Cursors
      BY <1>2, CursorType
    <3>3. vec \in SortedVectors
      BY <1>2, <3>1, <3>2, CursorImproveOK
    <3>4. Claim(vec) = all
      <4>1. Claim(vec) = [Claim(stored[s]) EXCEPT ![InvocationID[s]] = <<committed[s], clock>>]
        BY <1>2, <3>1, ClaimRead
      <4>2. Claimed[s] = Claim(stored[s])
        BY ClaimsAt
      <4> HIDE DEF vec
      <4>3. QED
        BY <4>1, <4>2
    <3> HIDE DEF vec, all
    <3>5. Claim(v) = c
      BY <3>3, <3>4, ClaimConvert
    <3> HIDE DEF v, c
    <3>6. QED
      BY <2>2, <3>5
  <2>3. QED
    BY <1>2, <2>1, <2>2
<1>4. ~(s \in W2k) => n = 2
  OBVIOUS
<1>5. s \in W2k => n = 1
  OBVIOUS
<1> HIDE DEF v, n, offered
<1>6. r # NoReply /\ r.uuidInvocIdSrc = InvocationID[s] /\ r.vec = v /\ r.dwVersion = n
  <2>1. DOMAIN r = {"uuidInvocIdSrc", "vec", "dwVersion"}
    OBVIOUS
  <2>2. DOMAIN NoReply = {"none"}
    BY DEF NoReply
  <2>3. QED
    BY <2>1, <2>2
<1> HIDE DEF r
<1>7. OfferOf(r) = [from |-> InvocationID[s], claim |-> offered,
                    times |-> IF s \in W2k THEN "lost" ELSE "known"]
  <2>1. OfferOf(r) = [from |-> InvocationID[s], claim |-> offered,
                      times |-> IF n = 2 THEN "known" ELSE "lost"]
    BY <1>3, <1>6 DEF OfferOf
  <2>2. (IF n = 2 THEN "known" ELSE "lost") = IF s \in W2k THEN "lost" ELSE "known"
    BY <1>4, <1>5
  <2>3. QED
    BY <2>1, <2>2
<1>8. Offered' = [Offered EXCEPT ![d] = OfferOf(r)]
  BY <1>1, InvFacts, ReplyChange
<1>9. Offered[d] = NoReply
  BY <1>1, ClaimsAt, NoOffer
<1>10. QED
  BY <1>1, <1>7, <1>8, <1>9, SameClaims DEF Claims!Offer, offered

LEMMA TimeClaims ==
  ASSUME Inv, NEW d \in Servers, TranslateReply(d)
  PROVE  Claims!Time(d)
<1> DEFINE q == reply[d]
           i == q.uuidInvocIdSrc
           v == UpToDateVec_AddTimestamp(q.vec, i, clock)
           r == [q EXCEPT !.dwVersion = 2, !.vec = v]
           c == Claim(q.vec)
           t == IF c = Claims!Nothing THEN c ELSE [c EXCEPT ![i] = <<c[i][1], clock>>]
<1>1. /\ q # NoReply /\ q.dwVersion = 1 /\ reply' = [reply EXCEPT ![d] = r]
      /\ UNCHANGED <<InvocationID, used, committed, stored, coming, clock, gtimeDSAStarted,
                     retiring>>
  BY DEF TranslateReply
<1>2. q \in Replies /\ q.vec \in SortedVectors /\ HasSender(q) /\ clock \in Seconds
  BY <1>1, InvFacts DEF ReplyOK, ScalarsOK
<1>3. i \in Ids
  BY <1>2 DEF Replies
<1>4. Claim(v) = t
  <2>1. CASE q.vec = <<>>
    <3>1. c = Claims!Nothing
      BY <2>1, ClaimEmpty
    <3>2. ~HasCursor(q.vec, i)
      <4>1. Len(q.vec) = 0
        BY <2>1
      <4>2. QED
        BY <4>1, <1>2, <1>3, PositionOK
    <3>3. v = q.vec
      BY <3>2 DEF UpToDateVec_AddTimestamp
    <3> HIDE DEF v, c
    <3>4. QED
      BY <3>1, <3>3 DEF c
  <2>2. CASE q.vec # <<>>
    <3>1. \E e \in ToSet(q.vec) : e.uuidDsa = i
      BY <2>2, <1>1, <1>2 DEF HasSender
    <3>2. Claim(v) = [c EXCEPT ![i] = <<c[i][1], clock>>]
      BY <3>1, <1>2, <1>3, ClaimTimestamp
    <3>3. c # Claims!Nothing
      BY <2>2, <1>2, ClaimSomething
    <3> HIDE DEF v, c
    <3>4. QED
      BY <3>2, <3>3
  <2>3. QED
    BY <2>1, <2>2
<1> HIDE DEF v, t
<1>5. r # NoReply /\ r.uuidInvocIdSrc = i /\ r.vec = v /\ r.dwVersion = 2
  <2>1. v \in Vectors
    BY <1>2, <1>3, AddTimestampOK DEF v, SortedVectors
  <2>2. r \in Replies /\ r.uuidInvocIdSrc = i /\ r.vec = v /\ r.dwVersion = 2
    BY <1>2, <2>1 DEF Replies
  <2> HIDE DEF r
  <2>3. QED
    BY <2>2, ReplyIsThere
<1> HIDE DEF r
<1>6. OfferOf(r) = [from |-> i, claim |-> t, times |-> "known"]
  BY <1>4, <1>5 DEF OfferOf
<1>7. Offered' = [Offered EXCEPT ![d] = OfferOf(r)]
  BY <1>1, InvFacts, ReplyChange
<1>8. /\ Offered[d] # NoReply /\ Offered[d].from = i /\ Offered[d].claim = c
      /\ Offered[d].times = "lost"
  <2>1. Offered[d] = OfferOf(q)
    BY ClaimsAt
  <2> HIDE DEF q
  <2>2. q.dwVersion # 2
    BY <1>1
  <2>3. QED
    BY <1>1, <2>1, <2>2, OfferIsThere
<1> HIDE DEF c, i, q
<1>9. QED
  BY <1>1, <1>6, <1>7, <1>8, SameClaims DEF Claims!Time, t

\* The vector v is stored at the end of a cycle.
LEMMA TakeClaims ==
  ASSUME Inv, NEW d \in Servers, NEW v, NEW f, Claim(v) = f,
         reply[d] # NoReply, reply[d].dwVersion = 2, reply[d].vec # <<>>,
         coming' = [coming EXCEPT ![d] = FALSE], stored' = [stored EXCEPT ![d] = v],
         reply' = [reply EXCEPT ![d] = NoReply],
         UNCHANGED <<InvocationID, used, committed, clock, gtimeDSAStarted, retiring>>
  PROVE  Claims!Take(d, f)
<1>1. reply[d].vec \in SortedVectors
  BY InvFacts DEF ReplyOK
<1>2. /\ Offered[d] # NoReply /\ Offered[d].claim # Claims!Nothing
      /\ Offered[d].times = "known"
  BY <1>1, ClaimsAt, OfferIsThere, ClaimSomething, ZenonT(60)
<1>3. Offered' = [Offered EXCEPT ![d] = NoReply]
  <2>1. reply = [s \in Servers |-> reply[s]]
    BY InvFacts
  <2>2. Offered' = [Offered EXCEPT ![d] = OfferOf(NoReply)]
    BY <2>1, ReplyChange
  <2>3. QED
    BY <2>2, NoOffer
<1>4. Claimed' = [Claimed EXCEPT ![d] = f]
  BY InvFacts, StoredChange
<1>5. QED
  BY <1>2, <1>3, <1>4, SameClaims DEF Claims!Take

LEMMA LearnClaims ==
  ASSUME Inv, NEW d \in Servers, EndCycle(d)
  PROVE  Claims!Learn(d)
<1> DEFINE v == UpToDateVec_Improve(stored[d], reply[d].vec, InvocationID[d])
           f == Claims!Join(Claimed[d], Offered[d].claim, InvocationID[d])
<1>1. /\ reply[d] # NoReply /\ reply[d].dwVersion = 2 /\ reply[d].vec # <<>>
      /\ coming' = [coming EXCEPT ![d] = FALSE] /\ stored' = [stored EXCEPT ![d] = v]
      /\ reply' = [reply EXCEPT ![d] = NoReply]
      /\ UNCHANGED <<InvocationID, used, committed, clock, gtimeDSAStarted, retiring>>
  BY DEF EndCycle
<1>2. stored[d] \in SortedVectors /\ reply[d].vec \in SortedVectors
  BY <1>1, InvFacts DEF StoredOK, ReplyOK
<1>3. Claimed[d] = Claim(stored[d]) /\ Offered[d].claim = Claim(reply[d].vec)
  BY <1>1, ClaimsAt, OfferIsThere
<1>4. Claim(v) = f
  BY <1>2, <1>3, ClaimJoin
<1> HIDE DEF v, f
<1>5. Claims!Take(d, f)
  BY <1>1, <1>4, TakeClaims
<1>6. QED
  BY <1>5 DEF Claims!Learn, f

LEMMA AdoptClaims ==
  ASSUME Inv, NEW d \in Servers, EndPasCycle(d)
  PROVE  Claims!Adopt(d)
<1> DEFINE v == UpToDateVec_Replace(reply[d].vec, InvocationID[d])
           f == [Offered[d].claim EXCEPT ![InvocationID[d]] = <<0, 0>>]
<1>1. /\ d \in Gcs /\ reply[d] # NoReply /\ reply[d].dwVersion = 2 /\ reply[d].vec # <<>>
      /\ coming' = [coming EXCEPT ![d] = FALSE] /\ stored' = [stored EXCEPT ![d] = v]
      /\ reply' = [reply EXCEPT ![d] = NoReply]
      /\ UNCHANGED <<InvocationID, used, committed, clock, gtimeDSAStarted, retiring>>
  BY DEF EndPasCycle
<1>2. reply[d].vec \in SortedVectors /\ InvocationID[d] \in Ids
  BY <1>1, InvFacts DEF ReplyOK, ScalarsOK
<1>3. Offered[d].claim = Claim(reply[d].vec)
  BY <1>1, ClaimsAt, OfferIsThere
<1>4. Claim(v) = f
  BY <1>2, <1>3, ClaimRemove DEF UpToDateVec_Replace
<1> HIDE DEF v, f
<1>5. Claims!Take(d, f)
  BY <1>1, <1>4, TakeClaims
<1>6. QED
  BY <1>1, <1>5 DEF Claims!Adopt, f

LEMMA RenameClaims ==
  ASSUME Inv, NEW s \in Servers, NEW new \in Ids, draRetireInvocationID(s, new)
  PROVE  Claims!Rename(s, new)
<1> DEFINE c == Cursor(InvocationID[s], committed[s], gtimeDSAStarted[s])
<1>1. /\ new \notin used /\ retiring[s] = NoReply /\ used' = used \cup {new}
      /\ InvocationID' = [InvocationID EXCEPT ![s] = new]
      /\ retiring' = [retiring EXCEPT ![s] = c]
      /\ UNCHANGED <<committed, stored, coming, clock, gtimeDSAStarted, reply>>
  BY DEF draRetireInvocationID, Retire
<1>2. InvocationID[s] \in Ids /\ committed[s] \in Usns /\ gtimeDSAStarted[s] \in Seconds
  BY InvFacts DEF ScalarsOK
<1>3. c # NoReply
  <2>1. DOMAIN c = {"uuidDsa", "usnHighPropUpdate", "timeLastSyncSuccess"}
    BY DEF Cursor
  <2>2. DOMAIN NoReply = {"none"}
    BY DEF NoReply
  <2>3. QED
    BY <2>1, <2>2
<1>4. Claim(<<c>>) = Claims!Only(InvocationID[s], committed[s], gtimeDSAStarted[s])
  BY <1>2, ClaimSingle
<1> HIDE DEF c
<1>5. Retired' = [Retired EXCEPT ![s] = Claim(<<c>>)]
  BY <1>1, <1>3, InvFacts, RetiringChange
<1>6. Retired[s] = Claims!Nothing
  BY <1>1, ClaimsAt, ClaimEmpty
<1>7. QED
  BY <1>1, <1>4, <1>5, <1>6, SameClaims DEF Claims!Rename

LEMMA RecordClaims ==
  ASSUME Inv, NEW s \in Servers, RetireImprove(s)
  PROVE  Claims!Record(s)
<1> DEFINE c == retiring[s]
           w == UpToDateVec_Improve(stored[s], <<c>>, InvocationID[s])
           v == IF coming[s] THEN stored[s] ELSE w
           f == IF coming[s] THEN Claimed[s]
                ELSE Claims!Join(Claimed[s], Retired[s], InvocationID[s])
<1>1. /\ c # NoReply /\ stored' = [stored EXCEPT ![s] = v]
      /\ retiring' = [retiring EXCEPT ![s] = NoReply]
      /\ UNCHANGED <<InvocationID, used, committed, coming, clock, gtimeDSAStarted, reply>>
  BY DEF RetireImprove
<1>2. /\ stored[s] \in SortedVectors /\ c \in Cursors /\ coming[s] \in BOOLEAN
  BY <1>1, InvFacts DEF StoredOK, RetiringOK, Claimable, ScalarsOK
<1>3. <<c>> \in SortedVectors /\ ToSet(<<c>>) = {c}
  BY <1>2, SingleVector
<1>4. Claimed[s] = Claim(stored[s]) /\ Retired[s] = Claim(<<c>>)
  BY <1>1, ClaimsAt
<1>5. Retired[s] # Claims!Nothing
  <2>1. <<c>> # <<>>
    OBVIOUS
  <2>2. QED
    BY <2>1, <1>3, <1>4, ClaimSomething
<1>6. Claim(v) = f
  <2>1. Claim(w) = Claims!Join(Claimed[s], Retired[s], InvocationID[s])
    BY <1>2, <1>3, <1>4, ClaimJoin
  <2> HIDE DEF w
  <2>2. CASE coming[s] = TRUE
    BY <2>2, <1>4
  <2>3. CASE coming[s] = FALSE
    BY <2>1, <2>3
  <2>4. QED
    BY <1>2, <2>2, <2>3
<1> HIDE DEF v, f
<1>7. Claimed' = [Claimed EXCEPT ![s] = f]
  BY <1>1, <1>6, InvFacts, StoredChange
<1>8. Retired' = [Retired EXCEPT ![s] = Claims!Nothing]
  BY <1>1, InvFacts, RetiringChange, ClaimEmpty
<1>9. QED
  BY <1>1, <1>5, <1>7, <1>8, SameClaims DEF Claims!Record, f

LEMMA NextClaims == Inv /\ [Next]_vars => [Claims!Next]_(Claims!vars)
<1> SUFFICES ASSUME Inv, [Next]_vars PROVE [Claims!Next]_(Claims!vars)
  OBVIOUS
<1>1. CASE Tick
  BY <1>1, TickClaims DEF Claims!Next
<1>2. CASE \E s \in Servers : Commit(s)
  BY <1>2, CommitClaims DEF Claims!Next
<1>3. CASE \E d, s \in Servers : GetNCChanges(d, s)
  BY <1>3, OfferClaims DEF Claims!Next
<1>4. CASE \E d \in Servers : TranslateReply(d)
  BY <1>4, TimeClaims DEF Claims!Next
<1>5. CASE \E d \in Servers : EndCycle(d)
  BY <1>5, LearnClaims DEF Claims!Next
<1>6. CASE \E d \in Servers : EndPasCycle(d)
  BY <1>6, AdoptClaims DEF Claims!Next
<1>7. CASE \E d \in Servers : AbandonCycle(d)
  BY <1>7, RefuseClaims DEF Claims!Next
<1>8. CASE \E s \in Servers, new \in Ids : draRetireInvocationID(s, new)
  BY <1>8, RenameClaims DEF Claims!Next
<1>9. CASE \E s \in Servers : RetireImprove(s)
  BY <1>9, RecordClaims DEF Claims!Next
<1>10. CASE \E s \in Servers : Boot(s)
  BY <1>10, BootClaims DEF Claims!Next
<1>11. CASE UNCHANGED vars
  BY <1>11, SameClaims DEF vars, Claims!vars
<1>12. QED
  BY <1>1, <1>2, <1>3, <1>4, <1>5, <1>6, <1>7, <1>8, <1>9, <1>10, <1>11 DEF Next

\* The sorted arrays of drauptod.c, searched by bisection, cut and joined one cursor
\* at a time, implement claims about ids that only grow by taking the larger pair of
\* USN and time, or are replaced by the source's after a PAS cycle.
THEOREM VectorsImplementClaims == Spec => ImplementsClaims
<1>1. Init => Claims!Init
  BY InitClaims
<1>2. Inv /\ [Next]_vars => [Claims!Next]_(Claims!vars)
  BY NextClaims
<1>3. QED
  BY <1>1, <1>2, VectorsInvariant, PTL DEF Spec, ImplementsClaims, Claims!Spec
=============================================================================
