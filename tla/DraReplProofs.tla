--------------------------- MODULE DraReplProofs ---------------------------
(***************************************************************************)
(* Proofs about DraRepl, for any number of servers, objects and writes, any *)
(* replication topology and any tree of objects.                           *)
(***************************************************************************)
EXTENDS DraRepl, FiniteSetTheorems, WellFoundedInduction, TLAPS

-----------------------------------------------------------------------------
(* Types.                                                                  *)

Entries  == [obj : Objs, place : [with : Nat, depth : Nat],
             md : UNION {[S -> Stamps] : S \in SUBSET Attrs}]
Replies  == [objs : SUBSET Entries, to : USNVectors, id : Ids \cup {NoId},
             more : BOOLEAN, utd : Vectors]
Requests == [vec : USNVectors, id : Ids \cup {NoId}, anc : BOOLEAN, full : BOOLEAN]
Cycles   == [pc : {"idle", "wait", "apply", "labort"}, src : Servers \cup {0},
             utd : Vectors, req : Requests, pkt : Replies, preemptable : BOOLEAN,
             packets : Nat]
Calls    == [st : {"none", "sent", "marked", "failed", "reply"}, req : Requests,
             from : USNVectors, usnLowestC : Nat, reply : Replies]
Images   == [db : Databases, backupUsn : Nat, usn : Nat]
Writes   == [obj : Objs, attr : Attrs, stamp : Stamps]
Counts   == [writes : Nat, syncs : Nat, aborts : Nat, crashes : Nat, expired : Nat, ids : Nat]

StoreType ==
  /\ live \in [Servers -> Databases]
  /\ disk \in [Servers -> Databases]
  /\ image \in [Servers -> Images \cup {NoImage}]
  /\ curId \in [Servers -> Ids]
  /\ usn \in [Servers -> Nat]
  /\ pending \in [Servers -> SUBSET Writes]
  /\ expired \subseteq Objs
  /\ \A s \in Servers : usn[s] >= 1 /\ \A w \in pending[s] : w.stamp.usn >= 1
  /\ \A s \in Servers : image[s] # NoImage => image[s].usn >= 1

CommType ==
  /\ cyc \in [Servers -> Cycles]
  /\ rpc \in [Servers -> Calls]
  /\ \A d \in Servers : cyc[d].pc # "idle" => cyc[d].src \in Servers
  /\ \A d \in Servers : cyc[d].pc \in {"idle", "labort"} => rpc[d].st = "none"
  /\ \A d \in Servers : rpc[d].st = "marked" => rpc[d].usnLowestC >= 1

CountType == count \in Counts /\ count.ids >= N /\ count.ids <= MaxIds

TypeInv == StoreType /\ CommType /\ CountType

-----------------------------------------------------------------------------
(* What every database and every packet looks like.                        *)

\* A stamp of a write.
Real(x) == x.id # NoId /\ x.ver >= 1 /\ x.ousn >= 1

\* An object that does not exist has no attributes, and its parent exists.
DbOK(D) ==
  /\ \A o \in Objs, a \in Attrs : D.db[o][a] = None \/ (Real(D.db[o][a]) /\ D.db[o][a].usn >= 1)
  /\ \A o \in Leaves : D.db[o]["rdn"] = None => D.db[o]["val"] = None
  /\ \A o \in Leaves : D.db[o]["rdn"] # None => Exists(D, ParentOf(o, D.db[o]["rdn"]))

ObjsOK(objs) == \A e \in objs : \A a \in DOMAIN e.md : Real(e.md[a])

\* Every leaf comes with what its creation needs.
Full(objs) == \A e \in objs : e.obj # NCHead => "rdn" \in DOMAIN e.md

\* A write that is open has locked its object.
WriteOK(D, w) ==
  /\ Real(w.stamp)
  /\ w.stamp.usn = w.stamp.ousn
  /\ w.stamp.ver = D.db[w.obj][w.attr].ver + 1
  /\ w.attr # "rdn" => Exists(D, w.obj)
  /\ w.attr = "rdn" => w.obj # NCHead /\ Exists(D, ParentOf(w.obj, w.stamp))

\* A call, and the packet at hand, belong to the cycle.
CallOK(c, r) ==
  /\ ObjsOK(c.pkt.objs) /\ ObjsOK(r.reply.objs)
  /\ c.pc = "apply" \/ c.pkt.objs = {}
  /\ r.st = "reply" \/ r.reply.objs = {}
  /\ c.pc = "wait" => r.st # "none" /\ r.req = c.req
  /\ c.pc = "apply" => ~r.req.full /\ ~r.req.anc
  /\ r.st = "marked" /\ r.req.full => r.from.prop = 0
  /\ r.st = "reply" /\ r.req.full => Full(r.reply.objs)
  /\ c.pc = "apply" /\ c.req.full => Full(c.pkt.objs)

DbsOK ==
  /\ \A s \in Servers : DbOK(live[s]) /\ DbOK(disk[s])
  /\ \A s \in Servers : image[s] # NoImage => DbOK(image[s].db)

OpenOK ==
  \A s \in Servers : \A w \in pending[s] :
    /\ WriteOK(live[s], w)
    /\ \A v \in pending[s] : v.obj = w.obj => v = w

CommOK == \A d \in Servers : CallOK(cyc[d], rpc[d])

ShapeInv == DbsOK /\ OpenOK /\ CommOK

-----------------------------------------------------------------------------
(* What is had, what is skipped and what is claimed.                       *)

\* D has this stamp or a later one, or one of the objects under way brings it.
Covers(D, objs, o, a, x) ==
  \/ ~Newer(x, D.db[o][a])
  \/ \E e \in objs : e.obj = o /\ a \in DOMAIN e.md /\ ~Newer(x, e.md[a])

\* The objects in packets, and the USNs that are yet to appear in a database.
Packets == UNION {cyc[d].pkt.objs \cup rpc[d].reply.objs : d \in Servers}
Free(s) == {usn[s]} \cup {w.stamp.usn : w \in pending[s]}

\* The part of the state that vectors and watermarks are about.
World == [live |-> live, disk |-> disk, cur |-> curId, kept |-> Objs \ expired,
          packets |-> Packets, free |-> [s \in Servers |-> Free(s)],
          open |-> [s \in Servers |-> {w.stamp : w \in pending[s]}], ids |-> count.ids]

\* The two states of the database of s that may be seen later, and the
\* invocation ids s may use later.
Dbs(W, s)  == {W.live[s], W.disk[s]}
Mine(W, s) == {W.cur[s], W.live[s].id}

\* The stamps of an attribute that are somewhere, and those outside server s.
InPackets(W, o, a)    == {e.md[a] : e \in {e \in W.packets : e.obj = o /\ a \in DOMAIN e.md}}
Outside(W, s, o, a) == InPackets(W, o, a)
  \cup {E.db[o][a] : E \in UNION {Dbs(W, t) : t \in Servers \ {s}}}
Held(W, o, a) == InPackets(W, o, a) \cup {E.db[o][a] : E \in UNION {Dbs(W, t) : t \in Servers}}

\* All that s does later gets a higher USN.
Below(W, s, n) == \A u \in W.free[s] : n < u

\* A watermark for source s: what it skips is had.
MarkOK(W, s, vec, D, objs) ==
  /\ Below(W, s, vec.obj) /\ Below(W, s, vec.prop)
  /\ \A E \in Dbs(W, s), o \in W.kept, a \in Attrs :
       E.db[o][a].usn <= vec.prop \/ usnChanged(E, o) <= vec.obj
         => Covers(D, objs, o, a, E.db[o][a])

\* The vector claims what s did at its USN n.
Reaches(W, s, V, n) ==
  \E i \in Ids : n <= V[i] /\ (i \in Mine(W, s) \/ n <= W.live[s].retired[i])

\* A vector claims nothing that is yet to be written, ...
VecBelow(W, V) ==
  /\ \A s \in Servers : \A i \in Mine(W, s) : Below(W, s, V[i])
  /\ \A s \in Servers : \A x \in W.open[s] : V[x.id] < x.ousn
  /\ \A i \in Ids : i > W.ids => V[i] = 0

\* ... and what it claims is had: the writes it covers, and for a server whose id
\* it has a cursor for everything that server held at USNs up to the cursor.
ClaimOK(W, V, D, objs) ==
  /\ VecBelow(W, V)
  /\ \A o \in W.kept, a \in Attrs : \A x \in Held(W, o, a) :
       x.id # NoId /\ x.ousn <= V[x.id] => Covers(D, objs, o, a, x)
  /\ \A s \in Servers : \A E \in Dbs(W, s), o \in W.kept, a \in Attrs :
       Reaches(W, s, V, E.db[o][a].usn) => Covers(D, objs, o, a, E.db[o][a])

-----------------------------------------------------------------------------
(* The inductive invariant of NothingLost.                                 *)

\* Invocation ids belong to one server.
IdsOK(W) ==
  /\ \A s \in Servers : /\ W.live[s].id = W.disk[s].id
                        /\ W.live[s].retired = W.disk[s].retired
                        /\ \A i \in Mine(W, s) : i <= W.ids
                        /\ \A x \in W.open[s] : x.id <= W.ids
                        /\ \A i \in Ids : /\ i > W.ids => W.live[s].retired[i] = 0
                                          /\ Below(W, s, W.live[s].retired[i])
  /\ \A o \in W.kept, a \in Attrs : \A x \in Held(W, o, a) : x.id <= W.ids
  /\ \A s, t \in Servers : s # t =>
       /\ Mine(W, s) \cap Mine(W, t) = {}
       /\ \A i \in Mine(W, s) : W.live[t].retired[i] = 0
       /\ \A x \in W.open[s] : x.id \notin Mine(W, t)

\* What is on disk is had in memory, and the writes of a server that others know
\* of are on its disk.
WorldOK(W) ==
  /\ IdsOK(W)
  /\ \A s \in Servers, o \in W.kept, a \in Attrs :
       /\ Covers(W.live[s], {}, o, a, W.disk[s].db[o][a])
       /\ \A x \in Outside(W, s, o, a) : x.id \in Mine(W, s) => Covers(W.disk[s], {}, o, a, x)

\* The stored vector and the stored watermarks.
StoreOK(W, D) ==
  /\ ClaimOK(W, D.utd, D, {})
  /\ \A s \in Servers : MarkOK(W, s, D.reps[s].vec, D, {})

\* A cycle, the packet at hand and the one asked for ahead of time.
CycleOK(W, D, c, r) ==
  LET P == c.pkt.objs
      R == P \cup r.reply.objs
  IN  /\ c.pc # "idle" => ClaimOK(W, c.utd, D, {}) /\ MarkOK(W, c.src, c.req.vec, D, {})
      /\ c.pc = "apply" => ClaimOK(W, c.pkt.utd, D, P) /\ MarkOK(W, c.src, c.pkt.to, D, P)
      /\ r.st # "none" => MarkOK(W, c.src, r.req.vec, D, P)
      /\ r.st = "marked" => MarkOK(W, c.src, r.from, D, P) /\ Below(W, c.src, r.usnLowestC - 1)
      /\ r.st = "reply" => ClaimOK(W, r.reply.utd, D, R) /\ MarkOK(W, c.src, r.reply.to, D, R)

LossInv ==
  /\ WorldOK(World)
  /\ \A s \in Servers : StoreOK(World, live[s]) /\ StoreOK(World, disk[s])
  /\ \A d \in Servers : CycleOK(World, live[d], cyc[d], rpc[d])


-----------------------------------------------------------------------------
(* Numbers.                                                                *)

\* A nonempty set of naturals has a least element.
LEMMA MinOK ==
  ASSUME NEW S, S \subseteq Nat, S # {}
  PROVE  Min(S) \in S /\ \A y \in S : Min(S) <= y
<1> DEFINE R == {ss \in Nat \X Nat : ss[1] < ss[2]}
<1>1. IsWellFoundedOn(R, Nat)
  BY NatLessThanWellFounded DEF OpToRel
<1>2. PICK x \in S : \A y \in S : ~(<<y, x>> \in R)
  <2> HIDE DEF R
  <2> QED BY <1>1, WFMin
<1>3. \A y \in S : x <= y
  <2> TAKE y \in S
  <2>1. ~(<<y, x>> \in R)
    BY <1>2
  <2>2. x \in Nat /\ y \in Nat
    OBVIOUS
  <2> QED BY <2>1, <2>2
<1> QED BY <1>3 DEF Min

\* A nonempty bounded one has a greatest element.
LEMMA MaxOK ==
  ASSUME NEW S, S \subseteq Nat, S # {}, NEW n \in Nat, \A y \in S : y <= n
  PROVE  Max(S) \in S /\ \A y \in S : y <= Max(S)
<1> DEFINE T == {m \in Nat : \A y \in S : y <= m}
           m == Min(T)
<1>1. n \in T
  OBVIOUS
<1>2. m \in T /\ \A k \in T : m <= k
  <2>1. T \subseteq Nat /\ T # {}
    BY <1>1
  <2> HIDE DEF T
  <2> QED BY <2>1, MinOK
<1>3. m \in Nat /\ \A y \in S : y <= m
  BY <1>2
<1> HIDE DEF m
<1>4. m \in S
  <2> SUFFICES ASSUME m \notin S PROVE FALSE
    OBVIOUS
  <2>1. \A y \in S : y \in Nat /\ y <= m /\ y # m
    BY <1>3
  <2>2. PICK y \in S : TRUE
    OBVIOUS
  <2>3. m - 1 \in Nat /\ \A z \in S : z <= m - 1
    BY <2>1, <2>2, <1>3
  <2>4. m - 1 \in T
    BY <2>3
  <2> QED BY <2>4, <1>2, <1>3
<1>5. \E x \in S : \A y \in S : x >= y
  BY <1>3, <1>4
<1>6. Max(S) \in S /\ \A y \in S : Max(S) >= y
  BY <1>5 DEF Max
<1> QED BY <1>6

LEMMA Min2 ==
  ASSUME NEW a \in Nat, NEW b \in Nat
  PROVE  Min({a, b}) \in Nat /\ Min({a, b}) = IF a <= b THEN a ELSE b
<1>1. Min({a, b}) \in {a, b} /\ \A y \in {a, b} : Min({a, b}) <= y
  <2>1. {a, b} \subseteq Nat /\ {a, b} # {}
    OBVIOUS
  <2> QED BY <2>1, MinOK
<1> QED BY <1>1

LEMMA Max2 ==
  ASSUME NEW a \in Nat, NEW b \in Nat
  PROVE  Max({a, b}) \in Nat /\ Max({a, b}) = IF a <= b THEN b ELSE a
<1>1. Max({a, b}) \in {a, b} /\ \A y \in {a, b} : y <= Max({a, b})
  <2>1. {a, b} \subseteq Nat /\ {a, b} # {} /\ a + b \in Nat /\ \A y \in {a, b} : y <= a + b
    OBVIOUS
  <2> HIDE DEF Max
  <2> QED BY <2>1, MaxOK
<1> QED BY <1>1

\* Finitely many naturals have a bound.
LEMMA Bounded ==
  ASSUME NEW n \in Nat, NEW f \in [1 .. n -> Nat]
  PROVE  \E b \in Nat : \A i \in 1 .. n : f[i] <= b
<1> DEFINE Good(m) == \E b \in Nat : \A i \in 1 .. n : i <= m => f[i] <= b
           Bad == {m \in Nat : ~Good(m)}
<1>1. \A i \in 1 .. n : i \in Nat /\ i >= 1 /\ i <= n /\ f[i] \in Nat
  OBVIOUS
<1>2. Good(0)
  <2>1. \A i \in 1 .. n : i <= 0 => f[i] <= 0
    BY <1>1
  <2> QED BY <2>1
<1>3. ASSUME NEW m \in Nat, Good(m)
      PROVE  Good(m + 1)
  <2>1. PICK b \in Nat : \A i \in 1 .. n : i <= m => f[i] <= b
    BY <1>3
  <2>2. CASE m + 1 \in 1 .. n
    <3>1. f[m + 1] \in Nat
      BY <2>2, <1>1
    <3>2. b + f[m + 1] \in Nat
      BY <3>1
    <3>3. ASSUME NEW i \in 1 .. n, i <= m + 1
          PROVE  f[i] <= b + f[m + 1]
      <4>1. CASE i = m + 1
        BY <4>1, <3>1
      <4>2. CASE i <= m
        <5>1. f[i] <= b /\ f[i] \in Nat
          BY <4>2, <2>1, <1>1
        <5> QED BY <5>1, <3>1
      <4>3. i \in Nat
        BY <1>1
      <4> QED BY <4>1, <4>2, <4>3, <3>3
    <3> QED BY <3>2, <3>3
  <2>3. CASE m + 1 \notin 1 .. n
    <3>1. \A i \in 1 .. n : i <= m + 1 => i <= m
      BY <2>3, <1>1
    <3> QED BY <3>1, <2>1
  <2> QED BY <2>2, <2>3
<1>4. Bad = {}
  <2> SUFFICES ASSUME Bad # {} PROVE FALSE
    OBVIOUS
  <2>1. PICK m \in Bad : \A k \in Bad : m <= k
    <3>1. Bad \subseteq Nat
      OBVIOUS
    <3> HIDE DEF Bad
    <3> QED BY <3>1, MinOK
  <2> HIDE DEF Good
  <2>2. m \in Nat /\ ~Good(m) /\ m # 0
    BY <2>1, <1>2
  <2>3. m - 1 \in Nat /\ ~(m <= m - 1) /\ (m - 1) + 1 = m
    BY <2>2
  <2>4. Good(m - 1)
    BY <2>1, <2>3
  <2> QED BY <2>2, <2>3, <2>4, <1>3
<1>5. Good(n)
  <2> HIDE DEF Good
  <2> QED BY <1>4
<1> QED BY <1>5, <1>1

-----------------------------------------------------------------------------
(* The fields of what is stored and sent.                                  *)

LEMMA NoneType == None \in Stamps
BY ServersAssumption DEF None, Stamps, NoId, Ids

LEMMA StampFields ==
  ASSUME NEW x \in Stamps
  PROVE  /\ x.ver \in Nat /\ x.id \in Ids \cup {NoId} /\ x.ousn \in Nat /\ x.usn \in Nat
         /\ x.lf \in BOOLEAN /\ x.id \in Nat
BY ServersAssumption DEF Stamps, Ids, NoId

LEMMA DbFields ==
  ASSUME NEW D \in Databases
  PROVE  /\ D.db \in [Objs -> [Attrs -> Stamps]] /\ D.utd \in Vectors
         /\ D.reps \in [Servers -> [id : Ids \cup {NoId}, vec : USNVectors]]
         /\ D.id \in Ids /\ D.retired \in Vectors
BY DEF Databases

LEMMA StampOf ==
  ASSUME NEW D \in Databases, NEW o \in Objs, NEW a \in Attrs
  PROVE  D.db[o][a] \in Stamps
BY DbFields

LEMMA VectorAt ==
  ASSUME NEW V \in Vectors, NEW i \in Ids
  PROVE  V[i] \in Nat
BY DEF Vectors

LEMMA USNVectorFields ==
  ASSUME NEW v \in USNVectors
  PROVE  v.obj \in Nat /\ v.prop \in Nat
BY DEF USNVectors

LEMMA usnChangedOK ==
  ASSUME NEW D \in Databases, NEW o \in Objs
  PROVE  /\ usnChanged(D, o) \in Nat
         /\ \A a \in Attrs : D.db[o][a].usn <= usnChanged(D, o)
         /\ \E a \in Attrs : D.db[o][a].usn = usnChanged(D, o)
<1> DEFINE S == {D.db[o][a].usn : a \in Attrs}
<1>1. \A a \in Attrs : D.db[o][a].usn \in Nat
  BY StampOf, StampFields
<1>2. S = {D.db[o]["rdn"].usn, D.db[o]["val"].usn}
  BY DEF Attrs
<1>3. Max(S) \in Nat /\ Max(S) \in S /\ \A y \in S : y <= Max(S)
  <2>1. D.db[o]["rdn"].usn \in Nat /\ D.db[o]["val"].usn \in Nat
    BY <1>1 DEF Attrs
  <2> HIDE DEF S
  <2>2. S \subseteq Nat /\ S # {} /\ D.db[o]["rdn"].usn + D.db[o]["val"].usn \in Nat
        /\ \A y \in S : y <= D.db[o]["rdn"].usn + D.db[o]["val"].usn
    BY <2>1, <1>2
  <2> QED BY <2>2, MaxOK
<1> QED BY <1>3 DEF usnChanged

-----------------------------------------------------------------------------
(* What the source computes.                                               *)

LEMMA FreeType ==
  ASSUME TypeInv, NEW s \in Servers
  PROVE  Free(s) \subseteq Nat /\ Free(s) # {} /\ \A u \in Free(s) : u >= 1
<1>1. usn[s] \in Nat /\ usn[s] >= 1
  BY DEF TypeInv, StoreType, CommType
<1>2. \A w \in pending[s] : w.stamp.usn \in Nat /\ w.stamp.usn >= 1
  <2> TAKE w \in pending[s]
  <2>1. w \in Writes /\ w.stamp.usn >= 1
    BY DEF TypeInv, StoreType, CommType
  <2>2. w.stamp \in Stamps
    BY <2>1 DEF Writes
  <2> QED BY <2>1, <2>2, StampFields
<1> QED BY <1>1, <1>2 DEF Free

LEMMA HighestCommittedOK ==
  ASSUME TypeInv, NEW s \in Servers
  PROVE  /\ DBGetHighestCommittedUSN(s) \in Nat
         /\ \A u \in Free(s) : DBGetHighestCommittedUSN(s) < u
         /\ 1 + DBGetHighestCommittedUSN(s) \in Free(s)
<1>1. Min(Free(s)) \in Free(s) /\ \A u \in Free(s) : Min(Free(s)) <= u
  BY FreeType, MinOK
<1>2. DBGetHighestCommittedUSN(s) = Min(Free(s)) - 1
  BY DEF DBGetHighestCommittedUSN, Free
<1> HIDE DEF DBGetHighestCommittedUSN, Free
<1>3. Min(Free(s)) \in Nat /\ Min(Free(s)) >= 1
  BY <1>1, FreeType
<1>4. 1 + DBGetHighestCommittedUSN(s) = Min(Free(s))
  BY <1>2, <1>3
<1>5. \A u \in Free(s) : u \in Nat
  BY FreeType
<1> QED BY <1>1, <1>2, <1>3, <1>4, <1>5

LEMMA RaiseOK ==
  ASSUME NEW vec \in USNVectors, NEW n \in Nat
  PROVE  /\ Raise(vec, n) \in USNVectors
         /\ Raise(vec, n).prop = (IF vec.prop <= n THEN n ELSE vec.prop)
         /\ Raise(vec, n).obj \in {vec.obj, n}
<1>1. vec.obj \in Nat /\ vec.prop \in Nat
  BY USNVectorFields
<1>2. Max({vec.prop, n}) \in Nat /\ Max({vec.prop, n}) = IF vec.prop <= n THEN n ELSE vec.prop
  BY <1>1, Max2
<1> HIDE DEF Max
<1> QED BY <1>1, <1>2 DEF Raise, USNVectors

\* The watermark that the source works with is the one presented or a lower one,
\* raised to the cursor of the own id and to the cursor of a retired one.
LEMMA ImproveIs ==
  ASSUME TypeInv, NEW s \in Servers, NEW utd \in Vectors, NEW id \in Ids \cup {NoId},
         NEW vec \in USNVectors
  PROVE  \E rolled \in USNVectors, i \in Ids, m \in Nat :
           /\ rolled.obj <= vec.obj /\ rolled.prop <= vec.prop
           /\ id \in {curId[s], NoId} => rolled = vec
           /\ m <= utd[i] /\ m <= live[s].retired[i]
           /\ DraImproveCallersUsnVector(s, utd, id, vec) = Raise(Raise(rolled, utd[curId[s]]), m)
<1> DEFINE ret    == live[s].retired
           rolled == IF id \in {curId[s], NoId} \/ vec = Scratch THEN vec
                     ELSE IF ret[id] = 0 THEN Scratch
                     ELSE [obj  |-> Min({vec.obj, ret[id]}), prop |-> Min({vec.prop, ret[id]})]
           low    == [i \in Ids |-> Min({ret[i], utd[i]})]
           common == {Min({ret[i], utd[i]}) : i \in Ids}
<1>1. live[s] \in Databases /\ curId[s] \in Ids
  BY DEF TypeInv, StoreType, CommType
<1>2. ret \in Vectors
  BY <1>1, DbFields
<1>3. vec.obj \in Nat /\ vec.prop \in Nat
  BY USNVectorFields
<1>4. rolled \in USNVectors /\ rolled.obj <= vec.obj /\ rolled.prop <= vec.prop
  <2>1. CASE id \in {curId[s], NoId} \/ vec = Scratch
    BY <2>1, <1>3
  <2>2. CASE ~(id \in {curId[s], NoId} \/ vec = Scratch) /\ ret[id] = 0
    BY <2>2, <1>3 DEF Scratch, USNVectors
  <2>3. CASE ~(id \in {curId[s], NoId} \/ vec = Scratch) /\ ret[id] # 0
    <3>1. ret[id] \in Nat
      BY <2>3, <1>2, VectorAt
    <3> DEFINE a == Min({vec.obj, ret[id]})
               b == Min({vec.prop, ret[id]})
    <3>2. a \in Nat /\ a <= vec.obj
      BY <3>1, <1>3, Min2
    <3>3. b \in Nat /\ b <= vec.prop
      BY <3>1, <1>3, Min2
    <3>4. rolled = [obj |-> a, prop |-> b]
      BY <2>3
    <3> HIDE DEF a, b, rolled
    <3> QED BY <3>2, <3>3, <3>4 DEF USNVectors
  <2> QED BY <2>1, <2>2, <2>3
<1>5. \A i \in Ids : low[i] \in Nat /\ low[i] <= ret[i] /\ low[i] <= utd[i]
  <2> TAKE i \in Ids
  <2>1. ret[i] \in Nat /\ utd[i] \in Nat
    BY <1>2, VectorAt
  <2> QED BY <2>1, Min2
<1>6. PICK b \in Nat : \A i \in Ids : low[i] <= b
  <2>1. low \in [1 .. MaxIds -> Nat] /\ MaxIds \in Nat
    BY <1>5, ServersAssumption DEF Ids
  <2> HIDE DEF low
  <2> QED BY <2>1, Bounded DEF Ids
<1>7. common = {low[i] : i \in Ids}
  OBVIOUS
<1>8. Max(common) \in common
  <2>1. common \subseteq Nat /\ common # {} /\ \A y \in common : y <= b
    BY <1>5, <1>6, <1>7, <1>1
  <2> HIDE DEF common
  <2> QED BY <2>1, MaxOK
<1>9. PICK i \in Ids : Max(common) = low[i]
  BY <1>7, <1>8
<1>10. DraImproveCallersUsnVector(s, utd, id, vec) = Raise(Raise(rolled, utd[curId[s]]), Max(common))
  BY DEF DraImproveCallersUsnVector
<1>11. id \in {curId[s], NoId} => rolled = vec
  OBVIOUS
<1> HIDE DEF rolled, common, low
<1>12. low[i] \in Nat /\ low[i] <= utd[i] /\ low[i] <= live[s].retired[i]
  BY <1>5
<1>13. DraImproveCallersUsnVector(s, utd, id, vec) = Raise(Raise(rolled, utd[curId[s]]), low[i])
  BY <1>9, <1>10
<1> QED BY <1>4, <1>11, <1>12, <1>13

LEMMA RequestedFromType ==
  ASSUME TypeInv, NEW s \in Servers, NEW utd \in Vectors, NEW req \in Requests
  PROVE  RequestedFrom(s, utd, req) \in USNVectors
<1>1. req.vec \in USNVectors /\ req.id \in Ids \cup {NoId} /\ req.full \in BOOLEAN
  BY DEF Requests
<1>2. [req.vec EXCEPT !.prop = 0] \in USNVectors
  BY <1>1 DEF USNVectors
<1>3. DraImproveCallersUsnVector(s, utd, req.id, req.vec) \in USNVectors
  <2> DEFINE id  == req.id
             vec == req.vec
  <2>0. id \in Ids \cup {NoId} /\ vec \in USNVectors
    BY <1>1
  <2>1. PICK rolled \in USNVectors, i \in Ids, m \in Nat :
           DraImproveCallersUsnVector(s, utd, id, vec) = Raise(Raise(rolled, utd[curId[s]]), m)
    <3> HIDE DEF id, vec
    <3> QED BY <2>0, ImproveIs
  <2>2. utd[curId[s]] \in Nat
    BY VectorAt DEF TypeInv, StoreType, CommType
  <2>3. Raise(rolled, utd[curId[s]]) \in USNVectors
    BY <2>2, RaiseOK
  <2> QED BY <2>1, <2>3, RaiseOK
<1> QED BY <1>2, <1>3 DEF RequestedFrom

LEMMA WatermarkOK ==
  ASSUME NEW D \in Databases, NEW visited, visited \subseteq Objs, NEW from \in USNVectors,
         NEW u \in Nat
  PROVE  /\ WatermarkAfter(D, visited, from, u) \in Nat
         /\ from.obj <= WatermarkAfter(D, visited, from, u)
         /\ \/ WatermarkAfter(D, visited, from, u) = from.obj
            \/ /\ WatermarkAfter(D, visited, from, u) < u
               /\ \E o \in visited \ {NCHead} : usnChanged(D, o) = WatermarkAfter(D, visited, from, u)
<1> DEFINE S == {from.obj} \cup {n \in {usnChanged(D, o) : o \in visited \ {NCHead}} : n < u}
<1>1. from.obj \in Nat
  BY USNVectorFields
<1>2. \A o \in visited : usnChanged(D, o) \in Nat
  BY usnChangedOK
<1>3. S \subseteq Nat /\ S # {} /\ from.obj + u \in Nat /\ \A y \in S : y <= from.obj + u
  <2>1. ASSUME NEW y \in S
        PROVE  y \in Nat /\ (y = from.obj \/ y < u)
    BY <1>1, <1>2
  <2>2. S # {}
    OBVIOUS
  <2> HIDE DEF S
  <2> QED BY <2>1, <2>2, <1>1
<1>4. Max(S) \in S /\ \A y \in S : y <= Max(S)
  <2> HIDE DEF S
  <2> QED BY <1>3, MaxOK
<1>5. WatermarkAfter(D, visited, from, u) = Max(S)
  BY DEF WatermarkAfter
<1> HIDE DEF WatermarkAfter, Max
<1> QED BY <1>1, <1>2, <1>4, <1>5

LEMMA ShipsType ==
  ASSUME NEW D, NEW o, NEW n, NEW V
  PROVE  ReplFilterPropsToShip(D, o, n, V) \subseteq Attrs
BY DEF ReplFilterPropsToShip

LEMMA AncestorsOfType ==
  ASSUME NEW o \in Objs, NEW rdn
  PROVE  AncestorsOf(o, rdn) \in Seq(Leaves)
BY AncestorsAssumption DEF AncestorsOf, Objs

LEMMA WithAncestorsOK ==
  ASSUME NEW D, NEW visited, visited \subseteq Objs, NEW anc \in BOOLEAN
  PROVE  /\ WithAncestors(D, visited, anc) \subseteq Objs
         /\ visited \subseteq WithAncestors(D, visited, anc)
         /\ \A o : o \in WithAncestors(D, visited, anc) <=>
                     \E v \in visited : o \in WithAncestors(D, {v}, anc)
<1>1. ASSUME NEW v \in Objs
      PROVE  ToSet(AncestorsOf(v, D.db[v]["rdn"])) \subseteq Objs
  <2>1. AncestorsOf(v, D.db[v]["rdn"]) \in Seq(Leaves)
    BY AncestorsOfType
  <2> HIDE DEF AncestorsOf
  <2> QED BY <2>1 DEF ToSet, Objs
<1> HIDE DEF ToSet, AncestorsOf
<1>2. ASSUME anc = TRUE
      PROVE  \A S : WithAncestors(D, S, anc) = S \cup UNION {ToSet(AncestorsOf(o, D.db[o]["rdn"])) : o \in S}
  BY <1>2 DEF WithAncestors
<1>3. ASSUME anc = FALSE
      PROVE  \A S : WithAncestors(D, S, anc) = S
  BY <1>3 DEF WithAncestors
<1> HIDE DEF WithAncestors
<1>4. CASE anc = TRUE
  <2> DEFINE A(v) == ToSet(AncestorsOf(v, D.db[v]["rdn"]))
  <2>1. \A S : WithAncestors(D, S, anc) = S \cup UNION {A(o) : o \in S}
    BY <1>2, <1>4
  <2>2. \A v \in Objs : A(v) \subseteq Objs
    BY <1>1
  <2> HIDE DEF A
  <2>3. \A v : \A o : o \in WithAncestors(D, {v}, anc) <=> o = v \/ o \in A(v)
    BY <2>1
  <2>4. \A o : o \in WithAncestors(D, visited, anc) <=> o \in visited \/ \E v \in visited : o \in A(v)
    BY <2>1
  <2>5. WithAncestors(D, visited, anc) \subseteq Objs
    BY <2>2, <2>4
  <2> QED BY <2>3, <2>4, <2>5, Zenon
<1>5. CASE anc = FALSE
  <2> DEFINE Put(S) == WithAncestors(D, S, anc)
  <2>1. \A S : Put(S) = S
    BY <1>3, <1>5
  <2> HIDE DEF Put
  <2>2. /\ Put(visited) \subseteq Objs /\ visited \subseteq Put(visited)
        /\ \A o : o \in Put(visited) <=> \E v \in visited : o \in Put({v})
    <3>1. \A v : Put({v}) = {v}
      BY <2>1
    <3>2. \A v, o : o \in Put({v}) <=> o = v
      BY <3>1
    <3>3. Put(visited) = visited
      BY <2>1
    <3> QED BY <3>2, <3>3, Zenon
  <2> QED BY <2>2 DEF Put
<1> QED BY <1>4, <1>5

LEMMA PlaceOK ==
  ASSUME NEW D \in Databases, NEW visited, visited \subseteq Objs, NEW anc \in BOOLEAN,
         NEW o \in WithAncestors(D, visited, anc)
  PROVE  /\ Place(D, visited, anc, o) \in [with : Nat, depth : Nat]
         /\ \A v \in visited : o \in WithAncestors(D, {v}, anc) =>
              Place(D, visited, anc, o).with <= IF v = NCHead THEN 0 ELSE usnChanged(D, v)
         /\ \E v \in visited : /\ o \in WithAncestors(D, {v}, anc)
                               /\ Place(D, visited, anc, o).with = IF v = NCHead THEN 0 ELSE usnChanged(D, v)
<1> DEFINE At(v) == IF v = NCHead THEN 0 ELSE usnChanged(D, v)
           by == {v \in visited : o \in WithAncestors(D, {v}, anc)}
           S  == {At(v) : v \in by}
           depth == IF o = NCHead THEN 0 ELSE Len(Ancestors[o]) + 1
<1>1. \A v \in visited : At(v) \in Nat
  BY usnChangedOK
<1>2. by # {}
  <2>0. \A p : p \in WithAncestors(D, visited, anc) <=> \E v \in visited : p \in WithAncestors(D, {v}, anc)
    BY WithAncestorsOK, ZenonT(40)
  <2>1. \E v \in visited : o \in WithAncestors(D, {v}, anc)
    BY <2>0, Zenon
  <2> QED BY <2>1
<1>3. o \in Objs
  BY WithAncestorsOK
<1>4. depth \in Nat
  BY <1>3, AncestorsAssumption DEF Objs
<1>5. Place(D, visited, anc, o) = [with |-> Min(S), depth |-> depth]
  BY DEF Place
<1>6. Min(S) \in S /\ \A y \in S : Min(S) <= y
  <2>1. S \subseteq Nat /\ S # {}
    BY <1>1, <1>2
  <2> HIDE DEF S
  <2> QED BY <2>1, MinOK
<1> HIDE DEF Place, Min, depth, At
<1>7. Min(S) \in Nat
  BY <1>6, <1>1
<1>8. PICK v \in by : Min(S) = At(v)
  BY <1>6
<1>9. \A v2 \in by : Min(S) <= At(v2)
  BY <1>6
<1> HIDE DEF S
<1>10. Place(D, visited, anc, o).with = Min(S) /\ Place(D, visited, anc, o) \in [with : Nat, depth : Nat]
  BY <1>4, <1>5, <1>7
<1>11. \A v2 \in visited : o \in WithAncestors(D, {v2}, anc) => Place(D, visited, anc, o).with <= At(v2)
  BY <1>9, <1>10
<1>12. v \in visited /\ o \in WithAncestors(D, {v}, anc) /\ Place(D, visited, anc, o).with = At(v)
  BY <1>8, <1>10
<1> USE DEF At
<1> QED BY <1>10, <1>11, <1>12, Zenon

-----------------------------------------------------------------------------
(* Type correctness.                                                       *)

LEMMA EntryFields ==
  ASSUME NEW e \in Entries
  PROVE  /\ e.obj \in Objs /\ e.place \in [with : Nat, depth : Nat]
         /\ DOMAIN e.md \subseteq Attrs /\ \A a \in DOMAIN e.md : e.md[a] \in Stamps
<1>1. e.obj \in Objs /\ e.place \in [with : Nat, depth : Nat]
  BY DEF Entries
<1>2. e.md \in UNION {[S -> Stamps] : S \in SUBSET Attrs}
  BY DEF Entries
<1>3. PICK S \in SUBSET Attrs : e.md \in [S -> Stamps]
  BY <1>2
<1> QED BY <1>1, <1>3

LEMMA IsEntry ==
  ASSUME NEW o \in Objs, NEW p \in [with : Nat, depth : Nat], NEW S \in SUBSET Attrs,
         NEW md \in [S -> Stamps]
  PROVE  [obj |-> o, place |-> p, md |-> md] \in Entries
<1>1. md \in UNION {[T -> Stamps] : T \in SUBSET Attrs}
  OBVIOUS
<1> QED BY <1>1 DEF Entries

LEMMA ReplyFields ==
  ASSUME NEW r \in Replies
  PROVE  /\ r.objs \subseteq Entries /\ r.to \in USNVectors /\ r.id \in Ids \cup {NoId}
         /\ r.more \in BOOLEAN /\ r.utd \in Vectors
BY DEF Replies

LEMMA RequestFields ==
  ASSUME NEW q \in Requests
  PROVE  /\ q.vec \in USNVectors /\ q.id \in Ids \cup {NoId} /\ q.anc \in BOOLEAN
         /\ q.full \in BOOLEAN
BY DEF Requests

LEMMA CycleFields ==
  ASSUME NEW c \in Cycles
  PROVE  /\ c.pc \in {"idle", "wait", "apply", "labort"} /\ c.src \in Servers \cup {0}
         /\ c.utd \in Vectors /\ c.req \in Requests /\ c.pkt \in Replies
         /\ c.preemptable \in BOOLEAN /\ c.packets \in Nat
BY DEF Cycles

LEMMA CallFields ==
  ASSUME NEW r \in Calls
  PROVE  /\ r.st \in {"none", "sent", "marked", "failed", "reply"} /\ r.req \in Requests
         /\ r.from \in USNVectors /\ r.usnLowestC \in Nat /\ r.reply \in Replies
BY DEF Calls

LEMMA Constants ==
  /\ Scratch \in USNVectors /\ NoVec \in Vectors /\ NoReply \in Replies
  /\ NoRequest \in Requests /\ Idle \in Cycles /\ NoCall \in Calls
<1>1. Scratch \in USNVectors /\ NoVec \in Vectors
  BY DEF Scratch, USNVectors, NoVec, Vectors
<1>2. NoReply \in Replies
  BY <1>1 DEF NoReply, Replies
<1>3. NoRequest \in Requests
  BY <1>1 DEF NoRequest, Request, Requests
<1>4. Idle \in Cycles
  BY <1>1, <1>2, <1>3 DEF Idle, Cycles
<1>5. NoCall \in Calls
  BY <1>1, <1>2, <1>3 DEF NoCall, Calls
<1> QED BY <1>1, <1>2, <1>3, <1>4, <1>5

LEMMA SentType ==
  ASSUME NEW q \in Requests
  PROVE  Sent(q) \in Calls /\ Sent(q).st = "sent" /\ Sent(q).req = q /\ Sent(q).reply = NoReply
BY Constants DEF Sent, NoCall, Calls

LEMMA RequestType ==
  ASSUME NEW v \in USNVectors, NEW i \in Ids \cup {NoId}, NEW b \in BOOLEAN, NEW f \in BOOLEAN
  PROVE  /\ Request(v, i, b, f) \in Requests /\ Request(v, i, b, f).vec = v
         /\ Request(v, i, b, f).anc = b /\ Request(v, i, b, f).full = f
BY DEF Request, Requests

\* What the source needs of a destination to answer it.
LEMMA CallTypes ==
  ASSUME TypeInv, NEW d \in Servers, rpc[d].st # "none"
  PROVE  /\ cyc[d] \in Cycles /\ rpc[d] \in Calls /\ cyc[d].src \in Servers
         /\ live[cyc[d].src] \in Databases /\ curId[cyc[d].src] \in Ids
BY DEF TypeInv, StoreType, CommType

LEMMA UpToDateVecReadOK ==
  ASSUME TypeInv, NEW s \in Servers, NEW n \in Nat
  PROVE  /\ UpToDateVec_Read(s, n) \in Vectors
         /\ \A i \in Ids : UpToDateVec_Read(s, n)[i] = IF i = curId[s] THEN n ELSE live[s].utd[i]
<1>1. live[s].utd \in Vectors /\ curId[s] \in Ids
  BY DbFields DEF TypeInv, StoreType, CommType
<1> QED BY <1>1 DEF UpToDateVec_Read, Vectors

LEMMA ReplyObjs ==
  ASSUME NEW D \in Databases, NEW visited, visited \subseteq Objs, NEW anc \in BOOLEAN,
         NEW prop, NEW V, NEW e,
         e \in {[obj |-> o, place |-> Place(D, visited, anc, o),
                 md  |-> [a \in ReplFilterPropsToShip(D, o, prop, V) |-> [D.db[o][a] EXCEPT !.usn = 0]]] :
                   o \in {o \in WithAncestors(D, visited, anc) : ReplFilterPropsToShip(D, o, prop, V) # {}}}
  PROVE  /\ e \in Entries
         /\ DOMAIN e.md = ReplFilterPropsToShip(D, e.obj, prop, V)
         /\ DOMAIN e.md # {}
         /\ e.obj \in WithAncestors(D, visited, anc)
         /\ e.place = Place(D, visited, anc, e.obj)
         /\ \A a \in DOMAIN e.md : e.md[a] = [D.db[e.obj][a] EXCEPT !.usn = 0]
<1> DEFINE Ships(o) == ReplFilterPropsToShip(D, o, prop, V)
           Md(o) == [a \in Ships(o) |-> [D.db[o][a] EXCEPT !.usn = 0]]
           Pl(o) == Place(D, visited, anc, o)
<1>1. PICK o \in WithAncestors(D, visited, anc) :
        Ships(o) # {} /\ e = [obj |-> o, place |-> Pl(o), md |-> Md(o)]
  OBVIOUS
<1>2. o \in Objs
  BY WithAncestorsOK, Zenon
<1>3. Pl(o) \in [with : Nat, depth : Nat]
  BY PlaceOK
<1>4. Ships(o) \in SUBSET Attrs
  BY ShipsType, Zenon
<1>5. Md(o) \in [Ships(o) -> Stamps]
  <2> SUFFICES ASSUME NEW a \in Ships(o)
               PROVE  [D.db[o][a] EXCEPT !.usn = 0] \in Stamps
    OBVIOUS
  <2>1. D.db[o][a] \in Stamps
    BY <1>2, <1>4, StampOf
  <2> QED BY <2>1 DEF Stamps
<1>6. e.obj = o /\ e.place = Pl(o) /\ e.md = Md(o)
  BY <1>1
<1>7. DOMAIN Md(o) = Ships(o) /\ \A a \in Ships(o) : Md(o)[a] = [D.db[o][a] EXCEPT !.usn = 0]
  OBVIOUS
<1>8. e \in Entries
  <2> HIDE DEF Ships, Md, Pl
  <2> QED BY <1>1, <1>2, <1>3, <1>4, <1>5, IsEntry
<1> HIDE DEF Md, Pl
<1> QED BY <1>1, <1>6, <1>7, <1>8 DEF Pl

LEMMA ReplyType ==
  ASSUME TypeInv, NEW d \in Servers, rpc[d].st = "marked", NEW visited, visited \subseteq Objs,
         NEW more \in BOOLEAN
  PROVE  Reply(d, visited, more) \in Replies
<1> DEFINE s    == cyc[d].src
           D    == live[s]
           from == rpc[d].from
           req  == rpc[d].req
           V    == IF req.full THEN NoVec ELSE cyc[d].utd
           mark == WatermarkAfter(D, visited, from, rpc[d].usnLowestC)
           objs == {[obj |-> o, place |-> Place(D, visited, req.anc, o),
                 md  |-> [a \in ReplFilterPropsToShip(D, o, from.prop, V) |-> [D.db[o][a] EXCEPT !.usn = 0]]] :
                   o \in {o \in WithAncestors(D, visited, req.anc) : ReplFilterPropsToShip(D, o, from.prop, V) # {}}}
<1>1. /\ cyc[d] \in Cycles /\ rpc[d] \in Calls /\ s \in Servers /\ D \in Databases /\ curId[s] \in Ids
  BY CallTypes
<1>2. from \in USNVectors /\ rpc[d].usnLowestC \in Nat /\ req.anc \in BOOLEAN
  BY <1>1, CallFields, RequestFields
<1>3. objs \subseteq Entries
  <2> SUFFICES ASSUME NEW e \in objs PROVE e \in Entries
    OBVIOUS
  <2> HIDE DEF D, V
  <2> QED BY <1>1, <1>2, ReplyObjs
<1>4. UsnVectorTo(mark, from, more) \in USNVectors
  <2>1. mark \in Nat
    BY <1>1, <1>2, WatermarkOK
  <2>2. from.prop \in Nat
    BY <1>2, USNVectorFields
  <2> HIDE DEF mark, from
  <2> QED BY <2>1, <2>2 DEF UsnVectorTo, USNVectors
<1>5. VectorSent(s, rpc[d].usnLowestC, more) \in Vectors
  <2>1. rpc[d].usnLowestC - 1 \in Nat
    BY <1>2 DEF TypeInv, StoreType, CommType
  <2>2. UpToDateVec_Read(s, rpc[d].usnLowestC - 1) \in Vectors
    BY <1>1, <2>1, UpToDateVecReadOK
  <2> QED BY <2>2, Constants DEF VectorSent
<1>6. Reply(d, visited, more) = [objs |-> objs, to |-> UsnVectorTo(mark, from, more), id |-> curId[s],
                                 more |-> more, utd |-> VectorSent(s, rpc[d].usnLowestC, more)]
  BY DEF Reply
<1> HIDE DEF objs, mark, s
<1> QED BY <1>1, <1>3, <1>4, <1>5, <1>6 DEF Replies

LEMMA CycleSet ==
  ASSUME CommType, NEW d \in Servers, NEW c \in Cycles, NEW r \in Calls,
         cyc' = [cyc EXCEPT ![d] = c], rpc' = [rpc EXCEPT ![d] = r],
         c.pc # "idle" => c.src \in Servers, c.pc \in {"idle", "labort"} => r.st = "none",
         r.st = "marked" => r.usnLowestC >= 1
  PROVE  CommType'
BY DEF CommType

LEMMA NextPacketType ==
  ASSUME CommType, NEW d \in Servers, NEW c \in Cycles, c.src \in Servers, NextPacket(d, c)
  PROVE  CommType'
<1> DEFINE c2 == [c EXCEPT !.pc = "wait", !.pkt = NoReply]
           r2 == IF rpc[d].st # "none" /\ rpc[d].req = c.req THEN rpc[d] ELSE Sent(c.req)
<1>1. rpc[d] \in Calls /\ (rpc[d].st = "marked" => rpc[d].usnLowestC >= 1)
  BY DEF CommType
<1>2. c2 \in Cycles /\ c2.pc = "wait" /\ c2.src \in Servers
  BY Constants DEF Cycles
<1>3. r2 \in Calls /\ (r2.st = "marked" => r2.usnLowestC >= 1)
  BY <1>1, CycleFields, SentType
<1>4. cyc' = [cyc EXCEPT ![d] = c2] /\ rpc' = [rpc EXCEPT ![d] = r2]
  BY DEF NextPacket, CommType
<1> HIDE DEF c2, r2
<1> QED BY <1>2, <1>3, <1>4, CycleSet

LEMMA LeaveType ==
  ASSUME CommType, NEW d \in Servers, NEW c \in Cycles, c.src \in Servers, Leave(d, c)
  PROVE  CommType'
<1> DEFINE c2 == [c EXCEPT !.pc = "labort", !.pkt = NoReply]
<1>1. c2 \in Cycles /\ c2.pc = "labort" /\ c2.src \in Servers
  BY Constants DEF Cycles
<1>2. NoCall \in Calls /\ NoCall.st = "none"
  BY Constants DEF NoCall
<1>3. cyc' = [cyc EXCEPT ![d] = c2] /\ rpc' = [rpc EXCEPT ![d] = NoCall]
  BY DEF Leave
<1> HIDE DEF c2
<1> QED BY <1>1, <1>2, <1>3, CycleSet

LEMMA DownType ==
  ASSUME CommType, NEW s \in Servers, Down(s)
  PROVE  CommType' /\ pending' = [pending EXCEPT ![s] = {}]
<1> DEFINE Gone(d) == [rpc[d] EXCEPT !.st = "failed"]
           New(d) == IF d = s THEN NoCall
                     ELSE IF cyc[d].src = s /\ rpc[d].st \in {"sent", "marked"} THEN Gone(d) ELSE rpc[d]
<1>1. pending' = [pending EXCEPT ![s] = {}] /\ cyc' = [cyc EXCEPT ![s] = Idle]
      /\ rpc' = [d \in Servers |-> New(d)]
  BY DEF Down
<1>2. Idle.pc = "idle" /\ NoCall.st = "none"
  BY DEF Idle, NoCall
<1>3. ASSUME NEW d \in Servers
      PROVE  /\ New(d) \in Calls
             /\ d = s => New(d).st = "none"
             /\ d # s => (New(d).st # "none" => rpc[d].st # "none")
             /\ d # s => (New(d).st = "marked" => New(d) = rpc[d])
  <2>1. rpc[d] \in Calls
    BY DEF CommType
  <2>2. Gone(d) \in Calls /\ Gone(d).st = "failed"
    BY <2>1 DEF Calls
  <2> HIDE DEF Gone
  <2> QED BY <2>1, <2>2, <1>2, Constants
<1>4. cyc'[s] = Idle /\ \A d \in Servers : d # s => cyc'[d] = cyc[d]
  BY <1>1 DEF CommType
<1>5. cyc' \in [Servers -> Cycles]
  BY <1>1, Constants DEF CommType
<1> HIDE DEF New
<1>6. \A d \in Servers : rpc'[d] = New(d)
  BY <1>1
<1>7. rpc' \in [Servers -> Calls]
  BY <1>1, <1>3
<1> QED BY <1>1, <1>2, <1>3, <1>4, <1>5, <1>6, <1>7 DEF CommType

LEMMA StoreSet ==
  ASSUME StoreType, NEW s \in Servers, NEW D \in Databases,
         live' = [live EXCEPT ![s] = D], disk' \in {disk, [disk EXCEPT ![s] = D]},
         image' = image, curId' = curId, expired' \subseteq Objs,
         usn' = usn \/ usn' = [usn EXCEPT ![s] = @ + 1],
         pending' = pending \/ \E w \in pending[s] : pending' = [pending EXCEPT ![s] = @ \ {w}]
  PROVE  StoreType'
<1>1. live' \in [Servers -> Databases] /\ disk' \in [Servers -> Databases]
  BY DEF StoreType
<1>2. usn' \in [Servers -> Nat] /\ \A t \in Servers : usn'[t] >= 1
  BY DEF StoreType
<1>3. pending' \in [Servers -> SUBSET Writes] /\ \A t \in Servers : pending'[t] \subseteq pending[t]
  BY DEF StoreType
<1> QED BY <1>1, <1>2, <1>3 DEF StoreType

LEMMA SameStore ==
  ASSUME StoreType, UNCHANGED <<live, disk, image, curId, usn, pending, expired>>
  PROVE  StoreType'
BY DEF StoreType

LEMMA SameComm ==
  ASSUME CommType, UNCHANGED <<cyc, rpc>>
  PROVE  CommType'
BY DEF CommType

LEMMA CountSet ==
  ASSUME CountType,
         UNCHANGED count \/ \E what \in {"writes", "syncs", "aborts", "crashes", "expired"} : Used(what)
  PROVE  CountType'
<1>1. ASSUME NEW what \in {"writes", "syncs", "aborts", "crashes", "expired"}, Used(what)
      PROVE  CountType'
  BY <1>1 DEF CountType, Counts, Used
<1> QED BY <1>1 DEF CountType

\* A database after a write of one attribute, and of an object.
Written(D, o, a, x)    == [D EXCEPT !.db[o][a] = x]
WrittenRow(D, o, row) == [D EXCEPT !.db[o] = row]

LEMMA WriteType ==
  ASSUME NEW D \in Databases, NEW o \in Objs, NEW a \in Attrs, NEW x \in Stamps
  PROVE  /\ Written(D, o, a, x) \in Databases
         /\ \A p \in Objs : \A b \in Attrs :
              Written(D, o, a, x).db[p][b] = IF p = o /\ b = a THEN x ELSE D.db[p][b]
         /\ Written(D, o, a, x).utd = D.utd /\ Written(D, o, a, x).reps = D.reps
         /\ Written(D, o, a, x).id = D.id /\ Written(D, o, a, x).retired = D.retired
<1> DEFINE new == [D.db EXCEPT ![o][a] = x]
           E == Written(D, o, a, x)
<1>1. D.db \in [Objs -> [Attrs -> Stamps]]
  BY DbFields
<1>2. new \in [Objs -> [Attrs -> Stamps]]
      /\ \A p \in Objs : \A b \in Attrs : new[p][b] = IF p = o /\ b = a THEN x ELSE D.db[p][b]
  BY <1>1
<1>3. E = [D EXCEPT !.db = new]
  BY <1>1 DEF Databases, Written
<1> HIDE DEF new
<1>4. E \in Databases /\ E.db = new /\ E.utd = D.utd /\ E.reps = D.reps /\ E.id = D.id /\ E.retired = D.retired
  BY <1>2, <1>3 DEF Databases
<1> HIDE DEF E
<1>5. \A p \in Objs : \A b \in Attrs : E.db[p][b] = IF p = o /\ b = a THEN x ELSE D.db[p][b]
  BY <1>2, <1>4
<1> QED BY <1>4, <1>5 DEF E

LEMMA RowType ==
  ASSUME NEW D \in Databases, NEW o \in Objs, NEW row \in [Attrs -> Stamps]
  PROVE  /\ WrittenRow(D, o, row) \in Databases
         /\ \A p \in Objs : WrittenRow(D, o, row).db[p] = IF p = o THEN row ELSE D.db[p]
         /\ WrittenRow(D, o, row).utd = D.utd /\ WrittenRow(D, o, row).reps = D.reps
         /\ WrittenRow(D, o, row).id = D.id /\ WrittenRow(D, o, row).retired = D.retired
<1> DEFINE new == [D.db EXCEPT ![o] = row]
           E == WrittenRow(D, o, row)
<1>1. D.db \in [Objs -> [Attrs -> Stamps]]
  BY DbFields
<1>2. new \in [Objs -> [Attrs -> Stamps]] /\ \A p \in Objs : new[p] = IF p = o THEN row ELSE D.db[p]
  BY <1>1
<1>3. E = [D EXCEPT !.db = new]
  BY <1>1 DEF Databases, WrittenRow
<1> HIDE DEF new
<1>4. E \in Databases /\ E.db = new /\ E.utd = D.utd /\ E.reps = D.reps /\ E.id = D.id /\ E.retired = D.retired
  BY <1>2, <1>3 DEF Databases
<1> HIDE DEF E
<1>5. \A p \in Objs : E.db[p] = IF p = o THEN row ELSE D.db[p]
  BY <1>2, <1>4
<1> QED BY <1>4, <1>5 DEF E

\* What the destination stores.
LEMMA StoreRepsFromOK ==
  ASSUME NEW D \in Databases, NEW s \in Servers, NEW q \in Requests
  PROVE  /\ StoreRepsFrom(D, s, q) \in Databases
         /\ StoreRepsFrom(D, s, q).db = D.db /\ StoreRepsFrom(D, s, q).utd = D.utd
         /\ StoreRepsFrom(D, s, q).id = D.id /\ StoreRepsFrom(D, s, q).retired = D.retired
         /\ \A t \in Servers : StoreRepsFrom(D, s, q).reps[t].vec = IF t = s THEN q.vec ELSE D.reps[t].vec
         /\ \A t \in Servers : StoreRepsFrom(D, s, q).reps[t].id = IF t = s THEN q.id ELSE D.reps[t].id
<1> DEFINE new == [D.reps EXCEPT ![s] = [id |-> q.id, vec |-> q.vec]]
           E == StoreRepsFrom(D, s, q)
<1>1. D.reps \in [Servers -> [id : Ids \cup {NoId}, vec : USNVectors]]
  BY DbFields
<1>2. [id |-> q.id, vec |-> q.vec] \in [id : Ids \cup {NoId}, vec : USNVectors]
  BY RequestFields
<1>3. new \in [Servers -> [id : Ids \cup {NoId}, vec : USNVectors]]
  BY <1>1, <1>2
<1>4. \A t \in Servers : /\ new[t].vec = IF t = s THEN q.vec ELSE D.reps[t].vec
                         /\ new[t].id = IF t = s THEN q.id ELSE D.reps[t].id
  BY <1>1
<1>5. E = [D EXCEPT !.reps = new]
  BY DEF StoreRepsFrom, Databases
<1> HIDE DEF new
<1>6. E \in Databases /\ E.reps = new /\ E.utd = D.utd /\ E.db = D.db /\ E.id = D.id /\ E.retired = D.retired
  BY <1>3, <1>5 DEF Databases
<1> HIDE DEF E
<1> QED BY <1>4, <1>6 DEF E

LEMMA ImproveOK ==
  ASSUME NEW D \in Databases, NEW V \in Vectors, NEW own \in Ids
  PROVE  /\ UpToDateVec_Improve(D, V, own) \in Databases
         /\ UpToDateVec_Improve(D, V, own).db = D.db /\ UpToDateVec_Improve(D, V, own).reps = D.reps
         /\ UpToDateVec_Improve(D, V, own).id = D.id /\ UpToDateVec_Improve(D, V, own).retired = D.retired
         /\ \A i \in Ids : UpToDateVec_Improve(D, V, own).utd[i]
                             = IF i # own /\ V[i] > D.utd[i] THEN V[i] ELSE D.utd[i]
<1> DEFINE new == [i \in Ids |-> IF i # own /\ V[i] > D.utd[i] THEN V[i] ELSE D.utd[i]]
           E == UpToDateVec_Improve(D, V, own)
<1>1. D.utd \in Vectors
  BY DbFields
<1>2. new \in Vectors
  BY <1>1 DEF Vectors
<1>3. \A i \in Ids : new[i] = IF i # own /\ V[i] > D.utd[i] THEN V[i] ELSE D.utd[i]
  OBVIOUS
<1>4. E = [D EXCEPT !.utd = new]
  BY DEF UpToDateVec_Improve, Databases
<1> HIDE DEF new
<1>5. E \in Databases /\ E.utd = new /\ E.reps = D.reps /\ E.db = D.db /\ E.id = D.id /\ E.retired = D.retired
  BY <1>2, <1>4 DEF Databases
<1> HIDE DEF E
<1> QED BY <1>3, <1>5 DEF E

LEMMA RetireOK ==
  ASSUME NEW D \in Databases, NEW i \in Ids, NEW n \in Nat, NEW new \in Ids
  PROVE  /\ draRetireInvocationID(D, i, n, new) \in Databases
         /\ draRetireInvocationID(D, i, n, new).db = D.db
         /\ draRetireInvocationID(D, i, n, new).reps = D.reps
         /\ draRetireInvocationID(D, i, n, new).id = new
         /\ \A j \in Ids : draRetireInvocationID(D, i, n, new).retired[j] = IF j = i THEN n ELSE D.retired[j]
         /\ \A j \in Ids : draRetireInvocationID(D, i, n, new).utd[j]
                             = IF j = i /\ D.utd[i] <= n THEN n ELSE D.utd[j]
<1> DEFINE ret == [D.retired EXCEPT ![i] = n]
           m   == Max({D.utd[i], n})
           utd == [D.utd EXCEPT ![i] = m]
           E   == draRetireInvocationID(D, i, n, new)
<1>1. D.utd \in Vectors /\ D.retired \in Vectors
  BY DbFields
<1>2. D.utd[i] \in Nat
  BY <1>1, VectorAt
<1>3. m \in Nat /\ m = IF D.utd[i] <= n THEN n ELSE D.utd[i]
  BY <1>2, Max2
<1>4. E = [D EXCEPT !.id = new, !.retired = ret, !.utd = utd]
  BY DEF draRetireInvocationID, Databases
<1> HIDE DEF m
<1>5. ret \in Vectors /\ \A j \in Ids : ret[j] = IF j = i THEN n ELSE D.retired[j]
  BY <1>1 DEF Vectors
<1>6. utd \in Vectors /\ \A j \in Ids : utd[j] = IF j = i /\ D.utd[i] <= n THEN n ELSE D.utd[j]
  BY <1>1, <1>3 DEF Vectors
<1> HIDE DEF ret, utd
<1>7. E \in Databases /\ E.utd = utd /\ E.reps = D.reps /\ E.db = D.db /\ E.id = new /\ E.retired = ret
  BY <1>4, <1>5, <1>6 DEF Databases
<1> HIDE DEF E
<1> QED BY <1>5, <1>6, <1>7 DEF E

\* The object applied next is one of the packet, and none is before it.
LEMMA FirstOK ==
  ASSUME NEW objs, objs \subseteq Entries, objs # {}
  PROVE  /\ First(objs) \in objs
         /\ \A f \in objs : \/ First(objs).place.with < f.place.with
                            \/ /\ First(objs).place.with = f.place.with
                               /\ First(objs).place.depth <= f.place.depth
<1> DEFINE W == {e.place.with : e \in objs}
           w == Min(W)
           T == {e.place.depth : e \in {e \in objs : e.place.with = w}}
           Le(e, f) == \/ e.place.with < f.place.with
                       \/ /\ e.place.with = f.place.with
                          /\ e.place.depth <= f.place.depth
<1>1. \A e \in objs : e.place.with \in Nat /\ e.place.depth \in Nat
  <2> SUFFICES ASSUME NEW e \in objs PROVE e.place.with \in Nat /\ e.place.depth \in Nat
    OBVIOUS
  <2>1. e.place \in [with : Nat, depth : Nat]
    BY EntryFields
  <2> QED BY <2>1
<1>2. w \in W /\ \A y \in W : w <= y
  <2>1. W \subseteq Nat /\ W # {}
    BY <1>1
  <2> HIDE DEF W
  <2> QED BY <2>1, MinOK
<1>3. Min(T) \in T /\ \A y \in T : Min(T) <= y
  <2>1. T \subseteq Nat /\ T # {}
    BY <1>1, <1>2
  <2> HIDE DEF T
  <2> QED BY <2>1, MinOK
<1> HIDE DEF w
<1>4. PICK e \in objs : e.place.with = w /\ e.place.depth = Min(T)
  BY <1>3
<1>5. \A f \in objs : e.place.with <= f.place.with
  BY <1>2, <1>4
<1>6. \A f \in objs : f.place.with = w => Min(T) <= f.place.depth
  BY <1>3
<1> HIDE DEF T, Min
<1>7. \A f \in objs : Le(e, f)
  <2> SUFFICES ASSUME NEW f \in objs PROVE Le(e, f)
    OBVIOUS
  <2>1. e.place.with \in Nat /\ f.place.with \in Nat /\ e.place.with <= f.place.with
    BY <1>1, <1>5
  <2>2. f.place.with = w => e.place.depth <= f.place.depth
    BY <1>4, <1>6
  <2> QED BY <2>1, <2>2, <1>4
<1>8. First(objs) = CHOOSE x \in objs : \A f \in objs : Le(x, f)
  BY DEF First
<1> HIDE DEF Le
<1>9. First(objs) \in objs /\ \A f \in objs : Le(First(objs), f)
  BY <1>7, <1>8
<1> QED BY <1>9 DEF Le

\* The row that UpdateRepObj writes.
RowPut(D, e, won, orphan, id, u) ==
  [a \in Attrs |->
     IF a \notin won THEN D.db[e.obj][a]
     ELSE IF orphan /\ a = "rdn"
     THEN [ver |-> e.md[a].ver + 1, id |-> id, ousn |-> u, lf |-> TRUE, usn |-> u]
     ELSE [e.md[a] EXCEPT !.usn = u]]

LEMMA RowPutOK ==
  ASSUME NEW D \in Databases, NEW e \in Entries, NEW orphan \in BOOLEAN, NEW id \in Ids, NEW u \in Nat
  PROVE  /\ RowPut(D, e, Winners(D, e), orphan, id, u) \in [Attrs -> Stamps]
         /\ WrittenRow(D, e.obj, RowPut(D, e, Winners(D, e), orphan, id, u)) \in Databases
<1>1. e.obj \in Objs /\ \A a \in DOMAIN e.md : e.md[a] \in Stamps
  BY EntryFields
<1>2. ASSUME NEW a \in Attrs
      PROVE  RowPut(D, e, Winners(D, e), orphan, id, u)[a] \in Stamps
  <2>1. D.db[e.obj][a] \in Stamps
    BY <1>1, StampOf
  <2>2. CASE a \notin Winners(D, e)
    BY <2>1, <2>2 DEF RowPut
  <2>3. CASE a \in Winners(D, e)
    <3>1. e.md[a] \in Stamps
      BY <2>3, <1>1 DEF Winners
    <3>2. [e.md[a] EXCEPT !.usn = u] \in Stamps
      BY <3>1 DEF Stamps
    <3>3. e.md[a].ver + 1 \in Nat
      BY <3>1, StampFields
    <3>4. [ver |-> e.md[a].ver + 1, id |-> id, ousn |-> u, lf |-> TRUE, usn |-> u] \in Stamps
      BY <3>3 DEF Stamps
    <3> QED BY <2>3, <3>2, <3>4 DEF RowPut
  <2> QED BY <2>2, <2>3
<1>3. RowPut(D, e, Winners(D, e), orphan, id, u) \in [Attrs -> Stamps]
  BY <1>2 DEF RowPut
<1> QED BY <1>1, <1>3, RowType

\* UpdateRepObj in terms of the row.
LEMMA UpdateRepObjIs ==
  ASSUME NEW d \in Servers, NEW e, NEW orphan, UpdateRepObj(d, e, orphan)
  PROVE  /\ Winners(live[d], e) = {} => UNCHANGED <<live, disk, usn>>
         /\ Winners(live[d], e) # {} =>
              /\ live' = [live EXCEPT ![d] = WrittenRow(live[d], e.obj,
                             RowPut(live[d], e, Winners(live[d], e), orphan, curId[d], usn[d]))]
              /\ UNCHANGED disk
              /\ usn' = [usn EXCEPT ![d] = @ + 1]
         /\ cyc' = [cyc EXCEPT ![d].pkt.objs = @ \ {e}]
         /\ UNCHANGED rpc
BY DEF UpdateRepObj, LazyCommit, RowPut, WrittenRow

LEMMA InitType == Init => TypeInv
<1> SUFFICES ASSUME Init PROVE TypeInv
  OBVIOUS
<1> DEFINE D(s) == [db |-> [o \in Objs |-> [a \in Attrs |-> None]], utd |-> NoVec,
        reps |-> [t \in Servers |-> [id |-> NoId, vec |-> Scratch]],
        id |-> s, retired |-> NoVec]
<1>1. \A s \in Servers : s \in Ids
  BY ServersAssumption DEF Servers, Ids
<1>2. ASSUME NEW s \in Servers PROVE D(s) \in Databases
  <2>1. [o \in Objs |-> [a \in Attrs |-> None]] \in [Objs -> [Attrs -> Stamps]]
    BY NoneType
  <2>2. [t \in Servers |-> [id |-> NoId, vec |-> Scratch]] \in [Servers -> [id : Ids \cup {NoId}, vec : USNVectors]]
    BY Constants
  <2> QED BY <1>1, <2>1, <2>2, Constants DEF Databases
<1>3. live = [s \in Servers |-> D(s)] /\ disk = live
  BY DEF Init
<1> HIDE DEF D
<1>4. live \in [Servers -> Databases] /\ disk \in [Servers -> Databases]
  BY <1>2, <1>3
<1>5. StoreType
  <2>1. image \in [Servers -> Images \cup {NoImage}] /\ \A s \in Servers : image[s] = NoImage
    BY DEF Init
  <2>2. curId \in [Servers -> Ids] /\ usn \in [Servers -> Nat] /\ \A s \in Servers : usn[s] = 1
    BY <1>1 DEF Init
  <2>3. pending \in [Servers -> SUBSET Writes] /\ \A s \in Servers : pending[s] = {}
    BY DEF Init
  <2>4. expired = {}
    BY DEF Init
  <2> QED BY <1>4, <2>1, <2>2, <2>3, <2>4 DEF StoreType
<1>6. CommType
  <2>1. cyc = [s \in Servers |-> Idle] /\ rpc = [s \in Servers |-> NoCall]
    BY DEF Init
  <2>2. Idle.pc = "idle" /\ NoCall.st = "none"
    BY DEF Idle, NoCall
  <2> HIDE DEF Idle, NoCall
  <2> QED BY <2>1, <2>2, Constants DEF CommType
<1>7. CountType
  BY ServersAssumption DEF Init, CountType, Counts
<1> QED BY <1>5, <1>6, <1>7 DEF TypeInv

LEMMA OriginatingWriteType ==
  ASSUME TypeInv, NEW s \in Servers, NEW o \in Objs, NEW a \in Attrs, OriginatingWrite(s, o, a)
  PROVE  TypeInv'
<1> DEFINE x == [ver |-> live[s].db[o][a].ver + 1, id |-> curId[s],
                 ousn |-> usn[s], lf |-> live[s].db[o][a].lf, usn |-> usn[s]]
           w == [obj |-> o, attr |-> a, stamp |-> x]
<1>1. live[s] \in Databases /\ curId[s] \in Ids /\ usn[s] \in Nat /\ usn[s] >= 1
  BY DEF TypeInv, StoreType
<1>2. live[s].db[o][a].ver \in Nat /\ live[s].db[o][a].lf \in BOOLEAN
  BY <1>1, StampOf, StampFields
<1>3. x \in Stamps
  BY <1>1, <1>2 DEF Stamps
<1>4. w \in Writes /\ w.stamp.usn >= 1
  BY <1>1, <1>3 DEF Writes
<1>5. pending' = [pending EXCEPT ![s] = @ \cup {w}] /\ usn' = [usn EXCEPT ![s] = @ + 1]
      /\ UNCHANGED <<live, disk, image, curId, cyc, rpc, expired>> /\ Used("writes")
  BY DEF OriginatingWrite
<1> HIDE DEF w, x
<1>6. StoreType'
  <2>1. pending' \in [Servers -> SUBSET Writes] /\ \A t \in Servers : \A v \in pending'[t] : v.stamp.usn >= 1
    BY <1>4, <1>5 DEF TypeInv, StoreType
  <2>2. usn' \in [Servers -> Nat] /\ \A t \in Servers : usn'[t] >= 1
    BY <1>1, <1>5 DEF TypeInv, StoreType
  <2> QED BY <1>5, <2>1, <2>2 DEF TypeInv, StoreType
<1>7. CommType' /\ CountType'
  BY <1>5, SameComm, CountSet DEF TypeInv
<1> QED BY <1>6, <1>7 DEF TypeInv

LEMMA CommitWriteType ==
  ASSUME TypeInv, NEW s \in Servers, CommitWrite(s) \/ RollbackWrite(s)
  PROVE  TypeInv'
<1>1. CASE CommitWrite(s)
  <2>1. PICK w \in pending[s] :
          /\ LazyCommit(s, [live[s] EXCEPT !.db[w.obj][w.attr] = w.stamp])
          /\ pending' = [pending EXCEPT ![s] = @ \ {w}]
          /\ UNCHANGED <<image, curId, usn, cyc, rpc, born, expired, count>>
    BY <1>1 DEF CommitWrite
  <2>2. w \in Writes /\ live[s] \in Databases
    BY DEF TypeInv, StoreType
  <2>3. w.obj \in Objs /\ w.attr \in Attrs /\ w.stamp \in Stamps
    BY <2>2 DEF Writes
  <2> DEFINE E == Written(live[s], w.obj, w.attr, w.stamp)
  <2>4. E \in Databases
    BY <2>2, <2>3, WriteType
  <2>5. live' = [live EXCEPT ![s] = E] /\ disk' = disk
    BY <2>1 DEF LazyCommit, Written
  <2> HIDE DEF E
  <2>6. StoreType'
    BY <2>1, <2>4, <2>5, StoreSet DEF TypeInv, StoreType
  <2>7. CommType' /\ CountType'
    BY <2>1, SameComm, CountSet DEF TypeInv
  <2> QED BY <2>6, <2>7 DEF TypeInv
<1>2. CASE RollbackWrite(s)
  <2>1. PICK w \in pending[s] :
          /\ pending' = [pending EXCEPT ![s] = @ \ {w}]
          /\ UNCHANGED <<live, disk, image, curId, usn, cyc, rpc, born, expired, count>>
    BY <1>2 DEF RollbackWrite
  <2>2. StoreType'
    BY <2>1 DEF TypeInv, StoreType
  <2>3. CommType' /\ CountType'
    BY <2>1, SameComm, CountSet DEF TypeInv
  <2> QED BY <2>2, <2>3 DEF TypeInv
<1> QED BY <1>1, <1>2

LEMMA FlushType ==
  ASSUME TypeInv, NEW s \in Servers, Flush(s)
  PROVE  TypeInv'
<1>1. disk' = [disk EXCEPT ![s] = live[s]]
      /\ UNCHANGED <<live, image, curId, usn, pending, cyc, rpc, born, expired, count>>
  BY DEF Flush
<1>2. StoreType'
  BY <1>1 DEF TypeInv, StoreType
<1>3. CommType' /\ CountType'
  BY <1>1, SameComm, CountSet DEF TypeInv
<1> QED BY <1>2, <1>3 DEF TypeInv

LEMMA ExpireType ==
  ASSUME TypeInv, NEW s \in Servers, NEW o \in Leaves, Expire(s, o)
  PROVE  TypeInv'
<1> DEFINE row == [a \in Attrs |-> None]
           E == WrittenRow(live[s], o, row)
<1>1. live' = [live EXCEPT ![s] = E] /\ disk' = disk /\ expired' = expired \cup {o}
      /\ UNCHANGED <<image, curId, usn, pending, cyc, rpc, born>> /\ Used("expired")
  BY DEF Expire, LazyCommit, WrittenRow
<1>2. o \in Objs /\ live[s] \in Databases /\ expired' \subseteq Objs
  BY <1>1 DEF TypeInv, StoreType, Objs
<1>3. row \in [Attrs -> Stamps]
  BY NoneType
<1>4. E \in Databases
  <2> HIDE DEF row
  <2> QED BY <1>2, <1>3, RowType
<1> HIDE DEF E
<1>5. StoreType'
  BY <1>1, <1>2, <1>4, StoreSet DEF TypeInv
<1>6. CommType' /\ CountType'
  BY <1>1, SameComm, CountSet DEF TypeInv
<1> QED BY <1>5, <1>6 DEF TypeInv

LEMMA CrashType ==
  ASSUME TypeInv, NEW s \in Servers, Crash(s)
  PROVE  TypeInv'
<1>1. /\ live' = [live EXCEPT ![s] = disk[s]] /\ curId' = [curId EXCEPT ![s] = disk[s].id]
      /\ Down(s) /\ UNCHANGED <<disk, image, usn, born, expired>> /\ Used("crashes")
  BY DEF Crash
<1>2. CommType' /\ pending' = [pending EXCEPT ![s] = {}]
  BY <1>1, DownType DEF TypeInv
<1>3. disk[s] \in Databases /\ disk[s].id \in Ids
  BY DbFields DEF TypeInv, StoreType
<1>4. StoreType'
  BY <1>1, <1>2, <1>3 DEF TypeInv, StoreType
<1>5. CountType'
  BY <1>1, CountSet DEF TypeInv
<1> QED BY <1>2, <1>4, <1>5 DEF TypeInv

LEMMA NewId ==
  ASSUME CountType, count.ids < MaxIds, Used("ids")
  PROVE  CountType' /\ count.ids + 1 \in Ids /\ count'.ids = count.ids + 1
BY ServersAssumption DEF CountType, Counts, Used, Ids

LEMMA BackupType ==
  ASSUME TypeInv, NEW s \in Servers, Backup(s)
  PROVE  TypeInv'
<1> DEFINE im == [db |-> live[s], backupUsn |-> DBGetHighestCommittedUSN(s), usn |-> usn[s]]
<1>1. /\ live' = [live EXCEPT ![s] = live[s]] /\ disk' = [disk EXCEPT ![s] = live[s]]
      /\ image' = [image EXCEPT ![s] = im]
      /\ UNCHANGED <<curId, usn, pending, cyc, rpc, born, expired, count>>
  BY DEF Backup, DurableCommit
<1>2. live[s] \in Databases /\ usn[s] \in Nat /\ usn[s] >= 1
  BY DEF TypeInv, StoreType
<1>3. im \in Images /\ im.usn >= 1
  BY <1>2, HighestCommittedOK DEF Images
<1> HIDE DEF im
<1>4. StoreType'
  BY <1>1, <1>2, <1>3 DEF TypeInv, StoreType
<1>5. CommType' /\ CountType'
  BY <1>1, SameComm, CountSet DEF TypeInv
<1> QED BY <1>4, <1>5 DEF TypeInv

LEMMA RestoreType ==
  ASSUME TypeInv, NEW s \in Servers, Restore(s)
  PROVE  TypeInv'
<1> DEFINE E == draRetireInvocationID(image[s].db, image[s].db.id, image[s].backupUsn, count.ids + 1)
<1>1. /\ count.ids < MaxIds /\ image[s] # NoImage /\ Used("ids")
      /\ live' = [live EXCEPT ![s] = E] /\ disk' = [disk EXCEPT ![s] = E]
      /\ curId' = [curId EXCEPT ![s] = count.ids + 1]
      /\ usn' = [usn EXCEPT ![s] = image[s].usn]
      /\ Down(s) /\ UNCHANGED <<image, born, expired>>
  BY DEF Restore, DurableCommit
<1>2. CommType' /\ pending' = [pending EXCEPT ![s] = {}]
  BY <1>1, DownType DEF TypeInv
<1>3. CountType' /\ count.ids + 1 \in Ids
  BY <1>1, NewId DEF TypeInv
<1>4. image[s] \in Images /\ image[s].usn >= 1
  BY <1>1 DEF TypeInv, StoreType
<1>5. image[s].db \in Databases /\ image[s].usn \in Nat /\ image[s].backupUsn \in Nat
  BY <1>4 DEF Images
<1>6. E \in Databases
  BY <1>3, <1>5, RetireOK, DbFields
<1> HIDE DEF E
<1>7. StoreType'
  BY <1>1, <1>2, <1>3, <1>4, <1>5, <1>6 DEF TypeInv, StoreType
<1> QED BY <1>2, <1>3, <1>7 DEF TypeInv

LEMMA DraHostWriteableNcType ==
  ASSUME TypeInv, NEW s \in Servers, DraHostWriteableNc(s)
  PROVE  TypeInv'
<1> DEFINE E == draRetireInvocationID(live[s], curId[s], DBGetHighestCommittedUSN(s), count.ids + 1)
<1>1. /\ count.ids < MaxIds /\ Used("ids")
      /\ curId' = [curId EXCEPT ![s] = count.ids + 1]
      /\ \/ live' = [live EXCEPT ![s] = E] /\ disk' = [disk EXCEPT ![s] = E]
         \/ UNCHANGED <<live, disk>>
      /\ UNCHANGED <<image, usn, pending, cyc, rpc, born, expired>>
  BY DEF DraHostWriteableNc, DurableCommit
<1>2. CountType' /\ count.ids + 1 \in Ids
  BY <1>1, NewId DEF TypeInv
<1>3. live[s] \in Databases /\ curId[s] \in Ids
  BY DEF TypeInv, StoreType
<1>4. E \in Databases
  BY <1>2, <1>3, RetireOK, HighestCommittedOK
<1> HIDE DEF E
<1>5. StoreType'
  BY <1>1, <1>2, <1>4 DEF TypeInv, StoreType
<1>6. CommType'
  BY <1>1, SameComm DEF TypeInv
<1> QED BY <1>2, <1>5, <1>6 DEF TypeInv

LEMMA StartSyncType ==
  ASSUME TypeInv, NEW d \in Servers, NEW s \in Servers, StartSync(d, s)
  PROVE  TypeInv'
<1> DEFINE reps == live[d].reps[s]
           req  == Request(reps.vec, reps.id, FALSE, FALSE)
           V    == UpToDateVec_Read(d, DBGetHighestCommittedUSN(d))
           c    == [Idle EXCEPT !.pc = "wait", !.src = s, !.req = req, !.utd = V]
<1>1. /\ UNCHANGED count \/ Used("syncs")
      /\ cyc' = [cyc EXCEPT ![d] = c] /\ rpc' = [rpc EXCEPT ![d] = Sent(req)]
      /\ UNCHANGED <<live, disk, image, curId, usn, pending, born, expired>>
  BY DEF StartSync
<1>2. reps \in [id : Ids \cup {NoId}, vec : USNVectors]
  BY DbFields DEF TypeInv, StoreType
<1>3. req \in Requests
  BY <1>2, RequestType
<1>4. V \in Vectors
  BY HighestCommittedOK, UpToDateVecReadOK
<1> HIDE DEF req, V
<1>5. c \in Cycles /\ c.pc = "wait" /\ c.src = s
  BY <1>3, <1>4, Constants DEF Idle, Cycles
<1> HIDE DEF c
<1>6. CommType'
  BY <1>1, <1>3, <1>5, SentType, CycleSet DEF TypeInv
<1>7. StoreType' /\ CountType'
  BY <1>1, SameStore, CountSet DEF TypeInv
<1> QED BY <1>6, <1>7 DEF TypeInv

LEMMA GetNCChangesMarkType ==
  ASSUME TypeInv, NEW d \in Servers, GetNCChangesMark(d)
  PROVE  TypeInv'
<1> DEFINE s == cyc[d].src
           f == RequestedFrom(s, cyc[d].utd, rpc[d].req)
           u == 1 + DBGetHighestCommittedUSN(s)
           r == [rpc[d] EXCEPT !.st = "marked", !.from = f, !.usnLowestC = u]
<1>1. /\ rpc[d].st = "sent"
      /\ rpc' = [rpc EXCEPT ![d].st = "marked", ![d].from = f, ![d].usnLowestC = u]
      /\ UNCHANGED <<live, disk, image, curId, usn, pending, cyc, born, expired, count>>
  BY DEF GetNCChangesMark
<1>2. cyc[d] \in Cycles /\ rpc[d] \in Calls /\ s \in Servers
  BY <1>1, CallTypes
<1>3. f \in USNVectors
  BY <1>2, CycleFields, CallFields, RequestedFromType
<1>4. u \in Nat /\ u >= 1
  BY <1>2, HighestCommittedOK
<1> HIDE DEF f, u
<1>5. r \in Calls /\ r.st = "marked" /\ r.usnLowestC >= 1
  BY <1>2, <1>3, <1>4 DEF Calls
<1>6. rpc' = [rpc EXCEPT ![d] = r] /\ cyc' = [cyc EXCEPT ![d] = cyc[d]]
  BY <1>1 DEF TypeInv, CommType, Calls
<1>7. cyc[d].pc \notin {"idle", "labort"}
  BY <1>1 DEF TypeInv, CommType
<1> HIDE DEF r
<1>8. CommType'
  BY <1>2, <1>5, <1>6, <1>7, CycleSet, Zenon DEF TypeInv
<1>9. StoreType' /\ CountType'
  BY <1>1, SameStore, CountSet DEF TypeInv
<1> QED BY <1>8, <1>9 DEF TypeInv

\* What a call that is answered becomes.
LEMMA AnswerType ==
  ASSUME TypeInv, NEW d \in Servers, DRA_GetNCChanges(d)
  PROVE  /\ rpc[d].st = "marked"
         /\ disk' = [disk EXCEPT ![cyc[d].src] = live[cyc[d].src]]
         /\ UNCHANGED <<live, image, curId, usn, pending, cyc, born, expired, count>>
         /\ \E visited \in SUBSET Objs, more \in BOOLEAN :
              /\ rpc' = [rpc EXCEPT ![d] = [NoCall EXCEPT !.st = "reply", !.req = rpc[d].req,
                                                          !.reply = Reply(d, visited, more)]]
              /\ \/ ~more /\ visited = Scanned(live[cyc[d].src], rpc[d].from.obj)
                 \/ /\ more
                    /\ \E last \in Scanned(live[cyc[d].src], rpc[d].from.obj) \ {NCHead} :
                         visited = {o \in Scanned(live[cyc[d].src], rpc[d].from.obj) :
                                      o = NCHead \/ usnChanged(live[cyc[d].src], o)
                                                      <= usnChanged(live[cyc[d].src], last)}
<1> DEFINE s == cyc[d].src
           D == live[s]
           found == Scanned(D, rpc[d].from.obj)
           UpTo(last) == {o \in found : o = NCHead \/ usnChanged(D, o) <= usnChanged(D, last)}
           Answer(reply) == [NoCall EXCEPT !.st = "reply", !.req = rpc[d].req, !.reply = reply]
<1>1. /\ rpc[d].st = "marked"
      /\ disk' = [disk EXCEPT ![s] = live[s]]
      /\ \/ rpc' = [rpc EXCEPT ![d] = Answer(Reply(d, found, FALSE))]
         \/ \E last \in found \ {NCHead} : rpc' = [rpc EXCEPT ![d] = Answer(Reply(d, UpTo(last), TRUE))]
      /\ UNCHANGED <<live, image, curId, usn, pending, cyc, born, expired, count>>
  BY Zenon DEF DRA_GetNCChanges, DBForceDurableCommit
<1>2. found \in SUBSET Objs
  BY DEF Scanned
<1>3. \A last : UpTo(last) \in SUBSET Objs
  BY <1>2
<1> HIDE DEF found
<1>4. CASE rpc' = [rpc EXCEPT ![d] = Answer(Reply(d, found, FALSE))]
  BY <1>1, <1>2, <1>4, Zenon DEF found
<1>5. CASE \E last \in found \ {NCHead} : rpc' = [rpc EXCEPT ![d] = Answer(Reply(d, UpTo(last), TRUE))]
  <2>1. PICK last \in found \ {NCHead} : rpc' = [rpc EXCEPT ![d] = Answer(Reply(d, UpTo(last), TRUE))]
    BY <1>5, Zenon
  <2> QED BY <1>1, <1>3, <2>1, Zenon DEF found
<1> QED BY <1>1, <1>4, <1>5, Zenon

LEMMA DRA_GetNCChangesType ==
  ASSUME TypeInv, NEW d \in Servers, DRA_GetNCChanges(d)
  PROVE  TypeInv'
<1>1. /\ rpc[d].st = "marked"
      /\ disk' = [disk EXCEPT ![cyc[d].src] = live[cyc[d].src]]
      /\ UNCHANGED <<live, image, curId, usn, pending, cyc, born, expired, count>>
  BY AnswerType, Zenon
<1>2. PICK visited \in SUBSET Objs, more \in BOOLEAN :
        rpc' = [rpc EXCEPT ![d] = [NoCall EXCEPT !.st = "reply", !.req = rpc[d].req,
                                                 !.reply = Reply(d, visited, more)]]
  BY AnswerType, Zenon
<1> DEFINE rep == Reply(d, visited, more)
           r == [NoCall EXCEPT !.st = "reply", !.req = rpc[d].req, !.reply = rep]
<1>3. cyc[d] \in Cycles /\ rpc[d] \in Calls /\ cyc[d].src \in Servers
      /\ cyc[d].pc \notin {"idle", "labort"}
  BY <1>1, CallTypes DEF TypeInv, CommType
<1>4. rep \in Replies
  BY <1>1, ReplyType
<1> HIDE DEF rep
<1>5. r \in Calls /\ r.st = "reply"
  BY <1>3, <1>4, Constants, CallFields DEF NoCall, Calls
<1>6. rpc' = [rpc EXCEPT ![d] = r] /\ cyc' = [cyc EXCEPT ![d] = cyc[d]]
  BY <1>1, <1>2 DEF TypeInv, CommType, rep
<1> HIDE DEF r
<1>7. CommType'
  BY <1>3, <1>5, <1>6, CycleSet DEF TypeInv
<1>8. StoreType'
  BY <1>1, <1>3 DEF TypeInv, StoreType
<1>9. CountType'
  BY <1>1, CountSet DEF TypeInv
<1> QED BY <1>7, <1>8, <1>9 DEF TypeInv

LEMMA ReceivePacketType ==
  ASSUME TypeInv, NEW d \in Servers, ReceivePacket(d)
  PROVE  TypeInv'
<1> DEFINE pkt == rpc[d].reply
           c == [cyc[d] EXCEPT !.pc = "apply", !.pkt = pkt]
           r == IF pkt.more THEN Sent(Request(pkt.to, pkt.id, FALSE, FALSE)) ELSE NoCall
<1>1. cyc[d].pc = "wait" /\ rpc[d].st = "reply"
      /\ UNCHANGED <<live, disk, image, curId, usn, pending, born, expired, count>>
  BY DEF ReceivePacket
<1>2. cyc[d] \in Cycles /\ rpc[d] \in Calls /\ cyc[d].src \in Servers
  BY <1>1, CallTypes
<1>3. cyc' = [cyc EXCEPT ![d] = c] /\ rpc' = [rpc EXCEPT ![d] = r]
  BY <1>2 DEF ReceivePacket, TypeInv, CommType, Cycles
<1>4. pkt \in Replies
  BY <1>2, CallFields
<1>5. Request(pkt.to, pkt.id, FALSE, FALSE) \in Requests
  BY <1>4, ReplyFields, RequestType
<1>6. NoCall \in Calls /\ NoCall.st = "none"
  BY Constants DEF NoCall
<1>7. r \in Calls /\ r.st \in {"sent", "none"}
  BY <1>5, <1>6, SentType
<1>8. c \in Cycles /\ c.pc = "apply" /\ c.src \in Servers
  BY <1>2, <1>4 DEF Cycles
<1> HIDE DEF c, r
<1>9. CommType'
  BY <1>3, <1>7, <1>8, CycleSet DEF TypeInv
<1>10. StoreType' /\ CountType'
  BY <1>1, SameStore, CountSet DEF TypeInv
<1> QED BY <1>9, <1>10 DEF TypeInv

\* The packet at hand.
LEMMA ApplyTypes ==
  ASSUME TypeInv, NEW d \in Servers, cyc[d].pc = "apply"
  PROVE  /\ cyc[d] \in Cycles /\ cyc[d].src \in Servers /\ live[d] \in Databases
         /\ cyc[d].pkt \in Replies /\ cyc[d].pkt.objs \subseteq Entries /\ cyc[d].req \in Requests
         /\ cyc[d].pkt.objs # {} => First(cyc[d].pkt.objs) \in cyc[d].pkt.objs
<1>1. cyc[d] \in Cycles /\ cyc[d].src \in Servers /\ live[d] \in Databases
  BY DEF TypeInv, CommType, StoreType
<1>2. cyc[d].pkt \in Replies /\ cyc[d].req \in Requests
  BY <1>1, CycleFields
<1>3. cyc[d].pkt.objs \subseteq Entries
  BY <1>2, ReplyFields
<1> QED BY <1>1, <1>2, <1>3, FirstOK

\* One object less to apply.
LEMMA RestOfPacket ==
  ASSUME TypeInv, NEW d \in Servers, NEW e, cyc' = [cyc EXCEPT ![d].pkt.objs = @ \ {e}]
  PROVE  /\ [cyc[d].pkt EXCEPT !.objs = @ \ {e}] \in Replies
         /\ [cyc[d] EXCEPT !.pkt = [cyc[d].pkt EXCEPT !.objs = @ \ {e}]] \in Cycles
         /\ cyc' = [cyc EXCEPT ![d] = [cyc[d] EXCEPT !.pkt = [cyc[d].pkt EXCEPT !.objs = @ \ {e}]]]
<1>1. cyc \in [Servers -> Cycles] /\ cyc[d] \in Cycles
  BY DEF TypeInv, CommType
<1>2. cyc[d].pkt \in Replies
  BY <1>1, CycleFields
<1> DEFINE p == [cyc[d].pkt EXCEPT !.objs = @ \ {e}]
<1>3. p \in Replies
  BY <1>2 DEF Replies
<1>4. cyc' = [cyc EXCEPT ![d] = [cyc[d] EXCEPT !.pkt = p]]
  BY <1>1, <1>2 DEF Cycles, Replies
<1> HIDE DEF p
<1>5. [cyc[d] EXCEPT !.pkt = p] \in Cycles
  BY <1>1, <1>3 DEF Cycles
<1> QED BY <1>3, <1>4, <1>5 DEF p

\* The four outcomes of an object.
LEMMA UpdateNCIs ==
  ASSUME NEW d \in Servers, UpdateNC(d)
  PROVE  LET c == cyc[d]
             e == First(c.pkt.objs)
         IN  /\ c.pc = "apply" /\ c.pkt.objs # {}
             /\ \/ NextPacket(d, [c EXCEPT !.req.full = TRUE]) /\ UNCHANGED <<live, disk, usn>>
                \/ NextPacket(d, [c EXCEPT !.req.anc = TRUE]) /\ UNCHANGED <<live, disk, usn>>
                \/ Leave(d, c) /\ UNCHANGED <<live, disk, usn>>
                \/ /\ ~NotEnoughAttrs(live[d], e) /\ (MissingParent(live[d], e) => c.req.anc)
                   /\ ~WriteConflict(d, e)
                   /\ UpdateRepObj(d, e, MissingParent(live[d], e))
             /\ UNCHANGED <<image, curId, pending, born, expired, count>>
BY Zenon DEF UpdateNC

LEMMA AskAgain ==
  ASSUME NEW c \in Cycles
  PROVE  /\ [c EXCEPT !.req.full = TRUE] = [c EXCEPT !.req = [c.req EXCEPT !.full = TRUE]]
         /\ [c EXCEPT !.req.anc = TRUE] = [c EXCEPT !.req = [c.req EXCEPT !.anc = TRUE]]
         /\ [c.req EXCEPT !.full = TRUE] \in Requests /\ [c.req EXCEPT !.anc = TRUE] \in Requests
         /\ \A q \in Requests : [c EXCEPT !.req = q] \in Cycles
<1>1. c.req \in Requests
  BY CycleFields
<1> QED BY <1>1 DEF Cycles, Requests

LEMMA UpdateNCType ==
  ASSUME TypeInv, NEW d \in Servers, UpdateNC(d)
  PROVE  TypeInv'
<1> DEFINE c == cyc[d]
           e == First(c.pkt.objs)
<1>1. /\ c.pc = "apply" /\ c.pkt.objs # {}
      /\ UNCHANGED <<image, curId, pending, born, expired, count>>
  BY UpdateNCIs
<1>2. /\ c \in Cycles /\ c.src \in Servers /\ live[d] \in Databases
      /\ c.pkt \in Replies /\ c.pkt.objs \subseteq Entries /\ e \in c.pkt.objs
  BY <1>1, ApplyTypes
<1>3. CountType'
  BY <1>1, CountSet DEF TypeInv
<1>4. ASSUME UNCHANGED <<live, disk, usn>>
      PROVE  StoreType'
  BY <1>1, <1>4, SameStore DEF TypeInv
<1>5. ASSUME NEW q \in Requests, NextPacket(d, [c EXCEPT !.req = q])
      PROVE  CommType'
  <2>1. [c EXCEPT !.req = q] \in Cycles /\ [c EXCEPT !.req = q].src \in Servers
    BY <1>2 DEF Cycles
  <2> QED BY <1>5, <2>1, NextPacketType DEF TypeInv
<1>6. CASE NextPacket(d, [c EXCEPT !.req.full = TRUE]) /\ UNCHANGED <<live, disk, usn>>
  BY <1>2, <1>3, <1>4, <1>5, <1>6, AskAgain DEF TypeInv
<1>7. CASE NextPacket(d, [c EXCEPT !.req.anc = TRUE]) /\ UNCHANGED <<live, disk, usn>>
  BY <1>2, <1>3, <1>4, <1>5, <1>7, AskAgain DEF TypeInv
<1>8. CASE Leave(d, c) /\ UNCHANGED <<live, disk, usn>>
  BY <1>2, <1>3, <1>4, <1>8, LeaveType DEF TypeInv
<1>9. ASSUME NEW orphan \in BOOLEAN, UpdateRepObj(d, e, orphan)
      PROVE  TypeInv'
  <2> DEFINE E == WrittenRow(live[d], e.obj, RowPut(live[d], e, Winners(live[d], e), orphan, curId[d], usn[d]))
             p == [c.pkt EXCEPT !.objs = @ \ {e}]
  <2>1. /\ Winners(live[d], e) = {} => UNCHANGED <<live, disk, usn>>
        /\ Winners(live[d], e) # {} => /\ live' = [live EXCEPT ![d] = E] /\ UNCHANGED disk
                                       /\ usn' = [usn EXCEPT ![d] = @ + 1]
        /\ cyc' = [cyc EXCEPT ![d].pkt.objs = @ \ {e}] /\ UNCHANGED rpc
    BY <1>9, UpdateRepObjIs
  <2>2. E \in Databases
    <3>1. e \in Entries /\ curId[d] \in Ids /\ usn[d] \in Nat
      BY <1>2 DEF TypeInv, StoreType
    <3> HIDE DEF e
    <3> QED BY <1>2, <3>1, RowPutOK
  <2> HIDE DEF E
  <2>3. StoreType'
    <3>1. CASE Winners(live[d], e) = {}
      BY <2>1, <3>1, <1>4
    <3>2. CASE Winners(live[d], e) # {}
      <4>1. expired' \subseteq Objs
        BY <1>1 DEF TypeInv, StoreType
      <4> QED BY <1>1, <2>1, <2>2, <3>2, <4>1, StoreSet DEF TypeInv
    <3> QED BY <3>1, <3>2
  <2>4. CommType'
    <3>1. p \in Replies /\ [c EXCEPT !.pkt = p] \in Cycles /\ cyc' = [cyc EXCEPT ![d] = [c EXCEPT !.pkt = p]]
      BY <2>1, RestOfPacket
    <3>2. rpc' = [rpc EXCEPT ![d] = rpc[d]] /\ rpc[d] \in Calls
          /\ (rpc[d].st = "marked" => rpc[d].usnLowestC >= 1)
      BY <2>1 DEF TypeInv, CommType
    <3> HIDE DEF p
    <3>3. [c EXCEPT !.pkt = p].pc = "apply" /\ [c EXCEPT !.pkt = p].src \in Servers
      BY <1>1, <1>2 DEF Cycles
    <3> QED BY <3>1, <3>2, <3>3, CycleSet DEF TypeInv
  <2> QED BY <1>3, <2>3, <2>4 DEF TypeInv
<1>10. MissingParent(live[d], e) \in BOOLEAN
  BY DEF MissingParent
<1> HIDE DEF c, e
<1>11. \/ NextPacket(d, [c EXCEPT !.req.full = TRUE]) /\ UNCHANGED <<live, disk, usn>>
       \/ NextPacket(d, [c EXCEPT !.req.anc = TRUE]) /\ UNCHANGED <<live, disk, usn>>
       \/ Leave(d, c) /\ UNCHANGED <<live, disk, usn>>
       \/ UpdateRepObj(d, e, MissingParent(live[d], e))
  BY UpdateNCIs, Zenon DEF c, e
<1> QED BY <1>6, <1>7, <1>8, <1>9, <1>10, <1>11, Zenon

LEMMA DurableType ==
  ASSUME TypeInv, NEW d \in Servers, NEW D \in Databases, DurableCommit(d, D),
         UNCHANGED <<image, curId, usn, pending, expired>>
  PROVE  StoreType'
<1>1. live' = [live EXCEPT ![d] = D] /\ disk' = [disk EXCEPT ![d] = D] /\ expired' \subseteq Objs
  BY DEF DurableCommit, TypeInv, StoreType
<1> QED BY <1>1, StoreSet DEF TypeInv

LEMMA PacketDoneType ==
  ASSUME TypeInv, NEW d \in Servers, PacketDone(d)
  PROVE  TypeInv'
<1> DEFINE c   == cyc[d]
           req == Request(c.pkt.to, c.pkt.id, FALSE, FALSE)
           n   == (c.packets + 1) % PersistEvery
           c2  == [c EXCEPT !.req = req, !.preemptable = TRUE, !.packets = n]
<1>1. /\ c.pc = "apply"
      /\ IF n = 0 THEN DurableCommit(d, StoreRepsFrom(live[d], c.src, req)) ELSE UNCHANGED <<live, disk>>
      /\ NextPacket(d, c2)
      /\ UNCHANGED <<image, curId, usn, pending, born, expired, count>>
  BY DEF PacketDone
<1>2. c \in Cycles /\ c.src \in Servers /\ live[d] \in Databases /\ c.pkt \in Replies
  BY <1>1, ApplyTypes
<1>3. req \in Requests
  BY <1>2, ReplyFields, RequestType
<1>4. n \in Nat
  BY <1>2, CycleFields, PersistAssumption
<1> HIDE DEF req, n
<1>5. c2 \in Cycles /\ c2.src \in Servers
  BY <1>2, <1>3, <1>4 DEF Cycles
<1> HIDE DEF c2
<1>6. CommType'
  BY <1>1, <1>5, NextPacketType DEF TypeInv
<1>7. StoreType'
  <2>1. StoreRepsFrom(live[d], c.src, req) \in Databases
    BY <1>2, <1>3, StoreRepsFromOK
  <2> QED BY <1>1, <2>1, DurableType, SameStore DEF TypeInv
<1>8. CountType'
  BY <1>1, CountSet DEF TypeInv
<1> QED BY <1>6, <1>7, <1>8 DEF TypeInv

LEMMA CycleDoneType ==
  ASSUME TypeInv, NEW d \in Servers, CycleDone(d)
  PROVE  TypeInv'
<1> DEFINE c   == cyc[d]
           req == Request(c.pkt.to, c.pkt.id, FALSE, FALSE)
<1>1. /\ c.pc = "apply"
      /\ DurableCommit(d, UpToDateVec_Improve(live[d], c.pkt.utd, curId[d]))
      /\ Leave(d, [c EXCEPT !.req = req])
      /\ UNCHANGED <<image, curId, usn, pending, born, expired, count>>
  BY DEF CycleDone
<1>2. c \in Cycles /\ c.src \in Servers /\ live[d] \in Databases /\ c.pkt \in Replies
  BY <1>1, ApplyTypes
<1>3. req \in Requests
  BY <1>2, ReplyFields, RequestType
<1> HIDE DEF req
<1>4. [c EXCEPT !.req = req] \in Cycles /\ [c EXCEPT !.req = req].src \in Servers
  BY <1>2, <1>3 DEF Cycles
<1>5. CommType'
  BY <1>1, <1>4, LeaveType DEF TypeInv
<1>6. StoreType'
  <2>1. c.pkt.utd \in Vectors /\ curId[d] \in Ids
    BY <1>2, ReplyFields DEF TypeInv, StoreType
  <2>2. UpToDateVec_Improve(live[d], c.pkt.utd, curId[d]) \in Databases
    BY <1>2, <2>1, ImproveOK
  <2> QED BY <1>1, <2>2, DurableType
<1>7. CountType'
  BY <1>1, CountSet DEF TypeInv
<1> QED BY <1>5, <1>6, <1>7 DEF TypeInv

LEMMA LeavingType ==
  ASSUME TypeInv, NEW d \in Servers, Preempt(d) \/ CallFailed(d)
  PROVE  TypeInv'
<1>1. /\ cyc[d].pc # "idle" /\ Leave(d, cyc[d]) /\ (UNCHANGED count \/ Used("aborts"))
      /\ UNCHANGED <<live, disk, image, curId, usn, pending, born, expired>>
  BY DEF Preempt, CallFailed
<1>2. cyc[d] \in Cycles /\ cyc[d].src \in Servers
  BY <1>1 DEF TypeInv, CommType
<1>3. CommType'
  BY <1>1, <1>2, LeaveType DEF TypeInv
<1>4. StoreType' /\ CountType'
  BY <1>1, SameStore, CountSet DEF TypeInv
<1> QED BY <1>3, <1>4 DEF TypeInv

LEMMA CallFailsType ==
  ASSUME TypeInv, NEW d \in Servers, CallFails(d)
  PROVE  TypeInv'
<1> DEFINE r == [rpc[d] EXCEPT !.st = "failed"]
<1>1. /\ rpc[d].st # "none" /\ Used("aborts") /\ rpc' = [rpc EXCEPT ![d].st = "failed"]
      /\ UNCHANGED <<live, disk, image, curId, usn, pending, cyc, born, expired>>
  BY DEF CallFails
<1>2. cyc[d] \in Cycles /\ rpc[d] \in Calls /\ cyc[d].src \in Servers
      /\ cyc[d].pc \notin {"idle", "labort"}
  BY <1>1 DEF TypeInv, CommType
<1>3. r \in Calls /\ r.st = "failed"
  BY <1>2 DEF Calls
<1>4. rpc' = [rpc EXCEPT ![d] = r] /\ cyc' = [cyc EXCEPT ![d] = cyc[d]]
  BY <1>1 DEF TypeInv, CommType, Calls
<1> HIDE DEF r
<1>5. CommType'
  BY <1>2, <1>3, <1>4, CycleSet DEF TypeInv
<1>6. StoreType' /\ CountType'
  BY <1>1, SameStore, CountSet DEF TypeInv
<1> QED BY <1>5, <1>6 DEF TypeInv

LEMMA LabortType ==
  ASSUME TypeInv, NEW d \in Servers, Labort(d)
  PROVE  TypeInv'
<1>1. /\ cyc[d].pc = "labort" /\ DurableCommit(d, StoreRepsFrom(live[d], cyc[d].src, cyc[d].req))
      /\ cyc' = [cyc EXCEPT ![d] = Idle]
      /\ UNCHANGED <<image, curId, usn, pending, rpc, born, expired, count>>
  BY DEF Labort
<1>2. cyc[d] \in Cycles /\ cyc[d].src \in Servers /\ live[d] \in Databases /\ rpc[d] \in Calls
  BY <1>1 DEF TypeInv, CommType, StoreType
<1>3. rpc[d].st = "none" /\ rpc' = [rpc EXCEPT ![d] = rpc[d]]
  BY <1>1 DEF TypeInv, CommType
<1>4. Idle \in Cycles /\ Idle.pc = "idle"
  BY Constants DEF Idle
<1>5. CommType'
  BY <1>1, <1>2, <1>3, <1>4, CycleSet DEF TypeInv
<1>6. StoreRepsFrom(live[d], cyc[d].src, cyc[d].req) \in Databases
  BY <1>2, CycleFields, StoreRepsFromOK
<1>7. StoreType' /\ CountType'
  BY <1>1, <1>6, DurableType, CountSet DEF TypeInv
<1> QED BY <1>5, <1>7 DEF TypeInv

LEMMA StepType == TypeInv /\ [Next]_vars => TypeInv'
<1> SUFFICES ASSUME TypeInv, [Next]_vars PROVE TypeInv'
  OBVIOUS
<1>1. ASSUME NEW s \in Servers,
             \/ \E o \in Objs, a \in Attrs : OriginatingWrite(s, o, a)
             \/ CommitWrite(s) \/ RollbackWrite(s) \/ Flush(s)
             \/ \E o \in Leaves : Expire(s, o)
             \/ Crash(s) \/ Backup(s) \/ Restore(s) \/ DraHostWriteableNc(s)
      PROVE  TypeInv'
  BY <1>1, OriginatingWriteType, CommitWriteType, FlushType, ExpireType, CrashType, BackupType,
     RestoreType, DraHostWriteableNcType
<1>2. ASSUME NEW d \in Servers,
             \/ \E s \in Servers : StartSync(d, s)
             \/ GetNCChangesMark(d) \/ DRA_GetNCChanges(d)
             \/ ReceivePacket(d) \/ UpdateNC(d) \/ PacketDone(d) \/ CycleDone(d)
             \/ Preempt(d) \/ CallFails(d) \/ CallFailed(d) \/ Labort(d)
      PROVE  TypeInv'
  BY <1>2, StartSyncType, GetNCChangesMarkType, DRA_GetNCChangesType, ReceivePacketType, UpdateNCType,
     PacketDoneType, CycleDoneType, LeavingType, CallFailsType, LabortType
<1>3. CASE UNCHANGED vars
  BY <1>3, SameStore, SameComm, CountSet DEF vars, TypeInv
<1> QED BY <1>1, <1>2, <1>3 DEF Next

LEMMA TypeInvariant == Spec => []TypeInv
BY InitType, StepType, PTL DEF Spec

\* The types of TypeOK hold for every number of servers, objects and writes, with
\* crashes, backups, restores and changes of the invocation id: USNs and watermarks
\* never become negative, and every call is answered with a well-formed packet.
THEOREM TypeCorrect == Spec => []TypeOK
<1>1. TypeInv => TypeOK
  <2> SUFFICES ASSUME TypeInv PROVE TypeOK
    OBVIOUS
  <2>1. \A s \in Servers : {w.stamp : w \in pending[s]} \subseteq Stamps
    BY DEF TypeInv, StoreType, Writes
  <2>2. ASSUME NEW d \in Servers
        PROVE  cyc[d].utd \in Vectors /\ cyc[d].req.vec \in USNVectors /\ rpc[d].from \in USNVectors
    <3>1. cyc[d] \in Cycles /\ rpc[d] \in Calls
      BY DEF TypeInv, CommType
    <3> QED BY <3>1, CycleFields, CallFields, RequestFields
  <2> QED BY <2>1, <2>2 DEF TypeInv, StoreType, TypeOK
<1> QED BY <1>1, TypeInvariant, PTL

-----------------------------------------------------------------------------
(* The shape of databases and packets.                                     *)

LEMMA RealIsThere ==
  ASSUME NEW x, Real(x)
  PROVE  x # None
BY DEF Real, None

LEMMA IdsPositive == \A i \in Ids : i \in Nat /\ i >= 1 /\ i # NoId
BY ServersAssumption DEF Ids, NoId

LEMMA ParentOfType ==
  ASSUME NEW o \in Objs, NEW rdn
  PROVE  ParentOf(o, rdn) \in Objs
<1>1. AncestorsOf(o, rdn) \in Seq(Leaves)
  BY AncestorsOfType
<1> HIDE DEF AncestorsOf
<1>2. ASSUME AncestorsOf(o, rdn) # <<>>
      PROVE  Last(AncestorsOf(o, rdn)) \in Leaves
  <2> DEFINE q == AncestorsOf(o, rdn)
  <2>1. q \in Seq(Leaves) /\ q # <<>>
    BY <1>1, <1>2
  <2> HIDE DEF q
  <2>2. Len(q) \in 1 .. Len(q)
    BY <2>1
  <2>3. q[Len(q)] \in Leaves
    BY <2>1, <2>2
  <2> QED BY <2>3 DEF Last, q
<1> QED BY <1>2 DEF ParentOf, Objs

LEMMA ParentOfLf ==
  ASSUME NEW o, NEW x, NEW y, x.lf = y.lf
  PROVE  ParentOf(o, x) = ParentOf(o, y)
BY DEF ParentOf, AncestorsOf

LEMMA LostAndFoundParent ==
  ASSUME NEW o, NEW x, x.lf = TRUE
  PROVE  ParentOf(o, x) = NCHead
BY DEF ParentOf, AncestorsOf

LEMMA SameDb ==
  ASSUME NEW D, NEW E, E.db = D.db
  PROVE  /\ DbOK(D) => DbOK(E)
         /\ \A w : WriteOK(D, w) => WriteOK(E, w)
         /\ \A o : Exists(D, o) <=> Exists(E, o)
BY DEF DbOK, WriteOK, Exists

\* A write of a client keeps the shape.
LEMMA WriteDbOK ==
  ASSUME NEW D \in Databases, DbOK(D), NEW w \in Writes, WriteOK(D, w)
  PROVE  /\ DbOK(Written(D, w.obj, w.attr, w.stamp))
         /\ \A o \in Objs : Exists(D, o) => Exists(Written(D, w.obj, w.attr, w.stamp), o)
<1> DEFINE E == Written(D, w.obj, w.attr, w.stamp)
<1>1. w.obj \in Objs /\ w.attr \in Attrs /\ w.stamp \in Stamps
  BY DEF Writes
<1>2. \A p \in Objs : \A b \in Attrs : E.db[p][b] = IF p = w.obj /\ b = w.attr THEN w.stamp ELSE D.db[p][b]
  BY <1>1, WriteType
<1> HIDE DEF E
<1>3. Real(w.stamp) /\ w.stamp # None /\ w.stamp.usn >= 1
  BY RealIsThere DEF WriteOK, Real
<1>4. "rdn" \in Attrs /\ "val" \in Attrs /\ \A a \in Attrs : a = "rdn" \/ a = "val"
  BY DEF Attrs
<1>5. \A o \in Objs : Exists(D, o) => Exists(E, o)
  BY <1>2, <1>3, <1>4 DEF Exists
<1>6. \A o \in Objs, a \in Attrs : E.db[o][a] = None \/ (Real(E.db[o][a]) /\ E.db[o][a].usn >= 1)
  BY <1>2, <1>3 DEF DbOK
<1>7. ASSUME NEW o \in Leaves, E.db[o]["rdn"] = None
      PROVE  E.db[o]["val"] = None
  <2>1. o \in Objs /\ o # NCHead
    BY ObjsAssumption DEF Objs
  <2>2. D.db[o]["rdn"] = None /\ ~(o = w.obj /\ w.attr = "rdn")
    BY <1>2, <1>3, <1>4, <1>7, <2>1
  <2>3. ~(o = w.obj /\ w.attr = "val")
    BY <2>1, <2>2 DEF WriteOK, Exists
  <2> QED BY <1>2, <1>4, <2>1, <2>2, <2>3 DEF DbOK
<1>8. ASSUME NEW o \in Leaves, E.db[o]["rdn"] # None
      PROVE  Exists(E, ParentOf(o, E.db[o]["rdn"]))
  <2>1. o \in Objs
    BY DEF Objs
  <2>2. CASE o = w.obj /\ w.attr = "rdn"
    <3>1. E.db[o]["rdn"] = w.stamp /\ Exists(D, ParentOf(o, w.stamp))
      BY <1>2, <1>4, <2>1, <2>2 DEF WriteOK
    <3> QED BY <3>1, <1>5, <2>1, ParentOfType
  <2>3. CASE ~(o = w.obj /\ w.attr = "rdn")
    <3>1. E.db[o]["rdn"] = D.db[o]["rdn"]
      BY <1>2, <1>4, <2>1, <2>3
    <3>2. Exists(D, ParentOf(o, D.db[o]["rdn"]))
      BY <3>1, <1>8 DEF DbOK
    <3> QED BY <3>1, <3>2, <1>5, <2>1, ParentOfType
  <2> QED BY <2>2, <2>3
<1>9. DbOK(E)
  BY <1>6, <1>7, <1>8 DEF DbOK
<1> QED BY <1>5, <1>9 DEF E

LEMMA PutFields ==
  ASSUME NEW x \in Stamps, NEW u
  PROVE  LET y == [x EXCEPT !.usn = u]
         IN  y.ver = x.ver /\ y.id = x.id /\ y.ousn = x.ousn /\ y.lf = x.lf /\ y.usn = u
BY DEF Stamps

\* Applying an object of a packet keeps it.
LEMMA RowDbOK ==
  ASSUME NEW D \in Databases, DbOK(D), NEW e \in Entries, \A a \in DOMAIN e.md : Real(e.md[a]),
         ~NotEnoughAttrs(D, e), NEW id \in Ids, NEW u \in Nat, u >= 1
  PROVE  /\ DbOK(WrittenRow(D, e.obj, RowPut(D, e, Winners(D, e), MissingParent(D, e), id, u)))
         /\ \A o \in Objs : Exists(D, o) =>
              Exists(WrittenRow(D, e.obj, RowPut(D, e, Winners(D, e), MissingParent(D, e), id, u)), o)
<1> DEFINE won == Winners(D, e)
           orphan == MissingParent(D, e)
           row == RowPut(D, e, won, orphan, id, u)
           E == WrittenRow(D, e.obj, row)
<1>1. orphan \in BOOLEAN
  BY DEF MissingParent
<1> HIDE DEF orphan, won
<1>2. e.obj \in Objs /\ DOMAIN e.md \subseteq Attrs /\ \A a \in DOMAIN e.md : e.md[a] \in Stamps
  BY EntryFields
<1>3. row \in [Attrs -> Stamps]
  BY <1>1, RowPutOK, Zenon DEF won
<1>4. \A p \in Objs : E.db[p] = IF p = e.obj THEN row ELSE D.db[p]
  <2> HIDE DEF row
  <2> QED BY <1>2, <1>3, RowType
<1> HIDE DEF E
<1>5. "rdn" \in Attrs /\ "val" \in Attrs
  BY DEF Attrs
<1>6. won \subseteq DOMAIN e.md
  BY DEF Winners, won
<1>7. ASSUME NEW a \in won
      PROVE  Real(row[a]) /\ row[a].usn >= 1 /\ row[a] # None
  <2>1. a \in Attrs /\ e.md[a] \in Stamps /\ Real(e.md[a])
    BY <1>2, <1>6
  <2>2. CASE orphan /\ a = "rdn"
    <3>1. row[a] = [ver |-> e.md[a].ver + 1, id |-> id, ousn |-> u, lf |-> TRUE, usn |-> u]
      BY <1>1, <2>1, <2>2, Zenon DEF RowPut
    <3>2. e.md[a].ver + 1 >= 1
      BY <2>1, StampFields
    <3> HIDE DEF row
    <3>3. Real(row[a]) /\ row[a].usn >= 1
      BY <3>1, <3>2, IdsPositive DEF Real
    <3> QED BY <3>3, RealIsThere
  <2>3. CASE ~(orphan /\ a = "rdn")
    <3>1. row[a] = [e.md[a] EXCEPT !.usn = u]
      BY <1>1, <2>1, <2>3, Zenon DEF RowPut
    <3> HIDE DEF row
    <3>2. Real(row[a]) /\ row[a].usn >= 1
      BY <3>1, <2>1, PutFields DEF Real
    <3> QED BY <3>2, RealIsThere
  <2> QED BY <2>2, <2>3
<1>8. \A a \in Attrs : a \notin won => row[a] = D.db[e.obj][a]
  BY <1>1, Zenon DEF RowPut
<1> HIDE DEF row
<1>9. \A o \in Objs : Exists(D, o) => Exists(E, o)
  BY <1>4, <1>5, <1>7, <1>8 DEF Exists
<1>10. ASSUME NEW o \in Objs, NEW a \in Attrs
       PROVE  E.db[o][a] = None \/ (Real(E.db[o][a]) /\ E.db[o][a].usn >= 1)
  BY <1>4, <1>7, <1>8 DEF DbOK
<1>11. ASSUME NEW o \in Leaves, E.db[o]["rdn"] = None
       PROVE  E.db[o]["val"] = None
  <2>1. o \in Objs /\ o # NCHead
    BY ObjsAssumption DEF Objs
  <2>2. CASE o # e.obj
    BY <2>1, <2>2, <1>4, <1>11 DEF DbOK
  <2>3. CASE o = e.obj
    <3>1. "rdn" \notin won /\ D.db[o]["rdn"] = None
      BY <2>1, <2>3, <1>4, <1>5, <1>7, <1>8, <1>11
    <3>2. ~Exists(D, o)
      BY <2>1, <3>1 DEF Exists
    <3>3. "rdn" \in DOMAIN e.md
      BY <3>2, <2>3 DEF NotEnoughAttrs
    <3>4. Newer(e.md["rdn"], D.db[o]["rdn"])
      <4>1. e.md["rdn"].ver \in Nat /\ e.md["rdn"].ver >= 1
        BY <3>3, <1>2, StampFields DEF Real
      <4> QED BY <4>1, <3>1 DEF Newer, None
    <3> QED BY <3>1, <3>3, <3>4, <2>3 DEF Winners, won
  <2> QED BY <2>2, <2>3
<1>12. ASSUME NEW o \in Leaves, E.db[o]["rdn"] # None
       PROVE  Exists(E, ParentOf(o, E.db[o]["rdn"]))
  <2>1. o \in Objs /\ ParentOf(o, E.db[o]["rdn"]) \in Objs
    BY ParentOfType DEF Objs
  <2>2. CASE E.db[o]["rdn"] = D.db[o]["rdn"]
    <3>1. Exists(D, ParentOf(o, D.db[o]["rdn"]))
      BY <2>2, <1>12 DEF DbOK
    <3> QED BY <3>1, <2>1, <2>2, <1>9
  <2>3. CASE E.db[o]["rdn"] # D.db[o]["rdn"]
    <3>1. o = e.obj /\ "rdn" \in won /\ E.db[o]["rdn"] = row["rdn"]
      BY <2>1, <2>3, <1>4, <1>5, <1>8
    <3>2. CASE orphan
      <4>1. row["rdn"] = [ver |-> e.md["rdn"].ver + 1, id |-> id, ousn |-> u, lf |-> TRUE, usn |-> u]
        BY <3>1, <3>2, <1>1, <1>5, Zenon DEF row, RowPut
      <4>2. ParentOf(o, E.db[o]["rdn"]) = NCHead
        <5>1. row["rdn"].lf = TRUE
          BY <4>1
        <5> QED BY <3>1, <5>1, LostAndFoundParent
      <4> QED BY <4>2 DEF Exists
    <3>3. CASE ~orphan
      <4>1. row["rdn"] = [e.md["rdn"] EXCEPT !.usn = u]
        BY <3>1, <3>3, <1>1, <1>5, Zenon DEF row, RowPut
      <4>2. e.md["rdn"] \in Stamps
        BY <3>1, <1>2, <1>6
      <4>3. row["rdn"].lf = e.md["rdn"].lf
        BY <4>1, <4>2, PutFields
      <4>4. ParentOf(o, E.db[o]["rdn"]) = ParentOf(e.obj, e.md["rdn"])
        BY <3>1, <4>3, ParentOfLf
      <4>5. Exists(D, ParentOf(e.obj, e.md["rdn"]))
        BY <3>1, <3>3 DEF MissingParent, orphan, won
      <4> QED BY <4>4, <4>5, <2>1, <1>9
    <3> QED BY <3>2, <3>3
  <2> QED BY <2>2, <2>3
<1>13. DbOK(E)
  BY <1>10, <1>11, <1>12 DEF DbOK
<1> QED BY <1>9, <1>13 DEF E, row, won, orphan

\* A dynamic object without children disappears.
LEMMA ExpireDbOK ==
  ASSUME NEW D \in Databases, DbOK(D), NEW o \in Leaves,
         \A c \in Leaves : Exists(D, c) => ParentOf(c, D.db[c]["rdn"]) # o
  PROVE  DbOK(WrittenRow(D, o, [a \in Attrs |-> None]))
<1> DEFINE row == [a \in Attrs |-> None]
           E == WrittenRow(D, o, row)
<1>1. o \in Objs /\ o # NCHead
  BY ObjsAssumption DEF Objs
<1>2. row \in [Attrs -> Stamps] /\ \A a \in Attrs : row[a] = None
  BY NoneType
<1> HIDE DEF row
<1>3. \A p \in Objs : E.db[p] = IF p = o THEN row ELSE D.db[p]
  BY <1>1, <1>2, RowType
<1> HIDE DEF E
<1>4. "rdn" \in Attrs /\ "val" \in Attrs /\ \A p \in Leaves : p \in Objs
  BY DEF Attrs, Objs
<1>5. \A p \in Objs, a \in Attrs : E.db[p][a] = None \/ (Real(E.db[p][a]) /\ E.db[p][a].usn >= 1)
  BY <1>2, <1>3 DEF DbOK
<1>6. \A p \in Leaves : E.db[p]["rdn"] = None => E.db[p]["val"] = None
  BY <1>2, <1>3, <1>4 DEF DbOK
<1>7. ASSUME NEW p \in Leaves, E.db[p]["rdn"] # None
      PROVE  Exists(E, ParentOf(p, E.db[p]["rdn"]))
  <2>1. p \in Objs /\ p # o /\ E.db[p] = D.db[p]
    BY <1>2, <1>3, <1>4, <1>7
  <2> DEFINE q == ParentOf(p, D.db[p]["rdn"])
  <2>2. q \in Objs
    BY <2>1, ParentOfType
  <2>3. D.db[p]["rdn"] # None
    BY <2>1, <1>7
  <2>4. Exists(D, q) /\ q # o
    BY <2>3 DEF DbOK, Exists
  <2> HIDE DEF q
  <2>5. Exists(E, q)
    BY <2>2, <2>4, <1>3 DEF Exists
  <2> QED BY <2>1, <2>5 DEF q
<1>8. DbOK(E)
  BY <1>5, <1>6, <1>7 DEF DbOK
<1> QED BY <1>8 DEF E, row

LEMMA NoObjs == ObjsOK({}) /\ Full({}) /\ NoReply.objs = {} /\ NoCall.reply = NoReply
BY DEF ObjsOK, Full, NoReply, NoCall

\* A set of objects with one less.
LEMMA FewerObjs ==
  ASSUME NEW objs, NEW less, less \subseteq objs
  PROVE  (ObjsOK(objs) => ObjsOK(less)) /\ (Full(objs) => Full(less))
BY DEF ObjsOK, Full

LEMMA CommSet ==
  ASSUME TypeInv, CommOK, NEW d \in Servers, NEW c, NEW r, CallOK(c, r),
         cyc' = [cyc EXCEPT ![d] = c], rpc' = [rpc EXCEPT ![d] = r]
  PROVE  CommOK'
BY DEF CommOK, TypeInv, CommType

LEMMA SameShape ==
  /\ DbsOK /\ UNCHANGED <<live, disk, image>> => DbsOK'
  /\ OpenOK /\ UNCHANGED <<live, pending>> => OpenOK'
  /\ CommOK /\ UNCHANGED <<cyc, rpc>> => CommOK'
BY DEF DbsOK, OpenOK, CommOK

LEMMA NextPacketShape ==
  ASSUME TypeInv, CommOK, NEW d \in Servers, NEW c \in Cycles, NextPacket(d, c)
  PROVE  CommOK'
<1> DEFINE c2 == [c EXCEPT !.pc = "wait", !.pkt = NoReply]
           r2 == IF rpc[d].st # "none" /\ rpc[d].req = c.req THEN rpc[d] ELSE Sent(c.req)
<1>1. cyc' = [cyc EXCEPT ![d] = c2] /\ rpc' = [rpc EXCEPT ![d] = r2] /\ rpc[d] \in Calls
  BY DEF NextPacket, TypeInv, CommType
<1>2. c2.pc = "wait" /\ c2.pkt = NoReply /\ c2.req = c.req
  BY DEF Cycles
<1>3. CallOK(cyc[d], rpc[d])
  BY DEF CommOK
<1>4. CASE r2 = rpc[d] /\ rpc[d].st # "none" /\ rpc[d].req = c.req
  <2> HIDE DEF c2, r2
  <2>1. CallOK(c2, r2)
    BY <1>2, <1>3, <1>4, NoObjs DEF CallOK
  <2> QED BY <1>1, <2>1, CommSet
<1>5. CASE r2 = Sent(c.req)
  <2>1. r2.st = "sent" /\ r2.req = c.req /\ r2.reply = NoReply
    BY <1>5, SentType, CycleFields
  <2> HIDE DEF c2, r2
  <2>2. CallOK(c2, r2)
    BY <1>2, <2>1, NoObjs DEF CallOK
  <2> QED BY <1>1, <2>2, CommSet
<1> QED BY <1>4, <1>5

LEMMA LeaveShape ==
  ASSUME TypeInv, CommOK, NEW d \in Servers, NEW c \in Cycles, Leave(d, c)
  PROVE  CommOK'
<1> DEFINE c2 == [c EXCEPT !.pc = "labort", !.pkt = NoReply]
<1>1. cyc' = [cyc EXCEPT ![d] = c2] /\ rpc' = [rpc EXCEPT ![d] = NoCall]
  BY DEF Leave
<1>2. c2.pc = "labort" /\ c2.pkt = NoReply
  BY DEF Cycles
<1>3. NoCall.st = "none"
  BY DEF NoCall
<1> HIDE DEF c2
<1>4. CallOK(c2, NoCall)
  BY <1>2, <1>3, NoObjs DEF CallOK
<1> QED BY <1>1, <1>4, CommSet

LEMMA DownShape ==
  ASSUME TypeInv, CommOK, NEW s \in Servers, Down(s)
  PROVE  CommOK'
<1> DEFINE Gone(d) == [rpc[d] EXCEPT !.st = "failed"]
<1>1. /\ \A d \in Servers : d # s => cyc'[d] = cyc[d]
      /\ cyc'[s] = Idle /\ rpc'[s] = NoCall
      /\ \A d \in Servers : d # s => rpc'[d] = IF cyc[d].src = s /\ rpc[d].st \in {"sent", "marked"}
                                               THEN Gone(d) ELSE rpc[d]
  BY DEF Down, TypeInv, CommType
<1>2. CallOK(Idle, NoCall)
  <2>1. Idle.pc = "idle" /\ Idle.pkt = NoReply /\ NoCall.st = "none"
    BY DEF Idle, NoCall
  <2> QED BY <2>1, NoObjs DEF CallOK
<1>3. ASSUME NEW d \in Servers, rpc[d].st \in {"sent", "marked"}
      PROVE  CallOK(cyc[d], Gone(d))
  <2>1. CallOK(cyc[d], rpc[d]) /\ rpc[d] \in Calls
    BY DEF CommOK, TypeInv, CommType
  <2>2. Gone(d).st = "failed" /\ Gone(d).req = rpc[d].req /\ Gone(d).reply = rpc[d].reply
    BY <2>1 DEF Calls
  <2> HIDE DEF Gone
  <2> QED BY <2>1, <2>2, <1>3 DEF CallOK
<1> HIDE DEF Gone
<1> QED BY <1>1, <1>2, <1>3 DEF CommOK

\* What the source ships are writes, and with a request for all attributes each
\* leaf comes with its name.
LEMMA ReplyShape ==
  ASSUME TypeInv, ShapeInv, NEW d \in Servers, rpc[d].st = "marked", NEW visited, visited \subseteq Objs,
         NEW more \in BOOLEAN
  PROVE  /\ ObjsOK(Reply(d, visited, more).objs)
         /\ rpc[d].req.full => Full(Reply(d, visited, more).objs)
<1> DEFINE s    == cyc[d].src
           D    == live[s]
           from == rpc[d].from
           req  == rpc[d].req
           V    == IF req.full THEN NoVec ELSE cyc[d].utd
           objs == {[obj |-> o, place |-> Place(D, visited, req.anc, o),
                 md  |-> [a \in ReplFilterPropsToShip(D, o, from.prop, V) |-> [D.db[o][a] EXCEPT !.usn = 0]]] :
                   o \in {o \in WithAncestors(D, visited, req.anc) : ReplFilterPropsToShip(D, o, from.prop, V) # {}}}
<1>1. /\ cyc[d] \in Cycles /\ rpc[d] \in Calls /\ s \in Servers /\ D \in Databases
  BY CallTypes
<1>2. from \in USNVectors /\ req \in Requests /\ req.anc \in BOOLEAN /\ req.full \in BOOLEAN
  BY <1>1, CallFields, RequestFields
<1>3. Reply(d, visited, more).objs = objs
  BY DEF Reply
<1>4. DbOK(D)
  BY <1>1 DEF ShapeInv, DbsOK
<1>5. V \in Vectors
  BY <1>1, Constants, CycleFields
<1>6. req.full => from.prop = 0 /\ V = NoVec
  BY DEF ShapeInv, CommOK, CallOK
<1> HIDE DEF D, V, from, req
<1>7. ASSUME NEW e \in objs
      PROVE  /\ e \in Entries /\ e.obj \in Objs /\ DOMAIN e.md # {} /\ DOMAIN e.md \subseteq Attrs
             /\ DOMAIN e.md = ReplFilterPropsToShip(D, e.obj, from.prop, V)
             /\ \A a \in DOMAIN e.md : e.md[a] = [D.db[e.obj][a] EXCEPT !.usn = 0]
  <2>1. /\ e \in Entries /\ DOMAIN e.md # {}
        /\ DOMAIN e.md = ReplFilterPropsToShip(D, e.obj, from.prop, V)
        /\ \A a \in DOMAIN e.md : e.md[a] = [D.db[e.obj][a] EXCEPT !.usn = 0]
    BY <1>1, <1>2, ReplyObjs
  <2> QED BY <2>1, EntryFields
<1> HIDE DEF objs
<1>8. ASSUME NEW o \in Objs, NEW a \in ReplFilterPropsToShip(D, o, from.prop, V)
      PROVE  a \in Attrs /\ D.db[o][a] \in Stamps /\ Real(D.db[o][a]) /\ D.db[o][a] # None
  <2>1. a \in Attrs /\ D.db[o][a].ousn > (IF D.db[o][a].id = NoId THEN 0 ELSE V[D.db[o][a].id])
    BY DEF ReplFilterPropsToShip
  <2>2. D.db[o][a] \in Stamps
    BY <1>1, <2>1, StampOf
  <2>3. D.db[o][a] # None
    BY <2>1 DEF None
  <2> QED BY <1>4, <2>1, <2>2, <2>3 DEF DbOK
<1>9. ObjsOK(objs)
  <2> SUFFICES ASSUME NEW e \in objs, NEW a \in DOMAIN e.md PROVE Real(e.md[a])
    BY DEF ObjsOK
  <2>1. e.md[a] = [D.db[e.obj][a] EXCEPT !.usn = 0] /\ D.db[e.obj][a] \in Stamps /\ Real(D.db[e.obj][a])
    BY <1>7, <1>8
  <2> QED BY <2>1, PutFields DEF Real
<1>10. ASSUME req.full
       PROVE  Full(objs)
  <2> SUFFICES ASSUME NEW e \in objs, e.obj # NCHead PROVE "rdn" \in DOMAIN e.md
    BY DEF Full
  <2>1. e.obj \in Leaves
    BY <1>7 DEF Objs
  <2>2. PICK a \in DOMAIN e.md : TRUE
    BY <1>7
  <2>3. a \in Attrs /\ D.db[e.obj][a] # None
    BY <1>7, <1>8
  <2>4. D.db[e.obj]["rdn"] # None
    BY <1>4, <2>1, <2>3 DEF DbOK, Attrs
  <2> DEFINE x == D.db[e.obj]["rdn"]
  <2>5. x \in Stamps /\ Real(x) /\ x.usn >= 1
    <3>1. e.obj \in Objs /\ "rdn" \in Attrs
      BY <1>7 DEF Attrs
    <3> QED BY <1>1, <1>4, <2>4, <3>1, StampOf DEF DbOK
  <2> HIDE DEF x
  <2>6. x.id \in Ids /\ x.usn \in Nat /\ x.ousn \in Nat /\ x.ousn >= 1
    BY <2>5, StampFields DEF Real
  <2>7. V[x.id] = 0 /\ from.prop = 0
    BY <1>6, <1>10, <2>6 DEF NoVec
  <2>8. "rdn" \in ReplFilterPropsToShip(D, e.obj, from.prop, V)
    BY <2>5, <2>6, <2>7 DEF ReplFilterPropsToShip, x, Attrs
  <2> QED BY <2>8, <1>7
<1> QED BY <1>3, <1>9, <1>10 DEF req

\* One database changes and keeps its shape.
LEMMA StoreShape ==
  ASSUME TypeInv, ShapeInv, NEW s \in Servers, NEW D, DbOK(D),
         live' = [live EXCEPT ![s] = D], disk' \in {disk, [disk EXCEPT ![s] = D]}, image' = image,
         pending' = pending \/ \E w \in pending[s] : pending' = [pending EXCEPT ![s] = @ \ {w}],
         \A w \in pending'[s] : WriteOK(D, w)
  PROVE  DbsOK' /\ OpenOK'
<1>1. live'[s] = D /\ \A t \in Servers : t # s => live'[t] = live[t]
  BY DEF TypeInv, StoreType
<1>2. \A t \in Servers : disk'[t] \in {disk[t], live'[t]}
  BY <1>1 DEF TypeInv, StoreType
<1>3. \A t \in Servers : pending'[t] \subseteq pending[t]
  BY DEF TypeInv, StoreType
<1>4. DbsOK'
  BY <1>1, <1>2 DEF ShapeInv, DbsOK
<1>5. OpenOK'
  BY <1>1, <1>3 DEF ShapeInv, OpenOK
<1> QED BY <1>4, <1>5

\* A durable commit that leaves the objects alone.
LEMMA DurableShape ==
  ASSUME TypeInv, ShapeInv, NEW s \in Servers, NEW D, D.db = live[s].db, DurableCommit(s, D),
         UNCHANGED <<image, pending>>
  PROVE  DbsOK' /\ OpenOK'
<1>1. DbOK(live[s]) /\ \A w \in pending[s] : WriteOK(live[s], w)
  BY DEF ShapeInv, DbsOK, OpenOK
<1>2. DbOK(D) /\ \A w \in pending[s] : WriteOK(D, w)
  BY <1>1, SameDb
<1> QED BY <1>2, StoreShape DEF DurableCommit

LEMMA InitShape == Init => ShapeInv
<1> SUFFICES ASSUME Init PROVE ShapeInv
  OBVIOUS
<1>1. \A s \in Servers : /\ live[s].db = [o \in Objs |-> [a \in Attrs |-> None]] /\ disk[s] = live[s]
                         /\ image[s] = NoImage /\ pending[s] = {} /\ cyc[s] = Idle /\ rpc[s] = NoCall
  BY DEF Init
<1>2. ASSUME NEW D, D.db = [o \in Objs |-> [a \in Attrs |-> None]]
      PROVE  DbOK(D)
  <2>1. \A o \in Objs : D.db[o]["rdn"] = None /\ D.db[o]["val"] = None
    BY <1>2 DEF Attrs
  <2> QED BY <2>1 DEF DbOK, Attrs, Objs
<1>3. CallOK(Idle, NoCall)
  <2>1. Idle.pc = "idle" /\ Idle.pkt = NoReply /\ NoCall.st = "none"
    BY DEF Idle, NoCall
  <2> QED BY <2>1, NoObjs DEF CallOK
<1>4. DbsOK
  BY <1>1, <1>2 DEF DbsOK
<1>5. OpenOK /\ CommOK
  BY <1>1, <1>3 DEF OpenOK, CommOK
<1> QED BY <1>4, <1>5 DEF ShapeInv

LEMMA OriginatingWriteShape ==
  ASSUME TypeInv, ShapeInv, NEW s \in Servers, NEW o \in Objs, NEW a \in Attrs, OriginatingWrite(s, o, a)
  PROVE  ShapeInv'
<1> DEFINE x == [ver |-> live[s].db[o][a].ver + 1, id |-> curId[s],
                 ousn |-> usn[s], lf |-> live[s].db[o][a].lf, usn |-> usn[s]]
           w == [obj |-> o, attr |-> a, stamp |-> x]
<1>1. live[s] \in Databases /\ curId[s] \in Ids /\ usn[s] \in Nat /\ usn[s] >= 1
  BY DEF TypeInv, StoreType
<1>2. /\ pending' = [pending EXCEPT ![s] = @ \cup {w}] /\ \A v \in pending[s] : v.obj # o
      /\ UNCHANGED <<live, disk, image, cyc, rpc>>
      /\ \/ a = "rdn" /\ o \in Leaves \ born /\ Exists(live[s], ParentOf(o, None))
         \/ (a = "rdn" => o \in Leaves) /\ Exists(live[s], o)
  BY DEF OriginatingWrite
<1>3. live[s].db[o][a].ver \in Nat /\ live[s].db[o][a].lf \in BOOLEAN
  BY <1>1, StampOf, StampFields
<1>4. w.obj = o /\ w.attr = a /\ w.stamp = x
  OBVIOUS
<1>5. /\ x.ver = live[s].db[o][a].ver + 1 /\ x.usn = x.ousn /\ x.lf = live[s].db[o][a].lf
      /\ x.id \in Ids /\ x.ousn = usn[s]
  BY <1>1
<1> HIDE DEF x, w
<1>6. Real(x)
  BY <1>1, <1>3, <1>5, IdsPositive DEF Real
<1>7. ASSUME a = "rdn"
      PROVE  o # NCHead /\ Exists(live[s], ParentOf(o, x))
  <2>1. o \in Leaves /\ o # NCHead
    BY <1>2, <1>7, ObjsAssumption
  <2>2. DbOK(live[s])
    BY DEF ShapeInv, DbsOK
  <2>3. CASE live[s].db[o]["rdn"] # None
    <3>1. Exists(live[s], ParentOf(o, live[s].db[o]["rdn"]))
      BY <2>1, <2>2, <2>3 DEF DbOK
    <3> QED BY <3>1, <2>1, <1>5, <1>7, ParentOfLf
  <2>4. CASE live[s].db[o]["rdn"] = None
    <3>1. ~Exists(live[s], o)
      BY <2>1, <2>4 DEF Exists
    <3>2. Exists(live[s], ParentOf(o, None)) /\ x.lf = None.lf
      BY <3>1, <1>2, <1>5, <1>7, <2>4
    <3> QED BY <3>2, <2>1, ParentOfLf
  <2> QED BY <2>3, <2>4
<1>8. a # "rdn" => Exists(live[s], o)
  BY <1>2
<1>9. WriteOK(live[s], w)
  BY <1>4, <1>5, <1>6, <1>7, <1>8 DEF WriteOK
<1>10. OpenOK'
  <2> SUFFICES ASSUME NEW t \in Servers, NEW v \in pending'[t]
               PROVE  WriteOK(live[t], v) /\ \A u \in pending'[t] : u.obj = v.obj => u = v
    BY <1>2 DEF OpenOK
  <2>1. CASE t # s
    <3>1. pending'[t] = pending[t]
      BY <1>2, <2>1 DEF TypeInv, StoreType
    <3> QED BY <3>1 DEF ShapeInv, OpenOK
  <2>2. CASE t = s
    <3>1. pending'[s] = pending[s] \cup {w}
      BY <1>2 DEF TypeInv, StoreType
    <3> QED BY <2>2, <3>1, <1>2, <1>4, <1>9 DEF ShapeInv, OpenOK
  <2> QED BY <2>1, <2>2
<1> QED BY <1>2, <1>10, SameShape DEF ShapeInv

\* An open write outlives what others do to the database.
LEMMA StillOpen ==
  ASSUME NEW D, NEW E, NEW w \in Writes, WriteOK(D, w), E.db[w.obj] = D.db[w.obj],
         \A o \in Objs : Exists(D, o) => Exists(E, o)
  PROVE  WriteOK(E, w)
<1>1. w.obj \in Objs
  BY DEF Writes
<1>2. ParentOf(w.obj, w.stamp) \in Objs
  BY <1>1, ParentOfType
<1> QED BY <1>1, <1>2 DEF WriteOK

LEMMA CommitWriteShape ==
  ASSUME TypeInv, ShapeInv, NEW s \in Servers, CommitWrite(s) \/ RollbackWrite(s)
  PROVE  ShapeInv'
<1>1. CASE CommitWrite(s)
  <2>1. PICK w \in pending[s] :
          /\ LazyCommit(s, [live[s] EXCEPT !.db[w.obj][w.attr] = w.stamp])
          /\ pending' = [pending EXCEPT ![s] = @ \ {w}]
          /\ UNCHANGED <<image, curId, usn, cyc, rpc, born, expired, count>>
    BY <1>1 DEF CommitWrite
  <2>2. w \in Writes /\ live[s] \in Databases /\ \A v \in pending[s] : v \in Writes
    BY DEF TypeInv, StoreType
  <2>3. w.obj \in Objs /\ w.attr \in Attrs /\ w.stamp \in Stamps
    BY <2>2 DEF Writes
  <2> DEFINE E == Written(live[s], w.obj, w.attr, w.stamp)
  <2>4. DbOK(live[s]) /\ \A v \in pending[s] : WriteOK(live[s], v) /\ (v.obj = w.obj => v = w)
    BY DEF ShapeInv, DbsOK, OpenOK
  <2>5. DbOK(E) /\ \A o \in Objs : Exists(live[s], o) => Exists(E, o)
    BY <2>2, <2>4, WriteDbOK
  <2>6. live' = [live EXCEPT ![s] = E] /\ disk' = disk
    BY <2>1 DEF LazyCommit, Written
  <2>7. ASSUME NEW v \in pending'[s]
        PROVE  WriteOK(E, v)
    <3>1. v \in pending[s] /\ v # w
      BY <2>1 DEF TypeInv, StoreType
    <3>2. v.obj # w.obj /\ v.obj \in Objs /\ v \in Writes /\ WriteOK(live[s], v)
      BY <3>1, <2>2, <2>4 DEF Writes
    <3>3. E.db[v.obj] = live[s].db[v.obj]
      <4>1. E.db = [live[s].db EXCEPT ![w.obj][w.attr] = w.stamp]
        BY <2>2 DEF Written, Databases
      <4>2. live[s].db \in [Objs -> [Attrs -> Stamps]]
        BY <2>2, DbFields
      <4> QED BY <3>2, <4>1, <4>2
    <3> HIDE DEF E
    <3> QED BY <3>2, <3>3, <2>5, StillOpen
  <2> HIDE DEF E
  <2>8. DbsOK' /\ OpenOK'
    BY <2>1, <2>5, <2>6, <2>7, StoreShape
  <2> QED BY <2>1, <2>8, SameShape DEF ShapeInv
<1>2. CASE RollbackWrite(s)
  <2>1. PICK w \in pending[s] :
          /\ pending' = [pending EXCEPT ![s] = @ \ {w}]
          /\ UNCHANGED <<live, disk, image, curId, usn, cyc, rpc, born, expired, count>>
    BY <1>2 DEF RollbackWrite
  <2>2. \A t \in Servers : pending'[t] \subseteq pending[t]
    BY <2>1 DEF TypeInv, StoreType
  <2>3. OpenOK'
    BY <2>1, <2>2 DEF ShapeInv, OpenOK
  <2> QED BY <2>1, <2>3, SameShape DEF ShapeInv
<1> QED BY <1>1, <1>2

LEMMA FlushShape ==
  ASSUME TypeInv, ShapeInv, NEW s \in Servers, Flush(s)
  PROVE  ShapeInv'
<1>1. disk' = [disk EXCEPT ![s] = live[s]] /\ UNCHANGED <<live, image, pending, cyc, rpc>>
  BY DEF Flush
<1>2. DbsOK'
  BY <1>1 DEF ShapeInv, DbsOK, TypeInv, StoreType
<1> QED BY <1>1, <1>2, SameShape DEF ShapeInv

LEMMA ExpireShape ==
  ASSUME TypeInv, ShapeInv, NEW s \in Servers, NEW o \in Leaves, Expire(s, o)
  PROVE  ShapeInv'
<1> DEFINE E == WrittenRow(live[s], o, [a \in Attrs |-> None])
<1>1. /\ live' = [live EXCEPT ![s] = E] /\ disk' = disk /\ pending[s] = {}
      /\ \A c \in Leaves : Exists(live[s], c) => ParentOf(c, live[s].db[c]["rdn"]) # o
      /\ UNCHANGED <<image, pending, cyc, rpc>>
  BY DEF Expire, LazyCommit, WrittenRow
<1>2. live[s] \in Databases /\ DbOK(live[s])
  BY DEF TypeInv, StoreType, ShapeInv, DbsOK
<1>3. DbOK(E)
  BY <1>1, <1>2, ExpireDbOK
<1> HIDE DEF E
<1>4. DbsOK' /\ OpenOK'
  BY <1>1, <1>3, StoreShape
<1> QED BY <1>1, <1>4, SameShape DEF ShapeInv

\* A server that goes down comes back with a database of that shape.
LEMMA RebootShape ==
  ASSUME TypeInv, ShapeInv, NEW s \in Servers, NEW D, DbOK(D), live' = [live EXCEPT ![s] = D],
         disk' \in {disk, [disk EXCEPT ![s] = D]}, image' = image, Down(s)
  PROVE  ShapeInv'
<1>1. CommOK' /\ pending' = [pending EXCEPT ![s] = {}]
  BY DownShape DEF ShapeInv, Down
<1>2. live'[s] = D /\ \A t \in Servers : t # s => live'[t] = live[t]
  BY DEF TypeInv, StoreType
<1>3. \A t \in Servers : disk'[t] \in {disk[t], live'[t]}
  BY <1>2 DEF TypeInv, StoreType
<1>4. DbsOK'
  BY <1>2, <1>3 DEF ShapeInv, DbsOK
<1>5. pending'[s] = {} /\ \A t \in Servers : t # s => pending'[t] = pending[t]
  BY <1>1 DEF TypeInv, StoreType
<1>6. OpenOK'
  BY <1>2, <1>5 DEF ShapeInv, OpenOK
<1> QED BY <1>1, <1>4, <1>6 DEF ShapeInv

LEMMA CrashShape ==
  ASSUME TypeInv, ShapeInv, NEW s \in Servers, Crash(s)
  PROVE  ShapeInv'
<1>1. live' = [live EXCEPT ![s] = disk[s]] /\ Down(s) /\ UNCHANGED <<disk, image>>
  BY DEF Crash
<1>2. DbOK(disk[s])
  BY DEF ShapeInv, DbsOK
<1> QED BY <1>1, <1>2, RebootShape

LEMMA BackupShape ==
  ASSUME TypeInv, ShapeInv, NEW s \in Servers, Backup(s)
  PROVE  ShapeInv'
<1> DEFINE im == [db |-> live[s], backupUsn |-> DBGetHighestCommittedUSN(s), usn |-> usn[s]]
<1>1. /\ live' = [live EXCEPT ![s] = live[s]] /\ disk' = [disk EXCEPT ![s] = live[s]]
      /\ image' = [image EXCEPT ![s] = im] /\ UNCHANGED <<pending, cyc, rpc>>
  BY DEF Backup, DurableCommit
<1>2. DbOK(live[s]) /\ im.db = live[s]
  BY DEF ShapeInv, DbsOK
<1> HIDE DEF im
<1>3. live' = live
  BY <1>1 DEF TypeInv, StoreType
<1>4. DbsOK'
  BY <1>1, <1>2, <1>3 DEF ShapeInv, DbsOK, TypeInv, StoreType
<1> QED BY <1>1, <1>3, <1>4, SameShape DEF ShapeInv

LEMMA RetireDb ==
  ASSUME NEW D \in Databases, NEW i \in Ids, NEW n \in Nat, NEW new \in Ids
  PROVE  draRetireInvocationID(D, i, n, new).db = D.db
BY DEF draRetireInvocationID, Databases

LEMMA RestoreShape ==
  ASSUME TypeInv, ShapeInv, NEW s \in Servers, Restore(s)
  PROVE  ShapeInv'
<1> DEFINE D == image[s].db
           n == image[s].backupUsn
           E == draRetireInvocationID(D, D.id, n, count.ids + 1)
<1>1. /\ count.ids < MaxIds /\ image[s] # NoImage /\ Used("ids")
      /\ live' = [live EXCEPT ![s] = E] /\ disk' = [disk EXCEPT ![s] = E]
      /\ Down(s) /\ UNCHANGED image
  BY DEF Restore, DurableCommit
<1>2. count.ids + 1 \in Ids
  BY <1>1, NewId DEF TypeInv
<1>3. D \in Databases /\ n \in Nat
  BY <1>1 DEF TypeInv, StoreType, Images
<1>4. DbOK(D)
  BY <1>1 DEF ShapeInv, DbsOK
<1> HIDE DEF D, n
<1>5. D.id \in Ids
  BY <1>3, DbFields
<1>6. E.db = D.db
  BY <1>2, <1>3, <1>5, RetireDb
<1> HIDE DEF E
<1>7. DbOK(E)
  BY <1>4, <1>6, SameDb
<1> QED BY <1>1, <1>7, RebootShape

LEMMA DraHostWriteableNcShape ==
  ASSUME TypeInv, ShapeInv, NEW s \in Servers, DraHostWriteableNc(s)
  PROVE  ShapeInv'
<1> DEFINE E == draRetireInvocationID(live[s], curId[s], DBGetHighestCommittedUSN(s), count.ids + 1)
<1>1. /\ count.ids < MaxIds /\ Used("ids") /\ (DurableCommit(s, E) \/ UNCHANGED <<live, disk>>)
      /\ UNCHANGED <<image, pending, cyc, rpc>>
  BY DEF DraHostWriteableNc
<1>2. count.ids + 1 \in Ids
  BY <1>1, NewId DEF TypeInv
<1>3. live[s] \in Databases /\ curId[s] \in Ids
  BY DEF TypeInv, StoreType
<1>4. DBGetHighestCommittedUSN(s) \in Nat
  BY HighestCommittedOK
<1>5. E.db = live[s].db
  BY <1>2, <1>3, <1>4, RetireDb
<1> HIDE DEF E
<1> QED BY <1>1, <1>5, DurableShape, SameShape DEF ShapeInv

LEMMA StartSyncShape ==
  ASSUME TypeInv, ShapeInv, NEW d \in Servers, NEW s \in Servers, StartSync(d, s)
  PROVE  ShapeInv'
<1> DEFINE reps == live[d].reps[s]
           req  == Request(reps.vec, reps.id, FALSE, FALSE)
           V    == UpToDateVec_Read(d, DBGetHighestCommittedUSN(d))
           c    == [Idle EXCEPT !.pc = "wait", !.src = s, !.req = req, !.utd = V]
<1>1. /\ cyc' = [cyc EXCEPT ![d] = c] /\ rpc' = [rpc EXCEPT ![d] = Sent(req)]
      /\ UNCHANGED <<live, disk, image, pending>>
  BY DEF StartSync
<1>2. reps \in [id : Ids \cup {NoId}, vec : USNVectors]
  BY DbFields DEF TypeInv, StoreType
<1>3. req \in Requests
  BY <1>2, RequestType
<1> HIDE DEF req, V
<1>4. c.pc = "wait" /\ c.req = req /\ c.pkt = NoReply
  BY DEF Idle
<1>5. Sent(req).st = "sent" /\ Sent(req).req = req /\ Sent(req).reply = NoReply
  BY <1>3, SentType
<1> HIDE DEF c
<1>6. CallOK(c, Sent(req))
  BY <1>4, <1>5, NoObjs DEF CallOK
<1>7. CommOK'
  BY <1>1, <1>6, CommSet DEF ShapeInv
<1> QED BY <1>1, <1>7, SameShape DEF ShapeInv

LEMMA GetNCChangesMarkShape ==
  ASSUME TypeInv, ShapeInv, NEW d \in Servers, GetNCChangesMark(d)
  PROVE  ShapeInv'
<1> DEFINE s == cyc[d].src
           f == RequestedFrom(s, cyc[d].utd, rpc[d].req)
           u == 1 + DBGetHighestCommittedUSN(s)
           r == [rpc[d] EXCEPT !.st = "marked", !.from = f, !.usnLowestC = u]
<1>1. /\ rpc[d].st = "sent"
      /\ rpc' = [rpc EXCEPT ![d].st = "marked", ![d].from = f, ![d].usnLowestC = u]
      /\ UNCHANGED <<live, disk, image, pending, cyc>>
  BY DEF GetNCChangesMark
<1>2. rpc[d] \in Calls /\ rpc[d].req \in Requests
  BY <1>1, CallTypes, CallFields
<1>3. rpc[d].req.full => f.prop = 0
  BY <1>2 DEF RequestedFrom, Requests, USNVectors
<1> HIDE DEF f, u
<1>4. r.st = "marked" /\ r.req = rpc[d].req /\ r.reply = rpc[d].reply /\ r.from = f
  BY <1>2 DEF Calls
<1>5. rpc' = [rpc EXCEPT ![d] = r] /\ cyc' = [cyc EXCEPT ![d] = cyc[d]]
  BY <1>1 DEF TypeInv, CommType, Calls
<1>6. CallOK(cyc[d], rpc[d])
  BY DEF ShapeInv, CommOK
<1> HIDE DEF r
<1>7. CallOK(cyc[d], r)
  BY <1>1, <1>3, <1>4, <1>6 DEF CallOK
<1>8. CommOK'
  BY <1>5, <1>7, CommSet DEF ShapeInv
<1> QED BY <1>1, <1>8, SameShape DEF ShapeInv

LEMMA DRA_GetNCChangesShape ==
  ASSUME TypeInv, ShapeInv, NEW d \in Servers, DRA_GetNCChanges(d)
  PROVE  ShapeInv'
<1>1. /\ rpc[d].st = "marked"
      /\ disk' = [disk EXCEPT ![cyc[d].src] = live[cyc[d].src]]
      /\ UNCHANGED <<live, image, curId, usn, pending, cyc, born, expired, count>>
  BY AnswerType, Zenon
<1>2. PICK visited \in SUBSET Objs, more \in BOOLEAN :
        rpc' = [rpc EXCEPT ![d] = [NoCall EXCEPT !.st = "reply", !.req = rpc[d].req,
                                                 !.reply = Reply(d, visited, more)]]
  BY AnswerType, Zenon
<1> DEFINE rep == Reply(d, visited, more)
           r == [NoCall EXCEPT !.st = "reply", !.req = rpc[d].req, !.reply = rep]
<1>3. ObjsOK(rep.objs) /\ (rpc[d].req.full => Full(rep.objs))
  BY <1>1, ReplyShape
<1> HIDE DEF rep
<1>4. r.st = "reply" /\ r.req = rpc[d].req /\ r.reply = rep
  BY DEF NoCall
<1>5. rpc' = [rpc EXCEPT ![d] = r] /\ cyc' = [cyc EXCEPT ![d] = cyc[d]]
  BY <1>1, <1>2 DEF TypeInv, CommType, rep
<1>6. CallOK(cyc[d], rpc[d])
  BY DEF ShapeInv, CommOK
<1> HIDE DEF r
<1>7. CallOK(cyc[d], r)
  BY <1>1, <1>3, <1>4, <1>6 DEF CallOK
<1>8. CommOK'
  BY <1>5, <1>7, CommSet DEF ShapeInv
<1>9. DbsOK'
  BY <1>1, CallTypes DEF ShapeInv, DbsOK, TypeInv, StoreType
<1> QED BY <1>1, <1>8, <1>9, SameShape DEF ShapeInv

LEMMA ReceivePacketShape ==
  ASSUME TypeInv, ShapeInv, NEW d \in Servers, ReceivePacket(d)
  PROVE  ShapeInv'
<1> DEFINE pkt == rpc[d].reply
           req == Request(pkt.to, pkt.id, FALSE, FALSE)
           c == [cyc[d] EXCEPT !.pc = "apply", !.pkt = pkt]
           r == IF pkt.more THEN Sent(req) ELSE NoCall
<1>1. cyc[d].pc = "wait" /\ rpc[d].st = "reply" /\ UNCHANGED <<live, disk, image, pending>>
  BY DEF ReceivePacket
<1>2. cyc[d] \in Cycles /\ rpc[d] \in Calls
  BY <1>1, CallTypes
<1>3. cyc' = [cyc EXCEPT ![d] = c] /\ rpc' = [rpc EXCEPT ![d] = r]
  BY <1>2 DEF ReceivePacket, TypeInv, CommType, Cycles
<1>4. pkt \in Replies
  BY <1>2, CallFields
<1>5. req \in Requests /\ req.anc = FALSE /\ req.full = FALSE
  BY <1>4, ReplyFields, RequestType
<1>6. NoCall.st = "none" /\ NoCall.req.full = FALSE /\ NoCall.req.anc = FALSE /\ NoCall.reply = NoReply
  BY DEF NoCall, NoRequest, Request
<1>7. r.st \in {"sent", "none"} /\ r.req.anc = FALSE /\ r.req.full = FALSE /\ r.reply = NoReply
  BY <1>5, <1>6, SentType
<1>8. c.pc = "apply" /\ c.pkt = pkt /\ c.req = cyc[d].req
  BY <1>2 DEF Cycles
<1>9. CallOK(cyc[d], rpc[d])
  BY DEF ShapeInv, CommOK
<1> HIDE DEF c, r
<1>10. CallOK(c, r)
  BY <1>1, <1>7, <1>8, <1>9, NoObjs DEF CallOK
<1>11. CommOK'
  BY <1>3, <1>10, CommSet DEF ShapeInv
<1> QED BY <1>1, <1>11, SameShape DEF ShapeInv

LEMMA UpdateNCShape ==
  ASSUME TypeInv, ShapeInv, NEW d \in Servers, UpdateNC(d)
  PROVE  ShapeInv'
<1> DEFINE c == cyc[d]
           e == First(c.pkt.objs)
<1>1. /\ c.pc = "apply" /\ c.pkt.objs # {}
      /\ UNCHANGED <<image, curId, pending, born, expired, count>>
  BY UpdateNCIs
<1>2. /\ c \in Cycles /\ c.src \in Servers /\ live[d] \in Databases
      /\ c.pkt \in Replies /\ c.pkt.objs \subseteq Entries /\ e \in c.pkt.objs
  BY <1>1, ApplyTypes
<1>3. ASSUME NEW q \in Requests, NextPacket(d, [c EXCEPT !.req = q])
      PROVE  CommOK'
  <2>1. [c EXCEPT !.req = q] \in Cycles
    BY <1>2 DEF Cycles
  <2> QED BY <1>3, <2>1, NextPacketShape DEF ShapeInv
<1>4. CASE NextPacket(d, [c EXCEPT !.req.full = TRUE]) /\ UNCHANGED <<live, disk, usn>>
  BY <1>1, <1>2, <1>3, <1>4, AskAgain, SameShape DEF ShapeInv
<1>5. CASE NextPacket(d, [c EXCEPT !.req.anc = TRUE]) /\ UNCHANGED <<live, disk, usn>>
  BY <1>1, <1>2, <1>3, <1>5, AskAgain, SameShape DEF ShapeInv
<1>6. CASE Leave(d, c) /\ UNCHANGED <<live, disk, usn>>
  BY <1>1, <1>2, <1>6, LeaveShape, SameShape DEF ShapeInv
<1>7. ASSUME ~NotEnoughAttrs(live[d], e), ~WriteConflict(d, e), UpdateRepObj(d, e, MissingParent(live[d], e))
      PROVE  ShapeInv'
  <2> DEFINE orphan == MissingParent(live[d], e)
             row == RowPut(live[d], e, Winners(live[d], e), orphan, curId[d], usn[d])
             E == WrittenRow(live[d], e.obj, row)
             p == [c.pkt EXCEPT !.objs = @ \ {e}]
  <2>1. /\ Winners(live[d], e) = {} => UNCHANGED <<live, disk, usn>>
        /\ Winners(live[d], e) # {} => /\ live' = [live EXCEPT ![d] = E] /\ UNCHANGED disk
        /\ cyc' = [cyc EXCEPT ![d].pkt.objs = @ \ {e}] /\ UNCHANGED rpc
    BY <1>7, UpdateRepObjIs
  <2>2. /\ e \in Entries /\ e.obj \in Objs /\ curId[d] \in Ids /\ usn[d] \in Nat /\ usn[d] >= 1
        /\ \A a \in DOMAIN e.md : Real(e.md[a])
        /\ DbOK(live[d]) /\ \A w \in pending[d] : w \in Writes /\ WriteOK(live[d], w)
    <3>1. e \in Entries /\ curId[d] \in Ids /\ usn[d] \in Nat /\ usn[d] >= 1
          /\ \A w \in pending[d] : w \in Writes
      BY <1>2 DEF TypeInv, StoreType
    <3>2. ObjsOK(c.pkt.objs) /\ DbOK(live[d]) /\ \A w \in pending[d] : WriteOK(live[d], w)
      BY DEF ShapeInv, CommOK, CallOK, DbsOK, OpenOK
    <3> QED BY <3>1, <3>2, <1>2, EntryFields DEF ObjsOK
  <2>3. DbsOK' /\ OpenOK'
    <3>1. CASE Winners(live[d], e) = {}
      BY <2>1, <3>1, <1>1, SameShape DEF ShapeInv
    <3>2. CASE Winners(live[d], e) # {}
      <4> HIDE DEF e
      <4>1. DbOK(E) /\ \A o \in Objs : Exists(live[d], o) => Exists(E, o)
        BY <1>2, <1>7, <2>2, RowDbOK
      <4>2. orphan \in BOOLEAN
        BY DEF MissingParent
      <4>3. row \in [Attrs -> Stamps]
        <5> HIDE DEF orphan
        <5> QED BY <1>2, <2>2, <4>2, RowPutOK, Zenon
      <4>4. \A o \in Objs : o # e.obj => E.db[o] = live[d].db[o]
        <5> HIDE DEF row
        <5> QED BY <1>2, <2>2, <4>3, RowType
      <4> HIDE DEF E
      <4>5. ASSUME NEW w \in pending'[d]
            PROVE  WriteOK(E, w)
        <5>1. w \in pending[d] /\ w.obj # e.obj
          BY <1>1, <1>7, <3>2 DEF WriteConflict
        <5>2. w.obj \in Objs /\ w \in Writes
          BY <5>1, <2>2 DEF Writes
        <5> QED BY <5>1, <5>2, <2>2, <4>1, <4>4, StillOpen
      <4> QED BY <1>1, <2>1, <3>2, <4>1, <4>5, StoreShape
    <3> QED BY <3>1, <3>2
  <2>4. CommOK'
    <3>1. /\ p \in Replies /\ p.objs \subseteq c.pkt.objs
          /\ cyc' = [cyc EXCEPT ![d] = [c EXCEPT !.pkt = p]] /\ rpc' = [rpc EXCEPT ![d] = rpc[d]]
      <4>1. p.objs = c.pkt.objs \ {e}
        BY <1>2 DEF Replies
      <4> QED BY <2>1, <4>1, RestOfPacket DEF TypeInv, CommType
    <3> HIDE DEF p
    <3> DEFINE c2 == [c EXCEPT !.pkt = p]
    <3>2. c2.pc = "apply" /\ c2.pkt = p /\ c2.req = c.req
      BY <1>1, <1>2 DEF Cycles
    <3>3. CallOK(c, rpc[d])
      BY DEF ShapeInv, CommOK
    <3> HIDE DEF c2
    <3>4. CallOK(c2, rpc[d])
      BY <1>1, <3>1, <3>2, <3>3, FewerObjs DEF CallOK
    <3> QED BY <3>1, <3>4, CommSet DEF ShapeInv, c2
  <2> QED BY <2>3, <2>4 DEF ShapeInv
<1> HIDE DEF c, e
<1>8. \/ NextPacket(d, [c EXCEPT !.req.full = TRUE]) /\ UNCHANGED <<live, disk, usn>>
      \/ NextPacket(d, [c EXCEPT !.req.anc = TRUE]) /\ UNCHANGED <<live, disk, usn>>
      \/ Leave(d, c) /\ UNCHANGED <<live, disk, usn>>
      \/ /\ ~NotEnoughAttrs(live[d], e) /\ ~WriteConflict(d, e)
         /\ UpdateRepObj(d, e, MissingParent(live[d], e))
  BY UpdateNCIs, Zenon DEF c, e
<1> QED BY <1>4, <1>5, <1>6, <1>7, <1>8, Zenon

LEMMA PacketDoneShape ==
  ASSUME TypeInv, ShapeInv, NEW d \in Servers, PacketDone(d)
  PROVE  ShapeInv'
<1> DEFINE c   == cyc[d]
           req == Request(c.pkt.to, c.pkt.id, FALSE, FALSE)
           n   == (c.packets + 1) % PersistEvery
           c2  == [c EXCEPT !.req = req, !.preemptable = TRUE, !.packets = n]
<1>1. /\ c.pc = "apply"
      /\ DurableCommit(d, StoreRepsFrom(live[d], c.src, req)) \/ UNCHANGED <<live, disk>>
      /\ NextPacket(d, c2) /\ UNCHANGED <<image, pending>>
  BY DEF PacketDone
<1>2. c \in Cycles /\ c.src \in Servers /\ live[d] \in Databases /\ c.pkt \in Replies
  BY <1>1, ApplyTypes
<1>3. req \in Requests
  BY <1>2, ReplyFields, RequestType
<1>4. n \in Nat
  BY <1>2, CycleFields, PersistAssumption
<1> HIDE DEF req, n
<1>5. c2 \in Cycles
  BY <1>2, <1>3, <1>4 DEF Cycles
<1> HIDE DEF c2
<1>6. CommOK'
  BY <1>1, <1>5, NextPacketShape DEF ShapeInv
<1>7. StoreRepsFrom(live[d], c.src, req).db = live[d].db
  BY <1>2, <1>3, StoreRepsFromOK
<1>8. DbsOK' /\ OpenOK'
  BY <1>1, <1>7, DurableShape, SameShape DEF ShapeInv
<1> QED BY <1>6, <1>8 DEF ShapeInv

LEMMA CycleDoneShape ==
  ASSUME TypeInv, ShapeInv, NEW d \in Servers, CycleDone(d)
  PROVE  ShapeInv'
<1> DEFINE c   == cyc[d]
           req == Request(c.pkt.to, c.pkt.id, FALSE, FALSE)
<1>1. /\ c.pc = "apply" /\ DurableCommit(d, UpToDateVec_Improve(live[d], c.pkt.utd, curId[d]))
      /\ Leave(d, [c EXCEPT !.req = req]) /\ UNCHANGED <<image, pending>>
  BY DEF CycleDone
<1>2. c \in Cycles /\ live[d] \in Databases /\ c.pkt \in Replies
  BY <1>1, ApplyTypes
<1>3. req \in Requests
  BY <1>2, ReplyFields, RequestType
<1> HIDE DEF req
<1>4. [c EXCEPT !.req = req] \in Cycles
  BY <1>2, <1>3 DEF Cycles
<1>5. CommOK'
  BY <1>1, <1>4, LeaveShape DEF ShapeInv
<1>6. c.pkt.utd \in Vectors /\ curId[d] \in Ids
  BY <1>2, ReplyFields DEF TypeInv, StoreType
<1>7. UpToDateVec_Improve(live[d], c.pkt.utd, curId[d]).db = live[d].db
  BY <1>2, <1>6, ImproveOK
<1>8. DbsOK' /\ OpenOK'
  BY <1>1, <1>7, DurableShape
<1> QED BY <1>5, <1>8 DEF ShapeInv

LEMMA LeavingShape ==
  ASSUME TypeInv, ShapeInv, NEW d \in Servers, Preempt(d) \/ CallFailed(d)
  PROVE  ShapeInv'
<1>1. Leave(d, cyc[d]) /\ UNCHANGED <<live, disk, image, pending>> /\ cyc[d] \in Cycles
  BY DEF Preempt, CallFailed, TypeInv, CommType
<1> QED BY <1>1, LeaveShape, SameShape DEF ShapeInv

LEMMA CallFailsShape ==
  ASSUME TypeInv, ShapeInv, NEW d \in Servers, CallFails(d)
  PROVE  ShapeInv'
<1> DEFINE r == [rpc[d] EXCEPT !.st = "failed"]
<1>1. /\ rpc[d].st \in {"sent", "marked"} /\ rpc' = [rpc EXCEPT ![d].st = "failed"]
      /\ UNCHANGED <<live, disk, image, pending, cyc>>
  BY DEF CallFails
<1>2. rpc' = [rpc EXCEPT ![d] = r] /\ cyc' = [cyc EXCEPT ![d] = cyc[d]]
  BY <1>1 DEF TypeInv, CommType, Calls
<1>3. r.st = "failed" /\ r.req = rpc[d].req /\ r.reply = rpc[d].reply
  <2>1. rpc[d] \in Calls
    BY DEF TypeInv, CommType
  <2> QED BY <2>1 DEF Calls
<1>4. CallOK(cyc[d], rpc[d])
  BY DEF ShapeInv, CommOK
<1> HIDE DEF r
<1>5. CallOK(cyc[d], r)
  BY <1>1, <1>3, <1>4 DEF CallOK
<1>6. CommOK'
  BY <1>2, <1>5, CommSet DEF ShapeInv
<1> QED BY <1>1, <1>6, SameShape DEF ShapeInv

LEMMA LabortShape ==
  ASSUME TypeInv, ShapeInv, NEW d \in Servers, Labort(d)
  PROVE  ShapeInv'
<1>1. /\ cyc[d].pc = "labort" /\ DurableCommit(d, StoreRepsFrom(live[d], cyc[d].src, cyc[d].req))
      /\ cyc' = [cyc EXCEPT ![d] = Idle] /\ UNCHANGED <<image, pending, rpc>>
  BY DEF Labort
<1>2. cyc[d] \in Cycles /\ cyc[d].src \in Servers /\ live[d] \in Databases
  BY <1>1 DEF TypeInv, CommType, StoreType
<1>3. rpc[d].st = "none" /\ rpc' = [rpc EXCEPT ![d] = rpc[d]]
  BY <1>1 DEF TypeInv, CommType
<1>4. Idle.pc = "idle" /\ Idle.pkt = NoReply
  BY DEF Idle
<1>5. CallOK(cyc[d], rpc[d])
  BY DEF ShapeInv, CommOK
<1>6. CallOK(Idle, rpc[d])
  BY <1>3, <1>4, <1>5, NoObjs DEF CallOK
<1>7. CommOK'
  BY <1>1, <1>3, <1>6, CommSet DEF ShapeInv
<1>8. StoreRepsFrom(live[d], cyc[d].src, cyc[d].req).db = live[d].db
  BY <1>2, CycleFields, StoreRepsFromOK
<1>9. DbsOK' /\ OpenOK'
  BY <1>1, <1>8, DurableShape
<1> QED BY <1>7, <1>9 DEF ShapeInv

LEMMA StepShape == TypeInv /\ ShapeInv /\ [Next]_vars => ShapeInv'
<1> SUFFICES ASSUME TypeInv, ShapeInv, [Next]_vars PROVE ShapeInv'
  OBVIOUS
<1>1. ASSUME NEW s \in Servers,
             \/ \E o \in Objs, a \in Attrs : OriginatingWrite(s, o, a)
             \/ CommitWrite(s) \/ RollbackWrite(s) \/ Flush(s)
             \/ \E o \in Leaves : Expire(s, o)
             \/ Crash(s) \/ Backup(s) \/ Restore(s) \/ DraHostWriteableNc(s)
      PROVE  ShapeInv'
  BY <1>1, OriginatingWriteShape, CommitWriteShape, FlushShape, ExpireShape, CrashShape, BackupShape,
     RestoreShape, DraHostWriteableNcShape
<1>2. ASSUME NEW d \in Servers,
             \/ \E s \in Servers : StartSync(d, s)
             \/ GetNCChangesMark(d) \/ DRA_GetNCChanges(d)
             \/ ReceivePacket(d) \/ UpdateNC(d) \/ PacketDone(d) \/ CycleDone(d)
             \/ Preempt(d) \/ CallFails(d) \/ CallFailed(d) \/ Labort(d)
      PROVE  ShapeInv'
  BY <1>2, StartSyncShape, GetNCChangesMarkShape, DRA_GetNCChangesShape, ReceivePacketShape, UpdateNCShape,
     PacketDoneShape, CycleDoneShape, LeavingShape, CallFailsShape, LabortShape
<1>3. CASE UNCHANGED vars
  BY <1>3, SameShape DEF vars, ShapeInv
<1> QED BY <1>1, <1>2, <1>3 DEF Next

LEMMA ShapeInvariant == Spec => [](TypeInv /\ ShapeInv)
BY InitType, StepType, InitShape, StepShape, PTL DEF Spec

\* When the destination asks for a packet a second time, with all attributes, the
\* packet has what it needs to create its objects: the assertion of ReplicateNC
\* that it asks at most once holds for every topology, tree and sequence of
\* writes, also with crashes, restores and expiring objects.
THEOREM FullPacketEnough == Spec => []FullPacketSuffices
<1>1. TypeInv /\ ShapeInv => FullPacketSuffices
  <2> SUFFICES ASSUME TypeInv, ShapeInv, NEW d \in Servers,
                      cyc[d].pc = "apply", cyc[d].pkt.objs # {}, cyc[d].req.full
               PROVE  ~NotEnoughAttrs(live[d], First(cyc[d].pkt.objs))
    BY DEF FullPacketSuffices
  <2> DEFINE e == First(cyc[d].pkt.objs)
  <2>1. e \in cyc[d].pkt.objs
    BY ApplyTypes
  <2>2. Full(cyc[d].pkt.objs)
    BY DEF ShapeInv, CommOK, CallOK
  <2> HIDE DEF e
  <2>3. ~NotEnoughAttrs(live[d], e)
    BY <2>1, <2>2 DEF NotEnoughAttrs, Full, Exists
  <2> QED BY <2>3 DEF e
<1> QED BY <1>1, ShapeInvariant, PTL

-----------------------------------------------------------------------------
(* Nothing is lost: what a step of the system does to its world.           *)

\* Two stamps of the same write.
Same(x, y) == x.ver = y.ver /\ x.id = y.id /\ x.ousn = y.ousn

\* Whatever (D, P) covers of the objects in K, (E, R) covers.
More(K, D, P, E, R) ==
  \A o \in K, a \in Attrs, x \in Stamps : Covers(D, P, o, a, x) => Covers(E, R, o, a, x)

\* E has all that D has of them.
Grows(K, D, E) == \A o \in K, a \in Attrs : Covers(E, {}, o, a, D.db[o][a])

WorldType(W) ==
  /\ W.live \in [Servers -> Databases] /\ W.disk \in [Servers -> Databases]
  /\ W.cur \in [Servers -> Ids] /\ W.ids \in Nat
  /\ W.kept \subseteq Objs /\ W.packets \subseteq Entries /\ ObjsOK(W.packets)
  /\ \A s \in Servers : /\ W.free[s] \subseteq Nat /\ \A u \in W.free[s] : u >= 1
                        /\ \A x \in W.open[s] : x \in Stamps /\ x.id \in Ids /\ x.ousn \in W.free[s]
                        /\ DbOK(W.live[s]) /\ DbOK(W.disk[s])

\* A stamp of a write that s has not committed yet, or is just doing.
Fresh(W, s, x) == x \in W.open[s] \/ (x.id = W.cur[s] /\ x.ousn \in W.free[s])

\* What one step may do: USNs that appear in a database were free; a stamp that
\* appears is a copy or a write of the server itself; an invocation id is never
\* used before; the disk takes over only what is in memory.
IdStep(V, W) ==
  /\ V.ids <= W.ids
  /\ \A s \in Servers :
       /\ W.live[s].id = W.disk[s].id /\ W.live[s].retired = W.disk[s].retired
       /\ \A i \in Mine(W, s) : i \in Mine(V, s) \/ (V.ids < i /\ i <= W.ids)
       /\ \A i \in Ids : \/ W.live[s].retired[i] = V.live[s].retired[i]
                         \/ i \in Mine(V, s) /\ Below(V, s, W.live[s].retired[i])
       /\ \A x \in W.open[s] : Fresh(V, s, x)
       /\ \A u \in W.free[s] : \E v \in V.free[s] : v <= u
  /\ \A s, t \in Servers : s # t => Mine(W, s) \subseteq Mine(V, s) \/ Mine(W, t) \subseteq Mine(V, t)

RowStep(V, W) ==
  \A s \in Servers : \A E \in Dbs(W, s), o \in W.kept : \E D \in Dbs(V, s) :
    \A a \in Attrs : E.db[o][a] = D.db[o][a] \/ E.db[o][a].usn \in V.free[s]

HeldStep(V, W) ==
  \A o \in W.kept, a \in Attrs : \A x \in Held(W, o, a) :
    (\E y \in Held(V, o, a) : Same(x, y)) \/ \E s \in Servers : Fresh(V, s, x)

OutStep(V, W) ==
  \A s \in Servers, o \in W.kept, a \in Attrs : \A x \in Outside(W, s, o, a) :
    \/ \E y \in Outside(V, s, o, a) : Same(x, y)
    \/ \E t \in Servers \ {s} : Fresh(V, t, x)
    \/ Covers(W.disk[s], {}, o, a, x)

WorldStep(V, W) ==
  /\ W.kept \subseteq V.kept
  /\ IdStep(V, W) /\ RowStep(V, W) /\ HeldStep(V, W) /\ OutStep(V, W)
  /\ \A s \in Servers : Grows(W.kept, V.disk[s], W.disk[s]) /\ Grows(W.kept, W.disk[s], W.live[s])

LEMMA NewerOrder ==
  /\ \A x, y, z \in Stamps : ~Newer(x, y) /\ ~Newer(y, z) => ~Newer(x, z)
  /\ \A x \in Stamps : ~Newer(x, x) /\ ~Newer(None, x)
<1>1. \A x \in Stamps : x.ver \in Nat /\ x.id \in Nat /\ x.ousn \in Nat
  BY StampFields
<1>2. None.ver = 0 /\ None.id = 0 /\ None.ousn = 0
  BY DEF None, NoId
<1>3. ASSUME NEW x \in Stamps, NEW y \in Stamps, NEW z \in Stamps, ~Newer(x, y), ~Newer(y, z)
      PROVE  ~Newer(x, z)
  BY <1>1, <1>3 DEF Newer
<1>4. ASSUME NEW x \in Stamps
      PROVE  ~Newer(x, x) /\ ~Newer(None, x)
  BY <1>1, <1>2 DEF Newer
<1> QED BY <1>3, <1>4

LEMMA SameNewer ==
  ASSUME NEW x, NEW y, Same(x, y)
  PROVE  /\ \A z : Newer(x, z) <=> Newer(y, z)
         /\ \A z : Newer(z, x) <=> Newer(z, y)
BY DEF Same, Newer

LEMMA SameCovers ==
  ASSUME NEW x, NEW y, Same(x, y), NEW D, NEW P, NEW o, NEW a
  PROVE  Covers(D, P, o, a, x) <=> Covers(D, P, o, a, y)
BY SameNewer DEF Covers

\* To cover a stamp, and to cover what covers it.
LEMMA CoversOlder ==
  ASSUME NEW D \in Databases, NEW P, P \subseteq Entries, NEW o \in Objs, NEW a \in Attrs,
         NEW x \in Stamps, NEW y \in Stamps, ~Newer(x, y), Covers(D, P, o, a, y)
  PROVE  Covers(D, P, o, a, x)
<1>1. D.db[o][a] \in Stamps
  BY StampOf
<1>2. \A e \in P : a \in DOMAIN e.md => e.md[a] \in Stamps
  BY EntryFields
<1>3. CASE ~Newer(y, D.db[o][a])
  BY <1>1, <1>3, NewerOrder DEF Covers
<1>4. CASE \E e \in P : e.obj = o /\ a \in DOMAIN e.md /\ ~Newer(y, e.md[a])
  <2>1. PICK e \in P : e.obj = o /\ a \in DOMAIN e.md /\ ~Newer(y, e.md[a])
    BY <1>4
  <2>2. ~Newer(x, e.md[a])
    BY <1>2, <2>1, NewerOrder
  <2> QED BY <2>1, <2>2 DEF Covers
<1> QED BY <1>3, <1>4 DEF Covers

LEMMA CoversNone ==
  ASSUME NEW D \in Databases, NEW P, NEW o \in Objs, NEW a \in Attrs
  PROVE  Covers(D, P, o, a, None) /\ Covers(D, P, o, a, D.db[o][a])
BY StampOf, NewerOrder DEF Covers

LEMMA CoversMore ==
  ASSUME NEW D, NEW P, NEW R, P \subseteq R, NEW o, NEW a, NEW x, Covers(D, P, o, a, x)
  PROVE  Covers(D, R, o, a, x)
BY DEF Covers

\* A database that has all of another one covers with it what that one covers.
LEMMA GrowsMore ==
  ASSUME NEW K, K \subseteq Objs, NEW D \in Databases, NEW E \in Databases, Grows(K, D, E),
         NEW P, NEW R, P \subseteq R
  PROVE  More(K, D, P, E, R)
<1> SUFFICES ASSUME NEW o \in K, NEW a \in Attrs, NEW x \in Stamps, Covers(D, P, o, a, x)
             PROVE  Covers(E, R, o, a, x)
  BY DEF More
<1>1. D.db[o][a] \in Stamps /\ E.db[o][a] \in Stamps /\ ~Newer(D.db[o][a], E.db[o][a])
  BY StampOf DEF Grows, Covers
<1>2. CASE ~Newer(x, D.db[o][a])
  BY <1>1, <1>2, NewerOrder DEF Covers
<1>3. CASE ~(~Newer(x, D.db[o][a]))
  BY <1>3 DEF Covers
<1> QED BY <1>2, <1>3

LEMMA SameGrows ==
  ASSUME NEW K, K \subseteq Objs, NEW D \in Databases, NEW E, E.db = D.db
  PROVE  Grows(K, D, E)
<1> SUFFICES ASSUME NEW o \in K, NEW a \in Attrs PROVE ~Newer(D.db[o][a], E.db[o][a])
  BY DEF Grows, Covers
<1>1. D.db[o][a] \in Stamps
  BY StampOf
<1> QED BY <1>1, NewerOrder

LEMMA MoreMore ==
  ASSUME NEW K, NEW L, L \subseteq K, NEW D, NEW P, NEW E, NEW R, More(K, D, P, E, R)
  PROVE  More(L, D, P, E, R)
BY DEF More

\* The stamps of a world.
LEMMA HeldType ==
  ASSUME NEW W, WorldType(W), NEW o \in W.kept, NEW a \in Attrs
  PROVE  /\ o \in Objs
         /\ \A x \in Held(W, o, a) : x \in Stamps /\ (x = None \/ Real(x))
         /\ \A s \in Servers : \A E \in Dbs(W, s) :
              /\ E \in Databases /\ E.db[o][a] \in Stamps /\ DbOK(E) /\ E.db[o][a] \in Held(W, o, a)
              /\ E.db[o][a] = None \/ (Real(E.db[o][a]) /\ E.db[o][a].usn >= 1)
         /\ \A s \in Servers : Outside(W, s, o, a) \subseteq Held(W, o, a)
<1>1. o \in Objs
  BY DEF WorldType
<1>2. ASSUME NEW s \in Servers, NEW E \in Dbs(W, s)
      PROVE  /\ E \in Databases /\ E.db[o][a] \in Stamps /\ DbOK(E) /\ E.db[o][a] \in Held(W, o, a)
             /\ E.db[o][a] = None \/ (Real(E.db[o][a]) /\ E.db[o][a].usn >= 1)
  <2>1. E \in Databases /\ DbOK(E)
    BY DEF Dbs, WorldType
  <2>2. E.db[o][a] \in Stamps
    BY <1>1, <2>1, StampOf
  <2>3. E.db[o][a] = None \/ (Real(E.db[o][a]) /\ E.db[o][a].usn >= 1)
    BY <1>1, <2>1 DEF DbOK
  <2> QED BY <2>1, <2>2, <2>3 DEF Held
<1>3. ASSUME NEW x \in InPackets(W, o, a)
      PROVE  x \in Stamps /\ Real(x)
  <2>1. PICK e \in W.packets : a \in DOMAIN e.md /\ x = e.md[a]
    BY DEF InPackets
  <2>2. e \in Entries
    BY DEF WorldType
  <2> QED BY <2>1, <2>2, EntryFields DEF WorldType, ObjsOK
<1>4. ASSUME NEW x \in Held(W, o, a)
      PROVE  x \in Stamps /\ (x = None \/ Real(x))
  <2>1. x \in InPackets(W, o, a) \/ \E s \in Servers : \E E \in Dbs(W, s) : x = E.db[o][a]
    BY DEF Held
  <2> QED BY <2>1, <1>2, <1>3
<1>5. \A s \in Servers : Outside(W, s, o, a) \subseteq Held(W, o, a)
  BY DEF Outside, Held
<1> QED BY <1>1, <1>2, <1>4, <1>5

LEMMA FreeIs ==
  ASSUME NEW W, WorldType(W), NEW s \in Servers
  PROVE  \A u \in W.free[s] : u \in Nat /\ u >= 1
BY DEF WorldType

\* What is below the free USNs stays below them.
LEMMA BelowStep ==
  ASSUME NEW V, NEW W, WorldType(V), WorldType(W), IdStep(V, W), NEW s \in Servers, NEW n \in Nat,
         Below(V, s, n)
  PROVE  Below(W, s, n)
<1> SUFFICES ASSUME NEW u \in W.free[s] PROVE n < u
  BY DEF Below
<1>1. PICK v \in V.free[s] : v <= u
  BY DEF IdStep
<1>2. u \in Nat /\ v \in Nat /\ n < v
  BY <1>1, FreeIs DEF Below
<1> QED BY <1>1, <1>2

\* A watermark stays sound.
LEMMA MarkStep ==
  ASSUME NEW V, NEW W, WorldType(V), WorldType(W), WorldStep(V, W), NEW s \in Servers,
         NEW vec \in USNVectors, NEW D, NEW P, NEW E, NEW R, MarkOK(V, s, vec, D, P),
         More(W.kept, D, P, E, R)
  PROVE  MarkOK(W, s, vec, E, R)
<1>1. vec.obj \in Nat /\ vec.prop \in Nat
  BY USNVectorFields
<1>2. Below(V, s, vec.obj) /\ Below(V, s, vec.prop)
  BY DEF MarkOK
<1>3. Below(W, s, vec.obj) /\ Below(W, s, vec.prop)
  BY <1>1, <1>2, BelowStep DEF WorldStep
<1>4. ASSUME NEW F \in Dbs(W, s), NEW o \in W.kept, NEW a \in Attrs,
             F.db[o][a].usn <= vec.prop \/ usnChanged(F, o) <= vec.obj
      PROVE  Covers(E, R, o, a, F.db[o][a])
  <2>1. o \in Objs /\ o \in V.kept /\ F \in Databases /\ F.db[o][a] \in Stamps
    BY HeldType DEF WorldStep
  <2>2. PICK G \in Dbs(V, s) : \A b \in Attrs : F.db[o][b] = G.db[o][b] \/ F.db[o][b].usn \in V.free[s]
    BY DEF WorldStep, RowStep
  <2>3. G \in Databases
    BY <2>1, HeldType
  <2>4. usnChanged(F, o) \in Nat /\ \A b \in Attrs : F.db[o][b].usn \in Nat /\ F.db[o][b].usn <= usnChanged(F, o)
    <3>1. \A b \in Attrs : F.db[o][b] \in Stamps
      BY <2>1, StampOf
    <3> QED BY <2>1, <3>1, usnChangedOK, StampFields
  <2>5. \A b \in Attrs : F.db[o][b].usn \in V.free[s] =>
          F.db[o][b].usn > vec.prop /\ usnChanged(F, o) > vec.obj
    BY <1>1, <1>2, <2>4, FreeIs DEF Below
  <2>6. F.db[o][a] = G.db[o][a]
    BY <1>1, <1>4, <2>2, <2>4, <2>5
  <2>7. CASE F.db[o][a].usn <= vec.prop
    <3>1. Covers(D, P, o, a, G.db[o][a])
      BY <2>1, <2>6, <2>7 DEF MarkOK
    <3> QED BY <3>1, <2>1, <2>6 DEF More
  <2>8. CASE usnChanged(F, o) <= vec.obj
    <3>1. \A b \in Attrs : F.db[o][b] = G.db[o][b]
      BY <1>1, <2>2, <2>4, <2>5, <2>8
    <3>2. usnChanged(G, o) = usnChanged(F, o)
      BY <3>1 DEF usnChanged
    <3>3. Covers(D, P, o, a, G.db[o][a])
      BY <2>1, <3>2, <2>8 DEF MarkOK
    <3> QED BY <3>3, <2>1, <2>6 DEF More
  <2> QED BY <1>4, <2>7, <2>8
<1> QED BY <1>3, <1>4 DEF MarkOK

LEMMA MineType ==
  ASSUME NEW W, WorldType(W), NEW s \in Servers
  PROVE  Mine(W, s) \subseteq Ids /\ W.cur[s] \in Mine(W, s) /\ \A i \in Ids : W.live[s].retired[i] \in Nat
<1>1. W.live[s] \in Databases /\ W.cur[s] \in Ids
  BY DEF WorldType
<1>2. W.live[s].id \in Ids /\ W.live[s].retired \in Vectors
  BY <1>1, DbFields
<1> QED BY <1>1, <1>2, VectorAt DEF Mine

\* A vector claims no write that is fresh.
LEMMA FreshUnclaimed ==
  ASSUME NEW W, WorldType(W), NEW U \in Vectors, VecBelow(W, U), NEW s \in Servers, NEW x, Fresh(W, s, x)
  PROVE  x.id \in Ids /\ x.ousn \in Nat /\ U[x.id] < x.ousn
<1>1. CASE x \in W.open[s]
  <2>1. x.id \in Ids /\ x.ousn \in W.free[s]
    BY <1>1 DEF WorldType
  <2> QED BY <1>1, <2>1, FreeIs DEF VecBelow
<1>2. CASE x.id = W.cur[s] /\ x.ousn \in W.free[s]
  <2>1. x.id \in Mine(W, s) /\ x.id \in Ids
    BY <1>2, MineType
  <2> QED BY <1>2, <2>1, FreeIs DEF VecBelow, Below
<1> QED BY <1>1, <1>2 DEF Fresh

\* A vector stays sound.
LEMMA ClaimStep ==
  ASSUME NEW V, NEW W, WorldType(V), WorldType(W), WorldStep(V, W), IdsOK(V), NEW U \in Vectors,
         NEW D \in Databases, NEW P, NEW E \in Databases, NEW R, ClaimOK(V, U, D, P), More(W.kept, D, P, E, R)
  PROVE  ClaimOK(W, U, E, R)
<1>1. VecBelow(V, U) /\ IdStep(V, W)
  BY DEF ClaimOK, WorldStep
<1>2. V.ids \in Nat /\ W.ids \in Nat /\ \A i \in Ids : U[i] \in Nat /\ i \in Nat
  BY VectorAt, IdsPositive DEF WorldType
<1>3. ASSUME NEW s \in Servers, NEW i \in Mine(W, s)
      PROVE  i \in Mine(V, s) \/ U[i] = 0
  <2>1. i \in Ids
    BY MineType
  <2> QED BY <1>1, <1>2, <1>3, <2>1 DEF IdStep, VecBelow
<1>4. ASSUME NEW s \in Servers, NEW i \in Mine(W, s)
      PROVE  Below(W, s, U[i])
  <2>1. i \in Ids /\ U[i] \in Nat
    BY MineType, <1>2
  <2>2. CASE i \in Mine(V, s)
    <3>1. Below(V, s, U[i])
      BY <1>1, <2>2 DEF VecBelow
    <3> QED BY <3>1, <2>1, <1>1, BelowStep
  <2>3. CASE U[i] = 0
    BY <2>3, FreeIs DEF Below
  <2> QED BY <1>3, <2>2, <2>3
<1>5. ASSUME NEW s \in Servers, NEW x \in W.open[s]
      PROVE  U[x.id] < x.ousn
  <2>1. Fresh(V, s, x)
    BY <1>1 DEF IdStep
  <2> QED BY <2>1, <1>1, FreshUnclaimed
<1>6. ASSUME NEW i \in Ids, i > W.ids
      PROVE  U[i] = 0
  BY <1>1, <1>2, <1>6 DEF IdStep, VecBelow
<1>7. VecBelow(W, U)
  BY <1>4, <1>5, <1>6 DEF VecBelow
<1>8. ASSUME NEW o \in W.kept, NEW a \in Attrs, NEW x \in Held(W, o, a), x.id # NoId, x.ousn <= U[x.id]
      PROVE  Covers(E, R, o, a, x)
  <2>1. o \in V.kept /\ x \in Stamps
    BY HeldType DEF WorldStep
  <2>2. x.id \in Ids /\ x.ousn \in Nat
    BY <2>1, <1>8, StampFields
  <2>3. CASE \E y \in Held(V, o, a) : Same(x, y)
    <3>1. PICK y \in Held(V, o, a) : Same(x, y)
      BY <2>3
    <3>2. y.id # NoId /\ y.ousn <= U[y.id]
      BY <3>1, <1>8 DEF Same
    <3>3. Covers(D, P, o, a, y)
      BY <2>1, <3>2 DEF ClaimOK
    <3> QED BY <3>1, <3>3, <2>1, SameCovers DEF More
  <2>4. CASE \E s \in Servers : Fresh(V, s, x)
    <3>1. U[x.id] < x.ousn
      BY <2>4, <1>1, FreshUnclaimed
    <3> QED BY <3>1, <1>2, <1>8, <2>2
  <2> QED BY <2>3, <2>4 DEF WorldStep, HeldStep
<1>9. ASSUME NEW s \in Servers, NEW F \in Dbs(W, s), NEW o \in W.kept, NEW a \in Attrs,
             Reaches(W, s, U, F.db[o][a].usn)
      PROVE  Covers(E, R, o, a, F.db[o][a])
  <2> DEFINE x == F.db[o][a]
  <2>1. o \in V.kept /\ o \in Objs /\ x \in Stamps /\ (x = None \/ x.usn >= 1)
    BY HeldType DEF WorldStep
  <2>2. x.usn \in Nat
    BY <2>1, StampFields
  <2>3. PICK G \in Dbs(V, s) : x = G.db[o][a] \/ x.usn \in V.free[s]
    BY DEF WorldStep, RowStep
  <2> HIDE DEF x
  <2>4. PICK i \in Ids : x.usn <= U[i] /\ (i \in Mine(W, s) \/ x.usn <= W.live[s].retired[i])
    BY <1>9 DEF Reaches, x
  <2>5. CASE x.usn = 0
    <3>1. x = None
      BY <2>1, <2>5
    <3> QED BY <3>1, <2>1, CoversNone DEF x
  <2>6. CASE x.usn # 0
    <3>1. i \in Mine(V, s) \/ x.usn <= V.live[s].retired[i]
      <4>1. i \in Mine(W, s) => i \in Mine(V, s)
        BY <1>2, <1>3, <2>2, <2>4, <2>6
      <4>2. W.live[s].retired[i] = V.live[s].retired[i] \/ i \in Mine(V, s)
        BY <1>1 DEF IdStep
      <4> QED BY <4>1, <4>2, <2>4
    <3>2. x.usn \notin V.free[s]
      <4>1. i \in Mine(V, s) => Below(V, s, U[i])
        BY <1>1 DEF VecBelow
      <4>2. Below(V, s, V.live[s].retired[i]) /\ V.live[s].retired[i] \in Nat /\ U[i] \in Nat
        BY <1>2, MineType DEF IdsOK
      <4> QED BY <3>1, <4>1, <4>2, <2>2, <2>4 DEF Below
    <3>3. x = G.db[o][a] /\ Reaches(V, s, U, x.usn)
      BY <2>3, <2>4, <3>1, <3>2 DEF Reaches
    <3>4. Covers(D, P, o, a, x)
      BY <3>3, <2>1 DEF ClaimOK
    <3> QED BY <3>4, <2>1 DEF More, x
  <2> QED BY <2>5, <2>6
<1> QED BY <1>7, <1>8, <1>9 DEF ClaimOK

\* Invocation ids stay apart, ...
LEMMA IdsStep ==
  ASSUME NEW V, NEW W, WorldType(V), WorldType(W), WorldStep(V, W), IdsOK(V)
  PROVE  IdsOK(W)
<1>1. IdStep(V, W) /\ V.ids \in Nat /\ W.ids \in Nat /\ V.ids <= W.ids /\ \A i \in Ids : i \in Nat
  BY IdsPositive DEF WorldStep, IdStep, WorldType
<1>2. \A s \in Servers : /\ Mine(W, s) \subseteq Ids /\ Mine(V, s) \subseteq Ids
                         /\ \A i \in Mine(V, s) : i <= V.ids
                         /\ \A i \in Mine(W, s) : i \in Mine(V, s) \/ (V.ids < i /\ i <= W.ids)
  BY <1>1, MineType DEF IdsOK, IdStep
<1>3. ASSUME NEW s \in Servers, NEW x, Fresh(V, s, x)
      PROVE  x.id \in Ids /\ x.id <= V.ids /\ \A t \in Servers : t # s => x.id \notin Mine(V, t)
  <2>1. CASE x \in V.open[s]
    BY <2>1 DEF WorldType, IdsOK
  <2>2. CASE x.id = V.cur[s]
    <3>1. x.id \in Mine(V, s)
      BY <2>2, MineType
    <3> QED BY <3>1, <1>2 DEF IdsOK
  <2> QED BY <1>3, <2>1, <2>2 DEF Fresh
<1>4. ASSUME NEW s \in Servers, NEW x, Fresh(V, s, x)
      PROVE  x.id <= W.ids /\ \A t \in Servers : t # s => x.id \notin Mine(W, t)
  <2>1. x.id \in Nat /\ x.id <= V.ids /\ \A t \in Servers : t # s => x.id \notin Mine(V, t)
    BY <1>1, <1>3, <1>4
  <2> QED BY <2>1, <1>1, <1>2
<1>5. ASSUME NEW s \in Servers, NEW i \in Ids
      PROVE  (i > W.ids => W.live[s].retired[i] = 0) /\ Below(W, s, W.live[s].retired[i])
  <2>1. \/ W.live[s].retired[i] = V.live[s].retired[i]
        \/ i \in Mine(V, s) /\ Below(V, s, W.live[s].retired[i])
    BY <1>1 DEF IdStep
  <2>2. Below(V, s, W.live[s].retired[i])
    BY <2>1 DEF IdsOK
  <2>3. Below(W, s, W.live[s].retired[i])
    BY <2>2, <1>1, MineType, BelowStep
  <2>4. ASSUME i > W.ids
        PROVE  W.live[s].retired[i] = 0
    <3>1. i > V.ids /\ i \notin Mine(V, s)
      BY <2>4, <1>1, <1>2
    <3> QED BY <2>1, <3>1 DEF IdsOK
  <2> QED BY <2>3, <2>4
<1>6. ASSUME NEW o \in W.kept, NEW a \in Attrs, NEW x \in Held(W, o, a)
      PROVE  x.id <= W.ids
  <2>1. CASE \E y \in Held(V, o, a) : Same(x, y)
    <3>1. PICK y \in Held(V, o, a) : Same(x, y)
      BY <2>1
    <3>2. o \in V.kept
      BY DEF WorldStep
    <3>3. y.id <= V.ids /\ y \in Stamps
      BY <3>2, HeldType DEF IdsOK
    <3> QED BY <3>1, <3>3, <1>1, StampFields DEF Same
  <2>2. CASE \E s \in Servers : Fresh(V, s, x)
    BY <2>2, <1>4
  <2> QED BY <2>1, <2>2 DEF WorldStep, HeldStep
<1>7. ASSUME NEW s \in Servers, NEW t \in Servers, s # t
      PROVE  /\ Mine(W, s) \cap Mine(W, t) = {}
             /\ \A i \in Mine(W, s) : W.live[t].retired[i] = 0
             /\ \A x \in W.open[s] : x.id \notin Mine(W, t)
  <2>1. Mine(V, s) \cap Mine(V, t) = {}
    BY <1>7 DEF IdsOK
  <2>2. Mine(W, s) \cap Mine(W, t) = {}
    <3>1. Mine(W, s) \subseteq Mine(V, s) \/ Mine(W, t) \subseteq Mine(V, t)
      BY <1>7, <1>1 DEF IdStep
    <3>2. ASSUME NEW i \in Mine(W, s), i \in Mine(W, t) PROVE FALSE
      <4>1. i \in Nat
        BY <1>1, <1>2
      <4> QED BY <1>1, <1>2, <2>1, <3>1, <3>2, <4>1
    <3> QED BY <3>2
  <2>3. ASSUME NEW i \in Mine(W, s)
        PROVE  W.live[t].retired[i] = 0
    <3>1. i \in Ids /\ i \in Nat /\ (i \in Mine(V, s) \/ V.ids < i)
      BY <1>1, <1>2
    <3>2. i \notin Mine(V, t)
      BY <3>1, <1>1, <1>2, <2>1
    <3>3. W.live[t].retired[i] = V.live[t].retired[i]
      BY <3>1, <3>2, <1>1 DEF IdStep
    <3>4. V.live[t].retired[i] = 0
      BY <3>1, <1>7 DEF IdsOK
    <3> QED BY <3>3, <3>4
  <2>4. \A x \in W.open[s] : x.id \notin Mine(W, t)
    BY <1>1, <1>4, <1>7 DEF IdStep
  <2> QED BY <2>2, <2>3, <2>4
<1>8. \A s \in Servers : /\ W.live[s].id = W.disk[s].id /\ W.live[s].retired = W.disk[s].retired
                         /\ \A i \in Mine(W, s) : i <= W.ids
                         /\ \A x \in W.open[s] : x.id <= W.ids
  <2> TAKE s \in Servers
  <2>1. \A i \in Mine(W, s) : i <= W.ids
    BY <1>1, <1>2
  <2> QED BY <2>1, <1>1, <1>4 DEF IdStep
<1> QED BY <1>5, <1>6, <1>7, <1>8 DEF IdsOK

\* ... and the writes of a server that others know of are on its disk.
LEMMA WorldOKStep ==
  ASSUME NEW V, NEW W, WorldType(V), WorldType(W), WorldStep(V, W), WorldOK(V)
  PROVE  WorldOK(W)
<1>1. IdsOK(V) /\ IdStep(V, W) /\ V.ids \in Nat
  BY DEF WorldOK, WorldStep, WorldType
<1>2. IdsOK(W)
  BY <1>1, IdsStep
<1>3. ASSUME NEW s \in Servers, NEW o \in W.kept, NEW a \in Attrs
      PROVE  Covers(W.live[s], {}, o, a, W.disk[s].db[o][a])
  BY DEF WorldStep, Grows
<1>4. ASSUME NEW s \in Servers, NEW o \in W.kept, NEW a \in Attrs, NEW x \in Outside(W, s, o, a),
             x.id \in Mine(W, s)
      PROVE  Covers(W.disk[s], {}, o, a, x)
  <2>1. o \in V.kept /\ o \in Objs /\ x \in Stamps /\ x.id \in Ids /\ x.id \in Nat
    <3>1. x \in Held(W, o, a)
      BY HeldType
    <3> QED BY <3>1, <1>4, HeldType, MineType, StampFields DEF WorldStep
  <2>2. x.id \in Mine(V, s) \/ V.ids < x.id
    BY <1>1, <1>4 DEF IdStep
  <2>3. CASE \E y \in Outside(V, s, o, a) : Same(x, y)
    <3>1. PICK y \in Outside(V, s, o, a) : Same(x, y)
      BY <2>3
    <3>2. y \in Held(V, o, a)
      BY <2>1, HeldType
    <3>3. y.id <= V.ids /\ x.id = y.id /\ y \in Stamps
      BY <1>1, <2>1, <3>1, <3>2, HeldType DEF IdsOK, Same
    <3>4. y.id \in Mine(V, s)
      BY <2>1, <2>2, <3>3, <1>1
    <3>5. Covers(V.disk[s], {}, o, a, y)
      BY <2>1, <3>4 DEF WorldOK
    <3>6. V.disk[s] \in Databases /\ W.disk[s] \in Databases /\ W.kept \subseteq Objs
          /\ Grows(W.kept, V.disk[s], W.disk[s])
      BY DEF WorldType, WorldStep
    <3>7. More(W.kept, V.disk[s], {}, W.disk[s], {})
      BY <3>6, GrowsMore
    <3> QED BY <3>1, <3>3, <3>5, <3>7, SameCovers DEF More
  <2>4. CASE \E t \in Servers \ {s} : Fresh(V, t, x)
    <3>1. PICK t \in Servers \ {s} : Fresh(V, t, x)
      BY <2>4
    <3>2. x.id <= V.ids /\ x.id \notin Mine(V, s)
      <4>1. CASE x \in V.open[t]
        BY <4>1, <1>1 DEF IdsOK
      <4>2. CASE x.id = V.cur[t]
        <5>1. x.id \in Mine(V, t)
          BY <4>2, MineType
        <5> QED BY <5>1, <1>1 DEF IdsOK
      <4> QED BY <3>1, <4>1, <4>2 DEF Fresh
    <3> QED BY <3>2, <2>1, <2>2, <1>1
  <2> QED BY <2>3, <2>4 DEF WorldStep, OutStep
<1> QED BY <1>2, <1>3, <1>4 DEF WorldOK

\* What a database has stored stays sound when it has at least as much as before.
LEMMA StoreStep ==
  ASSUME NEW V, NEW W, WorldType(V), WorldType(W), WorldStep(V, W), IdsOK(V),
         NEW D \in Databases, NEW E \in Databases, StoreOK(V, D), Grows(W.kept, D, E),
         E.utd = D.utd, \A s \in Servers : E.reps[s].vec = D.reps[s].vec
  PROVE  StoreOK(W, E)
<1>1. W.kept \subseteq Objs
  BY DEF WorldType
<1>2. More(W.kept, D, {}, E, {})
  BY <1>1, GrowsMore
<1>3. ClaimOK(W, E.utd, E, {})
  <2>1. D.utd \in Vectors /\ ClaimOK(V, D.utd, D, {})
    BY DbFields DEF StoreOK
  <2> QED BY <1>2, <2>1, ClaimStep
<1>4. ASSUME NEW s \in Servers
      PROVE  MarkOK(W, s, E.reps[s].vec, E, {})
  <2>1. D.reps[s].vec \in USNVectors /\ MarkOK(V, s, D.reps[s].vec, D, {})
    BY DbFields DEF StoreOK
  <2> QED BY <1>2, <2>1, MarkStep
<1> QED BY <1>3, <1>4 DEF StoreOK

\* So does a cycle that goes on, with as much of its packet as the database lacks.
LEMMA PacketStep ==
  ASSUME NEW V, NEW W, WorldType(V), WorldType(W), WorldStep(V, W), IdsOK(V),
         NEW D \in Databases, NEW E \in Databases, NEW c \in Cycles, NEW r \in Calls,
         c.pc # "idle" => c.src \in Servers, c.pc = "idle" => r.st = "none",
         CycleOK(V, D, c, r), Grows(W.kept, D, E),
         NEW b, b.pc = c.pc, b.src = c.src, b.utd = c.utd, b.req = c.req, b.pkt.utd = c.pkt.utd, b.pkt.to = c.pkt.to,
         More(W.kept, D, c.pkt.objs, E, b.pkt.objs),
         More(W.kept, D, c.pkt.objs \cup r.reply.objs, E, b.pkt.objs \cup r.reply.objs)
  PROVE  CycleOK(W, E, b, r)
<1> DEFINE P == c.pkt.objs
           R == P \cup r.reply.objs
           Q == b.pkt.objs
           S == Q \cup r.reply.objs
<1>1. W.kept \subseteq Objs
  BY DEF WorldType
<1>2. /\ c.utd \in Vectors /\ c.req.vec \in USNVectors /\ c.pkt.utd \in Vectors /\ c.pkt.to \in USNVectors
      /\ r.req.vec \in USNVectors /\ r.from \in USNVectors /\ r.usnLowestC \in Nat
      /\ r.reply.utd \in Vectors /\ r.reply.to \in USNVectors
  <2>1. c.utd \in Vectors /\ c.req \in Requests /\ c.pkt \in Replies
    BY CycleFields
  <2>2. r.req \in Requests /\ r.from \in USNVectors /\ r.usnLowestC \in Nat /\ r.reply \in Replies
    BY CallFields
  <2> QED BY <2>1, <2>2, RequestFields, ReplyFields
<1>3. More(W.kept, D, {}, E, {}) /\ More(W.kept, D, P, E, Q) /\ More(W.kept, D, R, E, S)
  BY <1>1, GrowsMore
<1> HIDE DEF P, Q
<1>4. ASSUME c.pc # "idle"
      PROVE  ClaimOK(W, c.utd, E, {}) /\ MarkOK(W, c.src, c.req.vec, E, {})
  <2>1. ClaimOK(V, c.utd, D, {}) /\ MarkOK(V, c.src, c.req.vec, D, {})
    BY <1>4 DEF CycleOK
  <2> QED BY <1>2, <1>3, <1>4, <2>1, ClaimStep, MarkStep
<1>5. ASSUME c.pc = "apply"
      PROVE  ClaimOK(W, c.pkt.utd, E, Q) /\ MarkOK(W, c.src, c.pkt.to, E, Q)
  <2>1. ClaimOK(V, c.pkt.utd, D, P) /\ MarkOK(V, c.src, c.pkt.to, D, P)
    BY <1>5 DEF CycleOK, P
  <2> QED BY <1>2, <1>3, <1>5, <2>1, ClaimStep, MarkStep
<1>6. ASSUME r.st # "none"
      PROVE  MarkOK(W, c.src, r.req.vec, E, Q)
  <2>1. MarkOK(V, c.src, r.req.vec, D, P) /\ c.src \in Servers
    BY <1>6 DEF CycleOK, P
  <2> QED BY <1>2, <1>3, <2>1, MarkStep
<1>7. ASSUME r.st = "marked"
      PROVE  MarkOK(W, c.src, r.from, E, Q) /\ Below(W, c.src, r.usnLowestC - 1)
  <2>1. MarkOK(V, c.src, r.from, D, P) /\ Below(V, c.src, r.usnLowestC - 1) /\ c.src \in Servers
    BY <1>7 DEF CycleOK, P
  <2>2. IdStep(V, W)
    BY DEF WorldStep
  <2>3. Below(W, c.src, r.usnLowestC - 1)
    <3> SUFFICES ASSUME NEW u \in W.free[c.src] PROVE r.usnLowestC - 1 < u
      BY DEF Below
    <3>1. PICK v \in V.free[c.src] : v <= u
      BY <2>1, <2>2 DEF IdStep
    <3>2. u \in Nat /\ v \in Nat /\ r.usnLowestC - 1 < v
      BY <2>1, <3>1, FreeIs DEF Below
    <3> QED BY <3>1, <3>2, <1>2
  <2> QED BY <1>2, <1>3, <2>1, <2>3, MarkStep
<1>8. ASSUME r.st = "reply"
      PROVE  ClaimOK(W, r.reply.utd, E, S) /\ MarkOK(W, c.src, r.reply.to, E, S)
  <2>1. ClaimOK(V, r.reply.utd, D, R) /\ MarkOK(V, c.src, r.reply.to, D, R) /\ c.src \in Servers
    BY <1>8 DEF CycleOK, P
  <2> HIDE DEF R, S
  <2> QED BY <1>2, <1>3, <2>1, ClaimStep, MarkStep
<1> QED BY <1>4, <1>5, <1>6, <1>7, <1>8 DEF CycleOK, Q

LEMMA CycleStep ==
  ASSUME NEW V, NEW W, WorldType(V), WorldType(W), WorldStep(V, W), IdsOK(V),
         NEW D \in Databases, NEW E \in Databases, NEW c \in Cycles, NEW r \in Calls,
         c.pc # "idle" => c.src \in Servers, c.pc = "idle" => r.st = "none",
         CycleOK(V, D, c, r), Grows(W.kept, D, E)
  PROVE  CycleOK(W, E, c, r)
<1>1. W.kept \subseteq Objs
  BY DEF WorldType
<1>2. \A P : More(W.kept, D, P, E, P)
  BY <1>1, GrowsMore
<1> QED BY <1>2, PacketStep

\* The vector without cursors claims nothing, the watermark from scratch skips nothing.
LEMMA NoClaim ==
  ASSUME NEW W, WorldType(W), NEW D \in Databases, NEW P
  PROVE  ClaimOK(W, NoVec, D, P) /\ \A s \in Servers : MarkOK(W, s, Scratch, D, P)
<1>1. \A i \in Ids : NoVec[i] = 0
  BY DEF NoVec
<1>2. \A s \in Servers : Below(W, s, 0)
  BY FreeIs DEF Below
<1>3. VecBelow(W, NoVec)
  <2>1. \A s \in Servers : \A i \in Mine(W, s) : NoVec[i] = 0
    BY <1>1, MineType
  <2>2. ASSUME NEW s \in Servers, NEW x \in W.open[s]
        PROVE  NoVec[x.id] < x.ousn
    <3>1. x.id \in Ids /\ x.ousn \in W.free[s]
      BY DEF WorldType
    <3> QED BY <3>1, <1>1, FreeIs
  <2> QED BY <1>1, <1>2, <2>1, <2>2 DEF VecBelow
<1>4. ASSUME NEW o \in W.kept, NEW a \in Attrs, NEW x \in Held(W, o, a), x.id # NoId, x.ousn <= NoVec[x.id]
      PROVE  Covers(D, P, o, a, x)
  <2>1. x \in Stamps /\ (x = None \/ Real(x))
    BY HeldType
  <2>2. x.id \in Ids /\ x.ousn \in Nat
    BY <2>1, <1>4, StampFields
  <2>3. x # None
    BY <1>4 DEF None
  <2> QED BY <1>1, <1>4, <2>1, <2>2, <2>3 DEF Real
<1>5. ASSUME NEW s \in Servers, NEW E \in Dbs(W, s), NEW o \in W.kept, NEW a \in Attrs, E.db[o][a].usn <= 0
      PROVE  Covers(D, P, o, a, E.db[o][a])
  <2>1. o \in Objs /\ E.db[o][a] \in Stamps /\ (E.db[o][a] = None \/ E.db[o][a].usn >= 1)
    BY HeldType
  <2>2. E.db[o][a] = None
    BY <2>1, <1>5, StampFields
  <2> QED BY <2>1, <2>2, CoversNone
<1>6. ClaimOK(W, NoVec, D, P)
  BY <1>1, <1>3, <1>4, <1>5 DEF ClaimOK, Reaches
<1>7. ASSUME NEW s \in Servers
      PROVE  MarkOK(W, s, Scratch, D, P)
  <2>1. Scratch.obj = 0 /\ Scratch.prop = 0
    BY DEF Scratch
  <2>2. ASSUME NEW E \in Dbs(W, s), NEW o \in W.kept, NEW a \in Attrs, usnChanged(E, o) <= 0
        PROVE  E.db[o][a].usn <= 0
    <3>1. o \in Objs /\ E \in Databases /\ E.db[o][a] \in Stamps
      BY HeldType
    <3>2. E.db[o][a].usn \in Nat /\ E.db[o][a].usn <= usnChanged(E, o) /\ usnChanged(E, o) \in Nat
      BY <3>1, usnChangedOK, StampFields
    <3> QED BY <3>2, <2>2
  <2> QED BY <1>2, <1>5, <2>1, <2>2 DEF MarkOK
<1> QED BY <1>6, <1>7

\* What is covered stays so with more under way.
LEMMA MarkMore ==
  ASSUME NEW W, NEW s, NEW vec, NEW D, NEW P, NEW R, P \subseteq R, MarkOK(W, s, vec, D, P)
  PROVE  MarkOK(W, s, vec, D, R)
BY CoversMore DEF MarkOK

LEMMA ClaimMore ==
  ASSUME NEW W, NEW U, NEW D, NEW P, NEW R, P \subseteq R, ClaimOK(W, U, D, P)
  PROVE  ClaimOK(W, U, D, R)
BY CoversMore DEF ClaimOK

\* A vector that takes each cursor from one of two sound ones is sound.
LEMMA ClaimUnion ==
  ASSUME NEW W, WorldType(W), NEW T \in Vectors, NEW U \in Vectors, NEW X \in Vectors, NEW D, NEW P,
         ClaimOK(W, T, D, P), ClaimOK(W, U, D, P), \A i \in Ids : X[i] = T[i] \/ X[i] = U[i]
  PROVE  ClaimOK(W, X, D, P)
<1>1. VecBelow(W, T) /\ VecBelow(W, U)
  BY DEF ClaimOK
<1>2. VecBelow(W, X)
  <2>1. ASSUME NEW s \in Servers, NEW i \in Mine(W, s)
        PROVE  Below(W, s, X[i])
    BY <1>1, MineType DEF VecBelow
  <2>2. ASSUME NEW s \in Servers, NEW x \in W.open[s]
        PROVE  X[x.id] < x.ousn
    BY <1>1 DEF VecBelow, WorldType
  <2>3. \A i \in Ids : i > W.ids => X[i] = 0
    BY <1>1 DEF VecBelow
  <2> QED BY <2>1, <2>2, <2>3 DEF VecBelow
<1>3. ASSUME NEW o \in W.kept, NEW a \in Attrs, NEW x \in Held(W, o, a), x.id # NoId, x.ousn <= X[x.id]
      PROVE  Covers(D, P, o, a, x)
  <2>1. x.id \in Ids
    BY <1>3, HeldType, StampFields
  <2> QED BY <1>3, <2>1 DEF ClaimOK
<1>4. ASSUME NEW s \in Servers, NEW E \in Dbs(W, s), NEW o \in W.kept, NEW a \in Attrs,
             Reaches(W, s, X, E.db[o][a].usn)
      PROVE  Covers(D, P, o, a, E.db[o][a])
  <2>1. Reaches(W, s, T, E.db[o][a].usn) \/ Reaches(W, s, U, E.db[o][a].usn)
    BY <1>4 DEF Reaches
  <2> QED BY <2>1 DEF ClaimOK
<1> QED BY <1>2, <1>3, <1>4 DEF ClaimOK

\* The vector of server s with its own cursor at n, below all that is yet to come:
\* whoever has all of s, has all that it claims.
LEMMA OwnClaim ==
  ASSUME NEW W, WorldType(W), WorldOK(W), NEW s \in Servers, NEW n \in Nat, Below(W, s, n),
         ClaimOK(W, W.live[s].utd, W.live[s], {}), NEW X \in Vectors,
         \A i \in Ids : X[i] = IF i = W.cur[s] THEN n ELSE W.live[s].utd[i],
         NEW D \in Databases, NEW P, P \subseteq Entries,
         \A o \in W.kept, a \in Attrs : Covers(D, P, o, a, W.live[s].db[o][a])
  PROVE  ClaimOK(W, X, D, P)
<1> DEFINE L == W.live[s]
           cur == W.cur[s]
<1>1. L \in Databases /\ cur \in Ids /\ W.disk[s] \in Databases /\ W.ids \in Nat /\ IdsOK(W)
  BY DEF WorldType, WorldOK
<1>2. cur \in Mine(W, s) /\ cur <= W.ids
  BY <1>1, MineType DEF IdsOK
<1>3. VecBelow(W, L.utd)
  BY DEF ClaimOK
<1> HIDE DEF L, cur
<1>4. \A i \in Ids : X[i] = IF i = cur THEN n ELSE L.utd[i]
  BY DEF L, cur
<1>5. VecBelow(W, X)
  <2>1. ASSUME NEW t \in Servers, NEW i \in Mine(W, t)
        PROVE  Below(W, t, X[i])
    <3>1. i \in Ids
      BY MineType
    <3>2. CASE i = cur
      <4>1. t = s
        BY <3>2, <1>1, <1>2 DEF IdsOK
      <4> QED BY <4>1, <3>2, <1>1, <1>4
    <3>3. CASE i # cur
      BY <3>1, <3>3, <1>3, <1>4 DEF VecBelow
    <3> QED BY <3>2, <3>3
  <2>2. ASSUME NEW t \in Servers, NEW x \in W.open[t]
        PROVE  X[x.id] < x.ousn
    <3>1. x.id \in Ids /\ x.ousn \in W.free[t]
      BY DEF WorldType
    <3>2. CASE x.id = cur
      <4>1. t = s
        BY <3>2, <1>1, <1>2 DEF IdsOK
      <4> QED BY <4>1, <3>1, <3>2, <1>1, <1>4 DEF Below
    <3>3. CASE x.id # cur
      BY <3>1, <3>3, <1>3, <1>4 DEF VecBelow
    <3> QED BY <3>2, <3>3
  <2>3. \A i \in Ids : i > W.ids => X[i] = 0
    <3> TAKE i \in Ids
    <3>1. i \in Nat
      BY IdsPositive
    <3> QED BY <3>1, <1>1, <1>2, <1>3, <1>4 DEF VecBelow
  <2> QED BY <2>1, <2>2, <2>3 DEF VecBelow
<1>6. ASSUME NEW o \in W.kept, NEW a \in Attrs, NEW x \in Stamps, Covers(L, {}, o, a, x)
      PROVE  Covers(D, P, o, a, x)
  <2>1. o \in Objs /\ L.db[o][a] \in Stamps
    BY <1>1, StampOf DEF WorldType
  <2>2. ~Newer(x, L.db[o][a]) /\ Covers(D, P, o, a, L.db[o][a])
    BY <1>6 DEF Covers, L
  <2> QED BY <2>1, <2>2, CoversOlder
<1>7. ASSUME NEW o \in W.kept, NEW a \in Attrs, NEW E \in Dbs(W, s)
      PROVE  Covers(D, P, o, a, E.db[o][a])
  <2>1. E.db[o][a] \in Stamps /\ Covers(W.live[s], {}, o, a, W.disk[s].db[o][a])
    BY HeldType DEF WorldOK
  <2>2. CASE E = W.live[s]
    BY <2>2
  <2>3. CASE E = W.disk[s]
    BY <2>1, <2>3, <1>6 DEF L
  <2> QED BY <2>2, <2>3 DEF Dbs
<1>8. ASSUME NEW o \in W.kept, NEW a \in Attrs, NEW x \in Held(W, o, a), x.id # NoId, x.ousn <= X[x.id]
      PROVE  Covers(D, P, o, a, x)
  <2>1. x \in Stamps
    BY HeldType
  <2>2. x.id \in Ids
    BY <2>1, <1>8, StampFields
  <2>3. CASE x.id # cur
    <3>1. Covers(L, {}, o, a, x)
      BY <2>2, <2>3, <1>4, <1>8 DEF ClaimOK, L
    <3> QED BY <3>1, <2>1, <1>6
  <2>4. CASE x.id = cur /\ x \in Outside(W, s, o, a)
    <3>1. Covers(W.disk[s], {}, o, a, x)
      BY <2>4, <1>2 DEF WorldOK
    <3>2. o \in Objs /\ W.disk[s].db[o][a] \in Stamps
      BY <1>1, StampOf DEF WorldType
    <3>3. ~Newer(x, W.disk[s].db[o][a]) /\ Covers(L, {}, o, a, W.disk[s].db[o][a])
      BY <3>1 DEF Covers, WorldOK, L
    <3>4. Covers(L, {}, o, a, x)
      BY <1>1, <2>1, <3>2, <3>3, CoversOlder
    <3> QED BY <3>4, <2>1, <1>6
  <2>5. CASE x \notin Outside(W, s, o, a)
    <3>1. \E E \in Dbs(W, s) : x = E.db[o][a]
      BY <2>5 DEF Held, Outside
    <3> QED BY <3>1, <1>7
  <2> QED BY <2>3, <2>4, <2>5
<1>9. ASSUME NEW t \in Servers, NEW E \in Dbs(W, t), NEW o \in W.kept, NEW a \in Attrs,
             Reaches(W, t, X, E.db[o][a].usn)
      PROVE  Covers(D, P, o, a, E.db[o][a])
  <2> DEFINE x == E.db[o][a]
  <2>1. o \in Objs /\ x \in Stamps /\ (x = None \/ x.usn >= 1)
    BY HeldType
  <2> HIDE DEF x
  <2>2. PICK i \in Ids : x.usn <= X[i] /\ (i \in Mine(W, t) \/ x.usn <= W.live[t].retired[i])
    BY <1>9 DEF Reaches, x
  <2>3. CASE t = s
    BY <2>3, <1>7
  <2>4. CASE t # s /\ i = cur
    <3>1. i \notin Mine(W, t) /\ W.live[t].retired[i] = 0
      BY <2>4, <1>1, <1>2 DEF IdsOK
    <3>2. x = None
      BY <3>1, <2>1, <2>2, StampFields
    <3> QED BY <3>2, <2>1, CoversNone DEF x
  <2>5. CASE i # cur
    <3>1. Reaches(W, t, L.utd, x.usn)
      BY <2>2, <2>5, <1>4 DEF Reaches
    <3>2. Covers(L, {}, o, a, x)
      BY <3>1 DEF ClaimOK, L, x
    <3> QED BY <3>2, <2>1, <1>6 DEF x
  <2> QED BY <2>3, <2>4, <2>5
<1> QED BY <1>5, <1>8, <1>9 DEF ClaimOK

LEMMA WorldTyped == TypeInv /\ ShapeInv => WorldType(World)
<1> SUFFICES ASSUME TypeInv, ShapeInv PROVE WorldType(World)
  OBVIOUS
<1>1. /\ World.live = live /\ World.disk = disk /\ World.cur = curId /\ World.ids = count.ids
      /\ World.kept = Objs \ expired /\ World.packets = Packets
      /\ \A s \in Servers : World.free[s] = Free(s) /\ World.open[s] = {w.stamp : w \in pending[s]}
  BY DEF World
<1>2. live \in [Servers -> Databases] /\ disk \in [Servers -> Databases] /\ curId \in [Servers -> Ids]
      /\ count.ids \in Nat
  BY DEF TypeInv, StoreType, CountType, Counts
<1>3. Packets \subseteq Entries /\ ObjsOK(Packets)
  <2> SUFFICES ASSUME NEW e \in Packets PROVE e \in Entries /\ \A a \in DOMAIN e.md : Real(e.md[a])
    BY DEF ObjsOK
  <2>1. PICK d \in Servers : e \in cyc[d].pkt.objs \/ e \in rpc[d].reply.objs
    BY DEF Packets
  <2>2. cyc[d] \in Cycles /\ rpc[d] \in Calls
    BY DEF TypeInv, CommType
  <2>3. cyc[d].pkt \in Replies /\ rpc[d].reply \in Replies
    BY <2>2, CycleFields, CallFields
  <2>4. cyc[d].pkt.objs \subseteq Entries /\ rpc[d].reply.objs \subseteq Entries
    BY <2>3, ReplyFields
  <2>5. ObjsOK(cyc[d].pkt.objs) /\ ObjsOK(rpc[d].reply.objs)
    BY DEF ShapeInv, CommOK, CallOK
  <2> QED BY <2>1, <2>4, <2>5 DEF ObjsOK
<1>4. ASSUME NEW s \in Servers
      PROVE  /\ World.free[s] \subseteq Nat /\ \A u \in World.free[s] : u >= 1
             /\ \A x \in World.open[s] : x \in Stamps /\ x.id \in Ids /\ x.ousn \in World.free[s]
             /\ DbOK(World.live[s]) /\ DbOK(World.disk[s])
  <2>1. DbOK(World.live[s]) /\ DbOK(World.disk[s])
    BY <1>1 DEF ShapeInv, DbsOK
  <2>2. ASSUME NEW w \in pending[s]
        PROVE  w.stamp \in Stamps /\ w.stamp.id \in Ids /\ w.stamp.ousn \in Free(s)
    <3>1. w.stamp \in Stamps
      BY DEF TypeInv, StoreType, Writes
    <3>2. Real(w.stamp) /\ w.stamp.usn = w.stamp.ousn
      BY DEF ShapeInv, OpenOK, WriteOK
    <3>3. w.stamp.id \in Ids
      BY <3>1, <3>2, StampFields DEF Real
    <3> QED BY <3>1, <3>2, <3>3 DEF Free
  <2> QED BY <1>1, <2>1, <2>2, FreeType
<1> QED BY <1>1, <1>2, <1>3, <1>4 DEF WorldType

LEMMA WorldTypedNext == (TypeInv /\ ShapeInv)' => WorldType(World)'
BY WorldTyped, PTL

\* A lower watermark is sound, and one raised to what is covered.
LEMMA LowerMark ==
  ASSUME NEW W, WorldType(W), NEW s \in Servers, NEW vec \in USNVectors, NEW low \in USNVectors,
         low.obj <= vec.obj, low.prop <= vec.prop, NEW D, NEW P, MarkOK(W, s, vec, D, P)
  PROVE  MarkOK(W, s, low, D, P)
<1>1. vec.obj \in Nat /\ vec.prop \in Nat /\ low.obj \in Nat /\ low.prop \in Nat
  BY USNVectorFields
<1>2. Below(W, s, low.obj) /\ Below(W, s, low.prop)
  BY <1>1, FreeIs DEF MarkOK, Below
<1>3. ASSUME NEW E \in Dbs(W, s), NEW o \in W.kept, NEW a \in Attrs,
             E.db[o][a].usn <= low.prop \/ usnChanged(E, o) <= low.obj
      PROVE  Covers(D, P, o, a, E.db[o][a])
  <2>1. o \in Objs /\ E \in Databases /\ E.db[o][a] \in Stamps
    BY HeldType
  <2>2. E.db[o][a].usn \in Nat /\ usnChanged(E, o) \in Nat
    BY <2>1, StampFields, usnChangedOK
  <2>3. E.db[o][a].usn <= vec.prop \/ usnChanged(E, o) <= vec.obj
    BY <1>1, <1>3, <2>2
  <2> QED BY <2>3 DEF MarkOK
<1> QED BY <1>2, <1>3 DEF MarkOK

LEMMA RaiseMark ==
  ASSUME NEW W, WorldType(W), NEW s \in Servers, NEW vec \in USNVectors, NEW n \in Nat, Below(W, s, n),
         NEW D, NEW P, MarkOK(W, s, vec, D, P),
         \A E \in Dbs(W, s), o \in W.kept, a \in Attrs :
           E.db[o][a].usn <= n => Covers(D, P, o, a, E.db[o][a])
  PROVE  MarkOK(W, s, Raise(vec, n), D, P)
<1> DEFINE v == Raise(vec, n)
<1>1. /\ vec.obj \in Nat /\ vec.prop \in Nat
      /\ v.prop = (IF vec.prop <= n THEN n ELSE vec.prop) /\ v.obj \in {vec.obj, n}
  BY USNVectorFields, RaiseOK
<1> HIDE DEF v
<1>2. Below(W, s, v.obj) /\ Below(W, s, v.prop)
  BY <1>1 DEF MarkOK
<1>3. ASSUME NEW E \in Dbs(W, s), NEW o \in W.kept, NEW a \in Attrs,
             E.db[o][a].usn <= v.prop \/ usnChanged(E, o) <= v.obj
      PROVE  Covers(D, P, o, a, E.db[o][a])
  <2>1. o \in Objs /\ E \in Databases /\ E.db[o][a] \in Stamps
    BY HeldType
  <2>2. E.db[o][a].usn \in Nat /\ usnChanged(E, o) \in Nat /\ E.db[o][a].usn <= usnChanged(E, o)
    BY <2>1, StampFields, usnChangedOK
  <2>3. E.db[o][a].usn <= vec.prop \/ usnChanged(E, o) <= vec.obj \/ E.db[o][a].usn <= n
    BY <1>1, <1>3, <2>2
  <2> QED BY <2>3 DEF MarkOK
<1>4. MarkOK(W, s, v, D, P)
  BY <1>2, <1>3 DEF MarkOK
<1> QED BY <1>4 DEF v

\* What a sound vector claims of a server: all it held up to a cursor.
LEMMA CursorCovers ==
  ASSUME NEW W, WorldType(W), IdsOK(W), NEW s \in Servers, NEW U \in Vectors, NEW D, NEW P,
         ClaimOK(W, U, D, P), NEW i \in Ids, NEW n \in Nat, n <= U[i],
         i \in Mine(W, s) \/ n <= W.live[s].retired[i]
  PROVE  /\ Below(W, s, n)
         /\ \A E \in Dbs(W, s), o \in W.kept, a \in Attrs :
              E.db[o][a].usn <= n => Covers(D, P, o, a, E.db[o][a])
<1>1. U[i] \in Nat /\ W.live[s].retired[i] \in Nat
  BY VectorAt, MineType
<1>2. Below(W, s, n)
  <2>1. i \in Mine(W, s) => Below(W, s, U[i])
    BY DEF ClaimOK, VecBelow
  <2>2. Below(W, s, W.live[s].retired[i])
    BY DEF IdsOK
  <2> QED BY <1>1, <2>1, <2>2, FreeIs DEF Below
<1>3. ASSUME NEW E \in Dbs(W, s), NEW o \in W.kept, NEW a \in Attrs, E.db[o][a].usn <= n
      PROVE  Covers(D, P, o, a, E.db[o][a])
  <2>1. E.db[o][a].usn \in Nat
    BY HeldType, StampFields
  <2>2. Reaches(W, s, U, E.db[o][a].usn)
    BY <1>1, <1>3, <2>1 DEF Reaches
  <2> QED BY <2>2 DEF ClaimOK
<1> QED BY <1>2, <1>3

\* DraImproveCallersUsnVector raises a watermark only over what the vector says is
\* there.
LEMMA ImproveMark ==
  ASSUME TypeInv, ShapeInv, IdsOK(World), NEW s \in Servers, NEW U \in Vectors,
         NEW id \in Ids \cup {NoId}, NEW vec \in USNVectors, NEW D, NEW P,
         ClaimOK(World, U, D, P), MarkOK(World, s, vec, D, P)
  PROVE  MarkOK(World, s, DraImproveCallersUsnVector(s, U, id, vec), D, P)
<1> DEFINE W == World
<1>1. WorldType(W)
  BY WorldTyped
<1>2. PICK rolled \in USNVectors, i \in Ids, m \in Nat :
           /\ rolled.obj <= vec.obj /\ rolled.prop <= vec.prop
           /\ m <= U[i] /\ m <= live[s].retired[i]
           /\ DraImproveCallersUsnVector(s, U, id, vec) = Raise(Raise(rolled, U[curId[s]]), m)
  BY ImproveIs
<1>3. W.live[s] = live[s] /\ W.cur[s] = curId[s] /\ curId[s] \in Ids
  BY DEF World, TypeInv, StoreType
<1>4. IdsOK(W) /\ ClaimOK(W, U, D, P) /\ MarkOK(W, s, vec, D, P)
  OBVIOUS
<1> HIDE DEF W
<1>5. MarkOK(W, s, rolled, D, P)
  BY <1>1, <1>2, <1>4, LowerMark
<1> DEFINE n == U[curId[s]]
<1>6. n \in Nat /\ n <= U[curId[s]] /\ curId[s] \in Mine(W, s)
  BY <1>1, <1>3, VectorAt, MineType
<1>7. Below(W, s, n) /\ \A E \in Dbs(W, s), o \in W.kept, a \in Attrs :
        E.db[o][a].usn <= n => Covers(D, P, o, a, E.db[o][a])
  <2> HIDE DEF n
  <2> QED BY <1>1, <1>3, <1>4, <1>6, CursorCovers
<1> HIDE DEF n
<1>8. MarkOK(W, s, Raise(rolled, n), D, P) /\ Raise(rolled, n) \in USNVectors
  BY <1>1, <1>5, <1>6, <1>7, RaiseMark, RaiseOK
<1>9. Below(W, s, m) /\ \A E \in Dbs(W, s), o \in W.kept, a \in Attrs :
        E.db[o][a].usn <= m => Covers(D, P, o, a, E.db[o][a])
  BY <1>1, <1>2, <1>3, <1>4, CursorCovers
<1>10. MarkOK(W, s, Raise(Raise(rolled, n), m), D, P)
  BY <1>1, <1>8, <1>9, RaiseMark
<1> QED BY <1>2, <1>10 DEF W, n

LEMMA RequestedMark ==
  ASSUME TypeInv, ShapeInv, IdsOK(World), NEW s \in Servers, NEW U \in Vectors, NEW q \in Requests,
         NEW D \in Databases, NEW P, ClaimOK(World, U, D, P), MarkOK(World, s, q.vec, D, P)
  PROVE  MarkOK(World, s, RequestedFrom(s, U, q), D, P)
<1>1. q.vec \in USNVectors /\ q.id \in Ids \cup {NoId} /\ q.full \in BOOLEAN
  BY RequestFields
<1>2. CASE q.full
  <2> DEFINE low == [q.vec EXCEPT !.prop = 0]
  <2>1. low \in USNVectors /\ low.obj = q.vec.obj /\ low.prop = 0
    BY <1>1 DEF USNVectors
  <2>2. q.vec.obj \in Nat /\ q.vec.prop \in Nat
    BY <1>1, USNVectorFields
  <2>3. RequestedFrom(s, U, q) = low
    BY <1>2 DEF RequestedFrom
  <2> HIDE DEF low
  <2>4. low.obj <= q.vec.obj /\ low.prop <= q.vec.prop
    BY <2>1, <2>2
  <2> QED BY <1>1, <2>1, <2>3, <2>4, WorldTyped, LowerMark
<1>3. CASE ~q.full
  <2>1. RequestedFrom(s, U, q) = DraImproveCallersUsnVector(s, U, q.id, q.vec)
    BY <1>3 DEF RequestedFrom
  <2> QED BY <1>1, <2>1, ImproveMark
<1> QED BY <1>2, <1>3

\* A visited object is covered: what is not shipped of it, is had.
LEMMA SentCovered ==
  ASSUME TypeInv, ShapeInv, NEW d \in Servers, rpc[d].st = "marked", NEW visited, visited \subseteq Objs,
         NEW more \in BOOLEAN, NEW W, WorldType(W), W.live = live, NEW D \in Databases, NEW P, P \subseteq Entries,
         MarkOK(W, cyc[d].src, rpc[d].from, D, P), ClaimOK(W, cyc[d].utd, D, {}),
         NEW o \in W.kept, o \in WithAncestors(live[cyc[d].src], visited, rpc[d].req.anc), NEW a \in Attrs
  PROVE  Covers(D, P \cup Reply(d, visited, more).objs, o, a, live[cyc[d].src].db[o][a])
<1> DEFINE s    == cyc[d].src
           L    == live[s]
           from == rpc[d].from
           req  == rpc[d].req
           V    == IF req.full THEN NoVec ELSE cyc[d].utd
           Md(p) == [b \in ReplFilterPropsToShip(L, p, from.prop, V) |-> [L.db[p][b] EXCEPT !.usn = 0]]
           objs == {[obj |-> p, place |-> Place(L, visited, req.anc, p), md |-> Md(p)] :
                   p \in {p \in WithAncestors(L, visited, req.anc) : ReplFilterPropsToShip(L, p, from.prop, V) # {}}}
           x    == L.db[o][a]
           R    == P \cup objs
<1>1. /\ cyc[d] \in Cycles /\ rpc[d] \in Calls /\ s \in Servers /\ L \in Databases
  BY CallTypes
<1>2. from \in USNVectors /\ req \in Requests /\ req.anc \in BOOLEAN /\ req.full \in BOOLEAN
  BY <1>1, CallFields, RequestFields
<1>3. Reply(d, visited, more).objs = objs
  BY DEF Reply
<1>4. o \in Objs /\ x \in Stamps /\ (x = None \/ (Real(x) /\ x.usn >= 1)) /\ L \in Dbs(W, s) /\ x \in Held(W, o, a)
  BY <1>1, HeldType DEF Dbs
<1>5. x.usn \in Nat /\ x.ousn \in Nat /\ from.prop \in Nat
  BY <1>2, <1>4, StampFields, USNVectorFields
<1>6. req.full => V = NoVec
  OBVIOUS
<1>7. ~req.full => V = cyc[d].utd
  OBVIOUS
<1> HIDE DEF V
<1>8. CASE x = None
  BY <1>3, <1>4, <1>8, CoversNone
<1>9. CASE x # None /\ x.usn <= from.prop
  <2>1. Covers(D, P, o, a, x)
    BY <1>4, <1>9 DEF MarkOK
  <2> HIDE DEF objs, x
  <2>2. Covers(D, R, o, a, x)
    BY <2>1, CoversMore
  <2> QED BY <1>3, <2>2 DEF x
<1>10. CASE x # None /\ ~(x.usn <= from.prop) /\ x.ousn <= V[x.id]
  <2>1. x.id \in Ids /\ x.id # NoId /\ x.ousn >= 1
    BY <1>4, <1>10, StampFields DEF Real
  <2>2. V = cyc[d].utd
    <3>1. ASSUME req.full PROVE FALSE
      <4>1. V[x.id] = 0
        BY <3>1, <1>6, <2>1 DEF NoVec
      <4> QED BY <4>1, <1>5, <1>10, <2>1
    <3> QED BY <3>1, <1>7
  <2>3. Covers(D, {}, o, a, x)
    BY <1>4, <1>10, <2>1, <2>2 DEF ClaimOK
  <2> HIDE DEF objs, x
  <2>4. Covers(D, R, o, a, x)
    BY <2>3, CoversMore
  <2> QED BY <1>3, <2>4 DEF x
<1>11. CASE x # None /\ ~(x.usn <= from.prop) /\ ~(x.ousn <= V[x.id])
  <2>1. x.id \in Ids /\ x.id # NoId
    BY <1>4, <1>11, StampFields DEF Real
  <2>2. V \in Vectors
    BY <1>1, <1>6, <1>7, Constants, CycleFields, <1>2
  <2>3. V[x.id] \in Nat
    BY <2>1, <2>2, VectorAt
  <2>4. a \in ReplFilterPropsToShip(L, o, from.prop, V)
    <3>1. x.usn > from.prop /\ x.ousn > V[x.id]
      <4> HIDE DEF x, from, V
      <4> QED BY <1>5, <1>11, <2>3
    <3>2. x.ousn > (IF x.id = NoId THEN 0 ELSE V[x.id])
      <4> HIDE DEF x, V
      <4> QED BY <2>1, <3>1
    <3> HIDE DEF L, from
    <3> QED BY <3>1, <3>2 DEF ReplFilterPropsToShip
  <2>5. o \in WithAncestors(L, visited, req.anc)
    OBVIOUS
  <2> DEFINE e == [obj |-> o, place |-> Place(L, visited, req.anc, o), md |-> Md(o)]
  <2>6. e \in objs /\ e.obj = o /\ a \in DOMAIN e.md /\ e.md[a] = [x EXCEPT !.usn = 0]
    BY <2>4, <2>5
  <2> HIDE DEF e, objs, x
  <2>7. e.md[a].ver = x.ver /\ e.md[a].id = x.id /\ e.md[a].ousn = x.ousn
    BY <1>4, <2>6, PutFields
  <2>8. ~Newer(x, e.md[a])
    BY <2>7, <1>4, StampFields DEF Newer
  <2>9. Covers(D, R, o, a, x)
    BY <2>6, <2>8 DEF Covers
  <2> QED BY <1>3, <2>9 DEF x
<1> QED BY <1>8, <1>9, <1>10, <1>11

\* The reply: its watermark and its vector are sound for a destination that applies
\* the packet at hand and the reply.
LEMMA ReplySound ==
  ASSUME TypeInv, ShapeInv, NEW d \in Servers, rpc[d].st = "marked", NEW visited \in SUBSET Objs,
         NEW more \in BOOLEAN,
         \/ ~more /\ visited = Scanned(live[cyc[d].src], rpc[d].from.obj)
         \/ /\ more
            /\ \E last \in Scanned(live[cyc[d].src], rpc[d].from.obj) \ {NCHead} :
                 visited = {o \in Scanned(live[cyc[d].src], rpc[d].from.obj) :
                              o = NCHead \/ usnChanged(live[cyc[d].src], o)
                                              <= usnChanged(live[cyc[d].src], last)},
         NEW W, WorldType(W), WorldOK(W), W.live = live, W.cur = curId,
         W.disk[cyc[d].src] = live[cyc[d].src],
         NEW D \in Databases, NEW P, P \subseteq Entries,
         MarkOK(W, cyc[d].src, rpc[d].from, D, P), ClaimOK(W, cyc[d].utd, D, {}),
         Below(W, cyc[d].src, rpc[d].usnLowestC - 1),
         ClaimOK(W, live[cyc[d].src].utd, live[cyc[d].src], {})
  PROVE  /\ MarkOK(W, cyc[d].src, Reply(d, visited, more).to, D, P \cup Reply(d, visited, more).objs)
         /\ ClaimOK(W, Reply(d, visited, more).utd, D, P \cup Reply(d, visited, more).objs)
<1> DEFINE s    == cyc[d].src
           L    == live[s]
           from == rpc[d].from
           low  == rpc[d].usnLowestC
           rep  == Reply(d, visited, more)
           R    == P \cup rep.objs
           mark == WatermarkAfter(L, visited, from, low)
<1>1. /\ cyc[d] \in Cycles /\ rpc[d] \in Calls /\ s \in Servers /\ L \in Databases /\ curId[s] \in Ids
  BY CallTypes
<1>2. from \in USNVectors /\ low \in Nat /\ low >= 1
  BY <1>1, CallFields DEF TypeInv, CommType
<1>3. from.obj \in Nat /\ from.prop \in Nat
  BY <1>2, USNVectorFields
<1>4. rep.to = UsnVectorTo(mark, from, more) /\ rep.utd = VectorSent(s, low, more)
  BY DEF Reply
<1>5. rep \in Replies
  BY ReplyType
<1>6. R \subseteq Entries
  BY <1>5, ReplyFields
<1>7. \A o \in W.kept, a \in Attrs : o \in visited => Covers(D, R, o, a, L.db[o][a])
  <2>1. visited \subseteq WithAncestors(L, visited, rpc[d].req.anc)
    BY CallTypes, CallFields, RequestFields, WithAncestorsOK
  <2> QED BY <2>1, SentCovered
<1>8. Dbs(W, s) = {L}
  BY DEF Dbs
<1>9. /\ mark \in Nat
      /\ mark = from.obj \/ (mark < low /\ \E o \in visited \ {NCHead} : usnChanged(L, o) = mark)
  BY <1>1, <1>2, WatermarkOK
<1>10. MarkOK(W, s, from, D, R)
  <2> HIDE DEF rep
  <2> QED BY MarkMore
<1> HIDE DEF mark, R
<1>11. ASSUME NEW o \in W.kept, NEW a \in Attrs, o \notin visited, ~Exists(L, o)
       PROVE  Covers(D, R, o, a, L.db[o][a])
  <2>1. o \in Objs /\ o # NCHead /\ L.db[o]["rdn"] = None
    BY <1>11 DEF Exists, WorldType
  <2>2. o \in Leaves /\ DbOK(L)
    BY <1>1, <2>1 DEF Objs, ShapeInv, DbsOK
  <2>3. L.db[o][a] = None
    BY <2>1, <2>2 DEF DbOK, Attrs
  <2> QED BY <2>1, <2>3, CoversNone
<1>12. \A o \in Objs, a \in Attrs : /\ usnChanged(L, o) \in Nat /\ L.db[o][a].usn \in Nat
  BY <1>1, usnChangedOK, StampOf, StampFields
<1>13. W.kept \subseteq Objs
  BY DEF WorldType
<1>14. Below(W, s, mark)
  <2>1. Below(W, s, from.obj)
    BY DEF MarkOK
  <2>2. CASE mark < low
    <3> SUFFICES ASSUME NEW u \in W.free[s] PROVE mark < u
      BY DEF Below
    <3>1. u \in Nat /\ low - 1 < u
      BY <1>1, FreeIs DEF Below
    <3> QED BY <3>1, <2>2, <1>2, <1>9
  <2> QED BY <2>1, <2>2, <1>9
<1>15. CASE ~more
  <2>1. visited = Scanned(L, from.obj)
    BY <1>15
  <2>2. ASSUME NEW o \in W.kept, NEW a \in Attrs
        PROVE  Covers(D, R, o, a, L.db[o][a])
    <3>1. o \in Objs
      BY <1>13
    <3>2. CASE o \in visited
      BY <3>2, <1>7
    <3>3. CASE o \notin visited /\ ~Exists(L, o)
      BY <3>3, <1>11
    <3>4. CASE o \notin visited /\ Exists(L, o)
      <4>1. usnChanged(L, o) <= from.obj
        BY <2>1, <3>1, <3>4, <1>3, <1>12 DEF Scanned
      <4> QED BY <4>1, <1>8, <1>10 DEF MarkOK
    <3> QED BY <3>2, <3>3, <3>4
  <2>3. rep.to = [obj |-> mark, prop |-> mark]
    BY <1>4, <1>15 DEF UsnVectorTo
  <2>4. MarkOK(W, s, rep.to, D, R)
    <3> HIDE DEF rep
    <3>1. rep.to.obj = mark /\ rep.to.prop = mark
      BY <2>3
    <3> QED BY <3>1, <2>2, <1>8, <1>14 DEF MarkOK
  <2>5. ClaimOK(W, rep.utd, D, R)
    <3> DEFINE X == UpToDateVec_Read(s, low - 1)
    <3>1. low - 1 \in Nat
      BY <1>2
    <3>2. X \in Vectors /\ \A i \in Ids : X[i] = IF i = curId[s] THEN low - 1 ELSE live[s].utd[i]
      BY <3>1, <1>1, UpToDateVecReadOK
    <3>3. rep.utd = X
      BY <1>4, <1>15 DEF VectorSent
    <3> HIDE DEF X, rep, s
    <3>4. W.live[s] = L /\ W.cur[s] = curId[s]
      OBVIOUS
    <3>5. \A i \in Ids : X[i] = IF i = W.cur[s] THEN low - 1 ELSE W.live[s].utd[i]
      BY <3>2, <3>4
    <3>6. ClaimOK(W, W.live[s].utd, W.live[s], {}) /\ Below(W, s, low - 1)
      BY <3>4 DEF s
    <3>7. \A o \in W.kept, a \in Attrs : Covers(D, R, o, a, W.live[s].db[o][a])
      BY <3>4, <2>2
    <3>8. ClaimOK(W, X, D, R)
      BY <1>1, <1>6, <3>1, <3>2, <3>5, <3>6, <3>7, OwnClaim
    <3> QED BY <3>3, <3>8
  <2> QED BY <2>4, <2>5 DEF R
<1>16. CASE more
  <2>1. PICK last \in Scanned(L, from.obj) \ {NCHead} :
          visited = {o \in Scanned(L, from.obj) : o = NCHead \/ usnChanged(L, o) <= usnChanged(L, last)}
    BY <1>16
  <2>2. last \in Objs /\ usnChanged(L, last) \in Nat
    <3>1. Scanned(L, from.obj) \subseteq Objs
      BY DEF Scanned
    <3>2. last \in Objs
      BY <2>1, <3>1
    <3> QED BY <3>2, <1>1, usnChangedOK
  <2>3. rep.to = [obj |-> mark, prop |-> from.prop]
    BY <1>4, <1>16 DEF UsnVectorTo
  <2>4. ASSUME NEW o \in W.kept, NEW a \in Attrs, L.db[o][a].usn <= from.prop \/ usnChanged(L, o) <= mark
        PROVE  Covers(D, R, o, a, L.db[o][a])
    <3>1. o \in Objs
      BY <1>13
    <3>2. CASE o \in visited
      BY <3>2, <1>7
    <3>3. CASE o \notin visited /\ ~Exists(L, o)
      BY <3>3, <1>11
    <3>4. CASE o \notin visited /\ Exists(L, o)
      <4>1. L.db[o][a].usn <= from.prop \/ usnChanged(L, o) <= from.obj
        <5>1. ASSUME ~(usnChanged(L, o) <= from.obj), usnChanged(L, o) <= mark
              PROVE  FALSE
          <6> HIDE DEF L, from, mark
          <6>0. usnChanged(L, o) > from.obj
            BY <5>1, <3>1, <1>3, <1>12
          <6>1. o \in Scanned(L, from.obj)
            BY <6>0, <3>1, <3>4 DEF Scanned
          <6>2. PICK p \in visited \ {NCHead} : usnChanged(L, p) = mark
            BY <5>1, <1>9
          <6>3. usnChanged(L, o) <= usnChanged(L, last)
            BY <5>1, <6>2, <2>1, <2>2, <3>1, <1>12
          <6> QED BY <6>1, <6>3, <2>1, <3>4
        <5> QED BY <2>4, <5>1
      <4> QED BY <4>1, <1>8, <1>10, Zenon DEF MarkOK
    <3> QED BY <3>2, <3>3, <3>4
  <2>5. Below(W, s, from.prop)
    BY DEF MarkOK
  <2>6. MarkOK(W, s, rep.to, D, R)
    <3> HIDE DEF rep
    <3>1. rep.to.obj = mark /\ rep.to.prop = from.prop
      BY <2>3
    <3> QED BY <3>1, <2>4, <2>5, <1>8, <1>14 DEF MarkOK
  <2>7. rep.utd = NoVec
    BY <1>4, <1>16 DEF VectorSent
  <2>8. ClaimOK(W, rep.utd, D, R)
    BY <2>7, NoClaim
  <2> QED BY <2>6, <2>8 DEF R
<1> QED BY <1>15, <1>16

\* The same objects under the same invocation id.
Like(D, E) == E.db = D.db /\ E.id = D.id /\ E.retired = D.retired

\* Steps that change no object: they end or start transactions, flush or lose what
\* is not on disk, or exchange packets.
LEMMA QuietStep ==
  ASSUME NEW V, NEW W, WorldType(V), WorldType(W), WorldOK(V), W.kept \subseteq V.kept, W.ids = V.ids,
         \A s \in Servers : W.cur[s] \in Mine(V, s) /\ W.free[s] \subseteq V.free[s] /\ W.open[s] \subseteq V.open[s],
         \A s \in Servers :
           \/ Like(V.live[s], W.live[s]) /\ (Like(V.disk[s], W.disk[s]) \/ Like(V.live[s], W.disk[s]))
           \/ Like(V.disk[s], W.live[s]) /\ Like(V.disk[s], W.disk[s]),
         \A e \in W.packets :
           \/ e \in V.packets
           \/ \E s \in Servers : /\ Like(V.live[s], W.disk[s])
                                 /\ \A a \in DOMAIN e.md : Same(e.md[a], V.live[s].db[e.obj][a])
  PROVE  WorldStep(V, W)
<1>1. IdsOK(V) /\ V.ids \in Nat
  BY DEF WorldOK, WorldType
<1>2. \A s \in Servers : V.live[s].id = V.disk[s].id /\ V.live[s].retired = V.disk[s].retired
  BY <1>1 DEF IdsOK
<1>3. \A s \in Servers : /\ W.live[s].id = V.live[s].id /\ W.live[s].retired = V.live[s].retired
                         /\ W.disk[s].id = V.live[s].id /\ W.disk[s].retired = V.live[s].retired
  BY <1>2 DEF Like
<1>4. \A s \in Servers : Mine(W, s) \subseteq Mine(V, s)
  BY <1>3 DEF Mine
<1>5. IdStep(V, W)
  <2>1. ASSUME NEW s \in Servers, NEW u \in W.free[s]
        PROVE  \E v \in V.free[s] : v <= u
    <3>1. u \in V.free[s] /\ u \in Nat
      BY FreeIs
    <3> QED BY <3>1
  <2> QED BY <1>1, <1>3, <1>4, <2>1 DEF IdStep, Fresh
<1>6. \A s \in Servers : \A E \in Dbs(W, s) : \E D \in Dbs(V, s) : E.db = D.db
  BY DEF Dbs, Like
<1>7. RowStep(V, W)
  BY <1>6 DEF RowStep
<1>8. ASSUME NEW o \in W.kept, NEW a \in Attrs, NEW x \in InPackets(W, o, a)
      PROVE  \/ x \in InPackets(V, o, a)
             \/ \E s \in Servers : Like(V.live[s], W.disk[s]) /\ Same(x, V.live[s].db[o][a])
  <2>1. PICK e \in W.packets : e.obj = o /\ a \in DOMAIN e.md /\ x = e.md[a]
    BY DEF InPackets
  <2>2. CASE e \in V.packets
    BY <2>1, <2>2 DEF InPackets
  <2>3. CASE e \notin V.packets
    BY <2>1, <2>3
  <2> QED BY <2>2, <2>3
<1>9. \A x : Same(x, x)
  BY DEF Same
<1>10. HeldStep(V, W)
  <2> SUFFICES ASSUME NEW o \in W.kept, NEW a \in Attrs, NEW x \in Held(W, o, a)
               PROVE  \E y \in Held(V, o, a) : Same(x, y)
    BY DEF HeldStep
  <2>1. CASE x \in InPackets(W, o, a)
    <3>1. CASE x \in InPackets(V, o, a)
      BY <3>1, <1>9 DEF Held
    <3>2. CASE \E s \in Servers : Same(x, V.live[s].db[o][a])
      <4>1. PICK s \in Servers : Same(x, V.live[s].db[o][a])
        BY <3>2
      <4>2. V.live[s].db[o][a] \in Held(V, o, a)
        BY DEF Held, Dbs
      <4> QED BY <4>1, <4>2
    <3> QED BY <2>1, <3>1, <3>2, <1>8
  <2>2. CASE x \notin InPackets(W, o, a)
    <3>1. PICK s \in Servers : \E E \in Dbs(W, s) : x = E.db[o][a]
      BY <2>2 DEF Held
    <3>2. \E D \in Dbs(V, s) : x = D.db[o][a]
      BY <3>1, <1>6
    <3>3. x \in Held(V, o, a)
      BY <3>2 DEF Held
    <3> QED BY <3>3, <1>9
  <2> QED BY <2>1, <2>2
<1>11. OutStep(V, W)
  <2> SUFFICES ASSUME NEW s \in Servers, NEW o \in W.kept, NEW a \in Attrs, NEW x \in Outside(W, s, o, a)
               PROVE  \/ \E y \in Outside(V, s, o, a) : Same(x, y)
                      \/ Covers(W.disk[s], {}, o, a, x)
    BY DEF OutStep
  <2>1. CASE x \in InPackets(W, o, a)
    <3>1. CASE x \in InPackets(V, o, a)
      BY <3>1, <1>9 DEF Outside
    <3>2. CASE \E t \in Servers : Like(V.live[t], W.disk[t]) /\ Same(x, V.live[t].db[o][a])
      <4>1. PICK t \in Servers : Like(V.live[t], W.disk[t]) /\ Same(x, V.live[t].db[o][a])
        BY <3>2
      <4>2. CASE t = s
        <5>1. o \in Objs /\ W.disk[s] \in Databases
          BY DEF WorldType
        <5>2. Covers(W.disk[s], {}, o, a, W.disk[s].db[o][a])
          BY <5>1, CoversNone
        <5>3. Same(x, W.disk[s].db[o][a])
          BY <4>1, <4>2 DEF Like
        <5> QED BY <5>2, <5>3, SameCovers
      <4>3. CASE t # s
        <5>1. V.live[t].db[o][a] \in Outside(V, s, o, a)
          BY <4>3 DEF Outside, Dbs
        <5> QED BY <4>1, <5>1
      <4> QED BY <4>2, <4>3
    <3> QED BY <2>1, <3>1, <3>2, <1>8
  <2>2. CASE x \notin InPackets(W, o, a)
    <3>1. PICK t \in Servers \ {s} : \E E \in Dbs(W, t) : x = E.db[o][a]
      BY <2>2 DEF Outside
    <3>2. \E D \in Dbs(V, t) : x = D.db[o][a]
      BY <3>1, <1>6
    <3>3. x \in Outside(V, s, o, a)
      BY <3>2 DEF Outside
    <3> QED BY <3>3, <1>9
  <2> QED BY <2>1, <2>2
<1>12. ASSUME NEW s \in Servers
       PROVE  Grows(W.kept, V.disk[s], W.disk[s]) /\ Grows(W.kept, W.disk[s], W.live[s])
  <2>1. V.live[s] \in Databases /\ V.disk[s] \in Databases /\ W.disk[s] \in Databases
        /\ W.live[s] \in Databases /\ W.kept \subseteq Objs
    BY DEF WorldType
  <2>2. Grows(W.kept, V.disk[s], V.live[s])
    BY DEF WorldOK, Grows
  <2>3. CASE Like(V.live[s], W.live[s]) /\ Like(V.disk[s], W.disk[s])
    BY <2>1, <2>2, <2>3, SameGrows DEF Grows, Covers, Like
  <2>4. CASE Like(V.live[s], W.live[s]) /\ Like(V.live[s], W.disk[s])
    BY <2>1, <2>2, <2>4, SameGrows DEF Grows, Covers, Like
  <2>5. CASE Like(V.disk[s], W.live[s]) /\ Like(V.disk[s], W.disk[s])
    <3>1. W.live[s].db = V.disk[s].db /\ W.disk[s].db = V.disk[s].db
      BY <2>5 DEF Like
    <3>2. W.live[s].db = W.disk[s].db
      BY <3>1
    <3> QED BY <2>1, <3>1, <3>2, SameGrows
  <2> QED BY <2>3, <2>4, <2>5
<1> QED BY <1>5, <1>7, <1>10, <1>11, <1>12 DEF WorldStep

\* Steps of server s that write: what appears has a USN that was free, and is a
\* write of s or comes out of a packet.
LEMMA WriteStep ==
  ASSUME NEW V, NEW W, WorldType(V), WorldType(W), WorldOK(V), W.kept \subseteq V.kept, W.ids = V.ids,
         W.cur = V.cur, W.packets \subseteq V.packets, W.disk = V.disk, NEW s \in Servers,
         \A t \in Servers : t # s => /\ W.live[t] = V.live[t] /\ W.free[t] = V.free[t] /\ W.open[t] = V.open[t],
         W.live[s].id = V.live[s].id, W.live[s].retired = V.live[s].retired,
         \A u \in W.free[s] : \E v \in V.free[s] : v <= u,
         \A x \in W.open[s] : Fresh(V, s, x),
         \A o \in W.kept, a \in Attrs :
           \/ W.live[s].db[o][a] = V.live[s].db[o][a]
           \/ /\ W.live[s].db[o][a].usn \in V.free[s]
              /\ ~Newer(V.live[s].db[o][a], W.live[s].db[o][a])
              /\ \/ Fresh(V, s, W.live[s].db[o][a])
                 \/ \E y \in InPackets(V, o, a) : Same(W.live[s].db[o][a], y)
  PROVE  WorldStep(V, W)
<1>1. IdsOK(V) /\ V.ids \in Nat
  BY DEF WorldOK, WorldType
<1>2. \A t \in Servers : V.live[t].id = V.disk[t].id /\ V.live[t].retired = V.disk[t].retired
  BY <1>1 DEF IdsOK
<1>3. \A t \in Servers : W.live[t].id = V.live[t].id /\ W.live[t].retired = V.live[t].retired
  OBVIOUS
<1>4. \A t \in Servers : Mine(W, t) = Mine(V, t)
  BY <1>3 DEF Mine
<1>5. IdStep(V, W)
  <2>1. ASSUME NEW t \in Servers, NEW u \in W.free[t]
        PROVE  \E v \in V.free[t] : v <= u
    <3>1. CASE t = s
      BY <3>1
    <3>2. CASE t # s
      <4>1. u \in V.free[t] /\ u \in Nat
        BY <3>2, FreeIs
      <4> QED BY <4>1
    <3> QED BY <3>1, <3>2
  <2>2. ASSUME NEW t \in Servers, NEW x \in W.open[t]
        PROVE  Fresh(V, t, x)
    BY DEF Fresh
  <2> QED BY <1>1, <1>2, <1>3, <1>4, <2>1, <2>2 DEF IdStep
<1>6. RowStep(V, W)
  <2> SUFFICES ASSUME NEW t \in Servers, NEW E \in Dbs(W, t), NEW o \in W.kept
               PROVE  \E D \in Dbs(V, t) : \A a \in Attrs : E.db[o][a] = D.db[o][a] \/ E.db[o][a].usn \in V.free[t]
    BY DEF RowStep
  <2>1. CASE E \in Dbs(V, t)
    BY <2>1
  <2>2. CASE t = s /\ E = W.live[s]
    BY <2>2 DEF Dbs
  <2> QED BY <2>1, <2>2 DEF Dbs
<1>7. \A x : Same(x, x)
  BY DEF Same
<1>8. \A o, a : InPackets(W, o, a) \subseteq InPackets(V, o, a)
  BY DEF InPackets
<1>9. HeldStep(V, W)
  <2> SUFFICES ASSUME NEW o \in W.kept, NEW a \in Attrs, NEW x \in Held(W, o, a)
               PROVE  (\E y \in Held(V, o, a) : Same(x, y)) \/ \E t \in Servers : Fresh(V, t, x)
    BY DEF HeldStep
  <2>1. CASE x \in Held(V, o, a)
    BY <2>1, <1>7
  <2>2. CASE x \notin Held(V, o, a)
    <3>1. x = W.live[s].db[o][a] /\ x # V.live[s].db[o][a]
      BY <2>2, <1>8 DEF Held, Dbs
    <3>2. \/ Fresh(V, s, x)
          \/ \E y \in InPackets(V, o, a) : Same(x, y)
      BY <3>1
    <3> QED BY <3>2 DEF Held
  <2> QED BY <2>1, <2>2
<1>10. OutStep(V, W)
  <2> SUFFICES ASSUME NEW t \in Servers, NEW o \in W.kept, NEW a \in Attrs, NEW x \in Outside(W, t, o, a)
               PROVE  \/ \E y \in Outside(V, t, o, a) : Same(x, y)
                      \/ \E r \in Servers \ {t} : Fresh(V, r, x)
    BY DEF OutStep
  <2>1. CASE x \in Outside(V, t, o, a)
    BY <2>1, <1>7
  <2>2. CASE x \notin Outside(V, t, o, a)
    <3>1. t # s /\ x = W.live[s].db[o][a] /\ x # V.live[s].db[o][a]
      BY <2>2, <1>8 DEF Outside, Dbs
    <3>2. \/ Fresh(V, s, x)
          \/ \E y \in InPackets(V, o, a) : Same(x, y)
      BY <3>1
    <3> QED BY <3>1, <3>2 DEF Outside
  <2> QED BY <2>1, <2>2
<1>11. ASSUME NEW t \in Servers
       PROVE  Grows(W.kept, V.disk[t], W.disk[t]) /\ Grows(W.kept, W.disk[t], W.live[t])
  <2>1. V.live[t] \in Databases /\ V.disk[t] \in Databases /\ W.live[t] \in Databases /\ W.kept \subseteq Objs
    BY DEF WorldType
  <2>2. Grows(W.kept, V.disk[t], V.live[t])
    BY DEF WorldOK, Grows
  <2>3. Grows(W.kept, V.live[t], W.live[t])
    <3>1. CASE t = s
      <4> SUFFICES ASSUME NEW o \in W.kept, NEW a \in Attrs PROVE ~Newer(V.live[s].db[o][a], W.live[s].db[o][a])
        BY <3>1 DEF Grows, Covers
      <4>1. V.live[s].db[o][a] \in Stamps
        BY <2>1, <3>1, StampOf
      <4> QED BY <4>1, NewerOrder
    <3>2. CASE t # s
      BY <2>1, <3>2, SameGrows
    <3> QED BY <3>1, <3>2
  <2>4. More(W.kept, V.live[t], {}, W.live[t], {})
    BY <2>1, <2>3, GrowsMore
  <2>5. Grows(W.kept, V.disk[t], W.live[t])
    <3> SUFFICES ASSUME NEW o \in W.kept, NEW a \in Attrs
                 PROVE  Covers(W.live[t], {}, o, a, V.disk[t].db[o][a])
      BY DEF Grows
    <3>1. V.disk[t].db[o][a] \in Stamps
      BY <2>1, StampOf
    <3> QED BY <3>1, <2>2, <2>4 DEF Grows, More
  <2> QED BY <2>1, <2>5, SameGrows
<1> QED BY <1>5, <1>6, <1>9, <1>10, <1>11 DEF WorldStep

\* A server takes a new invocation id, in memory only or for good.
LEMMA NewIdStep ==
  ASSUME NEW V, NEW W, WorldType(V), WorldType(W), WorldOK(V), W.kept = V.kept, W.ids = V.ids + 1,
         W.packets = V.packets, W.free = V.free, W.open = V.open, NEW s \in Servers, W.cur[s] = V.ids + 1,
         \A t \in Servers : t # s => W.live[t] = V.live[t] /\ W.disk[t] = V.disk[t] /\ W.cur[t] = V.cur[t],
         W.live[s].db = V.live[s].db,
         \/ W.live[s] = V.live[s] /\ W.disk[s] = V.disk[s]
         \/ /\ W.disk[s] = W.live[s] /\ W.live[s].id = V.ids + 1
            /\ \A i \in Ids : \/ W.live[s].retired[i] = V.live[s].retired[i]
                              \/ i \in Mine(V, s) /\ Below(V, s, W.live[s].retired[i])
  PROVE  WorldStep(V, W)
<1>1. IdsOK(V) /\ V.ids \in Nat
  BY DEF WorldOK, WorldType
<1>2. \A t \in Servers : V.live[t].id = V.disk[t].id /\ V.live[t].retired = V.disk[t].retired
  BY <1>1 DEF IdsOK
<1>3. \A t \in Servers : \A i \in Mine(W, t) : i \in Mine(V, t) \/ (t = s /\ i = V.ids + 1)
  BY DEF Mine
<1>4. \A t \in Servers : t # s => Mine(W, t) \subseteq Mine(V, t)
  BY <1>3
<1>5. IdStep(V, W)
  <2>1. ASSUME NEW t \in Servers, NEW u \in W.free[t]
        PROVE  \E v \in V.free[t] : v <= u
    <3>1. u \in V.free[t] /\ u \in Nat
      BY FreeIs
    <3> QED BY <3>1
  <2>2. \A t \in Servers : \A i \in Mine(W, t) : i \in Mine(V, t) \/ (V.ids < i /\ i <= W.ids)
    BY <1>1, <1>3
  <2>3. ASSUME NEW t \in Servers, NEW i \in Ids
        PROVE  \/ W.live[t].retired[i] = V.live[t].retired[i]
               \/ i \in Mine(V, t) /\ Below(V, t, W.live[t].retired[i])
    <3>1. CASE t = s
      BY <3>1
    <3>2. CASE t # s
      BY <3>2
    <3> QED BY <3>1, <3>2
  <2>4. ASSUME NEW t \in Servers
        PROVE  W.live[t].id = W.disk[t].id /\ W.live[t].retired = W.disk[t].retired
    BY <1>2
  <2>5. V.ids <= W.ids
    BY <1>1
  <2> QED BY <1>4, <2>1, <2>2, <2>3, <2>4, <2>5 DEF IdStep, Fresh
<1>6. \A t \in Servers : W.live[t].db = V.live[t].db /\ W.disk[t].db \in {V.disk[t].db, V.live[t].db}
  OBVIOUS
<1>7. \A t \in Servers : \A E \in Dbs(W, t) : \E D \in Dbs(V, t) : E.db = D.db
  BY <1>6 DEF Dbs
<1>8. \A x : Same(x, x)
  BY DEF Same
<1>9. \A o, a : InPackets(W, o, a) = InPackets(V, o, a)
  BY DEF InPackets
<1>10. \A o, a : Held(W, o, a) \subseteq Held(V, o, a) /\ \A t \in Servers : Outside(W, t, o, a) \subseteq Outside(V, t, o, a)
  <2> TAKE o, a
  <2>1. Held(W, o, a) \subseteq Held(V, o, a)
    <3> SUFFICES ASSUME NEW x \in Held(W, o, a), x \notin InPackets(W, o, a) PROVE x \in Held(V, o, a)
      BY <1>9 DEF Held
    <3>1. PICK t \in Servers : \E E \in Dbs(W, t) : x = E.db[o][a]
      BY DEF Held
    <3>2. \E E \in Dbs(V, t) : x = E.db[o][a]
      BY <3>1, <1>7
    <3> QED BY <3>2 DEF Held
  <2>2. ASSUME NEW r \in Servers
        PROVE  Outside(W, r, o, a) \subseteq Outside(V, r, o, a)
    <3> SUFFICES ASSUME NEW x \in Outside(W, r, o, a), x \notin InPackets(W, o, a) PROVE x \in Outside(V, r, o, a)
      BY <1>9 DEF Outside
    <3>1. PICK t \in Servers \ {r} : \E E \in Dbs(W, t) : x = E.db[o][a]
      BY DEF Outside
    <3>2. \E E \in Dbs(V, t) : x = E.db[o][a]
      BY <3>1, <1>7
    <3> QED BY <3>2 DEF Outside
  <2> QED BY <2>1, <2>2
<1>11. RowStep(V, W)
  BY <1>7 DEF RowStep
<1>12. HeldStep(V, W) /\ OutStep(V, W)
  BY <1>8, <1>10 DEF HeldStep, OutStep
<1>13. ASSUME NEW t \in Servers
       PROVE  Grows(W.kept, V.disk[t], W.disk[t]) /\ Grows(W.kept, W.disk[t], W.live[t])
  <2>1. V.live[t] \in Databases /\ V.disk[t] \in Databases /\ W.kept \subseteq Objs
    BY DEF WorldType
  <2>2. Grows(W.kept, V.disk[t], V.live[t])
    BY DEF WorldOK, Grows
  <2>3. CASE W.disk[t].db = V.disk[t].db
    BY <2>1, <2>2, <2>3, <1>6, SameGrows DEF Grows, Covers
  <2>4. CASE W.disk[t].db = V.live[t].db
    BY <2>1, <2>2, <2>4, <1>6, SameGrows DEF Grows, Covers
  <2> QED BY <2>3, <2>4, <1>6
<1> QED BY <1>5, <1>11, <1>12, <1>13 DEF WorldStep
-----------------------------------------------------------------------------
(* Nothing is lost: the steps of the specification.                        *)

\* Where a step starts, and what is known of where it leads.
Before == TypeInv /\ ShapeInv /\ LossInv
After  == TypeInv' /\ ShapeInv'

LEMMA WorldIs ==
  /\ World.live = live /\ World.disk = disk /\ World.cur = curId /\ World.kept = Objs \ expired
  /\ World.packets = Packets /\ World.ids = count.ids
  /\ \A s \in Servers : World.free[s] = Free(s) /\ World.open[s] = {w.stamp : w \in pending[s]}
BY DEF World

LEMMA WorldIsNext ==
  /\ World'.live = live' /\ World'.disk = disk' /\ World'.cur = curId' /\ World'.kept = Objs \ expired'
  /\ World'.packets = Packets' /\ World'.ids = count'.ids
  /\ \A s \in Servers : World'.free[s] = Free(s)' /\ World'.open[s] = {w.stamp : w \in pending'[s]}
BY DEF World, Free

LEMMA FreeIsNext == \A s \in Servers : Free(s)' = {usn'[s]} \cup {w.stamp.usn : w \in pending'[s]}
BY DEF Free

LEMMA StepTypes ==
  ASSUME Before, After
  PROVE  /\ WorldType(World) /\ WorldType(World') /\ WorldOK(World) /\ IdsOK(World)
         /\ \A s \in Servers : /\ live[s] \in Databases /\ disk[s] \in Databases
                               /\ live'[s] \in Databases /\ disk'[s] \in Databases
                               /\ cyc[s] \in Cycles /\ rpc[s] \in Calls
                               /\ cyc'[s] \in Cycles /\ rpc'[s] \in Calls
                               /\ cyc[s].pc # "idle" => cyc[s].src \in Servers
                               /\ cyc'[s].pc # "idle" => cyc'[s].src \in Servers
                               /\ cyc[s].pc = "idle" => rpc[s].st = "none"
                               /\ cyc'[s].pc = "idle" => rpc'[s].st = "none"
<1>1. WorldType(World)
  BY WorldTyped DEF Before
<1>2. WorldType(World)'
  BY WorldTypedNext DEF After
<1>3. WorldType(World')
  BY <1>2
<1>4. WorldOK(World) /\ IdsOK(World)
  BY DEF Before, LossInv, WorldOK
<1>5. TypeInv /\ TypeInv'
  BY DEF Before, After
<1>6. ASSUME NEW s \in Servers
      PROVE  /\ live[s] \in Databases /\ disk[s] \in Databases
             /\ live'[s] \in Databases /\ disk'[s] \in Databases
  BY <1>5 DEF TypeInv, StoreType
<1>7. ASSUME NEW s \in Servers
      PROVE  /\ cyc[s] \in Cycles /\ rpc[s] \in Calls
             /\ cyc'[s] \in Cycles /\ rpc'[s] \in Calls
             /\ cyc[s].pc # "idle" => cyc[s].src \in Servers
             /\ cyc'[s].pc # "idle" => cyc'[s].src \in Servers
             /\ cyc[s].pc = "idle" => rpc[s].st = "none"
             /\ cyc'[s].pc = "idle" => rpc'[s].st = "none"
  BY <1>5 DEF TypeInv, CommType
<1> QED BY <1>1, <1>3, <1>4, <1>6, <1>7

\* A database and a cycle that were sound still are after the step.
LEMMA KeptSound ==
  ASSUME Before, After, WorldStep(World, World'), NEW D \in Databases
  PROVE  /\ StoreOK(World, D) => StoreOK(World', D)
         /\ \A c \in Cycles, r \in Calls :
              /\ c.pc # "idle" => c.src \in Servers
              /\ c.pc = "idle" => r.st = "none"
              /\ CycleOK(World, D, c, r)
              => CycleOK(World', D, c, r)
<1> DEFINE V == World
           W == World'
<1>1. WorldType(V) /\ WorldType(W) /\ IdsOK(V)
  BY StepTypes
<1>2. WorldStep(V, W)
  OBVIOUS
<1>3. W.kept \subseteq Objs
  BY <1>1 DEF WorldType
<1> HIDE DEF V, W
<1>4. Grows(W.kept, D, D)
  BY <1>3, SameGrows
<1>5. StoreOK(V, D) => StoreOK(W, D)
  BY <1>1, <1>2, <1>4, StoreStep
<1>6. ASSUME NEW c \in Cycles, NEW r \in Calls, c.pc # "idle" => c.src \in Servers,
             c.pc = "idle" => r.st = "none", CycleOK(V, D, c, r)
      PROVE  CycleOK(W, D, c, r)
  BY <1>1, <1>2, <1>4, <1>6, CycleStep
<1> QED BY <1>5, <1>6 DEF V, W

LEMMA LossSet ==
  ASSUME Before, After, WorldStep(World, World'),
         \A s \in Servers : StoreOK(World', live'[s]) /\ StoreOK(World', disk'[s]),
         \A d \in Servers : CycleOK(World', live'[d], cyc'[d], rpc'[d])
  PROVE  LossInv'
<1>1. WorldType(World) /\ WorldType(World') /\ WorldOK(World)
  BY StepTypes
<1>2. WorldOK(World')
  BY <1>1, WorldOKStep
<1> QED BY <1>2 DEF LossInv

\* A step that concerns server d alone.
LEMMA OneServer ==
  ASSUME Before, After, WorldStep(World, World'), NEW d \in Servers,
         \A t \in Servers : t # d => /\ live'[t] = live[t] /\ disk'[t] = disk[t]
                                     /\ cyc'[t] = cyc[t] /\ rpc'[t] = rpc[t],
         StoreOK(World', live'[d]), StoreOK(World', disk'[d]),
         CycleOK(World', live'[d], cyc'[d], rpc'[d])
  PROVE  LossInv'
<1>1. ASSUME NEW t \in Servers, t # d
      PROVE  /\ StoreOK(World', live'[t]) /\ StoreOK(World', disk'[t])
             /\ CycleOK(World', live'[t], cyc'[t], rpc'[t])
  <2>1. /\ live[t] \in Databases /\ disk[t] \in Databases /\ cyc[t] \in Cycles /\ rpc[t] \in Calls
        /\ cyc[t].pc # "idle" => cyc[t].src \in Servers
        /\ cyc[t].pc = "idle" => rpc[t].st = "none"
    BY StepTypes
  <2>2. StoreOK(World, live[t]) /\ StoreOK(World, disk[t]) /\ CycleOK(World, live[t], cyc[t], rpc[t])
    BY DEF Before, LossInv
  <2>3. StoreOK(World', live[t]) /\ StoreOK(World', disk[t]) /\ CycleOK(World', live[t], cyc[t], rpc[t])
    BY <2>1, <2>2, KeptSound
  <2> QED BY <1>1, <2>3
<1>2. \A s \in Servers : StoreOK(World', live'[s]) /\ StoreOK(World', disk'[s])
  BY <1>1
<1>3. \A s \in Servers : CycleOK(World', live'[s], cyc'[s], rpc'[s])
  BY <1>1
<1> QED BY <1>2, <1>3, LossSet

\* A step of the cycle of d that writes no object and creates no packet: what it
\* leaves needs to be sound only where it starts.
LEMMA CommLoss ==
  ASSUME Before, After, NEW d \in Servers,
         \A t \in Servers : t # d => /\ live'[t] = live[t] /\ disk'[t] = disk[t]
                                     /\ cyc'[t] = cyc[t] /\ rpc'[t] = rpc[t],
         Like(live[d], live'[d]), disk'[d] \in {disk[d], live'[d]},
         UNCHANGED <<curId, usn, pending, expired>>, count'.ids = count.ids,
         cyc'[d].pkt.objs \cup rpc'[d].reply.objs \subseteq cyc[d].pkt.objs \cup rpc[d].reply.objs,
         StoreOK(World, live'[d]), CycleOK(World, live'[d], cyc'[d], rpc'[d])
  PROVE  LossInv'
<1> DEFINE V == World
           W == World'
<1>1. /\ WorldType(V) /\ WorldType(W) /\ WorldOK(V)
      /\ live'[d] \in Databases /\ disk'[d] \in Databases /\ disk[d] \in Databases
      /\ cyc'[d] \in Cycles /\ rpc'[d] \in Calls
      /\ cyc'[d].pc # "idle" => cyc'[d].src \in Servers
      /\ cyc'[d].pc = "idle" => rpc'[d].st = "none"
  BY StepTypes
<1>2. /\ W.kept = V.kept /\ W.ids = V.ids
      /\ \A s \in Servers : W.cur[s] = V.cur[s] /\ W.free[s] = V.free[s] /\ W.open[s] = V.open[s]
  BY WorldIs, WorldIsNext, FreeIsNext DEF Free
<1>3. \A s \in Servers : W.cur[s] \in Mine(V, s)
  BY <1>1, <1>2, MineType
<1>4. \A s \in Servers : V.live[s] = live[s] /\ V.disk[s] = disk[s]
                         /\ W.live[s] = live'[s] /\ W.disk[s] = disk'[s]
  BY WorldIs, WorldIsNext
<1>5. ASSUME NEW s \in Servers
      PROVE  Like(V.live[s], W.live[s]) /\ (Like(V.disk[s], W.disk[s]) \/ Like(V.live[s], W.disk[s]))
  <2>1. CASE s = d
    <3>1. Like(live[d], live'[d]) /\ (disk'[d] = disk[d] \/ disk'[d] = live'[d])
      OBVIOUS
    <3>2. Like(disk[d], disk[d])
      BY DEF Like
    <3> QED BY <2>1, <3>1, <3>2, <1>4
  <2>2. CASE s # d
    <3>1. W.live[s] = V.live[s] /\ W.disk[s] = V.disk[s]
      BY <2>2, <1>4
    <3> QED BY <3>1 DEF Like
  <2> QED BY <2>1, <2>2
<1>6. W.packets \subseteq V.packets
  <2>1. V.packets = UNION {cyc[t].pkt.objs \cup rpc[t].reply.objs : t \in Servers}
    BY WorldIs DEF Packets
  <2>2. W.packets = UNION {cyc'[t].pkt.objs \cup rpc'[t].reply.objs : t \in Servers}
    BY WorldIsNext DEF Packets
  <2>3. \A t \in Servers : cyc'[t].pkt.objs \cup rpc'[t].reply.objs \subseteq cyc[t].pkt.objs \cup rpc[t].reply.objs
    OBVIOUS
  <2> HIDE DEF V, W
  <2> QED BY <2>1, <2>2, <2>3
<1> HIDE DEF V, W
<1>7. WorldStep(V, W)
  <2>1. W.kept \subseteq V.kept /\ \A e \in W.packets : e \in V.packets
    BY <1>2, <1>6
  <2>2. \A s \in Servers : W.cur[s] \in Mine(V, s) /\ W.free[s] \subseteq V.free[s] /\ W.open[s] \subseteq V.open[s]
    BY <1>2, <1>3
  <2> QED BY <1>1, <1>2, <1>5, <2>1, <2>2, QuietStep
<1>8. WorldStep(World, World')
  BY <1>7 DEF V, W
<1>9. StoreOK(World', live'[d]) /\ CycleOK(World', live'[d], cyc'[d], rpc'[d])
  BY <1>1, <1>8, KeptSound
<1>10. StoreOK(World', disk'[d])
  <2>1. StoreOK(World, disk[d])
    BY DEF Before, LossInv
  <2>2. StoreOK(World', disk[d])
    BY <1>1, <1>8, <2>1, KeptSound
  <2> QED BY <1>9, <2>2
<1> QED BY <1>8, <1>9, <1>10, OneServer

LEMMA SameLike == \A D : Like(D, D)
BY DEF Like

\* What an empty packet and a call that was not made stand for.
LEMMA NoCallIs ==
  /\ NoReply.objs = {} /\ NoCall.reply = NoReply /\ NoCall.st = "none"
  /\ Idle.pc = "idle" /\ Idle.pkt = NoReply
BY DEF NoReply, NoCall, Idle

\* The parts of CycleOK for each stage of a cycle.
LEMMA CycleIs ==
  ASSUME NEW W, NEW D, NEW c, NEW r
  PROVE  /\ c.pc = "idle" /\ r.st = "none" => CycleOK(W, D, c, r)
         /\ /\ c.pc = "labort" /\ r.st = "none"
            /\ ClaimOK(W, c.utd, D, {}) /\ MarkOK(W, c.src, c.req.vec, D, {})
            => CycleOK(W, D, c, r)
         /\ /\ c.pc = "wait" /\ r.st \in {"sent", "failed"}
            /\ ClaimOK(W, c.utd, D, {}) /\ MarkOK(W, c.src, c.req.vec, D, {})
            /\ MarkOK(W, c.src, r.req.vec, D, c.pkt.objs)
            => CycleOK(W, D, c, r)
         /\ /\ c.pc = "apply" /\ r.st \in {"none", "sent", "failed"}
            /\ ClaimOK(W, c.utd, D, {}) /\ MarkOK(W, c.src, c.req.vec, D, {})
            /\ ClaimOK(W, c.pkt.utd, D, c.pkt.objs) /\ MarkOK(W, c.src, c.pkt.to, D, c.pkt.objs)
            /\ r.st # "none" => MarkOK(W, c.src, r.req.vec, D, c.pkt.objs)
            => CycleOK(W, D, c, r)
BY DEF CycleOK

\* The vector as it is read, with the highest committed USN as the own cursor.
LEMMA ReadClaim ==
  ASSUME Before, NEW d \in Servers
  PROVE  /\ UpToDateVec_Read(d, DBGetHighestCommittedUSN(d)) \in Vectors
         /\ \A i \in Ids : UpToDateVec_Read(d, DBGetHighestCommittedUSN(d))[i]
                            = IF i = curId[d] THEN DBGetHighestCommittedUSN(d) ELSE live[d].utd[i]
         /\ ClaimOK(World, UpToDateVec_Read(d, DBGetHighestCommittedUSN(d)), live[d], {})
<1> DEFINE n == DBGetHighestCommittedUSN(d)
           U == UpToDateVec_Read(d, n)
           W == World
           D == live[d]
<1>1. WorldType(W) /\ WorldOK(W) /\ D \in Databases /\ TypeInv
  BY WorldTyped DEF Before, LossInv, TypeInv, StoreType
<1>2. n \in Nat /\ Below(W, d, n)
  BY <1>1, HighestCommittedOK, WorldIs DEF Below
<1>3. U \in Vectors /\ \A i \in Ids : U[i] = IF i = curId[d] THEN n ELSE D.utd[i]
  BY <1>1, <1>2, UpToDateVecReadOK
<1>4. ClaimOK(W, D.utd, D, {}) /\ W.live[d] = D /\ W.cur[d] = curId[d] /\ {} \subseteq Entries
  BY WorldIs DEF Before, LossInv, StoreOK
<1> HIDE DEF n, U, W, D
<1>5. \A o \in W.kept, a \in Attrs : Covers(D, {}, o, a, W.live[d].db[o][a])
  BY <1>1, <1>4, CoversNone DEF WorldType
<1>6. ClaimOK(W, U, D, {})
  BY <1>1, <1>2, <1>3, <1>4, <1>5, OwnClaim
<1> QED BY <1>3, <1>6 DEF n, U, W, D

\* StartSync: the vector with the own cursor is sound, and the stored watermark is.
LEMMA StartSyncLoss ==
  ASSUME Before, After, NEW d \in Servers, NEW s \in Servers, StartSync(d, s)
  PROVE  LossInv'
<1> DEFINE req == Request(live[d].reps[s].vec, live[d].reps[s].id, FALSE, FALSE)
           n   == DBGetHighestCommittedUSN(d)
           U   == UpToDateVec_Read(d, n)
           c   == [Idle EXCEPT !.pc = "wait", !.src = s, !.req = req, !.utd = U]
<1>1. /\ cyc[d].pc = "idle" /\ cyc' = [cyc EXCEPT ![d] = c] /\ rpc' = [rpc EXCEPT ![d] = Sent(req)]
      /\ UNCHANGED <<live, disk, image, curId, usn, pending, born, expired>>
      /\ UNCHANGED count \/ Used("syncs")
  BY DEF StartSync
<1>2. /\ live[d] \in Databases /\ cyc \in [Servers -> Cycles]
      /\ rpc \in [Servers -> Calls] /\ count \in Counts
  BY StepTypes DEF Before, TypeInv, CommType, CountType
<1>3. count'.ids = count.ids
  BY <1>1, <1>2 DEF Used, Counts
<1>6. StoreOK(World, live[d])
  BY DEF Before, LossInv
<1>7. ClaimOK(World, U, live[d], {})
  BY ReadClaim
<1>8. live[d].reps[s].vec \in USNVectors /\ live[d].reps[s].id \in Ids \cup {NoId}
  BY <1>2, DbFields
<1>9. req \in Requests /\ req.vec = live[d].reps[s].vec
  BY <1>8, RequestType
<1>10. MarkOK(World, s, req.vec, live[d], {})
  BY <1>6, <1>9 DEF StoreOK
<1>11. c.pc = "wait" /\ c.src = s /\ c.req = req /\ c.utd = U /\ c.pkt.objs = {}
  BY NoCallIs DEF Idle
<1>12. Sent(req).st = "sent" /\ Sent(req).req = req /\ Sent(req).reply.objs = {}
  BY <1>9, SentType, NoCallIs
<1> HIDE DEF req, U, n, c
<1>13. CycleOK(World, live[d], c, Sent(req))
  BY <1>7, <1>10, <1>11, <1>12, CycleIs
<1>14. cyc'[d] = c /\ rpc'[d] = Sent(req) /\ \A t \in Servers : t # d => cyc'[t] = cyc[t] /\ rpc'[t] = rpc[t]
  BY <1>1, <1>2
<1>15. cyc'[d].pkt.objs \cup rpc'[d].reply.objs = {}
  BY <1>11, <1>12, <1>14
<1>16. CycleOK(World, live'[d], cyc'[d], rpc'[d]) /\ StoreOK(World, live'[d]) /\ Like(live[d], live'[d])
  BY <1>1, <1>6, <1>13, <1>14, SameLike
<1> QED BY <1>1, <1>3, <1>14, <1>15, <1>16, CommLoss

\* The call fails, which the destination is yet to notice.
LEMMA CallFailsLoss ==
  ASSUME Before, After, NEW d \in Servers, CallFails(d)
  PROVE  LossInv'
<1>1. /\ rpc[d].st \in {"sent", "marked"} /\ Used("aborts")
      /\ rpc' = [rpc EXCEPT ![d].st = "failed"]
      /\ UNCHANGED <<live, disk, image, curId, usn, pending, cyc, born, expired>>
  BY DEF CallFails
<1>2. cyc[d] \in Cycles /\ rpc \in [Servers -> Calls] /\ count \in Counts
  BY StepTypes DEF Before, TypeInv, CommType, CountType
<1>3. count'.ids = count.ids
  BY <1>1, <1>2 DEF Used, Counts
<1>4. /\ rpc'[d].st = "failed" /\ rpc'[d].req = rpc[d].req /\ rpc'[d].reply = rpc[d].reply
      /\ \A t \in Servers : t # d => rpc'[t] = rpc[t]
  BY <1>1, <1>2 DEF Calls
<1>5. StoreOK(World, live[d]) /\ CycleOK(World, live[d], cyc[d], rpc[d])
  BY DEF Before, LossInv
<1>6. CycleOK(World, live[d], cyc[d], rpc'[d])
  BY <1>1, <1>4, <1>5 DEF CycleOK
<1>7. CycleOK(World, live'[d], cyc'[d], rpc'[d]) /\ StoreOK(World, live'[d]) /\ Like(live[d], live'[d])
  BY <1>1, <1>5, <1>6, SameLike
<1> QED BY <1>1, <1>3, <1>4, <1>7, CommLoss

\* Soundness is about the objects of a database.
LEMMA LikeSound ==
  ASSUME NEW W, NEW D, NEW E, Like(D, E), NEW P
  PROVE  /\ \A U : ClaimOK(W, U, D, P) => ClaimOK(W, U, E, P)
         /\ \A s, vec : MarkOK(W, s, vec, D, P) => MarkOK(W, s, vec, E, P)
         /\ \A c, r : CycleOK(W, D, c, r) => CycleOK(W, E, c, r)
<1>1. \A R, o, a, x : Covers(D, R, o, a, x) <=> Covers(E, R, o, a, x)
  BY DEF Like, Covers
<1>2. \A R, U : ClaimOK(W, U, D, R) => ClaimOK(W, U, E, R)
  BY <1>1 DEF ClaimOK
<1>3. \A R, s, vec : MarkOK(W, s, vec, D, R) => MarkOK(W, s, vec, E, R)
  BY <1>1 DEF MarkOK
<1> QED BY <1>2, <1>3 DEF CycleOK

\* To store a watermark that is sound.
LEMMA StoreMark ==
  ASSUME NEW W, NEW D \in Databases, NEW s \in Servers, NEW q \in Requests, StoreOK(W, D),
         MarkOK(W, s, q.vec, D, {})
  PROVE  StoreOK(W, StoreRepsFrom(D, s, q)) /\ Like(D, StoreRepsFrom(D, s, q))
<1> DEFINE E == StoreRepsFrom(D, s, q)
<1>1. /\ E \in Databases /\ E.db = D.db /\ E.utd = D.utd /\ E.id = D.id /\ E.retired = D.retired
      /\ \A t \in Servers : E.reps[t].vec = IF t = s THEN q.vec ELSE D.reps[t].vec
  BY StoreRepsFromOK
<1> HIDE DEF E
<1>2. Like(D, E)
  BY <1>1 DEF Like
<1>3. ClaimOK(W, E.utd, E, {})
  BY <1>1, <1>2, LikeSound DEF StoreOK
<1>4. ASSUME NEW t \in Servers
      PROVE  MarkOK(W, t, E.reps[t].vec, E, {})
  <2>1. MarkOK(W, t, E.reps[t].vec, D, {})
    BY <1>1 DEF StoreOK
  <2> QED BY <2>1, <1>2, LikeSound
<1> QED BY <1>2, <1>3, <1>4 DEF StoreOK, E

\* The cycle stops; what it acknowledged stays.
LEMMA LeaveLoss ==
  ASSUME Before, After, NEW d \in Servers, NEW c \in Cycles, c.src = cyc[d].src, c.utd = cyc[d].utd,
         MarkOK(World, c.src, c.req.vec, live[d], {}), Leave(d, c), cyc[d].pc # "idle",
         \A t \in Servers : t # d => live'[t] = live[t] /\ disk'[t] = disk[t],
         Like(live[d], live'[d]), disk'[d] \in {disk[d], live'[d]},
         UNCHANGED <<curId, usn, pending, expired>>, count'.ids = count.ids, StoreOK(World, live'[d])
  PROVE  LossInv'
<1>1. cyc' = [cyc EXCEPT ![d] = [c EXCEPT !.pc = "labort", !.pkt = NoReply]] /\ rpc' = [rpc EXCEPT ![d] = NoCall]
  BY DEF Leave
<1>2. cyc \in [Servers -> Cycles] /\ rpc \in [Servers -> Calls]
  BY DEF Before, TypeInv, CommType
<1>3. /\ cyc'[d].pc = "labort" /\ cyc'[d].src = c.src /\ cyc'[d].utd = c.utd /\ cyc'[d].req = c.req
      /\ cyc'[d].pkt = NoReply /\ rpc'[d] = NoCall
      /\ \A t \in Servers : t # d => cyc'[t] = cyc[t] /\ rpc'[t] = rpc[t]
  BY <1>1, <1>2 DEF Cycles
<1>4. CycleOK(World, live[d], cyc[d], rpc[d])
  BY DEF Before, LossInv
<1>5. ClaimOK(World, c.utd, live[d], {})
  BY <1>4 DEF CycleOK
<1>6. ClaimOK(World, c.utd, live'[d], {}) /\ MarkOK(World, c.src, c.req.vec, live'[d], {})
  BY <1>5, LikeSound
<1>7. CycleOK(World, live'[d], cyc'[d], rpc'[d])
  BY <1>3, <1>6, CycleIs, NoCallIs
<1>8. cyc'[d].pkt.objs \cup rpc'[d].reply.objs = {}
  BY <1>3, NoCallIs
<1> QED BY <1>3, <1>7, <1>8, CommLoss

LEMMA LeavingLoss ==
  ASSUME Before, After, NEW d \in Servers, Preempt(d) \/ CallFailed(d)
  PROVE  LossInv'
<1>1. /\ Leave(d, cyc[d]) /\ cyc[d].pc # "idle"
      /\ UNCHANGED count \/ Used("aborts")
      /\ UNCHANGED <<live, disk, image, curId, usn, pending, born, expired>>
  BY DEF Preempt, CallFailed
<1>2. cyc[d] \in Cycles /\ count \in Counts
  BY StepTypes DEF Before, TypeInv, CountType
<1>3. count'.ids = count.ids
  BY <1>1, <1>2 DEF Used, Counts, Preempt, CallFailed
<1>4. StoreOK(World, live[d]) /\ CycleOK(World, live[d], cyc[d], rpc[d])
  BY DEF Before, LossInv
<1>5. MarkOK(World, cyc[d].src, cyc[d].req.vec, live[d], {})
  BY <1>1, <1>4 DEF CycleOK
<1>6. /\ Leave(d, cyc[d]) /\ cyc[d].pc # "idle" /\ Like(live[d], live'[d]) /\ StoreOK(World, live'[d])
      /\ \A t \in Servers : live'[t] = live[t] /\ disk'[t] = disk[t]
      /\ UNCHANGED <<curId, usn, pending, expired>>
  BY <1>1, <1>4, SameLike
<1> QED BY <1>2, <1>3, <1>5, <1>6, LeaveLoss

\* LABORT stores the watermark of what is acknowledged.
LEMMA LabortLoss ==
  ASSUME Before, After, NEW d \in Servers, Labort(d)
  PROVE  LossInv'
<1> DEFINE c == cyc[d]
           E == StoreRepsFrom(live[d], c.src, c.req)
<1>1. /\ c.pc = "labort" /\ live' = [live EXCEPT ![d] = E] /\ disk' = [disk EXCEPT ![d] = E]
      /\ cyc' = [cyc EXCEPT ![d] = Idle] /\ UNCHANGED <<image, curId, usn, pending, rpc, born, expired, count>>
  BY DEF Labort, DurableCommit
<1>2. /\ c \in Cycles /\ c.src \in Servers /\ live[d] \in Databases /\ rpc[d].st = "none" /\ CallOK(c, rpc[d])
      /\ cyc \in [Servers -> Cycles] /\ live \in [Servers -> Databases] /\ disk \in [Servers -> Databases]
  BY <1>1, StepTypes DEF Before, TypeInv, CommType, StoreType, ShapeInv, CommOK
<1>3. c.req \in Requests
  BY <1>2, CycleFields
<1>4. StoreOK(World, live[d]) /\ MarkOK(World, c.src, c.req.vec, live[d], {})
  BY <1>1 DEF Before, LossInv, CycleOK
<1>5. StoreOK(World, E) /\ Like(live[d], E)
  <2> HIDE DEF c
  <2> QED BY <1>2, <1>3, <1>4, StoreMark
<1> HIDE DEF E
<1>7. /\ live'[d] = E /\ disk'[d] = E /\ cyc'[d] = Idle /\ rpc'[d] = rpc[d] /\ count'.ids = count.ids
      /\ \A t \in Servers : t # d => /\ live'[t] = live[t] /\ disk'[t] = disk[t]
                                     /\ cyc'[t] = cyc[t] /\ rpc'[t] = rpc[t]
      /\ UNCHANGED <<curId, usn, pending, expired>>
  BY <1>1, <1>2
<1>8. CycleOK(World, live'[d], cyc'[d], rpc'[d])
  BY <1>2, <1>7, CycleIs, NoCallIs
<1>9. cyc'[d].pkt.objs \cup rpc'[d].reply.objs \subseteq cyc[d].pkt.objs \cup rpc[d].reply.objs
  BY <1>7, NoCallIs
<1>10. Like(live[d], live'[d]) /\ StoreOK(World, live'[d])
  BY <1>5, <1>7
<1> QED BY <1>7, <1>8, <1>9, <1>10, CommLoss

\* The source notes the USN below which all is committed.
LEMMA GetNCChangesMarkLoss ==
  ASSUME Before, After, NEW d \in Servers, GetNCChangesMark(d)
  PROVE  LossInv'
<1> DEFINE s == cyc[d].src
           P == cyc[d].pkt.objs
           from == RequestedFrom(s, cyc[d].utd, rpc[d].req)
           low  == 1 + DBGetHighestCommittedUSN(s)
<1>1. /\ rpc[d].st = "sent"
      /\ rpc' = [rpc EXCEPT ![d].st = "marked", ![d].from = from, ![d].usnLowestC = low]
      /\ UNCHANGED <<live, disk, image, curId, usn, pending, cyc, born, expired, count>>
  BY DEF GetNCChangesMark
<1>2. /\ cyc[d] \in Cycles /\ rpc \in [Servers -> Calls] /\ s \in Servers /\ live[d] \in Databases
      /\ TypeInv /\ ShapeInv /\ IdsOK(World) /\ cyc[d].pc # "idle" /\ rpc[d] \in Calls
  BY <1>1, StepTypes DEF Before, TypeInv, CommType
<1>3. cyc[d].utd \in Vectors /\ rpc[d].req \in Requests
  BY <1>2, CycleFields, CallFields
<1>4. /\ rpc'[d].st = "marked" /\ rpc'[d].from = from /\ rpc'[d].usnLowestC = low
      /\ rpc'[d].req = rpc[d].req /\ rpc'[d].reply = rpc[d].reply
      /\ \A t \in Servers : t # d => rpc'[t] = rpc[t]
  <2> HIDE DEF from, low
  <2> QED BY <1>1, <1>2 DEF Calls
<1>5. StoreOK(World, live[d]) /\ CycleOK(World, live[d], cyc[d], rpc[d])
  BY DEF Before, LossInv
<1>6. ClaimOK(World, cyc[d].utd, live[d], {}) /\ MarkOK(World, s, rpc[d].req.vec, live[d], P)
  BY <1>1, <1>2, <1>5 DEF CycleOK
<1>7. ClaimOK(World, cyc[d].utd, live[d], P)
  BY <1>6, ClaimMore
<1>8. MarkOK(World, s, from, live[d], P)
  <2> HIDE DEF s, P
  <2> QED BY <1>2, <1>3, <1>6, <1>7, RequestedMark
<1>9. Below(World, s, low - 1)
  <2>1. DBGetHighestCommittedUSN(s) \in Nat /\ \A u \in Free(s) : DBGetHighestCommittedUSN(s) < u
    BY <1>2, HighestCommittedOK
  <2> QED BY <1>2, <2>1, WorldIs DEF Below
<1> HIDE DEF from, low
<1>10. CycleOK(World, live[d], cyc[d], rpc'[d])
  BY <1>4, <1>5, <1>6, <1>8, <1>9 DEF CycleOK
<1>11. CycleOK(World, live'[d], cyc'[d], rpc'[d]) /\ StoreOK(World, live'[d]) /\ Like(live[d], live'[d])
  BY <1>1, <1>5, <1>10, SameLike
<1> QED BY <1>1, <1>4, <1>11, CommLoss

\* The reply becomes the packet at hand.
LEMMA ReceivePacketLoss ==
  ASSUME Before, After, NEW d \in Servers, ReceivePacket(d)
  PROVE  LossInv'
<1> DEFINE pkt == rpc[d].reply
           req == Request(pkt.to, pkt.id, FALSE, FALSE)
           c   == cyc[d]
           r   == IF pkt.more THEN Sent(req) ELSE NoCall
<1>1. /\ c.pc = "wait" /\ rpc[d].st = "reply" /\ cyc' = [cyc EXCEPT ![d].pc = "apply", ![d].pkt = pkt]
      /\ rpc' = [rpc EXCEPT ![d] = r]
      /\ UNCHANGED <<live, disk, image, curId, usn, pending, born, expired, count>>
  BY DEF ReceivePacket
<1>2. /\ c \in Cycles /\ rpc[d] \in Calls /\ cyc \in [Servers -> Cycles] /\ rpc \in [Servers -> Calls]
      /\ CallOK(c, rpc[d])
  BY StepTypes DEF Before, TypeInv, CommType, ShapeInv, CommOK
<1>3. pkt \in Replies /\ c.pkt.objs = {}
  BY <1>1, <1>2, CallFields DEF CallOK
<1>4. req \in Requests /\ req.vec = pkt.to
  BY <1>3, ReplyFields, RequestType
<1>5. StoreOK(World, live[d]) /\ CycleOK(World, live[d], c, rpc[d])
  BY DEF Before, LossInv
<1>6. /\ ClaimOK(World, c.utd, live[d], {}) /\ MarkOK(World, c.src, c.req.vec, live[d], {})
      /\ ClaimOK(World, pkt.utd, live[d], pkt.objs) /\ MarkOK(World, c.src, pkt.to, live[d], pkt.objs)
  <2>1. c.pkt.objs \cup pkt.objs = pkt.objs
    BY <1>3
  <2> QED BY <1>1, <1>5, <2>1 DEF CycleOK
<1>7. r.st \in {"none", "sent"} /\ (r.st # "none" => r.req.vec = pkt.to) /\ r.reply.objs = {}
  BY <1>4, SentType, NoCallIs
<1>8. /\ cyc'[d].pc = "apply" /\ cyc'[d].src = c.src /\ cyc'[d].utd = c.utd /\ cyc'[d].req = c.req
      /\ cyc'[d].pkt = pkt
      /\ rpc'[d] = r /\ \A t \in Servers : t # d => cyc'[t] = cyc[t] /\ rpc'[t] = rpc[t]
  <2> HIDE DEF pkt, r
  <2> QED BY <1>1, <1>2 DEF Cycles
<1> HIDE DEF pkt, r
<1>9. CycleOK(World, live[d], cyc'[d], rpc'[d])
  BY <1>6, <1>7, <1>8, CycleIs
<1>10. cyc'[d].pkt.objs \cup rpc'[d].reply.objs \subseteq cyc[d].pkt.objs \cup rpc[d].reply.objs
  BY <1>7, <1>8 DEF pkt
<1>11. CycleOK(World, live'[d], cyc'[d], rpc'[d]) /\ StoreOK(World, live'[d]) /\ Like(live[d], live'[d])
  BY <1>1, <1>5, <1>9, SameLike
<1> QED BY <1>1, <1>8, <1>10, <1>11, CommLoss

\* NEXTPKT: the call made ahead is kept only when the packet at hand is done with.
LEMMA NextPacketLoss ==
  ASSUME Before, After, NEW d \in Servers, NEW c \in Cycles, c.src = cyc[d].src, c.utd = cyc[d].utd,
         MarkOK(World, c.src, c.req.vec, live[d], {}), NextPacket(d, c), cyc[d].pc = "apply",
         cyc[d].pkt.objs = {} \/ c.req.full \/ c.req.anc,
         \A t \in Servers : t # d => live'[t] = live[t] /\ disk'[t] = disk[t],
         Like(live[d], live'[d]), disk'[d] \in {disk[d], live'[d]},
         UNCHANGED <<curId, usn, pending, expired>>, count'.ids = count.ids, StoreOK(World, live'[d])
  PROVE  LossInv'
<1> DEFINE r == IF rpc[d].st # "none" /\ rpc[d].req = c.req THEN rpc[d] ELSE Sent(c.req)
<1>1. cyc' = [cyc EXCEPT ![d] = [c EXCEPT !.pc = "wait", !.pkt = NoReply]] /\ rpc' = [rpc EXCEPT ![d] = r]
  BY DEF NextPacket
<1>2. cyc \in [Servers -> Cycles] /\ rpc \in [Servers -> Calls] /\ c.req \in Requests /\ CallOK(cyc[d], rpc[d])
  BY CycleFields DEF Before, TypeInv, CommType, ShapeInv, CommOK
<1>3. /\ cyc'[d].pc = "wait" /\ cyc'[d].src = c.src /\ cyc'[d].utd = c.utd /\ cyc'[d].req = c.req
      /\ cyc'[d].pkt = NoReply /\ rpc'[d] = r
      /\ \A t \in Servers : t # d => cyc'[t] = cyc[t] /\ rpc'[t] = rpc[t]
  <2> HIDE DEF r
  <2> QED BY <1>1, <1>2 DEF Cycles
<1>4. CycleOK(World, live[d], cyc[d], rpc[d])
  BY DEF Before, LossInv
<1>5. ClaimOK(World, c.utd, live[d], {}) /\ cyc'[d].pkt.objs = {}
  BY <1>3, <1>4, NoCallIs DEF CycleOK
<1>6. CycleOK(World, live[d], cyc'[d], rpc'[d]) /\ rpc'[d].reply.objs \subseteq rpc[d].reply.objs
  <2>1. CASE rpc[d].st # "none" /\ rpc[d].req = c.req
    <3>1. cyc[d].pkt.objs = {}
      BY <1>2, <2>1 DEF CallOK
    <3>2. rpc'[d] = rpc[d] /\ cyc[d].pkt.objs = cyc'[d].pkt.objs
      BY <1>3, <1>5, <2>1, <3>1
    <3> QED BY <1>3, <1>4, <1>5, <3>2 DEF CycleOK
  <2>2. CASE ~(rpc[d].st # "none" /\ rpc[d].req = c.req)
    <3>1. rpc'[d] = Sent(c.req)
      BY <1>3, <2>2
    <3>2. rpc'[d].st = "sent" /\ rpc'[d].req = c.req /\ rpc'[d].reply.objs = {}
      BY <1>2, <3>1, SentType, NoCallIs
    <3>3. MarkOK(World, cyc'[d].src, rpc'[d].req.vec, live[d], cyc'[d].pkt.objs)
      BY <1>3, <1>5, <3>2
    <3> QED BY <1>3, <1>5, <3>2, <3>3, CycleIs
  <2> QED BY <2>1, <2>2
<1>7. CycleOK(World, live'[d], cyc'[d], rpc'[d])
  BY <1>6, LikeSound
<1>8. cyc'[d].pkt.objs \cup rpc'[d].reply.objs \subseteq cyc[d].pkt.objs \cup rpc[d].reply.objs
  BY <1>5, <1>6
<1> QED BY <1>3, <1>7, <1>8, CommLoss

\* The packet is applied and acknowledged.
LEMMA PacketDoneLoss ==
  ASSUME Before, After, NEW d \in Servers, PacketDone(d)
  PROVE  LossInv'
<1> DEFINE c   == cyc[d]
           req == Request(c.pkt.to, c.pkt.id, FALSE, FALSE)
           n   == (c.packets + 1) % PersistEvery
           b   == [c EXCEPT !.req = req, !.preemptable = TRUE, !.packets = n]
           E   == StoreRepsFrom(live[d], c.src, req)
<1>1. /\ c.pc = "apply" /\ c.pkt.objs = {} /\ NextPacket(d, b)
      /\ \/ live' = [live EXCEPT ![d] = E] /\ disk' = [disk EXCEPT ![d] = E]
         \/ UNCHANGED <<live, disk>>
      /\ UNCHANGED <<image, curId, usn, pending, born, expired, count>>
  BY DEF PacketDone, DurableCommit
<1>2. /\ c \in Cycles /\ c.src \in Servers /\ live[d] \in Databases
      /\ live \in [Servers -> Databases] /\ disk \in [Servers -> Databases]
  BY <1>1, StepTypes DEF Before, TypeInv, StoreType
<1>3. c.pkt.to \in USNVectors /\ c.pkt.id \in Ids \cup {NoId} /\ c.packets \in Nat
  BY <1>2, CycleFields, ReplyFields
<1>4. req \in Requests /\ req.vec = c.pkt.to
  BY <1>3, RequestType
<1>5. n \in Nat
  BY <1>3, PersistAssumption
<1>6. b \in Cycles /\ b.src = c.src /\ b.utd = c.utd /\ b.req = req
  <2> HIDE DEF req, n
  <2> QED BY <1>2, <1>4, <1>5 DEF Cycles
<1>7. StoreOK(World, live[d]) /\ CycleOK(World, live[d], c, rpc[d])
  BY DEF Before, LossInv
<1>8. MarkOK(World, c.src, req.vec, live[d], {})
  BY <1>1, <1>4, <1>7 DEF CycleOK
<1> HIDE DEF req, n, b
<1>9. StoreOK(World, E) /\ Like(live[d], E)
  <2> HIDE DEF c
  <2> QED BY <1>2, <1>4, <1>7, <1>8, StoreMark
<1> HIDE DEF E
<1>10. /\ live'[d] \in {live[d], E} /\ disk'[d] \in {disk[d], live'[d]}
       /\ \A t \in Servers : t # d => live'[t] = live[t] /\ disk'[t] = disk[t]
  BY <1>1, <1>2
<1>11. StoreOK(World, live'[d]) /\ Like(live[d], live'[d])
  BY <1>7, <1>9, <1>10, SameLike
<1>12. MarkOK(World, b.src, b.req.vec, live[d], {})
  BY <1>6, <1>8
<1>13. count'.ids = count.ids /\ UNCHANGED <<curId, usn, pending, expired>>
  BY <1>1
<1> QED BY <1>1, <1>6, <1>10, <1>11, <1>12, <1>13, NextPacketLoss

\* The last packet is applied: the source's vector is sound here.
LEMMA CycleDoneLoss ==
  ASSUME Before, After, NEW d \in Servers, CycleDone(d)
  PROVE  LossInv'
<1> DEFINE c   == cyc[d]
           req == Request(c.pkt.to, c.pkt.id, FALSE, FALSE)
           b   == [c EXCEPT !.req = req]
           E   == UpToDateVec_Improve(live[d], c.pkt.utd, curId[d])
<1>1. /\ c.pc = "apply" /\ c.pkt.objs = {} /\ Leave(d, b)
      /\ live' = [live EXCEPT ![d] = E] /\ disk' = [disk EXCEPT ![d] = E]
      /\ UNCHANGED <<image, curId, usn, pending, born, expired, count>>
  BY DEF CycleDone, DurableCommit
<1>2. /\ c \in Cycles /\ c.src \in Servers /\ live[d] \in Databases /\ WorldType(World)
      /\ live \in [Servers -> Databases] /\ disk \in [Servers -> Databases] /\ curId[d] \in Ids
  BY <1>1, StepTypes DEF Before, TypeInv, StoreType
<1>3. c.pkt.to \in USNVectors /\ c.pkt.id \in Ids \cup {NoId} /\ c.pkt.utd \in Vectors
  BY <1>2, CycleFields, ReplyFields
<1>4. req \in Requests /\ req.vec = c.pkt.to
  BY <1>3, RequestType
<1>5. b \in Cycles /\ b.src = c.src /\ b.utd = c.utd /\ b.req = req
  <2> HIDE DEF req
  <2> QED BY <1>2, <1>4 DEF Cycles
<1>6. StoreOK(World, live[d]) /\ CycleOK(World, live[d], c, rpc[d])
  BY DEF Before, LossInv
<1>7. MarkOK(World, b.src, b.req.vec, live[d], {}) /\ ClaimOK(World, c.pkt.utd, live[d], {})
  BY <1>1, <1>4, <1>5, <1>6 DEF CycleOK
<1>8. /\ E \in Databases /\ E.db = live[d].db /\ E.reps = live[d].reps
      /\ E.id = live[d].id /\ E.retired = live[d].retired
      /\ \A i \in Ids : E.utd[i] \in {c.pkt.utd[i], live[d].utd[i]}
  <2>1. /\ E \in Databases /\ E.db = live[d].db /\ E.reps = live[d].reps
        /\ E.id = live[d].id /\ E.retired = live[d].retired
        /\ \A i \in Ids : E.utd[i] = IF i # curId[d] /\ c.pkt.utd[i] > live[d].utd[i] THEN c.pkt.utd[i] ELSE live[d].utd[i]
    <3> HIDE DEF c
    <3> QED BY <1>2, <1>3, ImproveOK
  <2> QED BY <2>1
<1> HIDE DEF E, b, req
<1>9. Like(live[d], E)
  BY <1>8 DEF Like
<1>10. StoreOK(World, E)
  <2>1. E.utd \in Vectors /\ live[d].utd \in Vectors
    BY <1>2, <1>8, DbFields
  <2>2. ClaimOK(World, live[d].utd, live[d], {})
    BY <1>6 DEF StoreOK
  <2>3. ClaimOK(World, E.utd, live[d], {})
    <3> DEFINE W == World
               U == c.pkt.utd
               D == live[d]
    <3>1. WorldType(W) /\ E.utd \in Vectors /\ U \in Vectors /\ D.utd \in Vectors /\ ClaimOK(W, U, D, {})
          /\ ClaimOK(W, D.utd, D, {}) /\ \A i \in Ids : E.utd[i] = U[i] \/ E.utd[i] = D.utd[i]
      BY <1>2, <1>3, <1>7, <1>8, <2>1, <2>2
    <3> HIDE DEF W, U, D
    <3>2. ClaimOK(W, E.utd, D, {})
      BY <3>1, ClaimUnion
    <3> QED BY <3>2 DEF W, D
  <2>4. \A t \in Servers : MarkOK(World, t, E.reps[t].vec, live[d], {})
    BY <1>6, <1>8 DEF StoreOK
  <2> QED BY <1>9, <2>3, <2>4, LikeSound DEF StoreOK
<1>11. /\ live'[d] = E /\ disk'[d] = E
       /\ \A t \in Servers : t # d => live'[t] = live[t] /\ disk'[t] = disk[t]
       /\ count'.ids = count.ids /\ UNCHANGED <<curId, usn, pending, expired>>
  BY <1>1, <1>2
<1> QED BY <1>1, <1>5, <1>7, <1>9, <1>10, <1>11, LeaveLoss

\* What a reply holds, are copies of what the source has in memory.
LEMMA ReplyCopies ==
  ASSUME TypeInv, NEW d \in Servers, rpc[d].st = "marked", NEW visited \in SUBSET Objs, NEW more \in BOOLEAN,
         NEW e \in Reply(d, visited, more).objs
  PROVE  \A a \in DOMAIN e.md : Same(e.md[a], live[cyc[d].src].db[e.obj][a])
<1> DEFINE L == live[cyc[d].src]
           V == IF rpc[d].req.full THEN NoVec ELSE cyc[d].utd
           q == rpc[d].req
           prop == rpc[d].from.prop
<1>1. L \in Databases /\ q.anc \in BOOLEAN
  BY CallTypes, CallFields, RequestFields
<1>2. e \in {[obj |-> o, place |-> Place(L, visited, q.anc, o),
              md  |-> [a \in ReplFilterPropsToShip(L, o, prop, V) |-> [L.db[o][a] EXCEPT !.usn = 0]]] :
                o \in {o \in WithAncestors(L, visited, q.anc) : ReplFilterPropsToShip(L, o, prop, V) # {}}}
  BY DEF Reply
<1>3. visited \subseteq Objs
  OBVIOUS
<1> HIDE DEF L, V, q, prop
<1>4. e \in Entries /\ \A a \in DOMAIN e.md : e.md[a] = [L.db[e.obj][a] EXCEPT !.usn = 0]
  BY <1>1, <1>2, <1>3, ReplyObjs
<1>5. ASSUME NEW a \in DOMAIN e.md
      PROVE  Same(e.md[a], L.db[e.obj][a])
  <2>1. L.db[e.obj][a] \in Stamps
    BY <1>1, <1>4, EntryFields, StampOf
  <2> DEFINE x == L.db[e.obj][a]
  <2>2. x \in Stamps /\ e.md[a] = [x EXCEPT !.usn = 0]
    BY <1>4, <2>1
  <2> HIDE DEF x
  <2>3. Same(e.md[a], x)
    BY <2>2 DEF Same, Stamps
  <2> QED BY <2>3 DEF x
<1> QED BY <1>5 DEF L

\* The source answers from a state that is on its disk.
LEMMA DRA_GetNCChangesLoss ==
  ASSUME Before, After, NEW d \in Servers, DRA_GetNCChanges(d)
  PROVE  LossInv'
<1> DEFINE V == World
           W == World'
           s == cyc[d].src
           c == cyc[d]
<1>1. TypeInv /\ ShapeInv
  BY DEF Before
<1>2. /\ rpc[d].st = "marked" /\ disk' = [disk EXCEPT ![s] = live[s]]
      /\ UNCHANGED <<live, image, curId, usn, pending, cyc, born, expired, count>>
  BY <1>1, AnswerType, Zenon
<1>3. PICK visited \in SUBSET Objs, more \in BOOLEAN :
        /\ rpc' = [rpc EXCEPT ![d] = [NoCall EXCEPT !.st = "reply", !.req = rpc[d].req,
                                                    !.reply = Reply(d, visited, more)]]
        /\ \/ ~more /\ visited = Scanned(live[cyc[d].src], rpc[d].from.obj)
           \/ /\ more
              /\ \E last \in Scanned(live[cyc[d].src], rpc[d].from.obj) \ {NCHead} :
                   visited = {o \in Scanned(live[cyc[d].src], rpc[d].from.obj) :
                                o = NCHead \/ usnChanged(live[cyc[d].src], o)
                                                <= usnChanged(live[cyc[d].src], last)}
  BY <1>1, AnswerType, Zenon
<1> DEFINE rep == Reply(d, visited, more)
<1>4. /\ WorldType(V) /\ WorldType(W) /\ WorldOK(V) /\ s \in Servers /\ live[d] \in Databases
      /\ rpc \in [Servers -> Calls] /\ disk \in [Servers -> Databases] /\ c \in Cycles /\ rpc[d] \in Calls
      /\ c.pc # "idle" /\ (c.pc # "idle" => c.src \in Servers) /\ (c.pc = "idle" => rpc[d].st = "none")
  BY <1>1, <1>2, StepTypes, CallTypes DEF TypeInv, CommType, StoreType
<1>5. /\ rpc'[d].st = "reply" /\ rpc'[d].req = rpc[d].req /\ rpc'[d].reply = rep
      /\ \A t \in Servers : t # d => rpc'[t] = rpc[t]
  <2> HIDE DEF rep
  <2> QED BY <1>3, <1>4 DEF NoCall, rep
<1>6. /\ \A t \in Servers : live'[t] = live[t] /\ cyc'[t] = cyc[t]
      /\ disk'[s] = live[s] /\ \A t \in Servers : t # s => disk'[t] = disk[t]
  BY <1>2, <1>4
<1>7. ASSUME NEW e \in W.packets
      PROVE  e \in V.packets \/ e \in rep.objs
  <2>1. PICK t \in Servers : e \in cyc'[t].pkt.objs \cup rpc'[t].reply.objs
    BY WorldIsNext DEF Packets
  <2>2. e \in cyc[t].pkt.objs \cup rpc[t].reply.objs \/ e \in rep.objs
    <3> HIDE DEF rep
    <3> QED BY <1>5, <1>6, <2>1
  <2> QED BY <2>2, WorldIs DEF Packets
<1>8. W.kept = V.kept /\ W.ids = V.ids
  BY <1>2, WorldIs, WorldIsNext
<1>9. ASSUME NEW t \in Servers
      PROVE  W.cur[t] \in Mine(V, t) /\ W.free[t] \subseteq V.free[t] /\ W.open[t] \subseteq V.open[t]
  <2>1. W.cur[t] = V.cur[t] /\ W.free[t] = V.free[t] /\ W.open[t] = V.open[t]
    BY <1>2, WorldIs, WorldIsNext, FreeIsNext DEF Free
  <2> QED BY <1>4, <2>1, MineType
<1>10. ASSUME NEW t \in Servers
       PROVE  Like(V.live[t], W.live[t]) /\ (Like(V.disk[t], W.disk[t]) \/ Like(V.live[t], W.disk[t]))
  <2>1. W.live[t] = V.live[t] /\ (W.disk[t] = V.disk[t] \/ W.disk[t] = V.live[t])
    BY <1>6, WorldIs, WorldIsNext
  <2> QED BY <2>1 DEF Like
<1>11. ASSUME NEW e \in rep.objs
       PROVE  Like(V.live[s], W.disk[s]) /\ \A a \in DOMAIN e.md : Same(e.md[a], V.live[s].db[e.obj][a])
  <2>1. V.live[s] = live[s] /\ W.disk[s] = live[s]
    BY <1>4, <1>6, WorldIs, WorldIsNext
  <2> QED BY <1>1, <1>2, <2>1, ReplyCopies DEF Like
<1>12. WorldStep(V, W)
  <2>1. \A e \in W.packets :
           \/ e \in V.packets
           \/ \E t \in Servers : /\ Like(V.live[t], W.disk[t])
                                 /\ \A a \in DOMAIN e.md : Same(e.md[a], V.live[t].db[e.obj][a])
    <3> HIDE DEF rep, V, W
    <3> QED BY <1>4, <1>7, <1>11
  <2>2. W.kept \subseteq V.kept /\ W.ids = V.ids
    BY <1>8
  <2> HIDE DEF rep, V, W
  <2> QED BY <1>4, <1>9, <1>10, <2>1, <2>2, QuietStep
<1>13. WorldStep(World, World') /\ WorldOK(World')
  BY <1>4, <1>12, WorldOKStep
<1>14. ASSUME NEW t \in Servers
       PROVE  StoreOK(World', live[t]) /\ StoreOK(World', disk[t])
  BY <1>13, StepTypes, KeptSound DEF Before, LossInv
<1>15. ASSUME NEW t \in Servers
       PROVE  CycleOK(World', live[t], cyc[t], rpc[t])
  <2>1. CycleOK(World, live[t], cyc[t], rpc[t])
    BY DEF Before, LossInv
  <2>2. /\ live[t] \in Databases /\ cyc[t] \in Cycles /\ rpc[t] \in Calls
        /\ cyc[t].pc # "idle" => cyc[t].src \in Servers
        /\ cyc[t].pc = "idle" => rpc[t].st = "none"
    BY StepTypes
  <2> QED BY <1>13, <2>1, <2>2, KeptSound
<1> DEFINE P == c.pkt.objs
           D == live[d]
<1>16. /\ ClaimOK(W, c.utd, D, {}) /\ MarkOK(W, s, rpc[d].from, D, P) /\ Below(W, s, rpc[d].usnLowestC - 1)
       /\ MarkOK(W, s, rpc[d].req.vec, D, P)
  BY <1>2, <1>4, <1>15 DEF CycleOK
<1>17. ClaimOK(W, live[s].utd, live[s], {})
  BY <1>4, <1>14 DEF StoreOK
<1>18. /\ MarkOK(W, s, rep.to, D, P \cup rep.objs)
       /\ ClaimOK(W, rep.utd, D, P \cup rep.objs)
  <2>1. W.live = live /\ W.cur = curId /\ W.disk[s] = live[s]
    BY <1>2, <1>6, WorldIsNext
  <2>2. P \subseteq Entries
    BY <1>4, CycleFields, ReplyFields
  <2>3. WorldType(W) /\ WorldOK(W) /\ D \in Databases
    BY <1>4, <1>13
  <2> HIDE DEF W, P, D
  <2> QED BY <1>1, <1>2, <1>3, <1>16, <1>17, <2>1, <2>2, <2>3, ReplySound
<1>19. CycleOK(World', live'[d], cyc'[d], rpc'[d])
  <2>1. CycleOK(W, D, c, rpc[d])
    BY <1>15
  <2>2. live'[d] = D /\ cyc'[d] = c
    BY <1>6
  <2> HIDE DEF rep, D
  <2> QED BY <1>2, <1>4, <1>5, <1>16, <1>18, <2>1, <2>2 DEF CycleOK
<1>20. ASSUME NEW t \in Servers
       PROVE  StoreOK(World', live'[t]) /\ StoreOK(World', disk'[t]) /\ CycleOK(World', live'[t], cyc'[t], rpc'[t])
  <2>1. StoreOK(World', live'[t]) /\ StoreOK(World', disk'[t])
    BY <1>4, <1>6, <1>14
  <2>2. CASE t # d
    BY <1>5, <1>6, <1>15, <2>1, <2>2
  <2> QED BY <1>19, <2>1, <2>2
<1> QED BY <1>2, <1>13, <1>20, LossSet

\* A step that leaves databases and cycles alone, but for the disk.
LEMMA RestLoss ==
  ASSUME Before, After, WorldStep(World, World'),
         \A s \in Servers : /\ live'[s] = live[s] /\ disk'[s] \in {disk[s], live[s]}
                            /\ cyc'[s] = cyc[s] /\ rpc'[s] = rpc[s]
  PROVE  LossInv'
<1>1. ASSUME NEW t \in Servers
      PROVE  /\ StoreOK(World', live'[t]) /\ StoreOK(World', disk'[t])
             /\ CycleOK(World', live'[t], cyc'[t], rpc'[t])
  <2>1. /\ live[t] \in Databases /\ disk[t] \in Databases /\ cyc[t] \in Cycles /\ rpc[t] \in Calls
        /\ cyc[t].pc # "idle" => cyc[t].src \in Servers
        /\ cyc[t].pc = "idle" => rpc[t].st = "none"
    BY StepTypes
  <2>2. StoreOK(World, live[t]) /\ StoreOK(World, disk[t]) /\ CycleOK(World, live[t], cyc[t], rpc[t])
    BY DEF Before, LossInv
  <2>3. StoreOK(World', live[t]) /\ StoreOK(World', disk[t]) /\ CycleOK(World', live[t], cyc[t], rpc[t])
    BY <2>1, <2>2, KeptSound
  <2> QED BY <2>3
<1> QED BY <1>1, LossSet

LEMMA RollbackWriteLoss ==
  ASSUME Before, After, NEW s \in Servers, RollbackWrite(s)
  PROVE  LossInv'
<1> DEFINE V == World
           W == World'
<1>1. /\ \A t \in Servers : pending'[t] \subseteq pending[t]
      /\ UNCHANGED <<live, disk, image, curId, usn, cyc, rpc, born, expired, count>>
  <2>1. pending \in [Servers -> SUBSET Writes]
    BY DEF Before, TypeInv, StoreType
  <2> QED BY <2>1 DEF RollbackWrite
<1>2. WorldType(V) /\ WorldType(W) /\ WorldOK(V)
  BY StepTypes
<1>3. W.kept = V.kept /\ W.ids = V.ids /\ W.packets = V.packets
  BY <1>1, WorldIs, WorldIsNext DEF Packets
<1>4. \A t \in Servers : /\ W.cur[t] = V.cur[t] /\ W.free[t] \subseteq V.free[t] /\ W.open[t] \subseteq V.open[t]
                         /\ W.live[t] = V.live[t] /\ W.disk[t] = V.disk[t]
  BY <1>1, WorldIs, WorldIsNext, FreeIsNext DEF Free
<1> HIDE DEF V, W
<1>5. WorldStep(V, W)
  <2>1. \A t \in Servers : W.cur[t] \in Mine(V, t) /\ W.free[t] \subseteq V.free[t] /\ W.open[t] \subseteq V.open[t]
    BY <1>2, <1>4, MineType
  <2>2. \A t \in Servers : Like(V.live[t], W.live[t]) /\ Like(V.disk[t], W.disk[t])
    BY <1>4 DEF Like
  <2>3. W.kept \subseteq V.kept /\ \A e \in W.packets : e \in V.packets
    BY <1>3
  <2> QED BY <1>2, <1>3, <2>1, <2>2, <2>3, QuietStep
<1>6. WorldStep(World, World')
  BY <1>5 DEF V, W
<1> QED BY <1>1, <1>6, RestLoss

LEMMA FlushLoss ==
  ASSUME Before, After, NEW s \in Servers, Flush(s) \/ Backup(s)
  PROVE  LossInv'
<1> DEFINE V == World
           W == World'
<1>1. /\ disk' = [disk EXCEPT ![s] = live[s]]
      /\ UNCHANGED <<live, curId, usn, pending, cyc, rpc, born, expired, count>>
  <2>1. live \in [Servers -> Databases]
    BY DEF Before, TypeInv, StoreType
  <2> QED BY <2>1 DEF Flush, Backup, DurableCommit
<1>2. WorldType(V) /\ WorldType(W) /\ WorldOK(V) /\ disk \in [Servers -> Databases]
  BY StepTypes DEF Before, TypeInv, StoreType
<1>3. W.kept = V.kept /\ W.ids = V.ids /\ W.packets = V.packets
  BY <1>1, WorldIs, WorldIsNext DEF Packets
<1>4. \A t \in Servers : /\ W.cur[t] = V.cur[t] /\ W.free[t] = V.free[t] /\ W.open[t] = V.open[t]
                         /\ W.live[t] = V.live[t]
  BY <1>1, WorldIs, WorldIsNext, FreeIsNext DEF Free
<1>5. \A t \in Servers : disk'[t] \in {disk[t], live[t]} /\ W.disk[t] \in {V.disk[t], V.live[t]}
  BY <1>1, <1>2, WorldIs, WorldIsNext
<1> HIDE DEF V, W
<1>6. WorldStep(V, W)
  <2>1. \A t \in Servers : W.cur[t] \in Mine(V, t) /\ W.free[t] \subseteq V.free[t] /\ W.open[t] \subseteq V.open[t]
    BY <1>2, <1>4, MineType
  <2>2. \A t \in Servers : Like(V.live[t], W.live[t]) /\ (Like(V.disk[t], W.disk[t]) \/ Like(V.live[t], W.disk[t]))
    BY <1>4, <1>5 DEF Like
  <2>3. W.kept \subseteq V.kept /\ \A e \in W.packets : e \in V.packets
    BY <1>3
  <2> QED BY <1>2, <1>3, <2>1, <2>2, <2>3, QuietStep
<1>7. WorldStep(World, World')
  BY <1>6 DEF V, W
<1> QED BY <1>1, <1>5, <1>7, RestLoss

\* A crash: what the disk holds is sound, and nobody counts on more.
LEMMA CrashLoss ==
  ASSUME Before, After, NEW s \in Servers, Crash(s)
  PROVE  LossInv'
<1> DEFINE V == World
           W == World'
<1>1. /\ Used("crashes") /\ live' = [live EXCEPT ![s] = disk[s]] /\ curId' = [curId EXCEPT ![s] = disk[s].id]
      /\ pending' = [pending EXCEPT ![s] = {}] /\ cyc' = [cyc EXCEPT ![s] = Idle]
      /\ rpc' = [d \in Servers |->
           IF d = s THEN NoCall
           ELSE IF cyc[d].src = s /\ rpc[d].st \in {"sent", "marked"}
           THEN [rpc[d] EXCEPT !.st = "failed"] ELSE rpc[d]]
      /\ UNCHANGED <<disk, image, usn, born, expired>>
  BY DEF Crash, Down
<1>2. /\ WorldType(V) /\ WorldType(W) /\ WorldOK(V) /\ live \in [Servers -> Databases] /\ count \in Counts
      /\ cyc \in [Servers -> Cycles] /\ rpc \in [Servers -> Calls] /\ pending \in [Servers -> SUBSET Writes]
      /\ curId \in [Servers -> Ids]
  BY StepTypes DEF Before, TypeInv, StoreType, CommType, CountType
<1>3. /\ live'[s] = disk[s] /\ curId'[s] = disk[s].id /\ pending'[s] = {} /\ cyc'[s] = Idle /\ rpc'[s] = NoCall
      /\ \A t \in Servers : t # s => live'[t] = live[t] /\ curId'[t] = curId[t] /\ pending'[t] = pending[t]
                                     /\ cyc'[t] = cyc[t]
      /\ count'.ids = count.ids
  BY <1>1, <1>2 DEF Used, Counts
<1>4. ASSUME NEW t \in Servers, t # s
      PROVE  /\ rpc'[t].reply = rpc[t].reply
             /\ \/ rpc'[t] = rpc[t]
                \/ /\ rpc[t].st \in {"sent", "marked"} /\ rpc'[t].st = "failed" /\ rpc'[t].req = rpc[t].req
  <2>1. rpc'[t] = rpc[t] \/ (rpc[t].st \in {"sent", "marked"} /\ rpc'[t] = [rpc[t] EXCEPT !.st = "failed"])
    BY <1>1, <1>4
  <2> QED BY <1>2, <2>1 DEF Calls
<1>5. W.kept = V.kept /\ W.ids = V.ids
  BY <1>1, <1>3, WorldIs, WorldIsNext
<1>6. ASSUME NEW e \in W.packets
      PROVE  e \in V.packets
  <2>1. PICK t \in Servers : e \in cyc'[t].pkt.objs \cup rpc'[t].reply.objs
    BY WorldIsNext DEF Packets
  <2>2. t # s
    BY <1>3, <2>1, NoCallIs
  <2>3. e \in cyc[t].pkt.objs \cup rpc[t].reply.objs
    BY <1>3, <1>4, <2>1, <2>2
  <2> QED BY <2>3, WorldIs DEF Packets
<1>7. ASSUME NEW t \in Servers
      PROVE  /\ W.cur[t] \in Mine(V, t) /\ W.free[t] \subseteq V.free[t] /\ W.open[t] \subseteq V.open[t]
             /\ \/ W.live[t] = V.live[t] /\ W.disk[t] = V.disk[t]
                \/ W.live[t] = V.disk[t] /\ W.disk[t] = V.disk[t]
  <2>1. CASE t = s
    <3>1. W.cur[t] = V.disk[t].id /\ W.live[t] = V.disk[t] /\ W.disk[t] = V.disk[t]
      BY <1>1, <1>3, <2>1, WorldIs, WorldIsNext
    <3>2. V.live[t].id = V.disk[t].id
      BY <1>2 DEF WorldOK, IdsOK
    <3>3. W.free[t] = {usn[t]} /\ W.open[t] = {}
      BY <1>1, <1>3, <2>1, WorldIsNext, FreeIsNext
    <3>4. usn[t] \in V.free[t]
      BY WorldIs DEF Free
    <3>5. W.cur[t] \in Mine(V, t)
      BY <3>1, <3>2 DEF Mine
    <3> HIDE DEF V, W
    <3> QED BY <3>1, <3>3, <3>4, <3>5
  <2>2. CASE t # s
    <3>1. W.cur[t] = V.cur[t] /\ W.live[t] = V.live[t] /\ W.disk[t] = V.disk[t]
      BY <1>1, <1>3, <2>2, WorldIs, WorldIsNext
    <3>2. W.free[t] = V.free[t] /\ W.open[t] = V.open[t]
      <4>1. usn'[t] = usn[t] /\ pending'[t] = pending[t]
        BY <1>1, <1>3, <2>2
      <4>2. Free(t)' = {usn[t]} \cup {w.stamp.usn : w \in pending[t]}
        BY <4>1, FreeIsNext
      <4>3. Free(t)' = Free(t)
        BY <4>2 DEF Free
      <4> QED BY <4>1, <4>3, WorldIs, WorldIsNext
    <3> QED BY <1>2, <3>1, <3>2, MineType
  <2> QED BY <2>1, <2>2
<1>8. WorldStep(World, World')
  <2> HIDE DEF V, W
  <2>1. \A t \in Servers : \/ Like(V.live[t], W.live[t]) /\ (Like(V.disk[t], W.disk[t]) \/ Like(V.live[t], W.disk[t]))
                           \/ Like(V.disk[t], W.live[t]) /\ Like(V.disk[t], W.disk[t])
    BY <1>7 DEF Like
  <2>2. W.kept \subseteq V.kept /\ \A e \in W.packets : e \in V.packets
    BY <1>5, <1>6
  <2>3. WorldStep(V, W)
    BY <1>2, <1>5, <1>7, <2>1, <2>2, QuietStep
  <2> QED BY <2>3 DEF V, W
<1>9. ASSUME NEW t \in Servers
      PROVE  StoreOK(World', live'[t]) /\ StoreOK(World', disk'[t])
  <2>1. StoreOK(World', live[t]) /\ StoreOK(World', disk[t])
    BY <1>8, StepTypes, KeptSound DEF Before, LossInv
  <2> QED BY <1>1, <1>3, <2>1
<1>10. ASSUME NEW t \in Servers
       PROVE  CycleOK(World', live'[t], cyc'[t], rpc'[t])
  <2>1. CASE t = s
    BY <1>3, <2>1, CycleIs, NoCallIs
  <2>2. CASE t # s
    <3>1. CycleOK(World, live[t], cyc[t], rpc[t])
      BY DEF Before, LossInv
    <3>2. /\ live[t] \in Databases /\ cyc[t] \in Cycles /\ rpc[t] \in Calls
          /\ cyc[t].pc # "idle" => cyc[t].src \in Servers
          /\ cyc[t].pc = "idle" => rpc[t].st = "none"
      BY StepTypes
    <3>3. CycleOK(World', live[t], cyc[t], rpc[t])
      BY <1>8, <3>1, <3>2, KeptSound
    <3>4. CycleOK(World', live[t], cyc[t], rpc'[t])
      BY <1>4, <2>2, <3>3 DEF CycleOK
    <3> QED BY <1>3, <2>2, <3>4
  <2> QED BY <2>1, <2>2
<1> QED BY <1>1, <1>8, <1>9, <1>10, LossSet

\* A server writes objects of its database, lazily.
LEMMA WriteLoss ==
  ASSUME Before, After, NEW s \in Servers,
         \A t \in Servers : t # s => /\ live'[t] = live[t] /\ usn'[t] = usn[t] /\ pending'[t] = pending[t]
                                     /\ cyc'[t] = cyc[t],
         UNCHANGED <<disk, curId, rpc>>, count'.ids = count.ids, expired \subseteq expired',
         \A u \in Free(s)' : \E v \in Free(s) : v <= u,
         \A w \in pending'[s] : Fresh(World, s, w.stamp),
         live'[s].id = live[s].id, live'[s].retired = live[s].retired,
         live'[s].utd = live[s].utd, live'[s].reps = live[s].reps,
         cyc'[s].pkt.objs \subseteq cyc[s].pkt.objs,
         \A o \in Objs \ expired', a \in Attrs :
           \/ live'[s].db[o][a] = live[s].db[o][a]
           \/ /\ live'[s].db[o][a].usn \in Free(s)
              /\ ~Newer(live[s].db[o][a], live'[s].db[o][a])
              /\ \/ Fresh(World, s, live'[s].db[o][a])
                 \/ \E y \in InPackets(World, o, a) : Same(live'[s].db[o][a], y)
  PROVE  /\ WorldStep(World, World')
         /\ Grows(World'.kept, live[s], live'[s])
         /\ StoreOK(World', live'[s]) /\ StoreOK(World', disk'[s])
<1> DEFINE V == World
           W == World'
<1>1. WorldType(V) /\ WorldType(W) /\ WorldOK(V) /\ IdsOK(V) /\ live[s] \in Databases /\ live'[s] \in Databases
      /\ disk[s] \in Databases
  BY StepTypes
<1>2. W.kept \subseteq V.kept /\ W.ids = V.ids /\ W.cur = V.cur /\ W.disk = V.disk /\ W.kept = Objs \ expired'
  BY WorldIs, WorldIsNext
<1>3. W.packets \subseteq V.packets
  <2>1. V.packets = UNION {cyc[t].pkt.objs \cup rpc[t].reply.objs : t \in Servers}
    BY WorldIs DEF Packets
  <2>2. W.packets = UNION {cyc'[t].pkt.objs \cup rpc'[t].reply.objs : t \in Servers}
    BY WorldIsNext DEF Packets
  <2>3. \A t \in Servers : cyc'[t].pkt.objs \cup rpc'[t].reply.objs \subseteq cyc[t].pkt.objs \cup rpc[t].reply.objs
    OBVIOUS
  <2> HIDE DEF V, W
  <2> QED BY <2>1, <2>2, <2>3
<1>4. ASSUME NEW t \in Servers, t # s
      PROVE  W.live[t] = V.live[t] /\ W.free[t] = V.free[t] /\ W.open[t] = V.open[t]
  <2>1. live'[t] = live[t] /\ usn'[t] = usn[t] /\ pending'[t] = pending[t]
    BY <1>4
  <2>2. Free(t)' = {usn[t]} \cup {w.stamp.usn : w \in pending[t]}
    BY <2>1, FreeIsNext
  <2>3. Free(t)' = Free(t)
    BY <2>2 DEF Free
  <2> QED BY <2>1, <2>3, WorldIs, WorldIsNext
<1>5. W.live[s] = live'[s] /\ V.live[s] = live[s] /\ V.free[s] = Free(s) /\ W.free[s] = Free(s)'
  BY WorldIs, WorldIsNext
<1>6. \A x \in W.open[s] : Fresh(V, s, x)
  BY WorldIsNext
<1>7. \A o \in W.kept, a \in Attrs :
        \/ W.live[s].db[o][a] = V.live[s].db[o][a]
        \/ /\ W.live[s].db[o][a].usn \in V.free[s]
           /\ ~Newer(V.live[s].db[o][a], W.live[s].db[o][a])
           /\ \/ Fresh(V, s, W.live[s].db[o][a])
              \/ \E y \in InPackets(V, o, a) : Same(W.live[s].db[o][a], y)
  BY <1>2, <1>5
<1>8. W.live[s].id = V.live[s].id /\ W.live[s].retired = V.live[s].retired
  BY <1>5
<1>9. \A u \in W.free[s] : \E v \in V.free[s] : v <= u
  BY <1>5
<1>10. Grows(W.kept, live[s], live'[s]) /\ Grows(W.kept, disk[s], disk[s])
  <2>1. W.kept \subseteq Objs
    BY <1>2
  <2>2. ASSUME NEW o \in W.kept, NEW a \in Attrs
        PROVE  ~Newer(live[s].db[o][a], live'[s].db[o][a])
    <3>1. live[s].db[o][a] \in Stamps
      BY <1>1, <2>1, StampOf
    <3> QED BY <1>5, <1>7, <3>1, NewerOrder
  <2> QED BY <1>1, <2>1, <2>2, SameGrows DEF Grows, Covers
<1> HIDE DEF V, W
<1>11. WorldStep(V, W)
  <2>1. \A t \in Servers : t # s => W.live[t] = V.live[t] /\ W.free[t] = V.free[t] /\ W.open[t] = V.open[t]
    BY <1>4
  <2>2. WorldType(V) /\ WorldType(W) /\ WorldOK(V) /\ W.kept \subseteq V.kept /\ W.ids = V.ids /\ W.cur = V.cur
        /\ W.packets \subseteq V.packets /\ W.disk = V.disk
    BY <1>1, <1>2, <1>3
  <2> QED BY ONLY <1>6, <1>7, <1>8, <1>9, <2>1, <2>2, WriteStep
<1>12. StoreOK(V, live[s]) /\ StoreOK(V, disk[s])
  BY DEF Before, LossInv, V
<1>13. StoreOK(W, live'[s])
  BY <1>1, <1>10, <1>11, <1>12, StoreStep
<1>14. StoreOK(W, disk[s])
  BY <1>1, <1>10, <1>11, <1>12, StoreStep
<1> QED BY <1>10, <1>11, <1>13, <1>14 DEF V, W

\* ... and the replication cycles go on.
LEMMA WriteAlone ==
  ASSUME Before, After, WorldStep(World, World'), NEW s \in Servers,
         \A t \in Servers : t # s => live'[t] = live[t],
         UNCHANGED <<disk, cyc, rpc>>, Grows(World'.kept, live[s], live'[s]),
         StoreOK(World', live'[s]), StoreOK(World', disk'[s])
  PROVE  LossInv'
<1> DEFINE V == World
           W == World'
<1>1. /\ WorldType(V) /\ WorldType(W) /\ IdsOK(V) /\ live[s] \in Databases /\ live'[s] \in Databases
      /\ cyc[s] \in Cycles /\ rpc[s] \in Calls
      /\ cyc[s].pc # "idle" => cyc[s].src \in Servers
      /\ cyc[s].pc = "idle" => rpc[s].st = "none"
  BY StepTypes
<1>2. CycleOK(V, live[s], cyc[s], rpc[s]) /\ WorldStep(V, W) /\ Grows(W.kept, live[s], live'[s])
  BY DEF Before, LossInv
<1> HIDE DEF V, W
<1>3. CycleOK(W, live'[s], cyc[s], rpc[s])
  BY <1>1, <1>2, CycleStep
<1>4. CycleOK(World', live'[s], cyc'[s], rpc'[s])
  BY <1>3 DEF W
<1> QED BY <1>4, OneServer

LEMMA OriginatingWriteLoss ==
  ASSUME Before, After, NEW s \in Servers, NEW o \in Objs, NEW a \in Attrs, OriginatingWrite(s, o, a)
  PROVE  LossInv'
<1> DEFINE x == [ver |-> live[s].db[o][a].ver + 1, id |-> curId[s],
                 ousn |-> usn[s], lf |-> live[s].db[o][a].lf, usn |-> usn[s]]
           w == [obj |-> o, attr |-> a, stamp |-> x]
<1>1. /\ pending' = [pending EXCEPT ![s] = @ \cup {w}] /\ usn' = [usn EXCEPT ![s] = @ + 1]
      /\ Used("writes") /\ UNCHANGED <<live, disk, image, curId, cyc, rpc, expired>>
  BY DEF OriginatingWrite
<1>2. pending \in [Servers -> SUBSET Writes] /\ usn \in [Servers -> Nat] /\ count \in Counts /\ TypeInv
  BY DEF Before, TypeInv, StoreType, CountType
<1>3. count'.ids = count.ids
  BY <1>1, <1>2 DEF Used, Counts
<1>4. /\ pending'[s] = pending[s] \cup {w} /\ usn'[s] = usn[s] + 1
      /\ \A t \in Servers : t # s => usn'[t] = usn[t] /\ pending'[t] = pending[t]
  <2> HIDE DEF w
  <2> QED BY <1>1, <1>2
<1>5. w.stamp = x /\ x.id = curId[s] /\ x.ousn = usn[s] /\ x.usn = usn[s]
  OBVIOUS
<1> HIDE DEF w, x
<1>6. World.cur[s] = curId[s] /\ World.free[s] = Free(s) /\ usn[s] \in Free(s)
  BY WorldIs DEF Free
<1>7. ASSUME NEW v \in pending'[s]
      PROVE  Fresh(World, s, v.stamp)
  <2>1. CASE v \in pending[s]
    BY <2>1, WorldIs DEF Fresh
  <2>2. CASE v = w
    BY <1>5, <1>6, <2>2 DEF Fresh
  <2> QED BY <1>4, <2>1, <2>2
<1>8. ASSUME NEW u \in Free(s)'
      PROVE  \E v \in Free(s) : v <= u
  <2>1. u \in {usn[s] + 1} \cup {v.stamp.usn : v \in pending[s] \cup {w}}
    BY <1>4, FreeIsNext
  <2>2. CASE u \in {usn[s], usn[s] + 1}
    BY <1>2, <1>6, <2>2
  <2>3. CASE u \in {v.stamp.usn : v \in pending[s]}
    <3>1. u \in Free(s) /\ u \in Nat
      BY <1>2, <2>3, FreeType DEF Free
    <3> QED BY <3>1
  <2> QED BY <1>5, <2>1, <2>2, <2>3
<1>9. \A t \in Servers : live'[t] = live[t] /\ cyc'[t] = cyc[t]
  BY <1>1
<1>10. UNCHANGED <<disk, curId, rpc>> /\ expired \subseteq expired' /\ cyc'[s].pkt.objs \subseteq cyc[s].pkt.objs
  BY <1>1
<1>11. WorldStep(World, World')
  BY <1>3, <1>4, <1>7, <1>8, <1>9, <1>10, WriteLoss
<1>12. \A t \in Servers : /\ live'[t] = live[t] /\ disk'[t] \in {disk[t], live[t]}
                          /\ cyc'[t] = cyc[t] /\ rpc'[t] = rpc[t]
  BY <1>1
<1> QED BY <1>10, <1>11, <1>12, RestLoss

\* A commit: the write has a USN nobody claims yet.
LEMMA CommitWriteLoss ==
  ASSUME Before, After, NEW s \in Servers, CommitWrite(s)
  PROVE  LossInv'
<1>1. PICK w \in pending[s] :
        /\ LazyCommit(s, [live[s] EXCEPT !.db[w.obj][w.attr] = w.stamp])
        /\ pending' = [pending EXCEPT ![s] = @ \ {w}]
        /\ UNCHANGED <<image, curId, usn, cyc, rpc, born, expired, count>>
  BY DEF CommitWrite
<1> DEFINE E == Written(live[s], w.obj, w.attr, w.stamp)
<1>2. /\ pending \in [Servers -> SUBSET Writes] /\ w \in Writes /\ live[s] \in Databases /\ TypeInv
      /\ live \in [Servers -> Databases] /\ WriteOK(live[s], w)
  BY DEF Before, TypeInv, StoreType, ShapeInv, OpenOK
<1>3. w.obj \in Objs /\ w.attr \in Attrs /\ w.stamp \in Stamps
  BY <1>2 DEF Writes
<1>4. live' = [live EXCEPT ![s] = E] /\ disk' = disk
  BY <1>1 DEF LazyCommit, Written
<1>5. /\ \A o \in Objs : \A a \in Attrs : E.db[o][a] = IF o = w.obj /\ a = w.attr THEN w.stamp ELSE live[s].db[o][a]
      /\ E.utd = live[s].utd /\ E.reps = live[s].reps /\ E.id = live[s].id /\ E.retired = live[s].retired
  BY <1>2, <1>3, WriteType
<1> HIDE DEF E
<1>6. live'[s] = E /\ pending'[s] = pending[s] \ {w}
      /\ \A t \in Servers : t # s => live'[t] = live[t] /\ usn'[t] = usn[t] /\ pending'[t] = pending[t] /\ cyc'[t] = cyc[t]
  BY <1>1, <1>2, <1>4
<1>7. \A v \in pending'[s] : Fresh(World, s, v.stamp)
  BY <1>6, WorldIs DEF Fresh
<1>8. Fresh(World, s, w.stamp) /\ w.stamp.usn \in Free(s)
  BY WorldIs DEF Fresh, Free
<1>9. ASSUME NEW u \in Free(s)'
      PROVE  \E v \in Free(s) : v <= u
  <2>1. u \in {usn[s]} \cup {v.stamp.usn : v \in pending[s]}
    BY <1>1, <1>6, FreeIsNext
  <2>2. u \in Free(s) /\ u \in Nat
    BY <1>2, <2>1, FreeType DEF Free
  <2> QED BY <2>2
<1>10. ~Newer(live[s].db[w.obj][w.attr], w.stamp)
  <2>1. live[s].db[w.obj][w.attr] \in Stamps
    BY <1>2, <1>3, StampOf
  <2>2. live[s].db[w.obj][w.attr].ver \in Nat /\ w.stamp.ver = live[s].db[w.obj][w.attr].ver + 1
    BY <1>2, <2>1, StampFields DEF WriteOK
  <2> QED BY <2>2 DEF Newer
<1>11. \A o \in Objs \ expired', a \in Attrs :
         \/ live'[s].db[o][a] = live[s].db[o][a]
         \/ /\ live'[s].db[o][a].usn \in Free(s)
            /\ ~Newer(live[s].db[o][a], live'[s].db[o][a])
            /\ Fresh(World, s, live'[s].db[o][a])
  BY <1>5, <1>6, <1>8, <1>10
<1>12. /\ UNCHANGED <<disk, curId, rpc, cyc>> /\ expired \subseteq expired' /\ count'.ids = count.ids
       /\ cyc'[s].pkt.objs \subseteq cyc[s].pkt.objs
       /\ live'[s].id = live[s].id /\ live'[s].retired = live[s].retired
       /\ live'[s].utd = live[s].utd /\ live'[s].reps = live[s].reps
  BY <1>1, <1>4, <1>5, <1>6
<1>13. /\ WorldStep(World, World') /\ Grows(World'.kept, live[s], live'[s])
       /\ StoreOK(World', live'[s]) /\ StoreOK(World', disk'[s])
  BY <1>6, <1>7, <1>9, <1>11, <1>12, WriteLoss
<1> QED BY <1>6, <1>12, <1>13, WriteAlone

\* A dynamic object goes, and is no longer counted on.
LEMMA ExpireLoss ==
  ASSUME Before, After, NEW s \in Servers, NEW o \in Leaves, Expire(s, o)
  PROVE  LossInv'
<1> DEFINE row == [a \in Attrs |-> None]
           E == WrittenRow(live[s], o, row)
<1>1. /\ Used("expired") /\ live' = [live EXCEPT ![s] = E] /\ disk' = disk /\ expired' = expired \cup {o}
      /\ UNCHANGED <<image, curId, usn, pending, cyc, rpc, born>>
  BY DEF Expire, LazyCommit, WrittenRow
<1>2. live[s] \in Databases /\ live \in [Servers -> Databases] /\ count \in Counts /\ TypeInv /\ o \in Objs
  BY DEF Before, TypeInv, StoreType, CountType, Objs
<1>3. row \in [Attrs -> Stamps]
  BY NoneType
<1> HIDE DEF row
<1>4. /\ \A p \in Objs : E.db[p] = IF p = o THEN row ELSE live[s].db[p]
      /\ E.utd = live[s].utd /\ E.reps = live[s].reps /\ E.id = live[s].id /\ E.retired = live[s].retired
  BY <1>2, <1>3, RowType
<1> HIDE DEF E
<1>5. live'[s] = E
      /\ \A t \in Servers : t # s => live'[t] = live[t] /\ usn'[t] = usn[t] /\ pending'[t] = pending[t] /\ cyc'[t] = cyc[t]
  BY <1>1, <1>2
<1>6. \A v \in pending'[s] : Fresh(World, s, v.stamp)
  BY <1>1, WorldIs DEF Fresh
<1>7. \A u \in Free(s)' : \E v \in Free(s) : v <= u
  <2>1. \A u \in Free(s)' : u \in Free(s)
    BY <1>1, FreeIsNext DEF Free
  <2>2. \A u \in Free(s) : u \in Nat
    BY <1>2, FreeType
  <2>3. \A u \in Free(s)' : u \in Free(s) /\ u <= u
    BY <2>1, <2>2
  <2> QED BY <2>3
<1>8. \A p \in Objs \ expired', a \in Attrs : live'[s].db[p][a] = live[s].db[p][a]
  BY <1>1, <1>4, <1>5
<1>9. count'.ids = count.ids
  BY <1>1, <1>2 DEF Used, Counts
<1>10. /\ UNCHANGED <<disk, curId, rpc, cyc>> /\ expired \subseteq expired'
       /\ cyc'[s].pkt.objs \subseteq cyc[s].pkt.objs
       /\ live'[s].id = live[s].id /\ live'[s].retired = live[s].retired
       /\ live'[s].utd = live[s].utd /\ live'[s].reps = live[s].reps
  BY <1>1, <1>4, <1>5
<1>11. /\ WorldStep(World, World') /\ Grows(World'.kept, live[s], live'[s])
       /\ StoreOK(World', live'[s]) /\ StoreOK(World', disk'[s])
  BY <1>5, <1>6, <1>7, <1>8, <1>9, <1>10, WriteLoss
<1> QED BY <1>5, <1>10, <1>11, WriteAlone

\* What the row of an applied object holds.
LEMMA RowPutIs ==
  ASSUME NEW D \in Databases, NEW e \in Entries, NEW orphan, NEW id \in Ids, NEW u \in Nat, NEW a \in Attrs,
         NEW row, row = RowPut(D, e, Winners(D, e), orphan, id, u)
  PROVE  /\ a \in Winners(D, e) <=> a \in DOMAIN e.md /\ Newer(e.md[a], D.db[e.obj][a])
         /\ a \notin Winners(D, e) => row[a] = D.db[e.obj][a]
         /\ a \in Winners(D, e) =>
              /\ row[a].usn = u /\ ~Newer(e.md[a], row[a]) /\ ~Newer(D.db[e.obj][a], row[a])
              /\ Same(row[a], e.md[a]) \/ (row[a].id = id /\ row[a].ousn = u)
<1>1. a \in Winners(D, e) <=> a \in DOMAIN e.md /\ Newer(e.md[a], D.db[e.obj][a])
  BY DEF Winners
<1>2. a \notin Winners(D, e) => row[a] = D.db[e.obj][a]
  BY DEF RowPut
<1>3. ASSUME a \in Winners(D, e)
      PROVE  /\ row[a].usn = u /\ ~Newer(e.md[a], row[a]) /\ ~Newer(D.db[e.obj][a], row[a])
             /\ Same(row[a], e.md[a]) \/ (row[a].id = id /\ row[a].ousn = u)
  <2> DEFINE x == e.md[a]
             y == D.db[e.obj][a]
  <2>1. x \in Stamps /\ y \in Stamps /\ Newer(x, y)
    BY <1>1, <1>3, EntryFields, StampOf
  <2>2. \/ row[a] = [ver |-> x.ver + 1, id |-> id, ousn |-> u, lf |-> TRUE, usn |-> u]
        \/ row[a] = [x EXCEPT !.usn = u]
    BY <1>3 DEF RowPut
  <2> HIDE DEF x, y
  <2>3. x.ver \in Nat /\ x.id \in Nat /\ x.ousn \in Nat /\ y.ver \in Nat /\ y.id \in Nat /\ y.ousn \in Nat
    BY <2>1, StampFields
  <2>4. CASE row[a] = [ver |-> x.ver + 1, id |-> id, ousn |-> u, lf |-> TRUE, usn |-> u]
    <3>1. row[a].ver = x.ver + 1 /\ row[a].id = id /\ row[a].ousn = u /\ row[a].usn = u
      BY <2>4
    <3>2. ~Newer(x, row[a]) /\ ~Newer(y, row[a])
      BY <2>1, <2>3, <3>1 DEF Newer
    <3> QED BY <3>1, <3>2 DEF x, y
  <2>5. CASE row[a] = [x EXCEPT !.usn = u]
    <3>1. row[a].ver = x.ver /\ row[a].id = x.id /\ row[a].ousn = x.ousn /\ row[a].usn = u
      BY <2>1, <2>5 DEF Stamps
    <3>2. Same(row[a], x)
      BY <3>1 DEF Same
    <3>3. ~Newer(x, row[a]) /\ ~Newer(y, row[a])
      BY <2>1, <2>3, <3>1 DEF Newer
    <3> QED BY <3>1, <3>2, <3>3 DEF x, y
  <2> QED BY <2>2, <2>4, <2>5
<1> QED BY <1>1, <1>2, <1>3

\* An applied object need not be kept: the database covers it.
LEMMA Absorb ==
  ASSUME NEW K, K \subseteq Objs, NEW D \in Databases, NEW E \in Databases, Grows(K, D, E), NEW e \in Entries,
         e.obj \in K => \A a \in DOMAIN e.md : ~Newer(e.md[a], E.db[e.obj][a]),
         NEW P, NEW R, P \ {e} \subseteq R
  PROVE  More(K, D, P, E, R)
<1> SUFFICES ASSUME NEW o \in K, NEW a \in Attrs, NEW x \in Stamps, Covers(D, P, o, a, x)
             PROVE  Covers(E, R, o, a, x)
  BY DEF More
<1>1. CASE ~Newer(x, D.db[o][a])
  <2>1. Covers(D, {}, o, a, x)
    BY <1>1 DEF Covers
  <2>2. More(K, D, {}, E, R)
    BY GrowsMore
  <2> QED BY <2>1, <2>2 DEF More
<1>2. ASSUME NEW f \in P, f.obj = o, a \in DOMAIN f.md, ~Newer(x, f.md[a])
      PROVE  Covers(E, R, o, a, x)
  <2>1. CASE f # e
    BY <1>2, <2>1 DEF Covers
  <2>2. CASE f = e
    <3>1. e.md[a] \in Stamps /\ E.db[o][a] \in Stamps
      BY <1>2, <2>2, EntryFields, StampOf
    <3> QED BY <1>2, <2>2, <3>1, NewerOrder DEF Covers
  <2> QED BY <2>1, <2>2
<1> QED BY <1>1, <1>2 DEF Covers

\* An object is applied.
LEMMA UpdateRepObjLoss ==
  ASSUME Before, After, NEW d \in Servers, cyc[d].pc = "apply", NEW e \in cyc[d].pkt.objs, NEW orphan \in BOOLEAN,
         UpdateRepObj(d, e, orphan), UNCHANGED <<image, curId, pending, born, expired, count>>
  PROVE  LossInv'
<1> DEFINE c == cyc[d]
           D == live[d]
           row == RowPut(D, e, Winners(D, e), orphan, curId[d], usn[d])
<1>1. /\ Winners(D, e) = {} => UNCHANGED <<live, disk, usn>>
      /\ Winners(D, e) # {} => /\ live' = [live EXCEPT ![d] = WrittenRow(D, e.obj, row)]
                               /\ UNCHANGED disk /\ usn' = [usn EXCEPT ![d] = @ + 1]
      /\ cyc' = [cyc EXCEPT ![d].pkt.objs = @ \ {e}] /\ UNCHANGED rpc
  BY UpdateRepObjIs
<1>2. /\ c \in Cycles /\ c.src \in Servers /\ D \in Databases /\ c.pkt \in Replies /\ c.pkt.objs \subseteq Entries
      /\ curId[d] \in Ids /\ usn \in [Servers -> Nat] /\ live \in [Servers -> Databases] /\ TypeInv
      /\ rpc[d] \in Calls /\ WorldType(World) /\ WorldType(World') /\ IdsOK(World) /\ live'[d] \in Databases
  BY ApplyTypes, StepTypes DEF Before, TypeInv, StoreType
<1>3. e \in Entries /\ e.obj \in Objs /\ DOMAIN e.md \subseteq Attrs
  BY <1>2, EntryFields
<1> DEFINE b == [c EXCEPT !.pkt = [c.pkt EXCEPT !.objs = @ \ {e}]]
<1>4. cyc' = [cyc EXCEPT ![d] = b] /\ cyc \in [Servers -> Cycles]
  BY <1>1, <1>2, RestOfPacket DEF TypeInv, CommType
<1>5. /\ b.pc = c.pc /\ b.src = c.src /\ b.utd = c.utd /\ b.req = c.req
      /\ b.pkt.utd = c.pkt.utd /\ b.pkt.to = c.pkt.to /\ b.pkt.objs = c.pkt.objs \ {e}
  <2> DEFINE p == [c.pkt EXCEPT !.objs = @ \ {e}]
  <2>1. p.objs = c.pkt.objs \ {e} /\ p.utd = c.pkt.utd /\ p.to = c.pkt.to
    BY <1>2 DEF Replies
  <2> HIDE DEF p
  <2>2. [c EXCEPT !.pkt = p].pkt = p
    BY <1>2 DEF Cycles
  <2>3. [c EXCEPT !.pkt = p].pc = c.pc /\ [c EXCEPT !.pkt = p].src = c.src /\ [c EXCEPT !.pkt = p].utd = c.utd
        /\ [c EXCEPT !.pkt = p].req = c.req
    BY <1>2 DEF Cycles
  <2> QED BY <2>1, <2>2, <2>3 DEF p
<1> HIDE DEF b
<1>6. cyc'[d] = b /\ rpc'[d] = rpc[d] /\ \A t \in Servers : t # d => cyc'[t] = cyc[t]
  BY <1>1, <1>4
<1>7. ASSUME NEW a \in Attrs
      PROVE  /\ a \in Winners(D, e) <=> a \in DOMAIN e.md /\ Newer(e.md[a], D.db[e.obj][a])
             /\ a \notin Winners(D, e) => row[a] = D.db[e.obj][a]
             /\ a \in Winners(D, e) =>
                  /\ row[a].usn = usn[d] /\ ~Newer(e.md[a], row[a]) /\ ~Newer(D.db[e.obj][a], row[a])
                  /\ Same(row[a], e.md[a]) \/ (row[a].id = curId[d] /\ row[a].ousn = usn[d])
  <2>1. usn[d] \in Nat /\ row = RowPut(D, e, Winners(D, e), orphan, curId[d], usn[d])
    BY <1>2
  <2> HIDE DEF row, D
  <2> QED BY <1>2, <1>3, <2>1, RowPutIs
<1> HIDE DEF row
<1>8. /\ \A o \in Objs \ {e.obj} : live'[d].db[o] = D.db[o]
      /\ \A a \in Attrs : live'[d].db[e.obj][a] = IF a \in Winners(D, e) THEN row[a] ELSE D.db[e.obj][a]
      /\ live'[d].id = D.id /\ live'[d].retired = D.retired /\ live'[d].utd = D.utd /\ live'[d].reps = D.reps
      /\ usn'[d] \in {usn[d], usn[d] + 1}
      /\ \A t \in Servers : t # d => live'[t] = live[t] /\ usn'[t] = usn[t]
      /\ disk' = disk
  <2>1. CASE Winners(D, e) = {}
    BY <1>1, <2>1
  <2>2. CASE Winners(D, e) # {}
    <3> DEFINE E == WrittenRow(D, e.obj, row)
    <3>1. row \in [Attrs -> Stamps]
      <4>1. usn[d] \in Nat
        BY <1>2
      <4> HIDE DEF D
      <4> QED BY <1>2, <1>3, <4>1, RowPutOK, Zenon DEF row
    <3>2. /\ \A p \in Objs : E.db[p] = IF p = e.obj THEN row ELSE D.db[p]
          /\ E.utd = D.utd /\ E.reps = D.reps /\ E.id = D.id /\ E.retired = D.retired
      BY <1>2, <1>3, <3>1, RowType
    <3> HIDE DEF E
    <3>3. live'[d] = E /\ usn'[d] = usn[d] + 1 /\ disk' = disk
          /\ \A t \in Servers : t # d => live'[t] = live[t] /\ usn'[t] = usn[t]
      BY <1>1, <1>2, <2>2 DEF E
    <3> QED BY <1>3, <1>7, <3>2, <3>3
  <2> QED BY <2>1, <2>2
<1>9. World.cur[d] = curId[d] /\ World.free[d] = Free(d) /\ usn[d] \in Free(d)
  BY WorldIs DEF Free
<1>10. ASSUME NEW u \in Free(d)'
       PROVE  \E v \in Free(d) : v <= u
  <2>1. u \in {usn'[d]} \cup {v.stamp.usn : v \in pending[d]}
    BY FreeIsNext
  <2>2. CASE u \in {usn[d], usn[d] + 1}
    BY <1>2, <1>9, <2>2
  <2>3. CASE u \in {v.stamp.usn : v \in pending[d]}
    <3>1. u \in Free(d) /\ u \in Nat
      BY <1>2, <2>3, FreeType DEF Free
    <3> QED BY <3>1
  <2> QED BY <1>8, <2>1, <2>2, <2>3
<1>11. \A v \in pending'[d] : Fresh(World, d, v.stamp)
  BY WorldIs DEF Fresh
<1>12. ASSUME NEW o \in Objs \ expired', NEW a \in Attrs
       PROVE  \/ live'[d].db[o][a] = live[d].db[o][a]
              \/ /\ live'[d].db[o][a].usn \in Free(d)
                 /\ ~Newer(live[d].db[o][a], live'[d].db[o][a])
                 /\ \/ Fresh(World, d, live'[d].db[o][a])
                    \/ \E y \in InPackets(World, o, a) : Same(live'[d].db[o][a], y)
  <2>1. CASE o # e.obj \/ a \notin Winners(D, e)
    BY <1>8, <2>1
  <2>2. CASE o = e.obj /\ a \in Winners(D, e)
    <3>1. live'[d].db[o][a] = row[a] /\ a \in DOMAIN e.md
      BY <1>7, <1>8, <2>2
    <3>2. e \in World.packets
      BY WorldIs DEF Packets
    <3>3. e.md[a] \in InPackets(World, o, a)
      BY <2>2, <3>1, <3>2 DEF InPackets
    <3>4. Same(row[a], e.md[a]) \/ Fresh(World, d, row[a])
      BY <1>7, <1>9, <2>2 DEF Fresh
    <3> QED BY <1>7, <1>9, <2>2, <3>1, <3>3, <3>4
  <2> QED BY <2>1, <2>2
<1>13. /\ UNCHANGED <<disk, curId, rpc>> /\ count'.ids = count.ids /\ expired \subseteq expired'
       /\ cyc'[d].pkt.objs \subseteq cyc[d].pkt.objs
       /\ \A t \in Servers : t # d => /\ live'[t] = live[t] /\ usn'[t] = usn[t] /\ pending'[t] = pending[t]
                                      /\ cyc'[t] = cyc[t]
  BY <1>1, <1>5, <1>6, <1>8
<1>14. /\ WorldStep(World, World') /\ Grows(World'.kept, live[d], live'[d])
       /\ StoreOK(World', live'[d]) /\ StoreOK(World', disk'[d])
  BY <1>8, <1>10, <1>11, <1>12, <1>13, WriteLoss
<1> DEFINE V == World
           W == World'
           E == live'[d]
<1>15. W.kept \subseteq Objs /\ \A a \in DOMAIN e.md : ~Newer(e.md[a], E.db[e.obj][a])
  BY <1>2, <1>3, <1>7, <1>8 DEF WorldType
<1>16. /\ D \in Databases /\ E \in Databases /\ Grows(W.kept, D, E) /\ CycleOK(V, D, c, rpc[d]) /\ WorldStep(V, W)
       /\ WorldType(V) /\ WorldType(W) /\ IdsOK(V)
  BY <1>2, <1>14 DEF Before, LossInv
<1> HIDE DEF V, W, E, D
<1>17. /\ More(W.kept, D, c.pkt.objs, E, b.pkt.objs)
       /\ More(W.kept, D, c.pkt.objs \cup rpc[d].reply.objs, E, b.pkt.objs \cup rpc[d].reply.objs)
  BY <1>3, <1>5, <1>15, <1>16, Absorb
<1>18. CycleOK(W, E, b, rpc[d])
  <2> HIDE DEF c
  <2>1. c.pc # "idle" /\ c.src \in Servers
    BY <1>2 DEF c
  <2> QED BY <1>2, <1>5, <1>16, <1>17, <2>1, PacketStep
<1>19. CycleOK(World', live'[d], cyc'[d], rpc'[d])
  BY <1>6, <1>18 DEF W, E
<1>20. \A t \in Servers : t # d => /\ live'[t] = live[t] /\ disk'[t] = disk[t]
                                   /\ cyc'[t] = cyc[t] /\ rpc'[t] = rpc[t]
  BY <1>13
<1> QED BY <1>13, <1>14, <1>19, <1>20, OneServer

LEMMA UpdateNCLoss ==
  ASSUME Before, After, NEW d \in Servers, UpdateNC(d)
  PROVE  LossInv'
<1> DEFINE c == cyc[d]
           e == First(c.pkt.objs)
<1>1. /\ c.pc = "apply" /\ c.pkt.objs # {}
      /\ UNCHANGED <<image, curId, pending, born, expired, count>>
  BY UpdateNCIs
<1>2. /\ c \in Cycles /\ c.src \in Servers /\ live[d] \in Databases /\ e \in c.pkt.objs
  BY <1>1, ApplyTypes DEF Before
<1>3. StoreOK(World, live[d]) /\ CycleOK(World, live[d], c, rpc[d])
  BY DEF Before, LossInv
<1>4. MarkOK(World, c.src, c.req.vec, live[d], {})
  BY <1>1, <1>3 DEF CycleOK
<1>5. ASSUME UNCHANGED <<live, disk, usn>>
      PROVE  /\ \A t \in Servers : live'[t] = live[t] /\ disk'[t] = disk[t]
             /\ Like(live[d], live'[d]) /\ disk'[d] \in {disk[d], live'[d]} /\ count'.ids = count.ids
             /\ StoreOK(World, live'[d]) /\ UNCHANGED <<curId, usn, pending, expired>>
  BY <1>1, <1>3, <1>5, SameLike
<1>6. ASSUME NEW q \in Requests, NextPacket(d, [c EXCEPT !.req = q]), UNCHANGED <<live, disk, usn>>,
             q.vec = c.req.vec, q.full \/ q.anc
      PROVE  LossInv'
  <2> DEFINE b == [c EXCEPT !.req = q]
  <2>1. b \in Cycles /\ b.src = c.src /\ b.utd = c.utd /\ b.req = q
    BY <1>2 DEF Cycles
  <2>2. NextPacket(d, b)
    BY <1>6
  <2> HIDE DEF b
  <2>3. MarkOK(World, b.src, b.req.vec, live[d], {}) /\ (b.req.full \/ b.req.anc)
    BY <1>4, <1>6, <2>1
  <2> QED BY <1>1, <1>5, <1>6, <2>1, <2>2, <2>3, NextPacketLoss
<1>7. CASE NextPacket(d, [c EXCEPT !.req.full = TRUE]) /\ UNCHANGED <<live, disk, usn>>
  <2> DEFINE q == [c.req EXCEPT !.full = TRUE]
  <2>1. q \in Requests /\ NextPacket(d, [c EXCEPT !.req = q])
    BY <1>2, <1>7, AskAgain
  <2>2. q.vec = c.req.vec /\ q.full
    BY <1>2, CycleFields DEF Requests
  <2> HIDE DEF q
  <2> QED BY <1>6, <1>7, <2>1, <2>2
<1>8. CASE NextPacket(d, [c EXCEPT !.req.anc = TRUE]) /\ UNCHANGED <<live, disk, usn>>
  <2> DEFINE q == [c.req EXCEPT !.anc = TRUE]
  <2>1. q \in Requests /\ NextPacket(d, [c EXCEPT !.req = q])
    BY <1>2, <1>8, AskAgain
  <2>2. q.vec = c.req.vec /\ q.anc
    BY <1>2, CycleFields DEF Requests
  <2> HIDE DEF q
  <2> QED BY <1>6, <1>8, <2>1, <2>2
<1>9. CASE Leave(d, c) /\ UNCHANGED <<live, disk, usn>>
  BY <1>1, <1>2, <1>4, <1>5, <1>9, LeaveLoss
<1>10. CASE UpdateRepObj(d, e, MissingParent(live[d], e))
  <2> DEFINE orphan == MissingParent(live[d], e)
  <2>1. orphan \in BOOLEAN
    BY DEF MissingParent
  <2>2. UpdateRepObj(d, e, orphan)
    BY <1>10
  <2> HIDE DEF orphan, e
  <2> QED BY <1>1, <1>2, <2>1, <2>2, UpdateRepObjLoss
<1> QED BY <1>7, <1>8, <1>9, <1>10, UpdateNCIs

\* A new invocation id: nobody claims anything of it yet, and the old one is
\* retired at a USN below which all is committed.
LEMMA DraHostWriteableNcLoss ==
  ASSUME Before, After, NEW s \in Servers, DraHostWriteableNc(s)
  PROVE  LossInv'
<1> DEFINE V == World
           W == World'
           D == live[s]
           n == DBGetHighestCommittedUSN(s)
           new == count.ids + 1
           E == draRetireInvocationID(D, curId[s], n, new)
<1>1. /\ count.ids < MaxIds /\ Used("ids") /\ curId' = [curId EXCEPT ![s] = new]
      /\ \/ live' = [live EXCEPT ![s] = E] /\ disk' = [disk EXCEPT ![s] = E]
         \/ UNCHANGED <<live, disk>>
      /\ UNCHANGED <<image, usn, pending, cyc, rpc, born, expired>>
  BY DEF DraHostWriteableNc, DurableCommit
<1>2. /\ WorldType(V) /\ WorldType(W) /\ WorldOK(V) /\ D \in Databases /\ curId \in [Servers -> Ids] /\ TypeInv
      /\ live \in [Servers -> Databases] /\ disk \in [Servers -> Databases] /\ CountType /\ IdsOK(V)
      /\ cyc[s] \in Cycles /\ rpc[s] \in Calls
      /\ cyc[s].pc # "idle" => cyc[s].src \in Servers
      /\ cyc[s].pc = "idle" => rpc[s].st = "none"
  BY StepTypes DEF Before, TypeInv, StoreType
<1>3. new \in Ids /\ count'.ids = new
  BY <1>1, <1>2, NewId
<1>4. n \in Nat /\ Below(V, s, n)
  BY <1>2, HighestCommittedOK, WorldIs DEF Below
<1>5. W.kept = V.kept /\ W.ids = V.ids + 1 /\ W.packets = V.packets /\ V.ids + 1 = new
  BY <1>1, <1>3, WorldIs, WorldIsNext DEF Packets
<1>6. W.free = V.free /\ W.open = V.open
  BY <1>1 DEF World, Free
<1>7. /\ curId'[s] = new /\ W.cur[s] = V.ids + 1
      /\ \A t \in Servers : t # s => curId'[t] = curId[t] /\ W.cur[t] = V.cur[t]
  BY <1>1, <1>2, <1>5, WorldIs, WorldIsNext
<1>8. StoreOK(V, D) /\ StoreOK(V, disk[s]) /\ CycleOK(V, D, cyc[s], rpc[s])
  BY DEF Before, LossInv
<1>9. V.live[s] = D /\ V.cur[s] = curId[s] /\ curId[s] \in Ids /\ curId[s] \in Mine(V, s)
  BY <1>2, WorldIs, MineType
<1>10. CASE UNCHANGED <<live, disk>>
  <2>1. \A t \in Servers : W.live[t] = V.live[t] /\ W.disk[t] = V.disk[t]
    BY <1>10, WorldIs, WorldIsNext
  <2>2. WorldStep(V, W)
    <3> HIDE DEF V, W
    <3> QED BY <1>2, <1>5, <1>6, <1>7, <2>1, NewIdStep
  <2>3. \A t \in Servers : /\ live'[t] = live[t] /\ disk'[t] \in {disk[t], live[t]}
                           /\ cyc'[t] = cyc[t] /\ rpc'[t] = rpc[t]
    BY <1>1, <1>10
  <2> QED BY <1>1, <2>2, <2>3, RestLoss
<1>11. CASE live' = [live EXCEPT ![s] = E] /\ disk' = [disk EXCEPT ![s] = E]
  <2>1. /\ E \in Databases /\ E.db = D.db /\ E.reps = D.reps /\ E.id = new
        /\ \A j \in Ids : E.retired[j] = IF j = curId[s] THEN n ELSE D.retired[j]
        /\ \A j \in Ids : E.utd[j] = IF j = curId[s] /\ D.utd[curId[s]] <= n THEN n ELSE D.utd[j]
    <3> DEFINE i == curId[s]
    <3>1. D \in Databases /\ i \in Ids /\ n \in Nat /\ new \in Ids /\ E = draRetireInvocationID(D, i, n, new)
      BY <1>2, <1>3, <1>4, <1>9
    <3> DEFINE Q == draRetireInvocationID(D, i, n, new)
    <3> HIDE DEF D, n, new, i, E
    <3>2. /\ Q \in Databases /\ Q.db = D.db /\ Q.reps = D.reps /\ Q.id = new
          /\ \A j \in Ids : Q.retired[j] = IF j = i THEN n ELSE D.retired[j]
          /\ \A j \in Ids : Q.utd[j] = IF j = i /\ D.utd[i] <= n THEN n ELSE D.utd[j]
      BY <3>1, RetireOK, SMT
    <3>3. E = Q
      BY <3>1
    <3> HIDE DEF Q
    <3> QED BY ONLY <3>2, <3>3 DEF i
  <2> HIDE DEF E
  <2>2. /\ live'[s] = E /\ disk'[s] = E
        /\ \A t \in Servers : t # s => live'[t] = live[t] /\ disk'[t] = disk[t]
    BY <1>2, <1>11
  <2>3. WorldStep(V, W)
    <3>1. /\ W.live[s] = E /\ W.disk[s] = E
          /\ \A t \in Servers : t # s => W.live[t] = V.live[t] /\ W.disk[t] = V.disk[t]
      BY <2>2, WorldIs, WorldIsNext
    <3> HIDE DEF V, W, D, n, new
    <3>2. \A i \in Ids : \/ W.live[s].retired[i] = V.live[s].retired[i]
                         \/ i \in Mine(V, s) /\ Below(V, s, W.live[s].retired[i])
      BY <1>4, <1>9, <2>1, <3>1
    <3>3. W.live[s].db = V.live[s].db /\ W.disk[s] = W.live[s] /\ W.live[s].id = V.ids + 1
      BY <1>5, <1>9, <2>1, <3>1
    <3> QED BY <1>2, <1>5, <1>6, <1>7, <3>1, <3>2, <3>3, NewIdStep
  <2>4. StoreOK(V, E)
    <3> DEFINE X == UpToDateVec_Read(s, n)
    <3>1. X \in Vectors /\ \A i \in Ids : X[i] = IF i = curId[s] THEN n ELSE D.utd[i]
      BY <1>2, <1>4, UpToDateVecReadOK
    <3>2. V.kept \subseteq Objs /\ {} \subseteq Entries /\ D.utd \in Vectors /\ E.utd \in Vectors
      BY <1>2, <2>1, DbFields DEF WorldType
    <3>3. ClaimOK(V, D.utd, D, {})
      BY <1>8 DEF StoreOK
    <3> HIDE DEF V, D, n, X
    <3>4. \A o \in V.kept, a \in Attrs : Covers(D, {}, o, a, V.live[s].db[o][a])
      BY <1>2, <1>9, <3>2, CoversNone
    <3>5. ClaimOK(V, X, D, {})
      BY <1>2, <1>4, <1>9, <3>1, <3>2, <3>3, <3>4, OwnClaim
    <3>6. \A i \in Ids : E.utd[i] = D.utd[i] \/ E.utd[i] = X[i]
      BY <2>1, <3>1
    <3>7. ClaimOK(V, E.utd, D, {})
      BY <1>2, <3>1, <3>2, <3>3, <3>5, <3>6, ClaimUnion
    <3>8. \A t \in Servers : MarkOK(V, t, E.reps[t].vec, D, {})
      BY <1>8, <2>1 DEF StoreOK
    <3>9. \A o, a, x : Covers(D, {}, o, a, x) <=> Covers(E, {}, o, a, x)
      BY <2>1 DEF Covers
    <3>10. ClaimOK(V, E.utd, E, {})
      BY <3>7, <3>9 DEF ClaimOK
    <3>11. \A t \in Servers : MarkOK(V, t, E.reps[t].vec, E, {})
      BY <3>8, <3>9 DEF MarkOK
    <3> QED BY <3>10, <3>11 DEF StoreOK
  <2>5. StoreOK(W, E)
    BY <2>1, <2>3, <2>4, KeptSound
  <2>6. CycleOK(W, E, cyc[s], rpc[s])
    <3>1. W.kept \subseteq Objs
      BY <1>2 DEF WorldType
    <3> HIDE DEF V, W, D
    <3>2. Grows(W.kept, D, E)
      BY <1>2, <2>1, <3>1, SameGrows
    <3> QED BY <1>2, <1>8, <2>1, <2>3, <3>2, CycleStep
  <2>7. CycleOK(World', live'[s], cyc'[s], rpc'[s]) /\ StoreOK(World', live'[s]) /\ StoreOK(World', disk'[s])
    BY <1>1, <2>2, <2>5, <2>6
  <2>8. \A t \in Servers : t # s => /\ live'[t] = live[t] /\ disk'[t] = disk[t]
                                    /\ cyc'[t] = cyc[t] /\ rpc'[t] = rpc[t]
    BY <1>1, <2>2
  <2>9. WorldStep(World, World')
    BY <1>1, <2>3
  <2> QED BY <2>7, <2>8, <2>9, OneServer
<1> QED BY <1>1, <1>10, <1>11

LEMMA InitLoss == Init => LossInv
<1> SUFFICES ASSUME Init PROVE LossInv
  OBVIOUS
<1> DEFINE W == World
<1>1. TypeInv /\ ShapeInv
  BY InitType, InitShape
<1>2. WorldType(W)
  BY <1>1, WorldTyped
<1>3. /\ disk = live /\ count.ids = N
      /\ \A s \in Servers : /\ live[s].utd = NoVec /\ live[s].id = s /\ live[s].retired = NoVec
                            /\ \A t \in Servers : live[s].reps[t].vec = Scratch
                            /\ \A o \in Objs, a \in Attrs : live[s].db[o][a] = None
                            /\ curId[s] = s /\ pending[s] = {} /\ cyc[s] = Idle /\ rpc[s] = NoCall
  BY DEF Init
<1>4. W.packets = {}
  BY <1>3, NoCallIs, WorldIs DEF Packets
<1>5. /\ W.ids = N /\ W.kept \subseteq Objs
      /\ \A s \in Servers : /\ W.live[s] = live[s] /\ W.disk[s] = live[s] /\ Mine(W, s) = {s} /\ W.open[s] = {}
                            /\ Dbs(W, s) = {live[s]}
  BY <1>3, WorldIs DEF Mine, Dbs
<1>6. ASSUME NEW o \in W.kept, NEW a \in Attrs
      PROVE  \A x \in Held(W, o, a) : x = None
  <2>1. InPackets(W, o, a) = {}
    BY <1>4 DEF InPackets
  <2> QED BY <1>3, <1>5, <2>1 DEF Held
<1>7. \A i \in Ids : NoVec[i] = 0
  BY DEF NoVec
<1>8. \A s \in Servers : Below(W, s, 0) /\ s \in Nat /\ s <= N
  <2>1. \A s \in Servers : Below(W, s, 0)
    BY <1>2, FreeIs DEF Below
  <2> QED BY <2>1, ServersAssumption DEF Servers
<1> HIDE DEF W
<1>9. IdsOK(W)
  <2>1. ASSUME NEW s \in Servers
        PROVE  /\ W.live[s].id = W.disk[s].id /\ W.live[s].retired = W.disk[s].retired
               /\ \A i \in Mine(W, s) : i <= W.ids
               /\ \A x \in W.open[s] : x.id <= W.ids
               /\ \A i \in Ids : /\ i > W.ids => W.live[s].retired[i] = 0
                                 /\ Below(W, s, W.live[s].retired[i])
    BY <1>3, <1>5, <1>7, <1>8
  <2>2. \A o \in W.kept, a \in Attrs : \A x \in Held(W, o, a) : x.id <= W.ids
    BY <1>5, <1>6, ServersAssumption DEF None, NoId
  <2>3. ASSUME NEW s \in Servers, NEW t \in Servers, s # t
        PROVE  /\ Mine(W, s) \cap Mine(W, t) = {}
               /\ \A i \in Mine(W, s) : W.live[t].retired[i] = 0
               /\ \A x \in W.open[s] : x.id \notin Mine(W, t)
    <3>1. s \in Ids
      BY ServersAssumption DEF Servers, Ids
    <3> QED BY <1>3, <1>5, <1>7, <2>3, <3>1
  <2> QED BY <2>1, <2>2, <2>3 DEF IdsOK
<1>10. WorldOK(W)
  <2>1. ASSUME NEW s \in Servers, NEW o \in W.kept, NEW a \in Attrs
        PROVE  /\ Covers(W.live[s], {}, o, a, W.disk[s].db[o][a])
               /\ \A x \in Outside(W, s, o, a) : x.id \in Mine(W, s) => Covers(W.disk[s], {}, o, a, x)
    <3>1. W.live[s] \in Databases /\ W.disk[s] \in Databases /\ o \in Objs
      BY <1>2, <1>5 DEF WorldType
    <3>2. W.disk[s].db[o][a] = None /\ \A x \in Outside(W, s, o, a) : x = None
      BY <1>2, <1>3, <1>5, <1>6, <3>1, HeldType
    <3> QED BY <3>1, <3>2, CoversNone
  <2> QED BY <1>9, <2>1 DEF WorldOK
<1>11. ASSUME NEW s \in Servers
       PROVE  StoreOK(W, live[s]) /\ StoreOK(W, disk[s]) /\ CycleOK(W, live[s], cyc[s], rpc[s])
  <2>1. live[s] \in Databases
    BY <1>1 DEF TypeInv, StoreType
  <2>2. StoreOK(W, live[s])
    BY <1>2, <1>3, <2>1, NoClaim DEF StoreOK
  <2> QED BY <1>3, <2>2, CycleIs, NoCallIs
<1> QED BY <1>3, <1>10, <1>11 DEF LossInv, W

\* One step of the system, unless it restores a server from a backup.
LEMMA StepLoss ==
  Before /\ After /\ [Next]_vars /\ [\A s \in Servers : ~Restore(s)]_vars => LossInv'
<1> SUFFICES ASSUME Before, After, [Next]_vars, [\A s \in Servers : ~Restore(s)]_vars
             PROVE  LossInv'
  OBVIOUS
<1>1. CASE UNCHANGED vars
  <2>1. UNCHANGED <<live, disk, curId, usn, pending, cyc, rpc, expired, count>>
    BY <1>1 DEF vars
  <2>2. World' = World
    BY <2>1 DEF World, Packets, Free
  <2> QED BY <2>1, <2>2 DEF Before, LossInv
<1>2. ASSUME NEW s \in Servers, NEW o \in Objs, NEW a \in Attrs, OriginatingWrite(s, o, a)
      PROVE  LossInv'
  BY <1>2, OriginatingWriteLoss
<1>3. ASSUME NEW s \in Servers, NEW o \in Leaves, Expire(s, o)
      PROVE  LossInv'
  BY <1>3, ExpireLoss
<1>4. ASSUME NEW s \in Servers,
             \/ CommitWrite(s) \/ RollbackWrite(s) \/ Flush(s)
             \/ Crash(s) \/ Backup(s) \/ DraHostWriteableNc(s)
      PROVE  LossInv'
  BY <1>4, CommitWriteLoss, RollbackWriteLoss, FlushLoss, CrashLoss, DraHostWriteableNcLoss
<1>5. ASSUME NEW d \in Servers, NEW s \in Servers, StartSync(d, s)
      PROVE  LossInv'
  BY <1>5, StartSyncLoss
<1>6. ASSUME NEW d \in Servers,
             \/ GetNCChangesMark(d) \/ DRA_GetNCChanges(d)
             \/ ReceivePacket(d) \/ UpdateNC(d) \/ PacketDone(d) \/ CycleDone(d)
             \/ Preempt(d) \/ CallFails(d) \/ CallFailed(d) \/ Labort(d)
      PROVE  LossInv'
  BY <1>6, GetNCChangesMarkLoss, DRA_GetNCChangesLoss, ReceivePacketLoss, UpdateNCLoss, PacketDoneLoss,
     CycleDoneLoss, LeavingLoss, CallFailsLoss, LabortLoss
<1>7. ASSUME NEW s \in Servers, Restore(s)
      PROVE  LossInv'
  BY <1>1, <1>7
<1> QED BY <1>1, <1>2, <1>3, <1>4, <1>5, <1>6, <1>7 DEF Next

\* What the inductive invariant says of the vectors and of the next cycles.
LEMMA LossInvEnough == Before => NothingLost
<1> SUFFICES ASSUME Before PROVE UTDSound /\ SkippedIsThere
  BY DEF NothingLost
<1>1. TypeInv /\ ShapeInv /\ IdsOK(World) /\ WorldType(World) /\ World.kept = Objs \ expired
  BY WorldTyped, WorldIs DEF Before, LossInv, WorldOK
<1>2. UTDSound
  <2> SUFFICES ASSUME NEW d \in Servers, NEW t \in Servers, NEW o \in Objs \ expired, NEW a \in Attrs,
                      live[t].db[o][a] # None, live[t].db[o][a].ousn <= Claim(d, live[t].db[o][a].id)
               PROVE  Has(live[d], o, a, live[t].db[o][a])
    BY DEF UTDSound
  <2> DEFINE x == live[t].db[o][a]
             U == UpToDateVec_Read(d, DBGetHighestCommittedUSN(d))
  <2>1. World.live[t] = live[t] /\ live[t] \in Dbs(World, t)
    BY WorldIs DEF Dbs
  <2>2. x \in Held(World, o, a) /\ x \in Stamps /\ Real(x)
    BY <1>1, <2>1, HeldType
  <2>3. x.id \in Ids /\ x.id # NoId
    BY <2>2, StampFields DEF Real
  <2>4. ClaimOK(World, U, live[d], {}) /\ U[x.id] = Claim(d, x.id)
    BY <2>3, ReadClaim DEF Claim
  <2> HIDE DEF U
  <2>5. Covers(live[d], {}, o, a, x)
    BY <1>1, <2>2, <2>3, <2>4 DEF ClaimOK
  <2> QED BY <2>5 DEF Covers, Has
<1>3. SkippedIsThere
  <2>1. ASSUME NEW link \in Links
        PROVE  LET d    == link[1]
                   s    == link[2]
                   from == DraImproveCallersUsnVector(s, UpToDateVec_Read(d, DBGetHighestCommittedUSN(d)),
                                                      live[d].reps[s].id, live[d].reps[s].vec)
               IN  \A o \in Objs \ expired, a \in Attrs :
                     (live[s].db[o][a].usn <= from.prop \/ usnChanged(live[s], o) <= from.obj)
                       => Has(live[d], o, a, live[s].db[o][a])
    <3> DEFINE d == link[1]
               s == link[2]
               U == UpToDateVec_Read(d, DBGetHighestCommittedUSN(d))
               id == live[d].reps[s].id
               vec == live[d].reps[s].vec
               from == DraImproveCallersUsnVector(s, U, id, vec)
    <3>1. d \in Servers /\ s \in Servers
      BY LinksAssumption
    <3> HIDE DEF d, s
    <3>2. live[d] \in Databases
      BY <1>1, <3>1 DEF TypeInv, StoreType
    <3>3. id \in Ids \cup {NoId} /\ vec \in USNVectors
      BY <3>1, <3>2, DbFields
    <3>4. U \in Vectors /\ ClaimOK(World, U, live[d], {})
      BY <3>1, ReadClaim
    <3>5. MarkOK(World, s, vec, live[d], {})
      BY <3>1 DEF Before, LossInv, StoreOK
    <3> HIDE DEF U, id, vec
    <3>6. MarkOK(World, s, from, live[d], {})
      BY <1>1, <3>1, <3>3, <3>4, <3>5, ImproveMark
    <3> HIDE DEF from
    <3>7. live[s] \in Dbs(World, s)
      BY WorldIs DEF Dbs
    <3>8. ASSUME NEW o \in Objs \ expired, NEW a \in Attrs,
                 live[s].db[o][a].usn <= from.prop \/ usnChanged(live[s], o) <= from.obj
          PROVE  Has(live[d], o, a, live[s].db[o][a])
      <4>1. Covers(live[d], {}, o, a, live[s].db[o][a])
        BY <1>1, <3>6, <3>7, <3>8 DEF MarkOK
      <4> QED BY <4>1 DEF Covers, Has
    <3> QED BY <3>8, Zenon DEF d, s, U, id, vec, from
  <2> QED BY <2>1, Zenon DEF SkippedIsThere
<1> QED BY <1>2, <1>3

\* As long as no server is put back from a backup, no write is lost for a replica:
\* what a server claims to have, by its up-to-dateness vector or for its own id by
\* the highest committed USN, it has, and a cycle that starts from the watermark it
\* stored skips nothing it lacks.  Packets cut anywhere, prefetched and thrown away,
\* asked for again with all attributes or with ancestors, crashes that undo lazy
\* commits on either side, writes of clients that commit out of order and changes of
\* the invocation id do not matter, for any number of servers and any topology.
THEOREM NothingIsLost ==
  Spec /\ [][\A s \in Servers : ~Restore(s)]_vars => []NothingLost
<1>1. Init => Before
  BY InitType, InitShape, InitLoss DEF Before
<1>2. Before /\ [Next]_vars /\ [\A s \in Servers : ~Restore(s)]_vars => Before'
  BY StepType, StepShape, StepLoss DEF Before, After
<1>3. Before => NothingLost
  BY LossInvEnough
<1> QED BY <1>1, <1>2, <1>3, PTL DEF Spec

-----------------------------------------------------------------------------
(* Objects stay where they were put: the inductive invariant of            *)
(* ParentPresent.                                                          *)

\* No name was replaced by one under LostAndFound.
InPlace(D)       == \A o \in Objs : ~D.db[o]["rdn"].lf
AllInPlace(objs) == \A e \in objs : "rdn" \in DOMAIN e.md => ~e.md["rdn"].lf

\* The packet brings f before e.
Ahead(f, e) == \/ f.place.with < e.place.with
               \/ f.place.with = e.place.with /\ f.place.depth < e.place.depth

\* Whatever the packet creates or moves, its parent is there or comes earlier.
Led(D, objs) ==
  \A e \in objs : "rdn" \in DOMAIN e.md =>
    \/ Exists(D, ParentOf(e.obj, e.md["rdn"]))
    \/ \E f \in objs : /\ f.obj = ParentOf(e.obj, e.md["rdn"])
                       /\ "rdn" \in DOMAIN f.md /\ Ahead(f, e)

NamesOK ==
  \A s \in Servers : /\ InPlace(live[s]) /\ InPlace(disk[s])
                     /\ \A w \in pending[s] : w.attr = "rdn" => ~w.stamp.lf

\* A packet asked for with ancestors leads with the parents.
LedOK(D, c, r) ==
  /\ AllInPlace(c.pkt.objs) /\ AllInPlace(r.reply.objs)
  /\ c.pc = "apply" /\ c.req.anc => Led(D, c.pkt.objs)
  /\ r.st = "reply" /\ r.req.anc => Led(D, r.reply.objs)

PacketsOK == \A d \in Servers : LedOK(live[d], cyc[d], rpc[d])

ParentInv == expired = {} => NamesOK /\ PacketsOK

\* No object disappears.
Keeps(D, E) == \A o \in Objs : Exists(D, o) => Exists(E, o)

LEMMA LedMore ==
  ASSUME NEW D, NEW E, NEW objs, objs \subseteq Entries, Keeps(D, E), Led(D, objs)
  PROVE  Led(E, objs)
<1> SUFFICES ASSUME NEW e \in objs, "rdn" \in DOMAIN e.md,
                    ~Exists(E, ParentOf(e.obj, e.md["rdn"]))
             PROVE  \E f \in objs : /\ f.obj = ParentOf(e.obj, e.md["rdn"])
                                    /\ "rdn" \in DOMAIN f.md /\ Ahead(f, e)
  BY DEF Led
<1>1. ParentOf(e.obj, e.md["rdn"]) \in Objs
  BY EntryFields, ParentOfType
<1> QED BY <1>1 DEF Led, Keeps

LEMMA LedOKMore ==
  ASSUME NEW D, NEW E, NEW c \in Cycles, NEW r \in Calls, Keeps(D, E), LedOK(D, c, r)
  PROVE  LedOK(E, c, r)
<1>1. c.pkt.objs \subseteq Entries /\ r.reply.objs \subseteq Entries
  BY CycleFields, CallFields, ReplyFields
<1> QED BY <1>1, LedMore DEF LedOK

LEMMA NothingLed ==
  /\ AllInPlace({}) /\ \A D : Led(D, {})
  /\ NoReply.objs = {} /\ NoCall.reply = NoReply /\ NoCall.st = "none"
BY DEF AllInPlace, Led, NoReply, NoCall

\* Only server d changes its cycle.
LEMMA PacketsSet ==
  ASSUME TypeInv, PacketsOK, NEW d \in Servers, NEW c, NEW r, LedOK(live'[d], c, r),
         cyc' = [cyc EXCEPT ![d] = c], rpc' = [rpc EXCEPT ![d] = r],
         \A s \in Servers : Keeps(live[s], live'[s])
  PROVE  PacketsOK'
<1>1. cyc'[d] = c /\ rpc'[d] = r
  BY DEF TypeInv, CommType
<1>2. \A s \in Servers : s # d => cyc'[s] = cyc[s] /\ rpc'[s] = rpc[s]
  BY DEF TypeInv, CommType
<1>3. ASSUME NEW s \in Servers, s # d
      PROVE  LedOK(live'[s], cyc[s], rpc[s])
  <2>1. cyc[s] \in Cycles /\ rpc[s] \in Calls /\ LedOK(live[s], cyc[s], rpc[s])
    BY DEF TypeInv, CommType, PacketsOK
  <2> QED BY <2>1, LedOKMore
<1> QED BY <1>1, <1>2, <1>3 DEF PacketsOK

\* No server changes its cycle.
LEMMA PacketsSame ==
  ASSUME TypeInv, PacketsOK, UNCHANGED <<cyc, rpc>>, \A s \in Servers : Keeps(live[s], live'[s])
  PROVE  PacketsOK'
<1> SUFFICES ASSUME NEW s \in Servers PROVE LedOK(live'[s], cyc[s], rpc[s])
  BY DEF PacketsOK
<1>1. cyc[s] \in Cycles /\ rpc[s] \in Calls /\ LedOK(live[s], cyc[s], rpc[s])
  BY DEF TypeInv, CommType, PacketsOK
<1> QED BY <1>1, LedOKMore

\* One database changes its names.
LEMMA NamesSet ==
  ASSUME TypeInv, NamesOK, NEW s \in Servers, NEW D, InPlace(D),
         live' = [live EXCEPT ![s] = D], disk' \in {disk, [disk EXCEPT ![s] = D]},
         \A t \in Servers : pending'[t] \subseteq pending[t]
  PROVE  NamesOK'
<1>1. live'[s] = D /\ \A t \in Servers : t # s => live'[t] = live[t]
  BY DEF TypeInv, StoreType
<1>2. \A t \in Servers : disk'[t] \in {disk[t], live'[t]}
  BY <1>1 DEF TypeInv, StoreType
<1> QED BY <1>1, <1>2 DEF NamesOK

LEMMA NamesSame == NamesOK /\ UNCHANGED <<live, disk, pending>> => NamesOK'
BY DEF NamesOK

LEMMA KeepsSame == \A D, E : E.db = D.db => Keeps(D, E) /\ (InPlace(D) => InPlace(E))
BY DEF Keeps, Exists, InPlace

\* One database changes and keeps its objects.
LEMMA KeepsSet ==
  ASSUME TypeInv, NEW s \in Servers, NEW D, Keeps(live[s], D), live' = [live EXCEPT ![s] = D]
  PROVE  \A t \in Servers : Keeps(live[t], live'[t])
<1>1. live'[s] = D /\ \A t \in Servers : t # s => live'[t] = live[t]
  BY DEF TypeInv, StoreType
<1>2. \A t \in Servers : Keeps(live[t], live[t])
  BY DEF Keeps
<1> QED BY <1>1, <1>2

LEMMA KeepsAll == live' = live => \A t \in Servers : Keeps(live[t], live'[t])
BY DEF Keeps

\* A durable commit that leaves the objects alone.
LEMMA DurableNames ==
  ASSUME TypeInv, NamesOK, NEW s \in Servers, NEW D, D.db = live[s].db, DurableCommit(s, D),
         UNCHANGED pending
  PROVE  NamesOK' /\ \A t \in Servers : Keeps(live[t], live'[t])
<1>1. Keeps(live[s], D) /\ InPlace(D)
  BY KeepsSame DEF NamesOK
<1>2. NamesOK'
  BY <1>1, NamesSet DEF DurableCommit
<1> QED BY <1>1, <1>2, KeepsSet DEF DurableCommit

LEMMA NextPacketLed ==
  ASSUME TypeInv, PacketsOK, NEW d \in Servers, NEW c \in Cycles, NextPacket(d, c),
         \A s \in Servers : Keeps(live[s], live'[s])
  PROVE  PacketsOK'
<1> DEFINE c2 == [c EXCEPT !.pc = "wait", !.pkt = NoReply]
           r2 == IF rpc[d].st # "none" /\ rpc[d].req = c.req THEN rpc[d] ELSE Sent(c.req)
<1>1. cyc' = [cyc EXCEPT ![d] = c2] /\ rpc' = [rpc EXCEPT ![d] = r2] /\ rpc[d] \in Calls /\ cyc[d] \in Cycles
  BY DEF NextPacket, TypeInv, CommType
<1>2. c2.pc = "wait" /\ c2.pkt = NoReply
  BY DEF Cycles
<1>3. LedOK(live'[d], cyc[d], rpc[d])
  BY <1>1, LedOKMore DEF PacketsOK
<1>4. r2 = rpc[d] \/ (r2.st = "sent" /\ r2.reply = NoReply)
  BY SentType, CycleFields
<1> HIDE DEF c2, r2
<1>5. LedOK(live'[d], c2, r2)
  BY <1>2, <1>3, <1>4, NothingLed DEF LedOK
<1> QED BY <1>1, <1>5, PacketsSet

LEMMA LeaveLed ==
  ASSUME TypeInv, PacketsOK, NEW d \in Servers, NEW c \in Cycles, Leave(d, c),
         \A s \in Servers : Keeps(live[s], live'[s])
  PROVE  PacketsOK'
<1> DEFINE c2 == [c EXCEPT !.pc = "labort", !.pkt = NoReply]
<1>1. cyc' = [cyc EXCEPT ![d] = c2] /\ rpc' = [rpc EXCEPT ![d] = NoCall]
  BY DEF Leave
<1>2. c2.pc = "labort" /\ c2.pkt = NoReply
  BY DEF Cycles
<1> HIDE DEF c2
<1>3. LedOK(live'[d], c2, NoCall)
  BY <1>2, NothingLed DEF LedOK
<1> QED BY <1>1, <1>3, PacketsSet

LEMMA OriginatingWriteLed ==
  ASSUME TypeInv, NamesOK, PacketsOK, NEW s \in Servers, NEW o \in Objs, NEW a \in Attrs,
         OriginatingWrite(s, o, a)
  PROVE  NamesOK' /\ PacketsOK'
<1> DEFINE x == [ver |-> live[s].db[o][a].ver + 1, id |-> curId[s],
                 ousn |-> usn[s], lf |-> live[s].db[o][a].lf, usn |-> usn[s]]
           w == [obj |-> o, attr |-> a, stamp |-> x]
<1>1. pending' = [pending EXCEPT ![s] = @ \cup {w}] /\ UNCHANGED <<live, disk, cyc, rpc>>
  BY DEF OriginatingWrite
<1>2. w.attr = "rdn" => ~w.stamp.lf
  BY DEF NamesOK, InPlace
<1> HIDE DEF w
<1>3. \A t \in Servers : pending'[t] \subseteq pending[t] \cup {w}
  BY <1>1 DEF TypeInv, StoreType
<1>4. NamesOK'
  BY <1>1, <1>2, <1>3 DEF NamesOK
<1> QED BY <1>1, <1>4, PacketsSame, KeepsAll

LEMMA CommitWriteLed ==
  ASSUME TypeInv, ShapeInv, NamesOK, PacketsOK, NEW s \in Servers, CommitWrite(s) \/ RollbackWrite(s)
  PROVE  NamesOK' /\ PacketsOK'
<1>1. CASE CommitWrite(s)
  <2>1. PICK w \in pending[s] :
          /\ LazyCommit(s, [live[s] EXCEPT !.db[w.obj][w.attr] = w.stamp])
          /\ pending' = [pending EXCEPT ![s] = @ \ {w}]
          /\ UNCHANGED <<image, curId, usn, cyc, rpc, born, expired, count>>
    BY <1>1 DEF CommitWrite
  <2>2. w \in Writes /\ live[s] \in Databases
    BY DEF TypeInv, StoreType
  <2>3. w.obj \in Objs /\ w.attr \in Attrs /\ w.stamp \in Stamps
    BY <2>2 DEF Writes
  <2> DEFINE E == Written(live[s], w.obj, w.attr, w.stamp)
  <2>4. DbOK(live[s]) /\ WriteOK(live[s], w)
    BY DEF ShapeInv, DbsOK, OpenOK
  <2>5. Keeps(live[s], E)
    BY <2>2, <2>4, WriteDbOK DEF Keeps
  <2>6. live' = [live EXCEPT ![s] = E] /\ disk' = disk
    BY <2>1 DEF LazyCommit, Written
  <2>7. InPlace(E)
    <3>1. E.db = [live[s].db EXCEPT ![w.obj][w.attr] = w.stamp]
      BY <2>2 DEF Written, Databases
    <3>2. live[s].db \in [Objs -> [Attrs -> Stamps]]
      BY <2>2, DbFields
    <3>3. \A o \in Objs : E.db[o]["rdn"] \in {live[s].db[o]["rdn"]} \cup
                             (IF w.attr = "rdn" THEN {w.stamp} ELSE {})
      BY <2>3, <3>1, <3>2 DEF Attrs
    <3>4. \A o \in Objs : ~live[s].db[o]["rdn"].lf
      BY DEF NamesOK, InPlace
    <3>5. w.attr = "rdn" => ~w.stamp.lf
      BY DEF NamesOK
    <3> HIDE DEF E
    <3> QED BY <3>3, <3>4, <3>5 DEF InPlace
  <2> HIDE DEF E
  <2>8. \A t \in Servers : pending'[t] \subseteq pending[t]
    BY <2>1 DEF TypeInv, StoreType
  <2> QED BY <2>1, <2>5, <2>6, <2>7, <2>8, NamesSet, KeepsSet, PacketsSame
<1>2. CASE RollbackWrite(s)
  <2>1. PICK w \in pending[s] :
          /\ pending' = [pending EXCEPT ![s] = @ \ {w}]
          /\ UNCHANGED <<live, disk, image, curId, usn, cyc, rpc, born, expired, count>>
    BY <1>2 DEF RollbackWrite
  <2>2. \A t \in Servers : pending'[t] \subseteq pending[t]
    BY <2>1 DEF TypeInv, StoreType
  <2>3. NamesOK'
    BY <2>1, <2>2 DEF NamesOK
  <2> QED BY <2>1, <2>3, PacketsSame, KeepsAll
<1> QED BY <1>1, <1>2

\* Steps that leave the objects of every server as they are, and the packets.
LEMMA QuietLed ==
  ASSUME TypeInv, NamesOK, PacketsOK, NEW s \in Servers,
         Flush(s) \/ Backup(s) \/ DraHostWriteableNc(s)
  PROVE  NamesOK' /\ PacketsOK'
<1>1. CASE Flush(s)
  <2>1. disk' = [disk EXCEPT ![s] = live[s]] /\ UNCHANGED <<live, pending, cyc, rpc>>
    BY <1>1 DEF Flush
  <2>2. \A t \in Servers : disk'[t] \in {disk[t], live[t]}
    BY <2>1 DEF TypeInv, StoreType
  <2>3. NamesOK'
    BY <2>1, <2>2 DEF NamesOK
  <2> QED BY <2>1, <2>3, PacketsSame, KeepsAll
<1>2. CASE Backup(s)
  <2>1. DurableCommit(s, live[s]) /\ UNCHANGED <<pending, cyc, rpc>>
    BY <1>2 DEF Backup
  <2> QED BY <2>1, DurableNames, PacketsSame
<1>3. CASE DraHostWriteableNc(s)
  <2> DEFINE E == draRetireInvocationID(live[s], curId[s], DBGetHighestCommittedUSN(s), count.ids + 1)
  <2>1. /\ count.ids < MaxIds /\ Used("ids") /\ (DurableCommit(s, E) \/ UNCHANGED <<live, disk>>)
        /\ UNCHANGED <<pending, cyc, rpc>>
    BY <1>3 DEF DraHostWriteableNc
  <2>2. count.ids + 1 \in Ids
    BY <2>1, NewId DEF TypeInv
  <2>3. live[s] \in Databases /\ curId[s] \in Ids
    BY DEF TypeInv, StoreType
  <2>4. DBGetHighestCommittedUSN(s) \in Nat
    BY HighestCommittedOK
  <2>5. E.db = live[s].db
    BY <2>2, <2>3, <2>4, RetireDb
  <2> HIDE DEF E
  <2> QED BY <2>1, <2>5, DurableNames, NamesSame, PacketsSame, KeepsAll
<1> QED BY <1>1, <1>2, <1>3

\* A server that goes down loses the packets of its own cycle.
LEMMA CrashLed ==
  ASSUME TypeInv, NamesOK, PacketsOK, NEW s \in Servers, Crash(s)
  PROVE  NamesOK' /\ PacketsOK'
<1>1. live' = [live EXCEPT ![s] = disk[s]] /\ Down(s) /\ disk' = disk
  BY DEF Crash
<1>2. \A t \in Servers : pending'[t] \subseteq pending[t]
  BY <1>1 DEF Down, TypeInv, StoreType
<1>3. InPlace(disk[s])
  BY DEF NamesOK
<1>4. NamesOK'
  BY <1>1, <1>2, <1>3, NamesSet
<1> DEFINE Gone(d) == [rpc[d] EXCEPT !.st = "failed"]
<1>5. /\ \A d \in Servers : d # s => cyc'[d] = cyc[d] /\ live'[d] = live[d]
      /\ cyc'[s] = Idle /\ rpc'[s] = NoCall
      /\ \A d \in Servers : d # s => rpc'[d] = IF cyc[d].src = s /\ rpc[d].st \in {"sent", "marked"}
                                               THEN Gone(d) ELSE rpc[d]
  BY <1>1 DEF Down, TypeInv, StoreType, CommType
<1>6. \A D : LedOK(D, Idle, NoCall)
  <2>1. Idle.pc = "idle" /\ Idle.pkt = NoReply
    BY DEF Idle
  <2> QED BY <2>1, NothingLed DEF LedOK
<1>7. ASSUME NEW d \in Servers
      PROVE  LedOK(live[d], cyc[d], Gone(d))
  <2>1. LedOK(live[d], cyc[d], rpc[d]) /\ rpc[d] \in Calls
    BY DEF PacketsOK, TypeInv, CommType
  <2>2. Gone(d).st = "failed" /\ Gone(d).reply = rpc[d].reply
    BY <2>1 DEF Calls
  <2> HIDE DEF Gone
  <2> QED BY <2>1, <2>2 DEF LedOK
<1> HIDE DEF Gone
<1>8. \A d \in Servers : d # s => LedOK(live'[d], cyc'[d], rpc'[d])
  BY <1>5, <1>7 DEF PacketsOK
<1>9. PacketsOK'
  BY <1>5, <1>6, <1>8 DEF PacketsOK
<1> QED BY <1>4, <1>9

\* Steps of the destination that apply nothing.
LEMMA StartSyncLed ==
  ASSUME TypeInv, NamesOK, PacketsOK, NEW d \in Servers, NEW s \in Servers, StartSync(d, s)
  PROVE  NamesOK' /\ PacketsOK'
<1> DEFINE reps == live[d].reps[s]
           req  == Request(reps.vec, reps.id, FALSE, FALSE)
           V    == UpToDateVec_Read(d, DBGetHighestCommittedUSN(d))
           c    == [Idle EXCEPT !.pc = "wait", !.src = s, !.req = req, !.utd = V]
<1>1. /\ cyc' = [cyc EXCEPT ![d] = c] /\ rpc' = [rpc EXCEPT ![d] = Sent(req)]
      /\ UNCHANGED <<live, disk, pending>>
  BY DEF StartSync
<1>2. reps \in [id : Ids \cup {NoId}, vec : USNVectors]
  BY DbFields DEF TypeInv, StoreType
<1>3. req \in Requests
  BY <1>2, RequestType
<1> HIDE DEF req, V
<1>4. c.pc = "wait" /\ c.pkt = NoReply
  BY DEF Idle
<1>5. Sent(req).st = "sent" /\ Sent(req).reply = NoReply
  BY <1>3, SentType
<1> HIDE DEF c
<1>6. LedOK(live'[d], c, Sent(req))
  BY <1>4, <1>5, NothingLed DEF LedOK
<1> QED BY <1>1, <1>6, PacketsSet, KeepsAll, NamesSame

LEMMA MarkLed ==
  ASSUME TypeInv, NamesOK, PacketsOK, NEW d \in Servers, GetNCChangesMark(d) \/ CallFails(d)
  PROVE  NamesOK' /\ PacketsOK'
<1>1. UNCHANGED <<live, disk, pending, cyc>> /\ rpc[d].st \in {"sent", "marked"}
  BY DEF GetNCChangesMark, CallFails
<1>2. rpc[d] \in Calls /\ rpc \in [Servers -> Calls]
  BY DEF TypeInv, CommType
<1>3. PICK r : /\ rpc' = [rpc EXCEPT ![d] = r] /\ r.reply = rpc[d].reply /\ r.st # "reply"
  <2>1. CASE GetNCChangesMark(d)
    <3> DEFINE f == RequestedFrom(cyc[d].src, cyc[d].utd, rpc[d].req)
               u == 1 + DBGetHighestCommittedUSN(cyc[d].src)
               r == [rpc[d] EXCEPT !.st = "marked", !.from = f, !.usnLowestC = u]
    <3>1. rpc' = [rpc EXCEPT ![d].st = "marked", ![d].from = f, ![d].usnLowestC = u]
      BY <2>1 DEF GetNCChangesMark
    <3> HIDE DEF f, u
    <3>2. rpc' = [rpc EXCEPT ![d] = r] /\ r.reply = rpc[d].reply /\ r.st = "marked"
      BY <3>1, <1>2 DEF Calls
    <3> HIDE DEF r
    <3> QED BY <3>2
  <2>2. CASE CallFails(d)
    <3> DEFINE r == [rpc[d] EXCEPT !.st = "failed"]
    <3>1. rpc' = [rpc EXCEPT ![d] = r] /\ r.reply = rpc[d].reply /\ r.st = "failed"
      BY <2>2, <1>2 DEF CallFails, Calls
    <3> HIDE DEF r
    <3> QED BY <3>1
  <2> QED BY <2>1, <2>2
<1>4. LedOK(live'[d], cyc[d], r)
  BY <1>1, <1>3 DEF LedOK, PacketsOK
<1>5. cyc' = [cyc EXCEPT ![d] = cyc[d]]
  BY <1>1 DEF TypeInv, CommType
<1>6. PacketsOK'
  BY <1>1, <1>3, <1>4, <1>5, PacketsSet, KeepsAll
<1> QED BY <1>1, <1>6, NamesSame

LEMMA ReceivePacketLed ==
  ASSUME TypeInv, ShapeInv, NamesOK, PacketsOK, NEW d \in Servers, ReceivePacket(d)
  PROVE  NamesOK' /\ PacketsOK'
<1> DEFINE pkt == rpc[d].reply
           req == Request(pkt.to, pkt.id, FALSE, FALSE)
           c == [cyc[d] EXCEPT !.pc = "apply", !.pkt = pkt]
           r == IF pkt.more THEN Sent(req) ELSE NoCall
<1>1. cyc[d].pc = "wait" /\ rpc[d].st = "reply" /\ UNCHANGED <<live, disk, pending>>
  BY DEF ReceivePacket
<1>2. cyc[d] \in Cycles /\ rpc[d] \in Calls
  BY <1>1, CallTypes
<1>3. cyc' = [cyc EXCEPT ![d] = c] /\ rpc' = [rpc EXCEPT ![d] = r]
  BY <1>2 DEF ReceivePacket, TypeInv, CommType, Cycles
<1>4. pkt \in Replies
  BY <1>2, CallFields
<1>5. req \in Requests
  BY <1>4, ReplyFields, RequestType
<1>6. r.st # "reply" /\ r.reply = NoReply
  BY <1>5, SentType, NothingLed
<1>7. c.pc = "apply" /\ c.pkt = pkt /\ c.req = cyc[d].req /\ rpc[d].req = cyc[d].req
  BY <1>1, <1>2 DEF Cycles, ShapeInv, CommOK, CallOK
<1>8. LedOK(live[d], cyc[d], rpc[d])
  BY DEF PacketsOK
<1> HIDE DEF c, r
<1>9. LedOK(live'[d], c, r)
  BY <1>1, <1>6, <1>7, <1>8, NothingLed DEF LedOK
<1> QED BY <1>1, <1>3, <1>9, PacketsSet, KeepsAll, NamesSame

LEMMA PacketDoneLed ==
  ASSUME TypeInv, NamesOK, PacketsOK, NEW d \in Servers, PacketDone(d)
  PROVE  NamesOK' /\ PacketsOK'
<1> DEFINE c   == cyc[d]
           req == Request(c.pkt.to, c.pkt.id, FALSE, FALSE)
           n   == (c.packets + 1) % PersistEvery
           c2  == [c EXCEPT !.req = req, !.preemptable = TRUE, !.packets = n]
<1>1. /\ c.pc = "apply"
      /\ DurableCommit(d, StoreRepsFrom(live[d], c.src, req)) \/ UNCHANGED <<live, disk>>
      /\ NextPacket(d, c2) /\ UNCHANGED pending
  BY DEF PacketDone
<1>2. c \in Cycles /\ c.src \in Servers /\ live[d] \in Databases /\ c.pkt \in Replies
  BY <1>1, ApplyTypes
<1>3. req \in Requests
  BY <1>2, ReplyFields, RequestType
<1>4. n \in Nat
  BY <1>2, CycleFields, PersistAssumption
<1> HIDE DEF req, n
<1>5. c2 \in Cycles
  BY <1>2, <1>3, <1>4 DEF Cycles
<1> HIDE DEF c2
<1>6. StoreRepsFrom(live[d], c.src, req).db = live[d].db
  BY <1>2, <1>3, StoreRepsFromOK
<1>7. NamesOK' /\ \A s \in Servers : Keeps(live[s], live'[s])
  BY <1>1, <1>6, DurableNames, NamesSame, KeepsAll
<1> QED BY <1>1, <1>5, <1>7, NextPacketLed

LEMMA CycleDoneLed ==
  ASSUME TypeInv, NamesOK, PacketsOK, NEW d \in Servers, CycleDone(d)
  PROVE  NamesOK' /\ PacketsOK'
<1> DEFINE c   == cyc[d]
           req == Request(c.pkt.to, c.pkt.id, FALSE, FALSE)
<1>1. /\ c.pc = "apply" /\ DurableCommit(d, UpToDateVec_Improve(live[d], c.pkt.utd, curId[d]))
      /\ Leave(d, [c EXCEPT !.req = req]) /\ UNCHANGED pending
  BY DEF CycleDone
<1>2. c \in Cycles /\ live[d] \in Databases /\ c.pkt \in Replies
  BY <1>1, ApplyTypes
<1>3. req \in Requests
  BY <1>2, ReplyFields, RequestType
<1> HIDE DEF req
<1>4. [c EXCEPT !.req = req] \in Cycles
  BY <1>2, <1>3 DEF Cycles
<1>5. c.pkt.utd \in Vectors /\ curId[d] \in Ids
  BY <1>2, ReplyFields DEF TypeInv, StoreType
<1>6. UpToDateVec_Improve(live[d], c.pkt.utd, curId[d]).db = live[d].db
  BY <1>2, <1>5, ImproveOK
<1>7. NamesOK' /\ \A s \in Servers : Keeps(live[s], live'[s])
  BY <1>1, <1>6, DurableNames
<1> QED BY <1>1, <1>4, <1>7, LeaveLed

LEMMA LeavingLed ==
  ASSUME TypeInv, NamesOK, PacketsOK, NEW d \in Servers, Preempt(d) \/ CallFailed(d)
  PROVE  NamesOK' /\ PacketsOK'
<1>1. Leave(d, cyc[d]) /\ UNCHANGED <<live, disk, pending>> /\ cyc[d] \in Cycles
  BY DEF Preempt, CallFailed, TypeInv, CommType
<1> QED BY <1>1, LeaveLed, KeepsAll, NamesSame

LEMMA LabortLed ==
  ASSUME TypeInv, NamesOK, PacketsOK, NEW d \in Servers, Labort(d)
  PROVE  NamesOK' /\ PacketsOK'
<1>1. /\ cyc[d].pc = "labort" /\ DurableCommit(d, StoreRepsFrom(live[d], cyc[d].src, cyc[d].req))
      /\ cyc' = [cyc EXCEPT ![d] = Idle] /\ UNCHANGED <<pending, rpc>>
  BY DEF Labort
<1>2. cyc[d] \in Cycles /\ cyc[d].src \in Servers /\ live[d] \in Databases
  BY <1>1 DEF TypeInv, CommType, StoreType
<1>3. rpc[d].st = "none" /\ rpc' = [rpc EXCEPT ![d] = rpc[d]]
  BY <1>1 DEF TypeInv, CommType
<1>4. Idle.pc = "idle" /\ Idle.pkt = NoReply
  BY DEF Idle
<1>5. LedOK(live'[d], Idle, rpc[d])
  BY <1>3, <1>4, NothingLed DEF PacketsOK, LedOK
<1>6. StoreRepsFrom(live[d], cyc[d].src, cyc[d].req).db = live[d].db
  BY <1>2, CycleFields, StoreRepsFromOK
<1>7. NamesOK' /\ \A s \in Servers : Keeps(live[s], live'[s])
  BY <1>1, <1>6, DurableNames
<1> QED BY <1>1, <1>3, <1>5, <1>7, PacketsSet

\* The parent of an object is the last of its ancestors, and an ancestor of all
\* below the object.
LEMMA ParentIsAncestor ==
  ASSUME NEW o \in Leaves, Ancestors[o] # <<>>, NEW p, p = Last(Ancestors[o])
  PROVE  /\ p \in Leaves /\ p \in ToSet(Ancestors[o])
         /\ Len(Ancestors[p]) \in Nat /\ Len(Ancestors[o]) = Len(Ancestors[p]) + 1
         /\ \A v \in Leaves : o \in ToSet(Ancestors[v]) => p \in ToSet(Ancestors[v])
<1> DEFINE q == Ancestors[o]
           n == Len(q)
<1>1. q \in Seq(Leaves) /\ n \in Nat /\ n >= 1 /\ n \in 1 .. n
  BY AncestorsAssumption
<1>2. p = q[n] /\ p \in Leaves /\ p \in ToSet(q)
  <2> HIDE DEF q
  <2>1. p = q[n]
    BY DEF q, Last
  <2> QED BY <1>1, <2>1 DEF ToSet
<1>3. Ancestors[p] = SubSeq(q, 1, n - 1)
  BY <1>1, <1>2, AncestorsAssumption
<1>4. Len(Ancestors[p]) = n - 1
  BY <1>1, <1>3
<1>5. ASSUME NEW v \in Leaves, o \in ToSet(Ancestors[v])
      PROVE  p \in ToSet(Ancestors[v])
  <2> DEFINE r == Ancestors[v]
  <2>1. r \in Seq(Leaves) /\ Len(r) \in Nat
    BY AncestorsAssumption
  <2>2. PICK i \in 1 .. Len(r) : o = r[i]
    BY <1>5, <2>1 DEF ToSet
  <2>3. q = SubSeq(r, 1, i - 1)
    BY <2>2, AncestorsAssumption
  <2>4. n = i - 1 /\ q[n] = r[n]
    BY <1>1, <2>1, <2>2, <2>3
  <2>5. n \in 1 .. Len(r)
    BY <1>1, <2>1, <2>2, <2>4
  <2> HIDE DEF r, q
  <2> QED BY <1>2, <2>1, <2>4, <2>5 DEF ToSet, r
<1> QED BY <1>1, <1>2, <1>4, <1>5

\* With DRS_GET_ANC the parent is sent along, ahead of the object.
LEMMA ParentAhead ==
  ASSUME NEW D \in Databases, InPlace(D), NEW visited, visited \subseteq Objs, NEW anc, anc = TRUE,
         NEW o \in WithAncestors(D, visited, anc), NEW p, p = ParentOf(o, D.db[o]["rdn"]), p # NCHead
  PROVE  /\ p \in WithAncestors(D, visited, anc)
         /\ Place(D, visited, anc, p).with <= Place(D, visited, anc, o).with
         /\ Place(D, visited, anc, p).depth < Place(D, visited, anc, o).depth
<1> DEFINE A(v) == AncestorsOf(v, D.db[v]["rdn"])
           In(v) == WithAncestors(D, {v}, anc)
           At(v) == IF v = NCHead THEN 0 ELSE usnChanged(D, v)
<1>1. anc \in BOOLEAN /\ o \in Objs
  BY WithAncestorsOK
<1>2. \A v \in Objs : A(v) = IF v = NCHead THEN <<>> ELSE Ancestors[v]
  BY DEF AncestorsOf, InPlace
<1>3. o \in Leaves /\ o # NCHead /\ Ancestors[o] # <<>> /\ p = Last(Ancestors[o])
  BY <1>1, <1>2 DEF ParentOf, Objs
<1>4. /\ p \in Leaves /\ p \in ToSet(Ancestors[o])
      /\ Len(Ancestors[p]) \in Nat /\ Len(Ancestors[o]) = Len(Ancestors[p]) + 1
      /\ \A v \in Leaves : o \in ToSet(Ancestors[v]) => p \in ToSet(Ancestors[v])
  BY <1>3, ParentIsAncestor
<1>5. \A v \in Objs : In(v) = {v} \cup ToSet(A(v))
  BY DEF WithAncestors
<1>6. ToSet(<<>>) = {}
  BY DEF ToSet
<1>7. ASSUME NEW v \in visited, o \in In(v)
      PROVE  p \in In(v)
  <2>1. v \in Objs
    OBVIOUS
  <2>2. CASE v = o
    BY <1>2, <1>3, <1>4, <1>5, <2>1, <2>2
  <2>3. CASE v # o
    <3>1. o \in ToSet(A(v))
      BY <1>5, <1>7, <2>1, <2>3
    <3>2. v # NCHead /\ v \in Leaves /\ A(v) = Ancestors[v]
      BY <3>1, <1>2, <1>6, <2>1 DEF Objs
    <3> QED BY <3>1, <3>2, <1>4, <1>5, <2>1
  <2> QED BY <2>2, <2>3
<1> HIDE DEF A
<1>8. \A x : x \in WithAncestors(D, visited, anc) <=> \E v \in visited : x \in In(v)
  BY <1>1, WithAncestorsOK, ZenonT(40)
<1> HIDE DEF In
<1>9. p \in WithAncestors(D, visited, anc)
  <2>1. PICK v \in visited : o \in In(v)
    BY <1>8
  <2> QED BY <2>1, <1>7, <1>8
<1>10. PICK v \in visited : o \in In(v) /\ Place(D, visited, anc, o).with = At(v)
  BY <1>1, PlaceOK DEF In
<1>11. Place(D, visited, anc, p).with <= At(v)
  BY <1>1, <1>7, <1>9, <1>10, PlaceOK DEF In
<1>12. /\ Place(D, visited, anc, p).depth = Len(Ancestors[p]) + 1
       /\ Place(D, visited, anc, o).depth = Len(Ancestors[o]) + 1
  BY <1>3, <1>4, ObjsAssumption DEF Place
<1>13. Place(D, visited, anc, p).depth < Place(D, visited, anc, o).depth
  BY <1>4, <1>12
<1> QED BY <1>9, <1>10, <1>11, <1>13

\* A name that a database covers is there.
LEMMA CoveredExists ==
  ASSUME NEW D \in Databases, NEW o \in Objs, NEW x \in Stamps, Real(x), ~Newer(x, D.db[o]["rdn"])
  PROVE  Exists(D, o)
<1>1. CASE D.db[o]["rdn"] = None
  <2>1. x.ver \in Nat /\ x.ver >= 1 /\ D.db[o]["rdn"].ver = 0
    BY <1>1, StampFields DEF Real, None
  <2> QED BY <2>1 DEF Newer
<1> QED BY <1>1 DEF Exists

\* The answer to a request with ancestors.
LEMMA ReplyLed ==
  ASSUME Before, NamesOK, expired = {}, NEW d \in Servers, rpc[d].st = "marked",
         NEW visited \in SUBSET Objs, NEW more \in BOOLEAN
  PROVE  /\ AllInPlace(Reply(d, visited, more).objs)
         /\ rpc[d].req.anc => Led(live[d], Reply(d, visited, more).objs)
<1> DEFINE s == cyc[d].src
           L == live[s]
           V == IF rpc[d].req.full THEN NoVec ELSE cyc[d].utd
           q == rpc[d].req
           prop == rpc[d].from.prop
           objs == Reply(d, visited, more).objs
<1>1. TypeInv /\ ShapeInv /\ LossInv /\ s \in Servers /\ L \in Databases /\ q.anc \in BOOLEAN
  BY CallTypes, CallFields, RequestFields DEF Before
<1>2. InPlace(L) /\ DbOK(L) /\ live[d] \in Databases
  BY <1>1 DEF NamesOK, ShapeInv, DbsOK, TypeInv, StoreType
<1>3. objs = {[obj |-> o, place |-> Place(L, visited, q.anc, o),
              md  |-> [a \in ReplFilterPropsToShip(L, o, prop, V) |-> [L.db[o][a] EXCEPT !.usn = 0]]] :
                o \in {o \in WithAncestors(L, visited, q.anc) : ReplFilterPropsToShip(L, o, prop, V) # {}}}
  BY DEF Reply
<1>4. visited \subseteq Objs
  OBVIOUS
<1>5. ASSUME NEW e \in objs
      PROVE  /\ e \in Entries /\ e.obj \in WithAncestors(L, visited, q.anc) /\ e.obj \in Objs
             /\ e.place = Place(L, visited, q.anc, e.obj)
             /\ "rdn" \in DOMAIN e.md => e.md["rdn"].lf = L.db[e.obj]["rdn"].lf
  <2>1. /\ e \in Entries /\ e.obj \in WithAncestors(L, visited, q.anc)
        /\ e.place = Place(L, visited, q.anc, e.obj)
        /\ \A a \in DOMAIN e.md : e.md[a] = [L.db[e.obj][a] EXCEPT !.usn = 0]
    <3> HIDE DEF L, V, q, prop, objs
    <3> QED BY <1>1, <1>3, <1>4, <1>5, ReplyObjs
  <2>2. e.obj \in Objs
    BY <2>1, EntryFields
  <2> DEFINE x == L.db[e.obj]["rdn"]
             y == [x EXCEPT !.usn = 0]
  <2>3. x \in Stamps
    BY <1>1, <2>2, StampOf DEF Attrs
  <2>4. "rdn" \in DOMAIN e.md => e.md["rdn"] = y
    BY <2>1, Zenon
  <2> HIDE DEF x
  <2>5. y.lf = x.lf
    BY <2>3 DEF Stamps
  <2> HIDE DEF y
  <2> QED BY <2>1, <2>2, <2>4, <2>5, Zenon DEF x
<1> HIDE DEF objs
<1>6. AllInPlace(objs)
  BY <1>2, <1>5 DEF AllInPlace, InPlace
<1>7. ASSUME q.anc
      PROVE  Led(live[d], objs)
  <2> SUFFICES ASSUME NEW e \in objs, "rdn" \in DOMAIN e.md,
                      ~Exists(live[d], ParentOf(e.obj, e.md["rdn"]))
               PROVE  \E f \in objs : /\ f.obj = ParentOf(e.obj, e.md["rdn"])
                                      /\ "rdn" \in DOMAIN f.md /\ Ahead(f, e)
    BY DEF Led
  <2> DEFINE p == ParentOf(e.obj, e.md["rdn"])
             x == L.db[p]["rdn"]
  <2>1. p = ParentOf(e.obj, L.db[e.obj]["rdn"]) /\ p \in Objs /\ p # NCHead
    BY <1>5, ParentOfLf, ParentOfType DEF Exists
  <2>2. e.obj \in Leaves /\ L.db[e.obj]["rdn"] # None
    <3>1. e.obj # NCHead
      BY <2>1 DEF ParentOf, AncestorsOf
    <3>2. Real(e.md["rdn"])
      BY <1>1, ReplyShape DEF ObjsOK, objs
    <3>3. CASE L.db[e.obj]["rdn"] = None
      <4>1. Same(e.md["rdn"], L.db[e.obj]["rdn"])
        BY <1>1, ReplyCopies, Zenon DEF objs
      <4> QED BY <3>2, <3>3, <4>1 DEF Same, Real, None
    <3> QED BY <3>1, <3>3, <1>5 DEF Objs
  <2>3. Exists(L, p)
    BY <1>2, <2>1, <2>2, Zenon DEF DbOK
  <2>4. p \in Leaves /\ x # None /\ x \in Stamps /\ Real(x)
    <3>1. p \in Leaves /\ x # None
      BY <2>1, <2>3, Zenon DEF Exists, Objs
    <3>2. "rdn" \in Attrs
      BY DEF Attrs
    <3> QED BY <3>1, <3>2, <2>1, <1>1, <1>2, StampOf, Zenon DEF DbOK
  <2>5. /\ p \in WithAncestors(L, visited, q.anc)
        /\ Place(L, visited, q.anc, p).with <= Place(L, visited, q.anc, e.obj).with
        /\ Place(L, visited, q.anc, p).depth < Place(L, visited, q.anc, e.obj).depth
    <3>1. q.anc = TRUE /\ e.obj \in WithAncestors(L, visited, q.anc)
      BY <1>1, <1>5, <1>7
    <3> HIDE DEF L, q, p
    <3> QED BY <1>1, <1>2, <1>4, <2>1, <3>1, ParentAhead
  <2>6. Covers(live[d], {} \cup objs, p, "rdn", x)
    <3>1. cyc[d].pc = "wait" /\ cyc[d].pkt.objs = {}
      <4>1. CallOK(cyc[d], rpc[d]) /\ cyc[d] \in Cycles
        BY <1>1 DEF ShapeInv, CommOK, TypeInv, CommType
      <4>2. cyc[d].pc \notin {"idle", "labort"}
        BY <1>1 DEF TypeInv, CommType
      <4>3. cyc[d].pc # "apply"
        BY <1>7, <4>1 DEF CallOK
      <4> QED BY <4>1, <4>2, <4>3, CycleFields DEF CallOK
    <3>2. CycleOK(World, live[d], cyc[d], rpc[d])
      BY <1>1 DEF LossInv
    <3>3. MarkOK(World, s, rpc[d].from, live[d], {}) /\ ClaimOK(World, cyc[d].utd, live[d], {})
      BY <3>1, <3>2 DEF CycleOK
    <3>4. WorldType(World) /\ World.live = live /\ p \in World.kept
      BY <1>1, <2>1, WorldTyped, WorldIs
    <3>5. {} \subseteq Entries /\ "rdn" \in Attrs
      BY DEF Attrs
    <3> HIDE DEF p
    <3> QED BY <1>1, <1>2, <1>4, <2>5, <3>3, <3>4, <3>5, SentCovered DEF objs
  <2>7. PICK f \in objs : f.obj = p /\ "rdn" \in DOMAIN f.md
    <3>1. CASE ~Newer(x, live[d].db[p]["rdn"])
      BY <3>1, <1>2, <2>1, <2>4, CoveredExists, Zenon
    <3> HIDE DEF p, x
    <3> QED BY <2>6, <3>1 DEF Covers
  <2>8. Ahead(f, e)
    <3>1. f.place = Place(L, visited, q.anc, p) /\ e.place = Place(L, visited, q.anc, e.obj)
      BY <1>5, <2>7
    <3>2. /\ f.place.with \in Nat /\ e.place.with \in Nat
      BY <1>5, EntryFields
    <3> HIDE DEF L, q, p
    <3> QED BY <2>5, <3>1, <3>2 DEF Ahead
  <2> QED BY <2>7, <2>8
<1> QED BY <1>6, <1>7 DEF objs

LEMMA DRA_GetNCChangesLed ==
  ASSUME Before, NamesOK, PacketsOK, expired = {}, NEW d \in Servers, DRA_GetNCChanges(d)
  PROVE  NamesOK' /\ PacketsOK'
<1>1. TypeInv
  BY DEF Before
<1>2. /\ rpc[d].st = "marked"
      /\ disk' = [disk EXCEPT ![cyc[d].src] = live[cyc[d].src]]
      /\ UNCHANGED <<live, image, curId, usn, pending, cyc, born, expired, count>>
  BY <1>1, AnswerType, Zenon
<1>3. PICK visited \in SUBSET Objs, more \in BOOLEAN :
        rpc' = [rpc EXCEPT ![d] = [NoCall EXCEPT !.st = "reply", !.req = rpc[d].req,
                                                 !.reply = Reply(d, visited, more)]]
  BY <1>1, AnswerType, Zenon
<1> DEFINE rep == Reply(d, visited, more)
           r == [NoCall EXCEPT !.st = "reply", !.req = rpc[d].req, !.reply = rep]
<1>4. AllInPlace(rep.objs) /\ (rpc[d].req.anc => Led(live[d], rep.objs))
  BY <1>2, ReplyLed
<1> HIDE DEF rep
<1>5. r.st = "reply" /\ r.req = rpc[d].req /\ r.reply = rep
  BY DEF NoCall
<1>6. rpc' = [rpc EXCEPT ![d] = r] /\ cyc' = [cyc EXCEPT ![d] = cyc[d]]
  BY <1>1, <1>2, <1>3 DEF TypeInv, CommType, rep
<1>7. LedOK(live[d], cyc[d], rpc[d])
  BY DEF PacketsOK
<1> HIDE DEF r
<1>8. LedOK(live'[d], cyc[d], r)
  BY <1>2, <1>4, <1>5, <1>7 DEF LedOK
<1>9. PacketsOK'
  BY <1>1, <1>2, <1>6, <1>8, PacketsSet, KeepsAll
<1>10. \A t \in Servers : disk'[t] \in {disk[t], live[t]}
  BY <1>1, <1>2 DEF TypeInv, StoreType
<1>11. NamesOK'
  BY <1>2, <1>10 DEF NamesOK
<1> QED BY <1>9, <1>11

\* Applied in that order no object is an orphan.
LEMMA UpdateNCLed ==
  ASSUME TypeInv, ShapeInv, NamesOK, PacketsOK, NEW d \in Servers, UpdateNC(d)
  PROVE  NamesOK' /\ PacketsOK'
<1> DEFINE c == cyc[d]
           e == First(c.pkt.objs)
<1>1. c.pc = "apply" /\ c.pkt.objs # {} /\ UNCHANGED <<pending>>
  BY UpdateNCIs
<1>2. /\ c \in Cycles /\ c.src \in Servers /\ live[d] \in Databases
      /\ c.pkt \in Replies /\ c.pkt.objs \subseteq Entries /\ e \in c.pkt.objs
  BY <1>1, ApplyTypes
<1>3. ASSUME NEW q \in Requests, NextPacket(d, [c EXCEPT !.req = q]), UNCHANGED <<live, disk>>
      PROVE  NamesOK' /\ PacketsOK'
  <2>1. [c EXCEPT !.req = q] \in Cycles
    BY <1>2 DEF Cycles
  <2> QED BY <1>1, <1>3, <2>1, NextPacketLed, KeepsAll, NamesSame
<1>4. CASE NextPacket(d, [c EXCEPT !.req.full = TRUE]) /\ UNCHANGED <<live, disk, usn>>
  BY <1>2, <1>3, <1>4, AskAgain
<1>5. CASE NextPacket(d, [c EXCEPT !.req.anc = TRUE]) /\ UNCHANGED <<live, disk, usn>>
  BY <1>2, <1>3, <1>5, AskAgain
<1>6. CASE Leave(d, c) /\ UNCHANGED <<live, disk, usn>>
  BY <1>1, <1>2, <1>6, LeaveLed, KeepsAll, NamesSame
<1>7. ASSUME ~NotEnoughAttrs(live[d], e), MissingParent(live[d], e) => c.req.anc,
             UpdateRepObj(d, e, MissingParent(live[d], e))
      PROVE  NamesOK' /\ PacketsOK'
  <2> DEFINE D == live[d]
             orphan == MissingParent(D, e)
             row == RowPut(D, e, Winners(D, e), orphan, curId[d], usn[d])
             E == WrittenRow(D, e.obj, row)
             p == [c.pkt EXCEPT !.objs = @ \ {e}]
  <2>1. /\ Winners(D, e) = {} => UNCHANGED <<live, disk, usn>>
        /\ Winners(D, e) # {} => live' = [live EXCEPT ![d] = E] /\ UNCHANGED disk
        /\ cyc' = [cyc EXCEPT ![d].pkt.objs = @ \ {e}] /\ UNCHANGED rpc
    BY <1>7, UpdateRepObjIs
  <2>2. /\ e \in Entries /\ e.obj \in Objs /\ curId[d] \in Ids /\ usn[d] \in Nat /\ usn[d] >= 1
        /\ \A a \in DOMAIN e.md : Real(e.md[a]) /\ e.md[a] \in Stamps
        /\ DbOK(D)
    <3>1. e \in Entries /\ curId[d] \in Ids /\ usn[d] \in Nat /\ usn[d] >= 1
      BY <1>2 DEF TypeInv, StoreType
    <3>2. ObjsOK(c.pkt.objs) /\ DbOK(live[d])
      BY DEF ShapeInv, CommOK, CallOK, DbsOK
    <3> QED BY <3>1, <3>2, <1>2, EntryFields DEF ObjsOK
  <2>3. LedOK(D, c, rpc[d]) /\ InPlace(D) /\ rpc[d] \in Calls
    BY DEF PacketsOK, NamesOK, TypeInv, CommType
  <2>4. ~orphan
    <3> SUFFICES ASSUME orphan PROVE FALSE
      OBVIOUS
    <3>1. c.req.anc /\ "rdn" \in DOMAIN e.md /\ ~Exists(D, ParentOf(e.obj, e.md["rdn"]))
      BY <1>7, Zenon DEF MissingParent, Winners
    <3>2. Led(D, c.pkt.objs)
      BY <1>1, <2>3, <3>1 DEF LedOK
    <3> HIDE DEF D
    <3>3. PICK f \in c.pkt.objs : Ahead(f, e)
      BY <1>2, <3>1, <3>2 DEF Led
    <3>4. f.place.with \in Nat /\ e.place.with \in Nat /\ f.place.depth \in Nat /\ e.place.depth \in Nat
      <4>1. f.place \in [with : Nat, depth : Nat] /\ e.place \in [with : Nat, depth : Nat]
        BY <1>2, EntryFields
      <4> QED BY <4>1
    <3>5. \/ e.place.with < f.place.with
          \/ e.place.with = f.place.with /\ e.place.depth <= f.place.depth
      BY <1>1, <1>2, FirstOK
    <3> HIDE DEF e
    <3> QED BY <3>3, <3>4, <3>5 DEF Ahead
  <2>5. row \in [Attrs -> Stamps] /\ Keeps(D, E)
    <3> HIDE DEF e
    <3>1. Keeps(D, E)
      BY <1>2, <1>7, <2>2, RowDbOK DEF Keeps
    <3>2. orphan \in BOOLEAN
      BY DEF MissingParent
    <3>3. row \in [Attrs -> Stamps]
      <4> HIDE DEF orphan
      <4> QED BY <1>2, <2>2, <3>2, RowPutOK, Zenon
    <3> QED BY <3>1, <3>3
  <2>6. /\ "rdn" \in Winners(D, e) => row["rdn"] = [e.md["rdn"] EXCEPT !.usn = usn[d]]
        /\ "rdn" \notin Winners(D, e) => row["rdn"] = D.db[e.obj]["rdn"]
    <3> HIDE DEF orphan
    <3> QED BY <2>4 DEF RowPut, Attrs
  <2>7. /\ E.db[e.obj]["rdn"] = row["rdn"]
        /\ \A o \in Objs : o # e.obj => E.db[o] = D.db[o]
    <3> HIDE DEF row, e, D
    <3> QED BY <1>2, <2>2, <2>5, RowType DEF D
  <2> HIDE DEF E, row, orphan
  <2>8. InPlace(E)
    <3> SUFFICES ASSUME NEW o \in Objs PROVE ~E.db[o]["rdn"].lf
      BY DEF InPlace
    <3>1. CASE o # e.obj \/ "rdn" \notin Winners(D, e)
      BY <3>1, <2>3, <2>6, <2>7 DEF InPlace
    <3>2. CASE o = e.obj /\ "rdn" \in Winners(D, e)
      <4>1. "rdn" \in DOMAIN e.md
        BY <3>2 DEF Winners
      <4>2. ~e.md["rdn"].lf /\ e.md["rdn"] \in Stamps
        BY <1>2, <2>2, <2>3, <4>1 DEF LedOK, AllInPlace
      <4>3. [e.md["rdn"] EXCEPT !.usn = usn[d]].lf = e.md["rdn"].lf
        BY <4>2 DEF Stamps
      <4> QED BY <3>2, <4>2, <4>3, <2>6, <2>7
    <3> QED BY <3>1, <3>2
  <2>9. "rdn" \in DOMAIN e.md => Exists(live'[d], e.obj)
    <3> SUFFICES ASSUME "rdn" \in DOMAIN e.md PROVE Exists(live'[d], e.obj)
      OBVIOUS
    <3>1. CASE "rdn" \in Winners(D, e)
      <4>1. Real([e.md["rdn"] EXCEPT !.usn = usn[d]])
        <5> DEFINE x == e.md["rdn"]
        <5>1. x \in Stamps /\ Real(x)
          BY <2>2
        <5> HIDE DEF x
        <5>2. Real([x EXCEPT !.usn = usn[d]])
          BY <5>1 DEF Stamps, Real
        <5> QED BY <5>2 DEF x
      <4>2. E.db[e.obj]["rdn"] # None
        BY <3>1, <4>1, <2>6, <2>7, RealIsThere
      <4>3. live'[d] = E
        BY <3>1, <2>1 DEF TypeInv, StoreType
      <4> QED BY <4>2, <4>3 DEF Exists
    <3>2. CASE "rdn" \notin Winners(D, e)
      <4>1. ~Newer(e.md["rdn"], D.db[e.obj]["rdn"])
        BY <3>2 DEF Winners
      <4>2. Exists(D, e.obj)
        <5> HIDE DEF D
        <5> QED BY <1>2, <2>2, <4>1, CoveredExists DEF D
      <4>3. Keeps(D, live'[d])
        <5>1. live'[d] = E \/ live'[d] = D
          BY <2>1 DEF TypeInv, StoreType
        <5>2. Keeps(D, D)
          BY DEF Keeps
        <5> QED BY <5>1, <5>2, <2>5
      <4> QED BY <4>2, <4>3, <2>2 DEF Keeps
    <3> QED BY <3>1, <3>2
  <2>10. NamesOK' /\ \A s \in Servers : Keeps(live[s], live'[s])
    <3>1. CASE Winners(D, e) = {}
      BY <1>1, <2>1, <3>1, NamesSame, KeepsAll
    <3>2. CASE Winners(D, e) # {}
      BY <1>1, <2>1, <2>5, <2>8, <3>2, NamesSet, KeepsSet
    <3> QED BY <3>1, <3>2
  <2>11. /\ p.objs = c.pkt.objs \ {e} /\ p \in Replies
         /\ cyc' = [cyc EXCEPT ![d] = [c EXCEPT !.pkt = p]] /\ rpc' = [rpc EXCEPT ![d] = rpc[d]]
    <3>1. p.objs = c.pkt.objs \ {e}
      BY <1>2 DEF Replies
    <3> QED BY <2>1, <3>1, RestOfPacket DEF TypeInv, CommType
  <2> HIDE DEF p
  <2> DEFINE c2 == [c EXCEPT !.pkt = p]
  <2>12. c2.pc = "apply" /\ c2.pkt = p /\ c2.req = c.req
    BY <1>1, <1>2 DEF Cycles
  <2>13. LedOK(live'[d], c, rpc[d])
    BY <1>2, <2>3, <2>10, LedOKMore
  <2> HIDE DEF c2, e
  <2>14. Led(live'[d], c.pkt.objs) => Led(live'[d], c.pkt.objs \ {e})
    <3> SUFFICES ASSUME Led(live'[d], c.pkt.objs), NEW g \in c.pkt.objs \ {e}, "rdn" \in DOMAIN g.md,
                        ~Exists(live'[d], ParentOf(g.obj, g.md["rdn"]))
                 PROVE  \E f \in c.pkt.objs \ {e} : /\ f.obj = ParentOf(g.obj, g.md["rdn"])
                                                    /\ "rdn" \in DOMAIN f.md /\ Ahead(f, g)
      BY DEF Led
    <3>1. PICK f \in c.pkt.objs : /\ f.obj = ParentOf(g.obj, g.md["rdn"])
                                  /\ "rdn" \in DOMAIN f.md /\ Ahead(f, g)
      BY DEF Led
    <3>2. f # e
      BY <2>9, <3>1
    <3> QED BY <3>1, <3>2
  <2>15. LedOK(live'[d], c2, rpc[d])
    BY <1>1, <2>11, <2>12, <2>13, <2>14 DEF LedOK, AllInPlace
  <2> QED BY <2>10, <2>11, <2>15, PacketsSet DEF c2
<1> HIDE DEF c, e
<1>8. \/ NextPacket(d, [c EXCEPT !.req.full = TRUE]) /\ UNCHANGED <<live, disk, usn>>
      \/ NextPacket(d, [c EXCEPT !.req.anc = TRUE]) /\ UNCHANGED <<live, disk, usn>>
      \/ Leave(d, c) /\ UNCHANGED <<live, disk, usn>>
      \/ /\ ~NotEnoughAttrs(live[d], e) /\ (MissingParent(live[d], e) => c.req.anc)
         /\ UpdateRepObj(d, e, MissingParent(live[d], e))
  BY UpdateNCIs, Zenon DEF c, e
<1> QED BY <1>4, <1>5, <1>6, <1>7, <1>8, Zenon

LEMMA InitParent == Init => ParentInv
<1> SUFFICES ASSUME Init PROVE NamesOK /\ PacketsOK
  BY DEF ParentInv
<1>1. \A s \in Servers : /\ live[s].db = [o \in Objs |-> [a \in Attrs |-> None]] /\ disk[s] = live[s]
                         /\ pending[s] = {} /\ cyc[s] = Idle /\ rpc[s] = NoCall
  BY DEF Init
<1>2. NamesOK
  BY <1>1 DEF NamesOK, InPlace, None, Attrs
<1>3. Idle.pc = "idle" /\ Idle.pkt = NoReply
  BY DEF Idle
<1>4. PacketsOK
  BY <1>1, <1>3, NothingLed DEF PacketsOK, LedOK
<1> QED BY <1>2, <1>4

LEMMA StepParent ==
  Before /\ ParentInv /\ [Next]_vars /\ [\A s \in Servers : ~Restore(s)]_vars => ParentInv'
<1> SUFFICES ASSUME Before, ParentInv, [Next]_vars, [\A s \in Servers : ~Restore(s)]_vars, expired' = {}
             PROVE  NamesOK' /\ PacketsOK'
  BY DEF ParentInv
<1>0. TypeInv /\ ShapeInv
  BY DEF Before
<1>1. ASSUME NEW s \in Servers, NEW o \in Leaves, Expire(s, o)
      PROVE  FALSE
  BY <1>1 DEF Expire
<1>2. ASSUME expired = {}, NEW s \in Servers, ~Restore(s),
             \/ \E o \in Objs, a \in Attrs : OriginatingWrite(s, o, a)
             \/ CommitWrite(s) \/ RollbackWrite(s) \/ Flush(s)
             \/ \E o \in Leaves : Expire(s, o)
             \/ Crash(s) \/ Backup(s) \/ Restore(s) \/ DraHostWriteableNc(s)
      PROVE  NamesOK' /\ PacketsOK'
  <2>1. NamesOK /\ PacketsOK
    BY <1>2 DEF ParentInv
  <2> QED BY <1>0, <1>1, <1>2, <2>1, OriginatingWriteLed, CommitWriteLed, QuietLed, CrashLed
<1>3. ASSUME expired = {}, NEW d \in Servers,
             \/ \E s \in Servers : StartSync(d, s)
             \/ GetNCChangesMark(d) \/ DRA_GetNCChanges(d)
             \/ ReceivePacket(d) \/ UpdateNC(d) \/ PacketDone(d) \/ CycleDone(d)
             \/ Preempt(d) \/ CallFails(d) \/ CallFailed(d) \/ Labort(d)
      PROVE  NamesOK' /\ PacketsOK'
  <2>1. NamesOK /\ PacketsOK
    BY <1>3 DEF ParentInv
  <2> QED BY <1>0, <1>3, <2>1, StartSyncLed, MarkLed, DRA_GetNCChangesLed, ReceivePacketLed, UpdateNCLed,
             PacketDoneLed, CycleDoneLed, LeavingLed, LabortLed
<1>4. CASE UNCHANGED vars
  <2>1. NamesOK /\ PacketsOK
    BY <1>4 DEF ParentInv, vars
  <2> QED BY <1>0, <1>4, <2>1, NamesSame, PacketsSame, KeepsAll DEF vars
<1>5. CASE Next /\ ~UNCHANGED vars
  <2>1. \A s \in Servers : ~Restore(s)
    BY <1>5
  <2>2. expired = {}
    <3>1. \/ expired' = expired
          \/ \E s \in Servers, o \in Leaves : Expire(s, o)
      <4>1. ASSUME NEW s \in Servers,
                   \/ \E o \in Objs, a \in Attrs : OriginatingWrite(s, o, a)
                   \/ CommitWrite(s) \/ RollbackWrite(s) \/ Flush(s)
                   \/ Crash(s) \/ Backup(s) \/ Restore(s) \/ DraHostWriteableNc(s)
            PROVE  expired' = expired
        BY ONLY <4>1 DEF OriginatingWrite, CommitWrite, RollbackWrite, Flush, Crash, Backup, Restore,
           DraHostWriteableNc
      <4>2. ASSUME NEW d \in Servers,
                   \/ \E s \in Servers : StartSync(d, s)
                   \/ GetNCChangesMark(d) \/ DRA_GetNCChanges(d) \/ ReceivePacket(d)
            PROVE  expired' = expired
        BY ONLY <4>2, ZenonT(40) DEF StartSync, GetNCChangesMark, DRA_GetNCChanges, ReceivePacket
      <4>3. ASSUME NEW d \in Servers,
                   \/ UpdateNC(d) \/ PacketDone(d) \/ CycleDone(d)
                   \/ Preempt(d) \/ CallFails(d) \/ CallFailed(d) \/ Labort(d)
            PROVE  expired' = expired
        BY ONLY <4>3, UpdateNCIs DEF PacketDone, CycleDone, Preempt, CallFails, CallFailed, Labort
      <4> QED BY ONLY <1>5, <4>1, <4>2, <4>3 DEF Next
    <3> QED BY <3>1, <1>1
  <2> QED BY <1>2, <1>3, <1>5, <2>1, <2>2 DEF Next
<1> QED BY <1>4, <1>5

\* The parent of an object is there, in what a server's transactions see and in what
\* a crash leaves, also with restores and expiring objects: UpdateNC refuses an
\* object whose parent it lacks, or moves it to LostAndFound, and nothing takes the
\* parent away.
THEOREM ParentNeverMissing ==
  Spec => [](\A s \in Servers, o \in Leaves :
               /\ Exists(live[s], o) => Exists(live[s], ParentOf(o, live[s].db[o]["rdn"]))
               /\ Exists(disk[s], o) => Exists(disk[s], ParentOf(o, disk[s].db[o]["rdn"])))
<1>1. TypeInv /\ ShapeInv =>
        \A s \in Servers, o \in Leaves :
          /\ Exists(live[s], o) => Exists(live[s], ParentOf(o, live[s].db[o]["rdn"]))
          /\ Exists(disk[s], o) => Exists(disk[s], ParentOf(o, disk[s].db[o]["rdn"]))
  <2> SUFFICES ASSUME ShapeInv, NEW s \in Servers, NEW o \in Leaves, NEW D \in {live[s], disk[s]}, Exists(D, o)
               PROVE  Exists(D, ParentOf(o, D.db[o]["rdn"]))
    OBVIOUS
  <2>1. D.db[o]["rdn"] # None
    BY ObjsAssumption DEF Exists
  <2>2. DbOK(D)
    BY DEF ShapeInv, DbsOK
  <2> QED BY <2>1, <2>2 DEF DbOK
<1> QED BY <1>1, ShapeInvariant, PTL

\* As long as no server is put back from a backup, every object a server holds has
\* its parent there; and as long as nothing expires it is the parent its writer chose:
\* a packet asked for with DRS_GET_ANC brings what UpdateNC needs in the order it
\* needs it, so that no object is moved to LostAndFound, however packets are cut and
\* whichever attributes the source leaves out of them.
THEOREM ParentIsPresent ==
  Spec /\ [][\A s \in Servers : ~Restore(s)]_vars => []ParentPresent
<1>1. Init => Before /\ ParentInv
  BY InitType, InitShape, InitLoss, InitParent DEF Before
<1>2. Before /\ ParentInv /\ [Next]_vars /\ [\A s \in Servers : ~Restore(s)]_vars
        => (Before /\ ParentInv)'
  <2>1. Before /\ [Next]_vars /\ [\A s \in Servers : ~Restore(s)]_vars => Before'
    BY StepType, StepShape, StepLoss DEF Before, After
  <2> QED BY <2>1, StepParent
<1>3. Before /\ ParentInv => ParentPresent
  <2> SUFFICES ASSUME Before, ParentInv, NEW s \in Servers, NEW o \in Leaves, Exists(live[s], o)
               PROVE  /\ Exists(live[s], ParentOf(o, live[s].db[o]["rdn"]))
                      /\ expired = {} => ~live[s].db[o]["rdn"].lf
    BY DEF ParentPresent
  <2>1. live[s].db[o]["rdn"] # None
    BY ObjsAssumption DEF Exists
  <2>2. DbOK(live[s])
    BY DEF Before, ShapeInv, DbsOK
  <2>3. Exists(live[s], ParentOf(o, live[s].db[o]["rdn"]))
    BY <2>1, <2>2 DEF DbOK
  <2>4. expired = {} => ~live[s].db[o]["rdn"].lf
    BY DEF ParentInv, NamesOK, InPlace, Objs
  <2> QED BY <2>3, <2>4
<1> QED BY <1>1, <1>2, <1>3, PTL DEF Spec

-----------------------------------------------------------------------------
(* Watermarks move forward: the inductive invariant of WatermarkKept.      *)

\* Along a cycle the object watermark grows: from the stored one to the one asked
\* from, the one the source works with and the one it answers; and each of them
\* belongs to the id K that the source has all the time, or to none.
Forward(R, K, c, r) ==
  /\ c.pc # "idle" => R[c.src].vec.obj <= c.req.vec.obj /\ c.req.id \in {NoId, K[c.src]}
  /\ c.pc = "apply" => c.req.vec.obj <= c.pkt.to.obj /\ c.pkt.id \in {NoId, K[c.src]}
  /\ r.st # "none" => r.req.id \in {NoId, K[c.src]}
  /\ r.st = "marked" => r.req.vec.obj <= r.from.obj
  /\ r.st = "reply" => r.req.vec.obj <= r.reply.to.obj /\ r.reply.id \in {NoId, K[c.src]}

\* A crash takes no watermark back: they are stored by durable commits.
RepsOK ==
  \A d \in Servers : /\ live[d].id = curId[d] /\ disk[d].id = curId[d]
                     /\ disk[d].reps = live[d].reps
                     /\ \A s \in Servers : live[d].reps[s].id \in {NoId, curId[s]}

MarksInv == RepsOK /\ \A d \in Servers : Forward(live[d].reps, curId, cyc[d], rpc[d])

RepsKept == \A d, s \in Servers : live[d].reps[s].vec.obj <= live'[d].reps[s].vec.obj

\* A database with the same watermarks.
SameReps(D, E) == E.id = D.id /\ E.reps = D.reps

\* No watermark is stored; server d changes its cycle.
LEMMA ForwardSet ==
  ASSUME TypeInv, MarksInv, curId' = curId,
         \A s \in Servers : SameReps(live[s], live'[s]) /\ SameReps(live[s], disk'[s]),
         NEW d \in Servers, NEW c, NEW r, Forward(live[d].reps, curId, c, r),
         cyc' = [cyc EXCEPT ![d] = c], rpc' = [rpc EXCEPT ![d] = r]
  PROVE  MarksInv' /\ RepsKept
<1>1. \A s \in Servers : cyc'[s] = (IF s = d THEN c ELSE cyc[s]) /\ rpc'[s] = (IF s = d THEN r ELSE rpc[s])
  BY DEF TypeInv, CommType
<1>2. \A s, t \in Servers : live[s].reps[t].vec.obj \in Nat
  <2> SUFFICES ASSUME NEW s \in Servers, NEW t \in Servers PROVE live[s].reps[t].vec.obj \in Nat
    OBVIOUS
  <2>1. live[s].reps[t].vec \in USNVectors
    BY DbFields DEF TypeInv, StoreType
  <2> QED BY <2>1, USNVectorFields
<1>3. RepsOK' /\ RepsKept
  BY <1>2 DEF MarksInv, RepsOK, SameReps, RepsKept
<1>4. \A s \in Servers : Forward(live'[s].reps, curId', cyc'[s], rpc'[s])
  BY <1>1 DEF MarksInv, SameReps
<1> QED BY <1>3, <1>4 DEF MarksInv

LEMMA ForwardSame ==
  ASSUME TypeInv, MarksInv, curId' = curId,
         \A s \in Servers : SameReps(live[s], live'[s]) /\ SameReps(live[s], disk'[s]), UNCHANGED <<cyc, rpc>>
  PROVE  MarksInv' /\ RepsKept
<1>1. CASE Servers = {}
  BY <1>1 DEF MarksInv, RepsOK, RepsKept
<1>2. ASSUME NEW d \in Servers PROVE MarksInv' /\ RepsKept
  <2>1. cyc' = [cyc EXCEPT ![d] = cyc[d]] /\ rpc' = [rpc EXCEPT ![d] = rpc[d]]
    BY DEF TypeInv, CommType
  <2>2. Forward(live[d].reps, curId, cyc[d], rpc[d])
    BY DEF MarksInv
  <2> QED BY <2>1, <2>2, ForwardSet
<1> QED BY <1>1, <1>2

\* Steps that store no watermark.
LEMMA SameStores ==
  ASSUME TypeInv, RepsOK, live' = live \/ \E s \in Servers : \E D : live' = [live EXCEPT ![s] = D] /\ SameReps(live[s], D),
         disk' = disk \/ \E s \in Servers : disk' = [disk EXCEPT ![s] = live'[s]]
  PROVE  \A s \in Servers : SameReps(live[s], live'[s]) /\ SameReps(live[s], disk'[s])
<1>1. \A s \in Servers : SameReps(live[s], live'[s])
  BY DEF TypeInv, StoreType, SameReps
<1>2. \A s \in Servers : disk'[s] \in {disk[s], live'[s]}
  BY DEF TypeInv, StoreType
<1>3. \A s \in Servers : SameReps(live[s], disk[s])
  BY DEF RepsOK, SameReps
<1> QED BY <1>1, <1>2, <1>3

\* Writes of clients, the log, expiry and backup.
LEMMA StoreForward ==
  ASSUME TypeInv, MarksInv, NEW s \in Servers,
         \/ \E o \in Objs, a \in Attrs : OriginatingWrite(s, o, a)
         \/ CommitWrite(s) \/ RollbackWrite(s) \/ Flush(s) \/ Backup(s)
         \/ \E o \in Leaves : Expire(s, o)
  PROVE  MarksInv' /\ RepsKept
<1>1. UNCHANGED <<curId, cyc, rpc>>
  BY DEF OriginatingWrite, CommitWrite, RollbackWrite, Flush, Backup, Expire
<1>2. live[s] \in Databases /\ SameReps(live[s], live[s])
  BY DEF TypeInv, StoreType, SameReps
<1>3. /\ live' = live \/ \E D : live' = [live EXCEPT ![s] = D] /\ SameReps(live[s], D)
      /\ disk' = disk \/ disk' = [disk EXCEPT ![s] = live'[s]]
  <2>1. CASE CommitWrite(s)
    <3>1. PICK w \in pending[s] : LazyCommit(s, [live[s] EXCEPT !.db[w.obj][w.attr] = w.stamp])
      BY <2>1 DEF CommitWrite
    <3>2. w \in Writes
      BY DEF TypeInv, StoreType
    <3>3. w.obj \in Objs /\ w.attr \in Attrs /\ w.stamp \in Stamps
      BY <3>2 DEF Writes
    <3> DEFINE E == Written(live[s], w.obj, w.attr, w.stamp)
    <3>4. SameReps(live[s], E)
      BY <1>2, <3>3, WriteType DEF SameReps
    <3>5. live' = [live EXCEPT ![s] = E] /\ disk' = disk
      BY <3>1 DEF LazyCommit, Written
    <3> QED BY <3>4, <3>5
  <2>2. CASE \E o \in Leaves : Expire(s, o)
    <3>1. PICK o \in Leaves : Expire(s, o)
      BY <2>2
    <3> DEFINE row == [a \in Attrs |-> None]
               E == WrittenRow(live[s], o, row)
    <3>2. live' = [live EXCEPT ![s] = E] /\ disk' = disk
      BY <3>1 DEF Expire, LazyCommit, WrittenRow
    <3>3. row \in [Attrs -> Stamps] /\ o \in Objs
      BY NoneType DEF Objs
    <3> HIDE DEF row
    <3>4. SameReps(live[s], E)
      BY <1>2, <3>3, RowType DEF SameReps
    <3> QED BY <3>2, <3>4
  <2>3. CASE Backup(s)
    <3>1. live' = [live EXCEPT ![s] = live[s]] /\ disk' = [disk EXCEPT ![s] = live[s]]
      BY <2>3 DEF Backup, DurableCommit
    <3>2. live'[s] = live[s]
      BY <3>1 DEF TypeInv, StoreType
    <3> QED BY <1>2, <3>1, <3>2
  <2>4. CASE (\E o \in Objs, a \in Attrs : OriginatingWrite(s, o, a)) \/ RollbackWrite(s)
    BY <2>4 DEF OriginatingWrite, RollbackWrite
  <2>5. CASE Flush(s)
    BY <2>5 DEF Flush
  <2> QED BY <2>1, <2>2, <2>3, <2>4, <2>5
<1>4. \A t \in Servers : SameReps(live[t], live'[t]) /\ SameReps(live[t], disk'[t])
  BY <1>3, SameStores DEF MarksInv
<1> QED BY <1>1, <1>4, ForwardSame

LEMMA CrashForward ==
  ASSUME TypeInv, MarksInv, NEW s \in Servers, Crash(s)
  PROVE  MarksInv' /\ RepsKept
<1>1. /\ live' = [live EXCEPT ![s] = disk[s]] /\ Down(s) /\ disk' = disk
      /\ curId' = [curId EXCEPT ![s] = disk[s].id]
  BY DEF Crash
<1>2. SameReps(live[s], disk[s])
  BY DEF MarksInv, RepsOK, SameReps
<1>3. \A t \in Servers : SameReps(live[t], live'[t]) /\ SameReps(live[t], disk'[t])
  BY <1>1, <1>2, SameStores DEF MarksInv
<1>4. curId' = curId
  BY <1>1 DEF MarksInv, RepsOK, TypeInv, StoreType
<1> DEFINE Gone(d) == [rpc[d] EXCEPT !.st = "failed"]
<1>5. /\ \A d \in Servers : d # s => cyc'[d] = cyc[d]
      /\ cyc'[s] = Idle /\ rpc'[s] = NoCall
      /\ \A d \in Servers : d # s => rpc'[d] = IF cyc[d].src = s /\ rpc[d].st \in {"sent", "marked"}
                                               THEN Gone(d) ELSE rpc[d]
  BY <1>1 DEF Down, TypeInv, CommType
<1>6. \A R : Forward(R, curId, Idle, NoCall)
  BY DEF Forward, Idle, NoCall
<1>7. ASSUME NEW d \in Servers, rpc[d].st \in {"sent", "marked"}
      PROVE  Forward(live[d].reps, curId, cyc[d], Gone(d))
  <2>1. Forward(live[d].reps, curId, cyc[d], rpc[d]) /\ rpc[d] \in Calls
    BY DEF MarksInv, TypeInv, CommType
  <2>2. Gone(d).st = "failed" /\ Gone(d).req = rpc[d].req
    BY <2>1 DEF Calls
  <2> HIDE DEF Gone
  <2> QED BY <2>1, <2>2, <1>7 DEF Forward
<1> HIDE DEF Gone
<1>8. ASSUME NEW d \in Servers
      PROVE  Forward(live[d].reps, curId, cyc'[d], rpc'[d])
  <2>1. CASE d = s
    BY <1>5, <1>6, <2>1
  <2>2. CASE d # s
    <3>1. Forward(live[d].reps, curId, cyc[d], rpc[d])
      BY DEF MarksInv
    <3> QED BY <1>5, <1>7, <2>2, <3>1
  <2> QED BY <2>1, <2>2
<1>9. \A d \in Servers : live'[d].reps = live[d].reps
  BY <1>3 DEF SameReps
<1>10. RepsOK'
  BY <1>3, <1>4 DEF MarksInv, RepsOK, SameReps
<1>11. \A d, t \in Servers : live[d].reps[t].vec.obj \in Nat
  <2> SUFFICES ASSUME NEW d \in Servers, NEW t \in Servers PROVE live[d].reps[t].vec.obj \in Nat
    OBVIOUS
  <2>1. live[d].reps[t].vec \in USNVectors
    BY DbFields DEF TypeInv, StoreType
  <2> QED BY <2>1, USNVectorFields
<1>12. RepsKept
  BY <1>9, <1>11 DEF RepsKept
<1> QED BY <1>4, <1>8, <1>9, <1>10, <1>12 DEF MarksInv

\* The source does not fall behind the watermark presented under its id.
LEMMA RequestedForward ==
  ASSUME TypeInv, NEW s \in Servers, NEW utd \in Vectors, NEW req \in Requests, req.id \in {NoId, curId[s]}
  PROVE  req.vec.obj <= RequestedFrom(s, utd, req).obj
<1> DEFINE id  == req.id
           vec == req.vec
<1>1. vec \in USNVectors /\ id \in Ids \cup {NoId} /\ vec.obj \in Nat
  BY RequestFields, USNVectorFields
<1>2. CASE req.full
  <2>1. [vec EXCEPT !.prop = 0].obj = vec.obj
    BY <1>1 DEF USNVectors
  <2> QED BY <1>1, <1>2, <2>1 DEF RequestedFrom
<1>3. CASE ~req.full
  <2>1. RequestedFrom(s, utd, req) = DraImproveCallersUsnVector(s, utd, id, vec)
    BY <1>3 DEF RequestedFrom
  <2>2. id \in {curId[s], NoId}
    OBVIOUS
  <2> HIDE DEF id, vec
  <2>3. PICK rolled \in USNVectors, i \in Ids, m \in Nat :
           /\ id \in {curId[s], NoId} => rolled = vec
           /\ DraImproveCallersUsnVector(s, utd, id, vec) = Raise(Raise(rolled, utd[curId[s]]), m)
    BY <1>1, ImproveIs
  <2>4. utd[curId[s]] \in Nat
    BY VectorAt DEF TypeInv, StoreType
  <2>5. \A v \in USNVectors, n \in Nat : Raise(v, n) \in USNVectors /\ v.obj <= Raise(v, n).obj
    <3> SUFFICES ASSUME NEW v \in USNVectors, NEW n \in Nat
                 PROVE  Raise(v, n) \in USNVectors /\ v.obj <= Raise(v, n).obj
      OBVIOUS
    <3>1. v.obj \in Nat /\ v.prop \in Nat
      BY USNVectorFields
    <3> QED BY <3>1, RaiseOK DEF Raise
  <2> DEFINE own == Raise(vec, utd[curId[s]])
  <2>6. own \in USNVectors /\ vec.obj <= own.obj
    BY <1>1, <2>4, <2>5
  <2> HIDE DEF own
  <2>7. Raise(own, m) \in USNVectors /\ own.obj <= Raise(own, m).obj
    BY <2>5, <2>6
  <2>8. own.obj \in Nat /\ Raise(own, m).obj \in Nat
    BY <2>6, <2>7, USNVectorFields
  <2>9. vec.obj <= Raise(own, m).obj
    BY <1>1, <2>6, <2>7, <2>8
  <2> QED BY <2>1, <2>2, <2>3, <2>9 DEF own, vec
<1> QED BY <1>2, <1>3

\* Nothing happens to the databases.
LEMMA NoStore ==
  MarksInv /\ live' = live /\ disk' = disk
    => \A s \in Servers : SameReps(live[s], live'[s]) /\ SameReps(live[s], disk'[s])
BY DEF MarksInv, RepsOK, SameReps

LEMMA StartSyncForward ==
  ASSUME TypeInv, MarksInv, NEW d \in Servers, NEW s \in Servers, StartSync(d, s)
  PROVE  MarksInv' /\ RepsKept
<1> DEFINE reps == live[d].reps[s]
           req  == Request(reps.vec, reps.id, FALSE, FALSE)
           V    == UpToDateVec_Read(d, DBGetHighestCommittedUSN(d))
           c    == [Idle EXCEPT !.pc = "wait", !.src = s, !.req = req, !.utd = V]
<1>1. /\ cyc' = [cyc EXCEPT ![d] = c] /\ rpc' = [rpc EXCEPT ![d] = Sent(req)]
      /\ UNCHANGED <<live, disk, curId>>
  BY DEF StartSync
<1>2. reps \in [id : Ids \cup {NoId}, vec : USNVectors]
  BY DbFields DEF TypeInv, StoreType
<1>3. req \in Requests /\ req.vec = reps.vec /\ req.id = reps.id
  BY <1>2, RequestType DEF Request
<1>4. reps.vec.obj \in Nat /\ reps.id \in {NoId, curId[s]}
  BY <1>2, USNVectorFields DEF MarksInv, RepsOK
<1> HIDE DEF req, V
<1>5. c.pc = "wait" /\ c.src = s /\ c.req = req
  BY DEF Idle
<1>6. Sent(req).st = "sent" /\ Sent(req).req = req
  BY <1>3, SentType
<1> HIDE DEF c
<1>7. Forward(live[d].reps, curId, c, Sent(req))
  BY <1>3, <1>4, <1>5, <1>6 DEF Forward
<1> QED BY <1>1, <1>7, NoStore, ForwardSet

LEMMA GetNCChangesMarkForward ==
  ASSUME TypeInv, MarksInv, NEW d \in Servers, GetNCChangesMark(d)
  PROVE  MarksInv' /\ RepsKept
<1> DEFINE s == cyc[d].src
           f == RequestedFrom(s, cyc[d].utd, rpc[d].req)
           u == 1 + DBGetHighestCommittedUSN(s)
           r == [rpc[d] EXCEPT !.st = "marked", !.from = f, !.usnLowestC = u]
<1>1. /\ rpc[d].st = "sent"
      /\ rpc' = [rpc EXCEPT ![d].st = "marked", ![d].from = f, ![d].usnLowestC = u]
      /\ UNCHANGED <<live, disk, curId, cyc>>
  BY DEF GetNCChangesMark
<1>2. cyc[d] \in Cycles /\ rpc[d] \in Calls /\ rpc[d].req \in Requests /\ s \in Servers /\ cyc[d].utd \in Vectors
  BY <1>1, CallTypes, CallFields, CycleFields
<1>3. Forward(live[d].reps, curId, cyc[d], rpc[d])
  BY DEF MarksInv
<1>4. rpc[d].req.vec.obj <= f.obj
  <2>1. rpc[d].req.id \in {NoId, curId[s]}
    BY <1>1, <1>3 DEF Forward
  <2> DEFINE q == rpc[d].req
  <2> HIDE DEF q
  <2> QED BY <1>2, <2>1, RequestedForward DEF q
<1> HIDE DEF f, u
<1>5. r.st = "marked" /\ r.req = rpc[d].req /\ r.from = f
  BY <1>2 DEF Calls
<1>6. rpc' = [rpc EXCEPT ![d] = r] /\ cyc' = [cyc EXCEPT ![d] = cyc[d]]
  BY <1>1 DEF TypeInv, CommType, Calls
<1> HIDE DEF r
<1>7. Forward(live[d].reps, curId, cyc[d], r)
  BY <1>1, <1>3, <1>4, <1>5 DEF Forward
<1> QED BY <1>1, <1>6, <1>7, NoStore, ForwardSet

LEMMA CallFailsForward ==
  ASSUME TypeInv, MarksInv, NEW d \in Servers, CallFails(d)
  PROVE  MarksInv' /\ RepsKept
<1> DEFINE r == [rpc[d] EXCEPT !.st = "failed"]
<1>1. /\ rpc[d].st \in {"sent", "marked"} /\ rpc' = [rpc EXCEPT ![d].st = "failed"]
      /\ UNCHANGED <<live, disk, curId, cyc>>
  BY DEF CallFails
<1>2. rpc' = [rpc EXCEPT ![d] = r] /\ cyc' = [cyc EXCEPT ![d] = cyc[d]] /\ rpc[d] \in Calls
  BY <1>1 DEF TypeInv, CommType, Calls
<1>3. r.st = "failed" /\ r.req = rpc[d].req
  BY <1>2 DEF Calls
<1>4. Forward(live[d].reps, curId, cyc[d], rpc[d])
  BY DEF MarksInv
<1> HIDE DEF r
<1>5. Forward(live[d].reps, curId, cyc[d], r)
  BY <1>1, <1>3, <1>4 DEF Forward
<1> QED BY <1>1, <1>2, <1>5, NoStore, ForwardSet

LEMMA DRA_GetNCChangesForward ==
  ASSUME TypeInv, MarksInv, NEW d \in Servers, DRA_GetNCChanges(d)
  PROVE  MarksInv' /\ RepsKept
<1> DEFINE s == cyc[d].src
<1>1. /\ rpc[d].st = "marked"
      /\ disk' = [disk EXCEPT ![s] = live[s]]
      /\ UNCHANGED <<live, image, curId, usn, pending, cyc, born, expired, count>>
  BY AnswerType, Zenon
<1>2. PICK visited \in SUBSET Objs, more \in BOOLEAN :
        rpc' = [rpc EXCEPT ![d] = [NoCall EXCEPT !.st = "reply", !.req = rpc[d].req,
                                                 !.reply = Reply(d, visited, more)]]
  BY AnswerType, Zenon
<1> DEFINE rep == Reply(d, visited, more)
           r == [NoCall EXCEPT !.st = "reply", !.req = rpc[d].req, !.reply = rep]
           mark == WatermarkAfter(live[s], visited, rpc[d].from, rpc[d].usnLowestC)
<1>3. /\ cyc[d] \in Cycles /\ rpc[d] \in Calls /\ s \in Servers /\ live[s] \in Databases
      /\ rpc[d].from \in USNVectors /\ rpc[d].usnLowestC \in Nat /\ rpc[d].req \in Requests
  BY <1>1, CallTypes, CallFields
<1>4. Forward(live[d].reps, curId, cyc[d], rpc[d])
  BY DEF MarksInv
<1>5. rep.to.obj = mark /\ rep.id = curId[s]
  BY DEF Reply, UsnVectorTo
<1>6. mark \in Nat /\ rpc[d].from.obj <= mark
  BY <1>3, WatermarkOK
<1> HIDE DEF rep, mark
<1>7. rpc[d].req.vec.obj \in Nat /\ rpc[d].from.obj \in Nat /\ rpc[d].req.vec.obj <= rpc[d].from.obj
  BY <1>1, <1>3, <1>4, RequestFields, USNVectorFields DEF Forward
<1>8. rpc[d].req.vec.obj <= rep.to.obj
  BY <1>5, <1>6, <1>7
<1>9. r.st = "reply" /\ r.req = rpc[d].req /\ r.reply = rep
  BY DEF NoCall
<1>10. rpc' = [rpc EXCEPT ![d] = r] /\ cyc' = [cyc EXCEPT ![d] = cyc[d]]
  BY <1>1, <1>2 DEF TypeInv, CommType, rep
<1> HIDE DEF r
<1>11. Forward(live[d].reps, curId, cyc[d], r)
  BY <1>1, <1>4, <1>5, <1>8, <1>9 DEF Forward
<1>12. \A t \in Servers : SameReps(live[t], live'[t]) /\ SameReps(live[t], disk'[t])
  BY <1>1, <1>3, SameStores DEF MarksInv
<1> QED BY <1>1, <1>10, <1>11, <1>12, ForwardSet

LEMMA ReceivePacketForward ==
  ASSUME TypeInv, ShapeInv, MarksInv, NEW d \in Servers, ReceivePacket(d)
  PROVE  MarksInv' /\ RepsKept
<1> DEFINE pkt == rpc[d].reply
           req == Request(pkt.to, pkt.id, FALSE, FALSE)
           c == [cyc[d] EXCEPT !.pc = "apply", !.pkt = pkt]
           r == IF pkt.more THEN Sent(req) ELSE NoCall
<1>1. cyc[d].pc = "wait" /\ rpc[d].st = "reply" /\ UNCHANGED <<live, disk, curId>>
  BY DEF ReceivePacket
<1>2. cyc[d] \in Cycles /\ rpc[d] \in Calls
  BY <1>1, CallTypes
<1>3. cyc' = [cyc EXCEPT ![d] = c] /\ rpc' = [rpc EXCEPT ![d] = r]
  BY <1>2 DEF ReceivePacket, TypeInv, CommType, Cycles
<1>4. pkt \in Replies
  BY <1>2, CallFields
<1>5. req \in Requests /\ req.id = pkt.id
  BY <1>4, ReplyFields, RequestType DEF Request
<1>6. r.st = "none" \/ (r.st = "sent" /\ r.req.id = pkt.id)
  BY <1>5, SentType, NothingLed
<1>7. c.pc = "apply" /\ c.pkt = pkt /\ c.req = cyc[d].req /\ c.src = cyc[d].src /\ rpc[d].req = cyc[d].req
  BY <1>1, <1>2 DEF Cycles, ShapeInv, CommOK, CallOK
<1>8. Forward(live[d].reps, curId, cyc[d], rpc[d])
  BY DEF MarksInv
<1> HIDE DEF c, r
<1>9. Forward(live[d].reps, curId, c, r)
  BY <1>1, <1>6, <1>7, <1>8 DEF Forward
<1> QED BY <1>1, <1>3, <1>9, NoStore, ForwardSet

\* The cycle ends, or waits for another packet, and nothing is stored.
LEMMA LeaveIs ==
  ASSUME NEW d \in Servers, NEW c \in Cycles, Leave(d, c), NEW R, NEW K,
         R[c.src].vec.obj <= c.req.vec.obj, c.req.id \in {NoId, K[c.src]}
  PROVE  \E c2, r2 : /\ cyc' = [cyc EXCEPT ![d] = c2] /\ rpc' = [rpc EXCEPT ![d] = r2]
                     /\ Forward(R, K, c2, r2)
<1> DEFINE c2 == [c EXCEPT !.pc = "labort", !.pkt = NoReply]
<1>1. cyc' = [cyc EXCEPT ![d] = c2] /\ rpc' = [rpc EXCEPT ![d] = NoCall]
  BY DEF Leave
<1>2. c2.pc = "labort" /\ c2.src = c.src /\ c2.req = c.req
  BY DEF Cycles
<1> HIDE DEF c2
<1>3. Forward(R, K, c2, NoCall)
  BY <1>2, NothingLed DEF Forward
<1> QED BY <1>1, <1>3

LEMMA NextPacketIs ==
  ASSUME TypeInv, NEW d \in Servers, NEW c \in Cycles, NextPacket(d, c), NEW R, NEW K,
         c.src = cyc[d].src, Forward(live[d].reps, K, cyc[d], rpc[d]),
         R[c.src].vec.obj <= c.req.vec.obj, c.req.id \in {NoId, K[c.src]}
  PROVE  \E c2, r2 : /\ cyc' = [cyc EXCEPT ![d] = c2] /\ rpc' = [rpc EXCEPT ![d] = r2]
                     /\ Forward(R, K, c2, r2)
<1> DEFINE c2 == [c EXCEPT !.pc = "wait", !.pkt = NoReply]
           r2 == IF rpc[d].st # "none" /\ rpc[d].req = c.req THEN rpc[d] ELSE Sent(c.req)
<1>1. cyc' = [cyc EXCEPT ![d] = c2] /\ rpc' = [rpc EXCEPT ![d] = r2]
  BY DEF NextPacket, TypeInv, CommType
<1>2. c2.pc = "wait" /\ c2.src = c.src /\ c2.req = c.req
  BY DEF Cycles
<1>3. r2 = rpc[d] \/ (r2.st = "sent" /\ r2.req = c.req)
  BY SentType, CycleFields
<1> HIDE DEF c2, r2
<1>4. Forward(R, K, c2, r2)
  BY <1>2, <1>3 DEF Forward
<1> QED BY <1>1, <1>4

\* Server d stores watermark q of its source.
LEMMA ForwardStored ==
  ASSUME TypeInv, MarksInv, curId' = curId, NEW d \in Servers, NEW s \in Servers, NEW q \in Requests,
         DurableCommit(d, StoreRepsFrom(live[d], s, q)),
         live[d].reps[s].vec.obj <= q.vec.obj, q.id \in {NoId, curId[s]},
         NEW c, NEW r, Forward(StoreRepsFrom(live[d], s, q).reps, curId, c, r),
         cyc' = [cyc EXCEPT ![d] = c], rpc' = [rpc EXCEPT ![d] = r]
  PROVE  MarksInv' /\ RepsKept
<1> DEFINE E == StoreRepsFrom(live[d], s, q)
<1>1. /\ E.id = live[d].id
      /\ \A t \in Servers : E.reps[t].vec = IF t = s THEN q.vec ELSE live[d].reps[t].vec
      /\ \A t \in Servers : E.reps[t].id = IF t = s THEN q.id ELSE live[d].reps[t].id
  BY StoreRepsFromOK DEF TypeInv, StoreType
<1>2. /\ \A t \in Servers : live'[t] = (IF t = d THEN E ELSE live[t]) /\ disk'[t] = (IF t = d THEN E ELSE disk[t])
      /\ \A t \in Servers : cyc'[t] = (IF t = d THEN c ELSE cyc[t]) /\ rpc'[t] = (IF t = d THEN r ELSE rpc[t])
  BY DEF DurableCommit, TypeInv, StoreType, CommType
<1>3. \A t, u \in Servers : live[t].reps[u].vec.obj \in Nat
  <2> SUFFICES ASSUME NEW t \in Servers, NEW u \in Servers PROVE live[t].reps[u].vec.obj \in Nat
    OBVIOUS
  <2>1. live[t].reps[u].vec \in USNVectors
    BY DbFields DEF TypeInv, StoreType
  <2> QED BY <2>1, USNVectorFields
<1>4. Forward(E.reps, curId, c, r)
  OBVIOUS
<1> HIDE DEF E
<1>5. RepsOK'
  BY <1>1, <1>2 DEF MarksInv, RepsOK
<1>6. RepsKept
  BY <1>1, <1>2, <1>3 DEF RepsKept
<1>7. \A t \in Servers : Forward(live'[t].reps, curId', cyc'[t], rpc'[t])
  BY <1>2, <1>4 DEF MarksInv
<1> QED BY <1>5, <1>6, <1>7 DEF MarksInv

\* What the cycle of d has to do with the watermark stored at d.
LEMMA ForwardAt ==
  ASSUME TypeInv, MarksInv, NEW d \in Servers, cyc[d].pc # "idle"
  PROVE  /\ cyc[d] \in Cycles /\ cyc[d].src \in Servers /\ cyc[d].req \in Requests /\ live[d] \in Databases
         /\ Forward(live[d].reps, curId, cyc[d], rpc[d])
         /\ live[d].reps[cyc[d].src].vec.obj \in Nat /\ cyc[d].req.vec.obj \in Nat
         /\ live[d].reps[cyc[d].src].vec.obj <= cyc[d].req.vec.obj
         /\ cyc[d].req.id \in {NoId, curId[cyc[d].src]}
<1>1. cyc[d] \in Cycles /\ cyc[d].src \in Servers /\ live[d] \in Databases
  BY DEF TypeInv, CommType, StoreType
<1>2. cyc[d].req \in Requests /\ cyc[d].req.vec \in USNVectors
  BY <1>1, CycleFields, RequestFields
<1>3. live[d].reps[cyc[d].src].vec \in USNVectors
  BY <1>1, DbFields
<1>4. live[d].reps[cyc[d].src].vec.obj \in Nat /\ cyc[d].req.vec.obj \in Nat
  BY <1>2, <1>3, USNVectorFields
<1>5. Forward(live[d].reps, curId, cyc[d], rpc[d])
  BY DEF MarksInv
<1>6. /\ live[d].reps[cyc[d].src].vec.obj <= cyc[d].req.vec.obj
      /\ cyc[d].req.id \in {NoId, curId[cyc[d].src]}
  BY <1>5 DEF Forward
<1> QED BY <1>1, <1>2, <1>4, <1>5, <1>6

LEMMA UpdateNCForward ==
  ASSUME TypeInv, MarksInv, NEW d \in Servers, UpdateNC(d)
  PROVE  MarksInv' /\ RepsKept
<1> DEFINE c == cyc[d]
           e == First(c.pkt.objs)
<1>1. c.pc = "apply" /\ c.pkt.objs # {} /\ curId' = curId
  BY UpdateNCIs
<1>2. /\ c \in Cycles /\ c.src \in Servers /\ live[d] \in Databases
      /\ c.pkt \in Replies /\ c.pkt.objs \subseteq Entries /\ e \in c.pkt.objs
  BY <1>1, ApplyTypes
<1>3. /\ Forward(live[d].reps, curId, c, rpc[d]) /\ c.req \in Requests
      /\ live[d].reps[c.src].vec.obj <= c.req.vec.obj
      /\ c.req.id \in {NoId, curId[c.src]}
  BY <1>1, ForwardAt
<1>4. ASSUME NEW q \in Requests, NextPacket(d, [c EXCEPT !.req = q]), UNCHANGED <<live, disk>>,
             q.vec = c.req.vec, q.id = c.req.id
      PROVE  MarksInv' /\ RepsKept
  <2> DEFINE c1 == [c EXCEPT !.req = q]
  <2>1. c1 \in Cycles /\ c1.src = c.src /\ c1.req = q
    BY <1>2 DEF Cycles
  <2>0. NextPacket(d, c1)
    BY <1>4
  <2> HIDE DEF c1
  <2>2. \E c2, r2 : /\ cyc' = [cyc EXCEPT ![d] = c2] /\ rpc' = [rpc EXCEPT ![d] = r2]
                    /\ Forward(live[d].reps, curId, c2, r2)
    BY <1>2, <1>3, <1>4, <2>0, <2>1, NextPacketIs
  <2> QED BY <1>1, <1>4, <2>2, NoStore, ForwardSet
<1>5. /\ [c.req EXCEPT !.full = TRUE].vec = c.req.vec /\ [c.req EXCEPT !.full = TRUE].id = c.req.id
      /\ [c.req EXCEPT !.anc = TRUE].vec = c.req.vec /\ [c.req EXCEPT !.anc = TRUE].id = c.req.id
  BY <1>3 DEF Requests
<1>6. CASE NextPacket(d, [c EXCEPT !.req.full = TRUE]) /\ UNCHANGED <<live, disk, usn>>
  BY <1>2, <1>4, <1>5, <1>6, AskAgain
<1>7. CASE NextPacket(d, [c EXCEPT !.req.anc = TRUE]) /\ UNCHANGED <<live, disk, usn>>
  BY <1>2, <1>4, <1>5, <1>7, AskAgain
<1>8. CASE Leave(d, c) /\ UNCHANGED <<live, disk, usn>>
  <2>1. \E c2, r2 : /\ cyc' = [cyc EXCEPT ![d] = c2] /\ rpc' = [rpc EXCEPT ![d] = r2]
                    /\ Forward(live[d].reps, curId, c2, r2)
    BY <1>2, <1>3, <1>8, LeaveIs
  <2> QED BY <1>1, <1>8, <2>1, NoStore, ForwardSet
<1>9. ASSUME UpdateRepObj(d, e, MissingParent(live[d], e))
      PROVE  MarksInv' /\ RepsKept
  <2> DEFINE D == live[d]
             orphan == MissingParent(D, e)
             row == RowPut(D, e, Winners(D, e), orphan, curId[d], usn[d])
             E == WrittenRow(D, e.obj, row)
             p == [c.pkt EXCEPT !.objs = @ \ {e}]
             c2 == [c EXCEPT !.pkt = p]
  <2>1. /\ Winners(D, e) = {} => UNCHANGED <<live, disk, usn>>
        /\ Winners(D, e) # {} => live' = [live EXCEPT ![d] = E] /\ UNCHANGED disk
        /\ cyc' = [cyc EXCEPT ![d].pkt.objs = @ \ {e}] /\ UNCHANGED rpc
    BY <1>9, UpdateRepObjIs
  <2>2. e \in Entries /\ e.obj \in Objs /\ curId[d] \in Ids /\ usn[d] \in Nat
    BY <1>2, EntryFields DEF TypeInv, StoreType
  <2>3. row \in [Attrs -> Stamps]
    <3> HIDE DEF e
    <3>1. orphan \in BOOLEAN
      BY DEF MissingParent
    <3> HIDE DEF orphan
    <3> QED BY <1>2, <2>2, <3>1, RowPutOK, Zenon
  <2>4. SameReps(live[d], E)
    <3> HIDE DEF row, e, D
    <3> QED BY <1>2, <2>2, <2>3, RowType DEF D, SameReps
  <2>5. /\ cyc' = [cyc EXCEPT ![d] = c2] /\ rpc' = [rpc EXCEPT ![d] = rpc[d]]
    BY <2>1, RestOfPacket DEF TypeInv, CommType
  <2>6. p.to = c.pkt.to /\ p.id = c.pkt.id
    BY <1>2 DEF Replies
  <2> HIDE DEF p, E
  <2>7. c2.pc = "apply" /\ c2.pkt = p /\ c2.req = c.req /\ c2.src = c.src
    BY <1>1, <1>2 DEF Cycles
  <2> HIDE DEF c2
  <2>8. Forward(live[d].reps, curId, c2, rpc[d])
    BY <1>1, <1>3, <2>6, <2>7 DEF Forward
  <2>9. \A t \in Servers : SameReps(live[t], live'[t]) /\ SameReps(live[t], disk'[t])
    BY <2>1, <2>4, SameStores DEF MarksInv
  <2> QED BY <1>1, <2>5, <2>8, <2>9, ForwardSet
<1> HIDE DEF c, e
<1>10. \/ NextPacket(d, [c EXCEPT !.req.full = TRUE]) /\ UNCHANGED <<live, disk, usn>>
       \/ NextPacket(d, [c EXCEPT !.req.anc = TRUE]) /\ UNCHANGED <<live, disk, usn>>
       \/ Leave(d, c) /\ UNCHANGED <<live, disk, usn>>
       \/ UpdateRepObj(d, e, MissingParent(live[d], e))
  BY UpdateNCIs, Zenon DEF c, e
<1> QED BY <1>6, <1>7, <1>8, <1>9, <1>10, Zenon

\* The packet's watermark is not behind the one that was asked from.
LEMMA PacketMark ==
  ASSUME TypeInv, MarksInv, NEW d \in Servers, cyc[d].pc = "apply", NEW q,
         q = Request(cyc[d].pkt.to, cyc[d].pkt.id, FALSE, FALSE)
  PROVE  /\ q \in Requests /\ live[d].reps[cyc[d].src].vec.obj <= q.vec.obj
         /\ q.id \in {NoId, curId[cyc[d].src]} /\ q.vec.obj \in Nat
<1>1. cyc[d].pkt \in Replies
  BY ApplyTypes
<1>2. q \in Requests /\ q.vec = cyc[d].pkt.to /\ q.id = cyc[d].pkt.id
  BY <1>1, ReplyFields, RequestType DEF Request
<1>3. q.vec.obj \in Nat
  BY <1>2, RequestFields, USNVectorFields
<1>4. /\ live[d].reps[cyc[d].src].vec.obj \in Nat /\ cyc[d].req.vec.obj \in Nat
      /\ live[d].reps[cyc[d].src].vec.obj <= cyc[d].req.vec.obj
      /\ Forward(live[d].reps, curId, cyc[d], rpc[d])
  BY ForwardAt
<1>5. cyc[d].req.vec.obj <= cyc[d].pkt.to.obj /\ cyc[d].pkt.id \in {NoId, curId[cyc[d].src]}
  BY <1>4 DEF Forward
<1>6. cyc[d].req.vec.obj <= q.vec.obj /\ q.id \in {NoId, curId[cyc[d].src]}
  <2>1. q.vec.obj = cyc[d].pkt.to.obj
    BY ONLY <1>2
  <2>2. cyc[d].req.vec.obj <= q.vec.obj
    BY ONLY <1>5, <2>1, Zenon
  <2>3. q.id \in {NoId, curId[cyc[d].src]}
    BY ONLY <1>2, <1>5, Zenon
  <2> QED BY <2>2, <2>3
<1>7. live[d].reps[cyc[d].src].vec.obj <= q.vec.obj
  BY ONLY <1>3, <1>4, <1>6
<1> QED BY ONLY <1>2, <1>3, <1>6, <1>7, Zenon

LEMMA PacketDoneForward ==
  ASSUME TypeInv, MarksInv, NEW d \in Servers, PacketDone(d)
  PROVE  MarksInv' /\ RepsKept
<1> DEFINE c   == cyc[d]
           req == Request(c.pkt.to, c.pkt.id, FALSE, FALSE)
           n   == (c.packets + 1) % PersistEvery
           c1  == [c EXCEPT !.req = req, !.preemptable = TRUE, !.packets = n]
           E   == StoreRepsFrom(live[d], c.src, req)
<1>1. /\ c.pc = "apply" /\ curId' = curId /\ NextPacket(d, c1)
      /\ DurableCommit(d, E) \/ UNCHANGED <<live, disk>>
  BY DEF PacketDone
<1>2. c \in Cycles /\ c.src \in Servers /\ live[d] \in Databases /\ Forward(live[d].reps, curId, c, rpc[d])
  BY <1>1, ForwardAt
<1>3. /\ req \in Requests /\ live[d].reps[c.src].vec.obj <= req.vec.obj
      /\ req.id \in {NoId, curId[c.src]} /\ req.vec.obj \in Nat
  BY <1>1, PacketMark
<1>4. n \in Nat
  BY <1>2, CycleFields, PersistAssumption
<1> HIDE DEF req, n
<1>5. c1 \in Cycles /\ c1.src = c.src /\ c1.req = req
  BY <1>2, <1>3, <1>4 DEF Cycles
<1> HIDE DEF c1
<1>6. E.reps[c.src].vec.obj <= req.vec.obj
  <2>1. E.reps[c.src].vec = req.vec
    BY <1>2, <1>3, StoreRepsFromOK
  <2> QED BY <1>3, <2>1
<1> HIDE DEF E
<1>7. ASSUME NEW R, R[c.src].vec.obj <= req.vec.obj
      PROVE  \E c2, r2 : /\ cyc' = [cyc EXCEPT ![d] = c2] /\ rpc' = [rpc EXCEPT ![d] = r2]
                         /\ Forward(R, curId, c2, r2)
  BY <1>1, <1>2, <1>3, <1>5, <1>7, NextPacketIs
<1>8. CASE DurableCommit(d, E)
  <2>1. PICK c2, r2 : /\ cyc' = [cyc EXCEPT ![d] = c2] /\ rpc' = [rpc EXCEPT ![d] = r2]
                      /\ Forward(E.reps, curId, c2, r2)
    BY <1>6, <1>7
  <2> QED BY <1>1, <1>2, <1>3, <1>8, <2>1, ForwardStored DEF E
<1>9. CASE UNCHANGED <<live, disk>>
  <2>1. PICK c2, r2 : /\ cyc' = [cyc EXCEPT ![d] = c2] /\ rpc' = [rpc EXCEPT ![d] = r2]
                      /\ Forward(live[d].reps, curId, c2, r2)
    BY <1>3, <1>7
  <2> QED BY <1>1, <1>9, <2>1, NoStore, ForwardSet
<1> QED BY <1>1, <1>8, <1>9

LEMMA CycleDoneForward ==
  ASSUME TypeInv, MarksInv, NEW d \in Servers, CycleDone(d)
  PROVE  MarksInv' /\ RepsKept
<1> DEFINE c   == cyc[d]
           req == Request(c.pkt.to, c.pkt.id, FALSE, FALSE)
           c1  == [c EXCEPT !.req = req]
           E   == UpToDateVec_Improve(live[d], c.pkt.utd, curId[d])
<1>1. c.pc = "apply" /\ DurableCommit(d, E) /\ Leave(d, c1) /\ curId' = curId
  BY DEF CycleDone
<1>2. c \in Cycles /\ c.src \in Servers /\ live[d] \in Databases /\ c.pkt \in Replies /\ curId[d] \in Ids
  BY <1>1, ApplyTypes DEF TypeInv, StoreType
<1>3. /\ req \in Requests /\ live[d].reps[c.src].vec.obj <= req.vec.obj
      /\ req.id \in {NoId, curId[c.src]} /\ req.vec.obj \in Nat
  BY <1>1, PacketMark
<1>4. SameReps(live[d], E)
  BY <1>2, ReplyFields, ImproveOK DEF SameReps
<1> HIDE DEF req, E
<1>5. c1 \in Cycles /\ c1.src = c.src /\ c1.req = req
  BY <1>2, <1>3 DEF Cycles
<1> HIDE DEF c1
<1>6. PICK c2, r2 : /\ cyc' = [cyc EXCEPT ![d] = c2] /\ rpc' = [rpc EXCEPT ![d] = r2]
                    /\ Forward(live[d].reps, curId, c2, r2)
  BY <1>1, <1>3, <1>5, LeaveIs
<1>7. live' = [live EXCEPT ![d] = E] /\ disk' = [disk EXCEPT ![d] = live'[d]]
  BY <1>1 DEF DurableCommit, TypeInv, StoreType
<1>8. \A t \in Servers : SameReps(live[t], live'[t]) /\ SameReps(live[t], disk'[t])
  BY <1>4, <1>7, SameStores DEF MarksInv
<1> QED BY <1>1, <1>6, <1>8, ForwardSet

LEMMA LeavingForward ==
  ASSUME TypeInv, MarksInv, NEW d \in Servers, Preempt(d) \/ CallFailed(d)
  PROVE  MarksInv' /\ RepsKept
<1>1. Leave(d, cyc[d]) /\ UNCHANGED <<live, disk, curId>> /\ cyc[d].pc # "idle"
  BY DEF Preempt, CallFailed
<1>2. PICK c2, r2 : /\ cyc' = [cyc EXCEPT ![d] = c2] /\ rpc' = [rpc EXCEPT ![d] = r2]
                    /\ Forward(live[d].reps, curId, c2, r2)
  BY <1>1, ForwardAt, LeaveIs
<1> QED BY <1>1, <1>2, NoStore, ForwardSet

LEMMA LabortForward ==
  ASSUME TypeInv, MarksInv, NEW d \in Servers, Labort(d)
  PROVE  MarksInv' /\ RepsKept
<1>1. /\ cyc[d].pc = "labort" /\ DurableCommit(d, StoreRepsFrom(live[d], cyc[d].src, cyc[d].req))
      /\ cyc' = [cyc EXCEPT ![d] = Idle] /\ UNCHANGED <<rpc, curId>>
  BY DEF Labort
<1>2. rpc[d].st = "none" /\ rpc' = [rpc EXCEPT ![d] = rpc[d]]
  BY <1>1 DEF TypeInv, CommType
<1>3. \A R : Forward(R, curId, Idle, rpc[d])
  BY <1>2 DEF Forward, Idle
<1>4. /\ cyc[d].src \in Servers /\ cyc[d].req \in Requests
      /\ live[d].reps[cyc[d].src].vec.obj <= cyc[d].req.vec.obj
      /\ cyc[d].req.id \in {NoId, curId[cyc[d].src]}
  BY <1>1, ForwardAt
<1> DEFINE s == cyc[d].src
           q == cyc[d].req
<1>5. /\ s \in Servers /\ q \in Requests /\ live[d].reps[s].vec.obj <= q.vec.obj
      /\ q.id \in {NoId, curId[s]} /\ DurableCommit(d, StoreRepsFrom(live[d], s, q))
  BY <1>1, <1>4
<1> HIDE DEF s, q
<1> QED BY <1>1, <1>2, <1>3, <1>5, ForwardStored

LEMMA InitMarks == Init => MarksInv
<1> SUFFICES ASSUME Init PROVE MarksInv
  OBVIOUS
<1>1. \A d \in Servers : /\ live[d].id = d /\ disk[d] = live[d] /\ curId[d] = d
                         /\ cyc[d] = Idle /\ rpc[d] = NoCall
                         /\ \A s \in Servers : live[d].reps[s].id = NoId
  BY DEF Init
<1>2. \A R, K : Forward(R, K, Idle, NoCall)
  BY DEF Forward, Idle, NoCall
<1> QED BY <1>1, <1>2 DEF MarksInv, RepsOK

LEMMA StepMarks ==
  TypeInv /\ ShapeInv /\ MarksInv /\ [Next]_vars /\ [\A s \in Servers : ~Restore(s) /\ ~DraHostWriteableNc(s)]_vars
    => MarksInv' /\ RepsKept
<1> SUFFICES ASSUME TypeInv, ShapeInv, MarksInv, [Next]_vars,
                    [\A s \in Servers : ~Restore(s) /\ ~DraHostWriteableNc(s)]_vars
             PROVE  MarksInv' /\ RepsKept
  OBVIOUS
<1>1. ASSUME NEW s \in Servers,
             \/ \E o \in Objs, a \in Attrs : OriginatingWrite(s, o, a)
             \/ CommitWrite(s) \/ RollbackWrite(s) \/ Flush(s)
             \/ \E o \in Leaves : Expire(s, o)
             \/ Crash(s) \/ Backup(s)
      PROVE  MarksInv' /\ RepsKept
  BY <1>1, StoreForward, CrashForward
<1>2. ASSUME NEW d \in Servers,
             \/ \E s \in Servers : StartSync(d, s)
             \/ GetNCChangesMark(d) \/ DRA_GetNCChanges(d)
             \/ ReceivePacket(d) \/ UpdateNC(d) \/ PacketDone(d) \/ CycleDone(d)
             \/ Preempt(d) \/ CallFails(d) \/ CallFailed(d) \/ Labort(d)
      PROVE  MarksInv' /\ RepsKept
  BY <1>2, StartSyncForward, GetNCChangesMarkForward, DRA_GetNCChangesForward, ReceivePacketForward,
     UpdateNCForward, PacketDoneForward, CycleDoneForward, LeavingForward, CallFailsForward, LabortForward
<1>3. CASE UNCHANGED vars
  <2>1. curId' = curId /\ UNCHANGED <<live, disk, cyc, rpc>>
    BY <1>3 DEF vars
  <2> QED BY <2>1, NoStore, ForwardSame
<1>4. CASE Next /\ \A s \in Servers : ~Restore(s) /\ ~DraHostWriteableNc(s)
  BY <1>1, <1>2, <1>4 DEF Next
<1> QED BY <1>3, <1>4

\* As long as no server changes its invocation id, the watermark a destination has
\* stored for a source never moves back, neither by the cycles that StoreRepsFrom
\* ends early or late nor by a crash that loses lazy commits: the source answers with
\* one that is not behind the one it was asked from, whatever packets are asked for
\* again, and the prefetched packet of NEXTPKT starts where the last one ended.
THEOREM WatermarksAreKept ==
  Spec /\ [][\A s \in Servers : ~Restore(s) /\ ~DraHostWriteableNc(s)]_vars => WatermarkKept
<1> DEFINE Inv == TypeInv /\ ShapeInv /\ MarksInv
           Kept == \A d, s \in Servers :
                     \/ live'[d].reps[s].id # live[d].reps[s].id
                     \/ live'[d].reps[s].vec.obj >= live[d].reps[s].vec.obj
                     \/ live'[d].id # live[d].id
<1>1. Init => Inv
  BY InitType, InitShape, InitMarks
<1>2. Inv /\ [Next]_vars /\ [\A s \in Servers : ~Restore(s) /\ ~DraHostWriteableNc(s)]_vars => Inv' /\ Kept
  <2> SUFFICES ASSUME Inv, [Next]_vars, [\A s \in Servers : ~Restore(s) /\ ~DraHostWriteableNc(s)]_vars
               PROVE  Inv' /\ Kept
    OBVIOUS
  <2>1. MarksInv' /\ RepsKept
    BY StepMarks
  <2>2. TypeInv' /\ ShapeInv'
    BY StepType, StepShape
  <2>3. ASSUME NEW d \in Servers, NEW s \in Servers
        PROVE  live'[d].reps[s].vec.obj >= live[d].reps[s].vec.obj
    <3>1. live[d].reps[s].vec.obj <= live'[d].reps[s].vec.obj
      BY <2>1 DEF RepsKept
    <3> QED BY <3>1
  <2> QED BY <2>1, <2>2, <2>3
<1>3. WatermarkKept <=> [][Kept]_vars
  BY DEF WatermarkKept
<1> HIDE DEF Inv, Kept
<1> QED BY <1>1, <1>2, <1>3, PTL DEF Spec

\* The first half on its own: a server never claims, to partners that leave out what
\* it claims, a write it lacks (UpToDateVec_Improve at the end of a cycle, and the
\* highest committed USN it reports for its own id).
THEOREM ClaimsAreSound ==
  Spec /\ [][\A s \in Servers : ~Restore(s)]_vars => []UTDSound
<1>1. NothingLost => UTDSound
  BY DEF NothingLost
<1> QED BY <1>1, NothingIsLost, PTL

\* The second half: what the watermark of DraImproveCallersUsnVector makes a source
\* pass over, the caller has, whether its last cycle ended, was cut off or crashed.
THEOREM SkippedAreThere ==
  Spec /\ [][\A s \in Servers : ~Restore(s)]_vars => []SkippedIsThere
<1>1. NothingLost => SkippedIsThere
  BY DEF NothingLost
<1> QED BY <1>1, NothingIsLost, PTL
=============================================================================
