------------------------------ MODULE DraRepl ------------------------------
(***************************************************************************)
(* Replication of one naming context between servers.                      *)
(*                                                                         *)
(* A destination asks a source for changes, presenting the watermark it    *)
(* stored for that source (repsFrom: a USN vector and the invocation id it *)
(* belongs to) and its up-to-dateness vector.  The source answers with     *)
(* packets cut from a read transaction; the destination applies them       *)
(* object by object, each in a transaction of its own, and acknowledges a  *)
(* packet by asking from the watermark it carried.  At the end of a cycle  *)
(* it improves its vector with the source's and stores the watermark.      *)
(*                                                                         *)
(* Sources: ntdsa/dra/drancrep.c (ReplicateNC, UpdateNC, UpdateRepObj),    *)
(* dragtchg.c (DRA_GetNCChanges), drameta.c, drasig.c, drasync.c.          *)
(*                                                                         *)
(* An attribute is represented by the stamp of its last write, ordered by  *)
(* version, invocation id and USN; ReplMeta has the full order.  USNs are  *)
(* those of module Usn: a write of a client is open between taking its USN *)
(* and its commit, and "the highest committed USN" lies below it.  All     *)
(* replicas are writable; linked values, partial replicas and full syncs   *)
(* on request are left out.                                                *)
(***************************************************************************)
EXTENDS Integers, Sequences, FiniteSets, FiniteSetsExt, SequencesExt

CONSTANTS
  N,             \* the servers are 1 .. N
  Links,         \* pairs <<destination, source>> with a repsFrom
  NCHead,        \* the head of the naming context, present everywhere
  Leaves,        \* the other objects
  Ancestors,     \* per leaf, its ancestors below the head, topmost first
  PersistEvery,  \* UPDATE_REPSFROM_PACKET_INTERVAL
  Writers,       \* bound: the servers whose clients write
  Backups,       \* bound: the servers that are backed up
  MaxWrites,     \* bound: originating writes
  MaxOpen,       \* bound: writes of clients open at the same time
  MaxSyncs,      \* bound: cycles, 0 for no bound
  MaxActive,     \* bound: cycles at the same time
  CutPackets,    \* bound: do packets meet a limit at all?
  MaxAborts,     \* bound: cycles preempted or cut off by the network
  MaxCrashes,    \* bound: crashes
  MaxExpired,    \* bound: dynamic objects that expire on a server
  MaxIds         \* bound: invocation ids (N are in use from the start)

ASSUME ServersAssumption == N \in Nat /\ MaxIds \in Nat /\ MaxIds >= N
ASSUME PersistAssumption == PersistEvery \in Nat \ {0}
ASSUME ObjsAssumption    == NCHead \notin Leaves /\ IsFiniteSet(Leaves)
ASSUME AncestorsAssumption ==
  \A o \in Leaves : /\ Ancestors[o] \in Seq(Leaves)
                    /\ \A i \in 1 .. Len(Ancestors[o]) :
                         Ancestors[Ancestors[o][i]] = SubSeq(Ancestors[o], 1, i - 1)
ASSUME BoundsAssumption  ==
  {MaxWrites, MaxOpen, MaxSyncs, MaxActive, MaxAborts, MaxCrashes, MaxExpired} \subseteq Nat

Servers == 1 .. N
Ids     == 1 .. MaxIds
Objs    == Leaves \cup {NCHead}
Attrs   == {"rdn", "val"}  \* what a creation needs, and everything else
NoId    == 0

ASSUME LinksAssumption == Links \subseteq Servers \X Servers

\* A stamp; usn is the local USN of the write that stored it and lf says that
\* the name puts the object under LostAndFound.
Stamps == [ver : Nat, id : Ids \cup {NoId}, ousn : Nat, lf : BOOLEAN, usn : Nat]
None   == [ver |-> 0, id |-> NoId, ousn |-> 0, lf |-> FALSE, usn |-> 0]

USNVectors == [obj : Nat, prop : Nat]
Scratch    == [obj |-> 0, prop |-> 0]  \* gusnvecFromScratch
Vectors    == [Ids -> Nat]             \* up-to-dateness, 0 for no cursor
NoVec      == [i \in Ids |-> 0]

\* What a database holds: stamps, the vector, repsFrom, the invocation id and
\* the retired ones with the USN each was retired at (0 for none).
Databases == [db : [Objs -> [Attrs -> Stamps]], utd : Vectors,
              reps : [Servers -> [id : Ids \cup {NoId}, vec : USNVectors]],
              id : Ids, retired : Vectors]

VARIABLES
  live,     \* what each server's transactions see
  disk,     \* what a crash of it leaves
  image,    \* its last backup, or NoImage
  curId,    \* gAnchor.pCurrInvocationID
  usn,      \* the next USN it hands out
  pending,  \* its clients' writes that are not committed
  cyc,      \* its inbound replication cycle (the locals of ReplicateNC)
  rpc,      \* the call DRSGetNCChanges it has outstanding
  born,     \* the leaves ever created
  expired,  \* the leaves that expired somewhere
  count     \* how much of the bounds is used up

vars == <<live, disk, image, curId, usn, pending, cyc, rpc, born, expired, count>>

NoImage == [db |-> 0]
NoReply == [objs |-> {}, to |-> Scratch, id |-> NoId, more |-> FALSE, utd |-> NoVec]

\* A request: the watermark, the invocation id it belongs to, and the flags
\* DRS_GET_ANC and DRS_FULL_SYNC_PACKET.
Request(vec, id, anc, full) == [vec |-> vec, id |-> id, anc |-> anc, full |-> full]
NoRequest == Request(Scratch, NoId, FALSE, FALSE)

Idle   == [pc |-> "idle", src |-> 0, utd |-> NoVec, req |-> NoRequest,
           pkt |-> NoReply, preemptable |-> FALSE, packets |-> 0]
NoCall == [st |-> "none", req |-> NoRequest, from |-> Scratch, usnLowestC |-> 0,
           reply |-> NoReply]
Sent(req) == [NoCall EXCEPT !.st = "sent", !.req = req]

Init ==
  /\ live = [s \in Servers |->
       [db |-> [o \in Objs |-> [a \in Attrs |-> None]], utd |-> NoVec,
        reps |-> [t \in Servers |-> [id |-> NoId, vec |-> Scratch]],
        id |-> s, retired |-> NoVec]]
  /\ disk = live
  /\ image = [s \in Servers |-> NoImage]
  /\ curId = [s \in Servers |-> s]
  /\ usn = [s \in Servers |-> 1]
  /\ pending = [s \in Servers |-> {}]
  /\ cyc = [s \in Servers |-> Idle]
  /\ rpc = [s \in Servers |-> NoCall]
  /\ born = {} /\ expired = {}
  /\ count = [writes |-> 0, syncs |-> 0, aborts |-> 0, crashes |-> 0, expired |-> 0,
              ids |-> N]

-----------------------------------------------------------------------------
(* Helpers.                                                                *)

\* Mutant of Newer: equal versions are a tie.
NewerVersion(x, y) == x.ver > y.ver

\* ReplCompareMetaData, the order of stamps.
Newer(x, y) ==
  \/ x.ver > y.ver
  \/ x.ver = y.ver /\ x.id > y.id
  \/ x.ver = y.ver /\ x.id = y.id /\ x.ousn > y.ousn

Exists(D, o) == o = NCHead \/ D.db[o]["rdn"] # None

usnChanged(D, o) == Max({D.db[o][a].usn : a \in Attrs})

\* Does D hold this stamp of the attribute, or one that supersedes it?
Has(D, o, a, stamp) == ~Newer(stamp, D.db[o][a])

\* Where D puts object o, according to the stamp of its name.
AncestorsOf(o, rdn) == IF o = NCHead \/ rdn.lf THEN <<>> ELSE Ancestors[o]
ParentOf(o, rdn)    == IF AncestorsOf(o, rdn) = <<>> THEN NCHead
                                                     ELSE Last(AncestorsOf(o, rdn))

\* Mutant of DBGetHighestCommittedUSN: one too low.
DBGetHighestCommittedUSNLow(s) ==
  Min({usn[s]} \cup {w.stamp.usn : w \in pending[s]}) - 2

\* See module Usn: every USN up to this one is committed or rolled back.
DBGetHighestCommittedUSN(s) ==
  Min({usn[s]} \cup {w.stamp.usn : w \in pending[s]}) - 1

\* UpToDateVec_Read with UTODVEC_fUpdateLocalCursor.
UpToDateVec_Read(s, usnLocal) == [live[s].utd EXCEPT ![curId[s]] = usnLocal]

UpToDateVec_Improve(D, utd, own) ==
  [D EXCEPT !.utd = [i \in Ids |-> IF i # own /\ utd[i] > @[i] THEN utd[i] ELSE @[i]]]

\* The two kinds of commit: a lazy one reaches the disk some time later, a
\* durable one takes every earlier one with it.
LazyCommit(s, D) == live' = [live EXCEPT ![s] = D] /\ UNCHANGED disk
DurableCommit(s, D) ==
  /\ live' = [live EXCEPT ![s] = D]
  /\ disk' = [disk EXCEPT ![s] = D]

Used(what) == count' = [count EXCEPT ![what] = @ + 1]

-----------------------------------------------------------------------------
(* Writes of clients, and the database.                                    *)

\* A client creates object o, renames it in place or changes its value: the
\* stamp takes the next USN; the transaction stays open.
OriginatingWrite(s, o, a) ==
  /\ s \in Writers /\ Cardinality(pending[s]) < MaxOpen
  /\ \A w \in pending[s] : w.obj # o  \* else a write conflict
  /\ count.writes < MaxWrites /\ Used("writes")
  /\ \/ /\ a = "rdn" /\ o \in Leaves \ born
        /\ Exists(live[s], ParentOf(o, None))
        /\ born' = born \cup {o}
     \/ /\ a = "rdn" => o \in Leaves
        /\ Exists(live[s], o)
        /\ UNCHANGED born
  /\ pending' = [pending EXCEPT ![s] = @ \cup
       {[obj |-> o, attr |-> a,
         stamp |-> [ver |-> live[s].db[o][a].ver + 1, id |-> curId[s],
                    ousn |-> usn[s], lf |-> live[s].db[o][a].lf, usn |-> usn[s]]]}]
  /\ usn' = [usn EXCEPT ![s] = @ + 1]
  /\ UNCHANGED <<live, disk, image, curId, cyc, rpc, expired>>

\* It commits or is rolled back; transactions end in any order.
CommitWrite(s) ==
  \E w \in pending[s] :
    /\ LazyCommit(s, [live[s] EXCEPT !.db[w.obj][w.attr] = w.stamp])
    /\ pending' = [pending EXCEPT ![s] = @ \ {w}]
    /\ UNCHANGED <<image, curId, usn, cyc, rpc, born, expired, count>>

RollbackWrite(s) ==
  \E w \in pending[s] :
    /\ pending' = [pending EXCEPT ![s] = @ \ {w}]
    /\ UNCHANGED <<live, disk, image, curId, usn, cyc, rpc, born, expired, count>>

\* The log reaches the disk.
Flush(s) ==
  /\ disk[s] # live[s]
  /\ count.crashes < MaxCrashes
  /\ disk' = [disk EXCEPT ![s] = live[s]]
  /\ UNCHANGED <<live, image, curId, usn, pending, cyc, rpc, born, expired, count>>

\* A dynamic object disappears when its time has come, without a tombstone.
Expire(s, o) ==
  /\ count.expired < MaxExpired /\ Used("expired")
  /\ Exists(live[s], o) /\ pending[s] = {}
  /\ \A c \in Leaves : Exists(live[s], c)
       => ParentOf(c, live[s].db[c]["rdn"]) # o
  /\ LazyCommit(s, [live[s] EXCEPT !.db[o] = [a \in Attrs |-> None]])
  /\ expired' = expired \cup {o}
  /\ UNCHANGED <<image, curId, usn, pending, cyc, rpc, born>>

-----------------------------------------------------------------------------
(* The source: DRA_GetNCChanges, called by destination d.                  *)

\* Raise a watermark to what the destination has by other ways.
Raise(vec, n) == [prop |-> Max({vec.prop, n}),
                  obj  |-> IF n > vec.prop /\ n > vec.obj THEN n ELSE vec.obj]

\* Mutant of DraImproveCallersUsnVector: the presented id is not looked at.
DraImproveCallersUsnVectorAnyId(s, utd, id, vec) ==
  LET own    == Raise(vec, utd[curId[s]])
      common == {Min({live[s].retired[i], utd[i]}) : i \in Ids}
  IN  Raise(own, Max(common))

\* The watermark of a destination with vector utd, which presented it with
\* invocation id id: lowered when the server was restored since, useless when
\* the id is unknown, raised to what the vector says is there already.
DraImproveCallersUsnVector(s, utd, id, vec) ==
  LET rolled == IF id \in {curId[s], NoId} \/ vec = Scratch THEN vec
                ELSE IF live[s].retired[id] = 0 THEN Scratch
                ELSE [obj  |-> Min({vec.obj, live[s].retired[id]}),
                      prop |-> Min({vec.prop, live[s].retired[id]})]
      own    == Raise(rolled, utd[curId[s]])
      common == {Min({live[s].retired[i], utd[i]}) : i \in Ids}
  IN  Raise(own, Max(common))

\* Mutant of RequestedFrom: a full packet keeps the property watermark.
RequestedFromKeepsProp(s, utd, req) ==
  IF req.full THEN req.vec ELSE DraImproveCallersUsnVector(s, utd, req.id, req.vec)

\* The watermark the source works with; a full packet is for every attribute.
RequestedFrom(s, utd, req) ==
  IF req.full THEN [req.vec EXCEPT !.prop = 0]
              ELSE DraImproveCallersUsnVector(s, utd, req.id, req.vec)

\* The source looks at the request and notes the lowest uncommitted USN; its
\* read transaction starts later.
GetNCChangesMark(d) ==
  LET s == cyc[d].src
  IN  /\ rpc[d].st = "sent"
      /\ rpc' = [rpc EXCEPT ![d].st = "marked",
                            ![d].from = RequestedFrom(s, cyc[d].utd, rpc[d].req),
                            ![d].usnLowestC = 1 + DBGetHighestCommittedUSN(s)]
      /\ UNCHANGED <<live, disk, image, curId, usn, pending, cyc, born, expired, count>>

\* What is shipped of object o: the attributes above the property watermark
\* that the destination's vector does not cover.
ReplFilterPropsToShip(D, o, usnHighProp, utd) ==
  {a \in Attrs : /\ D.db[o][a].usn > usnHighProp
                 /\ D.db[o][a].ousn > (IF D.db[o][a].id = NoId THEN 0
                                       ELSE utd[D.db[o][a].id])}

\* The objects the scan finds: the head, which its index does not hold, and the
\* others, all by the USN of their last change.
Scanned(D, usnHighObj) == {o \in Objs : Exists(D, o) /\ usnChanged(D, o) > usnHighObj}

\* Mutant of WithAncestors: DRS_GET_ANC is ignored.
WithoutAncestors(D, visited, anc) == visited

\* The objects put in the reply for the visited ones: with DRS_GET_ANC their
\* ancestors too.
WithAncestors(D, visited, anc) ==
  visited \cup UNION {ToSet(AncestorsOf(o, D.db[o]["rdn"])) : o \in IF anc THEN visited ELSE {}}

\* Where in the reply: with the first object visited, the head or by last change,
\* that brings it along, and behind its ancestors.
Place(D, visited, anc, o) ==
  [with  |-> Min({IF v = NCHead THEN 0 ELSE usnChanged(D, v) :
                    v \in {v \in visited : o \in WithAncestors(D, {v}, anc)}}),
   depth |-> IF o = NCHead THEN 0 ELSE Len(Ancestors[o]) + 1]

\* Mutant of WatermarkAfter: it passes uncommitted USNs.
WatermarkAfterAll(D, visited, from, usnLowestC) ==
  Max({from.obj} \cup {usnChanged(D, o) : o \in visited \ {NCHead}})

\* The object watermark after the visited objects, below every USN that was
\* not committed before the read transaction began.
WatermarkAfter(D, visited, from, usnLowestC) ==
  Max({from.obj} \cup {u \in {usnChanged(D, o) : o \in visited \ {NCHead}} :
                         u < usnLowestC})

\* Mutant of UsnVectorTo: the property watermark follows in every packet.
UsnVectorToEarly(obj, from, more) == [obj |-> obj, prop |-> obj]

\* The watermark sent along.  In the middle of a cycle objects are yet to be
\* visited that have attributes with lower USNs, so its second part stays.
UsnVectorTo(obj, from, more) == [obj |-> obj, prop |-> IF more THEN from.prop ELSE obj]

\* Mutant of VectorSent: the own cursor is read at the end.
VectorSentLate(s, usnLowestC, more) ==
  IF more THEN NoVec ELSE UpToDateVec_Read(s, usn[s] - 1)

\* The source's vector, with the USN noted before the read transaction; only
\* sent when there is no more data.
VectorSent(s, usnLowestC, more) ==
  IF more THEN NoVec ELSE UpToDateVec_Read(s, usnLowestC - 1)

\* The reply with the visited objects: more when a limit on objects, bytes or time
\* was met.
Reply(d, visited, more) ==
  LET s    == cyc[d].src
      D    == live[s]
      from == rpc[d].from
      req  == rpc[d].req
      Ships(o) == ReplFilterPropsToShip(D, o, from.prop, IF req.full THEN NoVec ELSE cyc[d].utd)
  IN  [objs |-> {[obj |-> o, place |-> Place(D, visited, req.anc, o),
                  md  |-> [a \in Ships(o) |-> [D.db[o][a] EXCEPT !.usn = 0]]] :
                   o \in {o \in WithAncestors(D, visited, req.anc) : Ships(o) # {}}},
       to   |-> UsnVectorTo(WatermarkAfter(D, visited, from, rpc[d].usnLowestC), from, more),
       id   |-> curId[s],
       more |-> more,
       utd  |-> VectorSent(s, rpc[d].usnLowestC, more)]

\* Mutant of DBForceDurableCommit: the packet may hold lazily committed writes.
NoDurableCommit(s) == UNCHANGED disk

\* All that the read transaction sees is made durable before it is sent.
DBForceDurableCommit(s) == disk' = [disk EXCEPT ![s] = live[s]]

\* The read transaction: it sees one state of the database and sends a packet,
\* complete or cut off after some object.  The limits are so wide that the head
\* alone does not meet one.
DRA_GetNCChanges(d) ==
  LET s     == cyc[d].src
      D     == live[s]
      found == Scanned(D, rpc[d].from.obj)
      UpTo(last) == {o \in found : o = NCHead \/ usnChanged(D, o) <= usnChanged(D, last)}
      Answer(reply) == [NoCall EXCEPT !.st = "reply", !.req = rpc[d].req, !.reply = reply]
  IN  /\ rpc[d].st = "marked"
      /\ DBForceDurableCommit(s)
      /\ \/ rpc' = [rpc EXCEPT ![d] = Answer(Reply(d, found, FALSE))]
         \/ /\ CutPackets
            /\ \E last \in found \ {NCHead} :
                 rpc' = [rpc EXCEPT ![d] = Answer(Reply(d, UpTo(last), TRUE))]
      /\ UNCHANGED <<live, image, curId, usn, pending, cyc, born, expired, count>>

-----------------------------------------------------------------------------
(* The destination: ReplicateNC, run for the one worker of the queue.      *)

\* DRA_ReplicaSync reads the stored watermark and the vector, with the highest
\* committed USN as the own cursor, and sends the first request.
StartSync(d, s) ==
  LET reps == live[d].reps[s]
      req  == Request(reps.vec, reps.id, FALSE, FALSE)
  IN  /\ <<d, s>> \in Links /\ cyc[d].pc = "idle"
      /\ Cardinality({t \in Servers : cyc[t].pc # "idle"}) < MaxActive
      /\ \/ MaxSyncs = 0 /\ UNCHANGED count
         \/ count.syncs < MaxSyncs /\ Used("syncs")
      /\ cyc' = [cyc EXCEPT ![d] =
           [Idle EXCEPT !.pc = "wait", !.src = s, !.req = req,
              !.utd = UpToDateVec_Read(d, DBGetHighestCommittedUSN(d))]]
      /\ rpc' = [rpc EXCEPT ![d] = Sent(req)]
      /\ UNCHANGED <<live, disk, image, curId, usn, pending, born, expired>>

\* The reply arrives.  With more to come the next packet is asked for at once,
\* before this one is applied.
ReceivePacket(d) ==
  LET pkt == rpc[d].reply
  IN  /\ cyc[d].pc = "wait" /\ rpc[d].st = "reply"
      /\ cyc' = [cyc EXCEPT ![d].pc = "apply", ![d].pkt = pkt]
      /\ rpc' = [rpc EXCEPT ![d] = IF pkt.more THEN Sent(Request(pkt.to, pkt.id, FALSE, FALSE))
                                               ELSE NoCall]
      /\ UNCHANGED <<live, disk, image, curId, usn, pending, born, expired, count>>

\* NEXTPKT: wait for the prefetched packet if it is the one wanted now, else
\* throw it away and ask again.
NextPacket(d, c) ==
  /\ cyc' = [cyc EXCEPT ![d] = [c EXCEPT !.pc = "wait", !.pkt = NoReply]]
  /\ rpc' = [rpc EXCEPT ![d] = IF @.st # "none" /\ @.req = c.req THEN @ ELSE Sent(c.req)]

\* The cycle ends, with or without success; LABORT is next.
Leave(d, c) ==
  /\ cyc' = [cyc EXCEPT ![d] = [c EXCEPT !.pc = "labort", !.pkt = NoReply]]
  /\ rpc' = [rpc EXCEPT ![d] = NoCall]

\* The object of a packet that comes first.
First(objs) ==
  CHOOSE e \in objs : \A f \in objs : \/ e.place.with < f.place.with
                                      \/ /\ e.place.with = f.place.with
                                         /\ e.place.depth <= f.place.depth

\* The attributes of an inbound object whose stamps win against the local ones.
Winners(D, e) == {a \in DOMAIN e.md : Newer(e.md[a], D.db[e.obj][a])}

\* DRAERR_NotEnoughAttrs: too little to create the object.
NotEnoughAttrs(D, e) == ~Exists(D, e.obj) /\ "rdn" \notin DOMAIN e.md

\* DRAERR_MissingParent: the object is new or moved, its parent is not here.
MissingParent(D, e) ==
  /\ ~NotEnoughAttrs(D, e)
  /\ "rdn" \in Winners(D, e)
  /\ ~Exists(D, ParentOf(e.obj, e.md["rdn"]))

\* An open transaction of a client has written the object.
WriteConflict(d, e) == Winners(live[d], e) # {} /\ \E w \in pending[d] : w.obj = e.obj

\* UpdateRepObj in a transaction of its own, committed lazily.  The winners get
\* one new local USN; nothing is written when there are none.  With orphan the
\* object goes to LostAndFound: its name becomes a write of this server.
UpdateRepObj(d, e, orphan) ==
  LET D   == live[d]
      won == Winners(D, e)
      Put(a) == IF a \notin won THEN D.db[e.obj][a]
                ELSE IF orphan /\ a = "rdn"
                THEN [ver |-> e.md[a].ver + 1, id |-> curId[d], ousn |-> usn[d],
                      lf |-> TRUE, usn |-> usn[d]]
                ELSE [e.md[a] EXCEPT !.usn = usn[d]]
  IN  /\ IF won = {} THEN UNCHANGED <<live, disk, usn>>
         ELSE /\ LazyCommit(d, [D EXCEPT !.db[e.obj] = [a \in Attrs |-> Put(a)]])
              /\ usn' = [usn EXCEPT ![d] = @ + 1]
      /\ cyc' = [cyc EXCEPT ![d].pkt.objs = @ \ {e}]
      /\ UNCHANGED rpc

\* Apply the next object of the packet.
UpdateNC(d) ==
  LET c == cyc[d]
      e == First(c.pkt.objs)
      D == live[d]
  IN  /\ c.pc = "apply" /\ c.pkt.objs # {}
      /\ \/ /\ NotEnoughAttrs(D, e)   \* ask for this packet with all attributes
            /\ NextPacket(d, [c EXCEPT !.req.full = TRUE])
            /\ UNCHANGED <<live, disk, usn>>
         \/ /\ MissingParent(D, e) /\ ~c.req.anc  \* ... with the ancestors
            /\ NextPacket(d, [c EXCEPT !.req.anc = TRUE])
            /\ UNCHANGED <<live, disk, usn>>
         \/ /\ ~NotEnoughAttrs(D, e) /\ (MissingParent(D, e) => c.req.anc)
            /\ \/ /\ WriteConflict(d, e) /\ Leave(d, c)  \* DRAERR_Busy
                  /\ UNCHANGED <<live, disk, usn>>
               \/ ~WriteConflict(d, e) /\ UpdateRepObj(d, e, MissingParent(D, e))
      /\ UNCHANGED <<image, curId, pending, born, expired, count>>

StoreRepsFrom(D, s, req) == [D EXCEPT !.reps[s] = [id |-> req.id, vec |-> req.vec]]

\* The packet is applied and there is more: acknowledge it, by asking from its
\* watermark, and store the watermark every so many packets.
PacketDone(d) ==
  LET c    == cyc[d]
      req  == Request(c.pkt.to, c.pkt.id, FALSE, FALSE)
      n    == (c.packets + 1) % PersistEvery
  IN  /\ c.pc = "apply" /\ c.pkt.objs = {} /\ c.pkt.more
      /\ IF n = 0 THEN DurableCommit(d, StoreRepsFrom(live[d], c.src, req))
                  ELSE UNCHANGED <<live, disk>>
      /\ NextPacket(d, [c EXCEPT !.req = req, !.preemptable = TRUE, !.packets = n])
      /\ UNCHANGED <<image, curId, usn, pending, born, expired, count>>

\* The last packet is applied: what the source has, this server has now.
CycleDone(d) ==
  LET c == cyc[d]
  IN  /\ c.pc = "apply" /\ c.pkt.objs = {} /\ ~c.pkt.more
      /\ DurableCommit(d, UpToDateVec_Improve(live[d], c.pkt.utd, curId[d]))
      /\ Leave(d, [c EXCEPT !.req = Request(c.pkt.to, c.pkt.id, FALSE, FALSE)])
      /\ UNCHANGED <<image, curId, usn, pending, born, expired, count>>

\* A higher priority operation waits: stop after a packet or an object.  The
\* packet at hand is not acknowledged.
Preempt(d) ==
  /\ cyc[d].preemptable /\ count.aborts < MaxAborts /\ Used("aborts")
  /\ cyc[d].pc = "apply" \/ (cyc[d].pc = "wait" /\ rpc[d].st = "reply")
  /\ Leave(d, cyc[d])
  /\ UNCHANGED <<live, disk, image, curId, usn, pending, born, expired>>

\* The network or the source fails the call.
CallFails(d) ==
  /\ rpc[d].st \in {"sent", "marked"}
  /\ count.aborts < MaxAborts /\ Used("aborts")
  /\ rpc' = [rpc EXCEPT ![d].st = "failed"]
  /\ UNCHANGED <<live, disk, image, curId, usn, pending, cyc, born, expired>>

\* ... which the destination notices when it waits for the reply.
CallFailed(d) ==
  /\ cyc[d].pc = "wait" /\ rpc[d].st = "failed"
  /\ Leave(d, cyc[d])
  /\ UNCHANGED <<live, disk, image, curId, usn, pending, born, expired, count>>

\* Mutant of Labort: what the cycle acknowledged is lost, it starts over.
LabortFromScratch(d) ==
  /\ cyc[d].pc = "labort"
  /\ DurableCommit(d, [live[d] EXCEPT !.reps[cyc[d].src].vec = Scratch])
  /\ cyc' = [cyc EXCEPT ![d] = Idle]
  /\ UNCHANGED <<image, curId, usn, pending, rpc, born, expired, count>>

\* LABORT: the watermark of the last acknowledged packet is stored.
Labort(d) ==
  /\ cyc[d].pc = "labort"
  /\ DurableCommit(d, StoreRepsFrom(live[d], cyc[d].src, cyc[d].req))
  /\ cyc' = [cyc EXCEPT ![d] = Idle]
  /\ UNCHANGED <<image, curId, usn, pending, rpc, born, expired, count>>

-----------------------------------------------------------------------------
(* Crash, backup and restore, change of the invocation id.                 *)

\* Server s goes down: its own cycle and the calls it serves are gone.
Down(s) ==
  /\ pending' = [pending EXCEPT ![s] = {}]
  /\ cyc' = [cyc EXCEPT ![s] = Idle]
  /\ rpc' = [d \in Servers |->
       IF d = s THEN NoCall
       ELSE IF cyc[d].src = s /\ rpc[d].st \in {"sent", "marked"}
       THEN [rpc[d] EXCEPT !.st = "failed"] ELSE rpc[d]]

\* The USNs go on where they were: the hidden record is ahead (module Usn).
Crash(s) ==
  /\ count.crashes < MaxCrashes /\ Used("crashes")
  /\ live' = [live EXCEPT ![s] = disk[s]]
  /\ curId' = [curId EXCEPT ![s] = disk[s].id]
  /\ Down(s)
  /\ UNCHANGED <<disk, image, usn, born, expired>>

\* A backup, with the USNs known to be in it and those to go on from.
Backup(s) ==
  /\ s \in Backups /\ count.ids < MaxIds /\ image[s] = NoImage
  /\ DurableCommit(s, live[s])
  /\ image' = [image EXCEPT ![s] =
       [db |-> live[s], backupUsn |-> DBGetHighestCommittedUSN(s), usn |-> usn[s]]]
  /\ UNCHANGED <<curId, usn, pending, cyc, rpc, born, expired, count>>

\* draRetireInvocationID: id i was used up to USN n, the database goes on as new.
draRetireInvocationID(D, i, n, new) ==
  [D EXCEPT !.id = new, !.retired[i] = n, !.utd[i] = Max({@, n})]

\* Mutant of Restore: the server goes on under the id of the backup.
RestoreSameId(s) ==
  /\ count.ids < MaxIds /\ image[s] # NoImage /\ Used("ids")
  /\ DurableCommit(s, image[s].db)
  /\ curId' = [curId EXCEPT ![s] = image[s].db.id]
  /\ usn' = [usn EXCEPT ![s] = image[s].usn]
  /\ Down(s)
  /\ UNCHANGED <<image, born, expired>>

\* Put the backup back and boot: HandleRestore retires the id of the backup.
Restore(s) ==
  /\ count.ids < MaxIds /\ image[s] # NoImage /\ Used("ids")
  /\ DurableCommit(s, draRetireInvocationID(image[s].db, image[s].db.id,
                                            image[s].backupUsn, count.ids + 1))
  /\ curId' = [curId EXCEPT ![s] = count.ids + 1]
  /\ usn' = [usn EXCEPT ![s] = image[s].usn]
  /\ Down(s)
  /\ UNCHANGED <<image, born, expired>>

\* Another naming context is hosted again, which changes the invocation id.
\* It happens inside the transaction that adds the head of that context; when
\* that is rolled back the new id stays in memory but not in the database.
DraHostWriteableNc(s) ==
  /\ count.ids < MaxIds /\ Used("ids")
  /\ curId' = [curId EXCEPT ![s] = count.ids + 1]
  /\ \/ DurableCommit(s, draRetireInvocationID(live[s], curId[s],
                           DBGetHighestCommittedUSN(s), count.ids + 1))
     \/ UNCHANGED <<live, disk>>
  /\ UNCHANGED <<image, usn, pending, cyc, rpc, born, expired>>

Next ==
  \/ \E s \in Servers :
       \/ \E o \in Objs, a \in Attrs : OriginatingWrite(s, o, a)
       \/ CommitWrite(s) \/ RollbackWrite(s) \/ Flush(s)
       \/ \E o \in Leaves : Expire(s, o)
       \/ Crash(s) \/ Backup(s) \/ Restore(s) \/ DraHostWriteableNc(s)
  \/ \E d \in Servers :
       \/ \E s \in Servers : StartSync(d, s)
       \/ GetNCChangesMark(d) \/ DRA_GetNCChanges(d)
       \/ ReceivePacket(d) \/ UpdateNC(d) \/ PacketDone(d) \/ CycleDone(d)
       \/ Preempt(d) \/ CallFails(d) \/ CallFailed(d) \/ Labort(d)

Spec == Init /\ [][Next]_vars

SourceStep(d) == GetNCChangesMark(d) \/ DRA_GetNCChanges(d)
DestStep(d)   == ReceivePacket(d) \/ UpdateNC(d) \/ PacketDone(d) \/ CycleDone(d)
                   \/ CallFailed(d) \/ Labort(d)

\* Transactions end, calls are served, the worker works, and every source is
\* tried again by the periodic synchronisation.
Fairness ==
  /\ \A s \in Servers : WF_vars(CommitWrite(s) \/ RollbackWrite(s))
  /\ \A d \in Servers : WF_vars(SourceStep(d)) /\ WF_vars(DestStep(d))
  /\ \A d, s \in Servers : SF_vars(StartSync(d, s))

FairSpec == Spec /\ Fairness

-----------------------------------------------------------------------------
(* Properties.                                                             *)

TypeOK ==
  /\ live \in [Servers -> Databases]
  /\ disk \in [Servers -> Databases]
  /\ curId \in [Servers -> Ids]
  /\ usn \in [Servers -> Nat]
  /\ \A s \in Servers : {w.stamp : w \in pending[s]} \subseteq Stamps
  /\ \A d \in Servers : cyc[d].utd \in Vectors /\ cyc[d].req.vec \in USNVectors
  /\ \A d \in Servers : rpc[d].from \in USNVectors

\* What server d tells others it has, its own writes included.
Claim(d, i) == IF i = curId[d] THEN DBGetHighestCommittedUSN(d) ELSE live[d].utd[i]

\* A server that claims to have the writes of an invocation id up to a USN
\* (its vector, and for its own id the highest committed USN) has each such
\* write that exists anywhere, or one that supersedes it.  Otherwise nobody
\* would ever send it again.
UTDSound ==
  \A d, t \in Servers, o \in Objs \ expired, a \in Attrs :
    LET stamp == live[t].db[o][a]
    IN  stamp # None /\ stamp.ousn <= Claim(d, stamp.id) => Has(live[d], o, a, stamp)

\* Whatever a cycle that starts now would skip at the source, because of the
\* stored watermark or because of the vector, the destination has.
SkippedIsThere ==
  \A link \in Links :
    LET d    == link[1]
        s    == link[2]
        from == DraImproveCallersUsnVector(s, UpToDateVec_Read(d, DBGetHighestCommittedUSN(d)),
                                           live[d].reps[s].id, live[d].reps[s].vec)
    IN  \A o \in Objs \ expired, a \in Attrs :
          (live[s].db[o][a].usn <= from.prop \/ usnChanged(live[s], o) <= from.obj)
            => Has(live[d], o, a, live[s].db[o][a])

\* DraImproveCallersUsnVector says of a watermark that belongs to an id retired by
\* a restore: the changes up to the USN of the backup "are identical, which dest
\* claims to have seen", so the lower of the two USNs is where to go on.  Not so
\* for a watermark stored between two packets: an object that was changed after
\* the backup waited for a later packet, and is back with its old USN.
SeenBeforeRestore ==
  \A link \in Links :
    LET d    == link[1]
        s    == link[2]
        reps == live[d].reps[s]
    IN  reps.id # NoId /\ live[s].retired[reps.id] # 0 =>
          \A o \in Objs \ expired, a \in Attrs :
            usnChanged(live[s], o) <= Min({reps.vec.obj, live[s].retired[reps.id]})
              => Has(live[d], o, a, live[s].db[o][a])

\* No write is lost for a replica: neither does it claim what it does not have,
\* nor would its next cycle pass over it.
NothingLost == UTDSound /\ SkippedIsThere

\* A packet asked for with all attributes never lacks those a creation needs:
\* ReplicateNC asserts that it need not ask a second time.
FullPacketSuffices ==
  \A d \in Servers : cyc[d].pc = "apply" /\ cyc[d].pkt.objs # {} /\ cyc[d].req.full
    => ~NotEnoughAttrs(live[d], First(cyc[d].pkt.objs))

\* Every object a server holds has its parent there, whatever the order in
\* which packets bring them; and as long as nothing expires it is the parent the
\* writer chose: asking for the ancestors is enough, nothing goes to LostAndFound.
ParentPresent ==
  \A s \in Servers, o \in Leaves : Exists(live[s], o)
    => /\ Exists(live[s], ParentOf(o, live[s].db[o]["rdn"]))
       /\ expired = {} => ~live[s].db[o]["rdn"].lf

\* The stored object watermark of a source never moves back while the source
\* keeps its invocation id; a restored destination starts over.
WatermarkKept ==
  [][\A d, s \in Servers :
       \/ live'[d].reps[s].id # live[d].reps[s].id
       \/ live'[d].reps[s].vec.obj >= live[d].reps[s].vec.obj
       \/ live'[d].id # live[d].id]_vars

\* Replicas agree in the end, once clients stop writing.
Converges ==
  <>[](\A s, t \in Servers, o \in Objs, a \in Attrs :
         [live[s].db[o][a] EXCEPT !.usn = 0] = [live[t].db[o][a] EXCEPT !.usn = 0])
=============================================================================
