------------------------------ MODULE ReplMeta ------------------------------
(***************************************************************************)
(* Conflict resolution for one replicated attribute.                       *)
(*                                                                         *)
(* Every server keeps one stamp of the attribute (PROPERTY_META_DATA):     *)
(* version, time and originating server.  The stamps order the writes; an  *)
(* inbound write is applied when its stamp wins.  Versions are DWORDs that *)
(* wrap around, so the order is only a cyclic one.                         *)
(*                                                                         *)
(* A server may also put a stamp that loses over the one it holds: when it *)
(* makes up a name for an object (ReplUnderrideMetaData), on a read-only   *)
(* replica in a name conflict and on any replica when the parent of the    *)
(* object goes away or its name is taken; and when an administrator forces *)
(* a full synchronisation.  Such a server is said to fall.                 *)
(*                                                                         *)
(* Sources: ntdsa/dra/drameta.c, drancrep.c, ntdsa/dblayer/dbmeta.c,       *)
(* ntdsa/src/mdmoddn.c.                                                    *)
(*                                                                         *)
(* The value travels with the stamp and is left out: a stamp is made once, *)
(* with the USN usn of the server id, and stands for the value written.    *)
(* Which names and values make replication override a write is left open.  *)
(***************************************************************************)
EXTENDS Integers, FiniteSets

CONSTANTS
  Half,          \* 0x80000000: half of the DWORD range
  Writable,      \* servers with a writable replica, ordered as memcmp does
  ReadOnly,      \* servers with a read-only replica (global catalogs)
  Times,         \* the seconds a clock may show (DSTIME)
  Bumps,         \* results of dbCalculateVersionBump
  MaxStamps,     \* bound: stamps made after the start
  MaxFalls,      \* bound: steps below what a server holds
  InitVersions   \* bound: versions the attribute may have at the start

ASSUME HalfAssumption    == Half \in Nat \ {0}
ASSUME ServersAssumption == Writable \subseteq Int /\ ReadOnly \subseteq Int
                            /\ Writable \cap ReadOnly = {}
ASSUME TimesAssumption   == Times \subseteq Nat
ASSUME BumpsAssumption   == Bumps \subseteq 1 .. Half - 1
ASSUME StampsAssumption  == MaxStamps \in Nat /\ MaxFalls \in Nat
ASSUME InitAssumption    == InitVersions \subseteq 0 .. 2 * Half - 1

Servers  == Writable \cup ReadOnly
Versions == 0 .. 2 * Half - 1
ULONG_MAX == 2 * Half - 1

\* Mutant of Add: a wider integer.
AddNoWrap(v, w) == v + w

\* DWORD arithmetic.
Add(v, w) == IF v + w < 2 * Half THEN v + w ELSE v + w - 2 * Half
Sub(v, w) == IF v >= w THEN v - w ELSE v - w + 2 * Half

Stamps == [dwVersion : Versions, timeChanged : Times,
           uuidDsaOriginating : Servers, usnOriginating : Nat]

\* No meta data: the server has no value of the attribute.
None == [none |-> TRUE]

-----------------------------------------------------------------------------
(* The order of stamps.                                                    *)

\* Mutant of ReplCompareVersions: no code for the pairs half a range apart.
CompareVersionsNoSpecialPairs(Version1, Version2) ==
  CASE Version1 = Version2 -> 0
    [] Version1 # Version2 /\ Version1 >= Half - 1 ->
         IF Version2 < Sub(Version1, Half - 1) \/ Version1 < Version2 THEN -1 ELSE 1
    [] Version1 # Version2 /\ Version1 < Half - 1 ->
         IF Version1 < Version2 /\ Version2 < Sub(Version1, Half - 1) THEN -1 ELSE 1

\* Mutant of ReplCompareVersions: plain numbers.
CompareVersionsPlain(Version1, Version2) ==
  CASE Version1 = Version2 -> 0
    [] Version1 > Version2 -> 1
    [] Version1 < Version2 -> -1

\* 1 if Version1 is the later one, -1 if Version2 is, 0 if they are equal.
ReplCompareVersions(Version1, Version2) ==
  CASE Version1 = Version2 -> 0
    [] Version1 > Half - 1 /\ Version1 # Version2 ->
         CASE Version2 = Sub(Version1, Half) -> 1
           [] OTHER -> IF \/ Version2 < Sub(Version1, Half - 1)
                          \/ Version1 < Version2 THEN -1 ELSE 1
    [] Version1 < Half - 1 /\ Version1 # Version2 ->
         CASE Version2 = Add(Version1, Half) -> -1
           [] OTHER -> IF /\ Version1 < Version2
                          /\ Version2 < Sub(Version1, Half - 1) THEN -1 ELSE 1
    [] Version1 = Half - 1 /\ Version1 # Version2 ->
         CASE Version2 = ULONG_MAX -> -1
           [] OTHER -> IF \/ Version2 < Sub(Version1, Half - 1)
                          \/ Version1 < Version2 THEN -1 ELSE 1

Sign(n) == CASE n > 0 -> 1 [] n = 0 -> 0 [] n < 0 -> -1

\* Version, then time, then memcmp of the server's UUID.  Absent meta data
\* loses.
ReplCompareMetaData(m1, m2) ==
  IF m2 = None THEN 1
  ELSE LET diff == ReplCompareVersions(m1.dwVersion, m2.dwVersion) IN
       IF diff # 0 THEN diff
       ELSE IF m1.timeChanged # m2.timeChanged
            THEN Sign(m1.timeChanged - m2.timeChanged)
            ELSE Sign(m1.uuidDsaOriginating - m2.uuidDsaOriginating)

-----------------------------------------------------------------------------
VARIABLES
  meta,         \* each server's stamp of the attribute, or None
  touched,      \* servers whose stored stamp has usnProperty USN_PROPERTY_TOUCHED
  usn,          \* the last USN each server has given to a stamp
  stamps,       \* every stamp that was ever visible somewhere
  seen,         \* history: the stamps each server has made or processed
  lost,         \* history: those of them it fell below, and was not sent again
  fell,         \* history: the falls, each with the server's last USN
  falls,        \* how many there were
  underridden   \* history: the stamps of names that a server made up

vars == <<meta, touched, usn, stamps, seen, lost, fell, falls, underridden>>

\* Stamp version v as a write of server s: what dbFlushMetaDataVector does for
\* a write that originates here.
NewStamp(s, v, now) ==
  [dwVersion |-> v, timeChanged |-> now, uuidDsaOriginating |-> s,
   usnOriginating |-> usn[s] + 1]

\* The inbound stamps got were processed with it; below is what s lost.
Stamp(s, v, now, got, below) ==
  /\ Cardinality({m \in stamps : m.usnOriginating > 0}) < MaxStamps
  /\ usn' = [usn EXCEPT ![s] = @ + 1]
  /\ meta' = [meta EXCEPT ![s] = NewStamp(s, v, now)]
  /\ touched' = touched \ {s}
  /\ stamps' = stamps \cup {NewStamp(s, v, now)}
  /\ seen' = [seen EXCEPT ![s] = @ \cup got \cup {NewStamp(s, v, now)}]
  /\ lost' = [lost EXCEPT ![s] = below]

\* ReplInsertMetaData gives an attribute without meta data version 0.
Version(s) == IF meta[s] = None THEN 0 ELSE meta[s].dwVersion

\* Mutant of OriginatingWrite: the version is not incremented.
OriginatingWriteSameVersion(s, now) ==
  /\ s \in Writable
  /\ Stamp(s, Version(s), now, {}, lost[s])
  /\ UNCHANGED <<fell, falls, underridden>>

OriginatingWrite(s, now) ==
  /\ s \in Writable
  /\ Stamp(s, Add(Version(s), 1), now, {}, lost[s])
  /\ UNCHANGED <<fell, falls, underridden>>

\* An authoritative write must win over any version the enterprise may hold.
AuthoritativeWrite(s, now, bump) ==
  /\ s \in Writable
  /\ Stamp(s, Add(Version(s), bump), now, {}, lost[s])
  /\ UNCHANGED <<fell, falls, underridden>>

\* Only a read-only replica may take a change from a read-only one.
MayPull(s, m) == s \in ReadOnly \/ m.uuidDsaOriginating \in Writable

\* ReplReconcileRemoteMetaDataVec: the remote stamp won and is applied; its
\* meta data is copied.
ApplyRemote(s, m) ==
  /\ MayPull(s, m)
  /\ ReplCompareMetaData(m, meta[s]) > 0
  /\ meta' = [meta EXCEPT ![s] = m]
  /\ touched' = touched \ {s}
  /\ seen' = [seen EXCEPT ![s] = @ \cup {m}]
  /\ lost' = [lost EXCEPT ![s] = @ \ {m}]
  /\ UNCHANGED <<usn, stamps, fell, falls, underridden>>

\* The local stamp won or is the same: the remote one is dropped.
KeepLocal(s, m) ==
  /\ MayPull(s, m)
  /\ ReplCompareMetaData(m, meta[s]) <= 0
  /\ m \notin seen[s] \/ m \in lost[s]
  /\ seen' = [seen EXCEPT ![s] = @ \cup {m}]
  /\ lost' = [lost EXCEPT ![s] = @ \ {m}]
  /\ UNCHANGED <<meta, touched, usn, stamps, fell, falls, underridden>>

\* Mutant of OverrideWithLocalValue: the new stamp builds on the local one.
OverrideLocalVersion(s, m, now) ==
  /\ MayPull(s, m)
  /\ ReplCompareMetaData(m, meta[s]) > 0
  /\ Stamp(s, Add(Version(s), 1), now, {m}, lost[s] \ {m})
  /\ UNCHANGED <<fell, falls, underridden>>

\* The remote stamp won and the local value overrides it (a bad delete, an
\* RDN of a deleted object, our own ntdsDsa object), or the inbound object is
\* renamed or moved (ReplOverrideMetaData).
OverrideWithLocalValue(s, m, now) ==
  /\ MayPull(s, m)
  /\ ReplCompareMetaData(m, meta[s]) > 0
  /\ Stamp(s, Add(m.dwVersion, 1), now, {m}, lost[s] \ {m})
  /\ UNCHANGED <<fell, falls, underridden>>

\* The local stamp won and the remote value overrides it (the object is being
\* deleted and the local value is not one of a deleted object).
OverrideWithRemoteValue(s, m, now) ==
  /\ MayPull(s, m)
  /\ meta[s] # None
  /\ ReplCompareMetaData(m, meta[s]) <= 0
  /\ Stamp(s, Add(meta[s].dwVersion, 1), now, {m}, lost[s] \ {m})
  /\ UNCHANGED <<fell, falls, underridden>>

-----------------------------------------------------------------------------
(* Steps below what the server holds.                                      *)

Fall(s) ==
  /\ falls < MaxFalls
  /\ falls' = falls + 1
  /\ fell' = fell \cup {<<s, usn[s]>>}

\* Mutant of ReplUnderrideMetaData: the zero of a new entry is left.
UnderrideSetsNoVersion == 0

\* The version ReplUnderrideMetaData leaves in a vector, next to the flag
\* USN_PROPERTY_TOUCHED that makes dbFlushMetaDataVector add 1 to it.
ReplUnderrideMetaData == ULONG_MAX

\* A write stamped with an underridden vector.
Underride(s, got, now) ==
  /\ Stamp(s, Add(ReplUnderrideMetaData, 1), now, got, seen[s] \cup got)
  /\ underridden' = underridden \cup {NewStamp(s, Add(ReplUnderrideMetaData, 1), now)}
  /\ Fall(s)

\* A read-only replica renames an inbound object for the time being: its name
\* is taken, or its parent is missing (UpdateRepObj does the same there).
RenameInboundObject(s, m, now) ==
  /\ s \in ReadOnly
  /\ ReplCompareMetaData(m, meta[s]) > 0
  /\ Underride(s, {m}, now)

\* ... or renames the local object whose name the inbound one takes.
RenameLocalObject(s, now) ==
  /\ s \in ReadOnly
  /\ meta[s] # None
  /\ Underride(s, {}, now)

\* The parent becomes a phantom or is collected: its children are renamed and
\* moved to LostAndFound, on a writable replica too.
PrePhantomizeChildCleanup(s, now) ==
  /\ meta[s] # None
  /\ Underride(s, {}, now)

\* Another object becomes a phantom under the name of this one, which is
\* renamed in place.  The underridden vector is stored as it is: DBUpdateRec
\* does not flush meta data.  So the entry is not sent to anybody.
PhantomizeObject(s) ==
  LET m == [meta[s] EXCEPT !.dwVersion = ReplUnderrideMetaData] IN
  /\ meta[s] # None
  /\ meta' = [meta EXCEPT ![s] = m]
  /\ touched' = touched \cup {s}
  /\ seen' = [seen EXCEPT ![s] = @ \cup {m}]
  /\ lost' = [lost EXCEPT ![s] = seen[s] \ {m}]
  /\ Fall(s)
  /\ UNCHANGED <<usn, stamps, underridden>>

\* The next update of the object, of whatever attribute and origin, finds the
\* stored flag and takes it for a write of its own.
FlushTouched(s, now) ==
  /\ s \in touched
  /\ Stamp(s, Add(Version(s), 1), now, {}, lost[s])
  /\ underridden' = underridden \cup {NewStamp(s, Add(Version(s), 1), now)}
  /\ UNCHANGED <<fell, falls>>

\* A full synchronisation with DRS_SYNC_FORCED: the local meta data is not
\* looked at and the inbound stamp always wins.
ForcedFullSync(s, m) ==
  /\ MayPull(s, m)
  /\ meta' = [meta EXCEPT ![s] = m]
  /\ touched' = touched \ {s}
  /\ seen' = [seen EXCEPT ![s] = @ \cup {m}]
  /\ lost' = [lost EXCEPT ![s] = seen[s] \ {m}]
  /\ Fall(s)
  /\ UNCHANGED <<usn, stamps, underridden>>

-----------------------------------------------------------------------------
\* Either nobody has the attribute yet, or all have it from one server.
Init ==
  /\ usn = [r \in Servers |-> 0]
  /\ touched = {}
  /\ lost = [r \in Servers |-> {}]
  /\ fell = {}
  /\ falls = 0
  /\ underridden = {}
  /\ \/ /\ stamps = {}
        /\ meta = [r \in Servers |-> None]
     \/ \E s \in Writable, v \in InitVersions, t \in Times :
          /\ stamps = {[dwVersion |-> v, timeChanged |-> t,
                        uuidDsaOriginating |-> s, usnOriginating |-> 0]}
          /\ meta \in [Servers -> stamps]
  /\ seen = [r \in Servers |-> stamps]

\* Packets are repeated, delayed and overtake each other: any stamp that was
\* ever visible may come in.
Next ==
  \/ \E s \in Servers, now \in Times : OriginatingWrite(s, now)
  \/ \E s \in Servers, now \in Times, bump \in Bumps :
       AuthoritativeWrite(s, now, bump)
  \/ \E s \in Servers, m \in stamps : ApplyRemote(s, m)
  \/ \E s \in Servers, m \in stamps : KeepLocal(s, m)
  \/ \E s \in Servers, m \in stamps, now \in Times :
       OverrideWithLocalValue(s, m, now)
  \/ \E s \in Servers, m \in stamps, now \in Times :
       OverrideWithRemoteValue(s, m, now)
  \/ \E s \in Servers, m \in stamps, now \in Times :
       RenameInboundObject(s, m, now)
  \/ \E s \in Servers, now \in Times : RenameLocalObject(s, now)
  \/ \E s \in Servers, now \in Times : PrePhantomizeChildCleanup(s, now)
  \/ \E s \in Servers : PhantomizeObject(s)
  \/ \E s \in Servers, now \in Times : FlushTouched(s, now)
  \/ \E s \in Servers, m \in stamps : ForcedFullSync(s, m)

\* The periodic synchronisation keeps offering what a source holds until the
\* destination has processed it; what the destination made or processed before
\* is left out, also when it fell below it.
Fairness ==
  \A s \in Servers, r \in Writable :
    WF_vars(/\ meta[r] # None
            /\ r \notin touched
            /\ meta[r] \notin seen[s]
            /\ ApplyRemote(s, meta[r]))

Spec == Init /\ [][Next]_vars
FairSpec == Spec /\ Fairness

-----------------------------------------------------------------------------
(* Properties.                                                             *)

TypeOK ==
  /\ meta \in [Servers -> Stamps \cup {None}]
  /\ touched \subseteq {s \in Servers : meta[s] # None}
  /\ usn \in [Servers -> Nat]
  /\ stamps \subseteq Stamps
  /\ seen \in [Servers -> SUBSET Stamps]
  /\ lost \in [Servers -> SUBSET Stamps]
  /\ fell \subseteq Servers \X Nat
  /\ falls \in Nat
  /\ underridden \subseteq Stamps

\* Serial number arithmetic, what the comment of ReplCompareVersions aims at:
\* the later version is less than half a range ahead; of two that are exactly
\* half a range apart the greater number is the later one.
SerialCompare(v1, v2) ==
  LET d == Sub(v1, v2) IN
  CASE d = 0 -> 0
    [] d > 0 /\ (d < Half \/ (d = Half /\ v1 > v2)) -> 1
    [] OTHER -> -1

\* The case analysis of ReplCompareVersions, its special pairs included, puts
\* every version some write has in serial number order with any other.
VersionsSerial ==
  \A m \in stamps, v \in Versions :
    /\ ReplCompareVersions(m.dwVersion, v) = SerialCompare(m.dwVersion, v)
    /\ ReplCompareVersions(v, m.dwVersion) = SerialCompare(v, m.dwVersion)

\* The versions server s has met lie within half a range of each other.  Among
\* others the order of ReplCompareVersions runs in circles.
Close(s) == \E base \in Versions : \A m \in seen[s] : Sub(m.dwVersion, base) < Half

\* ML' >= ML and ML' >= MI (comment of OverrideValues): what a server holds
\* wins over, or is, everything it has made and processed, in whatever order
\* and however often that came in, except what it fell below and was not sent
\* again.  So no processed change can win later.
ProcessedBelow ==
  \A s \in Servers : Close(s) =>
    \A m \in seen[s] \ lost[s] : meta[s] # None /\ ReplCompareMetaData(meta[s], m) >= 0

\* Equal stamps are one write: the attribute is not applied when they are
\* equal (ReplReconcileRemoteMetaDataVec), so two different values under equal
\* stamps would stay different for good.  Only a server that fell can make a
\* stamp again: between the two writes, and within the same second.
EqualMeansSame ==
  \A m1, m2 \in stamps :
    /\ ReplCompareMetaData(m1, m2) = 0
    /\ m1.usnOriginating <= m2.usnOriginating
    /\ Close(m1.uuidDsaOriginating)
    => \/ m1 = m2
       \/ \E k \in m1.usnOriginating .. m2.usnOriginating - 1 :
            <<m1.uuidDsaOriginating, k>> \in fell

\* A real change displaces the name a replica made up, as long as fewer than
\* half the range of versions were used: what the version 0 of
\* ReplUnderrideMetaData is for.
UnderriddenLoses ==
  \A u \in underridden : \A m \in stamps \ underridden :
    m.dwVersion \in 1 .. Half => ReplCompareMetaData(m, u) > 0

\* "It will always lose when compared against a real change" (comment of
\* ReplUnderrideMetaData), with no such condition.
UnderriddenAlwaysLoses ==
  \A u \in underridden : \A m \in stamps \ underridden :
    ReplCompareMetaData(m, u) > 0

\* Server s stays behind what r holds and offers to it.
Behind(s, r) ==
  /\ meta[r] # None /\ r \notin touched
  /\ ReplCompareMetaData(meta[r], meta[s]) > 0

\* Once writes and conflicts stop, every writable server ends with one stamp
\* if none of them fell; and one that fell stays behind another only where the
\* other holds what it fell below, which the source takes it to have.
Converges ==
  <>[](/\ \A s, r \in Writable :
            Close(s) /\ Close(r) /\ Behind(s, r) => meta[r] \in lost[s]
       /\ (\A s \in Writable : Close(s) /\ fell \cap ({s} \X Nat) = {})
            => \A s, r \in Writable : meta[s] = meta[r])
=============================================================================
