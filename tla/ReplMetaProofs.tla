--------------------------- MODULE ReplMetaProofs ---------------------------
(***************************************************************************)
(* The order of versions, for DWORDs of any width.                         *)
(*                                                                         *)
(* ReplCompareVersions is a case analysis on two unsigned numbers; it is   *)
(* shown to be serial number order, to rank any two versions one way only, *)
(* and to be transitive among versions less than half a range ahead of a   *)
(* common one.  Outside of such a window it is not (0, Half - 1 and        *)
(* 2 * Half - 2 run in a circle): the protocol must keep versions close.   *)
(*                                                                         *)
(* As long as the versions a server met are in such a window, it holds the *)
(* latest of what it made and processed since it last fell, and makes a    *)
(* stamp twice only with a fall in between: MetaInv, from which            *)
(* ProcessedBelow and EqualMeansSame follow.                               *)
(***************************************************************************)
EXTENDS ReplMeta, TLAPS

\* The case analysis of ReplCompareVersions computes serial number order.
LEMMA CompareVersionsSerial ==
  ASSUME NEW v1 \in Versions, NEW v2 \in Versions
  PROVE  ReplCompareVersions(v1, v2) = SerialCompare(v1, v2)
  <1>h. /\ Half \in Nat
        /\ Half > 0
        /\ v1 \in Int
        /\ v2 \in Int
        /\ 0 <= v1 /\ v1 < 2 * Half
        /\ 0 <= v2 /\ v2 < 2 * Half
    BY HalfAssumption DEF Versions
  <1>1. CASE v1 = v2
    BY <1>1, <1>h DEF ReplCompareVersions, SerialCompare, Sub
  <1>2. CASE v1 # v2 /\ v1 > Half - 1
    BY <1>2, <1>h DEF ReplCompareVersions, SerialCompare, Sub
  <1>3. CASE v1 # v2 /\ v1 < Half - 1
    BY <1>3, <1>h DEF ReplCompareVersions, SerialCompare, Sub, Add
  <1>4. CASE v1 # v2 /\ v1 = Half - 1
    BY <1>4, <1>h DEF ReplCompareVersions, SerialCompare, Sub, ULONG_MAX
  <1> QED BY <1>1, <1>2, <1>3, <1>4, <1>h

\* Two servers that compare the same two versions, each its own first, agree
\* which one is later (ReplCompareVersions).
THEOREM VersionsAntisymmetric ==
  \A v1, v2 \in Versions :
    /\ ReplCompareVersions(v1, v2) = - ReplCompareVersions(v2, v1)
    /\ ReplCompareVersions(v1, v2) = 0 <=> v1 = v2
  <1> SUFFICES ASSUME NEW v1 \in Versions, NEW v2 \in Versions
               PROVE  /\ ReplCompareVersions(v1, v2) = - ReplCompareVersions(v2, v1)
                      /\ ReplCompareVersions(v1, v2) = 0 <=> v1 = v2
    OBVIOUS
  <1>1. /\ ReplCompareVersions(v1, v2) = SerialCompare(v1, v2)
        /\ ReplCompareVersions(v2, v1) = SerialCompare(v2, v1)
    BY CompareVersionsSerial
  <1>h. /\ Half \in Nat
        /\ Half > 0
        /\ v1 \in Int
        /\ v2 \in Int
        /\ 0 <= v1 /\ v1 < 2 * Half
        /\ 0 <= v2 /\ v2 < 2 * Half
    BY HalfAssumption DEF Versions
  <1>2. /\ SerialCompare(v1, v2) = - SerialCompare(v2, v1)
        /\ SerialCompare(v1, v2) = 0 <=> v1 = v2
    BY <1>h DEF SerialCompare, Sub
  <1> QED BY <1>1, <1>2

\* Among versions less than half a range ahead of a common one the order is
\* that of the distances: so it is transitive, and adding to the version of
\* a write that won makes a version that wins (OriginatingWrite,
\* OverrideWithLocalValue).
THEOREM VersionsOrderedInWindow ==
  ASSUME NEW base \in Versions, NEW v1 \in Versions, NEW v2 \in Versions,
         Sub(v1, base) < Half, Sub(v2, base) < Half
  PROVE  ReplCompareVersions(v1, v2) = Sign(Sub(v1, base) - Sub(v2, base))
  <1>1. ReplCompareVersions(v1, v2) = SerialCompare(v1, v2)
    BY CompareVersionsSerial
  <1>h. /\ Half \in Nat
        /\ Half > 0
        /\ v1 \in Int
        /\ v2 \in Int
        /\ base \in Int
        /\ 0 <= base /\ base < 2 * Half
        /\ 0 <= v1 /\ v1 < 2 * Half
        /\ 0 <= v2 /\ v2 < 2 * Half
    BY HalfAssumption DEF Versions
  <1>2. SerialCompare(v1, v2) = Sign(Sub(v1, base) - Sub(v2, base))
    BY <1>h DEF SerialCompare, Sub, Sign
  <1> QED BY <1>1, <1>2

-----------------------------------------------------------------------------
(* Type correctness: versions stay DWORDs.                                 *)

LEMMA AddType ==
  ASSUME NEW v \in Versions, NEW w \in Versions
  PROVE  Add(v, w) \in Versions
  <1>h. /\ Half \in Nat
        /\ v \in Int /\ 0 <= v /\ v < 2 * Half
        /\ w \in Int /\ 0 <= w /\ w < 2 * Half
    BY HalfAssumption DEF Versions
  <1>1. Add(v, w) \in Int /\ 0 <= Add(v, w) /\ Add(v, w) < 2 * Half
    BY <1>h DEF Add
  <1> QED BY <1>1, <1>h DEF Versions

\* The constants a version is added to are DWORDs.
LEMMA ConstantVersions ==
  /\ 0 \in Versions
  /\ 1 \in Versions
  /\ ULONG_MAX \in Versions
  /\ Bumps \subseteq Versions
  /\ InitVersions \subseteq Versions
  <1>1. Half \in Nat /\ Half > 0
    BY HalfAssumption
  <1>2. 0 \in Versions /\ 1 \in Versions /\ ULONG_MAX \in Versions
    BY <1>1 DEF Versions, ULONG_MAX
  <1>3. 1 .. Half - 1 \subseteq Versions
    BY <1>1 DEF Versions
  <1> QED BY <1>2, <1>3, BumpsAssumption, InitAssumption DEF Versions

LEMMA VersionType ==
  ASSUME TypeOK, NEW s \in Servers
  PROVE  Version(s) \in Versions
  <1>1. CASE meta[s] = None
    BY <1>1, ConstantVersions DEF Version
  <1>2. CASE meta[s] # None
    <2>1. meta[s] \in Stamps
      BY <1>2 DEF TypeOK
    <2> QED BY <1>2, <2>1 DEF Version, Stamps
  <1> QED BY <1>1, <1>2

LEMMA StampIsThere == None \notin Stamps
  <1> SUFFICES ASSUME None \in Stamps PROVE FALSE
    OBVIOUS
  <1>1. DOMAIN None = {"dwVersion", "timeChanged", "uuidDsaOriginating", "usnOriginating"}
    BY DEF Stamps
  <1>2. DOMAIN None = {"none"}
    BY DEF None
  <1> QED BY <1>1, <1>2

\* A stamp with a DWORD version keeps what it writes well typed.
LEMMA StampType ==
  ASSUME TypeOK, NEW s \in Servers, NEW v \in Versions, NEW now \in Times,
         NEW got \in SUBSET Stamps, NEW below \in SUBSET Stamps,
         Stamp(s, v, now, got, below)
  PROVE  /\ NewStamp(s, v, now) \in Stamps
         /\ meta' \in [Servers -> Stamps \cup {None}]
         /\ touched' \subseteq {r \in Servers : meta'[r] # None}
         /\ usn' \in [Servers -> Nat]
         /\ stamps' \subseteq Stamps
         /\ seen' \in [Servers -> SUBSET Stamps]
         /\ lost' \in [Servers -> SUBSET Stamps]
  <1>1. usn[s] \in Nat
    BY DEF TypeOK
  <1>2. NewStamp(s, v, now) \in Stamps
    BY <1>1 DEF NewStamp, Stamps
  <1>3. usn' \in [Servers -> Nat]
    BY <1>1 DEF Stamp, TypeOK
  <1>4. meta' \in [Servers -> Stamps \cup {None}]
    BY <1>2 DEF Stamp, TypeOK
  <1>5. stamps' \subseteq Stamps
    BY <1>2 DEF Stamp, TypeOK
  <1>6. seen' \in [Servers -> SUBSET Stamps]
    BY <1>2 DEF Stamp, TypeOK
  <1>7. lost' \in [Servers -> SUBSET Stamps]
    BY DEF Stamp, TypeOK
  <1>8. \A r \in Servers : r # s => meta'[r] = meta[r]
    BY DEF Stamp, TypeOK
  <1>9. touched' \subseteq {r \in Servers : meta'[r] # None}
    BY <1>8 DEF Stamp, TypeOK
  <1> QED BY <1>2, <1>3, <1>4, <1>5, <1>6, <1>7, <1>9

\* A server that takes over a stamp of its store or of a packet.
LEMMA TakeType ==
  ASSUME TypeOK, NEW s \in Servers, NEW m \in Stamps, NEW below \in SUBSET Stamps,
         meta' = [meta EXCEPT ![s] = m], touched' \subseteq touched \cup {s},
         seen' = [seen EXCEPT ![s] = @ \cup {m}], lost' = [lost EXCEPT ![s] = below],
         UNCHANGED <<usn, stamps, underridden>>,
         fell' \subseteq Servers \X Nat, falls' \in Nat
  PROVE  TypeOK'
  <1>1. m # None
    BY StampIsThere
  <1>2. meta' \in [Servers -> Stamps \cup {None}] /\ \A r \in Servers : r # s => meta'[r] = meta[r]
    BY DEF TypeOK
  <1>3. touched' \subseteq {r \in Servers : meta'[r] # None}
    BY <1>1, <1>2 DEF TypeOK
  <1>4. seen' \in [Servers -> SUBSET Stamps] /\ lost' \in [Servers -> SUBSET Stamps]
    BY DEF TypeOK
  <1> QED BY <1>2, <1>3, <1>4 DEF TypeOK

LEMMA FallType ==
  ASSUME TypeOK, NEW s \in Servers, Fall(s)
  PROVE  fell' \subseteq Servers \X Nat /\ falls' \in Nat
  BY DEF TypeOK, Fall

LEMMA UnderrideType ==
  ASSUME TypeOK, NEW s \in Servers, NEW got \in SUBSET stamps, NEW now \in Times,
         Underride(s, got, now)
  PROVE  TypeOK'
  <1> DEFINE v == Add(ReplUnderrideMetaData, 1)
  <1>1. v \in Versions
    BY ConstantVersions, AddType DEF ReplUnderrideMetaData
  <1>2. got \in SUBSET Stamps /\ seen[s] \cup got \in SUBSET Stamps
    BY DEF TypeOK
  <1>3. /\ Stamp(s, v, now, got, seen[s] \cup got) /\ Fall(s)
        /\ underridden' = underridden \cup {NewStamp(s, v, now)}
    BY DEF Underride
  <1> HIDE DEF v
  <1> DEFINE below == seen[s] \cup got
  <1>4. below \in SUBSET Stamps /\ Stamp(s, v, now, got, below)
    BY <1>2, <1>3
  <1> HIDE DEF below
  <1>5. /\ NewStamp(s, v, now) \in Stamps
        /\ meta' \in [Servers -> Stamps \cup {None}]
        /\ touched' \subseteq {r \in Servers : meta'[r] # None}
        /\ usn' \in [Servers -> Nat]
        /\ stamps' \subseteq Stamps
        /\ seen' \in [Servers -> SUBSET Stamps]
        /\ lost' \in [Servers -> SUBSET Stamps]
    BY <1>1, <1>2, <1>4, StampType
  <1>6. underridden' \subseteq Stamps
    BY <1>3, <1>5 DEF TypeOK
  <1>7. fell' \subseteq Servers \X Nat /\ falls' \in Nat
    BY <1>3, FallType
  <1> QED BY <1>5, <1>6, <1>7 DEF TypeOK

LEMMA InitTypeOK == Init => TypeOK
  <1> SUFFICES ASSUME Init PROVE TypeOK
    OBVIOUS
  <1>1. /\ usn \in [Servers -> Nat]
        /\ touched = {}
        /\ lost \in [Servers -> SUBSET Stamps]
        /\ fell \subseteq Servers \X Nat
        /\ falls \in Nat
        /\ underridden \subseteq Stamps
        /\ seen = [r \in Servers |-> stamps]
    BY DEF Init
  <1>2. meta \in [Servers -> Stamps \cup {None}] /\ stamps \subseteq Stamps
    <2>1. CASE stamps = {} /\ meta = [r \in Servers |-> None]
      BY <2>1
    <2>2. CASE \E s \in Writable, v \in InitVersions, t \in Times :
                 /\ stamps = {[dwVersion |-> v, timeChanged |-> t,
                               uuidDsaOriginating |-> s, usnOriginating |-> 0]}
                 /\ meta \in [Servers -> stamps]
      <3>1. PICK s \in Writable, v \in InitVersions, t \in Times :
                 /\ stamps = {[dwVersion |-> v, timeChanged |-> t,
                               uuidDsaOriginating |-> s, usnOriginating |-> 0]}
                 /\ meta \in [Servers -> stamps]
        BY <2>2
      <3>2. v \in Versions /\ s \in Servers
        BY ConstantVersions DEF Servers
      <3>3. stamps \subseteq Stamps
        BY <3>1, <3>2 DEF Stamps
      <3> QED BY <3>1, <3>3
    <2> QED BY <2>1, <2>2 DEF Init
  <1> QED BY <1>1, <1>2 DEF TypeOK

LEMMA StepTypeOK == TypeOK /\ [Next]_vars => TypeOK'
  <1> SUFFICES ASSUME TypeOK, [Next]_vars PROVE TypeOK'
    OBVIOUS
  <1> USE ConstantVersions
  <1>a. \A s \in Servers : lost[s] \in SUBSET Stamps /\ seen[s] \in SUBSET Stamps
    BY DEF TypeOK
  <1>b. stamps \subseteq Stamps /\ \A m \in stamps : m.dwVersion \in Versions
    BY DEF TypeOK, Stamps
  <1>c. ASSUME NEW s \in Servers, NEW v \in Versions, NEW now \in Times, NEW got \in SUBSET Stamps,
               NEW below \in SUBSET Stamps,
               Stamp(s, v, now, got, below), UNCHANGED <<fell, falls>>,
               underridden' \subseteq underridden \cup {NewStamp(s, v, now)}
        PROVE  TypeOK'
    <2>1. /\ NewStamp(s, v, now) \in Stamps
          /\ meta' \in [Servers -> Stamps \cup {None}]
          /\ touched' \subseteq {r \in Servers : meta'[r] # None}
          /\ usn' \in [Servers -> Nat]
          /\ stamps' \subseteq Stamps
          /\ seen' \in [Servers -> SUBSET Stamps]
          /\ lost' \in [Servers -> SUBSET Stamps]
      BY <1>c, StampType
    <2>2. underridden' \subseteq Stamps /\ fell' \subseteq Servers \X Nat /\ falls' \in Nat
      BY <1>c, <2>1 DEF TypeOK
    <2> QED BY <2>1, <2>2 DEF TypeOK
  <1>1. ASSUME NEW s \in Servers, NEW now \in Times, OriginatingWrite(s, now)
        PROVE  TypeOK'
    <2>1. Add(Version(s), 1) \in Versions
      BY VersionType, AddType
    <2> QED BY <1>1, <1>a, <1>c, <2>1 DEF OriginatingWrite
  <1>2. ASSUME NEW s \in Servers, NEW now \in Times, NEW bump \in Bumps,
               AuthoritativeWrite(s, now, bump)
        PROVE  TypeOK'
    <2>1. Add(Version(s), bump) \in Versions
      BY VersionType, AddType
    <2> QED BY <1>2, <1>a, <1>c, <2>1 DEF AuthoritativeWrite
  <1>3. ASSUME NEW s \in Servers, NEW m \in stamps, ApplyRemote(s, m)
        PROVE  TypeOK'
    <2>1. m \in Stamps /\ lost[s] \ {m} \in SUBSET Stamps
      BY <1>a, <1>b
    <2>2. /\ meta' = [meta EXCEPT ![s] = m] /\ touched' \subseteq touched \cup {s}
          /\ seen' = [seen EXCEPT ![s] = @ \cup {m}] /\ lost' = [lost EXCEPT ![s] = lost[s] \ {m}]
          /\ UNCHANGED <<usn, stamps, underridden>> /\ fell' = fell /\ falls' = falls
      BY <1>3 DEF ApplyRemote
    <2>3. fell' \subseteq Servers \X Nat /\ falls' \in Nat
      BY <2>2 DEF TypeOK
    <2> QED BY <2>1, <2>2, <2>3, TakeType
  <1>4. ASSUME NEW s \in Servers, NEW m \in stamps, KeepLocal(s, m)
        PROVE  TypeOK'
    BY <1>4 DEF KeepLocal, TypeOK
  <1>5. ASSUME NEW s \in Servers, NEW m \in stamps, NEW now \in Times,
               OverrideWithLocalValue(s, m, now)
        PROVE  TypeOK'
    <2>1. Add(m.dwVersion, 1) \in Versions /\ {m} \in SUBSET Stamps /\ lost[s] \ {m} \in SUBSET Stamps
      BY <1>a, <1>b, AddType
    <2> QED BY <1>5, <1>c, <2>1 DEF OverrideWithLocalValue
  <1>6. ASSUME NEW s \in Servers, NEW m \in stamps, NEW now \in Times,
               OverrideWithRemoteValue(s, m, now)
        PROVE  TypeOK'
    <2>1. meta[s] \in Stamps /\ meta[s].dwVersion \in Versions
      BY <1>6 DEF OverrideWithRemoteValue, TypeOK, Stamps
    <2>2. /\ Add(meta[s].dwVersion, 1) \in Versions /\ {m} \in SUBSET Stamps
          /\ lost[s] \ {m} \in SUBSET Stamps
      BY <1>a, <1>b, <2>1, AddType
    <2> QED BY <1>6, <1>c, <2>2 DEF OverrideWithRemoteValue
  <1>7. ASSUME NEW s \in Servers, NEW m \in stamps, NEW now \in Times,
               RenameInboundObject(s, m, now)
        PROVE  TypeOK'
    BY <1>7, UnderrideType DEF RenameInboundObject
  <1>8. ASSUME NEW s \in Servers, NEW now \in Times,
               RenameLocalObject(s, now) \/ PrePhantomizeChildCleanup(s, now)
        PROVE  TypeOK'
    <2>1. Underride(s, {}, now)
      BY <1>8 DEF RenameLocalObject, PrePhantomizeChildCleanup
    <2> QED BY <2>1, UnderrideType
  <1>9. ASSUME NEW s \in Servers, PhantomizeObject(s)
        PROVE  TypeOK'
    <2> DEFINE m == [meta[s] EXCEPT !.dwVersion = ReplUnderrideMetaData]
    <2>1. meta[s] \in Stamps
      BY <1>9 DEF PhantomizeObject, TypeOK
    <2>2. m \in Stamps
      BY <2>1 DEF Stamps, ReplUnderrideMetaData
    <2>3. /\ meta' = [meta EXCEPT ![s] = m] /\ touched' \subseteq touched \cup {s}
          /\ seen' = [seen EXCEPT ![s] = @ \cup {m}] /\ lost' = [lost EXCEPT ![s] = seen[s] \ {m}]
          /\ Fall(s) /\ UNCHANGED <<usn, stamps, underridden>>
      BY <1>9 DEF PhantomizeObject
    <2>4. seen[s] \ {m} \in SUBSET Stamps
      BY <1>a
    <2> QED BY <2>2, <2>3, <2>4, TakeType, FallType
  <1>10. ASSUME NEW s \in Servers, NEW now \in Times, FlushTouched(s, now)
         PROVE  TypeOK'
    <2>1. Add(Version(s), 1) \in Versions
      BY VersionType, AddType
    <2> QED BY <1>10, <1>a, <1>c, <2>1 DEF FlushTouched
  <1>11. ASSUME NEW s \in Servers, NEW m \in stamps, ForcedFullSync(s, m)
         PROVE  TypeOK'
    <2>1. m \in Stamps /\ seen[s] \ {m} \in SUBSET Stamps
      BY <1>a, <1>b
    <2>2. /\ meta' = [meta EXCEPT ![s] = m] /\ touched' \subseteq touched \cup {s}
          /\ seen' = [seen EXCEPT ![s] = @ \cup {m}] /\ lost' = [lost EXCEPT ![s] = seen[s] \ {m}]
          /\ Fall(s) /\ UNCHANGED <<usn, stamps, underridden>>
      BY <1>11 DEF ForcedFullSync
    <2> QED BY <2>1, <2>2, TakeType, FallType
  <1>12. CASE UNCHANGED vars
    BY <1>12 DEF vars, TypeOK
  <1> QED
    BY <1>1, <1>2, <1>3, <1>4, <1>5, <1>6, <1>7, <1>8, <1>9, <1>10, <1>11, <1>12 DEF Next

\* Versions stay DWORDs whatever is written, overridden or underridden.
THEOREM TypeCorrect == Spec => []TypeOK
  BY InitTypeOK, StepTypeOK, PTL DEF Spec

\* Every version that some write has is in serial number order with every
\* other DWORD (ReplCompareVersions).
THEOREM VersionsAreSerial == Spec => []VersionsSerial
  <1>1. TypeOK => VersionsSerial
    BY CompareVersionsSerial DEF TypeOK, Stamps, VersionsSerial
  <1> QED BY <1>1, TypeCorrect, PTL

-----------------------------------------------------------------------------
(* The order of stamps, in a window of versions.                           *)

\* How far the version of a stamp is ahead of a base version.
Level(m, base) == Sub(m.dwVersion, base)

\* The order among stamps that are less than half a range ahead of the base.
Later(a, b, base) ==
  \/ Level(a, base) > Level(b, base)
  \/ /\ Level(a, base) = Level(b, base)
     /\ \/ a.timeChanged > b.timeChanged
        \/ /\ a.timeChanged = b.timeChanged
           /\ a.uuidDsaOriginating > b.uuidDsaOriginating

LEMMA StampFields ==
  ASSUME NEW m \in Stamps
  PROVE  /\ m.dwVersion \in Versions /\ m.timeChanged \in Times /\ m.timeChanged \in Int
         /\ m.uuidDsaOriginating \in Servers /\ m.uuidDsaOriginating \in Int
         /\ m.usnOriginating \in Nat
  <1>1. /\ m.dwVersion \in Versions /\ m.timeChanged \in Times
        /\ m.uuidDsaOriginating \in Servers /\ m.usnOriginating \in Nat
    BY DEF Stamps
  <1>2. Times \subseteq Int /\ Servers \subseteq Int
    BY TimesAssumption, ServersAssumption DEF Servers
  <1> QED BY <1>1, <1>2

LEMMA LevelType ==
  ASSUME NEW base \in Versions, NEW v \in Versions
  PROVE  Sub(v, base) \in Int /\ Sub(v, base) >= 0
  BY HalfAssumption DEF Versions, Sub

\* ReplCompareMetaData is that order.
LEMMA CompareOK ==
  ASSUME NEW base \in Versions, NEW a \in Stamps, NEW b \in Stamps,
         Level(a, base) < Half, Level(b, base) < Half
  PROVE  LET diff == ReplCompareMetaData(a, b) IN
         /\ diff > 0 <=> Later(a, b, base)
         /\ diff <= 0 <=> ~Later(a, b, base)
         /\ diff >= 0 <=> ~Later(b, a, base)
         /\ diff = 0 <=> /\ Level(a, base) = Level(b, base)
                         /\ a.timeChanged = b.timeChanged
                         /\ a.uuidDsaOriginating = b.uuidDsaOriginating
  <1> DEFINE x == Level(a, base)
             y == Level(b, base)
             d == ReplCompareVersions(a.dwVersion, b.dwVersion)
             diff == ReplCompareMetaData(a, b)
             t == a.timeChanged - b.timeChanged
             u == a.uuidDsaOriginating - b.uuidDsaOriginating
  <1>1. /\ a.dwVersion \in Versions /\ a.timeChanged \in Int /\ a.uuidDsaOriginating \in Int
        /\ b.dwVersion \in Versions /\ b.timeChanged \in Int /\ b.uuidDsaOriginating \in Int
    BY StampFields
  <1>2. x \in Int /\ y \in Int
    BY <1>1, LevelType DEF Level
  <1>3. d = Sign(x - y)
    BY <1>1, VersionsOrderedInWindow DEF Level
  <1>4. b # None
    BY StampIsThere
  <1>5. diff = IF d # 0 THEN d
               ELSE IF a.timeChanged # b.timeChanged THEN Sign(t) ELSE Sign(u)
    BY <1>4 DEF ReplCompareMetaData
  <1> HIDE DEF x, y, d, diff
  <1>6. \A n \in Int : /\ Sign(n) \in Int
                       /\ Sign(n) > 0 <=> n > 0
                       /\ Sign(n) = 0 <=> n = 0
                       /\ Sign(n) < 0 <=> n < 0
    BY DEF Sign
  <1>7. CASE x # y
    <2>1. x - y \in Int /\ x - y # 0
      BY <1>2, <1>7
    <2>2. diff = Sign(x - y)
      BY <2>1, <1>3, <1>5, <1>6
    <2> HIDE DEF Sign
    <2>3. /\ diff \in Int /\ diff # 0 /\ (diff > 0 <=> x > y) /\ (diff < 0 <=> y > x)
      BY <2>1, <2>2, <1>2, <1>6
    <2> QED BY <2>3, <1>2, <1>7 DEF Later, x, y, diff
  <1>8. CASE x = y /\ a.timeChanged # b.timeChanged
    <2>1. x - y = 0 /\ x - y \in Int /\ t \in Int /\ t # 0
      BY <1>1, <1>2, <1>8
    <2>2. diff = Sign(t)
      BY <2>1, <1>3, <1>5, <1>6, <1>8
    <2>3. /\ diff \in Int /\ diff # 0 /\ (diff > 0 <=> a.timeChanged > b.timeChanged)
          /\ (diff < 0 <=> b.timeChanged > a.timeChanged)
      BY <2>1, <2>2, <1>1, <1>6
    <2> QED BY <2>3, <1>1, <1>2, <1>8 DEF Later, x, y, diff
  <1>9. CASE x = y /\ a.timeChanged = b.timeChanged
    <2>1. x - y = 0 /\ x - y \in Int /\ u \in Int
      BY <1>1, <1>2, <1>9
    <2>2. diff = Sign(u)
      BY <2>1, <1>3, <1>5, <1>6, <1>9
    <2>3. /\ diff \in Int /\ (diff > 0 <=> a.uuidDsaOriginating > b.uuidDsaOriginating)
          /\ (diff < 0 <=> b.uuidDsaOriginating > a.uuidDsaOriginating)
          /\ (diff = 0 <=> a.uuidDsaOriginating = b.uuidDsaOriginating)
      BY <2>1, <2>2, <1>1, <1>6
    <2> QED BY <2>3, <1>1, <1>2, <1>9 DEF Later, x, y, diff
  <1> QED BY <1>7, <1>8, <1>9

\* It is an order.
LEMMA LaterTransitive ==
  ASSUME NEW base \in Versions, NEW a \in Stamps, NEW b \in Stamps, NEW c \in Stamps
  PROVE  /\ ~Later(b, a, base) /\ ~Later(c, b, base) => ~Later(c, a, base)
         /\ Later(a, b, base) => ~Later(b, a, base)
         /\ Later(a, b, base) /\ ~Later(c, b, base) => ~Later(c, a, base)
         /\ ~Later(a, a, base)
         /\ Level(a, base) > Level(b, base) => ~Later(b, a, base)
         /\ ~Later(b, a, base) => Level(b, base) <= Level(a, base)
  <1>1. /\ a.timeChanged \in Int /\ a.uuidDsaOriginating \in Int
        /\ b.timeChanged \in Int /\ b.uuidDsaOriginating \in Int
        /\ c.timeChanged \in Int /\ c.uuidDsaOriginating \in Int
    BY StampFields
  <1>2. Level(a, base) \in Int /\ Level(b, base) \in Int /\ Level(c, base) \in Int
    BY StampFields, LevelType DEF Level
  <1> QED BY <1>1, <1>2 DEF Later

\* Two stamps that compare equal agree but for the USN, whatever the versions.
LEMMA CompareZero ==
  ASSUME NEW a \in Stamps, NEW b \in Stamps, ReplCompareMetaData(a, b) = 0
  PROVE  /\ a.dwVersion = b.dwVersion
         /\ a.uuidDsaOriginating = b.uuidDsaOriginating
  <1>1. /\ a.dwVersion \in Versions /\ a.timeChanged \in Int /\ a.uuidDsaOriginating \in Int
        /\ b.dwVersion \in Versions /\ b.timeChanged \in Int /\ b.uuidDsaOriginating \in Int
    BY StampFields
  <1>2. b # None
    BY StampIsThere
  <1>3. ReplCompareVersions(a.dwVersion, b.dwVersion) = 0 => a.dwVersion = b.dwVersion
    BY <1>1, VersionsAntisymmetric
  <1>4. \A n \in Int : Sign(n) = 0 => n = 0
    BY DEF Sign
  <1>5. /\ a.timeChanged - b.timeChanged \in Int
        /\ a.uuidDsaOriginating - b.uuidDsaOriginating \in Int
    BY <1>1
  <1> QED BY <1>1, <1>2, <1>3, <1>4, <1>5 DEF ReplCompareMetaData

\* What is added to a version shows as long as the sum stays in the window.
LEMMA AddLevel ==
  ASSUME NEW base \in Versions, NEW v \in Versions, NEW w \in 1 .. Half,
         Sub(v, base) < Half, Sub(Add(v, w), base) < Half
  PROVE  Sub(Add(v, w), base) = Sub(v, base) + w
  <1>h. /\ Half \in Nat /\ Half > 0
        /\ v \in Int /\ 0 <= v /\ v < 2 * Half
        /\ w \in Int /\ 1 <= w /\ w <= Half
        /\ base \in Int /\ 0 <= base /\ base < 2 * Half
    BY HalfAssumption DEF Versions
  <1>1. CASE v + w < 2 * Half
    BY <1>1, <1>h DEF Sub, Add
  <1>2. CASE v + w >= 2 * Half
    BY <1>2, <1>h DEF Sub, Add
  <1> QED BY <1>1, <1>2, <1>h

-----------------------------------------------------------------------------
(* The invariant.                                                          *)

\* All that server s has made or processed is less than half a range ahead.
Window(s, base) == \A m \in seen[s] : Level(m, base) < Half

\* A server has processed or made what it holds.
Held == \A s \in Servers : \/ meta[s] = None /\ seen[s] = {}
                           \/ meta[s] # None /\ meta[s] \in seen[s]

\* It holds the latest of what it did not fall below.
Latest == \A s \in Servers, base \in Versions :
            Window(s, base) => \A m \in seen[s] \ lost[s] : ~Later(m, meta[s], base)

\* USNs make every stamp a new one.
UsnAhead == \A s \in Servers : \A m \in seen[s] : m.usnOriginating <= usn[m.uuidDsaOriginating]

MadeSeen == \A m \in stamps : m \in seen[m.uuidDsaOriginating]

\* A server falls below a stamp of its own after it has made it.
LostFell == \A s \in Servers : \A m \in lost[s] :
              /\ m \in seen[s]
              /\ m.uuidDsaOriginating = s =>
                   \E k \in m.usnOriginating .. usn[s] : <<s, k>> \in fell

Parts == Held /\ Latest /\ UsnAhead /\ MadeSeen /\ LostFell /\ EqualMeansSame

MetaInv == TypeOK /\ Parts

\* What is known of a stamp that is being made.
LEMMA StampIsNew ==
  ASSUME TypeOK, Parts, NEW s \in Servers, NEW v \in Versions, NEW now \in Times,
         NEW got \in SUBSET stamps, NEW below \in SUBSET Stamps,
         Stamp(s, v, now, got, below)
  PROVE  LET n == NewStamp(s, v, now) IN
         /\ n \in Stamps /\ n.dwVersion = v /\ n.uuidDsaOriginating = s
         /\ n.usnOriginating = usn[s] + 1 /\ usn[s] \in Nat /\ usn'[s] = usn[s] + 1
         /\ \A r \in Servers : n \notin seen[r]
         /\ meta'[s] = n /\ seen'[s] = seen[s] \cup got \cup {n} /\ lost'[s] = below
         /\ stamps' = stamps \cup {n}
         /\ \A r \in Servers : r # s => /\ meta'[r] = meta[r] /\ usn'[r] = usn[r]
                                        /\ seen'[r] = seen[r] /\ lost'[r] = lost[r]
  <1> DEFINE n == NewStamp(s, v, now)
  <1>1. usn[s] \in Nat
    BY DEF TypeOK
  <1>2. n.dwVersion = v /\ n.uuidDsaOriginating = s /\ n.usnOriginating = usn[s] + 1
    BY DEF NewStamp
  <1>3. n \in Stamps
    BY <1>1 DEF NewStamp, Stamps
  <1>4. \A r \in Servers : n \notin seen[r]
    <2> SUFFICES ASSUME NEW r \in Servers, n \in seen[r] PROVE FALSE
      OBVIOUS
    <2>1. n.usnOriginating <= usn[n.uuidDsaOriginating]
      BY DEF Parts, UsnAhead
    <2> QED BY <1>1, <1>2, <2>1
  <1>5. /\ meta'[s] = n /\ usn'[s] = usn[s] + 1 /\ stamps' = stamps \cup {n}
        /\ seen'[s] = seen[s] \cup got \cup {n} /\ lost'[s] = below
    BY DEF Stamp, TypeOK
  <1>6. \A r \in Servers : r # s => /\ meta'[r] = meta[r] /\ usn'[r] = usn[r]
                                    /\ seen'[r] = seen[r] /\ lost'[r] = lost[r]
    BY DEF Stamp, TypeOK
  <1> QED BY <1>1, <1>2, <1>3, <1>4, <1>5, <1>6

\* A new stamp keeps the invariant if it is the latest of what its server has not
\* fallen below, and equal to a stamp of the server's own only behind a fall.
LEMMA StampKeepsParts ==
  ASSUME TypeOK, Parts, NEW s \in Servers, NEW v \in Versions, NEW now \in Times,
         NEW got \in SUBSET stamps, NEW below \in SUBSET Stamps,
         Stamp(s, v, now, got, below), fell \subseteq fell',
         below \subseteq seen[s] \cup got,
         \A m \in below : m.uuidDsaOriginating = s =>
           \E k \in m.usnOriginating .. usn[s] : <<s, k>> \in fell',
         \A base \in Versions : Window(s, base)' =>
           \A m \in (seen[s] \cup got) \ below : ~Later(m, NewStamp(s, v, now), base),
         \A base \in Versions, m \in seen[s] :
           Window(s, base)' /\ m.uuidDsaOriginating = s /\ m.dwVersion = v =>
             \E k \in m.usnOriginating .. usn[s] : <<s, k>> \in fell'
  PROVE  Parts'
  <1> DEFINE n == NewStamp(s, v, now)
  <1>1. /\ n \in Stamps /\ n.dwVersion = v /\ n.uuidDsaOriginating = s
        /\ n.usnOriginating = usn[s] + 1 /\ usn[s] \in Nat /\ usn'[s] = usn[s] + 1
        /\ \A r \in Servers : n \notin seen[r]
        /\ meta'[s] = n /\ seen'[s] = seen[s] \cup got \cup {n} /\ lost'[s] = below
        /\ stamps' = stamps \cup {n}
        /\ \A r \in Servers : r # s => /\ meta'[r] = meta[r] /\ usn'[r] = usn[r]
                                       /\ seen'[r] = seen[r] /\ lost'[r] = lost[r]
    BY StampIsNew
  <1>2. n # None
    BY <1>1, StampIsThere
  <1>o. \A base \in Versions : Window(s, base)' =>
           \A m \in (seen[s] \cup got) \ below : ~Later(m, n, base)
    OBVIOUS
  <1> HIDE DEF n
  <1>u. usn \in [Servers -> Nat]
    BY DEF TypeOK
  <1>3. Held'
    BY <1>1, <1>2 DEF Parts, Held
  <1>4. Latest'
    <2> SUFFICES ASSUME NEW r \in Servers, NEW base \in Versions, Window(r, base)',
                        NEW m \in seen'[r] \ lost'[r]
                 PROVE  ~Later(m, meta'[r], base)
      BY DEF Latest
    <2>1. CASE r # s
      <3>1. Window(r, base)
        BY <1>1, <2>1 DEF Window
      <3> QED BY <1>1, <2>1, <3>1 DEF Parts, Latest
    <2>2. CASE r = s /\ m = n
      BY <1>1, <2>2, LaterTransitive
    <2>3. CASE r = s /\ m # n
      BY <1>1, <1>o, <2>3
    <2> QED BY <2>1, <2>2, <2>3
  <1>5. \A m \in stamps : m \in Stamps /\ m.uuidDsaOriginating \in Servers /\ m.usnOriginating \in Nat
    BY StampFields DEF TypeOK
  <1>6. \A m \in stamps : m.usnOriginating <= usn[m.uuidDsaOriginating]
    BY <1>5 DEF Parts, MadeSeen, UsnAhead
  <1>7. \A r \in Servers : usn[r] \in Nat /\ usn[r] <= usn'[r]
    BY <1>1, <1>u
  <1>8. \A r \in Servers : \A m \in seen[r] :
          m.uuidDsaOriginating \in Servers /\ m.usnOriginating \in Nat
    BY StampFields DEF TypeOK
  <1>9. UsnAhead'
    <2> SUFFICES ASSUME NEW r \in Servers, NEW m \in seen'[r]
                 PROVE  m.usnOriginating <= usn'[m.uuidDsaOriginating]
      BY DEF UsnAhead
    <2>1. CASE m = n
      BY <1>1, <2>1
    <2>2. CASE m \in seen[r]
      <3>1. m.usnOriginating <= usn[m.uuidDsaOriginating]
        BY <2>2 DEF Parts, UsnAhead
      <3>2. /\ m.uuidDsaOriginating \in Servers /\ m.usnOriginating \in Int
            /\ usn'[m.uuidDsaOriginating] \in Int
        BY <1>1, <1>7, <1>8, <1>u, <2>2
      <3> QED BY <1>7, <3>1, <3>2
    <2>3. CASE m \in stamps
      <3>1. m.usnOriginating <= usn[m.uuidDsaOriginating]
        BY <1>6, <2>3
      <3>2. /\ m.uuidDsaOriginating \in Servers /\ m.usnOriginating \in Int
            /\ usn'[m.uuidDsaOriginating] \in Int
        BY <1>1, <1>5, <1>7, <1>u, <2>3
      <3> QED BY <1>7, <3>1, <3>2
    <2> QED BY <1>1, <2>1, <2>2, <2>3
  <1>10. \A r \in Servers : seen[r] \subseteq seen'[r]
    BY <1>1
  <1>11. MadeSeen'
    BY <1>1, <1>5, <1>10 DEF Parts, MadeSeen
  <1>12. LostFell'
    <2> SUFFICES ASSUME NEW r \in Servers, NEW m \in lost'[r]
                 PROVE  /\ m \in seen'[r]
                        /\ m.uuidDsaOriginating = r =>
                             \E k \in m.usnOriginating .. usn'[r] : <<r, k>> \in fell'
      BY DEF LostFell
    <2>1. CASE r # s
      BY <1>1, <2>1 DEF Parts, LostFell
    <2>2. CASE r = s
      <3>1. m \in below /\ m \in seen'[s]
        BY <1>1, <2>2
      <3>2. ASSUME m.uuidDsaOriginating = s
            PROVE  \E k \in m.usnOriginating .. usn'[s] : <<s, k>> \in fell'
        <4>1. PICK k \in m.usnOriginating .. usn[s] : <<s, k>> \in fell'
          BY <3>1, <3>2
        <4>2. m.usnOriginating \in Nat
          BY <1>5, <1>8, <3>1
        <4>3. k \in m.usnOriginating .. usn'[s]
          BY <1>1, <4>1, <4>2
        <4> QED BY <4>1, <4>3
      <3> QED BY <2>2, <3>1, <3>2
    <2> QED BY <2>1, <2>2
  <1>13. EqualMeansSame'
    <2> SUFFICES ASSUME NEW m1 \in stamps', NEW m2 \in stamps', ReplCompareMetaData(m1, m2) = 0,
                        m1.usnOriginating <= m2.usnOriginating, Close(m1.uuidDsaOriginating)',
                        m1 # m2
                 PROVE  \E k \in m1.usnOriginating .. m2.usnOriginating - 1 :
                          <<m1.uuidDsaOriginating, k>> \in fell'
      BY DEF EqualMeansSame
    <2>1. m1 \in Stamps /\ m2 \in Stamps
      BY <1>1, <1>5
    <2>2. m1.dwVersion = m2.dwVersion /\ m1.uuidDsaOriginating = m2.uuidDsaOriginating
      BY <2>1, CompareZero
    <2>3. CASE m1 \in stamps /\ m2 \in stamps
      <3>1. m1.uuidDsaOriginating \in Servers
        BY <1>5, <2>3
      <3>2. Close(m1.uuidDsaOriginating)
        BY <1>10, <3>1 DEF Close
      <3> QED BY <2>3, <3>2 DEF Parts, EqualMeansSame
    <2>4. CASE m1 = n
      <3>1. m2 \in stamps /\ m2.uuidDsaOriginating = s
        BY <1>1, <2>2, <2>4
      <3>2. m2.usnOriginating <= usn[s] /\ m2.usnOriginating \in Nat
        BY <1>5, <1>6, <3>1
      <3> QED BY <1>1, <2>4, <3>2
    <2>5. CASE m1 \in stamps /\ m2 = n
      <3>1. m1.uuidDsaOriginating = s /\ m1.dwVersion = v /\ m1 \in seen[s]
        BY <1>1, <2>2, <2>5 DEF Parts, MadeSeen
      <3>2. PICK base \in Versions : \A m \in seen'[s] : Sub(m.dwVersion, base) < Half
        BY <3>1 DEF Close
      <3>3. Window(s, base)'
        BY <3>2 DEF Window, Level
      <3>4. \E k \in m1.usnOriginating .. usn[s] : <<s, k>> \in fell'
        BY <3>1, <3>3
      <3>5. m2.usnOriginating - 1 = usn[s]
        BY <1>1, <2>5
      <3> QED BY <3>1, <3>4, <3>5
    <2> QED BY <1>1, <2>3, <2>4, <2>5
  <1> QED BY <1>3, <1>4, <1>9, <1>11, <1>12, <1>13 DEF Parts


\* A stamp above what its server has not fallen below keeps the invariant.
LEMMA RisingKeepsParts ==
  ASSUME TypeOK, Parts, NEW s \in Servers, NEW v \in Versions, NEW w \in 1 .. Half,
         NEW now \in Times, NEW got \in SUBSET stamps,
         Stamp(s, Add(v, w), now, got, lost[s] \ got), UNCHANGED fell,
         \A base \in Versions :
           (\A m \in seen[s] \cup got : Level(m, base) < Half) =>
              \A m \in (seen[s] \ lost[s]) \cup got :
                 Sub(v, base) < Half /\ Level(m, base) <= Sub(v, base)
  PROVE  Parts'
  <1> DEFINE new == Add(v, w)
             n == NewStamp(s, new, now)
             below == lost[s] \ got
  <1>1. w \in Versions /\ new \in Versions
    BY AddType, HalfAssumption DEF Versions
  <1>2. /\ below \in SUBSET Stamps /\ Stamp(s, new, now, got, below) /\ fell \subseteq fell'
        /\ below \subseteq seen[s] \cup got /\ below \subseteq lost[s]
        /\ (seen[s] \cup got) \ below \subseteq (seen[s] \ lost[s]) \cup got
    BY DEF TypeOK, Parts, LostFell
  <1>l. \A m \in lost[s] : m.uuidDsaOriginating = s =>
           \E k \in m.usnOriginating .. usn[s] : <<s, k>> \in fell'
    BY DEF Parts, LostFell
  <1>3. \A m \in below : m.uuidDsaOriginating = s =>
           \E k \in m.usnOriginating .. usn[s] : <<s, k>> \in fell'
    BY <1>2, <1>l
  <1>d. Add(v, w) = new
    OBVIOUS
  <1> HIDE DEF below, new
  <1>4. /\ n \in Stamps /\ n.dwVersion = new
        /\ seen'[s] = seen[s] \cup got \cup {n}
    <2>1. usn[s] \in Nat
      BY DEF TypeOK
    <2>2. n \in Stamps /\ n.dwVersion = new
      BY <1>1, <2>1 DEF NewStamp, Stamps
    <2> QED BY <1>2, <2>2 DEF Stamp, TypeOK
  <1>e. NewStamp(s, new, now) = n
    OBVIOUS
  <1> HIDE DEF n
  <1>5. ASSUME NEW base \in Versions, Window(s, base)',
               NEW m \in (seen[s] \ lost[s]) \cup got
        PROVE  Level(m, base) < Level(n, base) /\ m \in Stamps
    <2>1. /\ \A x \in seen[s] \cup got : Level(x, base) < Half
          /\ Level(n, base) < Half
      BY <1>4, <1>5 DEF Window
    <2>2. Sub(v, base) < Half /\ Level(m, base) <= Sub(v, base)
      BY <2>1
    <2>3. Level(n, base) = Sub(v, base) + w
      BY <1>4, <1>d, <2>1, <2>2, AddLevel DEF Level
    <2>4. m \in Stamps
      BY DEF TypeOK
    <2>5. Level(m, base) \in Int /\ Sub(v, base) \in Int /\ w \in Int /\ w > 0
      BY <2>4, StampFields, LevelType, HalfAssumption DEF Level
    <2> QED BY <2>2, <2>3, <2>4, <2>5
  <1>6. \A base \in Versions : Window(s, base)' =>
           \A m \in (seen[s] \cup got) \ below : ~Later(m, NewStamp(s, new, now), base)
    <2> SUFFICES ASSUME NEW base \in Versions, Window(s, base)',
                        NEW m \in (seen[s] \cup got) \ below
                 PROVE  ~Later(m, n, base)
      BY <1>e
    <2>1. Level(m, base) < Level(n, base) /\ m \in Stamps
      BY <1>2, <1>5
    <2>2. Level(m, base) \in Int /\ Level(n, base) \in Int
      BY <1>4, <2>1, StampFields, LevelType DEF Level
    <2> QED BY <1>4, <2>1, <2>2, LaterTransitive
  <1>7. \A base \in Versions, m \in seen[s] :
           Window(s, base)' /\ m.uuidDsaOriginating = s /\ m.dwVersion = new =>
             \E k \in m.usnOriginating .. usn[s] : <<s, k>> \in fell'
    <2> SUFFICES ASSUME NEW base \in Versions, NEW m \in seen[s], Window(s, base)',
                        m.uuidDsaOriginating = s, m.dwVersion = new
                 PROVE  \E k \in m.usnOriginating .. usn[s] : <<s, k>> \in fell'
      OBVIOUS
    <2>1. CASE m \in lost[s]
      BY <1>l, <2>1
    <2>2. CASE m \notin lost[s]
      <3>1. Level(m, base) < Level(n, base) /\ m \in Stamps
        BY <1>5, <2>2
      <3>2. Level(m, base) = Level(n, base) /\ Level(m, base) \in Int
        BY <1>4, <3>1, StampFields, LevelType DEF Level
      <3> QED BY <3>1, <3>2
    <2> QED BY <2>1, <2>2
  <1> QED BY <1>1, <1>2, <1>3, <1>6, <1>7, StampKeepsParts

\* So does one that puts all its server has below it, marked by a fall.
LEMMA UnderrideKeepsParts ==
  ASSUME TypeOK, Parts, NEW s \in Servers, NEW now \in Times, NEW got \in SUBSET stamps,
         Underride(s, got, now)
  PROVE  Parts'
  <1> DEFINE new == Add(ReplUnderrideMetaData, 1)
             below == seen[s] \cup got
  <1>1. new \in Versions
    BY ConstantVersions, AddType DEF ReplUnderrideMetaData
  <1>2. /\ below \in SUBSET Stamps /\ Stamp(s, new, now, got, below) /\ fell \subseteq fell'
        /\ below \subseteq seen[s] \cup got /\ <<s, usn[s]>> \in fell'
        /\ (seen[s] \cup got) \ below = {}
    BY DEF TypeOK, Underride, Fall
  <1> HIDE DEF new
  <1>3. ASSUME NEW m \in below, m.uuidDsaOriginating = s
        PROVE  \E k \in m.usnOriginating .. usn[s] : <<s, k>> \in fell'
    <2>1. m.usnOriginating \in Nat /\ usn[s] \in Nat
      BY <1>2, StampFields DEF TypeOK
    <2>2. m.usnOriginating <= usn[m.uuidDsaOriginating]
      <3>1. CASE m \in seen[s]
        BY <3>1 DEF Parts, UsnAhead
      <3>2. CASE m \in got
        BY <1>3, <3>2 DEF Parts, UsnAhead, MadeSeen
      <3> QED BY <3>1, <3>2
    <2>3. usn[s] \in m.usnOriginating .. usn[s]
      BY <1>3, <2>1, <2>2
    <2> QED BY <1>2, <2>3
  <1>4. seen[s] \subseteq below
    OBVIOUS
  <1> HIDE DEF below
  <1>5. \A m \in below : m.uuidDsaOriginating = s =>
           \E k \in m.usnOriginating .. usn[s] : <<s, k>> \in fell'
    BY <1>3
  <1>6. \A base \in Versions : Window(s, base)' =>
           \A m \in (seen[s] \cup got) \ below : ~Later(m, NewStamp(s, new, now), base)
    BY <1>2
  <1>7. \A base \in Versions, m \in seen[s] :
           Window(s, base)' /\ m.uuidDsaOriginating = s /\ m.dwVersion = new =>
             \E k \in m.usnOriginating .. usn[s] : <<s, k>> \in fell'
    BY <1>4, <1>5
  <1>8. /\ below \in SUBSET Stamps /\ Stamp(s, new, now, got, below) /\ fell \subseteq fell'
        /\ below \subseteq seen[s] \cup got
    BY <1>2
  <1> QED BY <1>1, <1>5, <1>6, <1>7, <1>8, StampKeepsParts

\* A server that takes over a stamp keeps the invariant if that is the latest of
\* what it does not fall below.
LEMMA TakeKeepsParts ==
  ASSUME TypeOK, Parts, NEW s \in Servers, NEW m \in Stamps, NEW held \in Stamps,
         NEW below \in SUBSET seen[s],
         meta' = [meta EXCEPT ![s] = held], seen' = [seen EXCEPT ![s] = @ \cup {m}],
         lost' = [lost EXCEPT ![s] = below], UNCHANGED <<usn, stamps>>, fell \subseteq fell',
         held = m \/ held \in seen[s],
         m.usnOriginating <= usn[m.uuidDsaOriginating],
         \A x \in below : x.uuidDsaOriginating = s =>
           \E k \in x.usnOriginating .. usn[s] : <<s, k>> \in fell',
         \A base \in Versions :
           (\A x \in seen[s] \cup {m} : Level(x, base) < Half) =>
              \A x \in (seen[s] \cup {m}) \ below : ~Later(x, held, base)
  PROVE  Parts'
  <1>1. /\ meta'[s] = held /\ seen'[s] = seen[s] \cup {m} /\ lost'[s] = below
        /\ \A r \in Servers : seen[r] \subseteq seen'[r]
        /\ \A r \in Servers : r # s => /\ meta'[r] = meta[r] /\ seen'[r] = seen[r]
                                       /\ lost'[r] = lost[r]
    BY DEF TypeOK
  <1>2. held # None
    BY StampIsThere
  <1>3. Held'
    BY <1>1, <1>2 DEF Parts, Held
  <1>4. Latest'
    <2> SUFFICES ASSUME NEW r \in Servers, NEW base \in Versions, Window(r, base)',
                        NEW x \in seen'[r] \ lost'[r]
                 PROVE  ~Later(x, meta'[r], base)
      BY DEF Latest
    <2>1. CASE r # s
      <3>1. Window(r, base)
        BY <1>1, <2>1 DEF Window
      <3> QED BY <1>1, <2>1, <3>1 DEF Parts, Latest
    <2>2. CASE r = s
      <3>1. \A y \in seen[s] \cup {m} : Level(y, base) < Half
        BY <1>1, <2>2 DEF Window
      <3> QED BY <1>1, <2>2, <3>1
    <2> QED BY <2>1, <2>2
  <1>5. UsnAhead'
    BY <1>1 DEF Parts, UsnAhead
  <1>6. \A x \in stamps : x.uuidDsaOriginating \in Servers
    BY StampFields DEF TypeOK
  <1>7. MadeSeen'
    BY <1>1, <1>6 DEF Parts, MadeSeen
  <1>8. LostFell'
    BY <1>1 DEF Parts, LostFell
  <1>9. \A r \in Servers : Close(r)' => Close(r)
    BY <1>1 DEF Close
  <1>10. EqualMeansSame'
    BY <1>6, <1>9 DEF Parts, EqualMeansSame
  <1> QED BY <1>3, <1>4, <1>5, <1>7, <1>8, <1>10 DEF Parts

LEMMA InitParts == Init => Parts
  <1> SUFFICES ASSUME Init PROVE Parts
    OBVIOUS
  <1>1. /\ usn = [r \in Servers |-> 0] /\ lost = [r \in Servers |-> {}] /\ fell = {}
        /\ seen = [r \in Servers |-> stamps]
    BY DEF Init
  <1>2. CASE stamps = {} /\ meta = [r \in Servers |-> None]
    <2>1. \A r \in Servers : meta[r] = None /\ seen[r] = {} /\ lost[r] = {}
      BY <1>1, <1>2
    <2> QED BY <1>2, <2>1 DEF Parts, Held, Latest, UsnAhead, MadeSeen, LostFell, EqualMeansSame
  <1>3. CASE \E s \in Writable, v \in InitVersions, t \in Times :
               /\ stamps = {[dwVersion |-> v, timeChanged |-> t,
                             uuidDsaOriginating |-> s, usnOriginating |-> 0]}
               /\ meta \in [Servers -> stamps]
    <2>1. PICK s \in Writable, v \in InitVersions, t \in Times :
               /\ stamps = {[dwVersion |-> v, timeChanged |-> t,
                             uuidDsaOriginating |-> s, usnOriginating |-> 0]}
               /\ meta \in [Servers -> stamps]
      BY <1>3
    <2> DEFINE m == [dwVersion |-> v, timeChanged |-> t,
                     uuidDsaOriginating |-> s, usnOriginating |-> 0]
    <2>2. v \in Versions /\ s \in Servers
      BY ConstantVersions DEF Servers
    <2>3. m \in Stamps /\ m.uuidDsaOriginating = s /\ m.usnOriginating = 0
      BY <2>2 DEF Stamps
    <2>4. stamps = {m} /\ \A r \in Servers : meta[r] = m /\ seen[r] = {m} /\ lost[r] = {} /\ usn[r] = 0
      BY <1>1, <2>1
    <2> HIDE DEF m
    <2>5. m # None
      BY <2>3, StampIsThere
    <2>6. Held /\ UsnAhead /\ MadeSeen /\ LostFell
      BY <2>2, <2>3, <2>4, <2>5 DEF Held, UsnAhead, MadeSeen, LostFell
    <2>7. Latest
      BY <2>3, <2>4, LaterTransitive DEF Latest
    <2>8. EqualMeansSame
      BY <2>4 DEF EqualMeansSame
    <2> QED BY <2>6, <2>7, <2>8 DEF Parts
  <1> QED BY <1>2, <1>3 DEF Init

\* The order of an inbound stamp and of the one held, in a window with both.
LEMMA InboundOrder ==
  ASSUME TypeOK, Parts, NEW s \in Servers, NEW m \in stamps, NEW base \in Versions,
         \A x \in seen[s] \cup {m} : Level(x, base) < Half, meta[s] # None
  PROVE  /\ m \in Stamps /\ meta[s] \in Stamps /\ meta[s] \in seen[s]
         /\ Level(meta[s], base) < Half
         /\ ReplCompareMetaData(m, meta[s]) > 0 <=> Later(m, meta[s], base)
         /\ ReplCompareMetaData(m, meta[s]) <= 0 <=> ~Later(m, meta[s], base)
         /\ \A x \in seen[s] \ lost[s] : x \in Stamps /\ ~Later(x, meta[s], base)
  <1>1. m \in Stamps /\ meta[s] \in Stamps /\ meta[s] \in seen[s] /\ seen[s] \subseteq Stamps
    BY DEF TypeOK, Parts, Held
  <1>2. Level(meta[s], base) < Half /\ Level(m, base) < Half
    BY <1>1
  <1>3. Window(s, base)
    BY DEF Window
  <1>4. \A x \in seen[s] \ lost[s] : ~Later(x, meta[s], base)
    BY <1>3 DEF Parts, Latest
  <1>5. /\ ReplCompareMetaData(m, meta[s]) > 0 <=> Later(m, meta[s], base)
        /\ ReplCompareMetaData(m, meta[s]) <= 0 <=> ~Later(m, meta[s], base)
    BY <1>1, <1>2, CompareOK
  <1> QED BY <1>1, <1>2, <1>4, <1>5

\* An inbound stamp that wins is later than all the server did not fall below.
LEMMA WinnerIsLatest ==
  ASSUME TypeOK, Parts, NEW s \in Servers, NEW m \in stamps,
         ReplCompareMetaData(m, meta[s]) > 0, NEW base \in Versions,
         \A x \in seen[s] \cup {m} : Level(x, base) < Half
  PROVE  \A x \in (seen[s] \ lost[s]) \cup {m} : x \in Stamps /\ ~Later(x, m, base)
  <1>1. m \in Stamps /\ ~Later(m, m, base)
    BY LaterTransitive DEF TypeOK
  <1>2. CASE meta[s] = None
    BY <1>1, <1>2 DEF Parts, Held
  <1>3. CASE meta[s] # None
    <2>1. /\ meta[s] \in Stamps /\ Later(m, meta[s], base)
          /\ \A x \in seen[s] \ lost[s] : x \in Stamps /\ ~Later(x, meta[s], base)
      BY <1>3, InboundOrder
    <2> QED BY <1>1, <2>1, LaterTransitive
  <1> QED BY <1>2, <1>3

\* One that does not leaves the one held later than all.
LEMMA LoserIsBelow ==
  ASSUME TypeOK, Parts, NEW s \in Servers, NEW m \in stamps, meta[s] # None,
         ReplCompareMetaData(m, meta[s]) <= 0, NEW base \in Versions,
         \A x \in seen[s] \cup {m} : Level(x, base) < Half
  PROVE  \A x \in (seen[s] \ lost[s]) \cup {m} : x \in Stamps /\ ~Later(x, meta[s], base)
  BY InboundOrder

\* A write of s itself, with whatever was processed before (OriginatingWrite,
\* AuthoritativeWrite, FlushTouched).
LEMMA WriteKeepsParts ==
  ASSUME TypeOK, Parts, NEW s \in Servers, NEW now \in Times, NEW w \in 1 .. Half,
         Stamp(s, Add(Version(s), w), now, {}, lost[s]), UNCHANGED fell
  PROVE  Parts'
  <1> DEFINE v == Version(s)
             got == {}
  <1>1. v \in Versions /\ got \in SUBSET stamps /\ Stamp(s, Add(v, w), now, got, lost[s] \ got)
    <2>1. lost[s] \ {} = lost[s]
      OBVIOUS
    <2> QED BY <2>1, VersionType
  <1>2. ASSUME NEW base \in Versions, \A m \in seen[s] \cup got : Level(m, base) < Half,
               NEW m \in (seen[s] \ lost[s]) \cup got
        PROVE  Sub(v, base) < Half /\ Level(m, base) <= Sub(v, base)
    <2>1. /\ meta[s] # None /\ meta[s] \in seen[s] /\ m \in seen[s] \ lost[s]
          /\ meta[s] \in Stamps /\ m \in Stamps
      BY DEF TypeOK, Parts, Held
    <2>2. v = meta[s].dwVersion
      BY <2>1 DEF Version
    <2>3. ~Later(m, meta[s], base)
      BY <1>2, <2>1 DEF Parts, Latest, Window
    <2>4. Level(m, base) <= Level(meta[s], base)
      BY <2>1, <2>3, LaterTransitive
    <2> QED BY <1>2, <2>1, <2>2, <2>4 DEF Level
  <1> HIDE DEF v, got
  <1> QED BY <1>1, <1>2, RisingKeepsParts

LEMMA LocalValueKeepsParts ==
  ASSUME TypeOK, Parts, NEW s \in Servers, NEW m \in stamps, NEW now \in Times,
         OverrideWithLocalValue(s, m, now)
  PROVE  Parts'
  <1> DEFINE v == m.dwVersion
             got == {m}
  <1>1. /\ v \in Versions /\ got \in SUBSET stamps /\ 1 \in 1 .. Half /\ fell' = fell
        /\ Stamp(s, Add(v, 1), now, got, lost[s] \ got)
        /\ ReplCompareMetaData(m, meta[s]) > 0
    BY StampFields, HalfAssumption DEF TypeOK, OverrideWithLocalValue
  <1>2. ASSUME NEW base \in Versions, \A x \in seen[s] \cup got : Level(x, base) < Half,
               NEW x \in (seen[s] \ lost[s]) \cup got
        PROVE  Sub(v, base) < Half /\ Level(x, base) <= Sub(v, base)
    <2>1. x \in Stamps /\ ~Later(x, m, base) /\ m \in Stamps
      BY <1>1, <1>2, WinnerIsLatest DEF TypeOK
    <2>2. Level(x, base) <= Level(m, base) /\ Level(m, base) < Half
      BY <1>2, <2>1, LaterTransitive
    <2> QED BY <2>2 DEF Level
  <1> HIDE DEF v, got
  <1> QED BY <1>1, <1>2, RisingKeepsParts

LEMMA RemoteValueKeepsParts ==
  ASSUME TypeOK, Parts, NEW s \in Servers, NEW m \in stamps, NEW now \in Times,
         OverrideWithRemoteValue(s, m, now)
  PROVE  Parts'
  <1> DEFINE v == meta[s].dwVersion
             got == {m}
  <1>0. meta[s] # None /\ meta[s] \in Stamps /\ meta[s] \in seen[s]
    BY DEF TypeOK, Parts, Held, OverrideWithRemoteValue
  <1>1. /\ v \in Versions /\ got \in SUBSET stamps /\ 1 \in 1 .. Half /\ fell' = fell
        /\ Stamp(s, Add(v, 1), now, got, lost[s] \ got)
        /\ ReplCompareMetaData(m, meta[s]) <= 0
    BY <1>0, StampFields, HalfAssumption DEF OverrideWithRemoteValue
  <1>2. ASSUME NEW base \in Versions, \A x \in seen[s] \cup got : Level(x, base) < Half,
               NEW x \in (seen[s] \ lost[s]) \cup got
        PROVE  Sub(v, base) < Half /\ Level(x, base) <= Sub(v, base)
    <2>1. x \in Stamps /\ ~Later(x, meta[s], base)
      BY <1>0, <1>1, <1>2, LoserIsBelow
    <2>2. Level(x, base) <= Level(meta[s], base) /\ Level(meta[s], base) < Half
      BY <1>0, <1>2, <2>1, LaterTransitive
    <2> QED BY <2>2 DEF Level
  <1> HIDE DEF v, got
  <1> QED BY <1>1, <1>2, RisingKeepsParts

\* A visible stamp is no newer than its server's USN.
LEMMA VisibleUsn ==
  ASSUME TypeOK, Parts, NEW m \in stamps
  PROVE  m \in Stamps /\ m.usnOriginating <= usn[m.uuidDsaOriginating]
  BY StampFields DEF TypeOK, Parts, MadeSeen, UsnAhead

LEMMA ApplyKeepsParts ==
  ASSUME TypeOK, Parts, NEW s \in Servers, NEW m \in stamps, ApplyRemote(s, m)
  PROVE  Parts'
  <1> DEFINE below == lost[s] \ {m}
  <1>1. m \in Stamps /\ m.usnOriginating <= usn[m.uuidDsaOriginating]
    BY VisibleUsn
  <1>2. /\ meta' = [meta EXCEPT ![s] = m] /\ seen' = [seen EXCEPT ![s] = @ \cup {m}]
        /\ lost' = [lost EXCEPT ![s] = below] /\ UNCHANGED <<usn, stamps>> /\ fell' = fell
        /\ ReplCompareMetaData(m, meta[s]) > 0
    BY DEF ApplyRemote
  <1>3. below \in SUBSET seen[s] /\ \A x \in below : x.uuidDsaOriginating = s =>
           \E k \in x.usnOriginating .. usn[s] : <<s, k>> \in fell'
    BY <1>2 DEF Parts, LostFell
  <1>4. (seen[s] \cup {m}) \ below \subseteq (seen[s] \ lost[s]) \cup {m}
    OBVIOUS
  <1>5. \A base \in Versions :
           (\A x \in seen[s] \cup {m} : Level(x, base) < Half) =>
              \A x \in (seen[s] \cup {m}) \ below : ~Later(x, m, base)
    BY <1>2, <1>4, WinnerIsLatest
  <1> HIDE DEF below
  <1> QED BY <1>1, <1>2, <1>3, <1>5, TakeKeepsParts

LEMMA KeepKeepsParts ==
  ASSUME TypeOK, Parts, NEW s \in Servers, NEW m \in stamps, KeepLocal(s, m)
  PROVE  Parts'
  <1> DEFINE below == lost[s] \ {m}
             held == meta[s]
  <1>1. m \in Stamps /\ m.usnOriginating <= usn[m.uuidDsaOriginating]
    BY VisibleUsn
  <1>2. /\ seen' = [seen EXCEPT ![s] = @ \cup {m}] /\ meta' = meta
        /\ lost' = [lost EXCEPT ![s] = below] /\ UNCHANGED <<usn, stamps>> /\ fell' = fell
        /\ ReplCompareMetaData(m, held) <= 0
    BY DEF KeepLocal
  <1>3. below \in SUBSET seen[s] /\ \A x \in below : x.uuidDsaOriginating = s =>
           \E k \in x.usnOriginating .. usn[s] : <<s, k>> \in fell'
    BY <1>2 DEF Parts, LostFell
  <1>4. (seen[s] \cup {m}) \ below \subseteq (seen[s] \ lost[s]) \cup {m}
    OBVIOUS
  <1>5. held # None
    BY <1>2 DEF ReplCompareMetaData
  <1>6. held \in Stamps /\ held \in seen[s] /\ meta' = [meta EXCEPT ![s] = held]
    BY <1>2, <1>5 DEF TypeOK, Parts, Held
  <1>7. \A base \in Versions :
           (\A x \in seen[s] \cup {m} : Level(x, base) < Half) =>
              \A x \in (seen[s] \cup {m}) \ below : ~Later(x, held, base)
    BY <1>2, <1>4, <1>5, LoserIsBelow
  <1> HIDE DEF below, held
  <1> QED BY <1>1, <1>2, <1>3, <1>6, <1>7, TakeKeepsParts

\* Taking over a stamp below all others is marked by a fall (PhantomizeObject,
\* ForcedFullSync).
LEMMA FallKeepsParts ==
  ASSUME TypeOK, Parts, NEW s \in Servers, NEW m \in Stamps, Fall(s),
         m.usnOriginating <= usn[m.uuidDsaOriginating],
         meta' = [meta EXCEPT ![s] = m], seen' = [seen EXCEPT ![s] = @ \cup {m}],
         lost' = [lost EXCEPT ![s] = seen[s] \ {m}], UNCHANGED <<usn, stamps>>
  PROVE  Parts'
  <1> DEFINE below == seen[s] \ {m}
  <1>1. /\ fell \subseteq fell' /\ <<s, usn[s]>> \in fell'
        /\ below \in SUBSET seen[s] /\ (seen[s] \cup {m}) \ below = {m}
        /\ lost' = [lost EXCEPT ![s] = below]
    BY DEF Fall
  <1>2. ASSUME NEW x \in below, x.uuidDsaOriginating = s
        PROVE  \E k \in x.usnOriginating .. usn[s] : <<s, k>> \in fell'
    <2>1. x.usnOriginating \in Nat /\ usn[s] \in Nat
      BY StampFields DEF TypeOK
    <2>2. x.usnOriginating <= usn[s]
      BY <1>2 DEF Parts, UsnAhead
    <2>3. usn[s] \in x.usnOriginating .. usn[s]
      BY <2>1, <2>2
    <2> QED BY <1>1, <2>3
  <1>3. \A base \in Versions :
           (\A x \in seen[s] \cup {m} : Level(x, base) < Half) =>
              \A x \in (seen[s] \cup {m}) \ below : ~Later(x, m, base)
    BY <1>1, LaterTransitive
  <1> HIDE DEF below
  <1> QED BY <1>1, <1>2, <1>3, TakeKeepsParts

LEMMA StepParts == MetaInv /\ [Next]_vars => Parts'
  <1> SUFFICES ASSUME TypeOK, Parts, [Next]_vars PROVE Parts'
    BY DEF MetaInv
  <1>a. 1 \in 1 .. Half /\ Bumps \subseteq 1 .. Half
    BY HalfAssumption, BumpsAssumption
  <1>1. ASSUME NEW s \in Servers, NEW now \in Times,
               OriginatingWrite(s, now) \/ FlushTouched(s, now)
        PROVE  Parts'
    <2>1. Stamp(s, Add(Version(s), 1), now, {}, lost[s]) /\ fell' = fell
      BY <1>1 DEF OriginatingWrite, FlushTouched
    <2> QED BY <1>a, <2>1, WriteKeepsParts
  <1>2. ASSUME NEW s \in Servers, NEW now \in Times, NEW bump \in Bumps,
               AuthoritativeWrite(s, now, bump)
        PROVE  Parts'
    <2>1. Stamp(s, Add(Version(s), bump), now, {}, lost[s]) /\ fell' = fell
      BY <1>2 DEF AuthoritativeWrite
    <2> QED BY <1>a, <2>1, WriteKeepsParts
  <1>3. ASSUME NEW s \in Servers, NEW m \in stamps, ApplyRemote(s, m)
        PROVE  Parts'
    BY <1>3, ApplyKeepsParts
  <1>4. ASSUME NEW s \in Servers, NEW m \in stamps, KeepLocal(s, m)
        PROVE  Parts'
    BY <1>4, KeepKeepsParts
  <1>5. ASSUME NEW s \in Servers, NEW m \in stamps, NEW now \in Times,
               OverrideWithLocalValue(s, m, now)
        PROVE  Parts'
    BY <1>5, LocalValueKeepsParts
  <1>6. ASSUME NEW s \in Servers, NEW m \in stamps, NEW now \in Times,
               OverrideWithRemoteValue(s, m, now)
        PROVE  Parts'
    BY <1>6, RemoteValueKeepsParts
  <1>7. ASSUME NEW s \in Servers, NEW m \in stamps, NEW now \in Times,
               RenameInboundObject(s, m, now)
        PROVE  Parts'
    BY <1>7, UnderrideKeepsParts DEF RenameInboundObject
  <1>8. ASSUME NEW s \in Servers, NEW now \in Times,
               RenameLocalObject(s, now) \/ PrePhantomizeChildCleanup(s, now)
        PROVE  Parts'
    <2>1. Underride(s, {}, now)
      BY <1>8 DEF RenameLocalObject, PrePhantomizeChildCleanup
    <2> QED BY <2>1, UnderrideKeepsParts
  <1>9. ASSUME NEW s \in Servers, PhantomizeObject(s)
        PROVE  Parts'
    <2> DEFINE m == [meta[s] EXCEPT !.dwVersion = ReplUnderrideMetaData]
    <2>1. meta[s] \in Stamps /\ meta[s] \in seen[s]
      BY <1>9 DEF PhantomizeObject, TypeOK, Parts, Held
    <2>2. m \in Stamps /\ m.usnOriginating = meta[s].usnOriginating
          /\ m.uuidDsaOriginating = meta[s].uuidDsaOriginating
      BY <2>1, ConstantVersions DEF Stamps, ReplUnderrideMetaData
    <2>3. m.usnOriginating <= usn[m.uuidDsaOriginating]
      BY <2>1, <2>2 DEF Parts, UsnAhead
    <2>4. /\ meta' = [meta EXCEPT ![s] = m] /\ seen' = [seen EXCEPT ![s] = @ \cup {m}]
          /\ lost' = [lost EXCEPT ![s] = seen[s] \ {m}]
          /\ Fall(s) /\ UNCHANGED <<usn, stamps>>
      BY <1>9 DEF PhantomizeObject
    <2> HIDE DEF m
    <2> QED BY <2>2, <2>3, <2>4, FallKeepsParts
  <1>10. ASSUME NEW s \in Servers, NEW m \in stamps, ForcedFullSync(s, m)
         PROVE  Parts'
    <2>1. m \in Stamps /\ m.usnOriginating <= usn[m.uuidDsaOriginating]
      BY VisibleUsn
    <2> QED BY <1>10, <2>1, FallKeepsParts DEF ForcedFullSync
  <1>11. CASE UNCHANGED vars
    BY <1>11 DEF vars, Parts, Held, Latest, Window, UsnAhead, MadeSeen, LostFell,
                 EqualMeansSame, Close
  <1> QED BY <1>1, <1>2, <1>3, <1>4, <1>5, <1>6, <1>7, <1>8, <1>9, <1>10, <1>11 DEF Next

\* Whatever a server writes, processes, overrides, underrides or takes over in a forced
\* full synchronisation: it holds the latest of what it did not fall below, its USN is
\* ahead of its stamps, and what it fell below of its own has a recorded fall.
THEOREM MetaInvariant == Spec => []MetaInv
  <1>1. Init => MetaInv
    BY InitTypeOK, InitParts DEF MetaInv
  <1>2. MetaInv /\ [Next]_vars => MetaInv'
    BY StepTypeOK, StepParts DEF MetaInv
  <1> QED BY <1>1, <1>2, PTL DEF Spec

\* No change a server has processed (ReplReconcileRemoteMetaDataVec, OverrideValues)
\* can win over what it holds later, but for one it fell below: for every server,
\* writable or not, whose versions lie within half a range.
THEOREM ProcessedIsBelow == Spec => []ProcessedBelow
  <1>1. MetaInv => ProcessedBelow
    <2> SUFFICES ASSUME MetaInv, NEW s \in Servers, Close(s), NEW m \in seen[s] \ lost[s]
                 PROVE  meta[s] # None /\ ReplCompareMetaData(meta[s], m) >= 0
      BY DEF ProcessedBelow
    <2>1. PICK base \in Versions : \A x \in seen[s] : Sub(x.dwVersion, base) < Half
      BY DEF Close
    <2>2. Window(s, base)
      BY <2>1 DEF Window, Level
    <2>3. /\ meta[s] # None /\ meta[s] \in seen[s]
          /\ meta[s] \in Stamps /\ m \in Stamps
      BY DEF MetaInv, TypeOK, Parts, Held
    <2>4. ~Later(m, meta[s], base)
      BY <2>2 DEF MetaInv, Parts, Latest
    <2>5. Level(m, base) < Half /\ Level(meta[s], base) < Half
      BY <2>2, <2>3 DEF Window
    <2> QED BY <2>3, <2>4, <2>5, CompareOK
  <1> QED BY <1>1, MetaInvariant, PTL

\* Two writes with equal stamps, which ReplReconcileRemoteMetaDataVec takes for one,
\* have a fall of their server between them: an underridden name or a forced full
\* synchronisation (mdmoddn.c, drancrep.c).
THEOREM EqualStampsAreOne == Spec => []EqualMeansSame
  <1>1. MetaInv => EqualMeansSame
    BY DEF MetaInv, Parts
  <1> QED BY <1>1, MetaInvariant, PTL

-----------------------------------------------------------------------------
(* Underridden stamps.                                                     *)

\* A touched entry has the version that the next flush turns into 0.
UnderriddenAreZero ==
  /\ \A u \in underridden : u.dwVersion = 0
  /\ \A s \in touched : meta[s].dwVersion = ULONG_MAX

LEMMA UnderriddenIsZero ==
  ASSUME NEW s \in Servers, NEW now \in Times
  PROVE  NewStamp(s, Add(ULONG_MAX, 1), now).dwVersion = 0
  <1>1. Add(ULONG_MAX, 1) = 0
    BY HalfAssumption DEF Add, ULONG_MAX
  <1> QED BY <1>1 DEF NewStamp

LEMMA StepUnderridden == TypeOK /\ UnderriddenAreZero /\ [Next]_vars => UnderriddenAreZero'
  <1> SUFFICES ASSUME TypeOK, UnderriddenAreZero, [Next]_vars PROVE UnderriddenAreZero'
    OBVIOUS
  <1>t. touched \subseteq Servers
    BY DEF TypeOK
  \* Server s is no longer touched, the others are as they were.
  <1>a. ASSUME NEW s \in Servers, touched' = touched \ {s},
               \A r \in Servers : r # s => meta'[r] = meta[r],
               \A u \in underridden' : u.dwVersion = 0
        PROVE  UnderriddenAreZero'
    BY <1>a, <1>t DEF UnderriddenAreZero
  <1>b. ASSUME NEW s \in Servers, NEW v, NEW now \in Times, NEW got, NEW below,
               Stamp(s, v, now, got, below)
        PROVE  touched' = touched \ {s} /\ \A r \in Servers : r # s => meta'[r] = meta[r]
    BY <1>b DEF Stamp, TypeOK
  <1>1. ASSUME NEW s \in Servers, NEW now \in Times, NEW got, Underride(s, got, now)
        PROVE  UnderriddenAreZero'
    <2>1. \A u \in underridden' : u.dwVersion = 0
      BY <1>1, UnderriddenIsZero DEF Underride, ReplUnderrideMetaData, UnderriddenAreZero
    <2>2. Stamp(s, Add(ReplUnderrideMetaData, 1), now, got, seen[s] \cup got)
      BY <1>1 DEF Underride
    <2> QED BY <1>a, <1>b, <2>1, <2>2
  <1>2. ASSUME NEW s \in Servers, PhantomizeObject(s)
        PROVE  UnderriddenAreZero'
    <2>1. meta[s] \in Stamps
      BY <1>2 DEF PhantomizeObject, TypeOK
    <2>2. meta'[s].dwVersion = ULONG_MAX /\ \A r \in Servers : r # s => meta'[r] = meta[r]
      BY <1>2, <2>1 DEF PhantomizeObject, TypeOK, Stamps, ReplUnderrideMetaData
    <2> QED BY <1>2, <1>t, <2>2 DEF PhantomizeObject, UnderriddenAreZero
  <1>3. ASSUME NEW s \in Servers, NEW now \in Times, FlushTouched(s, now)
        PROVE  UnderriddenAreZero'
    <2>1. Version(s) = ULONG_MAX
      BY <1>3 DEF FlushTouched, Version, UnderriddenAreZero, TypeOK
    <2>2. \A u \in underridden' : u.dwVersion = 0
      BY <1>3, <2>1, UnderriddenIsZero DEF FlushTouched, UnderriddenAreZero
    <2>3. Stamp(s, Add(Version(s), 1), now, {}, lost[s])
      BY <1>3 DEF FlushTouched
    <2> QED BY <1>a, <1>b, <2>2, <2>3
  <1>4. ASSUME NEW s \in Servers, NEW m \in stamps, ApplyRemote(s, m) \/ ForcedFullSync(s, m)
        PROVE  UnderriddenAreZero'
    <2>1. /\ touched' = touched \ {s} /\ underridden' = underridden
          /\ \A r \in Servers : r # s => meta'[r] = meta[r]
      BY <1>4 DEF ApplyRemote, ForcedFullSync, TypeOK
    <2> QED BY <1>a, <2>1 DEF UnderriddenAreZero
  <1>5. ASSUME NEW s \in Servers, NEW m \in stamps, KeepLocal(s, m)
        PROVE  UnderriddenAreZero'
    BY <1>5 DEF KeepLocal, UnderriddenAreZero
  <1>6. ASSUME NEW s \in Servers, NEW v, NEW now \in Times, NEW got, NEW below,
               Stamp(s, v, now, got, below), underridden' = underridden
        PROVE  UnderriddenAreZero'
    BY <1>6, <1>a, <1>b DEF UnderriddenAreZero
  <1>7. CASE UNCHANGED vars
    BY <1>7 DEF vars, UnderriddenAreZero
  <1>8. CASE \E s \in Servers, now \in Times : OriginatingWrite(s, now)
    BY <1>8, <1>6 DEF OriginatingWrite
  <1>9. CASE \E s \in Servers, now \in Times, bump \in Bumps : AuthoritativeWrite(s, now, bump)
    BY <1>9, <1>6 DEF AuthoritativeWrite
  <1>10. CASE \E s \in Servers, m \in stamps, now \in Times : OverrideWithLocalValue(s, m, now)
    BY <1>10, <1>6 DEF OverrideWithLocalValue
  <1>11. CASE \E s \in Servers, m \in stamps, now \in Times : OverrideWithRemoteValue(s, m, now)
    BY <1>11, <1>6 DEF OverrideWithRemoteValue
  <1> QED
    BY <1>1, <1>2, <1>3, <1>4, <1>5, <1>7, <1>8, <1>9, <1>10, <1>11
       DEF Next, RenameInboundObject, RenameLocalObject, PrePhantomizeChildCleanup

\* A name a replica made up (ReplUnderrideMetaData, flushed at once or with a later
\* update of the object) loses to every real change, as long as fewer than half of the
\* versions were used.
THEOREM UnderriddenLose == Spec => []UnderriddenLoses
  <1>1. Init => UnderriddenAreZero
    BY DEF Init, UnderriddenAreZero
  <1>2. TypeOK /\ UnderriddenAreZero => UnderriddenLoses
    <2> SUFFICES ASSUME TypeOK, UnderriddenAreZero, NEW u \in underridden,
                        NEW m \in stamps \ underridden, m.dwVersion \in 1 .. Half
                 PROVE  ReplCompareMetaData(m, u) > 0
      BY DEF UnderriddenLoses
    <2>1. u \in Stamps /\ u # None /\ u.dwVersion = 0
      BY StampIsThere DEF TypeOK, UnderriddenAreZero
    <2>2. m.dwVersion \in Versions /\ 0 \in Versions
      BY StampFields, ConstantVersions DEF TypeOK
    <2>3. ReplCompareVersions(m.dwVersion, 0) = SerialCompare(m.dwVersion, 0)
      BY <2>2, CompareVersionsSerial
    <2>4. SerialCompare(m.dwVersion, 0) = 1
      BY HalfAssumption DEF SerialCompare, Sub
    <2> QED BY <2>1, <2>3, <2>4 DEF ReplCompareMetaData
  <1> QED BY <1>1, <1>2, StepUnderridden, TypeCorrect, PTL DEF Spec
=============================================================================
