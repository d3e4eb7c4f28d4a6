------------------------------ MODULE MCDraRepl -----------------------------
(* Instances of DraRepl for TLC.                                           *)
EXTENDS DraRepl

\* A parent and its child.
MCAncestors == [o \in {"p", "c"} |-> IF o = "c" THEN <<"p">> ELSE <<>>]

\* Two objects below the head.
Siblings == [o \in {"p", "c"} |-> <<>>]

\* Who replicates from whom: pairs <<destination, source>>.
TwoWay == {<<1, 2>>, <<2, 1>>}
OneWay == {<<2, 1>>}

\* Nothing reads the disk once no crash is left.
View == <<live, IF count.crashes = MaxCrashes THEN live ELSE disk, image, curId, usn,
          pending, cyc, rpc, born, expired, count>>

\* Bound: a fourth write only in the first cycle, with one write open at a time
\* and without failures; not both a failure and an expired object.
FewAtOnce ==
  /\ count.writes > 3 => /\ count.syncs <= 1 /\ count.aborts = 0 /\ count.expired = 0
                         /\ \A s \in Servers : Cardinality(pending[s]) <= 1
  /\ count.aborts = 0 \/ count.expired = 0
=============================================================================
