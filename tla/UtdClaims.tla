----------------------------- MODULE UtdClaims -----------------------------
(***************************************************************************)
(* What up-to-dateness vectors promise, without vectors: a server claims,  *)
(* for every invocation id, a pair of USN and time (<<0, 0>>: nothing).    *)
(* Claims are compared like numbers of two digits and only grow, except    *)
(* that a partial replica may adopt its source's claims.                   *)
(*                                                                         *)
(* The abstract specification of module UpToDateVec.                       *)
(***************************************************************************)
EXTENDS Integers

CONSTANTS Servers, Ids, FirstId, Gcs, W2k, New, MaxUsn, MaxTime, NoOffer

VARIABLES
  claim,      \* each server's claims about other ids
  offer,      \* the claims under way to each server, or NoOffer
  id,         \* each server's current id
  retired,    \* the claim about an id just retired, or Nothing
  used, committed, coming, clock, started

vars == <<claim, offer, id, retired, used, committed, coming, clock, started>>

Nothing == [i \in Ids |-> <<0, 0>>]

Larger(p, q) == IF p[1] > q[1] \/ (p[1] = q[1] /\ p[2] > q[2]) THEN p ELSE q

\* Both servers' claims together, except about the id own.
Join(c1, c2, own) ==
  [i \in Ids |-> IF i = own THEN c1[i] ELSE Larger(c1[i], c2[i])]

Only(i, usn, time) == [Nothing EXCEPT ![i] = <<usn, time>>]

Commit(s) ==
  /\ committed[s] < MaxUsn
  /\ committed' = [committed EXCEPT ![s] = @ + 1]
  /\ UNCHANGED <<claim, offer, id, retired, used, coming, clock, started>>

Tick ==
  /\ clock < MaxTime
  /\ clock' = clock + 1
  /\ UNCHANGED <<claim, offer, id, retired, used, committed, coming, started>>

\* s offers d all it claims and its own position; old servers without times.
Offer(d, s) ==
  /\ d # s
  /\ offer[d] = NoOffer
  /\ LET all == [claim[s] EXCEPT ![id[s]] = <<committed[s], clock>>]
         c   == IF s \in W2k THEN [i \in Ids |-> <<all[i][1], 0>>] ELSE all
     IN offer' = [offer EXCEPT ![d] =
          [from |-> id[s], claim |-> IF coming[s] THEN Nothing ELSE c,
           times |-> IF s \in W2k THEN "lost" ELSE "known"]]
  /\ UNCHANGED <<claim, id, retired, used, committed, coming, clock, started>>

\* The receiver times an offer of an old server that is not empty.
Time(d) ==
  /\ offer[d] # NoOffer
  /\ offer[d].times = "lost"
  /\ LET c == offer[d].claim
         i == offer[d].from
     IN offer' = [offer EXCEPT ![d] =
          [from |-> i,
           claim |-> IF c = Nothing THEN c ELSE [c EXCEPT ![i] = <<c[i][1], clock>>],
           times |-> "known"]]
  /\ UNCHANGED <<claim, id, retired, used, committed, coming, clock, started>>

Take(d, c) ==
  /\ offer[d] # NoOffer
  /\ offer[d].times = "known"
  /\ offer[d].claim # Nothing
  /\ claim' = [claim EXCEPT ![d] = c]
  /\ coming' = [coming EXCEPT ![d] = FALSE]
  /\ offer' = [offer EXCEPT ![d] = NoOffer]
  /\ UNCHANGED <<id, retired, used, committed, clock, started>>

Learn(d) == Take(d, Join(claim[d], offer[d].claim, id[d]))

Adopt(d) ==
  /\ d \in Gcs
  /\ Take(d, [offer[d].claim EXCEPT ![id[d]] = <<0, 0>>])

Refuse(d) ==
  /\ offer' = [offer EXCEPT ![d] = NoOffer]
  /\ UNCHANGED <<claim, id, retired, used, committed, coming, clock, started>>

Rename(s, new) ==
  /\ new \notin used
  /\ retired[s] = Nothing
  /\ used' = used \cup {new}
  /\ id' = [id EXCEPT ![s] = new]
  /\ retired' = [retired EXCEPT ![s] = Only(id[s], committed[s], started[s])]
  /\ UNCHANGED <<claim, offer, committed, coming, clock, started>>

\* What was written under the retired id is claimed a step later.
Record(s) ==
  /\ retired[s] # Nothing
  /\ claim' = [claim EXCEPT ![s] =
                 IF coming[s] THEN claim[s] ELSE Join(claim[s], retired[s], id[s])]
  /\ retired' = [retired EXCEPT ![s] = Nothing]
  /\ UNCHANGED <<offer, id, used, committed, coming, clock, started>>

Boot(s) ==
  /\ started' = [started EXCEPT ![s] = clock]
  /\ offer' = [offer EXCEPT ![s] = NoOffer]
  /\ retired' = [retired EXCEPT ![s] = Nothing]
  /\ UNCHANGED <<claim, id, used, committed, coming, clock>>

Init ==
  /\ claim = [s \in Servers |-> Nothing]
  /\ offer = [s \in Servers |-> NoOffer]
  /\ id = FirstId
  /\ retired = [s \in Servers |-> Nothing]
  /\ used = {FirstId[s] : s \in Servers}
  /\ committed = [s \in Servers |-> 1]
  /\ coming = [s \in Servers |-> s \in New]
  /\ clock = 1
  /\ started = [s \in Servers |-> 1]

Next ==
  \/ Tick
  \/ \E s \in Servers : Commit(s)
  \/ \E d, s \in Servers : Offer(d, s)
  \/ \E d \in Servers : Time(d) \/ Learn(d) \/ Adopt(d) \/ Refuse(d)
  \/ \E s \in Servers, new \in Ids : Rename(s, new)
  \/ \E s \in Servers : Record(s) \/ Boot(s)

Spec == Init /\ [][Next]_vars
=============================================================================
