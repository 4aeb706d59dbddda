---------------------------- MODULE RightsLedger ----------------------------
(***************************************************************************)
(* What a budget service promises, whatever its messages and its storage   *)
(* do: rights to spend are never created.  A right is held by one replica  *)
(* (as escrow or as spent budget) or travels in one transfer; a transfer   *)
(* opens once, lands at most once, and what is lost stays lost.            *)
(*                                                                         *)
(* EscrowService (impl/escrow.py), Cluster (impl/distributed.py) and       *)
(* DurableCluster (impl/durable.py) are shown to implement it.             *)
(***************************************************************************)
EXTENDS Sums

CONSTANTS Replicas, Tids, CAP

VARIABLES
  held,     \* rights held by each replica, spent ones included
  used,     \* those of them that are spent
  transit,  \* rights travelling in each open transfer
  opened    \* transfers ever opened

rvars == <<held, used, transit, opened>>

RInit ==
  /\ held \in [Replicas -> Nat]
  /\ SumOver(held, Replicas) <= CAP
  /\ used = [r \in Replicas |-> 0]
  /\ transit = [t \in {} |-> 0]
  /\ opened = {}

\* A replica spends, or loses what it holds (spent or not) in a crash.
Local(r) ==
  /\ held'[r] \in 0 .. held[r]
  /\ used'[r] \in 0 .. held'[r]
  /\ held' = [held EXCEPT ![r] = held'[r]]
  /\ used' = [used EXCEPT ![r] = used'[r]]
  /\ UNCHANGED <<transit, opened>>

\* A replica gives unspent rights to a transfer that was never used before.
Open(r, t) ==
  /\ t \notin opened
  /\ \E amount \in 0 .. held[r] - used[r] :
       /\ held' = [held EXCEPT ![r] = held[r] - amount]
       /\ transit' = Put(transit, t, amount)
  /\ opened' = opened \cup {t}
  /\ UNCHANGED used

\* The rights of an open transfer arrive, all of them, at one replica.
Land(r, t) ==
  /\ held' = [held EXCEPT ![r] = held[r] + transit[t]]
  /\ transit' = [u \in DOMAIN transit \ {t} |-> transit[u]]
  /\ UNCHANGED <<used, opened>>

\* The rights of an open transfer are lost.
Vanish(t) ==
  /\ transit' = [u \in DOMAIN transit \ {t} |-> transit[u]]
  /\ UNCHANGED <<held, used, opened>>

RNext ==
  \/ \E r \in Replicas : Local(r)
  \/ \E r \in Replicas, t \in Tids : Open(r, t)
  \/ \E r \in Replicas, t \in DOMAIN transit : Land(r, t)
  \/ \E t \in DOMAIN transit : Vanish(t)

RSpec == RInit /\ [][RNext]_rvars
=============================================================================
