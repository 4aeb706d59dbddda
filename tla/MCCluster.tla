----------------------------- MODULE MCCluster ------------------------------
(* Cluster with the whole cap at one replica, as its callers allocate it   *)
(* (test_distributed.py), and three sets of transfers.                     *)
EXTENDS Cluster

CONSTANTS r1, r2, t1, t2, t3, c1, c2

Call(src, dst, amount, tid) ==
  [src |-> src, dst |-> dst, amount |-> amount, tid |-> tid]

MCInitEscrow == [r \in Replicas |-> IF r = r1 THEN CAP ELSE 0]

\* Callers stay with one replica per charge id, or go to any.
Routed  == [r \in Replicas |-> IF r = r1 THEN {c1} ELSE {c2}]
Anyhow  == [r \in Replicas |-> Opids]

\* Each id names one transfer: there and back, of different amounts.
UniqueTransfers ==
  {Call(r1, r2, 2, t1), Call(r2, r1, 1, t2), Call(r1, r2, 1, t3)}

\* Two senders, two receivers and three amounts share t1; t2 is unique.
CollidingTransfers ==
  {Call(r1, r2, 2, t1), Call(r1, r1, 3, t1), Call(r2, r1, 1, t1), Call(r2, r1, 1, t2)}

\* Genuine retries come from transfers whose ids are unique.
ASSUME UniqueIsUnique == \A m, n \in UniqueTransfers : m.tid = n.tid => m = n
=============================================================================
