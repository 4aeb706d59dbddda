-------------------------- MODULE MCReplicaMutants --------------------------
(* ReplicaMutants on Cluster({"a": 2, "b": 0}, cap=2), as the file runs it, *)
(* with a transfer there and back and two that take an id in use.          *)
EXTENDS ReplicaMutants

MCInitEscrow == [r \in Replicas |-> IF r = "a" THEN 2 ELSE 0]
MCPresented  == [r \in Replicas |-> Opids]
MCTransfers  == {
  ABOne,
  [src |-> "b", dst |-> "a", amount |-> 1, tid |-> "t2"],
  [src |-> "a", dst |-> "a", amount |-> 2, tid |-> "t1"],
  [src |-> "b", dst |-> "a", amount |-> 1, tid |-> "t1"]}
=============================================================================
