-------------------------- MODULE MCDurableMutants --------------------------
(* DurableMutants on DurableCluster({"a": 2, "b": 0}, cap=2).              *)
EXTENDS DurableMutants

MCInitEscrow == [r \in Replicas |-> IF r = "a" THEN 2 ELSE 0]
=============================================================================
