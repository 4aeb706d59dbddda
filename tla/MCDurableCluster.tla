-------------------------- MODULE MCDurableCluster --------------------------
(* DurableCluster with the whole cap at one replica, as every caller of    *)
(* the constructor allocates it (fault_harness.py, test_durable.py).       *)
EXTENDS DurableCluster

CONSTANT Genesis   \* the replica that starts with the cap

MCInitEscrow == [r \in Replicas |-> IF r = Genesis THEN CAP ELSE 0]
=============================================================================
