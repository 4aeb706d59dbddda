-------------------------- MODULE MCDurableClients --------------------------
(* DurableClients with the whole cap at one replica.                       *)
EXTENDS DurableClients

CONSTANT Genesis   \* the replica that starts with the cap

MCInitEscrow == [r \in Replicas |-> IF r = Genesis THEN CAP ELSE 0]
=============================================================================
