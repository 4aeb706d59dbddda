-------------------------- MODULE MCRecoveryLedger --------------------------
(* RecoveryLedger with the cap at one replica, as test_recovery.py sets it. *)
EXTENDS RecoveryLedger

CONSTANT Genesis

MCInitEscrow == [r \in Replicas |-> IF r = Genesis THEN CAP ELSE 0]
=============================================================================
