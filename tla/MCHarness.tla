----------------------------- MODULE MCHarness ------------------------------
(* Harness with the whole cap at the first replica, as setup() allocates   *)
(* it, two replicas and two ids.                                           *)
EXTENDS Harness

CONSTANTS r1, r2

MCNames      == <<r1, r2>>
MCTids       == 0 .. 1
MCInitEscrow == [r \in Replicas |-> IF r = r1 THEN CAP ELSE 0]
=============================================================================
