\* Overspending charges and guarded reclaims.
SPECIFICATION Spec
CONSTANTS
  Replicas = {r1, r2}
  Genesis = r1
  Amounts = {1, 2, 3}
  CAP = 3
  InitEscrow <- MCInitEscrow
  OverspendFlags = {TRUE, FALSE}
  SafeFlags = {TRUE}
  MaxDebt = 2
INVARIANTS
  TypeOK
  AuthorityAccounted
  SolventIsSafe
\* Without escrow and at the overdraft bound every call is refused.
CHECK_DEADLOCK FALSE
