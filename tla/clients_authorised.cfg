\* What clients of the disciplined cluster hold, against the cap.
SPECIFICATION CSpec
CONSTANTS
  Replicas = {r1, r2}
  Tids = {t1, t2}
  Genesis = r1
  Amounts = {1, 2}
  CAP = 2
  InitEscrow <- MCInitEscrow
  DebitDurableBeforeSend = TRUE
  RecvdDurable = TRUE
  MaxCrashes = 2
INVARIANTS
  AuthorisedWithinCap
CHECK_DEADLOCK FALSE
