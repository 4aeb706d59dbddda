\* Message loss in the disciplined cluster.
SPECIFICATION Spec
CONSTANTS
  Replicas = {r1, r2}
  Tids = {t1, t2}
  Genesis = r1
  Amounts = {1, 2}
  CAP = 2
  InitEscrow <- MCInitEscrow
  DebitDurableBeforeSend = TRUE
  RecvdDurable = TRUE
PROPERTIES
  DropKeepsRight
