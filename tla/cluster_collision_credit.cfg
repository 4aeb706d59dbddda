\* Transfers that share an id, both idempotencies on.
SPECIFICATION Spec
CONSTANTS
  r1 = r1
  r2 = r2
  t1 = t1
  t2 = t2
  t3 = t3
  c1 = c1
  c2 = c2
  Replicas = {r1, r2}
  Opids = {c1, c2}
  Presented <- Anyhow
  Amounts = {1, 2}
  Transfers <- CollidingTransfers
  CAP = 4
  InitEscrow <- MCInitEscrow
  SenderIdempotent = TRUE
  ReceiverIdempotent = TRUE
  MaxCopies = 2
INVARIANTS
  CollisionCreditedOnce
CHECK_DEADLOCK FALSE
