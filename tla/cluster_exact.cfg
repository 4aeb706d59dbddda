\* Both idempotencies on, unique transfer ids.
SPECIFICATION Spec
CONSTANTS
  r1 = r1
  r2 = r2
  t1 = t1
  t2 = t2
  t3 = t3
  c1 = c1
  c2 = c2
  Replicas = {r1, r2}
  Opids = {c1, c2}
  Presented <- Routed
  Amounts = {1, 2}
  Transfers <- UniqueTransfers
  CAP = 4
  InitEscrow <- MCInitEscrow
  SenderIdempotent = TRUE
  ReceiverIdempotent = TRUE
  MaxCopies = 2
INVARIANTS
  TypeOK
  Conserved
  SpentIsAuthorised
  ReceiptsAgree
PROPERTIES
  ImplementsRightsLedger
  ImplementsSpecModel
CHECK_DEADLOCK FALSE
