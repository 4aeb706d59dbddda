\* Reference service: two replicas, two charge ids, two transfer ids, cap 3.
SPECIFICATION Spec
CONSTANTS
  Replicas = {r1, r2}
  Genesis = r1
  Opids = {c1, c2}
  Tids = {t1, t2}
  Amounts = {0, 1, 2}
  CAP = 3
INVARIANTS
  TypeOK
  CheckPasses
  SpentIsAuthorised
  MessagesBacked
PROPERTIES
  ImplementsRightsLedger
  ImplementsSpecModel
\* Every id used and every message dropped: each further call is refused.
CHECK_DEADLOCK FALSE
