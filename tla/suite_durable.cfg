\* The suite of mutation_durable.py: two replicas, two ids, cap 2.
SPECIFICATION MSpec
CONSTANTS
  Replicas = {"a", "b"}
  Tids = {"t1", "t2"}
  Amounts = {1, 2}
  CAP = 2
  InitEscrow <- MCInitEscrow
  DebitDurableBeforeSend = TRUE
  RecvdDurable = TRUE
INVARIANTS
  SuiteVerdict
  DestructionIsSafe
  CreditedOnce
PROPERTIES
  OnlyCrashCreates
CHECK_DEADLOCK FALSE
