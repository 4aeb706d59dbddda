\* The suite of mutation_distributed.py: two replicas, cap 2.
SPECIFICATION MSpec
CONSTANTS
  Replicas = {"a", "b"}
  Opids = {"o0", "o1", "o2", "o3"}
  Presented <- MCPresented
  Amounts = {1, 2}
  Transfers <- MCTransfers
  CAP = 2
  InitEscrow <- MCInitEscrow
  SenderIdempotent = TRUE
  ReceiverIdempotent = TRUE
  MaxCopies = 2
INVARIANTS
  SuiteVerdict
  NeverWorse
PROPERTIES
  BudgetMovesByFaultOnly
CHECK_DEADLOCK FALSE
