\* The suite of mutation_check.py: two replicas, cap 3.
SPECIFICATION MSpec
CONSTANTS
  Replicas = {"a", "b"}
  Genesis = "a"
  Opids = {"op1", "op2"}
  Tids = {"t1", "t2"}
  Amounts = {1, 2}
  CAP = 3
INVARIANTS
  SuiteVerdict
PROPERTIES
  CheckIsExact
\* After a violation was raised nothing more is called.
CHECK_DEADLOCK FALSE
