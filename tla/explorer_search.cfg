\* The search of spec_model.py on its own configuration and smaller and larger caps.
SPECIFICATION FirstSpec
CONSTANTS
  REPLICAS <- MCReplicas
  CIDS = {"c1", "c2"}
  TIDS = {"t1"}
  AMOUNTS = {1, 2}
  Caps <- MCCaps
  FileCap = 2
  TLC_DISTINCT = 66
INVARIANTS
  NothingMissed
  NoViolations
  CountAgrees
PROPERTIES
  Terminates
\* The search stops when the queue is empty.
CHECK_DEADLOCK FALSE
