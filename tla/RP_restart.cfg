SPECIFICATION Spec
CONSTANTS
  Workers = {w1}
  Slots = {q1,q2}
  Tokens = {a,b}
  RecTokens = {r1}
  Txs = {t1,t2}
  PoolSize = 1
  MAX_ATTEMPTS = 1
  MaxCrashes = 0
  MaxFaults = 1
  MaxFailures = 1
  Kinds = {"keyed"}
  None = None
SYMMETRY Symmetry
PROPERTIES RestartOnlyUnpaid
CHECK_DEADLOCK FALSE
