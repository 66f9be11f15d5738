SPECIFICATION Spec
CONSTANTS
  Workers = {w1,w2}
  Slots = {q1,q2,q3}
  Tokens = {a}
  RecTokens = {r1}
  Txs = {t1}
  PoolSize = 1
  MAX_ATTEMPTS = 2
  MaxCrashes = 1
  MaxFaults = 1
  MaxFailures = 2
  Kinds = {"keyed"}
  None = None
SYMMETRY Symmetry
PROPERTIES DoneIsFinal
CHECK_DEADLOCK FALSE
