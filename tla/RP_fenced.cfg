SPECIFICATION FairSpec
CONSTANTS
  Workers = {w1}
  Slots = {q1,q2,q3}
  Tokens = {a}
  RecTokens = {r1}
  Txs = {t1,t2}
  PoolSize = 1
  MAX_ATTEMPTS = 2
  MaxCrashes = 1
  MaxFaults = 0
  MaxFailures = 1
  Kinds = {"plain"}
  None = None
PROPERTIES RerunDelivers
CHECK_DEADLOCK FALSE
