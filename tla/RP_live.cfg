SPECIFICATION FairSpec
CONSTANTS
  Workers = {w1}
  Slots = {q1,q2,q3}
  Tokens = {a}
  RecTokens = {r1}
  Txs = {t1,t2}
  PoolSize = 2
  MAX_ATTEMPTS = 2
  MaxCrashes = 1
  MaxFaults = 1
  MaxFailures = 1
  Kinds = {"keyed","plain","bulk"}
  None = None
PROPERTIES StatusSettles RecordedIsDelivered
CHECK_DEADLOCK FALSE
