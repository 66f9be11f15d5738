SPECIFICATION Spec
CONSTANTS
  Workers = {w1}
  Slots = {q1,q2,q3}
  Tokens = {a,b}
  RecTokens = {r1}
  Txs = {t1,t2}
  PoolSize = 1
  MAX_ATTEMPTS = 2
  MaxCrashes = 1
  MaxFaults = 2
  MaxFailures = 3
  Kinds = {"keyed","plain","bulk"}
  None = None
SYMMETRY Symmetry
INVARIANTS TypeOK AtMostOnePaid PaidIsJournaled IndexedIsDelivered
PROPERTIES ImplementsPaidWrite
CHECK_DEADLOCK FALSE
