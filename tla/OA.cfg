SPECIFICATION Spec
CONSTANTS
  Clients = {c1, c2}
  Sessions = {s1, s2}
  Accounts = {a1, a2}
  Requests = {q1, q2, q3, q4}
  MaxOwnerActs = 3
  None = None
SYMMETRY Symmetry
INVARIANTS TypeOK GrantConsented ConsentOnce OneRefreshPerGrant
PROPERTIES RevokedStaysDead ImplementsConnections
CHECK_DEADLOCK FALSE
