SPECIFICATION Spec
CONSTANTS
  o1 = o1
  k1 = k1
  k2 = k2
  s1 = s1
  s2 = s2
  Owners = {o1}
  Keys = {k1, k2}
  Roots = {s1, s2}
  AccountLeaves <- MCAccountLeaves
  DelegateLeaves <- MCDelegateLeaves
  MAX_DELEGATE_KEYS = 2
  Totals <- MCTotals
  Nodes = {n1}
  MaxCounter = 2
  MaxBlobs = 1
  None = None
SYMMETRY Symmetry
INVARIANTS AuthorityInv RevocationBites FrozenIsUnreadable SnapshotExact
           ImportsNeverStuck
PROPERTIES WithdrawalRotates
CHECK_DEADLOCK FALSE
