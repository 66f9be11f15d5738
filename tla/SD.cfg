SPECIFICATION Spec
CONSTANTS
  b1 = b1
  b2 = b2
  Blobs = {b1, b2}
  Batches = {t1, t2}
  Reconcilers = {r1}
  Tracked = {b2}
  Known <- MCKnown
  Expiring = {b2}
  Deployments <- MCDeployments
  Page <- MCPage
  LastPage = 2
  ActiveCap = 2
  DeleteBatchMax = 2
  MaxChanges = 1
  NoBatch = NoBatch
SYMMETRY Symmetry
INVARIANTS TypeOK ClaimsExact TxCoversClaims TerminalIsTrue UnclaimedNotOwnerConfirmed
PROPERTIES ResolvedIsFinal ImplementsDeletionLedger
CHECK_DEADLOCK FALSE
