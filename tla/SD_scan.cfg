SPECIFICATION Spec
CONSTANTS
  b1 = b1
  b2 = b2
  Blobs = {b1, b2}
  Batches = {t1}
  Reconcilers = {}
  Tracked = {b2}
  Known <- MCNoneKnown
  Expiring = {b2}
  Deployments <- MCResolverOnly
  Page <- MCPage
  LastPage = 2
  ActiveCap = 1
  DeleteBatchMax = 2
  MaxChanges = 0
  NoBatch = NoBatch
INVARIANTS NotOwnerConfirmed
CHECK_DEADLOCK FALSE
