SPECIFICATION FairSpec
CONSTANTS
  Requests = {r1, r2, r3, r4}
  Keys = {k1, k2}
  MaxActive = 2
  PerWallet = 2
INVARIANTS TypeOK SlotsConserved NoOvertaking QueuesExact CountersExact
PROPERTIES WaitEnds
