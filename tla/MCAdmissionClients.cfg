CONSTANTS
  c1 = c1
  c2 = c2
  c3 = c3
  c4 = c4
  Caller = {c1, c2, c3, c4}
  Cost <- MCCost
  CapActive = 2
  CapHeavy = 1
  CapMemory = 3
  CapPids = 3
  CapQueued = 2
SPECIFICATION FairSpec
INVARIANTS LeasesFitCapacity
PROPERTIES NoOvertaking EveryWaiterServed
