CONSTANTS
  j1 = j1
  j2 = j2
  main = main
  lane = lane
  gdb = gdb
  cat = cat
  xxd = xxd
  NoShell = NoShell
  NoCommand = NoCommand
  NoJob = NoJob
  Caller = {j1, j2}
  Shell = {main}
  Command = {gdb, cat, xxd}
  Cost <- MCCost
  CostOf <- MCCostOf
  MaxHandles = 2
  CapActive = 2
  CapHeavy = 1
  CapMemory = 4
  CapPids = 4
  CapQueued = 8
SPECIFICATION Spec
SYMMETRY MCSymmetry
PROPERTIES SeenMeansRan
CHECK_DEADLOCK FALSE
