CONSTANTS
  j1 = j1
  j2 = j2
  main = main
  lane = lane
  gdb = gdb
  cat = cat
  xxd = xxd
  NoShell = NoShell
  NoCommand = NoCommand
  NoJob = NoJob
  Caller = {j1, j2}
  Shell = {main}
  Command = {gdb, cat}
  Cost <- MCCost
  CostOf <- TwoCostOf
  MaxHandles = 2
  CapActive = 1
  CapHeavy = 1
  CapMemory = 4
  CapPids = 4
  CapQueued = 8
SPECIFICATION FairSpec
PROPERTIES EveryJobEnds EveryWaitEnds
CHECK_DEADLOCK FALSE
