CONSTANTS
  web = web
  pwn = pwn
  vm = vm
  NoChallenge = NoChallenge
  Challenge = {web, pwn, vm}
  Dynamic = {vm}
  Proven = {vm}
  HighValue = {vm}
  Crowd <- MCCrowd
  MaxCount = 3
  MaxStreak = 2
  BackoffCap = 1
  CreditCap = 1
  CountCap = 5
  RetryGap = 2
  Selected = {vm}
  Openings <- MCOpenings
  Cooldown = 1
  Recovery = 2
  MaxRun = 5
SPECIFICATION FairSpec
INVARIANTS LanesNeverJam BackoffIsOver
PROPERTIES SolvedComesLast NobodyLeftBehind RunEnds
CHECK_DEADLOCK FALSE
