CONSTANTS
  A = A
  B = B
  a1 = a1
  a2 = a2
  b1 = b1
  c1 = c1
  e1 = e1
  NoCandidate = NoCandidate
  NoScope = NoScope
  NoFailure = NoFailure
  Challenge = {A, B}
  Scope = {a1, a2, b1}
  ChallengeOf <- MCChallengeOf
  Tasks <- MCTasks
  Batches <- MCBatches
  Candidate = {c1}
  Evidence = {e1}
  RunSeconds = 3
  AttemptSeconds = 2
  IdleGrace = 1
  MaxAttempts = 2
  MaxContinuations = 1
  MaxTotal = 2
  MaxScopes = 3
  PerAttempt <- MCPerAttempt
  InTotal <- MCInTotal
  MaxRetries = 1
  MaxRepairs = 1
  BaseDelay = 1
  MaxBackoff = 1
  Policy = "progress"
  MaxBypasses = 1
  ModelFailures <- MCModelFailures
  ToolFailures <- MCToolFailures
SPECIFICATION Spec
INVARIANTS NoEffectForgotten DeliveredOnce OpenEffectBlocksChallenge UsageWithinBudget BypassesBounded
PROPERTIES EveryAttemptEnds
CHECK_DEADLOCK FALSE
