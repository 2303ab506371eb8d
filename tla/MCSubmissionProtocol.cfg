CONSTANTS
  A = A
  a1 = a1
  a2 = a2
  good = good
  bad = bad
  main = main
  NoScope = NoScope
  NoCandidate = NoCandidate
  NoVerdict = NoVerdict
  NoCatalogue = NoCatalogue
  Challenge = {A}
  Scope = {a1, a2}
  Candidate = {good, bad}
  ChallengeOf <- MCChallengeOf
  Flag <- MCFlag
  Solver = {main}
  MaxIntents = 2
  MaxSubmissions = 2
  ReconcileAge = 4
  Delay = 1
  Lag = 1
  Fetch = 1
SPECIFICATION FairSpec
INVARIANTS SolvedBeliefIsDurable
PROPERTIES KeepsPromise NeverSendsAgainstVerdict UncertaintyIsCleared
