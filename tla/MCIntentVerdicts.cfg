CONSTANTS
  A = A
  B = B
  a1 = a1
  a2 = a2
  b1 = b1
  Challenge = {A, B}
  Scope = {a1, a2, b1}
  Candidate = {c1}
  ChallengeOf <- MCChallengeOf
  MaxIntents = 2
  ReconcileAge = 2
SPECIFICATION Spec
SYMMETRY InstanceSymmetry
INVARIANTS VerdictOrderIrrelevant ConcludedStaysBlocked CapacityRespected
