CONSTANTS
  cheap = cheap
  hard = hard
  failover = failover
  k1 = k1
  k2 = k2
  k3 = k3
  main = main
  side = side
  NoId = NoId
  NoRoute = NoRoute
  CallId = {k1, k2, k3}
  Limit = {4, 6}
  Amount = {0, 1, 2, 3}
  MaxRecords = 3
  Lane = {main, side}
  Route = {cheap, hard, failover}
  Cheap = cheap
  Hard = hard
  Failover = failover
  ListPrice <- MCListPrice
  MaxPrice <- MCMaxPrice
  MaxTurns = 3
SPECIFICATION Spec
SYMMETRY MCSymmetry
INVARIANTS ChargesCovered ThreadsBounded
PROPERTIES DispatchesFitTheLimit BudgetStopIsEarned
