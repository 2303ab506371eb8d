CONSTANTS
  i1 = i1
  i2 = i2
  k1 = k1
  k2 = k2
  k3 = k3
  Instance = {i1, i2}
  CallId = {k1, k2, k3}
  Limit = {2, 3}
  Amount = {1, 2}
  MaxRecords = 3
SPECIFICATION Spec
SYMMETRY MCSymmetry
PROPERTIES FitsEveryLimit AccountsAreFinal
