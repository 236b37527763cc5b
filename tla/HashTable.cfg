CONSTANTS
  k1 = k1
  k2 = k2
  k3 = k3
  k4 = k4
  k5 = k5
  k6 = k6
  Values = {1, 2}
  Bindings <- MCBindings
  Keys = {k1, k2, k3, k4, k5, k6}
  Default = 0
  Hash <- MCHash
  MaxVain = 2
SPECIFICATION Spec
INVARIANTS EveryKeyFound NoMemBug
PROPERTIES ImplementsDictionary
SYMMETRY SameHash
