SPECIFICATION Spec
CONSTANTS
  Workers = {w1, w2}
  Users = {alice, bob}
  Listed = {alice, bob}
  Valid = {alice, bob}
  Faults = {}
  Keys = {k1, k2, k3, k4}
  NoKey = NoKey
  NoFile = NoFile
  Empty = Empty
  NoPair = NoPair
  MaxRequests = 2
  MaxFaults = 0
INVARIANTS NoDuplicates
SYMMETRY Symmetry
CHECK_DEADLOCK FALSE
