SPECIFICATION Spec
CONSTANTS
  Workers = {w1, w2}
  Users = {alice, bob, elsewhere}
  Listed = {alice, bob}
  Valid = {alice, bob}
  Faults <- AllFaults
  Keys = {k1, k2, k3, k4}
  NoKey = NoKey
  NoFile = NoFile
  Empty = Empty
  NoPair = NoPair
  MaxRequests = 3
  MaxFaults = 1
INVARIANTS TypeOK FilesKnown DeletedForgotten WrittenPromiseKept SharedKeysWereUnseen
SYMMETRY Symmetry
CHECK_DEADLOCK FALSE
