SPECIFICATION Spec
CONSTANTS
  Senders = {a}
  MaxSends = 1
  MaxFrames = 1
INVARIANTS NoDanglingUse
CHECK_DEADLOCK FALSE
