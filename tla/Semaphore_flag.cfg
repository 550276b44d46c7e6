SPECIFICATION FairSpec
CONSTANTS
  Threads = {a, b, c}
  NoThread = NoThread
INVARIANTS TypeOK NoLostWakeup
PROPERTIES ImplementsFlag CallsReturn
