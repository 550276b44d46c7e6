SPECIFICATION FairSpec
CONSTANTS
  Senders = {a, b}
  MaxSends = 1
  MaxFrames = 3
INVARIANTS TypeOK HandlersExpected NothingAfterClose NoStuckQueue ReportedBeforeRelease
PROPERTIES ImplementsSession EndsReleased
CHECK_DEADLOCK FALSE
