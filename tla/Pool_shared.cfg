SPECIFICATION FairSpec
CONSTANTS
  Callers = {a, b}
  THREAD_COUNT = 2
  MaxJobs = 2
  NoJob = NoJob
INVARIANTS TypeOK ThreadOwnedOnce JoinedJobsAreOver
PROPERTIES ImplementsForkJoin TicksEnd DestroyedEnd
CHECK_DEADLOCK FALSE
