CONSTANTS
  Threads = {t1, t2, t3}
  Condvars = {c1}
  NoThread = NoThread
  NoCv = NoCv
SPECIFICATION FairSpec
INVARIANTS TypeOK OwnerIsHolder QueuedIsWaiting WaitersReachable NoLostWakeup
PROPERTIES IsMonitor Progress PickedRuns
