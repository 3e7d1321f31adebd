SPECIFICATION FairSpec
CONSTANTS
  t1 = t1
  t2 = t2
  Thread = {t1, t2}
  First = t1
  Asks <- MCAsks
  MaxQueue = 2
  Faults = {{}, {"late"}, {"silent"}, {"unknown"}, {"step"}, {"memory"}, {"killed"}, {"reckless", "killed"}}
CHECK_DEADLOCK FALSE
INVARIANTS
  StopAgrees
  ResponseFits
PROPERTIES
  ThreadsAgree
  Started
  Answered
  Reported
  CleanedUp
