CONSTANTS
  j1 = j1  j2 = j2  p1 = p1  p2 = p2  m1 = m1
  Jobs = {j1}
  Pods = {p1, p2}
  Polls = {r1, r2}
  NoPod = NoPod
  JobModel <- MCJobModel
  PodModel <- MCPodModel
  LeaseTtl = 2
  JobTtl = 4
  MaxAttempts = 2
  CancelGrace = 1
  RestartGrace = 1
  MaxInFlight = 1
  ListLimit = 2
  MaxQueueDepth = 1
  MaxTime = 6
  MaxRestarts = 1
SPECIFICATION FairSpec
INVARIANTS TypeOK LeaseOwnership AttemptCap NoLostWakeup OutcomesChargedOnce
PROPERTIES FinalIsFinal LeaseHonoured SweepSettles LifecycleSpec EveryJobFinishes
