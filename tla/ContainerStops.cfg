CONSTANTS
  j1 = j1   p1 = p1   m1 = m1
  Jobs = {j1}
  Pods = {p1}
  Polls = {r1}
  NoPod = NoPod
  NoPoll = NoPoll
  JobModel <- MCJobModel
  PodModel <- MCPodModel
  LeaseTtl = 0
  JobTtl = 1
  MaxAttempts = 2
  CancelGrace = 0
  RestartGrace = 0
  MaxInFlight = 1
  ListLimit = 2
  MaxQueueDepth = 2
  MaxTime = 3
  MaxRestarts = 1
  ReportAttempts = 2
  MaxFaults = 1
  MaxTrouble = 2
SPECIFICATION ContainerFairSpec
INVARIANT CleanExit
PROPERTIES TasksEnd ContainerEnds
