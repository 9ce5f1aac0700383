CONSTANTS
  j1 = j1  j2 = j2  p1 = p1  p2 = p2  m1 = m1
  Jobs = {j1}
  Pods = {p1}
  Polls = {r1}
  NoPod = NoPod
  JobModel <- MCJobModel
  PodModel <- MCPodModel
  LeaseTtl = 2
  JobTtl = 4
  MaxAttempts = 2
  CancelGrace = 1
  RestartGrace = 1
  MaxInFlight = 1
  ListLimit = 2
  MaxQueueDepth = 2
  MaxTime = 6
  MaxRestarts = 0
SPECIFICATION Spec
PROPERTY CancelForced
