CONSTANTS
  j1 = j1  j2 = j2  p1 = p1  p2 = p2  m1 = m1
  Jobs = {j1}
  Pods = {p1}
  Polls = {r1}
  NoPod = NoPod
  NoPoll = NoPoll
  JobModel <- MCJobModel
  PodModel <- MCPodModel
  LeaseTtl = 0
  JobTtl = 2
  MaxAttempts = 2
  CancelGrace = 0
  RestartGrace = 0
  MaxInFlight = 1
  ListLimit = 2
  MaxQueueDepth = 2
  MaxTime = 4
  MaxRestarts = 0
  ReportAttempts = 2
  MaxFaults = 0
  MaxTrouble = 0
SPECIFICATION AgentsSpec
PROPERTY AssignmentsStart
