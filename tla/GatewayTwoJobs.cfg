CONSTANTS
  j1 = j1  j2 = j2 p1 = p1  p2 = p2  m1 = m1
  Jobs = {j1, j2}
  Pods = {p1}
  Polls = {r1}
  NoPod = NoPod
  JobModel <- MCJobModel
  PodModel <- MCPodModel
  LeaseTtl = 1
  JobTtl = 1
  MaxAttempts = 2
  CancelGrace = 1
  RestartGrace = 1
  MaxInFlight = 1
  ListLimit = 2
  MaxQueueDepth = 2
  MaxTime = 4
  MaxRestarts = 1
  MaxPollWait = 1
  PodStale = 1
  JobRetention = 2
SPECIFICATION FleetSpec
SYMMETRY Symmetry
INVARIANTS IdleMeansOpen ChargesLand SlotsNotOvercounted CloseWaitsForNoPoll
PROPERTIES OldestFirst
