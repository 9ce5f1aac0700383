CONSTANTS
  Jobs = {j1}
  Pods = {p1}
  Uploads = {u1}
  Readers = {}
  NoPod = NoPod
  NoJob = NoJob
  NoUpload = NoUpload
  LeaseTtl = 0
  JobTtl = 0
  MaxAttempts = 2
  CancelGrace = 0
  RestartGrace = 0
  ArtifactTtl = 2
  Retention = 3
  RequestTime = 1
  FirstCleanup = 1
  LastSubmit = 1
  MaxTime = 7
  MaxRestarts = 1
SPECIFICATION FairSpec
INVARIANTS TypeOK InputKept ClipServed
PROPERTIES DiskReclaimed
