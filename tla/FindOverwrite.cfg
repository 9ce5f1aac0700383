CONSTANTS
  Jobs = {j1}
  Pods = {p1}
  Uploads = {u1, u2}
  Readers = {}
  NoPod = NoPod
  NoJob = NoJob
  NoUpload = NoUpload
  LeaseTtl = 0
  JobTtl = 0
  MaxAttempts = 2
  CancelGrace = 0
  RestartGrace = 0
  ArtifactTtl = 2
  Retention = 3
  RequestTime = 1
  FirstCleanup = 3
  LastSubmit = 1
  MaxTime = 4
  MaxRestarts = 0
SPECIFICATION Spec
SYMMETRY Symmetry
PROPERTIES NotOverwritten
