--------------------------- MODULE ArtifactsProofs ----------------------------
(***************************************************************************)
(* The files of the gateway, for any number of jobs, uploads, readers and  *)
(* leases.  An id is used once, so what cleanup, a late result or a late   *)
(* upload saw of a job stays true of it: a job that is over stays over, a  *)
(* directory is no older than its job, and a submission that is in         *)
(* progress is too young to be an orphan.  That protects the inputs.       *)
(*                                                                         *)
(* A clip is protected by the order of a job's uploads: each begins under  *)
(* a lease no older than any that was answered, one that is repeated sends *)
(* the same bytes as its retry, and the agent hears only the last of them, *)
(* which is also the last to have truncated the part file.                 *)
(***************************************************************************)
EXTENDS Artifacts, TLAPS

-----------------------------------------------------------------------------
(* The invariant *)

\* Of one row: how its lease and attempts agree, and its age.
RowFine(row) ==
  /\ row.attempts <= MaxAttempts /\ row.created <= now
  /\ row.lease = IF row.state = "in_progress" THEN row.attempts ELSE 0
  /\ row.state \in {"in_progress", "completed"} => row.attempts > 0
  /\ row.created = 0 => row = AbsentRow
  /\ row.state = "writing" => row.attempts = 0 /\ now <= row.created + RequestTime

\* A job that is over, and one whose row is gone: both for good.
Over(j) == jobs[j].created # 0 /\ (IsTerminal(jobs[j]) \/ jobs[j].state = "absent")
Dead(j) == jobs[j].created # 0 /\ jobs[j].state = "absent"

\* The clip a row records is that of its last lease, whose upload was answered.
MediaFine ==
  \A j \in Jobs :
    /\ media[j].clip # 0 => jobs[j].state = "completed" /\ media[j].clip = jobs[j].attempts
    /\ jobs[j].state = "completed" =>
         /\ jobs[j].attempts \in answered[j]
         /\ media[j].clip = jobs[j].attempts \/ now - media[j].finished > ArtifactTtl
    /\ jobs[j].created = 0 => answered[j] = {}
    /\ jobs[j].state # "absent" => \A l \in answered[j] : l <= jobs[j].attempts

\* The directories are as old as their job, or younger.
DiskFine ==
  \A j \in Jobs :
    /\ jobs[j].created = 0 => disk[j] = EmptyDisk
    /\ disk[j].input \in {0, jobs[j].created}
    /\ disk[j].dir # 0 => disk[j].dir >= jobs[j].created

\* Removing an input, and each phase of a cleanup, concern jobs that are over;
\* the orphan that is being looked at may also be a submission in progress.
RemovalsFine ==
  /\ \A j \in settling : Over(j)
  /\ cleaner.at <= now
  /\ \A j \in cleaner.todo : jobs[j].created # 0
  /\ cleaner.st = "expiring" => \A j \in cleaner.todo :
       Over(j) /\ (jobs[j].state = "completed" => now - media[j].finished > ArtifactTtl)
  /\ cleaner.st \in {"inputs", "artifacts"} /\ cleaner.cur # NoJob =>
       Dead(cleaner.cur) \/ cleaner.at <= jobs[cleaner.cur].created + RequestTime
  /\ cleaner.aged => cleaner.cur # NoJob /\ Dead(cleaner.cur)

\* An upload in progress has a lease of its job's; after a checksum that failed
\* the job is one of the rejected.
UploadsFine ==
  \A u \in Uploads :
    IF uploads[u].st = "idle" THEN uploads[u].job = NoJob
    ELSE LET j == uploads[u].job IN
         /\ j \in Jobs /\ uploads[u].lease \in Leases /\ jobs[j].created # 0
         /\ jobs[j].state # "absent" => uploads[u].lease <= jobs[j].attempts
         /\ uploads[u].st = "rejecting" => j \in rejected

\* Of the uploads of a job the agent hears one for each lease, and that lease was
\* not answered yet.  Unless they are tangled they are of one lease, which is no
\* older than any that was answered, all of them send the right bytes, and only
\* the one that the agent hears may still have to open its file.
RetriesFine ==
  \A v \in Uploads :
    LET j == uploads[v].job IN
    j \in Jobs =>
      /\ uploads[v].heard => uploads[v].lease \notin answered[j]
      /\ \A w \in Sending(j) \ {v} :
           uploads[v].heard /\ uploads[w].heard => uploads[v].lease # uploads[w].lease
      /\ j \notin tangled =>
           /\ \A l \in answered[j] : l <= uploads[v].lease
           /\ \A w \in Sending(j) \ {v} :
                /\ uploads[w].lease = uploads[v].lease /\ uploads[w].intact
                /\ uploads[v].st = "opening" => uploads[v].heard /\ uploads[w].st = "writing"

\* A part file or clip that an upload has open holds its bytes only.  The upload
\* the agent hears was the last to open a part file, and when the lease was
\* answered before, one that still is there was opened by this upload alone.
PartsFine ==
  \A v \in Uploads :
    LET j == uploads[v].job
        at == uploads[v].at
    IN
    j \in Jobs \ (tangled \cup rejected) /\ uploads[v].st = "writing" =>
      /\ at # "none"
      /\ at = "part" => disk[j].part.by = {Label(v)}
      /\ at = "clip" => uploads[v].intact /\ disk[j].clip.by = {uploads[v].lease}
      /\ uploads[v].heard \/ uploads[v].lease \in answered[j] =>
           /\ at = "part" => disk[j].part = [by |-> {Label(v)}, last |-> v, whole |-> FALSE]
           /\ at # "part" => disk[j].part = NoFile

\* The clip of the lease that was answered is on the disk, from the answer until
\* the job's time is over, and no other clip is there later.
Served(j) == disk[j].clip.whole /\ disk[j].clip.by = {jobs[j].attempts}
ClipsFine ==
  \A j \in Jobs \ (tangled \cup rejected) :
    /\ \/ jobs[j].state = "in_progress" /\ jobs[j].attempts \in answered[j]
       \/ Promised(j)
       => Served(j)
    /\ jobs[j].state = "completed" => disk[j].clip = NoFile \/ Served(j)

FilesInv ==
  /\ FilesOK /\ (\A j \in Jobs : RowFine(jobs[j])) /\ MediaFine /\ DiskFine
  /\ RemovalsFine /\ UploadsFine /\ InputKept /\ RetriesFine /\ PartsFine /\ ClipsFine

-----------------------------------------------------------------------------
(* Rows *)

\* What a step may do to a row, whoever takes it; answers are the leases of the
\* job whose upload was answered.
RowStep(a, b, answers) ==
  \/ b = a
  \/ a.created = 0 /\ b.state = "writing" /\ b.created = now /\ b.attempts = 0 /\ b.lease = 0
  \/ /\ b.created = a.created /\ a.created # 0
     /\ \/ a.state = "writing" /\ b.state = "queued" /\ b.attempts = 0 /\ b.lease = 0
        \/ /\ a.state = "queued" /\ b.state = "in_progress"
           /\ b.attempts = a.attempts + 1 /\ b.attempts <= MaxAttempts /\ b.lease = b.attempts
        \/ /\ IsLive(a) /\ IsTerminal(b) /\ b.attempts = a.attempts /\ b.lease = 0
           /\ b.state = "completed" => a.state = "in_progress" /\ a.attempts \in answers
        \/ a.state = "in_progress" /\ b.state = "queued" /\ b.attempts = a.attempts /\ b.lease = 0
        \/ /\ IsTerminal(a) \/ a.state = "writing"
           /\ b.state = "absent" /\ b.attempts = 0 /\ b.lease = 0

\* The row of a job that does not exist is well typed.
LEMMA AbsentIsRow == AbsentRow \in Row
BY DEF AbsentRow, Row, RowStates

EndedAs(a, b) == b \in Row /\ IsTerminal(b) /\ b.created = a.created /\ b.attempts = a.attempts

\* What a claim makes of a queued row.
LEMMA ClaimedRow ==
  ASSUME NEW row \in Row, row.state = "queued", NEW p \in Pods, NEW n \in Nat
  PROVE  LET r == Claim(row, p, n, 0)
         IN /\ r \in Row /\ r.state = "in_progress" /\ r.created = row.created
            /\ r.attempts = row.attempts + 1 /\ r.lease = n
<1> DEFINE r == Claim(row, p, n, 0)
<1>1. /\ r.state = "in_progress" /\ r.pod = p /\ r.lease = n /\ r.expires = 0
      /\ r.cancelAt = row.cancelAt /\ r.attempts = row.attempts + 1 /\ r.created = row.created
  BY DEF Claim, Row
<1>2. r = [state |-> "in_progress", pod |-> p, lease |-> n, expires |-> 0,
           cancelAt |-> row.cancelAt, attempts |-> row.attempts + 1, created |-> row.created]
  BY DEF Claim, Row
<1>3. row.attempts + 1 \in Nat /\ row.cancelAt \in Nat /\ row.created \in Nat
  BY DEF Row
<1>4. r \in Row
  BY <1>2, <1>3 DEF Row, RowStates, VideoStates
<1> QED BY <1>1, <1>4

\* A step of one job.
LEMMA OneRow ==
  ASSUME jobs \in [Jobs -> Row], NEW i \in Jobs, NEW r \in Row,
         jobs' = [jobs EXCEPT ![i] = r], RowStep(jobs[i], r, answered[i])
  PROVE  jobs' \in [Jobs -> Row] /\ \A j \in Jobs : RowStep(jobs[j], jobs'[j], answered[j])
<1>1. jobs' \in [Jobs -> Row]
  OBVIOUS
<1>2. \A j \in Jobs \ {i} : jobs'[j] = jobs[j]
  OBVIOUS
<1> QED BY <1>1, <1>2 DEF RowStep

\* A step that takes the rows of the jobs in a set away.
LEMMA RowsGone ==
  ASSUME jobs \in [Jobs -> Row], NEW S,
         \A j \in S \cap Jobs : jobs[j].created # 0
           /\ (IsTerminal(jobs[j]) \/ jobs[j].state = "writing"),
         jobs' = [j \in Jobs |-> IF j \in S THEN [AbsentRow EXCEPT !.created = jobs[j].created]
                                 ELSE jobs[j]]
  PROVE  jobs' \in [Jobs -> Row] /\ \A j \in Jobs : RowStep(jobs[j], jobs'[j], answered[j])
<1>1. ASSUME NEW j \in Jobs
      PROVE  LET b == [AbsentRow EXCEPT !.created = jobs[j].created]
             IN b \in Row /\ b.state = "absent" /\ b.created = jobs[j].created
                /\ b.attempts = 0 /\ b.lease = 0
  BY AbsentIsRow DEF AbsentRow, Row
<1>2. jobs' \in [Jobs -> Row]
  BY <1>1
<1>3. ASSUME NEW j \in Jobs PROVE RowStep(jobs[j], jobs'[j], answered[j])
  <2>1. CASE j \in S
    <3>1. jobs'[j] = [AbsentRow EXCEPT !.created = jobs[j].created]
      BY <2>1
    <3> QED BY <2>1, <3>1, <1>1 DEF RowStep
  <2>2. CASE j \notin S
    BY <2>2 DEF RowStep
  <2> QED BY <2>1, <2>2
<1> QED BY <1>2, <1>3

\* The rows change in these ways only.
LEMMA RowSteps ==
  ASSUME FilesInv, [FilesNext]_filesVars
  PROVE  jobs' \in [Jobs -> Row] /\ \A j \in Jobs : RowStep(jobs[j], jobs'[j], answered[j])
<1> DEFINE Goal == jobs' \in [Jobs -> Row]
             /\ \A j \in Jobs : RowStep(jobs[j], jobs'[j], answered[j])
<1>a. jobs \in [Jobs -> Row] /\ now \in Nat \ {0}
  BY DEF FilesInv, FilesOK
<1>b. \A j \in Jobs : RowFine(jobs[j])
  BY DEF FilesInv
<1>0. \A j \in Jobs : jobs[j].state # "absent" => jobs[j].created # 0
  BY <1>b DEF RowFine, AbsentRow
<1>1. ASSUME UNCHANGED jobs PROVE Goal
  BY <1>1, <1>a DEF RowStep
<1>2. ASSUME NEW j \in Jobs, JobStep(j) PROVE Goal
  <2>r. jobs[j] \in Row
    BY <1>a
  <2>1. CASE SubmitBegin(j)
    <3> DEFINE r == [AbsentRow EXCEPT !.state = "writing", !.created = now]
    <3>1. r \in Row /\ r.state = "writing" /\ r.created = now /\ r.attempts = 0 /\ r.lease = 0
      BY <1>a, AbsentIsRow DEF AbsentRow, Row, RowStates
    <3>2. jobs' = [jobs EXCEPT ![j] = r] /\ jobs[j].created = 0
      BY <2>1 DEF SubmitBegin, AbsentRow
    <3> HIDE DEF r
    <3> QED BY <3>1, <3>2, <1>a, OneRow DEF RowStep
  <2>2. CASE SubmitCommit(j)
    <3> DEFINE r == Created(jobs[j].created)
    <3>1. /\ r \in Row /\ r.state = "queued" /\ r.created = jobs[j].created
          /\ r.attempts = 0 /\ r.lease = 0
      BY <2>r, AbsentIsRow DEF Created, AbsentRow, Row, RowStates, VideoStates
    <3>2. jobs' = [jobs EXCEPT ![j] = r] /\ jobs[j].state = "writing"
      BY <2>2 DEF SubmitCommit
    <3> HIDE DEF r
    <3> QED BY <3>1, <3>2, <1>a, <1>0, OneRow DEF RowStep
  <2>3. ASSUME NEW p \in Pods, Dispatch(j, p) PROVE Goal
    <3> DEFINE r == Claim(jobs[j], p, jobs[j].attempts + 1, 0)
    <3>1. jobs' = [jobs EXCEPT ![j] = r] /\ jobs[j].state = "queued"
            /\ jobs[j].attempts < MaxAttempts
      BY <2>3 DEF Dispatch
    <3>2. /\ r \in Row /\ r.state = "in_progress" /\ r.created = jobs[j].created
          /\ r.attempts = jobs[j].attempts + 1 /\ r.lease = r.attempts
      <4>1. jobs[j].attempts \in Nat /\ jobs[j].attempts + 1 \in Nat
        BY <2>r DEF Row
      <4> QED BY <2>3, <2>r, <3>1, <4>1, ClaimedRow
    <3> HIDE DEF r
    <3>3. r.attempts <= MaxAttempts
      BY <3>1, <3>2, <2>r, AttemptsAssumption DEF Row
    <3> QED BY <3>1, <3>2, <3>3, <1>a, <1>0, OneRow DEF RowStep
  <2>4. ASSUME Withdrawn(j) \/ Reaped(j) \/ Result(j) PROVE Goal
    <3>1. PICK r : /\ jobs' = [jobs EXCEPT ![j] = r]
                   /\ \/ jobs[j].state = "queued" /\ r = CancelQueued(jobs[j], now)
                      \/ IsLive(jobs[j]) /\ r = Fail(jobs[j], 0)
                      \/ jobs[j].state = "in_progress" /\ r = MarkCancelled(jobs[j], 0)
                      \/ jobs[j].state = "in_progress" /\ r = MarkCancelled(jobs[j], jobs[j].lease)
                      \/ jobs[j].state = "in_progress" /\ r = Fail(jobs[j], jobs[j].lease)
                      \/ /\ jobs[j].state = "in_progress" /\ jobs[j].lease \in answered[j]
                         /\ r = Complete(jobs[j], jobs[j].lease)
      BY <2>4 DEF Withdrawn, Reaped, Result, Ended
    <3>f. ASSUME NEW s \in TerminalStates PROVE EndedAs(jobs[j], Finished(jobs[j], s))
      BY <3>f, <2>r DEF Finished, EndedAs, IsTerminal, TerminalStates, Row, RowStates, VideoStates
    <3>q. jobs[j].state = "queued" => EndedAs(jobs[j], CancelQueued(jobs[j], now))
      BY <2>r, <1>a DEF CancelQueued, EndedAs, IsTerminal, TerminalStates, Row, RowStates,
         VideoStates
    <3>2. EndedAs(jobs[j], r) /\ IsLive(jobs[j])
      BY <3>1, <3>f, <3>q DEF Fail, MarkCancelled, Complete, Owned, Holds, TerminalStates, IsLive
    <3>3. r.lease = 0
      BY <3>1, <2>r, <1>b DEF CancelQueued, Fail, MarkCancelled, Complete, Finished, Owned, Holds,
                         RowFine, IsLive, Row
    <3>4. r.state = "completed" => jobs[j].state = "in_progress" /\ jobs[j].attempts \in answered[j]
      BY <3>1, <2>r, <1>b DEF CancelQueued, Fail, MarkCancelled, Finished, Owned, Holds,
                         RowFine, IsLive, Row
    <3>5. jobs[j].created # 0
      BY <3>2, <1>0 DEF IsLive
    <3> QED BY <3>1, <3>2, <3>3, <3>4, <3>5, <1>a, OneRow DEF RowStep, EndedAs
  <2>5. CASE Requeued(j)
    <3> DEFINE r == Requeue(jobs[j], 0)
    <3>1. jobs' = [jobs EXCEPT ![j] = r] /\ jobs[j].state = "in_progress"
      BY <2>5 DEF Requeued
    <3>2. /\ r \in Row /\ r.state = "queued" /\ r.created = jobs[j].created
          /\ r.attempts = jobs[j].attempts /\ r.lease = 0
      BY <2>r, <3>1 DEF Requeue, Owned, Row, RowStates, VideoStates
    <3> HIDE DEF r
    <3> QED BY <3>1, <3>2, <1>a, <1>0, OneRow DEF RowStep
  <2>6. CASE InputRemoved(j)
    BY <2>6, <1>1 DEF InputRemoved
  <2> QED BY <1>2, <2>1, <2>2, <2>3, <2>4, <2>5, <2>6 DEF JobStep
<1>3. ASSUME NEW u \in Uploads, UploadStep(u) PROVE Goal
  BY <1>1, <1>3 DEF UploadStep, UploadBegin, UploadOpen, UploadChunk, UploadBroken, UploadStored,
                    UploadMissing, UploadRejected
<1>4. ASSUME Purge PROVE Goal
  <2> DEFINE S == {j \in Jobs : Purged(jobs[j], media[j])}
  <2>1. jobs' = [j \in Jobs |-> IF j \in S THEN [AbsentRow EXCEPT !.created = jobs[j].created]
                                ELSE jobs[j]]
    BY <1>4 DEF Purge
  <2>2. \A j \in S \cap Jobs : jobs[j].created # 0 /\ IsTerminal(jobs[j])
    BY <1>0 DEF Purged, IsTerminal, TerminalStates
  <2> HIDE DEF S
  <2> QED BY <2>1, <2>2, <1>a, RowsGone
<1>5. ASSUME CleanStep, ~Purge PROVE Goal
  BY <1>1, <1>5 DEF CleanStep, CleanBegin, ReadDir, ExpireRemove, ExpireRecord, OrphanCheck,
                    OrphanStat, OrphanRemove
<1>6. ASSUME Restart PROVE Goal
  <2> DEFINE S == {j \in Jobs : jobs[j].state = "writing"}
  <2>1. jobs' = [j \in Jobs |-> IF j \in S THEN [AbsentRow EXCEPT !.created = jobs[j].created]
                                ELSE jobs[j]]
    BY <1>6 DEF Restart
  <2>2. \A j \in S \cap Jobs : jobs[j].created # 0 /\ jobs[j].state = "writing"
    BY <1>0
  <2> HIDE DEF S
  <2> QED BY <2>1, <2>2, <1>a, RowsGone
<1>7. ASSUME Tick \/ UNCHANGED filesVars PROVE Goal
  BY <1>1, <1>7 DEF Tick, filesVars
<1> QED BY <1>2, <1>3, <1>4, <1>5, <1>6, <1>7 DEF FilesNext

\* What was said of rows stays true of them.
LEMMA Lasting ==
  ASSUME FilesInv, [FilesNext]_filesVars, NEW j \in Jobs
  PROVE  /\ jobs[j].created # 0 => jobs'[j].created = jobs[j].created
         /\ Over(j) => Over(j)'
         /\ Dead(j) => Dead(j)'
         /\ jobs'[j].state # "absent" /\ jobs[j].created # 0 =>
              jobs[j].state # "absent" /\ jobs[j].attempts <= jobs'[j].attempts
         /\ jobs'[j].created = 0 => jobs'[j] = jobs[j]
         /\ jobs'[j].state = "completed" =>
              /\ jobs'[j].attempts = jobs[j].attempts
              /\ \/ jobs[j].state = "completed"
                 \/ jobs[j].state = "in_progress" /\ jobs[j].attempts \in answered[j]
         /\ jobs[j].state = "completed" =>
              jobs'[j].state = "completed" \/ Dead(j)'
         /\ jobs'[j].state = "writing" =>
              jobs[j] = jobs'[j] \/ (jobs[j].created = 0 /\ jobs'[j].created = now)
         /\ IsLive(jobs'[j]) => IsLive(jobs[j]) \/ jobs[j].state = "writing"
         /\ jobs'[j].state = "in_progress" =>
              \/ jobs[j] = jobs'[j]
              \/ jobs[j].state = "queued" /\ jobs'[j].attempts = jobs[j].attempts + 1
<1>1. RowStep(jobs[j], jobs'[j], answered[j])
  BY RowSteps
<1>2. /\ jobs[j] \in Row /\ jobs'[j] \in Row /\ now \in Nat \ {0}
      /\ jobs[j].created = 0 => jobs[j] = AbsentRow
      /\ jobs[j].lease = IF jobs[j].state = "in_progress" THEN jobs[j].attempts ELSE 0
      /\ jobs[j].state = "writing" => jobs[j].attempts = 0
  BY RowSteps DEF FilesInv, FilesOK, RowFine
<1> QED BY <1>1, <1>2 DEF RowStep, Over, Dead, IsTerminal, TerminalStates, IsLive, Row, RowStates,
           VideoStates, AbsentRow

\* The clock does not move while a submission is due to end.
LEMMA Clock ==
  ASSUME FilesInv, [FilesNext]_filesVars
  PROVE  /\ now' \in Nat \ {0} /\ now <= now'
         /\ now' # now => Tick
<1>1. now \in Nat \ {0}
  BY DEF FilesInv, FilesOK
<1>2. now' = now \/ (Tick /\ now' = now + 1)
  BY DEF FilesNext, JobStep, SubmitBegin, SubmitCommit, Dispatch, Withdrawn, Reaped, Requeued, Result,
         InputRemoved, UploadStep, UploadBegin, UploadOpen, UploadChunk, UploadBroken, UploadStored,
         UploadMissing, UploadRejected, CleanStep, CleanBegin, ReadDir, Purge, ExpireRemove,
         ExpireRecord, OrphanCheck, OrphanStat, OrphanRemove, Restart, Tick, filesVars
<1> QED BY <1>1, <1>2

\* Every step leaves each row with leases, attempts and an age that agree.
LEMMA NextRowFine ==
  ASSUME FilesInv, [FilesNext]_filesVars, NEW j \in Jobs
  PROVE  RowFine(jobs[j])'
<1>1. RowStep(jobs[j], jobs'[j], answered[j])
  BY RowSteps
<1>2. jobs[j] \in Row /\ jobs'[j] \in Row /\ now \in Nat \ {0} /\ RowFine(jobs[j])
  BY RowSteps DEF FilesInv, FilesOK
<1>3. now' \in Nat \ {0} /\ now <= now'
  BY Clock
<1>4. CASE jobs'[j].state = "writing"
  <2>1. jobs'[j] = jobs[j] \/ jobs'[j].created = now
    BY <1>4, Lasting
  <2>2. now' = now \/ (jobs'[j] = jobs[j] /\ now' = now + 1 /\ now - jobs[j].created < RequestTime)
    BY <1>4, Clock DEF Tick
  <2>3. now' <= jobs'[j].created + RequestTime
    BY <2>1, <2>2, <1>2, <1>4, TtlAssumption DEF RowFine, Row
  <2> QED BY <1>1, <1>2, <1>3, <1>4, <2>3, AttemptsAssumption
          DEF RowStep, RowFine, Row, IsTerminal, TerminalStates
<1>5. CASE jobs'[j].state # "writing"
  BY <1>1, <1>2, <1>3, <1>5, AttemptsAssumption
  DEF RowStep, RowFine, Row, IsTerminal, TerminalStates, IsLive, AbsentRow
<1> QED BY <1>4, <1>5

-----------------------------------------------------------------------------
(* Types *)

MediaRow == [clip : 0..MaxAttempts, finished : Nat]
DiskRow == [input : Nat, dir : Nat, part : File, clip : File]
UploadRow == [st : {"idle", "opening", "writing", "rejecting"},
              job : Jobs \cup {NoJob}, lease : 0..MaxAttempts,
              intact : BOOLEAN, heard : BOOLEAN,
              at : {"none", "part", "clip", "gone"}, since : Nat]
CleanerRow == [st : {"idle", "expiring", "inputs", "artifacts"}, at : Nat,
               todo : SUBSET Jobs, cur : Jobs \cup {NoJob}, aged : BOOLEAN]

\* What the files, the uploads and the cleanup start from.
LEMMA Initials ==
  /\ EmptyDisk \in DiskRow /\ NoFile \in File
  /\ IdleUpload \in UploadRow /\ IdleCleaner \in CleanerRow
  /\ IdleUpload.st = "idle" /\ IdleUpload.job = NoJob
  /\ IdleCleaner.cur = NoJob /\ IdleCleaner.todo = {}
<1>2. NoFile \in File
  BY AttemptsAssumption DEF NoFile, File
<1>3. EmptyDisk \in DiskRow
  BY <1>2 DEF EmptyDisk, DiskRow
<1>4. IdleUpload \in UploadRow
  BY AttemptsAssumption DEF IdleUpload, UploadRow
<1>5. IdleCleaner \in CleanerRow
  BY DEF IdleCleaner, CleanerRow
<1> QED BY <1>2, <1>3, <1>4, <1>5 DEF IdleUpload, IdleCleaner

\* The parts of FilesOK that a step may disturb, given those of RowSteps and Clock.
FilesTyped ==
  /\ media \in [Jobs -> MediaRow] /\ disk \in [Jobs -> DiskRow]
  /\ uploads \in [Uploads -> UploadRow] /\ answered \in [Jobs -> SUBSET Leases]
  /\ settling \subseteq Jobs /\ tangled \subseteq Jobs /\ rejected \subseteq Jobs
  /\ cleaner \in CleanerRow /\ (cleaner.cur # NoJob => cleaner.cur \in cleaner.todo)

\* What the type invariant says of the variables, with the record sets named.
LEMMA Typed ==
  ASSUME FilesOK PROVE FilesTyped
BY DEF FilesOK, FilesTyped, MediaRow, DiskRow, UploadRow, CleanerRow

\* The label on the bytes of an upload.
LEMMA Labels ==
  ASSUME FilesInv, NEW u \in Uploads
  PROVE  Label(u) \in 0..MaxAttempts
<1>1. uploads[u] \in UploadRow
  BY Typed DEF FilesInv, FilesTyped
<1> QED BY <1>1, AttemptsAssumption DEF Label, UploadRow

\* Truncated, written to, and finished, a file is a file.
LEMMA Files ==
  ASSUME NEW f \in File, NEW l \in 0..MaxAttempts, NEW u \in Uploads
  PROVE  /\ [f EXCEPT !.by = @ \cup {l}] \in File /\ [f EXCEPT !.whole = TRUE] \in File
         /\ [by |-> {l}, last |-> u, whole |-> FALSE] \in File
BY DEF File

\* The fields of an upload that change one at a time.
LEMMA UploadRows ==
  ASSUME NEW r \in UploadRow
  PROVE  /\ \A x \in {"none", "part", "clip", "gone"} : [r EXCEPT !.at = x] \in UploadRow
         /\ \A x \in {"idle", "opening", "writing", "rejecting"} : [r EXCEPT !.st = x] \in UploadRow
         /\ [r EXCEPT !.heard = FALSE] \in UploadRow
BY DEF UploadRow

\* The last bytes of an upload touch neither the input nor the directory's age.
LEMMA WrittenIsDisk ==
  ASSUME FilesInv, NEW u \in Uploads, uploads[u].job \in Jobs
  PROVE  /\ Written(u) \in DiskRow
         /\ Written(u).input = disk[uploads[u].job].input
         /\ Written(u).dir = disk[uploads[u].job].dir
<1> DEFINE d == disk[uploads[u].job]
           finish(f) == IF f.last = u THEN [f EXCEPT !.whole = TRUE] ELSE f
<1>1. d \in DiskRow /\ d.part \in File /\ d.clip \in File
  BY Typed DEF FilesInv, FilesTyped, DiskRow
<1>2. finish(d.part) \in File /\ finish(d.clip) \in File
  BY <1>1, Files, AttemptsAssumption DEF File
<1>3. Written(u) = CASE uploads[u].at = "part" -> [d EXCEPT !.part = finish(d.part)]
                     [] uploads[u].at = "clip" -> [d EXCEPT !.clip = finish(d.clip)]
                     [] OTHER -> d
  BY <1>1 DEF Written, DiskRow
<1> HIDE DEF d, finish
<1> QED
  <2>1. CASE uploads[u].at = "part"
    BY <2>1, <1>1, <1>2, <1>3 DEF d, DiskRow
  <2>2. CASE uploads[u].at = "clip"
    BY <2>2, <1>1, <1>2, <1>3 DEF d, DiskRow
  <2>3. CASE uploads[u].at # "part" /\ uploads[u].at # "clip"
    BY <2>3, <1>1, <1>3 DEF d
  <2> QED BY <2>1, <2>2, <2>3

\* What an upload's handler does to the state it shares.
LEMMA UploadStepTyped ==
  ASSUME FilesInv, NEW u \in Uploads, UploadStep(u)
  PROVE  FilesTyped'
<1>a. FilesTyped /\ now \in Nat /\ jobs \in [Jobs -> Row] /\ \A j \in Jobs : RowFine(jobs[j])
  BY Typed DEF FilesInv, FilesOK
<1>u. uploads[u] \in UploadRow
        /\ (uploads[u].st # "idle" => uploads[u].job \in Jobs /\ uploads[u].lease \in Leases)
  BY <1>a DEF FilesTyped, FilesInv, UploadsFine
<1> DEFINE j == uploads[u].job
<1>1. ASSUME NEW i \in Jobs, NEW intact \in BOOLEAN, NEW heard \in BOOLEAN,
             UploadBegin(u, i, intact, heard)
      PROVE  FilesTyped'
  <2>1. jobs[i].lease \in 0..MaxAttempts
    BY <1>1, <1>a, AttemptsAssumption DEF RowFine, Row
  <2>2. [st |-> "opening", job |-> i, lease |-> jobs[i].lease, intact |-> intact,
         heard |-> heard, at |-> "none", since |-> now] \in UploadRow
    BY <2>1, <1>a, <1>1 DEF UploadRow
  <2>3. uploads' \in [Uploads -> UploadRow]
    BY <2>2, <1>1, <1>a, UploadRows DEF UploadBegin, FilesTyped
  <2> QED BY <2>3, <1>1, <1>a DEF UploadBegin, FilesTyped
<1>2. CASE UploadOpen(u)
  <2>1. uploads' \in [Uploads -> UploadRow]
    BY <1>2, <1>a, <1>u DEF UploadOpen, FilesTyped, UploadRow
  <2>2. [by |-> {Label(u)}, last |-> u, whole |-> FALSE] \in File
    BY Labels, Files, Initials
  <2>3. disk' \in [Jobs -> DiskRow]
    BY <2>2, <1>2, <1>a, <1>u DEF UploadOpen, FilesTyped, DiskRow
  <2> QED BY <2>1, <2>3, <1>2, <1>a DEF UploadOpen, FilesTyped
<1>3. CASE UploadChunk(u)
  <2>1. j \in Jobs /\ disk[j] \in DiskRow /\ disk[j].part \in File /\ disk[j].clip \in File
    BY <1>3, <1>a, <1>u DEF UploadChunk, FilesTyped, DiskRow
  <2>2. /\ [disk[j].part EXCEPT !.by = @ \cup {Label(u)}] \in File
        /\ [disk[j].clip EXCEPT !.by = @ \cup {Label(u)}] \in File
    BY <2>1, Labels, Files
  <2>3. disk' \in [Jobs -> DiskRow]
    <3> DEFINE g == [disk[j].part EXCEPT !.by = @ \cup {Label(u)}]
               h == [disk[j].clip EXCEPT !.by = @ \cup {Label(u)}]
    <3>1. \/ disk' = [disk EXCEPT ![j] = [disk[j] EXCEPT !.part = g]]
          \/ disk' = [disk EXCEPT ![j] = [disk[j] EXCEPT !.clip = h]]
      BY <2>1, <1>3, <1>a DEF UploadChunk, FilesTyped, DiskRow, File
    <3> HIDE DEF g, h
    <3>2. g \in File /\ h \in File
      BY <2>2 DEF g, h
    <3>3. [disk[j] EXCEPT !.part = g] \in DiskRow /\ [disk[j] EXCEPT !.clip = h] \in DiskRow
      BY <2>1, <3>2 DEF DiskRow
    <3> QED BY <2>1, <3>1, <3>3, <1>a DEF FilesTyped
  <2> QED BY <2>3, <1>3, <1>a DEF UploadChunk, FilesTyped
<1>g. Unlinked(j) \in [Uploads -> UploadRow] /\ Renamed(j) \in [Uploads -> UploadRow]
  <2>1. Unlinked(j) \in [Uploads -> UploadRow]
    BY <1>a, UploadRows DEF Unlinked, FilesTyped
  <2>2. ASSUME NEW v \in Uploads PROVE Renamed(j)[v] \in UploadRow
    <3>1. uploads[v].at \in {"none", "part", "clip", "gone"} /\ uploads[v] \in UploadRow
      BY <1>a DEF FilesTyped, UploadRow
    <3>2. Renamed(j)[v] = IF uploads[v].job # j THEN uploads[v]
                          ELSE [uploads[v] EXCEPT !.at = IF uploads[v].at = "part" THEN "clip"
                                                         ELSE IF uploads[v].at = "clip" THEN "gone"
                                                         ELSE uploads[v].at]
      BY <3>1 DEF Renamed, UploadRow
    <3> QED BY <3>1, <3>2, UploadRows
  <2> QED BY <2>1, <2>2 DEF Renamed
<1>4. CASE UploadBroken(u)
  <2>1. uploads' \in [Uploads -> UploadRow]
    BY <1>4, <1>g, Initials DEF UploadBroken
  <2>2. disk' \in [Jobs -> DiskRow]
    <3>1. disk[j] \in DiskRow /\ j \in Jobs
      BY <1>4, <1>a, <1>u DEF UploadBroken, FilesTyped
    <3>2. ASSUME NEW n \in Nat PROVE [disk[j] EXCEPT !.part = NoFile, !.dir = n] \in DiskRow
      BY <3>1, Initials DEF DiskRow
    <3>3. PICK n \in Nat : disk' = [disk EXCEPT ![j] = [disk[j] EXCEPT !.part = NoFile, !.dir = n]]
      BY <3>1, <1>4, <1>a DEF UploadBroken, FilesTyped, DiskRow
    <3> QED BY <3>1, <3>2, <3>3, <1>a DEF FilesTyped
  <2> QED BY <2>1, <2>2, <1>4, <1>a DEF UploadBroken, FilesTyped
<1>5. CASE UploadStored(u)
  <2>0. uploads[u].st = "writing" /\ j \in Jobs /\ uploads[u].lease \in Leases
    BY <1>5, <1>u DEF UploadStored
  <2>1. uploads' \in [Uploads -> UploadRow]
    <3>1. [Renamed(j)[u] EXCEPT !.st = "rejecting"] \in UploadRow
      BY <1>g, UploadRows
    <3> QED BY <3>1, <1>5, <1>g, Initials DEF UploadStored
  <2>2. disk' \in [Jobs -> DiskRow]
    <3>1. [Written(u) EXCEPT !.clip = Written(u).part, !.part = NoFile, !.dir = now] \in DiskRow
      BY <2>0, <1>a, WrittenIsDisk, Initials DEF DiskRow
    <3> QED BY <3>1, <2>0, <1>5, <1>a DEF UploadStored, FilesTyped
  <2>3. answered' \in [Jobs -> SUBSET Leases]
    BY <2>0, <1>5, <1>a DEF UploadStored, FilesTyped
  <2> QED BY <2>0, <2>1, <2>2, <2>3, <1>5, <1>a DEF UploadStored, FilesTyped
<1>6. CASE UploadMissing(u)
  <2>1. uploads' \in [Uploads -> UploadRow]
    BY <1>6, <1>a, Initials DEF UploadMissing, FilesTyped
  <2>2. disk' \in [Jobs -> DiskRow]
    BY <1>6, <1>a, <1>u, WrittenIsDisk DEF UploadMissing, FilesTyped
  <2> QED BY <2>1, <2>2, <1>6, <1>a DEF UploadMissing, FilesTyped
<1>7. CASE UploadRejected(u)
  <2>1. uploads' \in [Uploads -> UploadRow]
    BY <1>7, <1>a, UploadRows, Initials DEF UploadRejected, FilesTyped
  <2>2. disk' \in [Jobs -> DiskRow]
    BY <1>7, <1>a, Initials DEF UploadRejected, FilesTyped
  <2> QED BY <2>1, <2>2, <1>7, <1>a DEF UploadRejected, FilesTyped
<1> QED BY <1>1, <1>2, <1>3, <1>4, <1>5, <1>6, <1>7 DEF UploadStep

\* Likewise a step of the cleanup.
LEMMA CleanStepTyped ==
  ASSUME FilesInv, CleanStep
  PROVE  FilesTyped'
<1>a. FilesTyped /\ now \in Nat
  BY Typed DEF FilesInv, FilesOK
<1>r. ASSUME NEW j \in Jobs, Removed(j)
      PROVE  disk' \in [Jobs -> DiskRow] /\ uploads' \in [Uploads -> UploadRow]
  BY <1>r, <1>a, Initials, UploadRows DEF Removed, FilesTyped
<1>s. ASSUME NEW j \in Jobs PROVE Skipped(j) \in CleanerRow /\ Skipped(j).cur = NoJob
  BY <1>a DEF FilesTyped, Skipped, CleanerRow
<1>1. CASE CleanBegin
  <2>1. cleaner' \in CleanerRow /\ cleaner'.cur = NoJob
    BY <1>1, <1>a DEF CleanBegin, IdleCleaner, CleanerRow
  <2> QED BY <2>1, <1>1, <1>a DEF CleanBegin, FilesTyped
<1>2. CASE ReadDir
  <2>1. cleaner' \in CleanerRow /\ cleaner'.cur = NoJob
    BY <1>2, <1>a, NullAssumption DEF ReadDir, FilesTyped, CleanerRow
  <2> QED BY <2>1, <1>2, <1>a DEF ReadDir, FilesTyped
<1>3. CASE Purge
  <2>1. media' \in [Jobs -> MediaRow]
    BY <1>3, <1>a, AttemptsAssumption DEF Purge, FilesTyped, MediaRow
  <2> QED BY <2>1, <1>3, <1>a, Initials DEF Purge, FilesTyped
<1>4. ASSUME NEW j \in Jobs, ExpireRemove(j) PROVE FilesTyped'
  <2>1. cleaner' \in CleanerRow /\ cleaner'.cur \in cleaner'.todo
    BY <1>4, <1>a DEF ExpireRemove, FilesTyped, CleanerRow
  <2> QED BY <2>1, <1>r, <1>4, <1>a DEF ExpireRemove, FilesTyped
<1>5. ASSUME NEW j \in Jobs, ExpireRecord(j) PROVE FilesTyped'
  <2>1. media' \in [Jobs -> MediaRow]
    BY <1>5, <1>a, AttemptsAssumption DEF ExpireRecord, FilesTyped, MediaRow
  <2> QED BY <2>1, <1>s, <1>5, <1>a DEF ExpireRecord, FilesTyped
<1>6. ASSUME NEW j \in Jobs, OrphanCheck(j) \/ OrphanStat(j) PROVE FilesTyped'
  <2>1. cleaner' \in CleanerRow /\ (cleaner'.cur # NoJob => cleaner'.cur \in cleaner'.todo)
    BY <1>6, <1>a, <1>s DEF OrphanCheck, OrphanStat, FilesTyped, CleanerRow
  <2> QED BY <2>1, <1>6, <1>a DEF OrphanCheck, OrphanStat, FilesTyped
<1>7. ASSUME NEW j \in Jobs, OrphanRemove(j) PROVE FilesTyped'
  BY <1>r, <1>s, <1>7, <1>a DEF OrphanRemove, FilesTyped
<1> QED BY <1>1, <1>2, <1>3, <1>4, <1>5, <1>6, <1>7 DEF CleanStep

\* Every step leaves the variables well typed.
LEMMA NextFilesOK ==
  ASSUME FilesInv, [FilesNext]_filesVars
  PROVE  FilesOK'
<1>a. FilesTyped /\ now \in Nat /\ restarts \in Nat /\ jobs \in [Jobs -> Row]
        /\ \A j \in Jobs : RowFine(jobs[j])
  BY Typed DEF FilesInv, FilesOK
<1>1. ASSUME NEW j \in Jobs, JobStep(j) PROVE FilesTyped'
  <2>1. CASE SubmitBegin(j) \/ InputRemoved(j)
    <3>1. \E t \in Nat : disk' = [disk EXCEPT ![j].input = t]
      BY <2>1, <1>a DEF SubmitBegin, InputRemoved
    <3>2. disk' \in [Jobs -> DiskRow]
      BY <3>1, <1>a DEF FilesTyped, DiskRow
    <3> QED BY <3>2, <2>1, <1>a DEF SubmitBegin, InputRemoved, FilesTyped
  <2>2. CASE Withdrawn(j) \/ Reaped(j) \/ Result(j)
    <3>1. jobs[j].lease \in 0..MaxAttempts /\ 0 \in 0..MaxAttempts
      BY <1>a, AttemptsAssumption DEF RowFine, Row
    <3>2. \E c \in 0..MaxAttempts : \E r : Ended(j, r, c)
      BY <2>2, <3>1 DEF Withdrawn, Reaped, Result
    <3>3. media' \in [Jobs -> MediaRow]
      BY <3>2, <1>a DEF Ended, FilesTyped, MediaRow
    <3> QED BY <3>3, <2>2, <1>a DEF Withdrawn, Reaped, Result, FilesTyped
  <2>3. CASE SubmitCommit(j) \/ Requeued(j) \/ \E p \in Pods : Dispatch(j, p)
    BY <2>3, <1>a DEF SubmitCommit, Requeued, Dispatch, FilesTyped
  <2> QED BY <1>1, <2>1, <2>2, <2>3 DEF JobStep
<1>2. ASSUME Restart PROVE FilesTyped'
  BY <1>2, <1>a, Initials DEF Restart, FilesTyped
<1>3. ASSUME Tick \/ UNCHANGED filesVars PROVE FilesTyped'
  BY <1>3, <1>a DEF Tick, filesVars, FilesTyped
<1>4. FilesTyped'
  BY <1>1, <1>2, <1>3, UploadStepTyped, CleanStepTyped DEF FilesNext
<1>5. restarts' \in Nat
  <2>1. restarts' = restarts \/ restarts' = restarts + 1
    BY DEF FilesNext, JobStep, SubmitBegin, SubmitCommit, Dispatch, Withdrawn, Reaped, Requeued, Result,
         InputRemoved, UploadStep, UploadBegin, UploadOpen, UploadChunk, UploadBroken, UploadStored,
         UploadMissing, UploadRejected, CleanStep, CleanBegin, ReadDir, Purge, ExpireRemove,
         ExpireRecord, OrphanCheck, OrphanStat, OrphanRemove, Restart, Tick, filesVars
  <2> QED BY <2>1, <1>a
<1> QED BY <1>4, <1>5, RowSteps, Clock DEF FilesOK, FilesTyped, MediaRow, DiskRow, UploadRow,
           CleanerRow

-----------------------------------------------------------------------------
(* What the steps do to the files and to what is recorded of them *)

\* The steps of a handler that has its lease.
Handled(u) ==
  \/ UploadOpen(u) \/ UploadChunk(u) \/ UploadBroken(u)
  \/ UploadStored(u) \/ UploadMissing(u) \/ UploadRejected(u)

\* The cleanup removes the files of job j.
Swept(j) ==
  /\ Removed(j) /\ UNCHANGED <<now, jobs, media, answered, tangled, rejected>>
  /\ \/ cleaner.st = "expiring" /\ j \in cleaner.todo
     \/ cleaner.cur = j /\ cleaner.aged

\* The files of a job change at its submission, when its input is removed, when
\* they are swept, and by its uploads.
LEMMA DiskSteps ==
  ASSUME FilesInv, [FilesNext]_filesVars, NEW j \in Jobs
  PROVE  \/ disk'[j] = disk[j] /\ jobs'[j].created = jobs[j].created
         \/ SubmitBegin(j)
         \/ InputRemoved(j)
         \/ Swept(j)
         \/ \E u \in Uploads : uploads[u].job = j /\ uploads[u].st # "idle" /\ Handled(u)
<1> DEFINE Goal == \/ disk'[j] = disk[j] /\ jobs'[j].created = jobs[j].created
                   \/ SubmitBegin(j)
                   \/ InputRemoved(j)
                   \/ Swept(j)
                   \/ \E u \in Uploads : uploads[u].job = j /\ uploads[u].st # "idle" /\ Handled(u)
<1>a. FilesTyped /\ jobs \in [Jobs -> Row] /\ jobs' \in [Jobs -> Row]
  BY Typed, RowSteps DEF FilesInv, FilesOK
<1>b. disk \in [Jobs -> DiskRow] /\ RowStep(jobs[j], jobs'[j], answered[j])
  BY <1>a, RowSteps DEF FilesTyped
<1>c. jobs[j].created # 0 => jobs'[j].created = jobs[j].created
  BY Lasting
<1>1. ASSUME NEW i \in Jobs, JobStep(i) PROVE Goal
  <2>1. CASE SubmitBegin(i) \/ InputRemoved(i)
    <3>1. CASE i = j
      BY <2>1, <3>1
    <3>2. CASE i # j
      BY <2>1, <3>2, <1>a, <1>b DEF SubmitBegin, InputRemoved
    <3> QED BY <3>1, <3>2
  <2>2. CASE SubmitCommit(i)
    BY <2>2, <1>a, <1>b DEF SubmitCommit, Created, AbsentRow, Row
  <2>3. CASE Requeued(i) \/ Withdrawn(i) \/ Reaped(i) \/ Result(i) \/ \E p \in Pods : Dispatch(i, p)
    <3>1. disk' = disk /\ (i # j => jobs'[j] = jobs[j]) /\ IsLive(jobs[i])
      BY <2>3, <1>a DEF Requeued, Withdrawn, Reaped, Result, Dispatch, Ended, IsLive
    <3>2. i = j => jobs[j].created # 0
      BY <3>1 DEF FilesInv, RowFine, AbsentRow, IsLive
    <3> QED BY <3>1, <3>2, <1>c
  <2> QED BY <1>1, <2>1, <2>2, <2>3 DEF JobStep
<1>2. ASSUME NEW u \in Uploads, UploadStep(u) PROVE Goal
  <2>1. CASE \E i \in Jobs, intact \in BOOLEAN, heard \in BOOLEAN : UploadBegin(u, i, intact, heard)
    BY <2>1 DEF UploadBegin
  <2>2. CASE Handled(u)
    <3>1. jobs' = jobs /\ uploads[u].st # "idle"
      BY <2>2 DEF Handled, UploadOpen, UploadChunk, UploadBroken, UploadStored, UploadMissing,
         UploadRejected
    <3>2. CASE uploads[u].job = j
      BY <2>2, <3>1, <3>2
    <3>3. CASE uploads[u].job # j
      BY <2>2, <3>1, <3>3, <1>b DEF Handled, UploadOpen, UploadChunk, UploadBroken, UploadStored,
                                  UploadMissing, UploadRejected
    <3> QED BY <3>2, <3>3
  <2> QED BY <1>2, <2>1, <2>2 DEF UploadStep, Handled
<1>3. ASSUME NEW i \in Jobs, ExpireRemove(i) \/ OrphanRemove(i) PROVE Goal
  <2>1. jobs' = jobs
    BY <1>3 DEF ExpireRemove, OrphanRemove
  <2>2. CASE i = j
    BY <1>3, <2>2 DEF ExpireRemove, OrphanRemove, Swept
  <2>3. CASE i # j
    BY <1>3, <2>1, <2>3, <1>b DEF ExpireRemove, OrphanRemove, Removed
  <2> QED BY <2>2, <2>3
<1>4. ASSUME CleanStep, \A i \in Jobs : ~(ExpireRemove(i) \/ OrphanRemove(i)) PROVE Goal
  <2>1. disk' = disk /\ (jobs' = jobs \/ Purge)
    BY <1>4 DEF CleanStep, CleanBegin, ReadDir, Purge, ExpireRecord, OrphanCheck, OrphanStat
  <2>2. CASE Purge
    BY <2>1, <2>2, <1>b DEF Purge, AbsentRow
  <2> QED BY <2>1, <2>2
<1>5. ASSUME Restart PROVE Goal
  BY <1>5, <1>b DEF Restart, AbsentRow
<1>6. ASSUME Tick \/ UNCHANGED filesVars PROVE Goal
  BY <1>6 DEF Tick, filesVars
<1> QED BY <1>1, <1>2, <1>3, <1>4, <1>5, <1>6 DEF FilesNext

\* The two columns change when the job ends, when its clip expires, and with its row.
LEMMA MediaSteps ==
  ASSUME FilesInv, [FilesNext]_filesVars, NEW j \in Jobs
  PROVE  \/ media'[j] = media[j] /\ (jobs'[j].state = "completed" <=> jobs[j].state = "completed")
         \/ /\ IsLive(jobs[j]) /\ media'[j].finished = now /\ now' = now
            /\ media'[j].clip = IF jobs'[j].state = "completed" THEN jobs'[j].attempts ELSE 0
         \/ /\ cleaner.st = "expiring" /\ j \in cleaner.todo /\ jobs' = jobs
            /\ media'[j].finished = media[j].finished /\ media'[j].clip = 0
         \/ jobs'[j].state = "absent" /\ media'[j].clip = 0
<1> DEFINE Same == media'[j] = media[j]
             /\ (jobs'[j].state = "completed" <=> jobs[j].state = "completed")
           Goal == \/ Same
                   \/ /\ IsLive(jobs[j]) /\ media'[j].finished = now /\ now' = now
                      /\ media'[j].clip = IF jobs'[j].state = "completed" THEN jobs'[j].attempts ELSE 0
                   \/ /\ cleaner.st = "expiring" /\ j \in cleaner.todo /\ jobs' = jobs
                      /\ media'[j].finished = media[j].finished /\ media'[j].clip = 0
                   \/ jobs'[j].state = "absent" /\ media'[j].clip = 0
<1>a. /\ media \in [Jobs -> MediaRow] /\ media[j] \in MediaRow /\ jobs \in [Jobs -> Row]
      /\ jobs[j] \in Row
      /\ jobs' \in [Jobs -> Row] /\ RowFine(jobs[j])
      /\ (cleaner.cur # NoJob => cleaner.cur \in cleaner.todo)
  BY Typed, RowSteps DEF FilesInv, FilesOK, FilesTyped
<1>1. ASSUME NEW i \in Jobs, JobStep(i) PROVE Goal
  <2>1. CASE SubmitBegin(i) \/ SubmitCommit(i) \/ (\E p \in Pods : Dispatch(i, p)) \/ Requeued(i)
             \/ InputRemoved(i)
    <3>1. media' = media
      BY <2>1 DEF SubmitBegin, SubmitCommit, Dispatch, Requeued, InputRemoved
    <3>2. CASE jobs' = jobs \/ i # j
      BY <2>1, <3>1, <3>2, <1>a DEF SubmitBegin, SubmitCommit, Dispatch, Requeued, InputRemoved
    <3>3. CASE jobs' # jobs /\ i = j
      <4>1. jobs[j].state # "completed"
        BY <2>1, <3>3 DEF SubmitBegin, SubmitCommit, Dispatch, Requeued, InputRemoved, AbsentRow
      <4>2. jobs'[j].state = "completed" => IsLive(jobs[j])
        BY RowSteps, <4>1 DEF RowStep
      <4>3. CASE SubmitBegin(j) \/ SubmitCommit(j)
        BY <3>1, <4>1, <4>2, <4>3 DEF SubmitBegin, SubmitCommit, IsLive, AbsentRow
      <4>4. ASSUME NEW p \in Pods, Dispatch(j, p) PROVE jobs'[j].state # "completed"
        BY <4>4, <1>a DEF Dispatch, Claim, Row
      <4>5. CASE Requeued(j)
        <5>1. jobs'[j].state # "completed"
          BY <4>5, <1>a DEF Requeued, Requeue, Owned, Row
        <5> QED BY <5>1, <3>1, <4>1
      <4> QED BY <2>1, <3>1, <3>3, <4>1, <4>3, <4>4, <4>5 DEF InputRemoved
    <3> QED BY <3>2, <3>3
  <2>2. CASE (Withdrawn(i) \/ Reaped(i) \/ Result(i)) /\ i # j
    BY <2>2, <1>a DEF Withdrawn, Reaped, Result, Ended
  <2>3. CASE (Withdrawn(i) \/ Reaped(i) \/ Result(i)) /\ i = j
    <3>1. PICK c : /\ media' = [media EXCEPT ![j] = [clip |-> c, finished |-> now]] /\ now' = now
                   /\ IsLive(jobs[j])
                   /\ \/ c = 0 /\ jobs'[j] \in {CancelQueued(jobs[j], now), Fail(jobs[j], 0),
                             MarkCancelled(jobs[j], 0), Fail(jobs[j], jobs[j].lease),
                             MarkCancelled(jobs[j], jobs[j].lease)}
                      \/ c = jobs[j].lease /\ jobs'[j] = Complete(jobs[j], jobs[j].lease)
                         /\ jobs[j].state = "in_progress"
      BY <2>3, <1>a DEF Withdrawn, Reaped, Result, Ended, IsLive
    <3>2. media'[j].finished = now /\ media'[j].clip = c
      BY <3>1, <1>a
    <3>3. c = IF jobs'[j].state = "completed" THEN jobs'[j].attempts ELSE 0
      BY <3>1, <1>a DEF CancelQueued, Fail, MarkCancelled, Complete, Finished, Owned, Holds, IsLive,
                        RowFine, Row
    <3> QED BY <3>1, <3>2, <3>3
  <2> QED BY <1>1, <2>1, <2>2, <2>3 DEF JobStep
<1>2. ASSUME NEW u \in Uploads, UploadStep(u) PROVE Goal
  <2>1. media' = media /\ jobs' = jobs
    BY <1>2 DEF UploadStep, UploadBegin, UploadOpen, UploadChunk, UploadBroken, UploadStored,
                UploadMissing, UploadRejected
  <2> QED BY <2>1
<1>3. ASSUME Purge PROVE Goal
  <2> DEFINE S == {i \in Jobs : Purged(jobs[i], media[i])}
  <2>1. CASE j \in S
    BY <1>3, <2>1 DEF Purge, AbsentRow
  <2>2. CASE j \notin S
    BY <1>3, <2>2 DEF Purge
  <2> QED BY <2>1, <2>2
<1>4. ASSUME NEW i \in Jobs, ExpireRecord(i) PROVE Goal
  <2>1. CASE i = j
    BY <1>4, <2>1, <1>a, NullAssumption DEF ExpireRecord, MediaRow
  <2>2. CASE i # j
    BY <1>4, <2>2, <1>a DEF ExpireRecord
  <2> QED BY <2>1, <2>2
<1>5. ASSUME CleanStep, ~Purge, \A i \in Jobs : ~ExpireRecord(i) PROVE Goal
  BY <1>5 DEF CleanStep, CleanBegin, ReadDir, ExpireRemove, OrphanCheck, OrphanStat, OrphanRemove
<1>6. ASSUME Restart PROVE Goal
  <2>1. media' = media /\ (jobs[j].state # "writing" => jobs'[j] = jobs[j])
        /\ (jobs[j].state = "writing" => jobs'[j].state = "absent")
    BY <1>6 DEF Restart, AbsentRow
  <2> QED BY <2>1
<1>7. ASSUME Tick \/ UNCHANGED filesVars PROVE Goal
  BY <1>7 DEF Tick, filesVars
<1> QED BY <1>1, <1>2, <1>3, <1>4, <1>5, <1>6, <1>7 DEF FilesNext

\* A lease is answered when its upload is stored.
LEMMA AnswerSteps ==
  ASSUME FilesInv, [FilesNext]_filesVars, NEW j \in Jobs
  PROVE  \/ answered'[j] = answered[j]
         \/ /\ \E u \in Uploads : /\ uploads[u].job = j /\ UploadStored(u) /\ uploads[u].intact
                                  /\ answered'[j] = answered[j] \cup {uploads[u].lease}
            /\ UNCHANGED <<now, jobs, media>>
<1>a. answered \in [Jobs -> SUBSET Leases]
  BY Typed DEF FilesInv, FilesTyped
<1>1. ASSUME NEW u \in Uploads, UploadStored(u)
      PROVE  \/ answered'[j] = answered[j]
             \/ /\ uploads[u].job = j /\ uploads[u].intact
                /\ answered'[j] = answered[j] \cup {uploads[u].lease}
  BY <1>1, <1>a DEF UploadStored
<1>2. ASSUME \A u \in Uploads : ~UploadStored(u) PROVE answered' = answered
  BY <1>2 DEF FilesNext, JobStep, SubmitBegin, SubmitCommit, Dispatch, Withdrawn, Reaped, Requeued, Result,
         InputRemoved, UploadStep, UploadBegin, UploadOpen, UploadChunk, UploadBroken,
         UploadMissing, UploadRejected, CleanStep, CleanBegin, ReadDir, Purge, ExpireRemove,
         ExpireRecord, OrphanCheck, OrphanStat, OrphanRemove, Restart, Tick, filesVars
<1>3. \A u \in Uploads : UploadStored(u) => UNCHANGED <<now, jobs, media>>
  BY DEF UploadStored
<1> QED BY <1>1, <1>2, <1>3

\* What the history says of a job stays.
LEMMA HistorySteps ==
  ASSUME FilesInv, [FilesNext]_filesVars
  PROVE  tangled \subseteq tangled' /\ rejected \subseteq rejected'
<1>1. tangled \subseteq tangled'
  BY DEF FilesNext, JobStep, SubmitBegin, SubmitCommit, Dispatch, Withdrawn, Reaped, Requeued, Result,
         InputRemoved, UploadStep, UploadBegin, UploadOpen, UploadChunk, UploadBroken, UploadStored,
         UploadMissing, UploadRejected, CleanStep, CleanBegin, ReadDir, Purge, ExpireRemove,
         ExpireRecord, OrphanCheck, OrphanStat, OrphanRemove, Restart, Tick, filesVars
<1>2. rejected \subseteq rejected'
  BY DEF FilesNext, JobStep, SubmitBegin, SubmitCommit, Dispatch, Withdrawn, Reaped, Requeued, Result,
         InputRemoved, UploadStep, UploadBegin, UploadOpen, UploadChunk, UploadBroken, UploadStored,
         UploadMissing, UploadRejected, CleanStep, CleanBegin, ReadDir, Purge, ExpireRemove,
         ExpireRecord, OrphanCheck, OrphanStat, OrphanRemove, Restart, Tick, filesVars
<1> QED BY <1>1, <1>2

-----------------------------------------------------------------------------
(* Each part of the invariant *)

\* Only the upload of the last lease is ever recorded as the clip.
LEMMA NextMediaFine ==
  ASSUME FilesInv, [FilesNext]_filesVars
  PROVE  MediaFine'
<1> SUFFICES ASSUME NEW j \in Jobs
             PROVE  /\ media'[j].clip # 0 =>
                         jobs'[j].state = "completed" /\ media'[j].clip = jobs'[j].attempts
                    /\ jobs'[j].state = "completed" =>
                         /\ jobs'[j].attempts \in answered'[j]
                         /\ media'[j].clip = jobs'[j].attempts
                              \/ now' - media'[j].finished > ArtifactTtl
                    /\ jobs'[j].created = 0 => answered'[j] = {}
                    /\ jobs'[j].state # "absent" => \A l \in answered'[j] : l <= jobs'[j].attempts
  BY DEF MediaFine
<1>a. /\ media[j] \in MediaRow /\ jobs[j] \in Row /\ jobs'[j] \in Row /\ now \in Nat
      /\ answered[j] \subseteq Leases /\ RowFine(jobs[j])
  BY Typed, RowSteps DEF FilesInv, FilesOK, FilesTyped
<1>b. /\ media[j].clip # 0 => jobs[j].state = "completed" /\ media[j].clip = jobs[j].attempts
      /\ jobs[j].state = "completed" =>
           /\ jobs[j].attempts \in answered[j]
           /\ media[j].clip = jobs[j].attempts \/ now - media[j].finished > ArtifactTtl
      /\ jobs[j].created = 0 => answered[j] = {}
      /\ jobs[j].state # "absent" => \A l \in answered[j] : l <= jobs[j].attempts
  BY DEF FilesInv, MediaFine
<1>c. answered[j] \subseteq answered'[j]
  BY AnswerSteps
<1>d. now' \in Nat /\ now <= now'
  BY Clock
<1>1. media'[j].clip # 0 => jobs'[j].state = "completed" /\ media'[j].clip = jobs'[j].attempts
  BY <1>a, <1>b, MediaSteps, Lasting
<1>2. jobs'[j].state = "completed" => jobs'[j].attempts \in answered'[j]
  BY <1>b, <1>c, Lasting
<1>3. ASSUME jobs'[j].state = "completed"
      PROVE  media'[j].clip = jobs'[j].attempts \/ now' - media'[j].finished > ArtifactTtl
  <2>1. CASE media'[j] = media[j] /\ jobs[j].state = "completed"
    BY <2>1, <1>3, <1>a, <1>b, <1>d, Lasting, TtlAssumption DEF MediaRow
  <2>2. CASE media'[j].clip = jobs'[j].attempts
    BY <2>2
  <2>3. CASE cleaner.st = "expiring" /\ j \in cleaner.todo /\ jobs' = jobs
             /\ media'[j].finished = media[j].finished
    <3>1. now - media[j].finished > ArtifactTtl
      BY <2>3, <1>3 DEF FilesInv, RemovalsFine
    <3> QED BY <3>1, <2>3, <1>a, <1>d, TtlAssumption DEF MediaRow
  <2> QED BY <1>3, <2>1, <2>2, <2>3, MediaSteps
<1>4. ASSUME jobs'[j].created = 0 PROVE answered'[j] = {}
  <2>1. jobs[j].created = 0
    BY <1>4, Lasting
  <2>2. \A u \in Uploads : uploads[u].st # "idle" => uploads[u].job # j
    BY <2>1 DEF FilesInv, UploadsFine
  <2> QED BY <2>1, <2>2, <1>b, AnswerSteps DEF UploadStored
<1>5. ASSUME jobs'[j].state # "absent", NEW l \in answered'[j] PROVE l <= jobs'[j].attempts
  <2>1. CASE l \in answered[j]
    <3>1. jobs[j].created # 0
      BY <2>1, <1>b
    <3>2. jobs[j].state # "absent" /\ jobs[j].attempts <= jobs'[j].attempts
      BY <3>1, <1>5, Lasting
    <3>3. l <= jobs[j].attempts
      BY <3>2, <2>1, <1>b
    <3> QED BY <3>2, <3>3, <2>1, <1>a DEF Row, Leases
  <2>2. CASE l \notin answered[j]
    <3>1. PICK u \in Uploads : uploads[u].job = j /\ UploadStored(u) /\ l = uploads[u].lease
            /\ jobs' = jobs
      BY <2>2, <1>5, AnswerSteps
    <3> QED BY <3>1, <1>5 DEF UploadStored, FilesInv, UploadsFine
  <2> QED BY <2>1, <2>2
<1> QED BY <1>1, <1>2, <1>3, <1>4, <1>5

\* An upload leaves the input alone, unless its checksum failed.
LEMMA HandledDisk ==
  ASSUME FilesInv, NEW u \in Uploads, NEW j \in Jobs, uploads[u].job = j, Handled(u)
  PROVE  /\ disk'[j].input = disk[j].input \/ (disk'[j].input = 0 /\ j \in rejected)
         /\ disk'[j].dir \in {disk[j].dir, now, 0}
         /\ jobs' = jobs /\ media' = media /\ now' = now
<1>a. disk[j] \in DiskRow /\ disk \in [Jobs -> DiskRow]
  BY Typed DEF FilesInv, FilesTyped
<1>1. CASE UploadOpen(u) \/ UploadChunk(u) \/ UploadBroken(u)
  BY <1>1, <1>a DEF UploadOpen, UploadChunk, UploadBroken, DiskRow
<1>2. CASE UploadStored(u)
  <2> DEFINE d == Written(u)
  <2>1. disk'[j] = [d EXCEPT !.clip = d.part, !.part = NoFile, !.dir = now]
    BY <1>2, <1>a DEF UploadStored
  <2>2. d \in DiskRow /\ d.input = disk[j].input
    BY WrittenIsDisk
  <2> HIDE DEF d
  <2>3. disk'[j].input = disk[j].input /\ disk'[j].dir = now
    BY <2>1, <2>2 DEF DiskRow
  <2> QED BY <2>3, <1>2 DEF UploadStored
<1>3. CASE UploadMissing(u)
  BY <1>3, <1>a, WrittenIsDisk DEF UploadMissing
<1>4. CASE UploadRejected(u)
  <2>1. j \in rejected
    BY <1>4 DEF UploadRejected, FilesInv, UploadsFine
  <2> QED BY <2>1, <1>4, <1>a DEF UploadRejected, EmptyDisk
<1> QED BY <1>1, <1>2, <1>3, <1>4 DEF Handled

\* The cleanup sweeps only what is over.
LEMMA SweptOver ==
  ASSUME FilesInv, NEW j \in Jobs, Swept(j)
  PROVE  /\ Over(j) /\ disk'[j] = EmptyDisk
         /\ jobs[j].state = "completed" => now - media[j].finished > ArtifactTtl
<1>1. disk'[j] = EmptyDisk
  BY Typed DEF FilesInv, FilesTyped, Swept, Removed
<1>2. CASE cleaner.st = "expiring" /\ j \in cleaner.todo
  BY <1>1, <1>2 DEF FilesInv, RemovalsFine
<1>3. CASE cleaner.cur = j /\ cleaner.aged
  BY <1>1, <1>3 DEF FilesInv, RemovalsFine, Dead, Over
<1> QED BY <1>2, <1>3 DEF Swept

\* A directory is made after its job, and an input is the job's own.
LEMMA NextDiskFine ==
  ASSUME FilesInv, [FilesNext]_filesVars
  PROVE  DiskFine'
<1> SUFFICES ASSUME NEW j \in Jobs
             PROVE  /\ jobs'[j].created = 0 => disk'[j] = EmptyDisk
                    /\ disk'[j].input \in {0, jobs'[j].created}
                    /\ disk'[j].dir # 0 => disk'[j].dir >= jobs'[j].created
  BY DEF DiskFine
<1>a. /\ disk \in [Jobs -> DiskRow] /\ disk[j] \in DiskRow /\ jobs \in [Jobs -> Row]
      /\ jobs[j] \in Row
      /\ now \in Nat \ {0} /\ jobs[j].created <= now
  BY Typed DEF FilesInv, FilesOK, FilesTyped, RowFine
<1>b. /\ jobs[j].created = 0 => disk[j] = EmptyDisk
      /\ disk[j].input \in {0, jobs[j].created}
      /\ disk[j].dir # 0 => disk[j].dir >= jobs[j].created
  BY DEF FilesInv, DiskFine
<1>1. CASE disk'[j] = disk[j] /\ jobs'[j].created = jobs[j].created
  BY <1>1, <1>b
<1>2. CASE SubmitBegin(j)
  <2>1. jobs'[j].created = now /\ jobs[j].created = 0
    BY <1>2, <1>a DEF SubmitBegin, AbsentRow
  <2>2. disk'[j].input = now /\ disk'[j].dir = 0
    BY <2>1, <1>2, <1>a, <1>b DEF SubmitBegin, EmptyDisk, DiskRow
  <2> QED BY <2>1, <2>2, <1>a
<1>3. CASE InputRemoved(j)
  <2>1. jobs[j].created # 0 /\ jobs' = jobs
    BY <1>3 DEF InputRemoved, FilesInv, RemovalsFine, Over
  <2>2. disk'[j].input = 0 /\ disk'[j].dir = disk[j].dir
    BY <1>3, <1>a DEF InputRemoved, DiskRow
  <2> QED BY <2>1, <2>2, <1>b
<1>4. CASE Swept(j)
  BY <1>4, SweptOver, Lasting DEF EmptyDisk, Over
<1>5. ASSUME NEW u \in Uploads, uploads[u].job = j, uploads[u].st # "idle", Handled(u)
      PROVE  /\ jobs'[j].created # 0 /\ disk'[j].input \in {0, jobs'[j].created}
             /\ disk'[j].dir # 0 => disk'[j].dir >= jobs'[j].created
  <2>1. jobs[j].created # 0
    BY <1>5 DEF FilesInv, UploadsFine
  <2> QED BY <2>1, <1>5, <1>a, <1>b, HandledDisk DEF DiskRow
<1> QED BY <1>1, <1>2, <1>3, <1>4, <1>5, DiskSteps

\* No step takes an input away from a job that may need it.
LEMMA NextInputKept ==
  ASSUME FilesInv, [FilesNext]_filesVars
  PROVE  InputKept'
<1> SUFFICES ASSUME NEW j \in Jobs, jobs'[j].state = "writing" \/ IsLive(jobs'[j]),
                    j \notin rejected'
             PROVE  disk'[j].input # 0
  BY DEF InputKept, IsLive
<1>a. /\ disk \in [Jobs -> DiskRow] /\ jobs \in [Jobs -> Row] /\ jobs[j] \in Row
      /\ now \in Nat \ {0}
      /\ RowFine(jobs[j])
  BY Typed DEF FilesInv, FilesOK, FilesTyped
<1>b. j \notin rejected
  BY HistorySteps
<1>0. jobs[j].created # 0 \/ SubmitBegin(j) \/ jobs'[j].created # jobs[j].created
  BY <1>a, Lasting DEF RowFine, AbsentRow, IsLive
<1>c. ~Over(j)
  BY Lasting DEF Over, IsLive, IsTerminal, TerminalStates
<1>d. jobs[j].created # 0 => disk[j].input # 0
  BY <1>a, <1>b, <1>c DEF Over, FilesInv, InputKept, IsLive, IsTerminal, TerminalStates, Row,
     RowStates, VideoStates
<1>1. CASE disk'[j] = disk[j] /\ jobs'[j].created = jobs[j].created
  <2>1. jobs[j].created # 0
    BY <1>1, <1>0, <1>a DEF SubmitBegin, AbsentRow
  <2> QED BY <2>1, <1>1, <1>d
<1>2. CASE SubmitBegin(j)
  BY <1>2, <1>a DEF SubmitBegin, DiskRow
<1>3. CASE InputRemoved(j)
  BY <1>3, <1>c DEF InputRemoved, FilesInv, RemovalsFine
<1>4. CASE Swept(j)
  BY <1>4, <1>c, SweptOver
<1>5. ASSUME NEW u \in Uploads, uploads[u].job = j, uploads[u].st # "idle", Handled(u)
      PROVE  disk'[j].input # 0
  <2>1. jobs[j].created # 0
    BY <1>5 DEF FilesInv, UploadsFine
  <2> QED BY <2>1, <1>5, <1>b, <1>d, HandledDisk
<1> QED BY <1>1, <1>2, <1>3, <1>4, <1>5, DiskSteps

\* What removals were about to do to a job is still right after a step.
LEMMA NextRemovalsFine ==
  ASSUME FilesInv, [FilesNext]_filesVars
  PROVE  RemovalsFine'
<1> DEFINE Late(j) == Over(j)'
             /\ (jobs'[j].state = "completed" => now' - media'[j].finished > ArtifactTtl)
           Gone(j) == jobs'[j].created # 0 /\ jobs'[j].state = "absent"
           Cur == cleaner'.cur
           Settled == \A j \in settling' : Over(j)'
           Cleaning ==
             /\ cleaner'.at <= now'
             /\ \A j \in cleaner'.todo : jobs'[j].created # 0
             /\ cleaner'.st = "expiring" => \A j \in cleaner'.todo : Late(j)
             /\ cleaner'.st \in {"inputs", "artifacts"} /\ Cur # NoJob =>
                  Gone(Cur) \/ cleaner'.at <= jobs'[Cur].created + RequestTime
             /\ cleaner'.aged => Cur # NoJob /\ Gone(Cur)
<1>s. SUFFICES Settled /\ Cleaning
  BY DEF RemovalsFine, Dead
<1>a. /\ jobs \in [Jobs -> Row] /\ jobs' \in [Jobs -> Row] /\ media \in [Jobs -> MediaRow]
      /\ now \in Nat \ {0}
      /\ disk \in [Jobs -> DiskRow] /\ cleaner \in CleanerRow
      /\ (cleaner.cur # NoJob => cleaner.cur \in cleaner.todo)
      /\ settling \subseteq Jobs
  BY Typed, RowSteps DEF FilesInv, FilesOK, FilesTyped
<1>b. /\ \A j \in settling : Over(j)
      /\ cleaner.at <= now
      /\ \A j \in cleaner.todo : jobs[j].created # 0
      /\ cleaner.st = "expiring" => \A j \in cleaner.todo :
           Over(j) /\ (jobs[j].state = "completed" => now - media[j].finished > ArtifactTtl)
      /\ cleaner.st \in {"inputs", "artifacts"} /\ cleaner.cur # NoJob =>
           Dead(cleaner.cur) \/ cleaner.at <= jobs[cleaner.cur].created + RequestTime
      /\ cleaner.aged => cleaner.cur # NoJob /\ Dead(cleaner.cur)
  BY DEF FilesInv, RemovalsFine
<1>t. cleaner.at \in Nat /\ cleaner.todo \subseteq Jobs /\ now' \in Nat \ {0} /\ now <= now'
  BY <1>a, Clock DEF CleanerRow
<1>1. /\ cleaner.at <= now'
      /\ \A j \in cleaner.todo : jobs'[j].created # 0
      /\ cleaner.aged => cleaner.cur # NoJob /\ Gone(cleaner.cur)
      /\ cleaner.st \in {"inputs", "artifacts"} /\ cleaner.cur # NoJob =>
           Gone(cleaner.cur) \/ cleaner.at <= jobs'[cleaner.cur].created + RequestTime
  <2>1. cleaner.at <= now'
    BY <1>a, <1>b, <1>t
  <2>2. \A j \in cleaner.todo : jobs'[j].created = jobs[j].created /\ jobs[j].created # 0
    BY <1>b, <1>t, Lasting
  <2>3. \A j \in cleaner.todo : Dead(j) => Gone(j)
    BY <1>t, Lasting DEF Dead
  <2> QED BY <2>1, <2>2, <2>3, <1>a, <1>b
<1>2. ASSUME NEW j \in Jobs, Over(j),
             jobs[j].state = "completed" => now - media[j].finished > ArtifactTtl
      PROVE  Late(j)
  <2>1. Over(j)'
    BY <1>2, Lasting
  <2>2. ASSUME jobs'[j].state = "completed" PROVE now' - media'[j].finished > ArtifactTtl
    <3>1. jobs[j].state = "completed"
      BY <2>2, <1>2, Lasting DEF Over, IsTerminal, TerminalStates
    <3>2. media'[j].finished = media[j].finished
      BY <2>2, <3>1, MediaSteps DEF IsLive
    <3> QED BY <3>1, <3>2, <1>2, <1>a, <1>t, TtlAssumption DEF MediaRow
  <2> QED BY <2>1, <2>2
<1>3. cleaner.st = "expiring" => \A j \in cleaner.todo : Late(j)
  BY <1>b, <1>t, <1>2
<1> HIDE DEF Late, Gone
<1>4. ASSUME UNCHANGED cleaner PROVE Cleaning
  BY <1>1, <1>3, <1>4
<1>5. ASSUME cleaner' = IdleCleaner PROVE Cleaning
  BY <1>5, <1>t DEF IdleCleaner
<1>6. ASSUME NEW j \in Jobs, cleaner' = Skipped(j) PROVE Cleaning
  <2>1. /\ cleaner'.st = cleaner.st /\ cleaner'.at = cleaner.at /\ cleaner'.cur = NoJob
        /\ cleaner'.todo \subseteq cleaner.todo /\ ~cleaner'.aged
    BY <1>6, <1>a DEF Skipped, CleanerRow
  <2> QED BY <2>1, <1>1, <1>3
<1>7. ASSUME UNCHANGED settling PROVE Settled
  BY <1>7, <1>a, <1>b, Lasting
<1>c. ASSUME NEW j \in Jobs, JobStep(j) PROVE Settled /\ Cleaning
  <2>1. CASE Result(j)
    <3>1. jobs'[j].state \in TerminalStates /\ jobs[j].created # 0
      <4>1. /\ jobs'[j] \in {Complete(jobs[j], jobs[j].lease),
                             MarkCancelled(jobs[j], jobs[j].lease),
                             Fail(jobs[j], jobs[j].lease)}
            /\ jobs[j].state = "in_progress"
        BY <2>1, <1>a DEF Result, Ended
      <4>2. jobs[j].created # 0
        BY <4>1 DEF FilesInv, RowFine, AbsentRow
      <4>3. jobs[j] \in Row
        BY <1>a
      <4> QED BY <4>1, <4>2, <4>3 DEF Complete, MarkCancelled, Fail, Finished, Owned, Holds,
                 TerminalStates, Row
    <3>2. Over(j)'
      BY <3>1, Lasting DEF Over, IsTerminal
    <3>3. settling' = settling \cup {j} /\ cleaner' = cleaner
      BY <2>1 DEF Result
    <3> QED BY <3>2, <3>3, <1>4, <1>a, <1>b, Lasting
  <2>2. CASE InputRemoved(j)
    <3>1. settling' \subseteq settling /\ cleaner' = cleaner
      BY <2>2 DEF InputRemoved
    <3> QED BY <3>1, <1>4, <1>a, <1>b, Lasting
  <2>3. CASE SubmitBegin(j) \/ SubmitCommit(j) \/ (\E p \in Pods : Dispatch(j, p)) \/ Requeued(j)
             \/ Withdrawn(j) \/ Reaped(j)
    <3>1. UNCHANGED <<settling, cleaner>>
      BY <2>3 DEF SubmitBegin, SubmitCommit, Dispatch, Requeued, Withdrawn, Reaped
    <3> QED BY <3>1, <1>4, <1>7
  <2> QED BY <1>c, <2>1, <2>2, <2>3 DEF JobStep
<1>d. ASSUME NEW u \in Uploads, UploadStep(u) PROVE Settled /\ Cleaning
  <2>1. UNCHANGED <<settling, cleaner>>
    BY <1>d DEF UploadStep, UploadBegin, UploadOpen, UploadChunk, UploadBroken, UploadStored,
                UploadMissing, UploadRejected
  <2> QED BY <2>1, <1>4, <1>7
<1>e. ASSUME CleanStep PROVE Settled /\ Cleaning
  <2>s. Settled
    <3>1. UNCHANGED settling
      BY <1>e DEF CleanStep, CleanBegin, ReadDir, Purge, ExpireRemove, ExpireRecord, OrphanCheck,
                  OrphanStat, OrphanRemove
    <3> QED BY <3>1, <1>7
  <2>1. CASE CleanBegin
    <3>1. /\ cleaner'.st = "expiring" /\ cleaner'.at = now /\ cleaner'.cur = NoJob /\ ~cleaner'.aged
          /\ cleaner'.todo = {j \in Jobs : HasRow(j) /\ Expired(media[j])}
      BY <2>1 DEF CleanBegin, IdleCleaner
    <3>2. ASSUME NEW j \in cleaner'.todo PROVE Late(j) /\ jobs'[j].created # 0
      <4>1. j \in Jobs /\ jobs[j].state = "completed" /\ now - media[j].finished > ArtifactTtl
        <5>1. j \in Jobs /\ media[j].clip # 0 /\ media[j].finished < now - ArtifactTtl
          BY <3>1, <3>2 DEF Expired
        <5>2. jobs[j].state = "completed"
          BY <5>1 DEF FilesInv, MediaFine
        <5> QED BY <5>1, <5>2, <1>a, TtlAssumption DEF MediaRow
      <4>2. Over(j)
        BY <4>1 DEF FilesInv, RowFine, AbsentRow, Over, IsTerminal, TerminalStates
      <4> QED BY <4>1, <4>2, <1>2, Lasting DEF Over
    <3> QED BY <2>s, <3>1, <3>2, <1>t
  <2>2. CASE ReadDir
    <3>1. /\ cleaner'.st \in {"inputs", "artifacts"} /\ cleaner'.at = cleaner.at
          /\ cleaner'.cur = cleaner.cur
          /\ cleaner'.aged = cleaner.aged /\ cleaner.todo = {} /\ jobs' = jobs
          /\ \A j \in cleaner'.todo : j \in Jobs /\ (disk[j].input # 0 \/ disk[j].dir # 0)
      BY <2>2, <1>a DEF ReadDir, CleanerRow
    <3>2. \A j \in cleaner'.todo : jobs'[j].created # 0
      BY <3>1 DEF FilesInv, DiskFine, EmptyDisk
    <3> QED BY <2>s, <3>1, <3>2, <1>1, <1>a
  <2>3. CASE Purge
    BY <2>s, <2>3, <1>5 DEF Purge
  <2>4. ASSUME NEW j \in Jobs, ExpireRemove(j) PROVE Cleaning
    <3>1. /\ cleaner'.st = cleaner.st /\ cleaner'.at = cleaner.at /\ cleaner'.todo = cleaner.todo
          /\ cleaner'.aged = cleaner.aged /\ cleaner.st = "expiring" /\ cleaner.cur = NoJob
      BY <2>4, <1>a DEF ExpireRemove, CleanerRow
    <3> QED BY <3>1, <1>1, <1>3
  <2>5. ASSUME NEW j \in Jobs, OrphanCheck(j) PROVE Cleaning
    <3>1. CASE HasRow(j)
      BY <3>1, <2>5, <1>6 DEF OrphanCheck
    <3>2. CASE ~HasRow(j)
      <4>1. /\ cleaner'.st = cleaner.st /\ cleaner'.at = cleaner.at /\ cleaner'.todo = cleaner.todo
            /\ cleaner'.aged = cleaner.aged /\ cleaner.st \in {"inputs", "artifacts"}
            /\ cleaner.cur = NoJob
            /\ cleaner'.cur = j /\ jobs' = jobs /\ j \in cleaner.todo
        BY <3>2, <2>5, <1>a DEF OrphanCheck, CleanerRow
      <4>2. jobs[j].created # 0 /\ jobs[j].state \in {"absent", "writing"}
        BY <3>2, <4>1, <1>a, <1>b DEF HasRow, Row, RowStates
      <4>3. jobs[j].state = "writing" => cleaner.at <= jobs[j].created + RequestTime
        <5>1. jobs[j].state = "writing" => now <= jobs[j].created + RequestTime
          BY DEF FilesInv, RowFine
        <5> QED BY <5>1, <1>a, <1>b, <1>t, TtlAssumption DEF Row
      <4> QED BY <4>1, <4>2, <4>3, <1>1 DEF Gone
    <3> QED BY <3>1, <3>2
  <2>6. ASSUME NEW j \in Jobs, OrphanStat(j) PROVE Cleaning
    <3> DEFINE mtime == IF cleaner.st = "inputs" THEN disk[j].input ELSE disk[j].dir
    <3>1. CASE mtime = 0 \/ cleaner.at - mtime < ArtifactTtl
      BY <3>1, <2>6, <1>6 DEF OrphanStat
    <3>2. CASE ~(mtime = 0 \/ cleaner.at - mtime < ArtifactTtl)
      <4>1. /\ cleaner'.st = cleaner.st /\ cleaner'.at = cleaner.at /\ cleaner'.todo = cleaner.todo
            /\ cleaner.st \in {"inputs", "artifacts"} /\ cleaner.cur = j /\ cleaner'.cur = j
            /\ jobs' = jobs
        BY <3>2, <2>6, <1>a DEF OrphanStat, CleanerRow
      <4>2. mtime \in Nat /\ jobs[j].created \in Nat /\ mtime >= jobs[j].created
        <5>1. disk[j].input \in Nat /\ disk[j].dir \in Nat /\ jobs[j].created \in Nat
          BY <1>a DEF DiskRow, Row
        <5>2. disk[j].input \in {0, jobs[j].created}
                /\ (disk[j].dir # 0 => disk[j].dir >= jobs[j].created)
          BY DEF FilesInv, DiskFine
        <5> QED BY <5>1, <5>2, <3>2
      <4>3. ~(cleaner.at <= jobs[j].created + RequestTime)
        <5> HIDE DEF mtime
        <5> QED BY <4>2, <3>2, <1>t, TtlAssumption
      <4>4. Dead(j)
        BY <4>1, <4>3, <1>b, NullAssumption
      <4> QED BY <4>1, <4>4, <1>1, NullAssumption DEF Gone, Dead
    <3> QED BY <3>1, <3>2
  <2>7. ASSUME NEW j \in Jobs, ExpireRecord(j) \/ OrphanRemove(j) PROVE Cleaning
    BY <2>7, <1>6 DEF ExpireRecord, OrphanRemove
  <2> HIDE DEF Settled, Cleaning
  <2> QED BY <1>e, <2>s, <2>1, <2>2, <2>3, <2>4, <2>5, <2>6, <2>7 DEF CleanStep
<1>f. ASSUME Restart PROVE Settled /\ Cleaning
  BY <1>f, <1>5 DEF Restart
<1>g. ASSUME Tick \/ UNCHANGED filesVars PROVE Settled /\ Cleaning
  <2>1. UNCHANGED <<settling, cleaner>>
    BY <1>g DEF Tick, filesVars
  <2> QED BY <2>1, <1>4, <1>7
<1> HIDE DEF Settled, Cleaning
<1> QED BY <1>c, <1>d, <1>e, <1>f, <1>g DEF FilesNext

\* A handler ends, begins, or goes on with the job and the lease it began with.
LEMMA UploadSteps ==
  ASSUME FilesInv, [FilesNext]_filesVars, NEW v \in Uploads
  PROVE  \/ uploads'[v].st = "idle" /\ uploads'[v].job = NoJob
         \/ \E i \in Jobs, intact \in BOOLEAN, heard \in BOOLEAN : UploadBegin(v, i, intact, heard)
         \/ /\ uploads[v].st # "idle" /\ uploads'[v].job = uploads[v].job
            /\ uploads'[v].lease = uploads[v].lease /\ uploads'[v].intact = uploads[v].intact
            /\ \/ uploads'[v].st = uploads[v].st
               \/ UploadOpen(v) /\ uploads'[v].st = "writing"
               \/ uploads'[v].st = "rejecting" /\ uploads[v].job \in rejected'
<1> DEFINE Ends == uploads'[v].st = "idle" /\ uploads'[v].job = NoJob
           Begins == \E i \in Jobs, intact \in BOOLEAN, heard \in BOOLEAN :
                       UploadBegin(v, i, intact, heard)
           Stays == /\ uploads'[v].job = uploads[v].job /\ uploads'[v].lease = uploads[v].lease
                    /\ uploads'[v].intact = uploads[v].intact
                    /\ uploads'[v].st = uploads[v].st
           Moves == /\ uploads[v].st # "idle" /\ uploads'[v].job = uploads[v].job
                    /\ uploads'[v].lease = uploads[v].lease
                    /\ uploads'[v].intact = uploads[v].intact
                    /\ \/ UploadOpen(v) /\ uploads'[v].st = "writing"
                       \/ uploads'[v].st = "rejecting" /\ uploads[v].job \in rejected'
<1>a. /\ uploads \in [Uploads -> UploadRow] /\ uploads[v] \in UploadRow
      /\ uploads[v].st = "idle" => uploads[v].job = NoJob
  BY Typed DEF FilesInv, FilesTyped, UploadsFine
<1>b. Stays => Ends \/ uploads[v].st # "idle"
  BY <1>a
<1>s. SUFFICES Ends \/ Begins \/ Stays \/ Moves
  BY <1>b
<1>e. ASSUME uploads'[v] = IdleUpload PROVE Ends
  BY <1>e, Initials
<1>1. ASSUME uploads' = uploads PROVE Stays
  BY <1>1
<1>2. ASSUME NEW j, Removed(j) PROVE Stays
  BY <1>2, <1>a DEF Removed, UploadRow
<1>k. ASSUME NEW j, NEW w \in Uploads,
             w = v => Ends,
             w # v => uploads'[v] \in {uploads[v], Unlinked(j)[v], Renamed(j)[v],
                                       [uploads[v] EXCEPT !.at = "gone"]}
      PROVE  Ends \/ Stays
  <2>1. ASSUME uploads'[v] \in {uploads[v], Unlinked(j)[v], Renamed(j)[v],
                                 [uploads[v] EXCEPT !.at = "gone"]}
        PROVE  Stays
    BY <2>1, <1>a DEF Unlinked, Renamed, UploadRow
  <2> QED BY <2>1, <1>k
<1>3. ASSUME NEW u \in Uploads, UploadStep(u) PROVE Ends \/ Begins \/ Stays \/ Moves
  <2> DEFINE j == uploads[u].job
  <2>1. ASSUME NEW i \in Jobs, NEW intact \in BOOLEAN, NEW heard \in BOOLEAN,
               UploadBegin(u, i, intact, heard)
        PROVE  Begins \/ Stays
    <3>1. CASE u = v
      BY <2>1, <3>1
    <3>2. CASE u # v
      BY <2>1, <3>2, <1>a DEF UploadBegin, UploadRow
    <3> QED BY <3>1, <3>2
  <2>2. ASSUME UploadOpen(u) PROVE Stays \/ Moves
    <3>1. CASE u = v
      BY <2>2, <3>1, <1>a DEF UploadOpen, UploadRow
    <3>2. CASE u # v
      BY <2>2, <3>2, <1>a DEF UploadOpen
    <3> QED BY <3>1, <3>2
  <2>3. ASSUME UploadChunk(u) PROVE Stays
    BY <2>3 DEF UploadChunk
  <2>4. ASSUME UploadBroken(u) PROVE Ends \/ Stays
    <3>1. /\ u = v => uploads'[v] = IdleUpload
          /\ u # v => uploads'[v] = Unlinked(j)[v]
      BY <2>4 DEF UploadBroken, Unlinked
    <3> QED BY <3>1, <1>e, <1>k
  <2>5. ASSUME UploadStored(u) PROVE Ends \/ Stays \/ Moves
    <3>1. CASE u # v
      <4>1. uploads'[v] = Renamed(j)[v]
        BY <2>5, <3>1 DEF UploadStored, Renamed
      <4> QED BY <4>1, <3>1, <1>k
    <3>2. CASE u = v /\ uploads[u].intact
      BY <2>5, <3>2, <1>e DEF UploadStored, Renamed
    <3>3. CASE u = v /\ ~uploads[u].intact
      <4>1. uploads'[v] = [Renamed(j)[v] EXCEPT !.st = "rejecting"] /\ j \in rejected'
              /\ uploads[v].st = "writing"
        BY <2>5, <3>3 DEF UploadStored, Renamed
      <4> QED BY <4>1, <3>3, <1>a DEF Renamed, UploadRow
    <3> QED BY <3>1, <3>2, <3>3
  <2>6. ASSUME UploadMissing(u) PROVE Ends \/ Stays
    BY <2>6, <1>a, <1>e DEF UploadMissing
  <2>7. ASSUME UploadRejected(u) PROVE Ends \/ Stays
    <3>1. /\ u = v => uploads'[v] = IdleUpload
          /\ u # v => uploads'[v] \in {uploads[v], [uploads[v] EXCEPT !.at = "gone"]}
      BY <2>7 DEF UploadRejected
    <3> QED BY <3>1, <1>e, <1>k
  <2> HIDE DEF Ends, Begins, Stays, Moves
  <2> QED BY <1>3, <2>1, <2>2, <2>3, <2>4, <2>5, <2>6, <2>7 DEF UploadStep
<1>4. ASSUME CleanStep PROVE Stays
  BY <1>4, <1>1, <1>2 DEF CleanStep, CleanBegin, ReadDir, Purge, ExpireRemove, ExpireRecord,
                          OrphanCheck, OrphanStat, OrphanRemove
<1>5. ASSUME Restart PROVE Ends
  BY <1>5, <1>e DEF Restart
<1>6. ASSUME NEW j \in Jobs, JobStep(j) PROVE Stays
  BY <1>6, <1>1 DEF JobStep, SubmitBegin, SubmitCommit, Dispatch, Withdrawn, Reaped, Requeued,
     Result, InputRemoved
<1>7. ASSUME Tick \/ UNCHANGED filesVars PROVE Stays
  BY <1>7, <1>1 DEF Tick, filesVars
<1> HIDE DEF Ends, Begins, Stays, Moves
<1> QED BY <1>3, <1>4, <1>5, <1>6, <1>7 DEF FilesNext

\* A request begins under the lease of a job in progress.  Beside others that are
\* in progress it leaves the uploads of the job untangled only as their retry.
LEMMA BeginsFine ==
  ASSUME FilesInv, NEW u \in Uploads, NEW i \in Jobs, NEW intact \in BOOLEAN, NEW heard \in BOOLEAN,
         UploadBegin(u, i, intact, heard)
  PROVE  /\ uploads'[u].st = "opening" /\ uploads'[u].job = i
           /\ uploads'[u].lease = jobs[i].attempts
           /\ uploads'[u].intact = intact /\ uploads'[u].heard = heard
         /\ jobs[i].attempts \in Leases /\ jobs[i].created # 0 /\ jobs[i].state = "in_progress"
         /\ jobs' = jobs /\ disk' = disk /\ answered' = answered /\ uploads[u].st = "idle"
         /\ heard => jobs[i].attempts \notin answered[i]
         /\ \A v \in Uploads \ {u} :
              /\ uploads'[v].job = uploads[v].job /\ uploads'[v].lease = uploads[v].lease
              /\ uploads'[v].intact = uploads[v].intact /\ uploads'[v].st = uploads[v].st
              /\ uploads'[v].at = uploads[v].at /\ (uploads'[v].heard => uploads[v].heard)
              /\ heard /\ uploads[v].job = i /\ uploads[v].lease = jobs[i].attempts
                 => ~uploads'[v].heard
         /\ i \notin tangled' =>
              \A v \in Sending(i) : /\ uploads[v].lease = jobs[i].attempts /\ uploads[v].intact
                                    /\ uploads[v].st = "writing" /\ intact /\ heard
<1>1. jobs[i].state = "in_progress" /\ jobs[i] \in Row /\ RowFine(jobs[i])
  BY DEF UploadBegin, FilesInv, FilesOK
<1>2. jobs[i].attempts \in Leases /\ jobs[i].created # 0 /\ jobs[i].lease = jobs[i].attempts
  BY <1>1, AttemptsAssumption DEF RowFine, AbsentRow, Row, Leases
<1>3. ASSUME NEW v \in Uploads \ {u}
      PROVE  /\ uploads'[v].job = uploads[v].job /\ uploads'[v].lease = uploads[v].lease
             /\ uploads'[v].intact = uploads[v].intact /\ uploads'[v].st = uploads[v].st
             /\ uploads'[v].at = uploads[v].at /\ (uploads'[v].heard => uploads[v].heard)
             /\ heard /\ uploads[v].job = i /\ uploads[v].lease = jobs[i].lease
                => ~uploads'[v].heard
  <2>1. uploads[v] \in UploadRow
    BY Typed DEF FilesInv, FilesTyped
  <2>2. uploads'[v] = IF heard /\ uploads[v].job = i /\ uploads[v].lease = jobs[i].lease
                      THEN [uploads[v] EXCEPT !.heard = FALSE] ELSE uploads[v]
    BY DEF UploadBegin
  <2> QED BY <2>1, <2>2 DEF UploadRow
<1>4. uploads'[u] = [st |-> "opening", job |-> i, lease |-> jobs[i].lease, intact |-> intact,
                     heard |-> heard, at |-> "none", since |-> now]
  BY DEF UploadBegin
<1>5. i \notin tangled' =>
        \A v \in Sending(i) : /\ uploads[v].lease = jobs[i].lease /\ uploads[v].intact
                              /\ uploads[v].st = "writing" /\ intact /\ heard
  BY DEF UploadBegin
<1>6. /\ jobs' = jobs /\ disk' = disk /\ answered' = answered /\ uploads[u].st = "idle"
      /\ heard => jobs[i].lease \notin answered[i]
  BY DEF UploadBegin
<1> QED BY <1>1, <1>2, <1>3, <1>4, <1>5, <1>6

\* An upload in progress keeps a lease that its job has had.
LEMMA NextUploadsFine ==
  ASSUME FilesInv, [FilesNext]_filesVars
  PROVE  UploadsFine'
<1> SUFFICES ASSUME NEW v \in Uploads
             PROVE  IF uploads'[v].st = "idle" THEN uploads'[v].job = NoJob
                    ELSE LET j == uploads'[v].job IN
                         /\ j \in Jobs /\ uploads'[v].lease \in Leases /\ jobs'[j].created # 0
                         /\ jobs'[j].state # "absent" => uploads'[v].lease <= jobs'[j].attempts
                         /\ uploads'[v].st = "rejecting" => j \in rejected'
  BY DEF UploadsFine
<1>a. /\ jobs \in [Jobs -> Row] /\ jobs' \in [Jobs -> Row] /\ uploads' \in [Uploads -> UploadRow]
      /\ rejected \subseteq rejected'
  BY NextFilesOK, RowSteps, Typed, HistorySteps DEF FilesInv, FilesOK, UploadRow
<1>b. IF uploads[v].st = "idle" THEN uploads[v].job = NoJob
      ELSE LET j == uploads[v].job IN
           /\ j \in Jobs /\ uploads[v].lease \in Leases /\ jobs[j].created # 0
           /\ jobs[j].state # "absent" => uploads[v].lease <= jobs[j].attempts
           /\ uploads[v].st = "rejecting" => j \in rejected
  BY DEF FilesInv, UploadsFine
<1>1. CASE uploads'[v].st = "idle" /\ uploads'[v].job = NoJob
  BY <1>1
<1>2. ASSUME NEW i \in Jobs, NEW intact \in BOOLEAN, NEW heard \in BOOLEAN,
             UploadBegin(v, i, intact, heard)
      PROVE  LET j == uploads'[v].job IN
             /\ j \in Jobs /\ uploads'[v].lease \in Leases /\ jobs'[j].created # 0
             /\ uploads'[v].lease <= jobs'[j].attempts /\ uploads'[v].st = "opening"
  BY <1>2, BeginsFine DEF Leases
<1>3. CASE /\ uploads[v].st # "idle" /\ uploads'[v].job = uploads[v].job
           /\ uploads'[v].lease = uploads[v].lease
           /\ \/ uploads'[v].st = uploads[v].st
              \/ uploads'[v].st = "writing"
              \/ uploads'[v].st = "rejecting" /\ uploads[v].job \in rejected'
  <2> DEFINE j == uploads[v].job
  <2>1. j \in Jobs /\ jobs'[j].created # 0
    BY <1>3, <1>b, Lasting
  <2>2. ASSUME jobs'[j].state # "absent" PROVE uploads'[v].lease <= jobs'[j].attempts
    <3>1. jobs[j].state # "absent" /\ jobs[j].attempts <= jobs'[j].attempts
      BY <2>1, <2>2, <1>3, <1>b, Lasting
    <3>2. uploads[v].lease \in Nat /\ jobs[j].attempts \in Nat /\ jobs'[j].attempts \in Nat
      BY <2>1, <1>3, <1>a, <1>b DEF Leases, Row
    <3> QED BY <3>1, <3>2, <1>3, <1>b
  <2> QED BY <2>1, <2>2, <1>3, <1>a, <1>b
<1> QED BY <1>1, <1>2, <1>3, UploadSteps

-----------------------------------------------------------------------------
(* The uploads of one job *)

\* The uploads of a job, its part file and its clip stay as they are.
Still(j) ==
  /\ disk'[j].part = disk[j].part /\ disk'[j].clip = disk[j].clip /\ answered'[j] = answered[j]
  /\ \A v \in Uploads : uploads[v].job = j \/ uploads'[v].job = j => uploads'[v] = uploads[v]

\* What is known of every upload, whichever step is looked at.
LEMMA UploadFacts ==
  ASSUME FilesInv
  PROVE  /\ uploads \in [Uploads -> UploadRow] /\ disk \in [Jobs -> DiskRow]
         /\ answered \in [Jobs -> SUBSET Leases]
         /\ \A v \in Uploads : uploads[v].st = "idle" => uploads[v].job = NoJob
         /\ \A v \in Uploads : uploads[v].st # "idle" => uploads[v].job \in Jobs
         /\ \A v \in Uploads : uploads[v].job \in Jobs => uploads[v].st # "idle"
BY Typed, NullAssumption DEF FilesInv, FilesTyped, UploadsFine

\* A handler touches neither the files nor the uploads of another job.
LEMMA OthersStill ==
  ASSUME FilesInv, NEW j \in Jobs, NEW u \in Uploads, Handled(u), uploads[u].job # j
  PROVE  Still(j)
<1> DEFINE i == uploads[u].job
<1>1. /\ uploads \in [Uploads -> UploadRow] /\ disk \in [Jobs -> DiskRow] /\ i \in Jobs
      /\ answered \in [Jobs -> SUBSET Leases]
  BY UploadFacts DEF Handled, UploadOpen, UploadChunk, UploadBroken, UploadStored,
     UploadMissing, UploadRejected
<1>2. disk'[j] = disk[j] /\ answered'[j] = answered[j]
  BY <1>1 DEF Handled, UploadOpen, UploadChunk, UploadBroken, UploadStored, UploadMissing,
     UploadRejected
<1>3. ASSUME NEW v \in Uploads \ {u}
      PROVE  /\ uploads'[v].job = uploads[v].job
             /\ uploads[v].job = j => uploads'[v] = uploads[v]
  <2>0. uploads[v] \in UploadRow /\ v # u
    BY <1>1
  <2>1. CASE UploadOpen(u) \/ UploadChunk(u) \/ UploadMissing(u)
    BY <2>0, <2>1, <1>1 DEF UploadOpen, UploadChunk, UploadMissing
  <2>2. CASE UploadBroken(u)
    BY <2>0, <2>2, <1>1 DEF UploadBroken, Unlinked, UploadRow
  <2>3. CASE UploadStored(u)
    BY <2>0, <2>3, <1>1 DEF UploadStored, Renamed, UploadRow
  <2>4. CASE UploadRejected(u)
    BY <2>0, <2>4, <1>1 DEF UploadRejected, UploadRow
  <2> QED BY <2>1, <2>2, <2>3, <2>4 DEF Handled
<1>4. uploads'[u].job # j
  <2>0. uploads[u] \in UploadRow /\ NoJob # j
    BY <1>1, NullAssumption
  <2>1. CASE UploadOpen(u) \/ UploadChunk(u)
    BY <2>0, <2>1, <1>1 DEF UploadOpen, UploadChunk, UploadRow
  <2>2. CASE UploadBroken(u) \/ UploadMissing(u) \/ UploadRejected(u)
    BY <2>0, <2>2, <1>1, Initials DEF UploadBroken, Unlinked, UploadMissing, UploadRejected
  <2>3. CASE UploadStored(u)
    <3>1. Renamed(i)[u] \in UploadRow /\ Renamed(i)[u].job = i
      BY <2>0 DEF Renamed, UploadRow
    <3>2. uploads'[u] = IdleUpload \/ uploads'[u] = [Renamed(i)[u] EXCEPT !.st = "rejecting"]
      BY <2>3 DEF UploadStored, Renamed
    <3> QED BY <2>0, <3>1, <3>2, Initials DEF UploadRow
  <2> QED BY <2>1, <2>2, <2>3 DEF Handled
<1> QED BY <1>2, <1>3, <1>4 DEF Still

\* The clip and the part file of a job change when it is swept, by its uploads and
\* at a restart.
LEMMA FileSteps ==
  ASSUME FilesInv, [FilesNext]_filesVars, NEW j \in Jobs
  PROVE  \/ Still(j) \/ Restart \/ Swept(j)
         \/ \E u \in Uploads, intact \in BOOLEAN, heard \in BOOLEAN : UploadBegin(u, j, intact, heard)
         \/ \E u \in Uploads : uploads[u].job = j /\ Handled(u)
<1>a. /\ uploads \in [Uploads -> UploadRow] /\ disk \in [Jobs -> DiskRow]
      /\ cleaner.cur # NoJob => cleaner.cur \in cleaner.todo
  BY UploadFacts, Typed DEF FilesInv, FilesTyped
<1>1. ASSUME NEW i \in Jobs, JobStep(i) PROVE Still(j)
  <2>1. uploads' = uploads /\ answered' = answered
    BY <1>1 DEF JobStep, SubmitBegin, SubmitCommit, Dispatch, Withdrawn, Reaped, Requeued,
       Result, InputRemoved
  <2>2. disk'[j].part = disk[j].part /\ disk'[j].clip = disk[j].clip
    BY <1>1, <1>a DEF JobStep, SubmitBegin, SubmitCommit, Dispatch, Ended, Withdrawn, Reaped, Requeued,
       Result, InputRemoved, DiskRow
  <2> QED BY <2>1, <2>2 DEF Still
<1>2. ASSUME NEW u \in Uploads, NEW i \in Jobs \ {j}, NEW intact \in BOOLEAN, NEW heard \in BOOLEAN,
             UploadBegin(u, i, intact, heard)
      PROVE  Still(j)
  <2>1. disk' = disk /\ answered' = answered /\ uploads[u].job # j /\ uploads'[u].job # j
    BY <1>2, UploadFacts, NullAssumption DEF UploadBegin
  <2>2. ASSUME NEW v \in Uploads \ {u}
        PROVE  /\ uploads'[v].job = uploads[v].job
               /\ uploads[v].job = j => uploads'[v] = uploads[v]
    <3>1. uploads[v] \in UploadRow
      BY <1>a
    <3> QED BY <1>2, <3>1 DEF UploadBegin, UploadRow
  <2> QED BY <2>1, <2>2 DEF Still
<1>3. ASSUME NEW i \in Jobs, ExpireRemove(i) \/ OrphanRemove(i) PROVE Still(j) \/ Swept(j)
  <2>1. CASE i = j
    BY <1>3, <2>1 DEF ExpireRemove, OrphanRemove, Swept
  <2>2. CASE i # j
    <3>1. disk'[j] = disk[j] /\ answered' = answered
      BY <1>3, <2>2, <1>a DEF ExpireRemove, OrphanRemove, Removed
    <3>2. ASSUME NEW v \in Uploads
          PROVE  /\ uploads'[v].job = uploads[v].job
                 /\ uploads[v].job = j => uploads'[v] = uploads[v]
      <4>1. uploads[v] \in UploadRow
        BY <1>a
      <4> QED BY <1>3, <2>2, <4>1 DEF ExpireRemove, OrphanRemove, Removed, UploadRow
    <3> QED BY <3>1, <3>2 DEF Still
  <2> QED BY <2>1, <2>2
<1>4. ASSUME CleanStep, \A i \in Jobs : ~(ExpireRemove(i) \/ OrphanRemove(i)) PROVE Still(j)
  BY <1>4 DEF CleanStep, CleanBegin, ReadDir, Purge, ExpireRecord, OrphanCheck, OrphanStat, Still
<1>5. ASSUME Tick \/ UNCHANGED filesVars PROVE Still(j)
  BY <1>5 DEF Tick, filesVars, Still
<1> QED BY <1>1, <1>2, <1>3, <1>4, <1>5, OthersStill DEF FilesNext, UploadStep, Handled

\* A sweep closes the files under the uploads of its job, and changes nothing else
\* of them.
LEMMA SweptUploads ==
  ASSUME FilesInv, NEW j \in Jobs, Swept(j), NEW v \in Uploads
  PROVE  /\ uploads'[v].job = uploads[v].job /\ uploads'[v].lease = uploads[v].lease
         /\ uploads'[v].intact = uploads[v].intact /\ uploads'[v].heard = uploads[v].heard
         /\ uploads'[v].st = uploads[v].st
         /\ uploads[v].job = j /\ uploads[v].at # "none" => uploads'[v].at = "gone"
<1>1. uploads[v] \in UploadRow
  BY UploadFacts
<1> QED BY <1>1 DEF Swept, Removed, UploadRow

\* What a handler of a job leaves of the job's uploads.
LEMMA HandledUploads ==
  ASSUME FilesInv, NEW j \in Jobs, NEW u \in Uploads, uploads[u].job = j, Handled(u),
         NEW v \in Uploads, uploads'[v].job = j
  PROVE  /\ uploads[v].job = j /\ uploads'[v].lease = uploads[v].lease
         /\ uploads'[v].intact = uploads[v].intact /\ uploads'[v].heard = uploads[v].heard
         /\ v # u => uploads'[v].st = uploads[v].st
         /\ v = u => \/ UploadOpen(u) /\ uploads'[v].st = "writing" /\ uploads'[v].at = "part"
                     \/ UploadChunk(u) /\ uploads'[v] = uploads[v]
                     \/ UploadStored(u) /\ ~uploads[v].intact /\ uploads'[v].st = "rejecting"
<1>1. uploads[v] \in UploadRow /\ uploads \in [Uploads -> UploadRow] /\ NoJob # j
  BY UploadFacts, NullAssumption
<1>2. CASE UploadOpen(u) \/ UploadChunk(u)
  BY <1>1, <1>2 DEF UploadOpen, UploadChunk, UploadRow
<1>3. CASE UploadBroken(u)
  BY <1>1, <1>3, Initials DEF UploadBroken, Unlinked, UploadRow
<1>4. CASE UploadStored(u)
  <2>1. /\ Renamed(j)[v] \in UploadRow /\ Renamed(j)[v].job = uploads[v].job
        /\ Renamed(j)[v].lease = uploads[v].lease /\ Renamed(j)[v].intact = uploads[v].intact
        /\ Renamed(j)[v].heard = uploads[v].heard /\ Renamed(j)[v].st = uploads[v].st
    BY <1>1 DEF Renamed, UploadRow
  <2>2. CASE v # u
    <3>1. uploads'[v] = Renamed(j)[v]
      BY <1>4, <2>2 DEF UploadStored, Renamed
    <3> QED BY <2>1, <2>2, <3>1
  <2>3. CASE v = u /\ ~uploads[u].intact
    <3>1. uploads'[v] = [Renamed(j)[v] EXCEPT !.st = "rejecting"]
      BY <1>4, <2>3 DEF UploadStored, Renamed
    <3> QED BY <1>4, <2>1, <2>3, <3>1 DEF UploadRow
  <2>4. CASE v = u /\ uploads[u].intact
    <3>1. uploads'[v] = IdleUpload
      BY <1>4, <2>4 DEF UploadStored, Renamed
    <3> QED BY <3>1, <1>1, Initials
  <2> QED BY <2>2, <2>3, <2>4
<1>5. CASE UploadMissing(u)
  BY <1>1, <1>5, Initials DEF UploadMissing
<1>6. CASE UploadRejected(u)
  BY <1>1, <1>6, Initials DEF UploadRejected, UploadRow
<1> QED BY <1>2, <1>3, <1>4, <1>5, <1>6 DEF Handled

\* Where a handler of a job leaves the file that another upload has open.
LEMMA HandledFiles ==
  ASSUME FilesInv, NEW j \in Jobs, NEW u \in Uploads, uploads[u].job = j,
         NEW v \in Uploads \ {u}, uploads[v].job = j
  PROVE  /\ UploadOpen(u) \/ UploadMissing(u) => uploads'[v].at = uploads[v].at
         /\ UploadBroken(u) => uploads'[v].at = IF uploads[v].at = "part" THEN "gone"
                                                ELSE uploads[v].at
         /\ UploadStored(u) => uploads'[v].at = CASE uploads[v].at = "part" -> "clip"
                                                  [] uploads[v].at = "clip" -> "gone"
                                                  [] OTHER -> uploads[v].at
<1>1. uploads[v] \in UploadRow /\ uploads \in [Uploads -> UploadRow]
  BY UploadFacts
<1>2. UploadOpen(u) \/ UploadMissing(u) => uploads'[v] = uploads[v]
  BY <1>1 DEF UploadOpen, UploadMissing
<1>3. UploadBroken(u) => uploads'[v] = Unlinked(j)[v]
  BY DEF UploadBroken, Unlinked
<1>4. UploadStored(u) => uploads'[v] = Renamed(j)[v]
  BY DEF UploadStored, Renamed
<1> QED BY <1>1, <1>2, <1>3, <1>4 DEF Unlinked, Renamed, UploadRow
\* A retry takes the agent's ear from the uploads before it, and any other upload
\* beside one in progress tangles them.
LEMMA NextRetriesFine ==
  ASSUME FilesInv, [FilesNext]_filesVars
  PROVE  RetriesFine'
<1> SUFFICES ASSUME NEW v \in Uploads, NEW j \in Jobs, j = uploads'[v].job
             PROVE  /\ uploads'[v].heard => uploads'[v].lease \notin answered'[j]
                    /\ \A w \in Uploads \ {v} : uploads'[w].job = j =>
                         (uploads'[v].heard /\ uploads'[w].heard
                          => uploads'[v].lease # uploads'[w].lease)
                    /\ j \notin tangled' =>
                         /\ \A l \in answered'[j] : l <= uploads'[v].lease
                         /\ \A w \in Uploads \ {v} : uploads'[w].job = j =>
                              /\ uploads'[w].lease = uploads'[v].lease /\ uploads'[w].intact
                              /\ uploads'[v].st = "opening" =>
                                   uploads'[v].heard /\ uploads'[w].st = "writing"
  BY DEF RetriesFine, Sending
<1> DEFINE Goal == /\ uploads'[v].heard => uploads'[v].lease \notin answered'[j]
                   /\ \A w \in Uploads \ {v} : uploads'[w].job = j =>
                        (uploads'[v].heard /\ uploads'[w].heard
                         => uploads'[v].lease # uploads'[w].lease)
                   /\ j \notin tangled' =>
                        /\ \A l \in answered'[j] : l <= uploads'[v].lease
                        /\ \A w \in Uploads \ {v} : uploads'[w].job = j =>
                             /\ uploads'[w].lease = uploads'[v].lease /\ uploads'[w].intact
                             /\ uploads'[v].st = "opening" =>
                                  uploads'[v].heard /\ uploads'[w].st = "writing"
<1>a. j \notin tangled' => j \notin tangled
  BY HistorySteps
<1>b. \A x \in Uploads : uploads[x].job = j =>
        /\ uploads[x].heard => uploads[x].lease \notin answered[j]
        /\ \A w \in Uploads \ {x} : uploads[w].job = j =>
             (uploads[x].heard /\ uploads[w].heard => uploads[x].lease # uploads[w].lease)
        /\ j \notin tangled =>
             /\ \A l \in answered[j] : l <= uploads[x].lease
             /\ \A w \in Uploads \ {x} : uploads[w].job = j =>
                  /\ uploads[w].lease = uploads[x].lease /\ uploads[w].intact
                  /\ uploads[x].st = "opening" => uploads[x].heard /\ uploads[w].st = "writing"
  BY DEF FilesInv, RetriesFine, Sending
<1>1. CASE Still(j)
  <2>1. \A w \in Uploads : uploads'[w].job = j => uploads[w].job = j /\ uploads'[w] = uploads[w]
    BY <1>1 DEF Still
  <2>2. answered'[j] = answered[j]
    BY <1>1 DEF Still
  <2> QED BY <2>1, <2>2, <1>a, <1>b
<1>2. CASE Restart
  BY <1>2, Initials, NullAssumption DEF Restart
<1>3. CASE Swept(j)
  <2>1. answered' = answered
    BY <1>3 DEF Swept
  <2> QED BY <2>1, <1>3, <1>a, <1>b, SweptUploads
<1>4. ASSUME NEW u \in Uploads, NEW intact \in BOOLEAN, NEW heard \in BOOLEAN,
             UploadBegin(u, j, intact, heard)
      PROVE  Goal
  <2> DEFINE a == jobs[j].attempts
  <2>1. /\ uploads'[u].st = "opening" /\ uploads'[u].lease = a
        /\ uploads'[u].intact = intact /\ uploads'[u].heard = heard
        /\ answered' = answered /\ (heard => a \notin answered[j])
    BY <1>4, BeginsFine
  <2>2. \A w \in Uploads \ {u} :
          /\ uploads'[w].job = uploads[w].job /\ uploads'[w].lease = uploads[w].lease
          /\ uploads'[w].intact = uploads[w].intact /\ uploads'[w].st = uploads[w].st
          /\ uploads'[w].heard => uploads[w].heard
          /\ heard /\ uploads[w].job = j /\ uploads[w].lease = a => ~uploads'[w].heard
    BY <1>4, BeginsFine
  <2>3. ASSUME j \notin tangled', NEW w \in Uploads \ {u}, uploads[w].job = j
        PROVE  uploads[w].lease = a /\ uploads[w].intact /\ uploads[w].st = "writing"
                 /\ intact /\ heard
    BY <1>4, <2>3, BeginsFine DEF Sending
  <2>4. \A l \in answered[j] : l <= a
    BY <1>4, BeginsFine DEF FilesInv, MediaFine
  <2> HIDE DEF a
  <2>5. CASE v = u
    <3>1. \A w \in Uploads \ {v} : uploads'[w].job = j =>
            (uploads'[v].heard /\ uploads'[w].heard => uploads'[v].lease # uploads'[w].lease)
      BY <2>1, <2>2, <2>5
    <3>2. ASSUME j \notin tangled', NEW w \in Uploads \ {v}, uploads'[w].job = j
          PROVE  /\ uploads'[w].lease = uploads'[v].lease /\ uploads'[w].intact
                 /\ uploads'[v].heard /\ uploads'[w].st = "writing"
      BY <2>1, <2>2, <2>3, <2>5, <3>2
    <3> QED BY <2>1, <2>4, <2>5, <3>1, <3>2
  <2>6. CASE v # u
    <3>1. uploads[v].job = j
      BY <2>2, <2>6
    <3>2. uploads'[v].heard => uploads'[v].lease \notin answered'[j]
      BY <1>b, <2>1, <2>2, <2>6, <3>1
    <3>3. \A w \in Uploads \ {v} : uploads'[w].job = j =>
            (uploads'[v].heard /\ uploads'[w].heard => uploads'[v].lease # uploads'[w].lease)
      BY <1>b, <2>1, <2>2, <2>6, <3>1
    <3>4. ASSUME j \notin tangled'
          PROVE  /\ \A l \in answered'[j] : l <= uploads'[v].lease
                 /\ uploads'[v].st # "opening" /\ uploads'[v].lease = a
      BY <1>a, <1>b, <2>1, <2>2, <2>3, <2>6, <3>1, <3>4
    <3>5. ASSUME j \notin tangled', NEW w \in Uploads \ {v}, uploads'[w].job = j
          PROVE  uploads'[w].lease = a /\ uploads'[w].intact
      BY <2>1, <2>2, <2>3, <2>6, <3>1, <3>5
    <3> QED BY <3>2, <3>3, <3>4, <3>5
  <2> QED BY <2>5, <2>6
<1>5. ASSUME NEW u \in Uploads, uploads[u].job = j, Handled(u)
      PROVE  Goal
  <2>1. \A w \in Uploads : uploads'[w].job = j =>
          /\ uploads[w].job = j /\ uploads'[w].lease = uploads[w].lease
          /\ uploads'[w].intact = uploads[w].intact /\ uploads'[w].heard = uploads[w].heard
          /\ w # u => uploads'[w].st = uploads[w].st
          /\ w = u => \/ uploads'[w].st = "writing"
                      \/ UploadChunk(u) /\ uploads'[w] = uploads[w]
                      \/ ~uploads[w].intact
    BY <1>5, HandledUploads
  <2>2. UploadChunk(u) => uploads[u].st = "writing"
    BY DEF UploadChunk
  <2>3. \/ answered'[j] = answered[j]
        \/ /\ UploadStored(u) /\ uploads[u].intact /\ uploads[u].heard
           /\ answered'[j] = answered[j] \cup {uploads[u].lease} /\ uploads'[u].job # j
    <3>1. answered \in [Jobs -> SUBSET Leases] /\ NoJob # j
      BY UploadFacts, NullAssumption
    <3>2. CASE ~UploadStored(u)
      BY <1>5, <3>2 DEF Handled, UploadOpen, UploadChunk, UploadBroken, UploadMissing,
         UploadRejected
    <3>3. CASE UploadStored(u) /\ uploads[u].intact /\ uploads[u].heard
      <4>1. uploads'[u] = IdleUpload
        BY <3>3, UploadFacts DEF UploadStored, Renamed
      <4>2. answered'[j] = answered[j] \cup {uploads[u].lease}
        BY <1>5, <3>1, <3>3 DEF UploadStored
      <4> QED BY <4>1, <4>2, <3>1, <3>3, Initials
    <3>4. CASE UploadStored(u) /\ ~(uploads[u].intact /\ uploads[u].heard)
      BY <3>4 DEF UploadStored
    <3> QED BY <3>2, <3>3, <3>4
  <2>4. uploads[v].job = j /\ uploads'[v].lease = uploads[v].lease
          /\ uploads'[v].heard = uploads[v].heard
    BY <2>1
  <2>5. uploads'[v].heard => uploads'[v].lease \notin answered'[j]
    BY <1>5, <1>b, <2>3, <2>4
  <2>6. \A w \in Uploads \ {v} : uploads'[w].job = j =>
          (uploads'[v].heard /\ uploads'[w].heard => uploads'[v].lease # uploads'[w].lease)
    BY <1>b, <2>1, <2>4
  <2>7. ASSUME j \notin tangled' PROVE \A l \in answered'[j] : l <= uploads'[v].lease
    <3>1. v # u => uploads[u].lease = uploads[v].lease
      BY <1>5, <1>a, <1>b, <2>4, <2>7
    <3>2. \A l \in answered[j] : l <= uploads[v].lease
      BY <1>a, <1>b, <2>4, <2>7
    <3>3. uploads[v].lease \in Nat
      BY UploadFacts, AttemptsAssumption DEF UploadRow
    <3> QED BY <2>3, <2>4, <3>1, <3>2, <3>3
  <2>8. ASSUME j \notin tangled', NEW w \in Uploads \ {v}, uploads'[w].job = j
        PROVE  /\ uploads'[w].lease = uploads'[v].lease /\ uploads'[w].intact
               /\ uploads'[v].st = "opening" => uploads'[v].heard /\ uploads'[w].st = "writing"
    <3>1. /\ uploads[w].job = j /\ uploads'[w].lease = uploads[w].lease
          /\ uploads'[w].intact = uploads[w].intact
      BY <2>1, <2>8
    <3>2. /\ uploads[w].lease = uploads[v].lease /\ uploads[w].intact /\ uploads[v].intact
          /\ uploads[v].st = "opening" => uploads[v].heard /\ uploads[w].st = "writing"
      BY <1>a, <1>b, <2>4, <2>8, <3>1
    <3>3. uploads'[v].st = "opening" => v # u /\ uploads[v].st = "opening"
      BY <2>1, <2>2, <3>2
    <3>4. w # u => uploads'[w].st = uploads[w].st
      BY <2>1, <2>8
    <3>5. w = u /\ uploads[w].st = "writing" => uploads'[w].st = "writing"
      BY <2>1, <2>8, <3>2
    <3> QED BY <2>4, <3>1, <3>2, <3>3, <3>4, <3>5
  <2> QED BY <2>5, <2>6, <2>7, <2>8
<1> HIDE DEF Goal
<1>s. Goal
  BY <1>1, <1>2, <1>3, <1>4, <1>5, FileSteps DEF Goal
<1> QED BY <1>s DEF Goal

\* Finishing a file changes no byte of it.
LEMMA WrittenBytes ==
  ASSUME FilesInv, NEW u \in Uploads, uploads[u].job \in Jobs
  PROVE  LET d == disk[uploads[u].job] IN
         /\ Written(u).part.by = d.part.by /\ Written(u).clip.by = d.clip.by
         /\ d.clip.whole => Written(u).clip.whole
         /\ uploads[u].at # "part" => Written(u).part = d.part
         /\ uploads[u].at # "clip" => Written(u).clip = d.clip
<1> DEFINE d == disk[uploads[u].job]
           finish(f) == IF f.last = u THEN [f EXCEPT !.whole = TRUE] ELSE f
<1>1. d \in DiskRow /\ d.part \in File /\ d.clip \in File
  BY UploadFacts DEF DiskRow
<1>2. \A f \in File : finish(f).by = f.by /\ (f.whole => finish(f).whole)
  BY DEF File
<1>3. Written(u) = CASE uploads[u].at = "part" -> [d EXCEPT !.part = finish(@)]
                     [] uploads[u].at = "clip" -> [d EXCEPT !.clip = finish(@)]
                     [] OTHER -> d
  BY DEF Written
<1> HIDE DEF d, finish
<1>4. CASE uploads[u].at = "part"
  <2>1. Written(u) = [d EXCEPT !.part = finish(@)]
    BY <1>3, <1>4
  <2>2. Written(u).part = finish(d.part) /\ Written(u).clip = d.clip
    BY <1>1, <2>1 DEF DiskRow
  <2> QED BY <1>1, <1>2, <1>4, <2>2 DEF d
<1>5. CASE uploads[u].at = "clip"
  <2>1. Written(u) = [d EXCEPT !.clip = finish(@)]
    BY <1>3, <1>5
  <2>2. Written(u).part = d.part /\ Written(u).clip = finish(d.clip)
    BY <1>1, <2>1 DEF DiskRow
  <2> QED BY <1>1, <1>2, <1>5, <2>2 DEF d
<1>6. CASE uploads[u].at \notin {"part", "clip"}
  BY <1>3, <1>6 DEF d
<1> QED BY <1>4, <1>5, <1>6

\* What each handler leaves of the part file and the clip of its job.
LEMMA HandledDiskFiles ==
  ASSUME FilesInv, NEW j \in Jobs, NEW u \in Uploads, uploads[u].job = j
  PROVE  /\ UploadOpen(u) => /\ disk'[j].part = [by |-> {Label(u)}, last |-> u, whole |-> FALSE]
                             /\ disk'[j].clip = disk[j].clip
         /\ UploadBroken(u) => disk'[j].part = NoFile /\ disk'[j].clip = disk[j].clip
         /\ UploadStored(u) => disk'[j].part = NoFile /\ disk'[j].clip = Written(u).part
         /\ UploadMissing(u) => /\ disk'[j].part = NoFile /\ Written(u).part = NoFile
                                /\ disk'[j].clip = Written(u).clip
<1>1. disk \in [Jobs -> DiskRow] /\ disk[j] \in DiskRow /\ Written(u) \in DiskRow
  BY UploadFacts, WrittenIsDisk
<1>2. UploadOpen(u) => /\ disk'[j].part = [by |-> {Label(u)}, last |-> u, whole |-> FALSE]
                       /\ disk'[j].clip = disk[j].clip
  BY <1>1 DEF UploadOpen, DiskRow
<1>3. UploadBroken(u) => disk'[j].part = NoFile /\ disk'[j].clip = disk[j].clip
  BY <1>1 DEF UploadBroken, DiskRow
<1>4. UploadStored(u) => disk'[j].part = NoFile /\ disk'[j].clip = Written(u).part
  <2> DEFINE d == Written(u)
  <2>1. UploadStored(u) => disk'[j] = [d EXCEPT !.clip = d.part, !.part = NoFile, !.dir = now]
    BY <1>1 DEF UploadStored
  <2>2. d \in DiskRow
    BY <1>1
  <2> HIDE DEF d
  <2>3. UploadStored(u) => disk'[j].part = NoFile /\ disk'[j].clip = d.part
    BY <2>1, <2>2 DEF DiskRow
  <2> QED BY <2>3 DEF d
<1>5. UploadMissing(u) => disk'[j] = Written(u) /\ Written(u).part = NoFile
  BY <1>1 DEF UploadMissing
<1> QED BY <1>2, <1>3, <1>4, <1>5

\* No upload of a job that is neither tangled nor rejected puts a byte where it is
\* not already, and none is rejected.
LEMMA NoNewBytes ==
  ASSUME FilesInv, NEW u \in Uploads, uploads[u].job \in Jobs \ (tangled \cup rejected)
  PROVE  ~UploadChunk(u) /\ ~UploadRejected(u)
<1>1. ~UploadRejected(u)
  BY DEF FilesInv, UploadsFine, UploadRejected
<1>2. uploads[u].st = "writing" =>
        /\ uploads[u].at = "part" => disk[uploads[u].job].part.by = {Label(u)}
        /\ uploads[u].at = "clip" => disk[uploads[u].job].clip.by = {Label(u)}
  BY DEF FilesInv, PartsFine, Label
<1> QED BY <1>1, <1>2 DEF UploadChunk

\* A retry truncates the part file under the upload it repeats, which the agent no
\* longer hears, and their bytes are the same.
LEMMA NextPartsFine ==
  ASSUME FilesInv, [FilesNext]_filesVars
  PROVE  PartsFine'
<1> SUFFICES ASSUME NEW v \in Uploads, NEW j \in Jobs, j = uploads'[v].job,
                    j \notin tangled' \cup rejected', uploads'[v].st = "writing"
             PROVE  /\ uploads'[v].at # "none"
                    /\ uploads'[v].at = "part" => disk'[j].part.by = {Label(v)'}
                    /\ uploads'[v].at = "clip" =>
                         uploads'[v].intact /\ disk'[j].clip.by = {uploads'[v].lease}
                    /\ uploads'[v].heard \/ uploads'[v].lease \in answered'[j] =>
                         /\ uploads'[v].at = "part" =>
                              disk'[j].part = [by |-> {Label(v)'}, last |-> v, whole |-> FALSE]
                         /\ uploads'[v].at # "part" => disk'[j].part = NoFile
  BY DEF PartsFine
<1> DEFINE Goal == /\ uploads'[v].at # "none"
                   /\ uploads'[v].at = "part" => disk'[j].part.by = {Label(v)'}
                   /\ uploads'[v].at = "clip" =>
                        uploads'[v].intact /\ disk'[j].clip.by = {uploads'[v].lease}
                   /\ uploads'[v].heard \/ uploads'[v].lease \in answered'[j] =>
                        /\ uploads'[v].at = "part" =>
                             disk'[j].part = [by |-> {Label(v)'}, last |-> v, whole |-> FALSE]
                        /\ uploads'[v].at # "part" => disk'[j].part = NoFile
<1>a. j \notin tangled \cup rejected
  BY HistorySteps
<1>b. uploads[v].job = j /\ uploads[v].st = "writing" =>
        /\ uploads[v].at # "none"
        /\ uploads[v].at = "part" => disk[j].part.by = {Label(v)}
        /\ uploads[v].at = "clip" => uploads[v].intact /\ disk[j].clip.by = {uploads[v].lease}
        /\ uploads[v].heard \/ uploads[v].lease \in answered[j] =>
             /\ uploads[v].at = "part" =>
                  disk[j].part = [by |-> {Label(v)}, last |-> v, whole |-> FALSE]
             /\ uploads[v].at # "part" => disk[j].part = NoFile
  BY <1>a DEF FilesInv, PartsFine
<1>c. uploads'[v].lease = uploads[v].lease /\ uploads'[v].intact = uploads[v].intact
        => Label(v)' = Label(v)
  BY DEF Label
<1>1. CASE Still(j)
  BY <1>1, <1>b, <1>c DEF Still
<1>2. CASE Restart
  BY <1>2, Initials DEF Restart
<1>3. CASE Swept(j)
  <2>1. disk'[j].part = NoFile
    BY <1>3, SweptOver DEF EmptyDisk
  <2>2. uploads[v].job = j /\ uploads[v].st = "writing" /\ uploads'[v].at = "gone"
    BY <1>3, <1>b, SweptUploads
  <2> QED BY <2>1, <2>2
<1>4. ASSUME NEW u \in Uploads, NEW intact \in BOOLEAN, NEW heard \in BOOLEAN,
             UploadBegin(u, j, intact, heard)
      PROVE  Goal
  <2>1. v # u
    BY <1>4, BeginsFine
  <2>2. /\ uploads'[v].job = uploads[v].job /\ uploads'[v].lease = uploads[v].lease
        /\ uploads'[v].intact = uploads[v].intact /\ uploads'[v].st = uploads[v].st
        /\ uploads'[v].at = uploads[v].at /\ (uploads'[v].heard => uploads[v].heard)
    BY <1>4, <2>1, BeginsFine
  <2>3. disk' = disk /\ answered' = answered
    BY <1>4, BeginsFine
  <2> QED BY <2>2, <2>3, <1>b, <1>c
<1>5. ASSUME NEW u \in Uploads, uploads[u].job = j, Handled(u)
      PROVE  Goal
  <2>1. ~UploadChunk(u) /\ ~UploadRejected(u)
    BY <1>5, <1>a, NoNewBytes
  <2>2. /\ uploads[v].job = j /\ uploads'[v].lease = uploads[v].lease
        /\ uploads'[v].intact = uploads[v].intact /\ uploads'[v].heard = uploads[v].heard
        /\ v # u => uploads[v].st = "writing"
        /\ v = u => UploadOpen(u) /\ uploads'[v].at = "part"
    BY <1>5, <2>1, HandledUploads
  <2>3. CASE v = u
    <3>1. disk'[j].part = [by |-> {Label(v)'}, last |-> v, whole |-> FALSE]
      BY <1>5, <1>c, <2>2, <2>3, HandledDiskFiles
    <3> QED BY <2>2, <2>3, <3>1
  <2>4. CASE v # u
    <3>1. /\ uploads[u].lease = uploads[v].lease /\ uploads[u].intact /\ uploads[v].intact
          /\ uploads[u].st = "opening" => uploads[u].heard
          /\ uploads[u].heard => ~uploads[v].heard /\ uploads[u].lease \notin answered[j]
      BY <1>5, <1>a, <2>2, <2>4 DEF FilesInv, RetriesFine, Sending
    <3>2. Label(u) = uploads[v].lease /\ Label(v) = uploads[v].lease
      BY <3>1 DEF Label
    <3>3. Label(v)' = Label(v)
      BY <1>c, <2>2
    <3>4. CASE UploadOpen(u)
      <4>1. /\ uploads'[v].at = uploads[v].at /\ disk'[j].clip = disk[j].clip
            /\ disk'[j].part = [by |-> {Label(u)}, last |-> u, whole |-> FALSE]
        BY <1>5, <2>2, <2>4, <3>4, HandledFiles, HandledDiskFiles
      <4>2. disk'[j].part.by = {Label(v)}
        BY <4>1, <3>2
      <4>3. ~(uploads'[v].heard \/ uploads'[v].lease \in answered'[j])
        BY <2>2, <3>1, <3>4 DEF UploadOpen
      <4> QED BY <4>1, <4>2, <4>3, <1>b, <2>2, <2>4, <3>3
    <3>5. CASE UploadBroken(u)
      <4>1. /\ uploads'[v].at = IF uploads[v].at = "part" THEN "gone" ELSE uploads[v].at
            /\ disk'[j].part = NoFile /\ disk'[j].clip = disk[j].clip
        BY <1>5, <2>2, <2>4, <3>5, HandledFiles, HandledDiskFiles
      <4> QED BY <4>1, <1>b, <2>2, <2>4
    <3>6. CASE UploadStored(u)
      <4>1. /\ uploads'[v].at = CASE uploads[v].at = "part" -> "clip"
                                  [] uploads[v].at = "clip" -> "gone"
                                  [] OTHER -> uploads[v].at
            /\ disk'[j].part = NoFile /\ disk'[j].clip = Written(u).part
        BY <1>5, <2>2, <2>4, <3>6, HandledFiles, HandledDiskFiles
      <4>2. Written(u).part.by = disk[j].part.by
        BY <1>5, WrittenBytes
      <4>3. uploads'[v].at = "clip" => uploads[v].at = "part"
        BY <4>1
      <4>4. uploads'[v].at \notin {"none", "part"}
        BY <4>1, <1>b, <2>2, <2>4
      <4> QED BY <4>1, <4>2, <4>3, <4>4, <1>b, <2>2, <2>4, <3>1, <3>2
    <3>7. CASE UploadMissing(u)
      <4>1. /\ uploads'[v].at = uploads[v].at /\ disk'[j].part = NoFile
            /\ Written(u).part = NoFile /\ disk'[j].clip = Written(u).clip
        BY <1>5, <2>2, <2>4, <3>7, HandledFiles, HandledDiskFiles
      <4>2. disk[j].part.by = {} /\ disk'[j].clip.by = disk[j].clip.by
        BY <1>5, <4>1, WrittenBytes DEF NoFile
      <4>3. uploads[v].at # "part"
        BY <4>2, <1>b, <2>2, <2>4
      <4> QED BY <4>1, <4>2, <4>3, <1>b, <2>2, <2>4
    <3> QED BY <1>5, <2>1, <3>4, <3>5, <3>6, <3>7 DEF Handled
  <2> QED BY <2>3, <2>4
<1> HIDE DEF Goal
<1>s. Goal
  BY <1>1, <1>2, <1>3, <1>4, <1>5, FileSteps DEF Goal
<1> QED BY <1>s DEF Goal

\* What an upload whose lease is answered leaves as the clip.
LEMMA StoredClip ==
  ASSUME FilesInv, [FilesNext]_filesVars, NEW u \in Uploads, NEW j \in Jobs, uploads[u].job = j,
         UploadStored(u), j \notin tangled \cup rejected', jobs[j].state # "absent",
         jobs[j].attempts \in answered'[j]
  PROVE  disk'[j].clip.whole /\ disk'[j].clip.by = {jobs[j].attempts}
<1>a. /\ disk \in [Jobs -> DiskRow] /\ uploads[u].lease \in Nat /\ jobs[j].attempts \in Nat
      /\ uploads[u].st = "writing" /\ answered \in [Jobs -> SUBSET Leases]
  BY Typed DEF FilesInv, FilesTyped, FilesOK, UploadRow, Row, UploadStored
<1>b. j \notin rejected /\ uploads[u].intact
  BY DEF UploadStored
<1>c. \A l \in answered[j] : l <= uploads[u].lease
  BY DEF FilesInv, RetriesFine
<1>d. \/ answered'[j] = answered[j]
      \/ uploads[u].heard /\ answered'[j] = answered[j] \cup {uploads[u].lease}
  BY <1>a DEF UploadStored
<1>1. uploads[u].lease = jobs[j].attempts
  <2>1. uploads[u].lease <= jobs[j].attempts
    BY <1>a DEF FilesInv, UploadsFine
  <2>2. jobs[j].attempts \in answered[j] \/ jobs[j].attempts = uploads[u].lease
    BY <1>d
  <2> QED BY <2>1, <2>2, <1>a, <1>c
<1>e. /\ uploads[u].at = "part" =>
           disk[j].part = [by |-> {Label(u)}, last |-> u, whole |-> FALSE]
      /\ uploads[u].at # "part" => disk[j].part = NoFile
  <2>1. uploads[u].heard \/ uploads[u].lease \in answered[j]
    BY <1>d, <1>1
  <2> QED BY <2>1, <1>a, <1>b DEF FilesInv, PartsFine
<1>2. uploads[u].at = "part"
  <2> SUFFICES ASSUME uploads[u].at # "part", disk[j].part = NoFile PROVE FALSE
    BY <1>e
  <2>1. Written(u).part = disk[j].part
    BY WrittenBytes
  <2> QED BY <2>1 DEF UploadStored
<1>3. Written(u).part.whole /\ Written(u).part.by = {Label(u)}
  <2> DEFINE f == disk[j].part
  <2>1. f \in File /\ disk[j] \in DiskRow /\ f = [by |-> {Label(u)}, last |-> u, whole |-> FALSE]
    BY <1>a, <1>e, <1>2 DEF DiskRow
  <2>2. f.by = {Label(u)} /\ f.last = u
    <3> HIDE DEF f
    <3> QED BY <2>1
  <2>3. Written(u) = [disk[j] EXCEPT !.part = [f EXCEPT !.whole = TRUE]]
    BY <2>1, <2>2, <1>2 DEF Written, DiskRow
  <2>4. Written(u).part = [f EXCEPT !.whole = TRUE]
    BY <2>1, <2>3 DEF DiskRow
  <2> HIDE DEF f
  <2> QED BY <2>1, <2>2, <2>4 DEF File
<1>4. disk'[j].clip = Written(u).part
  BY HandledDiskFiles
<1> QED BY <1>1, <1>3, <1>4, <1>b DEF Label

\* A step that stores nothing leaves a clip that is served, sweeps it away with a job
\* whose time is over, and makes none.
LEMMA ClipSteps ==
  ASSUME FilesInv, [FilesNext]_filesVars, NEW j \in Jobs \ (tangled' \cup rejected'),
         \A u \in Uploads : uploads[u].job = j => ~UploadStored(u)
  PROVE  /\ \/ disk[j].clip.whole => disk'[j].clip.whole /\ disk'[j].clip.by = disk[j].clip.by
            \/ Swept(j)
         /\ disk[j].clip = NoFile \/ Swept(j) => disk'[j].clip = NoFile
<1> DEFINE Goal ==
      /\ \/ disk[j].clip.whole => disk'[j].clip.whole /\ disk'[j].clip.by = disk[j].clip.by
         \/ Swept(j)
      /\ disk[j].clip = NoFile \/ Swept(j) => disk'[j].clip = NoFile
<1>a. j \notin tangled \cup rejected
  BY HistorySteps
<1>1. ASSUME disk'[j].clip = disk[j].clip, ~Swept(j) PROVE Goal
  BY <1>1
<1>2. CASE Swept(j)
  <2>1. disk'[j].clip = NoFile
    BY <1>2, SweptOver DEF EmptyDisk
  <2> QED BY <1>2, <2>1
<1>3. CASE Restart /\ ~Swept(j)
  BY <1>3, <1>1 DEF Restart
<1>4. CASE Still(j) /\ ~Swept(j)
  BY <1>4, <1>1 DEF Still
<1>5. ASSUME NEW u \in Uploads, NEW intact \in BOOLEAN, NEW heard \in BOOLEAN,
             UploadBegin(u, j, intact, heard), ~Swept(j)
      PROVE  Goal
  BY <1>5, <1>1, BeginsFine
<1>6. ASSUME NEW u \in Uploads, uploads[u].job = j, Handled(u), ~Swept(j) PROVE Goal
  <2>1. UploadOpen(u) \/ UploadBroken(u) \/ UploadMissing(u)
    BY <1>6, <1>a, NoNewBytes DEF Handled
  <2>2. CASE UploadOpen(u) \/ UploadBroken(u)
    BY <2>2, <1>1, <1>6, HandledDiskFiles
  <2>3. CASE UploadMissing(u)
    <3>1. disk'[j].clip = Written(u).clip /\ uploads[u].st = "writing"
      BY <2>3, <1>6, HandledDiskFiles DEF UploadMissing
    <3>2. /\ disk[j].clip.whole =>
               disk'[j].clip.whole /\ disk'[j].clip.by = disk[j].clip.by
          /\ uploads[u].at # "clip" => disk'[j].clip = disk[j].clip
      BY <3>1, <1>6, WrittenBytes
    <3>3. uploads[u].at = "clip" => disk[j].clip.by # {}
      BY <3>1, <1>6, <1>a DEF FilesInv, PartsFine
    <3> QED BY <1>6, <3>2, <3>3 DEF NoFile
  <2> QED BY <2>1, <2>2, <2>3
<1> HIDE DEF Goal
<1>7. \/ Still(j) \/ Restart \/ Swept(j)
      \/ \E u \in Uploads, intact \in BOOLEAN, heard \in BOOLEAN : UploadBegin(u, j, intact, heard)
      \/ \E u \in Uploads : uploads[u].job = j /\ Handled(u)
  BY FileSteps
<1>8. CASE ~Swept(j)
  BY <1>3, <1>4, <1>5, <1>6, <1>7, <1>8 DEF Goal
<1> QED BY <1>2, <1>8

\* No step damages or removes a clip that was answered or is promised.
LEMMA NextClipsFine ==
  ASSUME FilesInv, [FilesNext]_filesVars
  PROVE  ClipsFine'
<1> DEFINE Needed(j) == \/ jobs[j].state = "in_progress" /\ jobs[j].attempts \in answered[j]
                        \/ Promised(j)
<1> SUFFICES ASSUME NEW j \in Jobs, j \notin tangled' \cup rejected'
             PROVE  /\ \/ jobs'[j].state = "in_progress" /\ jobs'[j].attempts \in answered'[j]
                       \/ jobs'[j].state = "completed" /\ now' - media'[j].finished <= ArtifactTtl
                       => disk'[j].clip.whole /\ disk'[j].clip.by = {jobs'[j].attempts}
                    /\ jobs'[j].state = "completed" =>
                         \/ disk'[j].clip = NoFile
                         \/ disk'[j].clip.whole /\ disk'[j].clip.by = {jobs'[j].attempts}
  BY DEF ClipsFine, Promised, Served
<1>a. /\ disk \in [Jobs -> DiskRow] /\ disk[j] \in DiskRow /\ jobs[j] \in Row /\ jobs'[j] \in Row
      /\ media[j] \in MediaRow /\ answered[j] \subseteq Leases
      /\ now \in Nat /\ now' \in Nat /\ now <= now' /\ jobs \in [Jobs -> Row]
  BY Typed, RowSteps, Clock DEF FilesInv, FilesTyped, FilesOK
<1>b. j \notin tangled \cup rejected
  BY HistorySteps
<1>c. /\ Needed(j) => disk[j].clip.whole /\ disk[j].clip.by = {jobs[j].attempts}
      /\ jobs[j].state = "completed" =>
           \/ disk[j].clip = NoFile
           \/ disk[j].clip.whole /\ disk[j].clip.by = {jobs[j].attempts}
  BY <1>b DEF FilesInv, ClipsFine, Served
<1>1. ASSUME NEW u \in Uploads, uploads[u].job = j, UploadStored(u),
             \/ jobs'[j].state = "in_progress" /\ jobs'[j].attempts \in answered'[j]
             \/ jobs'[j].state = "completed"
      PROVE  disk'[j].clip.whole /\ disk'[j].clip.by = {jobs'[j].attempts}
  <2>1. jobs' = jobs /\ media' = media
    BY <1>1 DEF UploadStored
  <2>2. jobs[j].attempts \in answered'[j]
    BY <1>1, <2>1, AnswerSteps DEF FilesInv, MediaFine
  <2> QED BY <1>1, <2>1, <2>2, <1>b, StoredClip
<1>2. ASSUME \A u \in Uploads : uploads[u].job = j => ~UploadStored(u)
      PROVE  /\ \/ jobs'[j].state = "in_progress" /\ jobs'[j].attempts \in answered'[j]
                \/ jobs'[j].state = "completed" /\ now' - media'[j].finished <= ArtifactTtl
                => disk'[j].clip.whole /\ disk'[j].clip.by = {jobs'[j].attempts}
             /\ jobs'[j].state = "completed" =>
                  \/ disk'[j].clip = NoFile
                  \/ disk'[j].clip.whole /\ disk'[j].clip.by = {jobs'[j].attempts}
  <2>1. answered'[j] = answered[j]
    BY <1>2, AnswerSteps
  <2>2. ASSUME \/ jobs'[j].state = "in_progress" /\ jobs'[j].attempts \in answered'[j]
               \/ jobs'[j].state = "completed" /\ now' - media'[j].finished <= ArtifactTtl
        PROVE  Needed(j) /\ jobs'[j].attempts = jobs[j].attempts
    <3>1. CASE jobs'[j].state = "in_progress" /\ jobs'[j].attempts \in answered'[j]
      <4>1. jobs[j].state # "absent" => \A l \in answered[j] : l <= jobs[j].attempts
        BY DEF FilesInv, MediaFine
      <4>2. ~(jobs[j].state = "queued" /\ jobs'[j].attempts = jobs[j].attempts + 1)
        BY <4>1, <3>1, <2>1, <1>a DEF Row
      <4>3. jobs[j] = jobs'[j]
        BY <4>2, <3>1, Lasting
      <4> QED BY <4>3, <3>1, <2>1
    <3>2. CASE jobs'[j].state = "completed" /\ now' - media'[j].finished <= ArtifactTtl
      <4>1. /\ jobs'[j].attempts = jobs[j].attempts
            /\ \/ jobs[j].state = "completed"
               \/ jobs[j].state = "in_progress" /\ jobs[j].attempts \in answered[j]
        BY <3>2, Lasting
      <4>2. CASE jobs[j].state = "completed"
        <5>1. media'[j].finished = media[j].finished
          BY <4>2, <3>2, MediaSteps DEF IsLive
        <5>2. now - media[j].finished <= ArtifactTtl
          BY <5>1, <3>2, <1>a, TtlAssumption DEF MediaRow
        <5> QED BY <5>2, <4>1, <4>2 DEF Promised
      <4> QED BY <4>1, <4>2
    <3> QED BY <2>2, <3>1, <3>2
  <2>3. Needed(j) => ~Swept(j)
    <3>1. Swept(j) => Over(j)
            /\ (jobs[j].state = "completed" => now - media[j].finished > ArtifactTtl)
      BY SweptOver
    <3>2. now - media[j].finished > ArtifactTtl => ~(now - media[j].finished <= ArtifactTtl)
      BY <1>a, TtlAssumption DEF MediaRow
    <3> QED BY <3>1, <3>2 DEF Promised, Over, IsTerminal, TerminalStates
  <2>4. /\ \/ disk[j].clip.whole => disk'[j].clip.whole /\ disk'[j].clip.by = disk[j].clip.by
           \/ Swept(j)
        /\ disk[j].clip = NoFile \/ Swept(j) => disk'[j].clip = NoFile
    BY <1>2, ClipSteps
  <2>5. jobs'[j].state = "completed" =>
          /\ jobs'[j].attempts = jobs[j].attempts
          /\ jobs[j].state = "completed" \/ Needed(j)
    BY Lasting
  <2> HIDE DEF Needed
  <2> QED BY <2>2, <2>3, <2>4, <2>5, <1>c
<1> QED BY <1>1, <1>2

-----------------------------------------------------------------------------
(* The invariant holds *)

\* An empty disk satisfies the invariant.
LEMMA InitFilesInv ==
  ASSUME Init PROVE FilesInv
<1>1. /\ EmptyDisk \in DiskRow /\ IdleUpload \in UploadRow /\ IdleCleaner \in CleanerRow
      /\ IdleUpload.st = "idle" /\ IdleUpload.job = NoJob /\ IdleCleaner.cur = NoJob
      /\ IdleCleaner.todo = {} /\ ~IdleCleaner.aged /\ IdleCleaner.at = 0
  BY Initials DEF IdleCleaner
<1>2. /\ AbsentRow \in Row /\ AbsentRow.state = "absent" /\ AbsentRow.created = 0
      /\ AbsentRow.attempts = 0 /\ AbsentRow.lease = 0
  BY AbsentIsRow DEF AbsentRow
<1>3. FilesOK
  <2>1. media \in [Jobs -> MediaRow]
    BY AttemptsAssumption DEF Init, MediaRow
  <2>2. disk \in [Jobs -> DiskRow] /\ uploads \in [Uploads -> UploadRow]
    BY <1>1 DEF Init
  <2> QED BY <1>1, <1>2, <2>1, <2>2 DEF Init, FilesOK, MediaRow, DiskRow, UploadRow, CleanerRow
<1>4. \A j \in Jobs : RowFine(jobs[j])
  BY <1>2, AttemptsAssumption DEF Init, RowFine
<1>5. MediaFine
  BY <1>2 DEF Init, MediaFine
<1>6. DiskFine
  BY <1>2 DEF Init, DiskFine, EmptyDisk
<1>7. RemovalsFine
  BY <1>1 DEF Init, RemovalsFine
<1>8. UploadsFine
  BY <1>1 DEF Init, UploadsFine
<1>9. InputKept
  BY <1>2 DEF Init, InputKept, IsLive
<1>10. RetriesFine /\ PartsFine
  BY <1>1, NullAssumption DEF Init, RetriesFine, PartsFine
<1>11. ClipsFine
  BY <1>2 DEF Init, ClipsFine, Promised
<1> QED BY <1>3, <1>4, <1>5, <1>6, <1>7, <1>8, <1>9, <1>10, <1>11 DEF FilesInv

\* Every step keeps the invariant.
LEMMA NextFilesInv ==
  ASSUME FilesInv, [FilesNext]_filesVars
  PROVE  FilesInv'
<1>1. \A j \in Jobs : RowFine(jobs[j])'
  BY NextRowFine
<1> QED BY <1>1, NextFilesOK, NextMediaFine, NextDiskFine, NextRemovalsFine, NextUploadsFine,
           NextInputKept, NextRetriesFine, NextPartsFine, NextClipsFine DEF FilesInv

\* Reading changes no file and no row.
LEMMA ReadsAreSteps ==
  ASSUME [Next]_vars
  PROVE  [FilesNext]_filesVars
BY DEF Next, vars, ReadStep, ContentBegin, InputBegin, Begun, Stat, Open

\* The invariant of the files holds.
LEMMA FilesInductive == Spec => []FilesInv
<1>1. Init => FilesInv
  BY InitFilesInv
<1>2. FilesInv /\ [Next]_vars => FilesInv'
  BY NextFilesInv, ReadsAreSteps
<1> QED BY <1>1, <1>2, PTL DEF Spec

\* A job whose clip is promised has it on the disk.
LEMMA PromisedClip ==
  ASSUME FilesInv, NEW j \in Jobs, Promised(j), j \notin tangled \cup rejected
  PROVE  /\ disk[j].clip.whole /\ disk[j].clip.by = {jobs[j].attempts}
         /\ media[j].clip = jobs[j].attempts
<1>1. disk[j].clip.whole /\ disk[j].clip.by = {jobs[j].attempts}
  BY DEF FilesInv, ClipsFine, Served
<1>2. now \in Nat /\ media[j].finished \in Nat
  BY DEF FilesInv, FilesOK
<1>3. media[j].clip = jobs[j].attempts \/ now - media[j].finished > ArtifactTtl
  BY DEF FilesInv, MediaFine, Promised
<1> QED BY <1>1, <1>2, <1>3, TtlAssumption DEF Promised

\* From its submission until it ends, a job's input is on the disk: no cleanup
\* pass, no result of an earlier lease and no restart removes it; only an upload
\* that fails its checksum may (cleanup.ts:50-103, agent.ts:251-281).
THEOREM InputsAreKept == Spec => []InputKept
<1>1. FilesInv => InputKept
  BY DEF FilesInv
<1> QED BY <1>1, FilesInductive, PTL

\* A completed job whose uploads never tangled and never failed their checksum has
\* its clip, whole and of the accepted lease, on the disk for the time that
\* ArtifactTtl promises, though uploads broke off, came late, or were repeated while
\* the attempt before was still writing (store.ts:52-57, agent.ts:259-262,
\* runner.py:162-168, cleanup.ts:27-48).
THEOREM ClipsAreServed == Spec => []ClipServed
<1>1. FilesInv => ClipServed
  BY PromisedClip DEF ClipServed, Whole
<1> QED BY <1>1, FilesInductive, PTL

-----------------------------------------------------------------------------
(* Reads *)

ReadRow == [st : {"idle", "stat", "open"}, kind : {"none", "content", "input"},
            job : Jobs \cup {NoJob}, lease : 0..MaxAttempts, since : Nat]

\* A download of a clip is of the one its job completed with, while the row is there.
Sought(r) ==
  /\ r.st # "idle" => r.kind # "none"
  /\ r.kind # "none" => r.job \in Jobs
  /\ r.kind = "content" =>
       \/ Dead(r.job)
       \/ jobs[r.job].state = "completed" /\ r.lease = jobs[r.job].attempts

ReadsFine == reads \in [Readers -> ReadRow] /\ \A g \in Readers : Sought(reads[g])

\* What a read was told of a job stays true until it opens the file.
LEMMA SoughtLasts ==
  ASSUME FilesInv, [FilesNext]_filesVars, NEW r \in ReadRow, Sought(r)
  PROVE  Sought(r)'
BY Lasting DEF Sought

\* No step invalidates what a read in progress was told.
LEMMA NextReadsFine ==
  ASSUME FilesInv, ReadsFine, [Next]_vars
  PROVE  ReadsFine'
<1>a. reads \in [Readers -> ReadRow] /\ \A g \in Readers : Sought(reads[g])
  BY DEF ReadsFine
<1>b. [FilesNext]_filesVars
  BY ReadsAreSteps
<1>i. IdleRead \in ReadRow /\ IdleRead.kind = "none" /\ IdleRead.st = "idle"
  BY AttemptsAssumption DEF IdleRead, ReadRow
<1>s. \A r \in ReadRow : Sought(r) => Sought(r)'
  BY <1>b, SoughtLasts
<1>z. Sought(IdleRead)'
  BY <1>i DEF Sought
<1>1. ASSUME NEW g \in Readers, NEW r \in ReadRow, Sought(r)', reads' = [reads EXCEPT ![g] = r]
      PROVE  ReadsFine'
  <2>1. reads' \in [Readers -> ReadRow]
    BY <1>1, <1>a
  <2>2. ASSUME NEW h \in Readers PROVE Sought(reads[h])'
    <3>1. CASE h = g
      <4>1. reads'[h] = r
        BY <1>1, <1>a, <3>1
      <4> QED BY <1>1, <4>1 DEF Sought, Dead
    <3>2. CASE h # g
      <4>1. reads'[h] = reads[h] /\ reads[h] \in ReadRow
        BY <1>1, <1>a, <3>2
      <4>2. \A r2 : r2 = reads[h] => Sought(r2)'
        BY <4>1, <1>a, <1>s
      <4> QED BY <4>1, <4>2 DEF Sought, Dead
    <3> QED BY <3>1, <3>2
  <2> QED BY <2>1, <2>2 DEF ReadsFine
<1>2. ASSUME UNCHANGED reads PROVE ReadsFine'
  <2>1. ASSUME NEW h \in Readers PROVE Sought(reads[h])'
    <3>1. reads'[h] = reads[h] /\ reads[h] \in ReadRow
      BY <1>2, <1>a
    <3>2. \A r2 : r2 = reads[h] => Sought(r2)'
      BY <3>1, <1>a, <1>s
    <3> QED BY <3>1, <3>2 DEF Sought, Dead
  <2> QED BY <2>1, <1>2, <1>a DEF ReadsFine
<1>3. ASSUME NEW g \in Readers, NEW j \in Jobs, ContentBegin(g, j) PROVE ReadsFine'
  <2> DEFINE r == [st |-> "stat", kind |-> "content", job |-> j,
                   lease |-> media[j].clip, since |-> now]
  <2>1. media[j].clip \in 0..MaxAttempts /\ now \in Nat
    BY DEF FilesInv, FilesOK
  <2>2. r \in ReadRow
    BY <2>1 DEF ReadRow
  <2>3. media[j].clip = jobs[j].attempts /\ jobs[j].state = "completed"
    BY <1>3 DEF ContentBegin, FilesInv, MediaFine
  <2>4. Sought(r)
    BY <2>3 DEF Sought
  <2>5. reads' = [reads EXCEPT ![g] = r]
    BY <1>3 DEF ContentBegin, Begun
  <2>6. PICK q \in ReadRow : q = r /\ Sought(q)
    BY <2>2, <2>4
  <2>7. reads' = [reads EXCEPT ![g] = q] /\ Sought(q)'
    BY <2>5, <2>6, <1>s
  <2> QED BY <2>7, <1>1
<1>4. ASSUME NEW g \in Readers, NEW j \in Jobs, InputBegin(g, j) PROVE ReadsFine'
  <2> DEFINE r == [st |-> "stat", kind |-> "input", job |-> j,
                   lease |-> jobs[j].lease, since |-> now]
  <2>1. jobs[j].lease \in 0..MaxAttempts /\ now \in Nat
    BY AttemptsAssumption DEF FilesInv, FilesOK, RowFine, Row
  <2>2. r \in ReadRow
    BY <2>1 DEF ReadRow
  <2>4. Sought(r)
    BY DEF Sought
  <2>5. reads' = [reads EXCEPT ![g] = r]
    BY <1>4 DEF InputBegin, Begun
  <2>6. PICK q \in ReadRow : q = r /\ Sought(q)
    BY <2>2, <2>4
  <2>7. reads' = [reads EXCEPT ![g] = q] /\ Sought(q)'
    BY <2>5, <2>6, <1>s
  <2> QED BY <2>7, <1>1
<1>5. ASSUME NEW g \in Readers, Stat(g) \/ Open(g) PROVE ReadsFine'
  <2>1. PICK q \in ReadRow : reads' = [reads EXCEPT ![g] = q] /\ Sought(q)'
    <3>1. CASE reads' = [reads EXCEPT ![g] = IdleRead]
      BY <3>1, <1>i, <1>z
    <3>2. CASE reads' = [reads EXCEPT ![g] = [reads[g] EXCEPT !.st = "open"]]
      <4> DEFINE q == [reads[g] EXCEPT !.st = "open"]
      <4>0. reads[g] \in ReadRow
        BY <1>a
      <4>1. q \in ReadRow /\ q.kind = reads[g].kind /\ q.job = reads[g].job
              /\ q.lease = reads[g].lease
        BY <4>0 DEF ReadRow
      <4>2. reads' = [reads EXCEPT ![g] = q]
        BY <3>2
      <4> HIDE DEF q
      <4>3. reads[g].st # "idle"
        BY <1>5 DEF Stat, Open
      <4>4. Sought(q)
        BY <4>1, <4>3, <1>a DEF Sought
      <4> QED BY <4>1, <4>2, <4>4, <1>s
    <3> QED BY <3>1, <3>2, <1>5, <1>a DEF Stat, Open
  <2> QED BY <2>1, <1>1
<1>6. ASSUME UNCHANGED vars PROVE ReadsFine'
  BY <1>2, <1>6 DEF vars
<1>7. ASSUME FilesNext, ~Restart PROVE UNCHANGED reads
  BY <1>7 DEF FilesNext, JobStep, SubmitBegin, SubmitCommit, Dispatch, Withdrawn, Reaped, Requeued,
         Result, InputRemoved, UploadStep, UploadBegin, UploadOpen, UploadChunk, UploadBroken,
         UploadStored, UploadMissing, UploadRejected, CleanStep, CleanBegin, ReadDir, Purge,
         ExpireRemove, ExpireRecord, OrphanCheck, OrphanStat, OrphanRemove, Tick
<1>8. ASSUME Restart PROVE ReadsFine'
  <2>1. reads' = [g \in Readers |-> IdleRead]
    BY <1>8 DEF Restart
  <2>2. ASSUME NEW h \in Readers PROVE Sought(reads[h])'
    BY <2>1, <1>i DEF Sought
  <2> QED BY <2>1, <2>2, <1>i DEF ReadsFine
<1> QED BY <1>2, <1>3, <1>4, <1>5, <1>6, <1>7, <1>8 DEF Next, ReadStep

\* The invariants of the files and of the reads hold together.
LEMMA ReadsInductive == Spec => [](FilesInv /\ ReadsFine)
<1>1. Init => FilesInv /\ ReadsFine
  <2>1. ASSUME Init PROVE ReadsFine
    <3>1. IdleRead \in ReadRow /\ IdleRead.kind = "none" /\ IdleRead.st = "idle"
      BY AttemptsAssumption DEF IdleRead, ReadRow
    <3> QED BY <2>1, <3>1 DEF Init, ReadsFine, Sought
  <2> QED BY <2>1, InitFilesInv
<1>2. FilesInv /\ ReadsFine /\ [Next]_vars => FilesInv' /\ ReadsFine'
  BY NextReadsFine, NextFilesInv, ReadsAreSteps
<1> QED BY <1>1, <1>2, PTL DEF Spec

\* Every variable of the files of the gateway keeps its type, and a cleanup pass
\* is at a job of its list, for any number of jobs, uploads, reads and leases.
THEOREM FilesTypeCorrect == Spec => []TypeOK
<1>1. FilesInv /\ ReadsFine => TypeOK
  BY DEF FilesInv, ReadsFine, ReadRow, TypeOK
<1> QED BY <1>1, ReadsInductive, PTL

\* A read that is entitled to its file finds it at each of its steps, and one that
\* opens the content of a completed job later finds the whole clip of its lease.
LEMMA ReadFinds ==
  ASSUME FilesInv, ReadsFine, NEW g \in Readers, reads[g].kind # "none"
  PROVE  LET j == reads[g].job IN
         /\ Entitled(g) => There(g)
         /\ reads[g].kind = "content" /\ jobs[j].state = "completed" /\ There(g)
            /\ j \notin tangled \cup rejected
            => disk[j].clip.whole /\ disk[j].clip.by = {reads[g].lease}
<1> DEFINE j == reads[g].job
<1>1. reads[g] \in ReadRow /\ j \in Jobs
  BY DEF ReadsFine, Sought
<1>2. CASE reads[g].kind = "input"
  BY <1>1, <1>2 DEF Entitled, There, Holds, IsLive, FilesInv, InputKept
<1>3. CASE reads[g].kind = "content"
  <2>1. jobs[j].state = "completed" => reads[g].lease = jobs[j].attempts
    BY <1>3 DEF ReadsFine, Sought, Dead
  <2>2. There(g) <=> disk[j].clip # NoFile
    BY <1>3 DEF There
  <2>3. jobs[j].state = "completed" /\ j \notin tangled \cup rejected
          => disk[j].clip = NoFile \/ (disk[j].clip.whole /\ disk[j].clip.by = {jobs[j].attempts})
    BY <1>1 DEF FilesInv, ClipsFine, Served
  <2>4. Entitled(g) => disk[j].clip.by = {jobs[j].attempts}
    BY <1>1, <1>3, PromisedClip DEF Entitled
  <2>5. Entitled(g) => There(g)
    BY <2>2, <2>4 DEF NoFile
  <2> QED BY <2>1, <2>2, <2>3, <2>5
<1> QED BY <1>1, <1>2, <1>3 DEF ReadRow

\* Whoever is entitled to a file, a client while the clip is promised, a pod while
\* its lease is current, passes the stat and opens the file, and no client is ever
\* sent a torn clip or that of another lease (videos.ts:365-381, agent.ts:187-205).
THEOREM ReadsAreHonoured == Spec => ReadsHonoured
<1> DEFINE A == \A g \in Readers :
      LET j == reads[g].job IN
      /\ Stat(g) /\ Entitled(g) => reads'[g].st = "open"
      /\ Open(g) /\ Entitled(g) => There(g)
      /\ /\ Open(g) /\ reads[g].kind = "content" /\ There(g)
         /\ jobs[j].state = "completed" /\ j \notin tangled \cup rejected
         => disk[j].clip.whole /\ disk[j].clip.by = {reads[g].lease}
<1>1. FilesInv /\ ReadsFine => A
  <2> SUFFICES ASSUME FilesInv, ReadsFine, NEW g \in Readers, Stat(g) \/ Open(g)
               PROVE  LET j == reads[g].job IN
                      /\ Stat(g) /\ Entitled(g) => reads'[g].st = "open"
                      /\ Entitled(g) => There(g)
                      /\ /\ reads[g].kind = "content" /\ There(g)
                         /\ jobs[j].state = "completed" /\ j \notin tangled \cup rejected
                         => disk[j].clip.whole /\ disk[j].clip.by = {reads[g].lease}
    OBVIOUS
  <2>1. reads[g].kind # "none" /\ reads[g].st # "idle" /\ reads[g] \in ReadRow
    BY DEF ReadsFine, Sought, Stat, Open
  <2>2. Stat(g) /\ There(g) => reads'[g].st = "open"
    BY <2>1 DEF ReadsFine, Stat, ReadRow
  <2> QED BY <2>1, <2>2, ReadFinds
<1>2. ReadsHonoured <=> [][A]_vars
  BY DEF ReadsHonoured
<1> HIDE DEF A
<1> QED BY <1>1, <1>2, ReadsInductive, PTL
=============================================================================
