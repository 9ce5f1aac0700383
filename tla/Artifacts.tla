------------------------------ MODULE Artifacts ------------------------------
(***************************************************************************)
(* The files of the gateway (gateway/src/artifacts/store.ts), the handlers *)
(* that write, read and delete them and the periodic cleanup (cleanup.ts). *)
(* File operations are awaits, so uploads, downloads, results and the      *)
(* cleanup interleave between them, and a restart can come anywhere.       *)
(*                                                                         *)
(* Rows change by the operators of JobStore.  When the reaper strikes is   *)
(* the matter of module Gateway: here it may requeue or end a job at any   *)
(* time, and must before the job is past its budget.  One unit of the      *)
(* clock is a good part of a day, far longer than a request lasts.         *)
(***************************************************************************)
EXTENDS JobStore

CONSTANTS
  Uploads,      \* artifact requests the gateway may be serving at once
  Readers,      \* downloads it may be serving at once
  NoUpload, NoJob,
  ArtifactTtl,  \* config.artifactTtlMs
  Retention,    \* config.jobRetentionMs
  RequestTime,  \* assumption on the environment: how long a request may last
  FirstCleanup, \* bound of the model: no cleanup begins before this time
  LastSubmit,   \* bound of the model: no job is submitted after this time
  MaxTime,      \* bound of the model: the clock stops here
  MaxRestarts   \* bound of the model: how often the process stops

ASSUME NullAssumption == NoUpload \notin Uploads /\ NoJob \notin Jobs
ASSUME TtlAssumption == ArtifactTtl \in Nat /\ Retention \in Nat
                        /\ RequestTime \in Nat /\ RequestTime < ArtifactTtl
ASSUME BoundAssumption == FirstCleanup \in Nat /\ LastSubmit \in Nat
                          /\ MaxTime \in Nat /\ MaxRestarts \in Nat

VARIABLES
  now,
  jobs,       \* the jobs table
  media,      \* the artifacts and finished_at columns: lease whose clip is recorded, 0 = '[]'
  disk,       \* per job, what lies under inputs/<id> and artifacts/<id>
  uploads,    \* the artifact handlers in progress
  answered,   \* answered[j]: the leases whose upload got its 2xx
  settling,   \* jobs whose result handler is suspended in removeInput
  cleaner,    \* the cleanup pass in progress
  tangled,    \* history: jobs with uploads in progress together that no retry explains
  rejected,   \* history: jobs an upload of which failed its checksum
  restarts,
  reads       \* the downloads in progress: where each is and what it asked for

filesVars == <<now, jobs, media, disk, uploads, answered, settling, cleaner,
               tangled, rejected, restarts>>
vars == <<filesVars, reads>>

Leases == 1..MaxAttempts

\* A file: whose bytes are in it (0 for bytes damaged in transit), the upload
\* that last truncated it, and whether that upload wrote it to the end.
NoFile == [by |-> {}, last |-> NoUpload, whole |-> FALSE]
File == [by : SUBSET (0..MaxAttempts), last : Uploads \cup {NoUpload}, whole : BOOLEAN]

\* input and dir are the mtimes of the two directories, 0 when there is none;
\* part and clip are .output.mp4.part and output.mp4.
EmptyDisk == [input |-> 0, dir |-> 0, part |-> NoFile, clip |-> NoFile]

\* at: where the file this handler has open is by now.
IdleUpload == [st |-> "idle", job |-> NoJob, lease |-> 0, intact |-> TRUE,
               heard |-> FALSE, at |-> "none", since |-> 0]
\* lease: the one whose clip, or for which the input, was asked.
IdleRead == [st |-> "idle", kind |-> "none", job |-> NoJob, lease |-> 0, since |-> 0]
IdleCleaner == [st |-> "idle", at |-> 0, todo |-> {}, cur |-> NoJob, aged |-> FALSE]

Init ==
  /\ now = 1 /\ restarts = 0
  /\ jobs = [j \in Jobs |-> AbsentRow]
  /\ media = [j \in Jobs |-> [clip |-> 0, finished |-> 0]]
  /\ disk = [j \in Jobs |-> EmptyDisk]
  /\ uploads = [u \in Uploads |-> IdleUpload]
  /\ answered = [j \in Jobs |-> {}]
  /\ settling = {} /\ cleaner = IdleCleaner
  /\ tangled = {} /\ rejected = {}
  /\ reads = [g \in Readers |-> IdleRead]

HasRow(j) == jobs[j].state \in VideoStates

-----------------------------------------------------------------------------
(* Jobs.  An id is never used again: a purged row keeps its creation time. *)

SubmitBegin(j) ==
  /\ jobs[j] = AbsentRow /\ now <= LastSubmit
  /\ jobs' = [jobs EXCEPT ![j] = [AbsentRow EXCEPT !.state = "writing", !.created = now]]
  /\ disk' = [disk EXCEPT ![j].input = now]
  /\ UNCHANGED <<now, media, uploads, answered, settling, cleaner, tangled, rejected, restarts, reads>>

SubmitCommit(j) ==
  /\ jobs[j].state = "writing"
  /\ jobs' = [jobs EXCEPT ![j] = Created(jobs[j].created)]
  /\ UNCHANGED <<now, media, disk, uploads, answered, settling, cleaner,
                 tangled, rejected, restarts, reads>>

\* When the lease expires is not modelled here, so it carries no expiry.
Dispatch(j, p) ==
  /\ jobs[j].state = "queued" /\ jobs[j].attempts < MaxAttempts
  /\ jobs' = [jobs EXCEPT ![j] = Claim(@, p, @.attempts + 1, 0)]
  /\ UNCHANGED <<now, media, disk, uploads, answered, settling, cleaner,
                 tangled, rejected, restarts, reads>>

Ended(j, row, clip) ==
  /\ jobs' = [jobs EXCEPT ![j] = row]
  /\ media' = [media EXCEPT ![j] = [clip |-> clip, finished |-> now]]

\* DELETE of a queued job.  Neither this nor the reaper touches a file.
Withdrawn(j) ==
  /\ jobs[j].state = "queued" /\ Ended(j, CancelQueued(jobs[j], now), 0)
  /\ UNCHANGED <<now, disk, uploads, answered, settling, cleaner, tangled, rejected, restarts, reads>>

\* The reaper ends a job: its attempts, its time or its cancel grace are over.
Reaped(j) ==
  /\ \/ IsLive(jobs[j]) /\ Ended(j, Fail(jobs[j], 0), 0)
     \/ jobs[j].state = "in_progress" /\ Ended(j, MarkCancelled(jobs[j], 0), 0)
  /\ UNCHANGED <<now, disk, uploads, answered, settling, cleaner, tangled, rejected, restarts, reads>>

\* A lease expired, or a retryable failure was reported.
Requeued(j) ==
  /\ jobs[j].state = "in_progress" /\ jobs[j].attempts < MaxAttempts
  /\ jobs' = [jobs EXCEPT ![j] = Requeue(@, 0)]
  /\ UNCHANGED <<now, media, disk, uploads, answered, settling, cleaner,
                 tangled, rejected, restarts, reads>>

\* A terminal result, up to its await.  The agent reports "completed" only
\* after its upload was answered with a 2xx.
Result(j) ==
  /\ jobs[j].state = "in_progress"
  /\ \/ /\ jobs[j].lease \in answered[j]
        /\ Ended(j, Complete(jobs[j], jobs[j].lease), jobs[j].lease)
     \/ Ended(j, MarkCancelled(jobs[j], jobs[j].lease), 0)
     \/ Ended(j, Fail(jobs[j], jobs[j].lease), 0)
  /\ settling' = settling \cup {j}
  /\ UNCHANGED <<now, disk, uploads, answered, cleaner, tangled, rejected, restarts, reads>>

InputRemoved(j) ==
  /\ j \in settling
  /\ settling' = settling \ {j}
  /\ disk' = [disk EXCEPT ![j].input = 0]
  /\ UNCHANGED <<now, jobs, media, uploads, answered, cleaner, tangled, rejected, restarts, reads>>

-----------------------------------------------------------------------------
(* POST /v1/agent/jobs/:id/artifact *)

Sending(j) == {u \in Uploads : uploads[u].job = j}

\* The lease test.  "heard": the agent is waiting for this answer.  It sends
\* its attempts one after the other, so an attempt it gave up is not heard,
\* and may reach the gateway late.  "retry": the agent repeats an upload that it
\* gave up and that is still being written.
UploadBegin(u, j, intact, heard) ==
  LET l == jobs[j].lease
      retry == /\ intact /\ heard
               /\ \A v \in Sending(j) : /\ uploads[v].lease = l /\ uploads[v].intact
                                       /\ uploads[v].st = "writing"
  IN
  /\ uploads[u].st = "idle" /\ jobs[j].state = "in_progress"
  /\ heard => l \notin answered[j]
  /\ uploads' = [v \in Uploads |->
       IF v = u THEN [st |-> "opening", job |-> j, lease |-> l, intact |-> intact,
                      heard |-> heard, at |-> "none", since |-> now]
       ELSE IF heard /\ uploads[v].job = j /\ uploads[v].lease = l
            THEN [uploads[v] EXCEPT !.heard = FALSE] ELSE uploads[v]]
  /\ tangled' = IF Sending(j) = {} \/ retry THEN tangled ELSE tangled \cup {j}
  /\ UNCHANGED <<now, jobs, media, disk, answered, settling, cleaner, rejected, restarts, reads>>

Label(u) == IF uploads[u].intact THEN uploads[u].lease ELSE 0

\* mkdir, and the part file opened for writing: created, or truncated under
\* whoever else has it open.
UploadOpen(u) ==
  LET j == uploads[u].job IN
  /\ uploads[u].st = "opening"
  /\ uploads' = [uploads EXCEPT ![u].st = "writing", ![u].at = "part"]
  /\ disk' = [disk EXCEPT ![j].dir = IF disk[j].part = NoFile THEN now ELSE @,
                          ![j].part = [by |-> {Label(u)}, last |-> u, whole |-> FALSE]]
  /\ UNCHANGED <<now, jobs, media, answered, settling, cleaner, tangled, rejected, restarts, reads>>

\* An upload goes on writing to a file that another has truncated since, or
\* that was renamed under it.
UploadChunk(u) ==
  LET j == uploads[u].job IN
  /\ uploads[u].st = "writing"
  /\ \/ /\ uploads[u].at = "part" /\ Label(u) \notin disk[j].part.by
        /\ disk' = [disk EXCEPT ![j].part.by = @ \cup {Label(u)}]
     \/ /\ uploads[u].at = "clip" /\ Label(u) \notin disk[j].clip.by
        /\ disk' = [disk EXCEPT ![j].clip.by = @ \cup {Label(u)}]
  /\ UNCHANGED <<now, jobs, media, uploads, answered, settling, cleaner,
                 tangled, rejected, restarts, reads>>

\* Where the files open in uploads of job j are after the part file went away,
\* and after it took the place of the clip.
Unlinked(j) ==
  [v \in Uploads |-> IF uploads[v].job = j /\ uploads[v].at = "part"
                     THEN [uploads[v] EXCEPT !.at = "gone"] ELSE uploads[v]]
Renamed(j) ==
  [v \in Uploads |->
     IF uploads[v].job # j THEN uploads[v]
     ELSE [uploads[v] EXCEPT !.at = CASE @ = "part" -> "clip"
                                      [] @ = "clip" -> "gone"
                                      [] OTHER -> @]]

\* The connection broke, or the cap on bytes was passed: rm of the part path,
\* whoever's file is there.
UploadBroken(u) ==
  LET j == uploads[u].job IN
  /\ uploads[u].st = "writing"
  /\ uploads' = [Unlinked(j) EXCEPT ![u] = IdleUpload]
  /\ disk' = [disk EXCEPT ![j].part = NoFile,
                          ![j].dir = IF disk[j].part = NoFile THEN @ ELSE now]
  /\ UNCHANGED <<now, jobs, media, answered, settling, cleaner, tangled, rejected, restarts, reads>>

\* The files of u's job once u wrote its last byte.
Written(u) ==
  LET finish(f) == IF f.last = u THEN [f EXCEPT !.whole = TRUE] ELSE f
      d == disk[uploads[u].job]
  IN CASE uploads[u].at = "part" -> [d EXCEPT !.part = finish(@)]
       [] uploads[u].at = "clip" -> [d EXCEPT !.clip = finish(@)]
       [] OTHER -> d

\* The stream ended and there is a part file to rename.  The checksum is that
\* of the bytes received, not of the file.
UploadStored(u) ==
  LET j == uploads[u].job
      d == Written(u)
  IN /\ uploads[u].st = "writing" /\ d.part # NoFile
     /\ disk' = [disk EXCEPT ![j] = [d EXCEPT !.clip = d.part, !.part = NoFile, !.dir = now]]
     /\ uploads' = [Renamed(j) EXCEPT ![u] = IF uploads[u].intact THEN IdleUpload
                                             ELSE [@ EXCEPT !.st = "rejecting"]]
     /\ answered' = IF uploads[u].intact /\ uploads[u].heard
                    THEN [answered EXCEPT ![j] = @ \cup {uploads[u].lease}] ELSE answered
     /\ rejected' = IF uploads[u].intact THEN rejected ELSE rejected \cup {j}
     /\ UNCHANGED <<now, jobs, media, settling, cleaner, tangled, restarts, reads>>

\* Faulty form: the agent gets a 2xx though the rename failed.
UploadMissingAnswered(u) ==
  /\ uploads[u].st = "writing" /\ Written(u).part = NoFile
  /\ disk' = [disk EXCEPT ![uploads[u].job] = Written(u)]
  /\ uploads' = [uploads EXCEPT ![u] = IdleUpload]
  /\ answered' = IF uploads[u].heard
                 THEN [answered EXCEPT ![uploads[u].job] = @ \cup {uploads[u].lease}]
                 ELSE answered
  /\ UNCHANGED <<now, jobs, media, settling, cleaner, tangled, rejected, restarts, reads>>

\* The part file is gone: rename fails and the agent gets a 500.
UploadMissing(u) ==
  /\ uploads[u].st = "writing" /\ Written(u).part = NoFile
  /\ disk' = [disk EXCEPT ![uploads[u].job] = Written(u)]
  /\ uploads' = [uploads EXCEPT ![u] = IdleUpload]
  /\ UNCHANGED <<now, jobs, media, answered, settling, cleaner, tangled, rejected, restarts, reads>>

\* removeJob: both directories, and every file in them.
Removed(j) ==
  /\ disk' = [disk EXCEPT ![j] = EmptyDisk]
  /\ uploads' = [v \in Uploads |-> IF uploads[v].job = j /\ uploads[v].at # "none"
                                   THEN [uploads[v] EXCEPT !.at = "gone"] ELSE uploads[v]]

\* The checksum does not match: the whole job is removed from the disk.
UploadRejected(u) ==
  LET j == uploads[u].job IN
  /\ uploads[u].st = "rejecting"
  /\ disk' = [disk EXCEPT ![j] = EmptyDisk]
  /\ uploads' = [v \in Uploads |-> IF v = u THEN IdleUpload
                                   ELSE IF uploads[v].job = j /\ uploads[v].at # "none"
                                        THEN [uploads[v] EXCEPT !.at = "gone"] ELSE uploads[v]]
  /\ UNCHANGED <<now, jobs, media, answered, settling, cleaner, tangled, rejected, restarts, reads>>

-----------------------------------------------------------------------------
(* cleanup(), from await to await *)

\* Faulty form: a clip goes in the last moment of its time.
ExpiredEarly(m) == m.clip # 0 /\ m.finished <= now - ArtifactTtl

\* finishedBefore: finished_at < before AND artifacts != '[]'
Expired(m) == m.clip # 0 /\ m.finished < now - ArtifactTtl

CleanBegin ==
  /\ cleaner.st = "idle" /\ now >= FirstCleanup
  /\ cleaner' = [IdleCleaner EXCEPT !.st = "expiring", !.at = now,
       !.todo = {j \in Jobs : HasRow(j) /\ Expired(media[j])}]
  /\ UNCHANGED <<now, jobs, media, disk, uploads, answered, settling,
                 tangled, rejected, restarts, reads>>

ExpireRemove(j) ==
  /\ cleaner.st = "expiring" /\ j \in cleaner.todo /\ cleaner.cur = NoJob
  /\ Removed(j)
  /\ cleaner' = [cleaner EXCEPT !.cur = j]
  /\ UNCHANGED <<now, jobs, media, answered, settling, tangled, rejected, restarts, reads>>

\* Faulty form: the pass stays at the entry it is done with.
SkippedStays(j) == [cleaner EXCEPT !.todo = @ \ {j}, !.aged = FALSE]

Skipped(j) == [cleaner EXCEPT !.todo = @ \ {j}, !.cur = NoJob, !.aged = FALSE]

\* setArtifacts(id, []) after the await.
ExpireRecord(j) ==
  /\ cleaner.st = "expiring" /\ cleaner.cur = j
  /\ media' = [media EXCEPT ![j].clip = 0]
  /\ cleaner' = Skipped(j)
  /\ UNCHANGED <<now, jobs, disk, uploads, answered, settling, tangled, rejected, restarts, reads>>

\* readdir of inputs/, then of artifacts/.
ReadDir ==
  /\ cleaner.st \in {"expiring", "inputs"} /\ cleaner.todo = {}
  /\ cleaner' = IF cleaner.st = "expiring"
       THEN [cleaner EXCEPT !.st = "inputs", !.todo = {j \in Jobs : disk[j].input # 0}]
       ELSE [cleaner EXCEPT !.st = "artifacts", !.todo = {j \in Jobs : disk[j].dir # 0}]
  /\ UNCHANGED <<now, jobs, media, disk, uploads, answered, settling,
                 tangled, rejected, restarts, reads>>

OrphanCheck(j) ==
  /\ cleaner.st \in {"inputs", "artifacts"} /\ j \in cleaner.todo /\ cleaner.cur = NoJob
  /\ cleaner' = IF HasRow(j) THEN Skipped(j) ELSE [cleaner EXCEPT !.cur = j]
  /\ UNCHANGED <<now, jobs, media, disk, uploads, answered, settling,
                 tangled, rejected, restarts, reads>>

\* Faulty form: the age of the directory is not looked at.
OrphanStatAgeless(j) ==
  /\ cleaner.st \in {"inputs", "artifacts"} /\ cleaner.cur = j /\ ~cleaner.aged
  /\ cleaner' = [cleaner EXCEPT !.aged = TRUE]
  /\ UNCHANGED <<now, jobs, media, disk, uploads, answered, settling,
                 tangled, rejected, restarts, reads>>

OrphanStat(j) ==
  LET mtime == IF cleaner.st = "inputs" THEN disk[j].input ELSE disk[j].dir IN
  /\ cleaner.st \in {"inputs", "artifacts"} /\ cleaner.cur = j /\ ~cleaner.aged
  /\ cleaner' = IF mtime = 0 \/ cleaner.at - mtime < ArtifactTtl THEN Skipped(j)
                ELSE [cleaner EXCEPT !.aged = TRUE]
  /\ UNCHANGED <<now, jobs, media, disk, uploads, answered, settling,
                 tangled, rejected, restarts, reads>>

OrphanRemove(j) ==
  /\ cleaner.cur = j /\ cleaner.aged
  /\ Removed(j)
  /\ cleaner' = Skipped(j)
  /\ UNCHANGED <<now, jobs, media, answered, settling, tangled, rejected, restarts, reads>>

\* Faulty form: the purge passes over the jobs that never had a clip.
PurgedWithClip(row, m) == row.state = "completed" /\ m.finished < cleaner.at - Retention

\* WHERE finished_at IS NOT NULL AND finished_at < cutoff
Purged(row, m) == IsTerminal(row) /\ m.finished < cleaner.at - Retention

Purge ==
  LET S == {j \in Jobs : Purged(jobs[j], media[j])} IN
  /\ cleaner.st = "artifacts" /\ cleaner.todo = {}
  /\ jobs' = [j \in Jobs |-> IF j \in S THEN [AbsentRow EXCEPT !.created = jobs[j].created]
                             ELSE jobs[j]]
  /\ media' = [j \in Jobs |-> IF j \in S THEN [clip |-> 0, finished |-> 0] ELSE media[j]]
  /\ cleaner' = IdleCleaner
  /\ UNCHANGED <<now, disk, uploads, answered, settling, tangled, rejected, restarts, reads>>

-----------------------------------------------------------------------------
(* GET /v1/videos/:id/content and GET /v1/agent/jobs/:id/input: both decide by the *)
(* row, await a stat, then open the file, which stays readable when unlinked.      *)

Begun(g, kind, j, l) ==
  /\ reads[g].st = "idle"
  /\ reads' = [reads EXCEPT ![g] = [st |-> "stat", kind |-> kind, job |-> j,
                                    lease |-> l, since |-> now]]
  /\ UNCHANGED filesVars

\* The row names a clip.  (Without one the answer is an error at once.)
ContentBegin(g, j) == media[j].clip # 0 /\ Begun(g, "content", j, media[j].clip)

\* The lease of the request is current.
InputBegin(g, j) == jobs[j].lease # 0 /\ Begun(g, "input", j, jobs[j].lease)

There(g) == IF reads[g].kind = "input" THEN disk[reads[g].job].input # 0
            ELSE disk[reads[g].job].clip # NoFile

\* exists(): 410, or the headers are set and the stream is handed over.
Stat(g) ==
  /\ reads[g].st = "stat"
  /\ reads' = [reads EXCEPT ![g] = IF There(g) THEN [@ EXCEPT !.st = "open"] ELSE IdleRead]
  /\ UNCHANGED filesVars

\* The file is opened and sent, or the stream breaks.
Open(g) ==
  /\ reads[g].st = "open"
  /\ reads' = [reads EXCEPT ![g] = IdleRead]
  /\ UNCHANGED filesVars

ReadStep(g) ==
  \/ \E j \in Jobs : ContentBegin(g, j) \/ InputBegin(g, j)
  \/ Stat(g) \/ Open(g)

-----------------------------------------------------------------------------
(* Process and clock *)

\* The process ends anywhere and starts again; disk and table stay.
Restart ==
  /\ restarts < MaxRestarts /\ restarts' = restarts + 1
  /\ jobs' = [j \in Jobs |-> IF jobs[j].state = "writing"
                             THEN [AbsentRow EXCEPT !.created = jobs[j].created]
                             ELSE jobs[j]]
  /\ uploads' = [u \in Uploads |-> IdleUpload]
  /\ settling' = {} /\ cleaner' = IdleCleaner
  /\ reads' = [g \in Readers |-> IdleRead]
  /\ UNCHANGED <<now, media, disk, answered, tangled, rejected>>

\* No request outlives RequestTime and no job its budget (Gateway!SweepSettles).
Tick ==
  /\ now < MaxTime
  /\ \A j \in Jobs : /\ jobs[j].state = "writing" => now - jobs[j].created < RequestTime
                     /\ IsLive(jobs[j]) => now <= Deadline(jobs[j])
                     /\ j \in settling => now - media[j].finished < RequestTime
  /\ \A u \in Uploads : uploads[u].st # "idle" => now - uploads[u].since < RequestTime
  /\ \A g \in Readers : reads[g].st # "idle" => now - reads[g].since < RequestTime
  /\ now' = now + 1
  /\ UNCHANGED <<jobs, media, disk, uploads, answered, settling, cleaner,
                 tangled, rejected, restarts, reads>>

-----------------------------------------------------------------------------

JobStep(j) ==
  \/ SubmitBegin(j) \/ SubmitCommit(j) \/ (\E p \in Pods : Dispatch(j, p))
  \/ Withdrawn(j) \/ Reaped(j) \/ Requeued(j) \/ Result(j) \/ InputRemoved(j)

UploadStep(u) ==
  \/ \E j \in Jobs, intact \in BOOLEAN, heard \in BOOLEAN : UploadBegin(u, j, intact, heard)
  \/ UploadOpen(u) \/ UploadChunk(u) \/ UploadBroken(u)
  \/ UploadStored(u) \/ UploadMissing(u) \/ UploadRejected(u)

CleanStep ==
  \/ CleanBegin \/ ReadDir \/ Purge
  \/ \E j \in Jobs : \/ ExpireRemove(j) \/ ExpireRecord(j)
                     \/ OrphanCheck(j) \/ OrphanStat(j) \/ OrphanRemove(j)

\* What may change rows and files, and what only reads them.
FilesNext ==
  \/ \E j \in Jobs : JobStep(j)
  \/ \E u \in Uploads : UploadStep(u)
  \/ CleanStep \/ Restart \/ Tick

Next == FilesNext \/ \E g \in Readers : ReadStep(g)

Spec == Init /\ [][Next]_vars

\* Timers, file callbacks and the clock are not starved, a request comes to an
\* end one way or the other, and the reaper ends a job within its budget.
Fairness ==
  /\ WF_vars(Tick) /\ WF_vars(CleanStep)
  /\ \A j \in Jobs : /\ WF_vars(SubmitCommit(j)) /\ WF_vars(InputRemoved(j))
                     /\ WF_vars(Reaped(j))
  /\ \A u \in Uploads :
       WF_vars(UploadOpen(u) \/ UploadBroken(u) \/ UploadStored(u)
               \/ UploadMissing(u) \/ UploadRejected(u))
  /\ \A g \in Readers : WF_vars(Stat(g) \/ Open(g))

FairSpec == Spec /\ Fairness

-----------------------------------------------------------------------------
(* Properties *)

FilesOK ==
  /\ now \in Nat \ {0} /\ restarts \in Nat
  /\ jobs \in [Jobs -> Row]
  /\ media \in [Jobs -> [clip : 0..MaxAttempts, finished : Nat]]
  /\ disk \in [Jobs -> [input : Nat, dir : Nat, part : File, clip : File]]
  /\ uploads \in [Uploads -> [st : {"idle", "opening", "writing", "rejecting"},
                              job : Jobs \cup {NoJob}, lease : 0..MaxAttempts,
                              intact : BOOLEAN, heard : BOOLEAN,
                              at : {"none", "part", "clip", "gone"}, since : Nat]]
  /\ answered \in [Jobs -> SUBSET Leases]
  /\ settling \subseteq Jobs /\ tangled \subseteq Jobs /\ rejected \subseteq Jobs
  /\ cleaner \in [st : {"idle", "expiring", "inputs", "artifacts"}, at : Nat,
                  todo : SUBSET Jobs, cur : Jobs \cup {NoJob}, aged : BOOLEAN]
  /\ cleaner.cur # NoJob => cleaner.cur \in cleaner.todo

\* Every variable has its type; a pass of the cleanup is at a job of its list,
\* and only at a job.
TypeOK ==
  /\ FilesOK
  /\ reads \in [Readers -> [st : {"idle", "stat", "open"},
                            kind : {"none", "content", "input"},
                            job : Jobs \cup {NoJob}, lease : 0..MaxAttempts, since : Nat]]

\* Age-gated "so an in-flight job is never swept" (cleanup.ts:50): from the
\* moment its submission wrote it until the job ends, the input is on the disk,
\* whatever cleanup, results of earlier leases and restarts do meanwhile.  Only
\* an upload that fails its checksum may take it away, whoever sent it.
InputKept ==
  \A j \in Jobs : (jobs[j].state = "writing" \/ IsLive(jobs[j])) /\ j \notin rejected
                  => disk[j].input # 0

\* The clip a completed job records is, for as long as ArtifactTtl promises, on
\* the disk: whole, and made of the bytes of the lease that was accepted
\* (store.ts:52-57, routes/agent.ts:259-262).  Uploads may break off, come late or
\* be repeated "even when the first attempt actually landed" or goes on writing
\* (runner.py:162-168).  Out of it are jobs two leases of which were uploaded at
\* once, or an attempt of which came in after its retry had begun (see
\* NotOverwritten), and jobs an upload of which failed its checksum (see
\* CompletedHasMedia).
Whole(j) == disk[j].clip.whole /\ disk[j].clip.by = {media[j].clip}
Promised(j) == jobs[j].state = "completed" /\ now - media[j].finished <= ArtifactTtl
ClipServed ==
  \A j \in Jobs : Promised(j) /\ j \notin tangled \cup rejected => Whole(j)

\* "Expiry is an availability control" (cleanup.ts:2-9): nothing stays on the
\* disk for good, not the files of failed or cancelled jobs, of uploads that came
\* late, of submissions and uploads that a restart cut off.
DiskReclaimed == \A j \in Jobs : (disk[j] # EmptyDisk) ~> (disk[j] = EmptyDisk)

\* What an action of a download may find.  A client is promised the clip for the
\* job's time, a pod the input while its lease is current.
Entitled(g) ==
  LET j == reads[g].job IN
  IF reads[g].kind = "content" THEN Promised(j) /\ j \notin tangled \cup rejected
                               ELSE Holds(jobs[j], reads[g].lease) /\ j \notin rejected

\* videos.ts:365-381 and agent.ts:187-205: whoever is entitled to a file passes
\* the stat (no 410), and its stream does not break after the headers, wherever
\* the cleanup, results and late or repeated uploads come between the two awaits.
\* And a client that comes late and still finds a file gets no torn clip and no
\* other than the one the row told it of.
ReadsHonoured ==
  [][\A g \in Readers :
       LET j == reads[g].job IN
       /\ Stat(g) /\ Entitled(g) => reads'[g].st = "open"
       /\ Open(g) /\ Entitled(g) => There(g)
       /\ /\ Open(g) /\ reads[g].kind = "content" /\ There(g)
          /\ jobs[j].state = "completed" /\ j \notin tangled \cup rejected
          => disk[j].clip.whole /\ disk[j].clip.by = {reads[g].lease}]_vars

-----------------------------------------------------------------------------
(* Statements of the documents that the code does not keep; see the README *)

\* docs/agent-protocol.md:178-180: a pod back from a partition "cannot overwrite
\* the result of the pod that actually finished the job".
NotOverwritten ==
  [][\A j \in Jobs :
       jobs[j].state = "completed" /\ disk[j].clip.by = {media[j].clip}
       => disk'[j].clip.by \cap Leases \subseteq {media[j].clip}]_vars

\* routes/agent.ts:259-262: the result is reported after the upload's 2xx, "so a
\* completed job always has its media on disk".
CompletedHasMedia == \A j \in Jobs : Promised(j) => disk[j].clip # NoFile
=============================================================================
