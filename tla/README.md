# Verification of the inference gateway and its agents

TLA+ models of the gateway (`gateway/`, TypeScript) and the pod agent (`agent/`,
Python) inside its container, checked with TLC on small instances; every safety property that a
run checks is also proved with TLAPS for every instance. Paths below are relative to the repository root.

## The system

Clients submit video jobs to one gateway process. Rented GPU pods run an agent
that long-polls the gateway for work, drives a local SGLang server, uploads the
clip and reports a result. The gateway keeps a SQLite database and files under
`/data`; pods keep nothing across a restart.

| Component | State | Operations | Hard part |
|---|---|---|---|
| Job store (`gateway/src/db/jobs.ts`) | one row per job: state, pod, lease, expiry, attempts, cancel request, times | create, claim, renew, complete, fail, requeue, cancel, recover, sweep queries, purge | every write is a compare-and-swap; who may write a row when |
| Pod registry (`db/pods.ts`, `routes/pods.ts`) | known pods, drain flag, outcome counters, last poll, readiness | touch, drain, recordOutcome, who is connected, purge | read before an await and used after it; a parked poll renews nothing |
| Dispatch (`routes/agent.ts` poll, `scheduler/claim.ts`, `waiters.ts`) | polls parked in the gateway | renew, orphan, cancel, claim, park, kick | lost wake-ups, stale slots, lost answers |
| Results (`routes/agent.ts` result) | handlers suspended while the input is deleted | complete, cancel, requeue, fail | late, repeated and superseded reports |
| Reaper (`scheduler/reaper.ts`) | none | lease, deadline and cancel passes | the passes act on each other's rows |
| Client routes (`routes/videos.ts`) | submissions suspended while the input is written, downloads | submit, delete, content, reads | admission before the await, insert after it; a stat, then an open |
| Sizing and probing (`domain/sizing.ts`, `probe.ts`, `inputs.ts`) | none | sniff, probe, fit or check a frame | lengths the sender chose; two roundings after a square root |
| Process (`index.ts`) | up, closing, down | start, SIGTERM, exit | what a restart keeps and loses |
| Artifact store and uploads (`artifacts/store.ts`, `routes/agent.ts` artifact) | inputs, part files, clips, open uploads | write, upload, rename, remove | file operations of several handlers on one path |
| Cleanup (`artifacts/cleanup.ts`) | the pass in progress | expire, orphan, purge | runs between the steps of everything above |
| Agent (`agent/.../client.py`, `runner.py`, `sglang.py`) | one task per job, one poll, a stop flag | poll cycle, run, report, drain | network faults, restarts, stale leases |
| Container (`scripts/docker-entrypoint.sh`) | the recorded children, the state of each | fork, watch, trap, terminate, wait | a signal or a death at any step of the other |

The rest (filenames, serialisation, authentication, configuration, the SQLite
connection, deployment) keeps no state that several actors share.
`PROJECT.json` lists each with the reason it is not modelled.

Components interact in three ways: calls over HTTP (agent to gateway, client to
gateway), the two tables, which handlers read and write between awaits, and the
parking lot, whose kicks resume suspended polls. Inside a container, signals and
exit codes are the fourth.

What makes each correct: a row is written only by the holder of its newest
lease or by the gateway itself (fencing); attempts are bounded; a finished row
never changes; every accepted job ends; a queued job wakes a parked poll that
can run it; a renewed lease is left alone; a closing process waits for no long poll; an
agent's task ends and never reports under a lease it was not given; the input
stays while it may be needed, a recorded clip is whole, and nothing stays on
disk for good; a pod that waits for work is counted as capacity, and one that owes
a job is remembered; a container whose agent or server ended ends too, and an
agent that had time to drain leaves no job behind; an image is probed within its bytes,
and the frame derived from it is one the model can render.

## Modules

| Module | What it is |
|---|---|
| `JobStore` | rows and their transitions, one operator per `UPDATE ... WHERE` |
| `JobLifecycle` | abstract specification: five statuses, bounded dispatches, final outcomes |
| `Gateway` | the gateway process; extends `JobStore`, implements `JobLifecycle` |
| `GatewayProofs` | theorems about `Gateway`: leases, attempts, outcomes, the refinement |
| `DispatchProofs` | theorems about `Gateway`: order, wake-ups, shutdown, sweeps, live leases |
| `OutcomeProofs` | the outcome counters of `Gateway` |
| `Fleet` | the pod registry over time (admission, health, model list, purge), composed with `Gateway` |
| `FleetProofs` | theorems about `Fleet` |
| `Agents` | the agents and the network, composed with `Gateway` |
| `AgentsProofs` | theorems about `Agents`: it implements `Gateway`, and the fences of both sides hold |
| `Container` | the entrypoint, SGLang and the agent's shutdown, composed with `Agents` |
| `ContainerProofs` | theorems about `Container` |
| `Artifacts` | files, uploads, downloads and cleanup, over the rows of `JobStore` |
| `ArtifactsProofs` | theorems about `Artifacts` |
| `Sizing` | `fitSize` and `checkSize` in exact integer arithmetic |
| `Images` | from the bytes of one upload to the frame of its job |
| `ImagesProofs` | theorems about `Sizing` and `Images` |
| `MCGateway`, `MCFleet`, `MCAgents`, `MCContainer`, `MCArtifacts`, `MCImages` | instances for TLC |

**Atomicity.** Node runs one handler at a time and `better-sqlite3` is
synchronous, so a handler is one action from await to await. A promise that is
resolved continues before the event loop takes the next timer, request or file
callback; `Quiet` says so, and every action that starts from such a callback
has it as a guard. A handler that spans awaits is several actions with the state it
keeps in between: `SubmitBegin`/`SubmitCommit`, `Poll`/`PollWoken`/`PollTimeout`,
`ResultCompleted`/`ResultSettled`, `UploadBegin`/`UploadOpen`/`UploadStored`. A handler
whose first await is for the body of its request, before it reads any of this state
(`readUpload` in a submission), starts in the model when the body has come.

**Gateway.** `jobs` and `pods` are the two tables and survive a restart; `polls`
and `settling` are handlers in progress and do not. `grants[j]` is a history of
the pod each lease of `j` was given to; lease ids are their index in it, which
stands for their uniqueness. Pods are an open environment: a poll may report,
and a result present, any lease the pod was ever granted, at any time and any
number of times. That covers delayed, repeated and reordered calls and agents
that forget, without modelling the network. `Agents` shows (`LeasesOnlyFromGrants`)
that the real agents stay within that environment.

*Closing.* No handler asks whether the process is closing. A request that was routed before
SIGTERM and whose body ends later still runs while `app.close()` waits for it, so every handler may start
until the process is down (`Serving`), and a poll may even be given a job then. Only the wait
asks: the signal is aborted, so such a poll parks no more. `Exit` is the end of `close()`, with no handler left; what
waits for a stalled body longer than the container runtime allows is killed, which is `Crash`.

The text of errors, progress, `upstream_id`, `started_at` and the event trail
decide nothing and are left out. `deadline_at` is always `created_at + jobTtl` and is
computed. Readiness is part of a poll and needs no variable: only the poll that
carries it uses it. Whether a pod polled recently enough to count at admission is
abstracted here: any known pod may serve, so the module accepts at least what the
code accepts. `Fleet` has the exact condition.

**Fleet.** Adds `last_seen_at` and `sglang_ready` of each pod and the moment each
poll was parked, and takes every action of `Gateway` as it is, admission with the
exact condition of `routes/videos.ts`. `FleetAssumption` states what the defaults
provide and `config.ts` does not check: a poll window no longer than `POD_STALE_S`,
and a retention that outlasts the budget of a job. `FleetTick` lets time pass only when
what is due has been swept and no poll window has closed, because the reaper's timer and
the poll window are far shorter than a tick; without that a sweep could be late for
longer than the retention, which is days. `PurgePods` has the same guard: a pass of the
cleanup (every 900 s) has sweeps before it (every 10 s).

**Agents.** `conns` are poll requests on the wire or at the gateway, `polling`
the one the agent still awaits; a request given up by the agent is still served.
`held[p][j]` is the agent's `self.jobs`. The gateway's half of a call is the
action of `Gateway`. `MaxFaults` bounds lost requests, lost answers and restarts.
A restart of an agent is one action here; `Container` takes it apart.

**Container.** `shell` is where the entrypoint is, `tracked` its `pids` array,
`server` and `agent` the two processes. The line that forks a child and the line
that records it are two actions, because a trap may run between them; a child it
does not find in the array gets no SIGTERM, and `wait` waits for it all the same.
The agent goes from "up" to "stopping" at SIGTERM ("last" when the signal falls between
the readiness check and the request of a cycle, so that one more poll is sent), to
"draining" when the cycle is over, and ends when its tasks are done or after 30 s.
That time-out is not on the model's clock: it may come at any moment, and the history
`cut` records the agents it, or a crash, ended with tasks left. A second
signal finds the shell inside its trap and changes nothing. SGLang may die at any time;
without it a task can only fail, and the agent reports not ready. The start of a container
after its exit is the provider's.

**Artifacts.** A file is described by whose bytes are in it and whether its last
writer reached its end; `at` tells which path the file an upload has open is
under by now, so that a truncation, a rename or an `rm` by one upload acts on the
file another is writing. Bytes damaged in transit are the label 0. A request of the
same lease may arrive late (`heard = FALSE`): the agent sends its attempts one after
the other, but one it gave up may still be delivered. What it gave up may also still be writing
when the repeat begins: both are of one lease and send the same bytes into one part file, which the repeat
truncates. That is a *retry* and everything promised still holds of it. Any other pair of uploads of a job in
progress at once (of two leases, of which one is damaged, or where the late one begins
second) is recorded in `tangled`, and nothing is claimed of the clip of such a job. `Withdrawn` is the DELETE of a queued job,
which nobody owes; `Reaped` is the reaper, which here may strike at any time; *when* it does is in `Gateway`. A clear of `input_path` has no effect
that a lease does not already have and is left out. One tick is the better part of a day.

The two routes that read files are three actions each: the row is read, `stat` is awaited, the
file is opened. An open file stays readable when it is unlinked (POSIX), so a read ends
when it has opened its file. What the row says (whether the lease is current, `routes/agent.ts:188`, or whether it names a clip) is read
once, at the start. `Entitled` says who may count on a file at a later step: the reader of a clip within `ArtifactTtl`, and
the pod that still holds the lease it asked with. `ReadsHonoured` says of the steps of the read what the two awaits could
break: the stat of an entitled reader finds the file, its open does too, and a client that is not entitled
any more but still finds a file is sent no torn clip and none of another lease.

**Images.** The bytes of an upload are not a variable: no byte is read twice
(but the first three, which the sniff fixes), so each is chosen, freely, when the code reads
it. `need` is how many leading bytes the last step relied on. The float arithmetic of
`fitSize` is an exact integer statement in `Sizing`: with a scale of
`sqrt(budget / (w * h))` the side `w * scale` is `sqrt(budget * w / h)`, and that it rounds
to `16 a` is a comparison of squares. Where the real value lies exactly
between two multiples the float error decides, and both are allowed. Wherever it is
not so close, the result is the one JavaScript computes: the error of three operations is some
15 digits below the gap between two such fractions of small integers.

## Runs

| Run | Shows | Bounds |
|---|---|---|
| `one_job` | `TypeOK`, `LeaseOwnership`, `AttemptCap`, `NoLostWakeup`, `OutcomesChargedOnce`, `FinalIsFinal`, `LeaseHonoured`, `SweepSettles`, `LifecycleSpec`, `EveryJobFinishes` | 1 job, 2 pods, 2 polls, lease 2 and budget 4 ticks, 6 ticks, 1 restart; no symmetry |
| `two_jobs` | `IdleMeansOpen`, `ChargesLand`, `SlotsNotOvercounted`, `OldestFirst`, `CloseWaitsForNoPoll` | `Fleet`: 2 jobs, 1 pod, 1 poll, lease, budget, poll window and staleness 1 tick, retention 2, 4 ticks, 1 restart |
| `agents` | `FencedCompletion`, `NobodyCancelsUnasked`, `LeasesOnlyFromGrants` | 1 job, 2 agents, 2 requests, 1 fault or gateway restart, 2 report attempts |
| `tasks_end` | `CleanExit`, `TasksEnd`, `ContainerEnds` | `Container`: 1 job, 1 pod, 1 request, 1 fault (a lost call, a crash, a dead server or a SIGTERM), 1 gateway restart |
| `files` | `TypeOK`, `InputKept`, `ClipServed`, `DiskReclaimed` | 1 job, 1 upload, no reader, 2 leases, 7 ticks, 1 restart |
| `downloads` | `ClipServed`, `ReadsHonoured` | 1 job, 2 uploads, 1 reader, 1 lease, 4 ticks, cleanup from time 3, 1 restart |
| `images` | `FitIsAccepted`, `InBounds`, `Answered` | uploads of 0 to 40 bytes, limit 38, segments up to 12, sides 0 to 40 and four larger, eight named sides |

Every bound is a constant: `MaxTime`, `MaxRestarts`, `MaxFaults`, `MaxTrouble` (of both), `Polls`, `Uploads`, `Readers`,
`LastSubmit`, `FirstCleanup`, `MaxLength`, `MaxSegment`, `Sides`, `FrameSides`.
`SubmitBegin` of `Gateway` also asks that the budget ends before the clock does,
so that a job is never live only because time ran out.

Why they are enough: `MaxAttempts = 2`, the default, is the least with both a requeue
and a failure at the cap. Two pods are what a superseded and a current holder
need. Jobs meet only in the claim order, the queue counts, the slots and the outcome
counters, for which two suffice. The time-outs are scaled so that every order
of lease end, deadline, cancel grace and restart grace that the defaults allow
occurs: in `one_job` the lease outlasts the restart grace and the budget the lease.
In `two_jobs` every time-out is one tick, so that a pod grows stale, is purged and comes back
within the clock; staleness equals the poll window and the retention their sum, the
least that `FleetAssumption` allows. In the runs with agents the lease is 0
(it ends with the tick), which keeps the interleavings and drops the waiting.
The one fault of `tasks_end` is what ends a container; with it spent, the property
of a clean exit is about an orderly SIGTERM. In `Artifacts` the artifact time-to-live
exceeds the length of a request, and the retention exceeds the time-to-live, as the
defaults do by orders of magnitude; the clock is long enough for a job that ends late
to be purged and its last files found. `files` has two leases and one upload at a time, `downloads`
one lease and two uploads: two of different leases at once are tangled, and then `ClipServed` says nothing of the job, so what is left
to check is a retry beside the upload it repeats, and one lease after another. `find_overwrite` has both at once. In `images` only the ratio of the sides matters to the derived frame,
and 40 bytes hold several segments and a frame header at every distance from the end;
`ImagesProofs` has the rest.

Symmetry is used only in runs of safety properties; pods, jobs, polls and
uploads are interchangeable in those instances (one model).

Deadlock is checked in every run but the two of `Images` (`images` and `find_empty`), where a
probe ends with its answer: nothing else the modelled system can reach is stuck.

Each property has a mutant: a faulty form of one definition, kept beside it in
its module and marked *Faulty form*, that a plausible bug would leave, and
under which TLC finds the property violated.

### Fairness

`Gateway`: weak fairness of the clock, the reaper's timer, continuations and file
callbacks, of the exit of a closing process (`app.close` waits only for handlers that
end) and of its restart by the container runtime. Pods and clients have none: they
may stay silent for good, and a job still ends. `Container`, which runs the agents of `Agents`, adds weak fairness of every
step of a task; SGLang may answer or its deadline passes (`sglang.py:106`), HTTP
calls time out, and `_report` gives up after three attempts. `Artifacts`: the clock, the cleanup's timer,
and every request ends one way or another. In `Container` also the entrypoint goes on, a poll is
answered or breaks with its time-out, SGLang and the agent end once they are told to
(the agent at the latest after its 30 s); nothing makes a process die or a signal
come. `ContainerEnds` is stated once both children are recorded, because before that the
code does hang (below). `Images`: the probe is one synchronous piece of code, which goes on once begun.

## Statements of the documents that the code does not keep

Each has a run that must find the violation.

| Run | Statement | What happens |
|---|---|---|
| `find_cancel` | "the reaper forces the transition after CANCEL_GRACE_S" (`docs/gateway.md:106`) | when the lease ends or a retryable failure is reported first, the job is requeued with its cancel flag, is not looked at by `staleCancels` while queued, and may run again. With the defaults: the pod vanishes and the cancel comes in the last minute of its lease |
| `find_dropped` | "Jobs now owned by this pod. Start them." (`docs/agent-protocol.md:87`) | the assignment of a job whose old task is still held is dropped; the lease runs out and an attempt is lost |
| `find_overwrite` | a superseded pod "cannot overwrite the result" (`docs/agent-protocol.md:178`) | the lease is tested when an upload begins and never again: a stalled upload of the superseded pod goes on writing into the file the other pod renamed |
| `find_lost` | the result follows the upload's 2xx, "so a completed job always has its media on disk" (`routes/agent.ts:259`, and `runner.py:162`) | an attempt that the agent gave up arrives late and damaged, fails its checksum after the retry was answered and the job completed, and `removeJob` deletes the clip: the row is not looked at again |
| `find_empty` | the frame must fit the model's budgets, or "the failure would surface only after the job had been queued and dispatched" (`domain/sizing.ts:45-50`) | zero has two digits ("00") and is a multiple of 16: `size` "00x16" is queued as the frame 0x16 |

Further divergences seen while modelling; the models contain the behaviour, and no run is spent on them:

- "Hard ceiling on queued jobs" (`config.ts:64`): the queue is counted before the await of
  `writeInput` and the row inserted after it (`routes/videos.ts:178`, `:279`), and a requeue counts nothing, so the
  queue passes `MAX_QUEUE_DEPTH`.
- `gateway/test/scheduling.test.ts:116`, "never hands a pod more than its declared concurrency", holds
  for a pod that reports what it runs. Slots are counted from the report of the poll
  (`routes/agent.ts:154`), so a pod whose poll answer was lost, or whose agent restarted, is
  handed more while the first job still runs under its name.
- "A torn upload never appears as a valid artifact" (`artifacts/store.ts:53`): two uploads of a job share
  one part file, and the first to finish renames what the other has truncated.
- The removal after a checksum mismatch (`find_lost`) takes the input too. When the job was given to
  a pod again in the meantime, or is later, its `GET input` answers 410 and the run cannot succeed.
- "Release parked long-polls first" (`index.ts:63`): that works, but a poll that was routed before SIGTERM and whose body ends
  later still claims (`routes/agent.ts:155`). If the answer does not reach the pod before the process ends, the job waits for its lease.
- A drained pod that stays away longer than the retention is purged (`db/pods.ts:135`), and when it polls
  again it is known without its drain flag and is given work.
- Inputs are "deleted the moment the job reaches a terminal state" (`docs/gateway.md:149`): only a result
  deletes them. A job cancelled in the queue or ended by the reaper keeps its input until its
  row is purged and the orphan pass finds the directory.
- "New work stops immediately" (`docs/deploy-pods.md:69`): a poll that was parked before the drain claims
  with the pod record it read then (`routes/agent.ts:164`), so a drained pod is given one more job. For the same reason two
  polls of one pod that are woken by one kick count its free slots separately.
- Leases "are pushed out" by a restart (`db/jobs.ts:345`, `docs/gateway.md:105`): every lease gets the same new end, and one
  with 120 s left has 50 s afterwards.
- A WebP of the VP8 kind may state a dimension of zero, which `probeWebp` returns as it is (`domain/probe.ts:91`);
  `fitSize` throws on it and the client gets a 500 where every other malformed image is a 400.
- A JPEG may pad a marker with fill bytes `FF FF`; the walk reads the second as the marker and takes
  the next two bytes for a length, so it can refuse such a file.
- `GET /v1/videos?limit=abc` becomes `NaN`, and a fraction stays one, in the `LIMIT` of the query: a 500.
- `GET /v1/videos/:id/content` answers `content_expired` for a clip that was swept and for one that never reached the
  disk alike (`routes/videos.ts:376`).
- The purge of pods waits until they are "well past the job window" (`artifacts/cleanup.ts:72`), but uses the same retention as
  for jobs; `ChargesLand` holds because that is longer than a job's budget, which nothing checks.
- `GET /v1/models` lists a model whose pods are all draining, while a submission for it answers 503.
- Every repeated DELETE appends an event, and `events` returns the oldest 100 of a job.
- An agent that got SIGTERM finishes the poll that is parked, takes the job it brings, and cuts it off
  after 30 s; a video takes minutes, so the job runs again elsewhere and has lost an attempt.
- A SIGTERM between the fork of a child and the line `pids+=` (`scripts/docker-entrypoint.sh:56`) leaves that child
  without a signal and the entrypoint in `wait` until the provider kills the container.

`ClipServed`, `InputKept` and `ReadsHonoured` say what the code does guarantee about files: they
exempt jobs with tangled uploads or a failed checksum, which the history variables `tangled` and `rejected` record.
What happens to those is what `find_overwrite` and `find_lost` show.
`CleanExit` exempts what the code does not promise: a lost call, a gateway restart, and a second
lease, whose assignment may be dropped (`find_dropped`).

## Proofs

What is listed here holds for every value of the constants under the assumptions the modules name.
`JobStore` and `Gateway` assume a null pod outside `Pods`, natural time-outs and bounds, at least one
attempt, one slot and one row in the listing, and finitely many jobs. The other modules add their own, named below
where a proof needs them.

| Module | Theorem | States |
|---|---|---|
| `GatewayProofs` | `TypeCorrect` | `Spec => []TypeOK` |
| | `LeasesFence` | `Spec => []LeaseOwnership` |
| | `AttemptsAreCapped` | `Spec => []AttemptCap` |
| | `OutcomesAreFinal` | `Spec => FinalIsFinal` |
| | `ImplementsLifecycle` | `Spec => LifecycleSpec`, the refinement of `JobLifecycle` |
| `DispatchProofs` | `DispatchesOldestFirst` | `Spec => OldestFirst` |
| | `ClosingWaitsForNoPoll` | `Spec => []CloseWaitsForNoPoll` |
| | `SweepsSettle` | `Spec => SweepSettles` |
| | `LeasesAreHonoured` | `Spec => LeaseHonoured` |
| | `NoWakeupIsLost` | `Spec => []NoLostWakeup`, if the listing always shows a pod its work |
| `OutcomeProofs` | `OutcomesAreChargedOnce` | `Spec => []OutcomesChargedOnce` |
| `AgentsProofs` | `AgentsImplementGateway` | `AgentsSpec => Spec` |
| | `LeasesComeFromGrants` | `AgentsSpec => []LeasesOnlyFromGrants` |
| | `CancelsAreAskedFor` | `AgentsSpec => []NobodyCancelsUnasked` |
| | `CompletionsAreFenced` | `AgentsSpec => []FencedCompletion` |
| `ContainerProofs` | `ContainersImplementGateway` | `ContainerSpec => Spec` |
| | `ExitsAreClean` | `ContainerSpec => []CleanExit` |
| `FleetProofs` | `OutcomesFindTheirPod` | `FleetSpec => []ChargesLand` |
| | `NoSlotIsLost` | `FleetSpec => []SlotsNotOvercounted` |
| | `WaitingPodsKeepTheFleetOpen` | `FleetSpec => []IdleMeansOpen`, if all jobs are of one model |
| `ArtifactsProofs` | `FilesTypeCorrect` | `Spec => []TypeOK` of `Artifacts` |
| | `InputsAreKept` | `Spec => []InputKept` |
| | `ClipsAreServed` | `Spec => []ClipServed` |
| | `ReadsAreHonoured` | `Spec => ReadsHonoured` of `Artifacts` |
| `ImagesProofs` | `DerivedFramesAreAccepted` | `CheckSize` accepts what `FitSize` derives |
| | `AcceptedFramesFit` | `Spec => []FitIsAccepted` of `Images` |
| | `ReadsInBounds` | `Spec => InBounds` of `Images` |

### The gateway

The inductive invariant `IInv` is the conjunction of `TypeOK`, `LeaseOwnership`
and `AttemptCap`. None of the last two is inductive alone: that a
claim stays within the cap needs that queued jobs have an attempt left, which a
requeue establishes from the attempt count of the row, and that a held lease is the
newest one needs that attempts and grants agree. The argument is by row. Lemmas about the operators of `JobStore`
(`ClaimStep`, `FinishSteps`, `ReapStep`, ...) say that each takes a fenced, capped row and its
grants to a fenced, capped row, moves the job as `JobLifecycle` allows and leaves a finished row as it is.
`NextRows` then needs only to say, action by action, which operator each row went
through; invariance, finality and refinement all follow from it. `NextType` types
the variables that are not rows.

`DispatchProofs` adds two invariants. `NoPollUnlessUp`: polls are parked, or woken and about to claim, only while the process
is up; SIGTERM takes them all at once, since nothing is woken between two callbacks, and one that comes later does not park. `NoLostWakeup` itself: whoever queues a job kicks the parked polls, and a poll
parks only when its claim found nothing. That "nothing was claimed" means "nothing was there"
is the hypothesis `WindowShowsWork`: `claimForPod` looks at the oldest `LIMIT` queued jobs, so with more than one
model a pod's work may lie beyond them. With one model, as in `domain/models.ts`, the
hypothesis follows from the limit being positive. For `SweepSettles` the three passes are followed
through one row (`ReapSettles`), with what it was before them, and for `LeaseHonoured` the rows that only a result can
take from their holder are carried past every other statement.

`OutcomesChargedOnce` compares, for each pod, its counters with sets of jobs and of leases. No invariant is missing; what the
proof needs is that a step that ends a job of `p` takes that one job out of what `p` holds, and that
the jobs a sweep takes from `p` at once are as many as it charges.

### The agents

`AInv` says what an agent may know. What it keeps, reports, or is about to be handed is a lease that was granted
to its pod; a poll in progress is the handler of a request that is at the gateway; and whatever
tells an agent to abandon a job is *excused*: the client asked for it, or the lease the agent keeps is lost.
An excuse lasts, because a cancel request is never withdrawn and a lease that was lost is lost
for good; that is why an agent may act on an old answer. The part that holds this together is `AnswersFit`: an agent
awaits one request at a time and starts no task in between, so the answer it hears is
about the leases it still keeps. With it, every step of the composition is a step of `Gateway` or none
(`AgentsImplementGateway`), so all theorems about `Spec` hold of the agents too, and a report
of "cancelled" that is accepted ends a job that was flagged. A "completed" that is accepted ends the row under its newest
lease, after which no step writes it.

### The container

`CleanExit` allows one fault, which must be what ends the agent. `CInv` states that by cases. A container is *calm* until it is told to end
or loses a process; before the first fault all are (`CalmBefore`), and a calm container can
end only by a fault. A container is *spoilt* if the gateway restarted, a second fault came, or the one fault left it calm
or cut its agent off; once spoilt it stays so, and nothing is claimed of it. In every other container each
request at the gateway is the one the agent awaits (`CallsAwaited`), and each job given to the pod under its first lease is in an
answer on its way or among the tasks (`JobsCarried`). No step without a fault breaks that: an
answer is heard, an offer is taken unless a task of the job exists, and a task ends only with its job. An agent that is gone
awaits nothing and keeps nothing (`Asleep`), so it owes nothing.

### The fleet

`FInv` adds to `IInv` that a poll in progress is no older than its window and its pod's row no older than
the poll (`PollsFresh`), and that a pod which holds a job has a row and polled after the job was created or at
most `MaxPollWait` before (`HoldersSeen`), so that retention, counted from its last poll, cannot remove it first.
The assumptions it uses are in `FleetAssumption`: a window no longer than `POD_STALE_S`,
a retention that outlasts a job and a window, and a queue that takes at least one job; the
defaults satisfy them and `config.ts` does not check them. `PodsAssumption` (finitely many pods) lets the connected ones be counted.
That parked pods mean an empty queue needs `NoLostWakeup`, hence one model. `NoSlotIsLost` needs only
`IInv`: a reported lease that is still current is that of its row's pod.

### The files

The parts of `FilesInv` are named in the module. Three arguments carry it. An id is used once, so
that a job is over (`Over`), or its row gone (`Dead`), is true for good, and what
the cleanup or a late result saw before an await may be acted on after it. A directory is no older than
its job, and a submission that is still being written is too young to be an orphan (`RowFine`; `TtlAssumption` makes the
artifact time-to-live exceed the length of a request), so the orphan pass removes nothing that is needed. And
untangled uploads of a job are of one lease, which is no older than any that was answered; they send the same bytes, and the agent
hears at most one of them, the last to begin (`RetriesFine`). That one was the last to truncate the part file,
so what it has not finished nobody marks whole; what a rename by the attempt it repeats leaves is a clip
of the right bytes, and the next answer comes from an upload that renames its own (`PartsFine`). So the clip of a lease that was answered is the
one on the disk, and whole, until the job's time is over (`ClipsFine`), whichever uploads broke off, came late or were repeated.
A read in progress was told of a row whose job is, since, where it was or further (`ReadFinds`); `ReadsAreHonoured` takes each of its
steps in a state where `FilesInv` holds.

### Images

For uploads of any length and content, images of any size and any
set of sides a client may name:

- `DerivedFramesAreAccepted`: every frame `FitSize` may derive from a positive width and height is one `CheckSize`
  accepts, in the resolution it was derived for and no smaller one.
- `AcceptedFramesFit`: `Spec => []FitIsAccepted`, from it.
- `ReadsInBounds`: `Spec => InBounds`: no step relies on a byte past the end. Its inductive invariant adds to the types that
  an image to be sniffed is as long as the magic bytes it shows; in the walk the guards of the code carry the rest.

The arithmetic goes by cases on which side is too long. If one is, it becomes the limit itself
and the other is bounded through its ratio (`LongFrame`). If none is, `16 a` and `16 b` satisfy
`(32 a - 1)^2 h <= 4 B w` and its mirror for the budget `B`, because a side is rounded to the nearest pixel before it is cut to
a multiple of 16. Multiplied, the ratio cancels (`ProductOfSides`): `(32 a - 1) (32 b - 1) <= 4 B`.
That the half pixel each side may gain never passes the budget is then a fact about at most 80 blocks a side (`NoOvershoot480`,
`NoOvershoot720`): it holds for these two budgets and not for any. The longer side is at least the root of
the budget less a block, which for 720p is past the limit of 480p.

### Model-checked only

Liveness (`EveryJobFinishes`, `TasksEnd`, `ContainerEnds`, `DiskReclaimed`, `Answered`) is beyond
the prover, as are `ENABLED` and induction over data. The statements of the documents that fail are refuted by TLC's
counterexamples. No module here uses a `RECURSIVE` operator, which would rule out proofs.

## Not modelled

One replica only, as in the code; SQLite statements are atomic and durable. The
parsing of requests (multipart, text fields, JSON bodies), the status, list and events
routes, which only read, authentication and configuration, filenames and the shape
of replies: none keeps state or decides a transition. The columns no decision reads
(progress, error text, `upstream_id`, `started_at`, GPU and version of a pod) and the event trail.
Rates: a pod that is busy or not ready is answered at once and polls again
without a pause (`routes/agent.ts:158`). The `LIMIT` of `listQueued` is modelled, but with one model
in the registry it can hide no job. A cleanup pass is assumed to end before the next.
SGLang itself is external: only how a task with it ends is modelled.

## Plan

Done: `JobStore`, `JobLifecycle`, `Gateway`, `Fleet`, `Agents`, `Container`, `Artifacts`,
`Sizing` and `Images`, with proofs of every safety property that a run checks.

Left:

1. The claim window with two models, once the registry has two: `WindowShowsWork` is then a real condition.
2. Proofs about the step from the models of the parts to the whole: that the rows of `Artifacts` move as those of `Gateway` do.
3. The event trail (`job_events`) against the transitions it records.
