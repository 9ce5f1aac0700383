------------------------------- MODULE Gateway -------------------------------
(***************************************************************************)
(* The gateway process: the job table, the pod table, the parked polls and *)
(* every handler that writes them.  Node runs one handler at a time; a     *)
(* handler gives way only at an await, and is split here exactly there.    *)
(*                                                                         *)
(* Pods and clients are an open environment: a pod may present, in a poll  *)
(* or a result, any lease it was ever granted (delayed, duplicated or      *)
(* repeated calls, restarted agents), and clients may call at any time.    *)
(* The agent's own loop is module Agents.                                  *)
(***************************************************************************)
EXTENDS JobStore, FiniteSetsExt

CONSTANTS
  Polls,          \* poll requests the gateway may be serving at once
  JobModel,       \* the registered model each job asks for
  PodModel,       \* the model each pod's model_path resolves to
  MaxInFlight,    \* max_in_flight declared by the pods
  ListLimit,      \* LIMIT of listQueued
  MaxQueueDepth,  \* config.maxQueueDepth
  MaxTime,        \* bound of the model: the clock stops here
  MaxRestarts     \* bound of the model: how often the process may stop

ASSUME CapacityAssumption == MaxInFlight \in Nat \ {0} /\ ListLimit \in Nat \ {0}
                             /\ MaxQueueDepth \in Nat
ASSUME BoundAssumption == MaxTime \in Nat /\ MaxRestarts \in Nat
ASSUME JobsAssumption == IsFiniteSet(Jobs)

VARIABLES
  now,       \* the wall clock
  phase,     \* of the process: "up", "closing" (after SIGTERM) or "down"
  jobs,      \* the jobs table (survives a restart)
  grants,    \* grants[j][k]: the pod that lease k of job j was given to
  pods,      \* the pods table (survives a restart)
  polls,     \* the poll handlers in progress
  settling,  \* jobs whose result handler is suspended in removeInput
  restarts   \* how often the process stopped

vars == <<now, phase, jobs, grants, pods, polls, settling, restarts>>

IdlePoll == [st |-> "idle", pod |-> NoPod, slots |-> 0]
PollRecord == [st : {"idle", "parked", "woken"}, pod : Pods \cup {NoPod}, slots : Nat]

Init ==
  /\ now = 1 /\ phase = "up" /\ restarts = 0
  /\ jobs = [j \in Jobs |-> AbsentRow]
  /\ grants = [j \in Jobs |-> <<>>]
  /\ pods = [p \in Pods |-> [known |-> FALSE, draining |-> FALSE, done |-> 0, failed |-> 0]]
  /\ polls = [r \in Polls |-> IdlePoll]
  /\ settling = {}

\* Promise continuations run before the event loop takes the next request,
\* timer or file callback: no handler starts while a woken poll has not run.
Quiet == \A r \in Polls : polls[r].st # "woken"

\* A handler may start.  No handler asks whether the process closes: close()
\* refuses the requests that come after it, but waits for those the router had
\* taken before, whose handlers start when their bodies have arrived.
Serving == phase # "down" /\ Quiet

-----------------------------------------------------------------------------
(* Waiters *)

Kicked == [r \in Polls |-> IF polls[r].st = "parked"
                           THEN [polls[r] EXCEPT !.st = "woken"] ELSE polls[r]]

\* Faulty form: SIGTERM leaves the long polls parked.
NotReleased == polls

Released == [r \in Polls |-> IF polls[r].st = "parked" THEN IdlePoll ELSE polls[r]]

-----------------------------------------------------------------------------
(* Dispatch *)

FreeSlots(draining, ready, inFlight) ==
  IF draining \/ ~ready \/ inFlight >= MaxInFlight THEN 0 ELSE MaxInFlight - inFlight

Queued(rows) == {j \in Jobs : rows[j].state = "queued"}

\* Faulty form: the ORDER BY is lost.
AnyOf(rows, S, n) ==
  {C \in SUBSET S : Cardinality(C) <= n /\ (C # S => Cardinality(C) = n)}

\* ORDER BY created_at ASC LIMIT n; rows created in the same millisecond may
\* come in either order.
Oldest(rows, S, n) ==
  {C \in SUBSET S :
     /\ Cardinality(C) <= n
     /\ C # S => Cardinality(C) = n
     /\ \A j \in C, k \in S \ C : rows[j].created <= rows[k].created}

Servable(S, p) == {j \in S : JobModel[j] = PodModel[p]}

\* The sets of jobs claimForPod may take for pod p with this many free slots.
Claims(rows, p, slots) ==
  UNION {Oldest(rows, Servable(window, p), slots) :
           window \in Oldest(rows, Queued(rows), ListLimit)}

ClaimAll(rows, C, p) ==
  [j \in Jobs |-> IF j \in C
                  THEN Claim(rows[j], p, Len(grants[j]) + 1, now + LeaseTtl)
                  ELSE rows[j]]

GrantAll(C, p) == [j \in Jobs |-> IF j \in C THEN Append(grants[j], p) ELSE grants[j]]

\* What a pod may report in flight: per job no lease (0) or one it was granted.
Reports(p) ==
  {f \in [Jobs -> 0..MaxAttempts] :
     \A j \in Jobs : f[j] # 0 => f[j] <= Len(grants[j]) /\ grants[j][f[j]] = p}

RenewAll(report) ==
  [j \in Jobs |-> IF report[j] = 0 THEN jobs[j]
                  ELSE RenewLease(jobs[j], report[j], now + LeaseTtl)]

\* Faulty form: a job the pod only believes to hold takes a slot.
AllReported(report) == {j \in Jobs : report[j] # 0}

StillOwned(report) == {j \in Jobs : report[j] # 0 /\ Holds(jobs[j], report[j])}

\* POST /v1/agent/poll up to its await, or to its end when it does not park.
\* The claim does not ask whether the process closes, the wait does.
Poll(r, p, ready, report) ==
  LET draining == pods[p].draining
      slots == FreeSlots(draining, ready, Cardinality(StillOwned(report)))
      rows == RenewAll(report)
  IN /\ Serving /\ polls[r].st = "idle"
     /\ pods' = [pods EXCEPT ![p].known = TRUE]
     /\ \E C \in Claims(rows, p, slots) :
          /\ jobs' = ClaimAll(rows, C, p)
          /\ grants' = GrantAll(C, p)
          /\ polls' = IF C = {} /\ slots > 0 /\ ~draining /\ phase = "up"
                      THEN [polls EXCEPT ![r] = [st |-> "parked", pod |-> p, slots |-> slots]]
                      ELSE polls
     /\ UNCHANGED <<now, phase, settling, restarts>>

\* The rest of the handler when a kick resolved the wait: it claims with the
\* pod record and the slots it read before it parked.
PollWoken(r) ==
  LET p == polls[r].pod IN
  /\ polls[r].st = "woken"
  /\ \E C \in Claims(jobs, p, polls[r].slots) :
       /\ jobs' = ClaimAll(jobs, C, p)
       /\ grants' = GrantAll(C, p)
  /\ polls' = [polls EXCEPT ![r] = IdlePoll]
  /\ UNCHANGED <<now, phase, pods, settling, restarts>>

\* The poll window closes with no work.
PollTimeout(r) ==
  /\ Quiet /\ polls[r].st = "parked"
  /\ polls' = [polls EXCEPT ![r] = IdlePoll]
  /\ UNCHANGED <<now, phase, jobs, grants, pods, settling, restarts>>

-----------------------------------------------------------------------------
(* POST /v1/agent/jobs/:id/result *)

\* pods.recordOutcome: counts on the row's pod, if there is one.
Outcome(p, c, f) ==
  [pods EXCEPT ![p].done = @ + c, ![p].failed = @ + f]

\* The lease test that opens the handler (no await follows it before the CAS).
ResultAccepted(j, l) ==
  /\ Serving
  /\ l \in 1..Len(grants[j])
  /\ Holds(jobs[j], l)

ResultCompleted(j, l) ==
  /\ ResultAccepted(j, l)
  /\ jobs' = [jobs EXCEPT ![j] = Complete(@, l)]
  /\ pods' = Outcome(jobs[j].pod, 1, 0)
  /\ settling' = settling \cup {j}
  /\ UNCHANGED <<now, phase, grants, polls, restarts>>

ResultCancelled(j, l) ==
  /\ ResultAccepted(j, l)
  /\ jobs' = [jobs EXCEPT ![j] = MarkCancelled(@, l)]
  /\ settling' = settling \cup {j}
  /\ UNCHANGED <<now, phase, grants, pods, polls, restarts>>

\* Faulty form: the parked polls are not told that a job came back.
ResultRetriedSilently(j, l) ==
  /\ ResultAccepted(j, l)
  /\ jobs[j].attempts < MaxAttempts
  /\ jobs' = [jobs EXCEPT ![j] = Requeue(@, l)]
  /\ pods' = Outcome(jobs[j].pod, 0, 1)
  /\ UNCHANGED <<now, phase, grants, polls, settling, restarts>>

\* A retryable failure with attempts left goes back to the queue.
ResultRetried(j, l) ==
  /\ ResultAccepted(j, l)
  /\ jobs[j].attempts < MaxAttempts
  /\ jobs' = [jobs EXCEPT ![j] = Requeue(@, l)]
  /\ pods' = Outcome(jobs[j].pod, 0, 1)
  /\ polls' = Kicked
  /\ UNCHANGED <<now, phase, grants, settling, restarts>>

ResultFailed(j, l, retryable) ==
  /\ ResultAccepted(j, l)
  /\ ~(retryable /\ jobs[j].attempts < MaxAttempts)
  /\ jobs' = [jobs EXCEPT ![j] = Fail(@, l)]
  /\ pods' = Outcome(jobs[j].pod, 0, 1)
  /\ settling' = settling \cup {j}
  /\ UNCHANGED <<now, phase, grants, polls, restarts>>

\* After removeInput (and clearInput): the handler's final kick.
ResultSettled(j) ==
  /\ phase # "down" /\ Quiet /\ j \in settling
  /\ settling' = settling \ {j}
  /\ polls' = Kicked
  /\ UNCHANGED <<now, phase, jobs, grants, pods, restarts>>

-----------------------------------------------------------------------------
(* Client and operator routes *)

\* POST /v1/videos from the end of the upload (whose await precedes every test
\* of this state) to writeInput.  Whether a pod polled recently enough to count
\* as connected is not decided here: any known pod may serve.
SubmitBegin(j) ==
  /\ Serving /\ jobs[j].state = "absent"
  /\ now + JobTtl < MaxTime
  /\ \E p \in Pods : pods[p].known /\ ~pods[p].draining /\ PodModel[p] = JobModel[j]
  /\ Cardinality(Queued(jobs)) < MaxQueueDepth
  /\ jobs' = [jobs EXCEPT ![j] = [AbsentRow EXCEPT !.state = "writing", !.created = now]]
  /\ UNCHANGED <<now, phase, grants, pods, polls, settling, restarts>>

\* The input is on disk: insert the row and wake the parked polls.
SubmitCommit(j) ==
  /\ phase # "down" /\ Quiet /\ jobs[j].state = "writing"
  /\ jobs' = [jobs EXCEPT ![j] = Created(jobs[j].created)]
  /\ polls' = Kicked
  /\ UNCHANGED <<now, phase, grants, pods, settling, restarts>>

\* DELETE /v1/videos/:id
Delete(j) ==
  /\ Serving /\ IsLive(jobs[j])
  /\ jobs' = [jobs EXCEPT ![j] = IF @.state = "queued" THEN CancelQueued(@, now)
                                 ELSE RequestCancel(@, now)]
  /\ UNCHANGED <<now, phase, grants, pods, polls, settling, restarts>>

\* POST and DELETE /v1/pods/:id/drain.  Neither touches a parked poll.
SetDraining(p, draining) ==
  /\ Serving /\ pods[p].known
  /\ pods' = [pods EXCEPT ![p].draining = draining]
  /\ UNCHANGED <<now, phase, jobs, grants, polls, settling, restarts>>

-----------------------------------------------------------------------------
(* The reaper: three passes, each over the rows the one before it left *)

\* Faulty form: the attempt cap is off by one.
ReapLeaseLate(row) ==
  IF ~LeaseExpired(row, now) THEN row
  ELSE IF row.attempts > MaxAttempts THEN Fail(row, row.lease)
       ELSE Requeue(row, row.lease)

ReapLease(row) ==
  IF ~LeaseExpired(row, now) THEN row
  ELSE IF row.attempts >= MaxAttempts THEN Fail(row, row.lease)
       ELSE Requeue(row, row.lease)

ReapDeadline(row) == IF Overdue(row, now) THEN Fail(row, 0) ELSE row

ReapCancel(row) == IF StaleCancel(row, now) THEN MarkCancelled(row, 0) ELSE row

\* Faulty form: the deadline pass looks only at rows the first pass kept.
ReapOnce(row) ==
  IF LeaseExpired(row, now) THEN ReapLease(row) ELSE ReapCancel(ReapDeadline(row))

ReapRow(row) == ReapCancel(ReapDeadline(ReapLease(row)))

\* The pod a sweep charges with a failure: the one that held an expired lease
\* at the attempt cap, or the holder of an overdue job.  A requeued row has no
\* pod left to charge.
ChargedPod(row) ==
  IF \/ LeaseExpired(row, now) /\ row.attempts >= MaxAttempts
     \/ Overdue(ReapLease(row), now)
  THEN ReapLease(row).pod ELSE NoPod

RequeuedBySweep(row) == LeaseExpired(row, now) /\ row.attempts < MaxAttempts

Sweep ==
  /\ phase = "up" /\ Quiet
  /\ jobs' = [j \in Jobs |-> ReapRow(jobs[j])]
  /\ pods' = [p \in Pods |-> [pods[p] EXCEPT
                 !.failed = @ + Cardinality({j \in Jobs : ChargedPod(jobs[j]) = p})]]
  /\ polls' = IF \E j \in Jobs : RequeuedBySweep(jobs[j]) THEN Kicked ELSE polls
  /\ UNCHANGED <<now, phase, grants, settling, restarts>>

-----------------------------------------------------------------------------
(* Process and clock *)

LostSubmits == [j \in Jobs |-> IF jobs[j].state = "writing" THEN AbsentRow ELSE jobs[j]]

\* SIGTERM: abort() settles every parked wait as not woken, then the reaper's
\* timer is cleared and the (now empty) parking lot is kicked.
Stop ==
  /\ phase = "up" /\ Quiet /\ restarts < MaxRestarts
  /\ phase' = "closing"
  /\ polls' = Released
  /\ UNCHANGED <<now, jobs, grants, pods, settling, restarts>>

\* The process is gone, with everything it kept in memory.
Halt ==
  /\ phase # "down" /\ Quiet /\ restarts < MaxRestarts
  /\ phase' = "down" /\ restarts' = restarts + 1
  /\ jobs' = LostSubmits
  /\ polls' = [r \in Polls |-> IdlePoll]
  /\ settling' = {}
  /\ UNCHANGED <<now, grants, pods>>

\* app.close() returned: no handler is left.
Exit ==
  /\ phase = "closing" /\ settling = {}
  /\ \A j \in Jobs : jobs[j].state # "writing"
  /\ \A r \in Polls : polls[r].st = "idle"
  /\ Halt

Crash == Halt

Start ==
  /\ phase = "down"
  /\ phase' = "up"
  /\ jobs' = [j \in Jobs |-> RecoverOnStartup(jobs[j], now)]
  /\ UNCHANGED <<now, grants, pods, polls, settling, restarts>>

Tick ==
  /\ Quiet /\ now < MaxTime
  /\ now' = now + 1
  /\ UNCHANGED <<phase, jobs, grants, pods, polls, settling, restarts>>

-----------------------------------------------------------------------------

AgentStep ==
  \/ \E r \in Polls, p \in Pods, ready \in BOOLEAN :
        \E report \in Reports(p) : Poll(r, p, ready, report)
  \/ \E j \in Jobs : \E l \in 1..Len(grants[j]) :
        \/ ResultCompleted(j, l)
        \/ ResultCancelled(j, l)
        \/ ResultRetried(j, l)
        \/ \E retryable \in BOOLEAN : ResultFailed(j, l, retryable)

ClientStep ==
  \/ \E j \in Jobs : SubmitBegin(j) \/ Delete(j)
  \/ \E p \in Pods, draining \in BOOLEAN : SetDraining(p, draining)

GatewayStep ==
  \/ \E r \in Polls : PollWoken(r) \/ PollTimeout(r)
  \/ \E j \in Jobs : SubmitCommit(j) \/ ResultSettled(j)
  \/ Sweep

ProcessStep == Stop \/ Exit \/ Crash \/ Start \/ Tick

Next == AgentStep \/ ClientStep \/ GatewayStep \/ ProcessStep

Spec == Init /\ [][Next]_vars

\* The clock, the reaper's timer, file callbacks and resumed continuations are
\* never starved by the event loop, a process asked to close does close, and a
\* stopped process is started again.  Pods and clients owe nothing.
Fairness ==
  /\ WF_vars(Tick) /\ WF_vars(Sweep) /\ WF_vars(Start) /\ WF_vars(Exit)
  /\ \A j \in Jobs : WF_vars(SubmitCommit(j)) /\ WF_vars(ResultSettled(j))
  /\ \A r \in Polls : WF_vars(PollWoken(r))

FairSpec == Spec /\ Fairness

-----------------------------------------------------------------------------
(* Invariants *)

\* Every variable ranges over what the tables and the handlers can hold.
TypeOK ==
  /\ now \in Nat \ {0} /\ phase \in {"up", "closing", "down"} /\ restarts \in Nat
  /\ jobs \in [Jobs -> Row]
  /\ grants \in [Jobs -> Seq(Pods)]
  /\ pods \in [Pods -> [known : BOOLEAN, draining : BOOLEAN, done : Nat, failed : Nat]]
  /\ polls \in [Polls -> PollRecord]
  /\ \A r \in Polls : polls[r].st # "idle" => polls[r].pod \in Pods
  /\ settling \in SUBSET Jobs

\* Of a row and the pods its leases were granted to.
Fenced(row, g) ==
  /\ row.state = "in_progress" =>
       row.lease = Len(g) /\ row.lease > 0 /\ row.pod = g[row.lease] /\ row.expires > 0
  /\ row.state # "in_progress" => row.lease = 0 /\ row.expires = 0
  /\ row.state = "completed" => Len(g) > 0 /\ row.pod = g[Len(g)]
  /\ row.state \in {"absent", "writing", "queued"} => row.pod = NoPod

Capped(row, g) ==
  /\ row.attempts = Len(g) /\ row.attempts <= MaxAttempts
  /\ row.state \in {"absent", "writing"} => row.attempts = 0
  /\ row.state = "queued" => row.attempts < MaxAttempts

\* Lease fencing (db/jobs.ts:5-13): a job in progress is held under the newest
\* lease granted for it, by the pod that was given that lease; a job that is
\* not in progress honours no lease, a queued one belongs to no pod, and a
\* completed one is credited to the pod with the last lease.
LeaseOwnership == \A j \in Jobs : Fenced(jobs[j], grants[j])

\* The attempt cap (reaper.ts:43, routes/agent.ts:330): attempts counts exactly
\* the leases granted, never more than MaxAttempts, and a job is only ever put
\* back in the queue with an attempt left.
AttemptCap == \A j \in Jobs : Capped(jobs[j], grants[j])

\* No lost wake-up (scheduler/waiters.ts): while a poll is parked no queued job
\* waits that its pod could run; whoever queues a job wakes the parked polls
\* before anything else happens.
NoLostWakeup ==
  \A r \in Polls : polls[r].st = "parked" => Servable(Queued(jobs), polls[r].pod) = {}

\* The jobs that pod p holds, or was the last to hold, in a state; and the
\* leases it was granted.
JobsOf(p, state) == {j \in Jobs : jobs[j].state = state /\ jobs[j].pod = p}
LeasesOf(p) ==
  {g \in Jobs \X (1..MaxAttempts) : g[2] <= Len(grants[g[1]]) /\ grants[g[1]][g[2]] = p}

\* pods.recordOutcome: each lease granted to a pod is charged to that pod at most
\* once, and never while it is held; each job it completed is credited to it
\* exactly once.
OutcomesChargedOnce ==
  \A p \in Pods :
    /\ pods[p].done = Cardinality(JobsOf(p, "completed"))
    /\ pods[p].done + pods[p].failed + Cardinality(JobsOf(p, "in_progress"))
         <= Cardinality(LeasesOf(p))

\* Shutdown (index.ts:63-68): "Release parked long-polls first; otherwise close()
\* waits out the full poll window on every idle pod".  While the process closes
\* no poll is parked or about to claim after a wait: neither one that abort()
\* passed over before the kick, nor one whose handler came to its wait later.
CloseWaitsForNoPoll == phase = "closing" => \A r \in Polls : polls[r].st = "idle"

-----------------------------------------------------------------------------
(* Action properties *)

\* A finished job stays as it is (routes/agent.ts:281-283): no late result,
\* renewal, cancel, sweep or restart writes any column of its row.
FinalIsFinal == [][\A j \in Jobs : IsTerminal(jobs[j]) => jobs'[j] = jobs[j]]_vars

\* A pod that renews in time is left alone: a job in progress whose lease and
\* deadline have not passed and whose cancel is not overdue leaves its holder
\* only by a result that presents its lease.
LeaseHonoured ==
  [][\A j \in Jobs :
       LET row == jobs[j] IN
       /\ row.state = "in_progress" /\ row.expires >= now
       /\ Deadline(row) >= now /\ ~StaleCancel(row, now)
       /\ ~Holds(jobs'[j], row.lease)
       => \/ ResultCompleted(j, row.lease) \/ ResultCancelled(j, row.lease)
          \/ ResultRetried(j, row.lease) \/ ResultFailed(j, row.lease, TRUE)
          \/ ResultFailed(j, row.lease, FALSE)]_vars

\* Oldest first (scheduler/claim.ts:88, listQueued): no job is dispatched while
\* an older one for the same model stays in the queue.
OldestFirst ==
  [][\A j, k \in Jobs :
       /\ jobs[j].state = "queued" /\ jobs[k].state = "queued"
       /\ JobModel[j] = JobModel[k] /\ jobs[j].created < jobs[k].created
       /\ grants'[k] # grants[k]
       => grants'[j] # grants[j]]_vars

\* The three timers of the reaper (reaper.ts:2-8) leave nothing behind: after a
\* sweep no lease is expired, no live job is overdue and no cancel of a running
\* job is older than its grace, whatever the passes did to each other's rows.  A
\* job whose time or last lease was over has failed, though its cancel was
\* overdue as well.
SweepSettles ==
  [][Sweep => \A j \in Jobs :
       /\ ~LeaseExpired(jobs'[j], now) /\ ~Overdue(jobs'[j], now)
       /\ ~StaleCancel(jobs'[j], now)
       /\ \/ Overdue(jobs[j], now)
          \/ LeaseExpired(jobs[j], now) /\ jobs[j].attempts = MaxAttempts
          => jobs'[j].state = "failed"]_vars

-----------------------------------------------------------------------------
(* The promise to clients, and liveness *)

Lifecycle == INSTANCE JobLifecycle WITH
  status <- [j \in Jobs |-> IF jobs[j].state \in {"absent", "writing"} THEN "none"
                            ELSE jobs[j].state],
  tries <- [j \in Jobs |-> jobs[j].attempts]

\* The gateway implements the abstract job life cycle: every step of every
\* handler, sweeps and restarts included, is a legal move of each job.
LifecycleSpec == Lifecycle!Spec

\* Every accepted job ends (reaper.ts:2-8), with no help from any pod, across
\* restarts of the gateway.
EveryJobFinishes == \A j \in Jobs : IsLive(jobs[j]) ~> IsTerminal(jobs[j])

-----------------------------------------------------------------------------
(* Statements of the documents that the code does not keep; see the README *)

\* docs/gateway.md:106: if the pod never acknowledges a cancel, "the reaper
\* forces the transition after CANCEL_GRACE_S".
CancelForced ==
  [][Sweep => \A j \in Jobs : jobs[j].cancelAt # 0 /\ jobs[j].cancelAt < now - CancelGrace
                              => ~IsLive(jobs'[j])]_vars
=============================================================================
