--------------------------------- MODULE Fleet --------------------------------
(***************************************************************************)
(* The pod registry over time: when a pod last polled, which pods count as *)
(* capacity, and when a row is forgotten.  Composes with module Gateway,   *)
(* whose actions it takes as they are: admission, the health and model     *)
(* routes and the cleanup read or delete the rows that polls write.        *)
(***************************************************************************)
EXTENDS Gateway

CONSTANTS
  MaxPollWait,  \* config.maxPollWaitMs: the longest a poll stays parked
  PodStale,     \* config.podStaleMs
  JobRetention  \* config.jobRetentionMs, for pods as well

\* What the defaults (25 s, 90 s, 7 days, 200 jobs) provide and config.ts does
\* not check.
ASSUME FleetAssumption ==
  /\ MaxPollWait \in Nat /\ PodStale \in Nat /\ PodStale >= MaxPollWait
  /\ JobRetention \in Nat /\ JobRetention >= JobTtl + MaxPollWait
  /\ MaxQueueDepth > 0
ASSUME PodsAssumption == IsFiniteSet(Pods)

VARIABLES
  seen,   \* last_seen_at of each pod, 0 when it has no row
  ready,  \* sglang_ready of each pod
  since   \* when each parked poll was parked

fleetVars == <<seen, ready, since>>

FleetInit ==
  /\ Init
  /\ seen = [p \in Pods |-> 0] /\ ready = [p \in Pods |-> FALSE]
  /\ since = [r \in Polls |-> 0]

-----------------------------------------------------------------------------
(* What the routes read *)

Connected(p) == pods[p].known /\ seen[p] >= now - PodStale

\* The pods that let POST /v1/videos admit a job for a model.
ServingPods(m) == {p \in Pods : Connected(p) /\ PodModel[p] = m /\ ~pods[p].draining}

Admits(m) == ServingPods(m) # {} /\ Cardinality(Queued(jobs)) < MaxQueueDepth

\* GET /v1/models: a model is listed while a connected pod serves it.
Listed(m) == \E p \in Pods : Connected(p) /\ PodModel[p] = m

InFlight(p) == JobsOf(p, "in_progress")

\* GET /health: the slots of the connected pods, busy or not.
Health ==
  LET up == {p \in Pods : Connected(p)}
      Busy(p) == Cardinality(InFlight(p))
  IN [connected |-> Cardinality(up),
      busy |-> MapThenSumSet(Busy, up),
      total |-> MapThenSumSet(
                  LAMBDA p : FreeSlots(pods[p].draining, ready[p], Busy(p)) + Busy(p), up)]

-----------------------------------------------------------------------------
(* Steps *)

\* A poll that ends takes its window with it.
Windows == since' = [r \in Polls |-> IF polls'[r].st = "idle" THEN 0 ELSE since[r]]

\* Faulty form: last_seen_at is written by the insert only.
TouchOnce(p, isReady) ==
  /\ seen' = [seen EXCEPT ![p] = IF pods[p].known THEN @ ELSE now]
  /\ ready' = [ready EXCEPT ![p] = isReady]

Touch(p, isReady) ==
  /\ seen' = [seen EXCEPT ![p] = now]
  /\ ready' = [ready EXCEPT ![p] = isReady]

FleetPoll(r, p, isReady, report) ==
  /\ Poll(r, p, isReady, report)
  /\ Touch(p, isReady)
  /\ since' = [since EXCEPT ![r] = IF polls'[r].st = "parked" THEN now ELSE 0]

FleetSubmit(j) ==
  /\ SubmitBegin(j) /\ Admits(JobModel[j])
  /\ UNCHANGED fleetVars

\* Faulty form: pods are forgotten as soon as they are stale.
ForgottenEarly == {p \in Pods : pods[p].known /\ seen[p] < now - PodStale}

Forgotten == {p \in Pods : pods[p].known /\ seen[p] < now - JobRetention}

\* The reaper's timer is far shorter than a tick of the clock: time does not
\* pass in a running process before what is due has been swept.
Swept == \A j \in Jobs : ReapRow(jobs[j]) = jobs[j]

\* The end of a cleanup pass: old rows go, with their drain flag and counters.
\* The first pass comes long after the reaper's first sweep.
PurgePods ==
  /\ phase # "down" /\ Quiet /\ Swept
  /\ Forgotten # {}
  /\ pods' = [p \in Pods |-> IF p \in Forgotten
                             THEN [known |-> FALSE, draining |-> FALSE, done |-> 0, failed |-> 0]
                             ELSE pods[p]]
  /\ seen' = [p \in Pods |-> IF p \in Forgotten THEN 0 ELSE seen[p]]
  /\ ready' = [p \in Pods |-> p \notin Forgotten /\ ready[p]]
  /\ UNCHANGED <<now, phase, jobs, grants, polls, settling, restarts, since>>

\* A parked poll is answered when its window closes.
FleetTick ==
  /\ Tick
  /\ phase = "up" => Swept
  /\ \A r \in Polls : polls[r].st = "parked" => now < since[r] + MaxPollWait
  /\ UNCHANGED fleetVars

\* The handlers that neither read nor write what this module adds.
GatewayAsIs ==
  /\ \/ \E j \in Jobs : \E l \in 1..Len(grants[j]) :
          \/ ResultCompleted(j, l) \/ ResultCancelled(j, l) \/ ResultRetried(j, l)
          \/ \E retryable \in BOOLEAN : ResultFailed(j, l, retryable)
     \/ \E j \in Jobs : Delete(j) \/ SubmitCommit(j) \/ ResultSettled(j)
     \/ \E p \in Pods, draining \in BOOLEAN : SetDraining(p, draining)
     \/ \E r \in Polls : PollWoken(r) \/ PollTimeout(r)
     \/ Sweep \/ Stop \/ Exit \/ Crash \/ Start
  /\ Windows /\ UNCHANGED <<seen, ready>>

FleetNext ==
  \/ \E r \in Polls, p \in Pods, isReady \in BOOLEAN :
        \E report \in Reports(p) : FleetPoll(r, p, isReady, report)
  \/ \E j \in Jobs : FleetSubmit(j)
  \/ PurgePods \/ FleetTick \/ GatewayAsIs

FleetSpec == FleetInit /\ [][FleetNext]_<<vars, fleetVars>>

-----------------------------------------------------------------------------
(* Properties *)

\* videos.ts:151-186: while a pod that is not draining waits for work, the
\* fleet is open: its model is listed, it counts as connected however long the
\* poll has been parked, and no client is told that there is no capacity or
\* that the queue is full.  (The registry holds one model.)
IdleMeansOpen ==
  \A r \in Polls, j \in Jobs :
    LET p == polls[r].pod IN
    polls[r].st = "parked" /\ PodModel[p] = JobModel[j]
      => /\ Connected(p) /\ Listed(JobModel[j]) /\ Health.connected > 0
         /\ ~pods[p].draining => Admits(JobModel[j])

\* pods.ts:128-137: a pod is never forgotten while it holds a job, through
\* restarts and any time the gateway was down, so the outcome that is charged
\* to it at the end of the job always finds its row.
ChargesLand == \A j \in Jobs : jobs[j].state = "in_progress" => pods[jobs[j].pod].known

\* agent.ts:113-154 and health.ts:21-40: whatever a pod reports, the jobs that
\* are counted against its slots are jobs the table says it runs; a poll may
\* offer a pod more slots than /health shows, never fewer, so no stale report
\* leaves a pod idle.
SlotsNotOvercounted ==
  \A p \in Pods : \A report \in Reports(p) :
    /\ StillOwned(report) \subseteq InFlight(p)
    /\ \A draining, isReady \in BOOLEAN :
         FreeSlots(draining, isReady, Cardinality(StillOwned(report)))
           >= FreeSlots(draining, isReady, Cardinality(InFlight(p)))
===============================================================================
