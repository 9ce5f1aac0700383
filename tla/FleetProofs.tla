----------------------------- MODULE FleetProofs ------------------------------
(***************************************************************************)
(* The pod registry.  A pod's row is as young as what hangs on it: a poll  *)
(* it has parked, which wrote last_seen_at when it came in, and a job it   *)
(* holds, which was created before the poll that took it ended.  A poll    *)
(* lasts MaxPollWait at most and a job JobTtl, so a row that either of     *)
(* them needs is never as old as JobRetention.                             *)
(***************************************************************************)
EXTENDS Fleet, DispatchProofs

fvars == <<vars, fleetVars>>
-----------------------------------------------------------------------------
(* The invariant *)

FleetTyped ==
  /\ seen \in [Pods -> Nat] /\ since \in [Polls -> Nat]
  /\ \A p \in Pods : seen[p] <= now

\* A poll in progress is within its window, and wrote its pod's row.
PollsFresh ==
  \A r \in Polls : polls[r].st # "idle" =>
    /\ pods[polls[r].pod].known
    /\ since[r] <= now /\ since[r] <= seen[polls[r].pod] /\ now <= since[r] + MaxPollWait

\* No job is from the future, and a pod that holds one polled after its creation
\* or shortly before.
HoldersSeen ==
  \A j \in Jobs :
    /\ jobs[j].created <= now
    /\ jobs[j].state = "in_progress" =>
         pods[jobs[j].pod].known /\ jobs[j].created <= seen[jobs[j].pod] + MaxPollWait

FInv == IInv /\ FleetTyped /\ PollsFresh /\ HoldersSeen

-----------------------------------------------------------------------------
(* What the steps do to a row's age and holder *)

\* created_at stays, and a row that is in progress afterwards was so before,
\* with the same pod.
Kept(row, new) ==
  /\ new.created = row.created
  /\ new.state = "in_progress" => row.state = "in_progress" /\ new.pod = row.pod

\* Every statement but the claim keeps to that.
LEMMA StatementsKeep ==
  ASSUME NEW row \in Row, NEW l \in Nat, NEW t \in Nat
  PROVE  /\ Kept(row, row)
         /\ Kept(row, Complete(row, l)) /\ Kept(row, Fail(row, l)) /\ Kept(row, Requeue(row, l))
         /\ Kept(row, MarkCancelled(row, l))
         /\ Kept(row, CancelQueued(row, t)) /\ Kept(row, RequestCancel(row, t))
         /\ Kept(row, RecoverOnStartup(row, t))
<1> USE DEF Kept, Row
<1>1. Kept(row, row) /\ Kept(row, Complete(row, l)) /\ Kept(row, Fail(row, l))
  BY DEF Complete, Fail, Finished
<1>2. Kept(row, Requeue(row, l)) /\ Kept(row, MarkCancelled(row, l))
  BY DEF Requeue, MarkCancelled, Finished
<1>3. Kept(row, CancelQueued(row, t)) /\ Kept(row, RequestCancel(row, t))
  BY DEF CancelQueued, RequestCancel
<1>4. Kept(row, RecoverOnStartup(row, t))
  BY DEF RecoverOnStartup
<1> QED BY <1>1, <1>2, <1>3, <1>4

\* So does a sweep.
LEMMA ReapKeeps ==
  ASSUME NEW row, NEW g, RowInv(row, g), now \in Nat
  PROVE  Kept(row, ReapRow(row))
<1> DEFINE a == ReapLease(row)
           b == ReapDeadline(a)
<1>1. a \in Row /\ Kept(row, a)
  BY DEF RowInv, ReapLease, Fail, Requeue, Finished, Row, RowStates, VideoStates, TerminalStates,
     Kept
<1> HIDE DEF a
<1>2. b \in Row /\ Kept(a, b)
  BY <1>1 DEF ReapDeadline, Fail, Finished, Row, RowStates, VideoStates, TerminalStates, Kept
<1>3. ReapRow(row) = ReapCancel(b)
  BY DEF ReapRow, a, b
<1> HIDE DEF b
<1>4. Kept(b, ReapCancel(b))
  BY <1>2, StatementsKeep DEF ReapCancel
<1> QED BY <1>1, <1>2, <1>3, <1>4 DEF Kept

\* A row that a sweep leaves as it is has time left.
LEMMA SweptInTime ==
  ASSUME NEW row \in Row, now \in Nat, ReapRow(row) = row, row.state = "in_progress"
  PROVE  now <= row.created + JobTtl
BY ReapedRow, TimeAssumption DEF Overdue, IsLive, Deadline, Row

\* A dispatch gives its jobs to the pod of its poll and keeps the rest.
LEMMA DispatchKeeps ==
  ASSUME TypeOK, NEW rows, Renewed(rows), NEW p \in Pods, NEW C, jobs' = ClaimAll(rows, C, p),
         NEW j \in Jobs
  PROVE  /\ jobs'[j].created = jobs[j].created
         /\ Kept(jobs[j], jobs'[j]) \/ jobs'[j].pod = p
<1>1. /\ rows[j] \in Row /\ rows[j].state = jobs[j].state /\ rows[j].created = jobs[j].created
      /\ rows[j].pod = jobs[j].pod
  BY DEF Renewed
<1>2. jobs'[j] = rows[j] \/ jobs'[j] = Claim(rows[j], p, Len(grants[j]) + 1, now + LeaseTtl)
  BY DEF ClaimAll
<1>3. ASSUME NEW l, NEW t
      PROVE  /\ Claim(rows[j], p, l, t).created = rows[j].created
             /\ Claim(rows[j], p, l, t) = rows[j] \/ Claim(rows[j], p, l, t).pod = p
  BY <1>1 DEF Claim, Row
<1> QED BY <1>1, <1>2, <1>3 DEF Kept

\* What else is done to the rows keeps every one, or makes or loses one that is
\* not in progress.
OtherStep ==
  \/ \E j \in Jobs : \E l \in 1..Len(grants[j]) :
       \/ ResultCompleted(j, l) \/ ResultCancelled(j, l) \/ ResultRetried(j, l)
       \/ \E retryable \in BOOLEAN : ResultFailed(j, l, retryable)
  \/ \E j \in Jobs : SubmitBegin(j) \/ SubmitCommit(j) \/ Delete(j)
  \/ Sweep \/ Halt \/ Start \/ UNCHANGED jobs

\* The steps that are no dispatch leave a row with its holder, or with none.
LEMMA OthersKeep ==
  ASSUME IInv, OtherStep, NEW j \in Jobs
  PROVE  \/ Kept(jobs[j], jobs'[j])
         \/ jobs'[j].state # "in_progress" /\ jobs'[j].created \in {0, now, jobs[j].created}
<1>a. /\ jobs \in [Jobs -> Row] /\ jobs[j] \in Row /\ now \in Nat /\ RowInv(jobs[j], grants[j])
      /\ Kept(jobs[j], jobs[j])
  BY DEF IInv, TypeOK, Kept
<1>1. ASSUME NEW i \in Jobs, NEW k \in 1..Len(grants[i]),
             \/ ResultCompleted(i, k) \/ ResultCancelled(i, k) \/ ResultRetried(i, k)
             \/ \E retryable \in BOOLEAN : ResultFailed(i, k, retryable)
      PROVE  Kept(jobs[j], jobs'[j])
  <2>1. \/ jobs' = [jobs EXCEPT ![i] = Complete(@, k)]
        \/ jobs' = [jobs EXCEPT ![i] = MarkCancelled(@, k)]
        \/ jobs' = [jobs EXCEPT ![i] = Requeue(@, k)]
        \/ jobs' = [jobs EXCEPT ![i] = Fail(@, k)]
    BY <1>1 DEF ResultCompleted, ResultCancelled, ResultRetried, ResultFailed
  <2>2. k \in Nat
    OBVIOUS
  <2>3. jobs'[j] \in {jobs[j], Complete(jobs[j], k), MarkCancelled(jobs[j], k),
                      Requeue(jobs[j], k), Fail(jobs[j], k)}
    BY <1>a, <2>1
  <2> QED BY <1>a, <2>2, <2>3, StatementsKeep
<1>2. ASSUME NEW i \in Jobs, SubmitBegin(i) \/ SubmitCommit(i)
      PROVE  \/ Kept(jobs[j], jobs'[j])
             \/ jobs'[j].state # "in_progress" /\ jobs'[j].created \in {0, now, jobs[j].created}
  <2> DEFINE begun == [AbsentRow EXCEPT !.state = "writing", !.created = now]
             new == Created(jobs[i].created)
  <2>1. begun.state # "in_progress" /\ begun.created = now
    BY DEF AbsentRow
  <2>2. new.state # "in_progress" /\ new.created = jobs[i].created
    BY DEF Created, AbsentRow
  <2>3. \/ jobs'[j] \in {jobs[j], begun}
        \/ i = j /\ jobs'[j] = new
    <3>1. jobs' = [jobs EXCEPT ![i] = begun] \/ jobs' = [jobs EXCEPT ![i] = new]
      BY <1>2 DEF SubmitBegin, SubmitCommit
    <3> HIDE DEF begun, new
    <3> QED
      BY <1>a, <3>1
  <2> HIDE DEF begun, new
  <2> QED
    BY <1>a, <2>1, <2>2, <2>3
<1>3. ASSUME NEW i \in Jobs, Delete(i)
      PROVE  Kept(jobs[j], jobs'[j])
  <2>1. jobs'[j] \in {jobs[j], CancelQueued(jobs[j], now), RequestCancel(jobs[j], now)}
    BY <1>a, <1>3 DEF Delete
  <2> QED BY <1>a, <2>1, StatementsKeep
<1>4. CASE Sweep
  BY <1>a, <1>4, ReapKeeps DEF Sweep
<1>5. CASE Halt
  BY <1>a, <1>5 DEF Halt, LostSubmits, AbsentRow
<1>6. CASE Start
  <2>1. jobs'[j] = RecoverOnStartup(jobs[j], now)
    BY <1>6 DEF Start
  <2> QED BY <1>a, <2>1, StatementsKeep
<1>7. CASE UNCHANGED jobs
  BY <1>a, <1>7
<1> QED BY <1>1, <1>2, <1>3, <1>4, <1>5, <1>6, <1>7 DEF OtherStep

\* The gateway's steps forget no pod.
LEMMA KnownStays ==
  ASSUME IInv, [Next]_vars, NEW p \in Pods, pods[p].known
  PROVE  pods'[p].known
<1>a. pods \in [Pods -> [known : BOOLEAN, draining : BOOLEAN, done : Nat, failed : Nat]]
  BY DEF IInv, TypeOK
<1>1. ASSUME NEW q, NEW c, NEW f, pods' = Outcome(q, c, f)
      PROVE  pods'[p].known
  BY <1>a, <1>1 DEF Outcome
<1>2. CASE AgentStep
  BY <1>a, <1>1, <1>2 DEF AgentStep, Poll, ResultCompleted, ResultCancelled, ResultRetried,
     ResultFailed
<1>3. CASE ClientStep
  BY <1>a, <1>3 DEF ClientStep, SubmitBegin, Delete, SetDraining
<1>4. CASE GatewayStep
  BY <1>a, <1>4 DEF GatewayStep, PollWoken, PollTimeout, SubmitCommit, ResultSettled, Sweep
<1>5. CASE ProcessStep
  BY <1>a, <1>5 DEF ProcessStep, Stop, Exit, Crash, Halt, Start, Tick
<1>6. CASE UNCHANGED vars
  BY <1>a, <1>6 DEF vars
<1> QED BY <1>2, <1>3, <1>4, <1>5, <1>6 DEF Next

-----------------------------------------------------------------------------
(* The steps of the registry *)

\* Every step is a step of the gateway or a purge of the pods table.
LEMMA FleetStepGateway ==
  ASSUME [FleetNext]_fvars
  PROVE  [Next]_vars \/ PurgePods
<1>1. CASE GatewayAsIs
  BY <1>1 DEF GatewayAsIs, Next, AgentStep, ClientStep, GatewayStep, ProcessStep
<1>2. ASSUME NEW r \in Polls, NEW p \in Pods, NEW isReady \in BOOLEAN,
             NEW report \in Reports(p), FleetPoll(r, p, isReady, report)
      PROVE  Next
  BY <1>2 DEF FleetPoll, Next, AgentStep
<1>3. CASE \E j \in Jobs : FleetSubmit(j)
  BY <1>3 DEF FleetSubmit, Next, ClientStep
<1>4. CASE FleetTick
  BY <1>4 DEF FleetTick, Next, ProcessStep
<1>5. CASE UNCHANGED fvars
  BY <1>5 DEF fvars
<1> QED BY <1>1, <1>2, <1>3, <1>4, <1>5 DEF FleetNext

\* A purge writes the pods table only.
LEMMA PurgeKeepsRows ==
  ASSUME IInv, PurgePods
  PROVE  IInv' /\ UNCHANGED <<now, phase, jobs, grants, polls, settling, restarts, since>>
<1>1. UNCHANGED <<now, phase, jobs, grants, polls, settling, restarts, since>>
  BY DEF PurgePods
<1>2. pods' \in [Pods -> [known : BOOLEAN, draining : BOOLEAN, done : Nat, failed : Nat]]
  BY DEF PurgePods, IInv, TypeOK
<1> QED BY <1>1, <1>2 DEF IInv, TypeOK, RowInv, Fenced, Capped

\* The gateway's invariant survives a purge of pods too.
LEMMA FleetIInv ==
  ASSUME IInv, [FleetNext]_fvars
  PROVE  IInv'
BY FleetStepGateway, NextIInv, PurgeKeepsRows

\* The pods a purge takes have held no job and parked no poll for long.
LEMMA ForgottenIdle ==
  ASSUME FInv, PurgePods, NEW p \in Forgotten
  PROVE  /\ \A r \in Polls : polls[r].st # "idle" => polls[r].pod # p
         /\ \A j \in Jobs : jobs[j].state = "in_progress" => jobs[j].pod # p
<1>a. /\ p \in Pods /\ seen[p] < now - JobRetention /\ seen[p] \in Nat /\ now \in Nat
      /\ JobRetention >= JobTtl + MaxPollWait /\ JobRetention \in Nat /\ JobTtl \in Nat
      /\ MaxPollWait \in Nat
  BY FleetAssumption, TimeAssumption DEF Forgotten, FInv, FleetTyped, IInv, TypeOK
<1>1. ASSUME NEW r \in Polls, polls[r].st # "idle", polls[r].pod = p
      PROVE  FALSE
  <2>1. now <= since[r] + MaxPollWait /\ since[r] <= seen[p] /\ since[r] \in Nat
    BY <1>1 DEF FInv, PollsFresh, FleetTyped
  <2> QED BY <1>a, <2>1
<1>2. ASSUME NEW j \in Jobs, jobs[j].state = "in_progress", jobs[j].pod = p
      PROVE  FALSE
  <2>1. jobs[j] \in Row /\ jobs[j].created <= seen[p] + MaxPollWait /\ jobs[j].created \in Nat
    BY <1>2 DEF FInv, HoldersSeen, IInv, TypeOK, Row
  <2>2. now <= jobs[j].created + JobTtl
    BY <1>a, <1>2, <2>1, SweptInTime DEF PurgePods, Swept
  <2> QED BY <1>a, <2>1, <2>2
<1> QED BY <1>1, <1>2

\* What a handler of the gateway does to the polls in progress.
LEMMA AsIsPolls ==
  ASSUME IInv, GatewayAsIs, NEW r \in Polls, polls'[r].st # "idle"
  PROVE  polls[r].st # "idle" /\ polls'[r].pod = polls[r].pod
<1>a. polls \in [Polls -> PollRecord]
  BY DEF IInv, TypeOK
<1>b. ASSUME polls' = polls \/ polls' = Kicked \/ polls' = Released \/ polls' = [k \in Polls |-> IdlePoll]
             \/ \E k \in Polls : polls' = [polls EXCEPT ![k] = IdlePoll]
      PROVE  polls[r].st # "idle" /\ polls'[r].pod = polls[r].pod
  BY <1>a, <1>b DEF Kicked, Released, IdlePoll, PollRecord
<1>1. ASSUME NEW j \in Jobs, NEW l \in 1..Len(grants[j]),
             \/ ResultCompleted(j, l) \/ ResultCancelled(j, l) \/ ResultRetried(j, l)
             \/ \E retryable \in BOOLEAN : ResultFailed(j, l, retryable)
      PROVE  polls' = polls \/ polls' = Kicked
  BY <1>1 DEF ResultCompleted, ResultCancelled, ResultRetried, ResultFailed
<1>2. CASE \E k \in Polls : PollWoken(k) \/ PollTimeout(k)
  BY <1>b, <1>2 DEF PollWoken, PollTimeout
<1>3. CASE \E j \in Jobs : Delete(j) \/ SubmitCommit(j) \/ ResultSettled(j)
  BY <1>b, <1>3 DEF Delete, SubmitCommit, ResultSettled
<1>4. CASE \E p \in Pods, draining \in BOOLEAN : SetDraining(p, draining)
  BY <1>b, <1>4 DEF SetDraining
<1>5. CASE Sweep \/ Stop \/ Exit \/ Crash \/ Start
  BY <1>b, <1>5 DEF Sweep, Stop, Exit, Crash, Halt, Start
<1> QED BY <1>b, <1>1, <1>2, <1>3, <1>4, <1>5 DEF GatewayAsIs

\* Time passes in no handler.
LEMMA AsIsNow ==
  ASSUME GatewayAsIs
  PROVE  now' = now
<1>1. ASSUME NEW j \in Jobs, NEW l \in 1..Len(grants[j]),
             \/ ResultCompleted(j, l) \/ ResultCancelled(j, l) \/ ResultRetried(j, l)
             \/ \E retryable \in BOOLEAN : ResultFailed(j, l, retryable)
      PROVE  now' = now
  BY <1>1 DEF ResultCompleted, ResultCancelled, ResultRetried, ResultFailed
<1> QED BY <1>1 DEF GatewayAsIs, Delete, SubmitCommit, ResultSettled, SetDraining, PollWoken,
           PollTimeout, Sweep, Stop, Exit, Crash, Halt, Start

\* The registry's own variables stay in their ranges.
LEMMA NextFleetTyped ==
  ASSUME FInv, [FleetNext]_fvars
  PROVE  FleetTyped'
<1>a. /\ now \in Nat /\ seen \in [Pods -> Nat] /\ since \in [Polls -> Nat]
      /\ \A p \in Pods : seen[p] <= now
  BY DEF FInv, IInv, TypeOK, FleetTyped
<1>1. ASSUME NEW r \in Polls, NEW p \in Pods, NEW isReady \in BOOLEAN,
             NEW report \in Reports(p), FleetPoll(r, p, isReady, report)
      PROVE  FleetTyped'
  <2>1. now' = now /\ seen' = [seen EXCEPT ![p] = now]
    BY <1>1 DEF FleetPoll, Poll, Touch
  <2>2. since' \in [Polls -> Nat]
    BY <1>a, <1>1 DEF FleetPoll
  <2> QED BY <1>a, <2>1, <2>2 DEF FleetTyped
<1>2. ASSUME NEW j \in Jobs, FleetSubmit(j)
      PROVE  FleetTyped'
  BY <1>a, <1>2 DEF FleetSubmit, SubmitBegin, fleetVars, FleetTyped
<1>3. CASE PurgePods
  BY <1>a, <1>3 DEF PurgePods, FleetTyped
<1>4. CASE FleetTick
  <2>1. now' = now + 1 /\ seen' = seen /\ since' = since
    BY <1>4 DEF FleetTick, Tick, fleetVars
  <2> QED BY <1>a, <2>1 DEF FleetTyped
<1>5. CASE GatewayAsIs
  <2>1. now' = now
    BY <1>5, AsIsNow
  <2>2. since' \in [Polls -> Nat] /\ seen' = seen
    BY <1>a, <1>5 DEF GatewayAsIs, Windows
  <2> QED BY <1>a, <2>1, <2>2 DEF FleetTyped
<1>6. CASE UNCHANGED fvars
  BY <1>a, <1>6 DEF fvars, vars, fleetVars, FleetTyped
<1> QED BY <1>1, <1>2, <1>3, <1>4, <1>5, <1>6 DEF FleetNext

\* A poll in progress stays within its window.
LEMMA NextPollsFresh ==
  ASSUME FInv, [FleetNext]_fvars
  PROVE  PollsFresh'
<1>a. /\ now \in Nat /\ seen \in [Pods -> Nat] /\ since \in [Polls -> Nat] /\ IInv /\ IInv'
      /\ \A p \in Pods : seen[p] <= now
      /\ MaxPollWait \in Nat /\ polls \in [Polls -> PollRecord]
  BY FleetIInv, FleetAssumption DEF FInv, IInv, TypeOK, FleetTyped
<1> SUFFICES ASSUME NEW s \in Polls, polls'[s].st # "idle"
             PROVE  /\ pods'[polls'[s].pod].known
                    /\ since'[s] <= now' /\ since'[s] <= seen'[polls'[s].pod]
                    /\ now' <= since'[s] + MaxPollWait
  BY DEF PollsFresh
<1>b. polls'[s].pod \in Pods
  BY <1>a DEF IInv, TypeOK
<1>c. polls[s].st # "idle" =>
        /\ polls[s].pod \in Pods /\ pods[polls[s].pod].known
        /\ since[s] <= now /\ since[s] <= seen[polls[s].pod] /\ now <= since[s] + MaxPollWait
  BY DEF FInv, PollsFresh, IInv, TypeOK
<1>1. ASSUME NEW r \in Polls, NEW p \in Pods, NEW isReady \in BOOLEAN,
             NEW report \in Reports(p), FleetPoll(r, p, isReady, report)
      PROVE  /\ pods'[polls'[s].pod].known
             /\ since'[s] <= now' /\ since'[s] <= seen'[polls'[s].pod]
             /\ now' <= since'[s] + MaxPollWait
  <2>1. /\ now' = now /\ seen' = [seen EXCEPT ![p] = now] /\ pods' = [pods EXCEPT ![p].known = TRUE]
        /\ since' = [since EXCEPT ![r] = IF polls'[r].st = "parked" THEN now ELSE 0]
        /\ polls[r].st = "idle"
        /\ \/ polls' = polls
           \/ \E slots : polls' = [polls EXCEPT ![r] = [st |-> "parked", pod |-> p, slots |-> slots]]
    BY <1>1 DEF FleetPoll, Poll, Touch
  <2>2. \A q \in Pods : (pods[q].known => pods'[q].known) /\ seen[q] <= seen'[q]
    BY <1>a, <2>1 DEF IInv, TypeOK
  <2>3. CASE s = r
    <3>1. polls'[s].st = "parked" /\ polls'[s].pod = p
      BY <1>a, <2>1, <2>3
    <3> QED BY <1>a, <2>1, <2>3, <3>1 DEF IInv, TypeOK
  <2>4. CASE s # r
    <3>1. polls'[s] = polls[s] /\ since'[s] = since[s]
      BY <1>a, <2>1, <2>4
    <3> QED BY <1>a, <1>c, <2>1, <2>2, <3>1
  <2> QED BY <2>3, <2>4
<1>2. ASSUME NEW j \in Jobs, FleetSubmit(j)
      PROVE  /\ pods'[polls'[s].pod].known
             /\ since'[s] <= now' /\ since'[s] <= seen'[polls'[s].pod]
             /\ now' <= since'[s] + MaxPollWait
  BY <1>c, <1>2 DEF FleetSubmit, SubmitBegin, fleetVars
<1>3. CASE PurgePods
  <2>1. UNCHANGED <<polls, since, now>>
    BY <1>3 DEF PurgePods
  <2>2. polls[s].pod \in Pods \ Forgotten
    BY <1>3, <1>c, <2>1, ForgottenIdle
  <2> QED BY <1>3, <1>c, <2>1, <2>2 DEF PurgePods
<1>4. CASE FleetTick
  <2>1. /\ now' = now + 1 /\ UNCHANGED <<polls, since, seen, pods>>
        /\ polls[s].st # "woken" /\ (polls[s].st = "parked" => now < since[s] + MaxPollWait)
    BY <1>4 DEF FleetTick, Tick, Quiet, fleetVars
  <2> QED BY <1>a, <1>c, <2>1 DEF PollRecord
<1>5. CASE GatewayAsIs
  <2>1. /\ polls[s].st # "idle" /\ polls'[s].pod = polls[s].pod /\ now' = now
        /\ since'[s] = since[s] /\ seen' = seen
    BY <1>a, <1>5, AsIsPolls, AsIsNow DEF GatewayAsIs, Windows
  <2>2. pods'[polls[s].pod].known
    BY <1>a, <1>5, <1>c, <2>1, KnownStays DEF GatewayAsIs, Next, AgentStep, ClientStep,
       GatewayStep, ProcessStep
  <2> QED BY <1>c, <2>1, <2>2
<1>6. CASE UNCHANGED fvars
  BY <1>c, <1>6 DEF fvars, vars, fleetVars
<1> QED BY <1>1, <1>2, <1>3, <1>4, <1>5, <1>6 DEF FleetNext

\* A job's pod polled after the job was created, or was polling then.
LEMMA NextHoldersSeen ==
  ASSUME FInv, [FleetNext]_fvars
  PROVE  HoldersSeen'
<1>a. /\ now \in Nat /\ now' \in Nat /\ now <= now' /\ IInv /\ IInv' /\ FleetTyped /\ FleetTyped'
      /\ MaxPollWait \in Nat
  <2>1. IInv /\ IInv' /\ FleetTyped /\ FleetTyped'
    BY FleetIInv, NextFleetTyped DEF FInv
  <2>2. now \in Nat /\ now' \in Nat
    BY <2>1 DEF IInv, TypeOK
  <2>3. now' = now \/ now' = now + 1
    BY AsIsNow DEF FleetNext, FleetPoll, Poll, FleetSubmit, SubmitBegin, PurgePods, FleetTick, Tick,
                   fvars, vars
  <2> QED BY <2>1, <2>2, <2>3, FleetAssumption
<1> SUFFICES ASSUME NEW j \in Jobs
             PROVE  /\ jobs'[j].created <= now'
                    /\ jobs'[j].state = "in_progress" =>
                         /\ pods'[jobs'[j].pod].known
                         /\ jobs'[j].created <= seen'[jobs'[j].pod] + MaxPollWait
  BY DEF HoldersSeen
<1>b. /\ jobs[j].created \in Nat /\ jobs[j].created <= now
      /\ jobs[j].state = "in_progress" =>
           /\ jobs[j].pod \in Pods /\ pods[jobs[j].pod].known
           /\ jobs[j].created <= seen[jobs[j].pod] + MaxPollWait
  <2>1. jobs[j].state = "in_progress" => jobs[j].pod \in Pods
    BY DEF FInv, IInv, RowInv, Fenced
  <2> QED BY <2>1 DEF FInv, HoldersSeen, IInv, TypeOK, Row
<1>c. \A p \in Pods : ~PurgePods => seen[p] <= seen'[p] /\ (pods[p].known => pods'[p].known)
  <2> SUFFICES ASSUME NEW p \in Pods, ~PurgePods
               PROVE seen[p] <= seen'[p] /\ (pods[p].known => pods'[p].known)
    OBVIOUS
  <2>1. pods[p].known => pods'[p].known
    BY <1>a, FleetStepGateway, KnownStays
  <2>2. seen' = seen \/ \E q \in Pods : seen' = [seen EXCEPT ![q] = now]
    BY DEF FleetNext, FleetPoll, Touch, FleetSubmit, FleetTick, GatewayAsIs, fvars, fleetVars
  <2> QED BY <1>a, <2>1, <2>2 DEF FleetTyped
<1>d. ASSUME ~PurgePods, Kept(jobs[j], jobs'[j])
      PROVE  /\ jobs'[j].created <= now'
             /\ jobs'[j].state = "in_progress" =>
                  /\ pods'[jobs'[j].pod].known
                  /\ jobs'[j].created <= seen'[jobs'[j].pod] + MaxPollWait
  <2>1. \A p \in Pods : seen[p] \in Nat /\ seen'[p] \in Nat
    BY <1>a DEF FleetTyped
  <2> QED BY <1>a, <1>b, <1>c, <1>d, <2>1 DEF Kept
<1>e. ASSUME ~PurgePods, NEW rows, Renewed(rows), NEW p \in Pods, NEW C,
             jobs' = ClaimAll(rows, C, p),
             pods'[p].known, now <= seen'[p] + MaxPollWait
      PROVE  /\ jobs'[j].created <= now'
             /\ jobs'[j].state = "in_progress" =>
                  /\ pods'[jobs'[j].pod].known
                  /\ jobs'[j].created <= seen'[jobs'[j].pod] + MaxPollWait
  <2>1. jobs'[j].created = jobs[j].created /\ (Kept(jobs[j], jobs'[j]) \/ jobs'[j].pod = p)
    BY <1>a, <1>e, DispatchKeeps DEF IInv
  <2>2. seen'[p] \in Nat
    BY <1>a DEF FleetTyped
  <2> QED BY <1>a, <1>b, <1>d, <1>e, <2>1, <2>2
<1>1. ASSUME NEW r \in Polls, NEW p \in Pods, NEW isReady \in BOOLEAN,
             NEW report \in Reports(p), FleetPoll(r, p, isReady, report), ~PurgePods
      PROVE  /\ jobs'[j].created <= now'
             /\ jobs'[j].state = "in_progress" =>
                  /\ pods'[jobs'[j].pod].known
                  /\ jobs'[j].created <= seen'[jobs'[j].pod] + MaxPollWait
  <2> DEFINE rows == RenewAll(report)
             slots == FreeSlots(pods[p].draining, isReady, Cardinality(StillOwned(report)))
  <2>1. PICK C \in Claims(rows, p, slots) : jobs' = ClaimAll(rows, C, p)
    BY <1>1 DEF FleetPoll, Poll
  <2>2. Renewed(rows)
    BY <1>a, RenewalKeeps DEF IInv
  <2>3. pods'[p].known /\ seen'[p] = now
    BY <1>a, <1>1 DEF FleetPoll, Poll, Touch, IInv, TypeOK, FleetTyped
  <2> HIDE DEF rows, slots
  <2> QED BY <1>a, <1>1, <1>e, <2>1, <2>2, <2>3
<1>2. ASSUME NEW r \in Polls, PollWoken(r), seen' = seen, ~PurgePods
      PROVE  /\ jobs'[j].created <= now'
             /\ jobs'[j].state = "in_progress" =>
                  /\ pods'[jobs'[j].pod].known
                  /\ jobs'[j].created <= seen'[jobs'[j].pod] + MaxPollWait
  <2>1. PICK p \in Pods : p = polls[r].pod
    BY <1>a, <1>2 DEF PollWoken, IInv, TypeOK
  <2>2. PICK C \in Claims(jobs, p, polls[r].slots) : jobs' = ClaimAll(jobs, C, p)
    BY <1>2, <2>1 DEF PollWoken
  <2>3. Renewed(jobs)
    BY <1>a DEF IInv, TypeOK, Renewed, Row
  <2>4. pods[p].known /\ since[r] \in Nat /\ since[r] <= seen[p] /\ now <= since[r] + MaxPollWait
        /\ seen[p] \in Nat
    BY <1>a, <1>2, <2>1 DEF FInv, PollsFresh, PollWoken, FleetTyped
  <2> QED BY <1>a, <1>2, <1>c, <1>e, <2>2, <2>3, <2>4
<1>3. CASE PurgePods
  <2>1. UNCHANGED <<jobs, now>>
    BY <1>3 DEF PurgePods
  <2>2. jobs[j].state = "in_progress" => jobs[j].pod \in Pods \ Forgotten
    BY <1>3, <1>b, ForgottenIdle
  <2> QED BY <1>3, <1>b, <2>1, <2>2 DEF PurgePods
<1>4. CASE OtherStep /\ ~PurgePods
  <2>1. \/ Kept(jobs[j], jobs'[j])
        \/ jobs'[j].state # "in_progress" /\ jobs'[j].created \in {0, now, jobs[j].created}
    BY <1>a, <1>4, OthersKeep
  <2> QED BY <1>a, <1>b, <1>d, <1>4, <2>1
<1>5. \/ \E r \in Polls, p \in Pods, isReady \in BOOLEAN :
           \E report \in Reports(p) : FleetPoll(r, p, isReady, report)
      \/ \E r \in Polls : PollWoken(r) /\ seen' = seen
      \/ PurgePods \/ OtherStep
  BY DEF FleetNext, FleetSubmit, FleetTick, Tick, GatewayAsIs, fvars, vars, OtherStep,
     ResultSettled,
         SetDraining, PollTimeout, Stop, Exit, Crash
<1> QED BY <1>1, <1>2, <1>3, <1>4, <1>5

-----------------------------------------------------------------------------
(* The theorems *)

\* An empty registry satisfies the invariant.
LEMMA InitFInv ==
  FleetInit => FInv
<1> SUFFICES ASSUME FleetInit PROVE FInv
  OBVIOUS
<1>1. IInv
  BY InitIInv DEF FleetInit
<1>2. FleetTyped /\ PollsFresh
  BY DEF FleetInit, Init, FleetTyped, PollsFresh, IdlePoll
<1>3. HoldersSeen
  BY DEF FleetInit, Init, HoldersSeen, AbsentRow
<1> QED BY <1>1, <1>2, <1>3 DEF FInv

\* The invariant of the registry holds.
LEMMA FleetInductive == FleetSpec => []FInv
<1>1. FInv /\ [FleetNext]_fvars => FInv'
  BY FleetIInv, NextFleetTyped, NextPollsFresh, NextHoldersSeen DEF FInv
<1> QED BY <1>1, InitFInv, PTL DEF FleetSpec, fvars

\* A pod is never forgotten while it holds a job, for any number of jobs and
\* pods, any polls and any settings with JobRetention >= JobTtl + MaxPollWait:
\* the outcome charged to it always finds its row.
THEOREM OutcomesFindTheirPod == FleetSpec => []ChargesLand
<1>1. FInv => ChargesLand
  BY DEF FInv, HoldersSeen, ChargesLand
<1> QED BY <1>1, FleetInductive, PTL

\* What a report counts against a pod's slots is what the table says the pod
\* runs, so a stale report never takes away a slot that is free.
LEMMA ReportCountsRunning ==
  ASSUME IInv, NEW p \in Pods, NEW report \in Reports(p)
  PROVE  StillOwned(report) \subseteq InFlight(p)
<1> SUFFICES ASSUME NEW j \in Jobs, report[j] # 0, Holds(jobs[j], report[j])
             PROVE  jobs[j].state = "in_progress" /\ jobs[j].pod = p
  BY DEF StillOwned, InFlight, JobsOf
<1>1. grants[j][report[j]] = p
  BY DEF Reports
<1> QED BY <1>1 DEF IInv, RowInv, Fenced, Holds

\* A pod is never denied a slot for a job it does not run: the jobs a report
\* counts against it are among those the table gives it, for any number of jobs
\* and pods and any report it may send.
THEOREM NoSlotIsLost == FleetSpec => []SlotsNotOvercounted
<1>1. IInv => SlotsNotOvercounted
  <2> SUFFICES ASSUME IInv, NEW p \in Pods, NEW report \in Reports(p),
                      NEW draining \in BOOLEAN, NEW isReady \in BOOLEAN
               PROVE  /\ StillOwned(report) \subseteq InFlight(p)
                      /\ FreeSlots(draining, isReady, Cardinality(StillOwned(report)))
                           >= FreeSlots(draining, isReady, Cardinality(InFlight(p)))
    BY DEF SlotsNotOvercounted
  <2>1. StillOwned(report) \subseteq InFlight(p) /\ InFlight(p) \subseteq Jobs
    BY ReportCountsRunning DEF InFlight, JobsOf
  <2>2. /\ Cardinality(StillOwned(report)) \in Nat /\ Cardinality(InFlight(p)) \in Nat
        /\ Cardinality(StillOwned(report)) <= Cardinality(InFlight(p))
    BY <2>1, JobsAssumption, FS_Subset, FS_CardinalityType
  <2> QED BY <2>1, <2>2, CapacityAssumption DEF FreeSlots
<1>2. FInv => IInv
  BY DEF FInv
<1> QED BY <1>1, <1>2, FleetInductive, PTL

\* Purges queue no job and park no poll, so no wake-up is lost with them either.
LEMMA FleetLosesNothing ==
  ASSUME WindowShowsWork
  PROVE  FleetSpec => []NoLostWakeup
<1>1. FleetInit => NoLostWakeup
  BY DEF FleetInit, Init, IdlePoll, NoLostWakeup
<1>2. ASSUME FInv, NoLostWakeup, [FleetNext]_fvars
      PROVE  NoLostWakeup'
  <2>1. CASE [Next]_vars
    BY <1>2, <2>1, NextLosesNothing DEF FInv
  <2>2. CASE PurgePods
    BY <1>2, <2>2 DEF PurgePods, NoLostWakeup, Servable, Queued
  <2> QED BY <1>2, <2>1, <2>2, FleetStepGateway
<1> QED BY <1>1, <1>2, FleetInductive, PTL DEF FleetSpec, fvars

\* A pod that is waiting keeps the fleet open, however long its poll is parked:
\* it counts as connected, its model is listed, and unless it drains a job is
\* admitted.  The registry of domain/models.ts has one model.
THEOREM WaitingPodsKeepTheFleetOpen ==
  ASSUME \A j, k \in Jobs : JobModel[j] = JobModel[k]
  PROVE  FleetSpec => []IdleMeansOpen
<1>1. ASSUME FInv, NoLostWakeup
      PROVE  IdleMeansOpen
  <2> SUFFICES ASSUME NEW r \in Polls, NEW j \in Jobs, NEW p, p = polls[r].pod,
                      polls[r].st = "parked", PodModel[p] = JobModel[j]
               PROVE  /\ Connected(p) /\ Listed(JobModel[j]) /\ Health.connected > 0
                      /\ ~pods[p].draining => Admits(JobModel[j])
    BY DEF IdleMeansOpen
  <2>1. /\ p \in Pods /\ pods[p].known /\ seen[p] \in Nat /\ now \in Nat /\ since[r] \in Nat
        /\ since[r] <= seen[p] /\ now <= since[r] + MaxPollWait
    BY <1>1 DEF FInv, PollsFresh, FleetTyped, IInv, TypeOK
  <2>2. Connected(p)
    BY <2>1, FleetAssumption DEF Connected
  <2>3. Listed(JobModel[j])
    BY <2>1, <2>2 DEF Listed
  <2>4. Health.connected > 0
    <3> DEFINE Up == {q \in Pods : Connected(q)}
    <3>1. Health.connected = Cardinality(Up)
      BY DEF Health
    <3>2. IsFiniteSet(Up) /\ p \in Up
      BY <2>1, <2>2, PodsAssumption, FS_Subset
    <3>3. Cardinality(Up) \in Nat /\ Cardinality(Up) # 0
      BY <3>2, FS_EmptySet, FS_CardinalityType
    <3> QED BY <3>1, <3>3
  <2>5. Queued(jobs) = {}
    BY <1>1, <2>1 DEF NoLostWakeup, Servable, Queued
  <2>6. ~pods[p].draining => Admits(JobModel[j])
    BY <2>1, <2>2, <2>5, FS_EmptySet, FleetAssumption, CapacityAssumption DEF Admits, ServingPods
  <2> QED BY <2>2, <2>3, <2>4, <2>6
<1>2. WindowShowsWork
  BY DEF WindowShowsWork
<1> QED BY <1>1, <1>2, FleetLosesNothing, FleetInductive, PTL
=============================================================================
