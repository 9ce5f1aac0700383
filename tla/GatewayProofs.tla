---------------------------- MODULE GatewayProofs ----------------------------
(***************************************************************************)
(* What the gateway's handlers keep true of every job, for any number of   *)
(* jobs, pods and concurrent polls and any timeouts.                       *)
(*                                                                         *)
(* The argument is made per row.  RowInv says that a row and the pods its  *)
(* leases went to agree; RowStep says that a handler takes such a row to   *)
(* such a row by a legal life-cycle move and leaves a finished row alone.  *)
(* Each UPDATE of JobStore is a RowStep, hence so is each handler, and the *)
(* theorems are the three readings of that fact.                           *)
(***************************************************************************)
EXTENDS Gateway, SequenceTheorems, FiniteSetTheorems, TLAPS

RowInv(row, g) == row \in Row /\ g \in Seq(Pods) /\ Fenced(row, g) /\ Capped(row, g)

StatusOf(row) == IF row.state \in {"absent", "writing"} THEN "none" ELSE row.state

RowMove(row, new) ==
  Lifecycle!Move(StatusOf(row), row.attempts, StatusOf(new), new.attempts)

RowStep(row, g, new, h) ==
  /\ RowInv(new, h)
  /\ RowMove(row, new)
  /\ IsTerminal(row) => new = row

-----------------------------------------------------------------------------
(* Each statement of the jobs table *)

\* Doing nothing is a step.
LEMMA StayStep ==
  ASSUME NEW row, NEW g, RowInv(row, g)
  PROVE  RowStep(row, g, row, g)
BY DEF RowStep, RowMove, Lifecycle!Move

\* Renewing a lease changes nothing but the expiry of a row in progress.
LEMMA RenewStep ==
  ASSUME NEW row, NEW g, RowInv(row, g), NEW l \in Nat, NEW t \in Nat \ {0}
  PROVE  /\ RowStep(row, g, RenewLease(row, l, t), g)
         /\ RenewLease(row, l, t).state = row.state
         /\ RenewLease(row, l, t).attempts = row.attempts
BY DEF RowStep, RowInv, Row, RowStates, VideoStates, TerminalStates, Fenced, Capped,
       RowMove, StatusOf, Lifecycle!Move, RenewLease, Holds, IsTerminal

\* A restart changes nothing but the expiry of a row in progress.
LEMMA RecoverStep ==
  ASSUME NEW row, NEW g, RowInv(row, g), NEW t \in Nat \ {0}
  PROVE  RowStep(row, g, RecoverOnStartup(row, t), g)
<1>1. CASE row.state = "in_progress"
  <2> DEFINE new == RecoverOnStartup(row, t)
  <2>1. new = [state |-> row.state, pod |-> row.pod, lease |-> row.lease,
               expires |-> t + RestartGrace, cancelAt |-> row.cancelAt,
               attempts |-> row.attempts, created |-> row.created]
    BY <1>1 DEF RecoverOnStartup, RowInv, Row
  <2>2. t + RestartGrace \in Nat /\ t + RestartGrace # 0
    BY TimeAssumption
  <2>3. new \in Row
    BY <2>1, <2>2 DEF RowInv, Row
  <2> HIDE DEF new
  <2>4. RowInv(new, g)
    BY <1>1, <2>1, <2>2, <2>3 DEF RowInv, Fenced, Capped
  <2>5. RowMove(row, new) /\ ~IsTerminal(row)
    BY <1>1, <2>1 DEF RowMove, StatusOf, Lifecycle!Move, IsTerminal, TerminalStates
  <2> QED
    BY <2>4, <2>5 DEF RowStep, new
<1>2. CASE row.state # "in_progress"
  BY <1>2, StayStep DEF RecoverOnStartup
<1> QED
  BY <1>1, <1>2

\* The dispatch of a queued row appends its pod to the grants.
LEMMA ClaimStep ==
  ASSUME NEW row, NEW g, RowInv(row, g), row.state = "queued",
         NEW p \in Pods, NEW t \in Nat \ {0}
  PROVE  RowStep(row, g, Claim(row, p, Len(g) + 1, t), Append(g, p))
<1> DEFINE h == Append(g, p)
           new == Claim(row, p, Len(g) + 1, t)
<1>1. /\ h \in Seq(Pods) /\ Len(h) = Len(g) + 1 /\ h[Len(g) + 1] = p
      /\ Len(g) \in Nat
  BY DEF RowInv
<1>2. /\ new \in Row /\ new.state = "in_progress" /\ new.pod = p
      /\ new.lease = Len(g) + 1 /\ new.expires = t
      /\ new.attempts = row.attempts + 1
  <2>1. new = [state |-> "in_progress", pod |-> p, lease |-> Len(g) + 1, expires |-> t,
               cancelAt |-> row.cancelAt, attempts |-> row.attempts + 1,
               created |-> row.created]
    BY DEF Claim, RowInv, Row
  <2>2. row.attempts + 1 \in Nat /\ row.cancelAt \in Nat /\ row.created \in Nat
    BY DEF RowInv, Row
  <2> QED
    BY <1>1, <2>1, <2>2 DEF Row, RowStates, VideoStates, TerminalStates
<1> HIDE DEF h, new
<1>3. RowInv(new, h)
  BY <1>1, <1>2, AttemptsAssumption DEF RowInv, Fenced, Capped, Row
<1>4. RowMove(row, new)
  BY <1>2 DEF RowMove, RowInv, Capped, Row, StatusOf, Lifecycle!Move, Lifecycle!Dispatch
<1> QED
  BY <1>3, <1>4 DEF RowStep, IsTerminal, TerminalStates, h, new

\* The terminal statements and the requeue, by the gateway (l = 0) or a pod.
LEMMA FinishSteps ==
  ASSUME NEW row, NEW g, RowInv(row, g), NEW l \in Nat
  PROVE  /\ RowStep(row, g, Complete(row, l), g)
         /\ RowStep(row, g, Fail(row, l), g)
         /\ RowStep(row, g, MarkCancelled(row, l), g)
         /\ row.attempts < MaxAttempts => RowStep(row, g, Requeue(row, l), g)
<1> USE DEF RowStep, RowInv, Row, RowStates, VideoStates, TerminalStates, Fenced, Capped,
       RowMove, StatusOf, Lifecycle!Move, Lifecycle!Finish, Lifecycle!Outcomes, IsTerminal, Holds,
       Owned
<1>1. RowStep(row, g, Complete(row, l), g)
  BY DEF Complete, Finished
<1>2. RowStep(row, g, Fail(row, l), g)
  BY DEF Fail, Finished, Lifecycle!Withdraw
<1>3. RowStep(row, g, MarkCancelled(row, l), g)
  BY DEF MarkCancelled, Finished
<1>4. row.attempts < MaxAttempts => RowStep(row, g, Requeue(row, l), g)
  BY DEF Requeue, Lifecycle!Return
<1> QED BY <1>1, <1>2, <1>3, <1>4

\* The statements behind DELETE /v1/videos/:id.
LEMMA CancelSteps ==
  ASSUME NEW row, NEW g, RowInv(row, g), NEW t \in Nat
  PROVE  /\ RowStep(row, g, CancelQueued(row, t), g)
         /\ RowStep(row, g, RequestCancel(row, t), g)
BY DEF RowStep, RowInv, Row, RowStates, VideoStates, TerminalStates, Fenced, Capped,
       RowMove, StatusOf, Lifecycle!Move, Lifecycle!Withdraw, IsTerminal,
       CancelQueued, RequestCancel

\* A job that does not exist yet is prepared, inserted, or forgotten.
LEMMA SubmitSteps ==
  ASSUME NEW row, NEW g, RowInv(row, g), row.state \in {"absent", "writing"},
         NEW t \in Nat
  PROVE  /\ RowStep(row, g, [AbsentRow EXCEPT !.state = "writing", !.created = t], g)
         /\ RowStep(row, g, Created(t), g)
         /\ RowStep(row, g, AbsentRow, g)
<1> USE AttemptsAssumption
        DEF RowStep, RowInv, Row, RowStates, VideoStates, TerminalStates, Fenced, Capped,
            RowMove, StatusOf, Lifecycle!Move, Lifecycle!Accept, IsTerminal, AbsentRow
<1>1. RowStep(row, g, [AbsentRow EXCEPT !.state = "writing", !.created = t], g)
  OBVIOUS
<1>2. RowStep(row, g, Created(t), g)
  <2>1. 0 < MaxAttempts
    OBVIOUS
  <2> QED BY <2>1 DEF Created
<1>3. RowStep(row, g, AbsentRow, g)
  OBVIOUS
<1> QED BY <1>1, <1>2, <1>3

\* One row through the three passes of a sweep.  A requeue may be followed by
\* the deadline's failure; together they are one legal move.
LEMMA ReapStep ==
  ASSUME NEW row, NEW g, RowInv(row, g), now \in Nat
  PROVE  RowStep(row, g, ReapRow(row), g)
<1> DEFINE a == ReapLease(row)
           b == ReapDeadline(a)
<1> USE DEF RowStep
<1>1. /\ RowStep(row, g, a, g)
      /\ (a = row) \/ (row.state = "in_progress" /\ a.state \in {"queued", "failed"})
  <2>1. row.lease \in Nat /\ row.attempts \in Nat /\ MaxAttempts \in Nat
    BY AttemptsAssumption DEF RowInv, Row
  <2>2. CASE ~LeaseExpired(row, now)
    BY <2>2, StayStep DEF ReapLease
  <2>3. CASE LeaseExpired(row, now) /\ row.attempts >= MaxAttempts
    <3>1. a = Fail(row, row.lease)
      BY <2>3 DEF ReapLease
    <3>2. row.state = "in_progress" /\ row \in Row
      BY <2>3 DEF LeaseExpired, RowInv
    <3>3. a.state = "failed"
      BY <3>1, <3>2 DEF Fail, Owned, Finished, Row
    <3> QED BY <2>1, <3>1, <3>2, <3>3, FinishSteps
  <2>4. CASE LeaseExpired(row, now) /\ ~(row.attempts >= MaxAttempts)
    <3>1. a = Requeue(row, row.lease)
      BY <2>4 DEF ReapLease
    <3>2. row.state = "in_progress" /\ row \in Row
      BY <2>4 DEF LeaseExpired, RowInv
    <3>3. a.state = "queued"
      BY <3>1, <3>2 DEF Requeue, Owned, Row
    <3>4. row.attempts < MaxAttempts
      BY <2>1, <2>4
    <3>5. RowStep(row, g, Requeue(row, row.lease), g)
      BY <2>1, <3>4, FinishSteps
    <3> QED BY <3>1, <3>2, <3>3, <3>5
  <2> HIDE DEF a
  <2> QED BY <2>2, <2>3, <2>4
<1>2. /\ RowStep(a, g, b, g)
      /\ (b = a) \/ (IsLive(a) /\ b.state = "failed")
  <2>1. CASE ~Overdue(a, now)
    BY <1>1, <2>1, StayStep DEF ReapDeadline
  <2>2. CASE Overdue(a, now)
    <3>1. b = Fail(a, 0) /\ IsLive(a)
      BY <2>2 DEF ReapDeadline, Overdue
    <3>2. b.state = "failed"
      BY <1>1, <3>1 DEF Fail, Owned, Finished, IsLive, RowInv, Row
    <3> QED BY <1>1, <3>1, <3>2, FinishSteps
  <2> QED BY <2>1, <2>2
<1>3. /\ RowStep(b, g, ReapRow(row), g)
      /\ (ReapRow(row) = b) \/ (b.state = "in_progress" /\ ReapRow(row).state = "cancelled")
  <2>1. ReapRow(row) = ReapCancel(b)
    BY DEF ReapRow
  <2>2. CASE ~StaleCancel(b, now)
    BY <1>2, <2>1, <2>2, StayStep DEF ReapCancel
  <2>3. CASE StaleCancel(b, now)
    <3>1. ReapRow(row) = MarkCancelled(b, 0) /\ b.state = "in_progress" /\ b \in Row
      BY <1>2, <2>1, <2>3 DEF ReapCancel, StaleCancel, RowInv
    <3>2. ReapRow(row).state = "cancelled"
      BY <3>1 DEF MarkCancelled, Owned, Finished, Row
    <3> QED BY <1>2, <3>1, <3>2, FinishSteps
  <2> QED BY <2>2, <2>3
<1> HIDE DEF a, b
<1>4. RowMove(row, ReapRow(row))
  <2>1. RowInv(row, g) /\ RowInv(a, g) /\ RowInv(b, g) /\ RowInv(ReapRow(row), g)
    BY <1>1, <1>2, <1>3
  <2> QED
    BY <1>1, <1>2, <1>3, <2>1
    DEF RowMove, RowInv, Capped, StatusOf, IsLive, IsTerminal, TerminalStates,
        Lifecycle!Move, Lifecycle!Accept, Lifecycle!Dispatch, Lifecycle!Return,
        Lifecycle!Finish, Lifecycle!Withdraw, Lifecycle!Outcomes
<1>5. IsTerminal(row) => ReapRow(row) = row
  BY <1>1, <1>2, <1>3 DEF IsTerminal, TerminalStates, IsLive
<1> QED BY <1>3, <1>4, <1>5

-----------------------------------------------------------------------------
(* Each handler *)

IInv == TypeOK /\ \A j \in Jobs : RowInv(jobs[j], grants[j])

RowsStep == \A j \in Jobs : RowStep(jobs[j], grants[j], jobs'[j], grants'[j])

\* Whatever claimForPod takes was queued, and dispatching it is a step.
LEMMA DispatchStep ==
  ASSUME IInv, NEW rows, \A j \in Jobs : RowInv(rows[j], grants[j]),
         NEW p \in Pods, NEW slots, NEW C \in Claims(rows, p, slots)
  PROVE  \A j \in Jobs : RowStep(rows[j], grants[j], ClaimAll(rows, C, p)[j], GrantAll(C, p)[j])
<1> SUFFICES ASSUME NEW j \in Jobs
             PROVE RowStep(rows[j], grants[j], ClaimAll(rows, C, p)[j], GrantAll(C, p)[j])
  OBVIOUS
<1>1. C \subseteq Queued(rows)
  BY DEF Claims, Oldest, Servable
<1>2. now + LeaseTtl \in Nat \ {0}
  BY TimeAssumption DEF IInv, TypeOK
<1>3. CASE j \in C
  <2>1. rows[j].state = "queued"
    BY <1>1, <1>3 DEF Queued
  <2> QED BY <1>2, <1>3, <2>1, ClaimStep DEF ClaimAll, GrantAll
<1>4. CASE j \notin C
  BY <1>4, StayStep DEF ClaimAll, GrantAll
<1> QED BY <1>3, <1>4

\* The lease renewals of a poll, followed by its dispatches.
LEMMA PollRows ==
  ASSUME IInv, NEW r \in Polls, NEW p \in Pods, NEW ready \in BOOLEAN,
         NEW report \in Reports(p), Poll(r, p, ready, report)
  PROVE  RowsStep
<1> SUFFICES ASSUME NEW j \in Jobs
             PROVE RowStep(jobs[j], grants[j], jobs'[j], grants'[j])
  BY DEF RowsStep
<1> DEFINE rows == RenewAll(report)
           slots == FreeSlots(pods[p].draining, ready, Cardinality(StillOwned(report)))
<1>1. PICK C \in Claims(rows, p, slots) : jobs' = ClaimAll(rows, C, p) /\ grants' = GrantAll(C, p)
  BY DEF Poll
<1>2. \A k \in Jobs : /\ RowStep(jobs[k], grants[k], rows[k], grants[k])
                      /\ rows[k].state = jobs[k].state /\ rows[k].attempts = jobs[k].attempts
  <2> SUFFICES ASSUME NEW k \in Jobs
               PROVE /\ RowStep(jobs[k], grants[k], rows[k], grants[k])
                     /\ rows[k].state = jobs[k].state /\ rows[k].attempts = jobs[k].attempts
    OBVIOUS
  <2>1. RowInv(jobs[k], grants[k]) /\ now + LeaseTtl \in Nat \ {0}
    BY TimeAssumption DEF IInv, TypeOK
  <2>2. report[k] \in Nat
    BY DEF Reports
  <2>3. CASE report[k] = 0
    BY <2>1, <2>3, StayStep DEF RenewAll
  <2>4. CASE report[k] # 0
    BY <2>1, <2>2, <2>4, RenewStep DEF RenewAll
  <2> QED BY <2>3, <2>4
<1> HIDE DEF rows, slots
<1>3. \A k \in Jobs : RowInv(rows[k], grants[k])
  BY <1>2 DEF RowStep
<1>4. RowStep(rows[j], grants[j], jobs'[j], grants'[j])
  BY <1>1, <1>3, DispatchStep
<1>5. RowMove(jobs[j], jobs'[j])
  BY <1>2, <1>4 DEF RowStep, RowMove, StatusOf
<1> QED
  BY <1>2, <1>4, <1>5 DEF RowStep, IsTerminal

\* Every step of the gateway takes every row by a legal step.
LEMMA NextRows ==
  ASSUME IInv, [Next]_vars
  PROVE  RowsStep
<1> SUFFICES ASSUME NEW i \in Jobs
             PROVE RowStep(jobs[i], grants[i], jobs'[i], grants'[i])
  BY DEF RowsStep
<1>a. RowInv(jobs[i], grants[i]) /\ now \in Nat /\ jobs \in [Jobs -> Row]
  BY DEF IInv, TypeOK
<1>b. (jobs'[i] = jobs[i] /\ grants' = grants) => RowStep(jobs[i], grants[i], jobs'[i], grants'[i])
  BY <1>a, StayStep
<1>1. ASSUME NEW r \in Polls, NEW p \in Pods, NEW ready \in BOOLEAN,
             NEW report \in Reports(p), Poll(r, p, ready, report)
      PROVE RowStep(jobs[i], grants[i], jobs'[i], grants'[i])
  BY <1>1, PollRows DEF RowsStep
<1>2. ASSUME NEW j \in Jobs, NEW l \in 1..Len(grants[j]),
             \/ ResultCompleted(j, l) \/ ResultCancelled(j, l) \/ ResultRetried(j, l)
             \/ \E retryable \in BOOLEAN : ResultFailed(j, l, retryable)
      PROVE RowStep(jobs[i], grants[i], jobs'[i], grants'[i])
  <2>1. l \in Nat
    OBVIOUS
  <2>2. /\ grants' = grants
        /\ \/ jobs' = [jobs EXCEPT ![j] = Complete(@, l)]
           \/ jobs' = [jobs EXCEPT ![j] = MarkCancelled(@, l)]
           \/ jobs[j].attempts < MaxAttempts /\ jobs' = [jobs EXCEPT ![j] = Requeue(@, l)]
           \/ jobs' = [jobs EXCEPT ![j] = Fail(@, l)]
    BY <1>2 DEF ResultCompleted, ResultCancelled, ResultRetried, ResultFailed
  <2>3. CASE i = j
    <3>1. /\ RowStep(jobs[i], grants[i], Complete(jobs[i], l), grants[i])
          /\ RowStep(jobs[i], grants[i], MarkCancelled(jobs[i], l), grants[i])
          /\ RowStep(jobs[i], grants[i], Fail(jobs[i], l), grants[i])
          /\ jobs[i].attempts < MaxAttempts =>
               RowStep(jobs[i], grants[i], Requeue(jobs[i], l), grants[i])
      BY <1>a, <2>1, FinishSteps
    <3> QED BY <1>a, <2>2, <2>3, <3>1
  <2>4. CASE i # j
    BY <1>a, <1>b, <2>2, <2>4
  <2> QED BY <2>3, <2>4
<1>3. ASSUME NEW j \in Jobs, SubmitBegin(j)
      PROVE RowStep(jobs[i], grants[i], jobs'[i], grants'[i])
  <2>1. CASE i = j
    BY <1>a, <1>3, <2>1, SubmitSteps DEF SubmitBegin
  <2> QED BY <1>a, <1>b, <1>3, <2>1 DEF SubmitBegin
<1>4. ASSUME NEW j \in Jobs, SubmitCommit(j)
      PROVE RowStep(jobs[i], grants[i], jobs'[i], grants'[i])
  <2>1. CASE i = j
    <3>1. jobs[j].created \in Nat
      BY <1>a DEF Row
    <3> QED BY <1>a, <1>4, <2>1, <3>1, SubmitSteps DEF SubmitCommit
  <2> QED BY <1>a, <1>b, <1>4, <2>1 DEF SubmitCommit
<1>5. ASSUME NEW j \in Jobs, Delete(j)
      PROVE RowStep(jobs[i], grants[i], jobs'[i], grants'[i])
  <2>1. CASE i = j
    BY <1>a, <1>5, <2>1, CancelSteps DEF Delete
  <2> QED BY <1>a, <1>b, <1>5, <2>1 DEF Delete
<1>6. CASE Sweep
  BY <1>a, <1>6, ReapStep DEF Sweep
<1>7. ASSUME NEW r \in Polls, PollWoken(r)
      PROVE RowStep(jobs[i], grants[i], jobs'[i], grants'[i])
  <2>1. polls[r].pod \in Pods /\ \A j \in Jobs : RowInv(jobs[j], grants[j])
    BY <1>7 DEF PollWoken, IInv, TypeOK
  <2> QED BY <1>7, <2>1, DispatchStep DEF PollWoken
<1>8. CASE Halt
  <2>1. CASE jobs[i].state = "writing"
    BY <1>a, <1>8, <2>1, SubmitSteps DEF Halt, LostSubmits
  <2> QED BY <1>a, <1>b, <1>8, <2>1 DEF Halt, LostSubmits
<1>9. CASE Start
  <2>1. now \in Nat \ {0}
    BY DEF IInv, TypeOK
  <2> QED BY <1>a, <1>9, <2>1, RecoverStep DEF Start
<1>10. CASE UNCHANGED <<jobs, grants>>
  BY <1>b, <1>10
<1>11. \/ \E r \in Polls, p \in Pods, ready \in BOOLEAN : \E report \in Reports(p) :
               Poll(r, p, ready, report)
       \/ \E j \in Jobs : \E l \in 1..Len(grants[j]) :
            \/ ResultCompleted(j, l) \/ ResultCancelled(j, l) \/ ResultRetried(j, l)
            \/ \E retryable \in BOOLEAN : ResultFailed(j, l, retryable)
       \/ \E j \in Jobs : SubmitBegin(j) \/ SubmitCommit(j) \/ Delete(j)
       \/ Sweep \/ Halt \/ Start
       \/ \E r \in Polls : PollWoken(r)
       \/ UNCHANGED <<jobs, grants>>
  <2>1. CASE AgentStep
    BY <2>1 DEF AgentStep
  <2>2. CASE ClientStep
    BY <2>2 DEF ClientStep, SetDraining
  <2>3. CASE GatewayStep
    BY <2>3 DEF GatewayStep, PollTimeout, ResultSettled
  <2>4. CASE ProcessStep
    BY <2>4 DEF ProcessStep, Stop, Exit, Crash, Tick
  <2>5. CASE UNCHANGED vars
    BY <2>5 DEF vars
  <2> QED BY <2>1, <2>2, <2>3, <2>4, <2>5 DEF Next
<1> QED
  BY <1>1, <1>2, <1>3, <1>4, <1>5, <1>6, <1>7, <1>8, <1>9, <1>10, <1>11

\* Counting outcomes on a pod's row leaves a pod's row.
LEMMA CountedRow ==
  ASSUME NEW x \in [known : BOOLEAN, draining : BOOLEAN, done : Nat, failed : Nat],
         NEW c \in Nat, NEW f \in Nat
  PROVE  [x EXCEPT !.done = @ + c, !.failed = @ + f]
           \in [known : BOOLEAN, draining : BOOLEAN, done : Nat, failed : Nat]
<1> DEFINE y == [x EXCEPT !.done = @ + c]
<1>1. y \in [known : BOOLEAN, draining : BOOLEAN, done : Nat, failed : Nat]
  OBVIOUS
<1> HIDE DEF y
<1>2. [y EXCEPT !.failed = @ + f] \in [known : BOOLEAN, draining : BOOLEAN, done : Nat, failed : Nat]
  BY <1>1
<1>3. [y EXCEPT !.failed = @ + f] = [x EXCEPT !.done = @ + c, !.failed = @ + f]
  BY DEF y
<1> QED BY <1>2, <1>3

\* Free slots are a number, and a poll only parks with some.
LEMMA SlotsType ==
  ASSUME NEW draining, NEW ready, NEW report
  PROVE  FreeSlots(draining, ready, Cardinality(StillOwned(report))) \in Nat
<1>1. StillOwned(report) \subseteq Jobs
  BY DEF StillOwned
<1>2. Cardinality(StillOwned(report)) \in Nat
  BY <1>1, JobsAssumption, FS_Subset, FS_CardinalityType
<1> QED
  BY <1>2, CapacityAssumption DEF FreeSlots

\* Every step leaves every variable in its range.
LEMMA NextType ==
  ASSUME IInv, [Next]_vars
  PROVE  TypeOK'
<1> USE DEF IInv
<1>a. TypeOK
  OBVIOUS
<1>1. /\ jobs' = [j \in Jobs |-> jobs'[j]] /\ grants' = [j \in Jobs |-> grants'[j]]
  <2>a. jobs = [j \in Jobs |-> jobs[j]] /\ grants = [j \in Jobs |-> grants[j]]
    BY <1>a DEF TypeOK
  <2>1. CASE AgentStep
    BY <2>a, <2>1 DEF AgentStep, Poll, ClaimAll, GrantAll, ResultCompleted, ResultCancelled,
                      ResultRetried, ResultFailed
  <2>2. CASE ClientStep
    BY <2>a, <2>2 DEF ClientStep, SubmitBegin, Delete, SetDraining
  <2>3. CASE GatewayStep
    BY <2>a, <2>3 DEF GatewayStep, PollWoken, PollTimeout, SubmitCommit, ResultSettled, Sweep,
                      ClaimAll, GrantAll
  <2>4. CASE ProcessStep
    BY <2>a, <2>4 DEF ProcessStep, Stop, Exit, Crash, Halt, LostSubmits, Start, Tick
  <2>5. CASE UNCHANGED vars
    BY <2>a, <2>5 DEF vars
  <2> QED BY <2>1, <2>2, <2>3, <2>4, <2>5 DEF Next
<1>2. jobs' \in [Jobs -> Row] /\ grants' \in [Jobs -> Seq(Pods)]
  <2>1. \A j \in Jobs : jobs'[j] \in Row /\ grants'[j] \in Seq(Pods)
    BY NextRows DEF RowsStep, RowStep, RowInv
  <2> QED BY <1>1, <2>1
<1>3. /\ now' \in Nat \ {0} /\ phase' \in {"up", "closing", "down"} /\ restarts' \in Nat
      /\ settling' \in SUBSET Jobs
  <2>1. CASE AgentStep
    BY <1>a, <2>1 DEF TypeOK, AgentStep, Poll, ResultCompleted, ResultCancelled, ResultRetried,
                      ResultFailed
  <2>2. CASE ClientStep
    BY <1>a, <2>2 DEF TypeOK, ClientStep, SubmitBegin, Delete, SetDraining
  <2>3. CASE GatewayStep
    BY <1>a, <2>3 DEF TypeOK, GatewayStep, PollWoken, PollTimeout, SubmitCommit, ResultSettled,
                      Sweep
  <2>4. CASE ProcessStep
    BY <1>a, <2>4 DEF TypeOK, ProcessStep, Stop, Exit, Crash, Halt, Start, Tick
  <2>5. CASE UNCHANGED vars
    BY <1>a, <2>5 DEF TypeOK, vars
  <2> QED BY <2>1, <2>2, <2>3, <2>4, <2>5 DEF Next
<1>4. pods' \in [Pods -> [known : BOOLEAN, draining : BOOLEAN, done : Nat, failed : Nat]]
  <2> DEFINE PodRow == [known : BOOLEAN, draining : BOOLEAN, done : Nat, failed : Nat]
  <2>a. pods \in [Pods -> PodRow]
    BY <1>a DEF TypeOK
  <2>b. \A p \in Pods : Outcome(p, 1, 0) \in [Pods -> PodRow]
          /\ Outcome(p, 0, 1) \in [Pods -> PodRow]
    <3> SUFFICES ASSUME NEW p \in Pods, NEW c \in Nat, NEW f \in Nat
                 PROVE Outcome(p, c, f) \in [Pods -> PodRow]
      OBVIOUS
    <3>1. pods[p] \in PodRow
      BY <2>a
    <3>2. [pods[p] EXCEPT !.done = @ + c, !.failed = @ + f] \in PodRow
      BY <3>1, CountedRow
    <3>3. Outcome(p, c, f) = [pods EXCEPT ![p] = [pods[p] EXCEPT !.done = @ + c, !.failed = @ + f]]
      BY <2>a, <3>1 DEF Outcome
    <3> HIDE DEF PodRow
    <3> QED BY <2>a, <3>2, <3>3
  <2>c. \A j \in Jobs, l \in Nat : Holds(jobs[j], l) => jobs[j].pod \in Pods
    BY DEF RowInv, Fenced, Holds, Row
  <2> SUFFICES pods' \in [Pods -> PodRow]
    OBVIOUS
  <2>1. CASE AgentStep
    <3>1. ASSUME NEW p \in Pods PROVE [pods EXCEPT ![p].known = TRUE] \in [Pods -> PodRow]
      BY <2>a
    <3> HIDE DEF PodRow
    <3> QED
    BY <2>a, <2>b, <2>c, <2>1, <3>1 DEF AgentStep, Poll, ResultAccepted, ResultCompleted,
       ResultCancelled, ResultRetried,
                            ResultFailed
  <2>2. CASE ClientStep
    BY <2>a, <2>2 DEF ClientStep, SubmitBegin, Delete, SetDraining
  <2>3. CASE Sweep
    <3>1. \A p \in Pods : Cardinality({j \in Jobs : ChargedPod(jobs[j]) = p}) \in Nat
      <4>1. \A p \in Pods : {j \in Jobs : ChargedPod(jobs[j]) = p} \subseteq Jobs
        OBVIOUS
      <4> QED BY <4>1, JobsAssumption, FS_Subset, FS_CardinalityType
    <3>2. pods' = [p \in Pods |-> [pods[p] EXCEPT
                     !.failed = @ + Cardinality({j \in Jobs : ChargedPod(jobs[j]) = p})]]
      BY <2>3 DEF Sweep
    <3> QED BY <2>a, <3>1, <3>2
  <2>4. CASE GatewayStep /\ ~Sweep
    BY <2>a, <2>4 DEF GatewayStep, PollWoken, PollTimeout, SubmitCommit, ResultSettled
  <2>5. CASE ProcessStep
    BY <2>a, <2>5 DEF ProcessStep, Stop, Exit, Crash, Halt, Start, Tick
  <2>6. CASE UNCHANGED vars
    BY <2>a, <2>6 DEF vars
  <2> QED BY <2>1, <2>2, <2>3, <2>4, <2>5, <2>6 DEF Next
<1>5. /\ polls' \in [Polls -> PollRecord]
      /\ \A r \in Polls : polls'[r].st # "idle" => polls'[r].pod \in Pods
  <2> DEFINE Sound(ps) == /\ ps \in [Polls -> PollRecord]
                          /\ \A r \in Polls : ps[r].st # "idle" => ps[r].pod \in Pods
  <2> SUFFICES Sound(polls')
    OBVIOUS
  <2>a. Sound(polls)
    BY <1>a DEF TypeOK
  <2>b. Sound(Kicked)
    BY <2>a DEF Kicked, PollRecord
  <2>c. Sound(Released) /\ Sound([r \in Polls |-> IdlePoll])
    BY <2>a DEF Released, PollRecord, IdlePoll
  <2>d. \A r \in Polls : Sound([polls EXCEPT ![r] = IdlePoll])
    BY <2>a DEF PollRecord, IdlePoll
  <2>1. CASE AgentStep
    <3>1. ASSUME NEW r \in Polls, NEW p \in Pods, NEW ready \in BOOLEAN,
                 NEW report \in Reports(p), Poll(r, p, ready, report)
          PROVE Sound(polls')
      <4> DEFINE slots == FreeSlots(pods[p].draining, ready, Cardinality(StillOwned(report)))
      <4>1. slots \in Nat
        BY SlotsType
      <4>2. \/ polls' = polls
            \/ polls' = [polls EXCEPT ![r] = [st |-> "parked", pod |-> p, slots |-> slots]]
        BY <3>1 DEF Poll
      <4> HIDE DEF slots
      <4> QED BY <2>a, <4>1, <4>2 DEF PollRecord
    <3>2. CASE polls' = polls \/ polls' = Kicked
      BY <2>a, <2>b, <3>2
    <3> HIDE DEF Sound
    <3> QED BY <2>1, <3>1, <3>2 DEF AgentStep, ResultCompleted, ResultCancelled, ResultRetried,
                                    ResultFailed
  <2> HIDE DEF Sound
  <2>2. CASE ClientStep
    BY <2>a, <2>2 DEF ClientStep, SubmitBegin, Delete, SetDraining
  <2>3. CASE GatewayStep
    BY <2>a, <2>b, <2>d, <2>3 DEF GatewayStep, PollWoken, PollTimeout, SubmitCommit,
                                  ResultSettled, Sweep
  <2>4. CASE ProcessStep
    BY <2>a, <2>c, <2>4 DEF ProcessStep, Stop, Exit, Crash, Halt, Start, Tick
  <2>5. CASE UNCHANGED vars
    BY <2>a, <2>5 DEF vars
  <2> QED BY <2>1, <2>2, <2>3, <2>4, <2>5 DEF Next
<1> QED
  BY <1>2, <1>3, <1>4, <1>5 DEF TypeOK

-----------------------------------------------------------------------------
(* The theorems *)

\* The initial states satisfy the inductive invariant.
LEMMA InitIInv == Init => IInv
<1> SUFFICES ASSUME Init PROVE IInv
  OBVIOUS
<1>1. AbsentRow \in Row
  BY DEF AbsentRow, Row, RowStates
<1>2. RowInv(AbsentRow, <<>>)
  BY <1>1, AttemptsAssumption DEF RowInv, Fenced, Capped, AbsentRow
<1>3. \A j \in Jobs : jobs[j] = AbsentRow /\ grants[j] = <<>>
  BY DEF Init
<1>4. TypeOK
  BY <1>1 DEF Init, TypeOK, PollRecord, IdlePoll
<1> QED BY <1>2, <1>3, <1>4 DEF IInv

\* The inductive invariant is preserved.
LEMMA NextIInv == IInv /\ [Next]_vars => IInv'
<1> SUFFICES ASSUME IInv, [Next]_vars PROVE IInv'
  OBVIOUS
<1>1. TypeOK'
  BY NextType
<1>2. \A j \in Jobs : RowInv(jobs'[j], grants'[j])
  BY NextRows DEF RowsStep, RowStep
<1>3. (\A j \in Jobs : RowInv(jobs[j], grants[j]))'
  BY <1>2 DEF RowInv, Row, Fenced, Capped
<1> QED BY <1>1, <1>3 DEF IInv

\* In every reachable state types are correct and every row agrees with the
\* record of the pods its leases were granted to.
THEOREM Inductive == Spec => []IInv
BY InitIInv, NextIInv, PTL DEF Spec

\* Type correctness of the gateway, for every number of jobs, pods and polls.
THEOREM TypeCorrect == Spec => []TypeOK
<1>1. IInv => TypeOK
  BY DEF IInv
<1> QED BY <1>1, Inductive, PTL

\* Lease fencing: a job in progress is held by exactly the pod and the lease it
\* was last granted to, and no other job honours any lease.
THEOREM LeasesFence == Spec => []LeaseOwnership
<1>1. IInv => LeaseOwnership
  BY DEF IInv, RowInv, LeaseOwnership
<1> QED BY <1>1, Inductive, PTL

\* No job is dispatched more than MaxAttempts times.
THEOREM AttemptsAreCapped == Spec => []AttemptCap
<1>1. IInv => AttemptCap
  BY DEF IInv, RowInv, AttemptCap
<1> QED BY <1>1, Inductive, PTL

\* A finished job never changes again, whoever calls and whatever is retried.
THEOREM OutcomesAreFinal == Spec => FinalIsFinal
<1>1. IInv /\ [Next]_vars => [\A j \in Jobs : IsTerminal(jobs[j]) => jobs'[j] = jobs[j]]_vars
  BY NextRows DEF RowsStep, RowStep
<1> QED BY <1>1, Inductive, PTL DEF Spec, FinalIsFinal

\* The gateway implements the abstract life cycle of a job.
THEOREM ImplementsLifecycle == Spec => LifecycleSpec
<1>1. Init => Lifecycle!Init
  BY DEF Init, Lifecycle!Init, AbsentRow
<1>2. IInv /\ [Next]_vars => [Lifecycle!Next]_(Lifecycle!vars)
  <2> SUFFICES ASSUME IInv, [Next]_vars PROVE Lifecycle!Next
    OBVIOUS
  <2>1. \A j \in Jobs : RowMove(jobs[j], jobs'[j]) /\ RowInv(jobs'[j], grants'[j])
    BY NextRows DEF RowsStep, RowStep
  <2>2. \A j \in Jobs : jobs'[j].state \in RowStates /\ jobs'[j].attempts \in 0..MaxAttempts
    BY <2>1, AttemptsAssumption DEF RowInv, Row, Capped
  <2>3. \A j \in Jobs : StatusOf(jobs'[j]) \in Lifecycle!Statuses
    BY <2>2 DEF StatusOf, RowStates, VideoStates, TerminalStates, Lifecycle!Statuses,
       Lifecycle!Outcomes
  <2> QED BY <2>1, <2>2, <2>3 DEF Lifecycle!Next, RowMove, StatusOf
<1> QED BY <1>1, <1>2, Inductive, PTL DEF Spec, LifecycleSpec, Lifecycle!Spec
=============================================================================
