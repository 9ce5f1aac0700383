---------------------------- MODULE DispatchProofs ---------------------------
(***************************************************************************)
(* What the gateway's steps do to the queue, the leases and the parked     *)
(* polls: the order of dispatch, what takes a job from its pod, what a     *)
(* sweep leaves, and that nobody is left waiting for a job that is there.  *)
(* The row invariant of GatewayProofs is used throughout.                  *)
(***************************************************************************)
EXTENDS GatewayProofs

-----------------------------------------------------------------------------
(* Dispatch *)

\* What claimForPod takes is queued and asks for the pod's model, and an older
\* queued job for that model is taken as well.
LEMMA ClaimsOldest ==
  ASSUME NEW rows, NEW p, NEW slots, NEW C \in Claims(rows, p, slots),
         \A j \in Jobs : rows[j].created \in Nat
  PROVE  /\ C \subseteq Servable(Queued(rows), p)
         /\ \A k \in C, j \in Servable(Queued(rows), p) :
              rows[j].created < rows[k].created => j \in C
<1>1. PICK window \in Oldest(rows, Queued(rows), ListLimit) :
        C \in Oldest(rows, Servable(window, p), slots)
  BY DEF Claims
<1>2. /\ window \subseteq Queued(rows) /\ C \subseteq Servable(window, p)
      /\ \A k \in window, j \in Queued(rows) \ window : rows[k].created <= rows[j].created
      /\ \A k \in C, j \in Servable(window, p) \ C : rows[k].created <= rows[j].created
  BY <1>1 DEF Oldest
<1>3. ASSUME NEW k \in C, NEW j \in Servable(Queued(rows), p),
             rows[j].created < rows[k].created
      PROVE j \in C
  <2>1. k \in window /\ j \in Queued(rows) /\ k \in Jobs /\ j \in Jobs
    BY <1>2, <1>3 DEF Servable, Queued
  <2>2. ~(rows[k].created <= rows[j].created)
    BY <1>3, <2>1
  <2>3. j \in window
    BY <1>2, <2>1, <2>2
  <2>4. j \in Servable(window, p)
    BY <1>3, <2>3 DEF Servable
  <2> QED BY <1>2, <1>3, <2>2, <2>4
<1> QED BY <1>2, <1>3 DEF Servable

\* Rows that differ from the table at most in the expiry of renewed leases.
Renewed(rows) ==
  \A j \in Jobs : /\ rows[j] \in Row /\ rows[j].created \in Nat
                  /\ rows[j].state = jobs[j].state /\ rows[j].lease = jobs[j].lease
                  /\ rows[j].created = jobs[j].created /\ rows[j].pod = jobs[j].pod
                  /\ rows[j].cancelAt = jobs[j].cancelAt

\* Renewing the leases of a report touches only their expiry.
LEMMA RenewalKeeps ==
  ASSUME TypeOK, NEW p, NEW report \in Reports(p)
  PROVE  Renewed(RenewAll(report))
<1>1. ASSUME NEW row \in Row, NEW l, NEW t \in Nat
      PROVE  LET new == RenewLease(row, l, t)
             IN /\ new \in Row /\ new.state = row.state /\ new.lease = row.lease
                /\ new.created = row.created /\ new.pod = row.pod
                /\ new.cancelAt = row.cancelAt
  BY DEF Row, RenewLease
<1>2. \A j \in Jobs : jobs[j] \in Row /\ jobs[j].created \in Nat /\ now + LeaseTtl \in Nat
  BY TimeAssumption DEF TypeOK, Row
<1> QED BY <1>1, <1>2 DEF RenewAll, Renewed

\* The two ways a step hands out jobs.
Dispatches ==
  \E rows : Renewed(rows) /\
    \E p \in Pods, slots \in Nat : \E C \in Claims(rows, p, slots) :
       jobs' = ClaimAll(rows, C, p) /\ grants' = GrantAll(C, p)

\* A poll dispatches from the rows it renewed.
LEMMA PollDispatches ==
  ASSUME TypeOK, NEW r \in Polls, NEW p \in Pods, NEW ready \in BOOLEAN,
         NEW report \in Reports(p), Poll(r, p, ready, report)
  PROVE  Dispatches
<1> DEFINE slots == FreeSlots(pods[p].draining, ready, Cardinality(StillOwned(report)))
           rows == RenewAll(report)
<1>1. slots \in Nat /\ Renewed(rows)
  BY SlotsType, RenewalKeeps
<1>2. \E C \in Claims(rows, p, slots) : jobs' = ClaimAll(rows, C, p) /\ grants' = GrantAll(C, p)
  BY DEF Poll
<1> HIDE DEF slots, rows
<1> QED BY <1>1, <1>2 DEF Dispatches

\* A woken poll dispatches from the rows as they are.
LEMMA WokenDispatches ==
  ASSUME TypeOK, NEW r \in Polls, PollWoken(r)
  PROVE  Dispatches
<1>1. polls[r].pod \in Pods /\ polls[r].slots \in Nat /\ Renewed(jobs)
  BY DEF TypeOK, PollWoken, PollRecord, Renewed, Row
<1>2. \E C \in Claims(jobs, polls[r].pod, polls[r].slots) :
        jobs' = ClaimAll(jobs, C, polls[r].pod) /\ grants' = GrantAll(C, polls[r].pod)
  BY DEF PollWoken
<1> QED BY <1>1, <1>2 DEF Dispatches

\* What a step may do to the rows.
LEMMA NextParts ==
  ASSUME IInv, [Next]_vars
  PROVE  \/ Dispatches
         \/ /\ UNCHANGED grants
            /\ \/ \E j \in Jobs : \E l \in 1..Len(grants[j]) :
                    \/ ResultCompleted(j, l) \/ ResultCancelled(j, l) \/ ResultRetried(j, l)
                    \/ \E retryable \in BOOLEAN : ResultFailed(j, l, retryable)
               \/ \E j \in Jobs : SubmitBegin(j) \/ SubmitCommit(j) \/ Delete(j)
               \/ Sweep \/ Halt \/ Start \/ UNCHANGED jobs
<1>a. TypeOK
  BY DEF IInv
<1>1. CASE AgentStep
  <2>1. ASSUME NEW r \in Polls, NEW p \in Pods, NEW ready \in BOOLEAN,
               NEW report \in Reports(p), Poll(r, p, ready, report)
        PROVE Dispatches
    BY <1>a, <2>1, PollDispatches
  <2>2. ASSUME NEW j \in Jobs, NEW l \in 1..Len(grants[j]),
               \/ ResultCompleted(j, l) \/ ResultCancelled(j, l) \/ ResultRetried(j, l)
               \/ \E retryable \in BOOLEAN : ResultFailed(j, l, retryable)
        PROVE UNCHANGED grants
    BY <2>2 DEF ResultCompleted, ResultCancelled, ResultRetried, ResultFailed
  <2> QED BY <1>1, <2>1, <2>2 DEF AgentStep
<1>2. CASE ClientStep
  BY <1>2 DEF ClientStep, SubmitBegin, Delete, SetDraining
<1>3. CASE GatewayStep
  <2>1. ASSUME NEW r \in Polls, PollWoken(r)
        PROVE Dispatches
    BY <1>a, <2>1, WokenDispatches
  <2> QED BY <1>3, <2>1 DEF GatewayStep, PollTimeout, SubmitCommit, ResultSettled, Sweep
<1>4. CASE ProcessStep
  BY <1>4 DEF ProcessStep, Stop, Exit, Crash, Halt, Start, Tick
<1>5. CASE UNCHANGED vars
  BY <1>5 DEF vars
<1> QED BY <1>1, <1>2, <1>3, <1>4, <1>5 DEF Next

\* A step dispatches no queued job while an older one for its model stays.
LEMMA DispatchInOrder ==
  ASSUME IInv, [Next]_vars,
         NEW j \in Jobs, NEW k \in Jobs,
         jobs[j].state = "queued", jobs[k].state = "queued", JobModel[j] = JobModel[k],
         jobs[j].created < jobs[k].created, grants'[k] # grants[k]
  PROVE  grants'[j] # grants[j]
<1>1. Dispatches
  BY NextParts
<1>a. PICK rows : Renewed(rows) /\
        \E p \in Pods, slots \in Nat : \E C \in Claims(rows, p, slots) : grants' = GrantAll(C, p)
  BY <1>1 DEF Dispatches
<1>b. PICK p \in Pods, slots \in Nat : \E C \in Claims(rows, p, slots) : grants' = GrantAll(C, p)
  BY <1>a
<1>2. PICK C \in Claims(rows, p, slots) : grants' = GrantAll(C, p)
  BY <1>b
<1>c. \A i \in Jobs : /\ rows[i].state = jobs[i].state
                     /\ rows[i].created = jobs[i].created /\ rows[i].created \in Nat
  BY <1>a DEF Renewed
<1>3. k \in C
  BY <1>2 DEF GrantAll
<1>4. k \in Servable(Queued(rows), p)
  BY <1>c, <1>2, <1>3, ClaimsOldest
<1>5. j \in Servable(Queued(rows), p)
  BY <1>c, <1>4 DEF Servable, Queued
<1>6. j \in C
  BY <1>c, <1>3, <1>5, ClaimsOldest
<1>7. grants[j] \in Seq(Pods)
  BY DEF IInv, TypeOK
<1>8. Append(grants[j], p) # grants[j]
  <2>1. Len(Append(grants[j], p)) = Len(grants[j]) + 1 /\ Len(grants[j]) \in Nat
    BY <1>7
  <2> QED BY <2>1
<1> QED BY <1>2, <1>6, <1>8 DEF GrantAll

\* Oldest first: no job is dispatched while an older one for the same model
\* stays in the queue, whichever of two polls runs and whatever limits apply.
THEOREM DispatchesOldestFirst == Spec => OldestFirst
<1> DEFINE Ordered ==
      \A j, k \in Jobs :
        /\ jobs[j].state = "queued" /\ jobs[k].state = "queued"
        /\ JobModel[j] = JobModel[k] /\ jobs[j].created < jobs[k].created
        /\ grants'[k] # grants[k]
        => grants'[j] # grants[j]
<1>1. IInv /\ [Next]_vars => [Ordered]_vars
  BY DispatchInOrder
<1> QED BY <1>1, Inductive, PTL DEF Spec, OldestFirst

-----------------------------------------------------------------------------
(* Shutdown *)

\* A process that is not up has no poll in progress: SIGTERM is taken between
\* handlers and clears the parked polls, a handler that comes to its wait later
\* does not park, and a crash leaves none.
NoPollUnlessUp == phase # "up" => \A r \in Polls : polls[r].st = "idle"

\* No step parks or wakes a poll once the process closes.
LEMMA NextNoPoll ==
  ASSUME IInv, NoPollUnlessUp, [Next]_vars
  PROVE  NoPollUnlessUp'
<1>a. \A r \in Polls : polls[r].st \in {"idle", "parked", "woken"}
  BY DEF IInv, TypeOK, PollRecord
<1>b. \A r \in Polls : polls[r].st = "idle" => Kicked[r].st = "idle"
  BY DEF Kicked
<1>1. CASE AgentStep
  <2>1. ASSUME NEW r \in Polls, NEW p \in Pods, NEW ready \in BOOLEAN,
               NEW report \in Reports(p), Poll(r, p, ready, report)
        PROVE phase' = phase /\ (phase # "up" => polls' = polls)
    BY <2>1 DEF Poll
  <2>2. ASSUME NEW j \in Jobs, NEW l \in 1..Len(grants[j]),
               \/ ResultCompleted(j, l) \/ ResultCancelled(j, l) \/ ResultRetried(j, l)
               \/ \E retryable \in BOOLEAN : ResultFailed(j, l, retryable)
        PROVE phase' = phase /\ (polls' = polls \/ polls' = Kicked)
    BY <2>2 DEF ResultCompleted, ResultCancelled, ResultRetried, ResultFailed
  <2> QED BY <1>1, <1>b, <2>1, <2>2 DEF AgentStep, NoPollUnlessUp
<1>2. CASE ClientStep
  BY <1>2 DEF ClientStep, SubmitBegin, Delete, SetDraining, NoPollUnlessUp
<1>3. CASE GatewayStep
  BY <1>3, <1>b DEF GatewayStep, PollWoken, PollTimeout, SubmitCommit, ResultSettled, Sweep,
                    NoPollUnlessUp
<1>4. CASE ProcessStep
  <2>1. CASE Stop
    BY <1>a, <2>1 DEF Stop, Quiet, Released, IdlePoll, NoPollUnlessUp
  <2>2. CASE Halt
    BY <2>2 DEF Halt, IdlePoll, NoPollUnlessUp
  <2>3. CASE Start \/ Tick
    BY <2>3 DEF Start, Tick, NoPollUnlessUp
  <2> QED BY <1>4, <2>1, <2>2, <2>3 DEF ProcessStep, Exit, Crash
<1>5. CASE UNCHANGED vars
  BY <1>5 DEF vars, NoPollUnlessUp
<1> QED BY <1>1, <1>2, <1>3, <1>4, <1>5 DEF Next

\* While the process closes no poll is parked or about to claim after a wait, so
\* close() never waits for one: for any number of polls, whenever they come.
THEOREM ClosingWaitsForNoPoll == Spec => []CloseWaitsForNoPoll
<1>1. Init => NoPollUnlessUp
  BY DEF Init, NoPollUnlessUp
<1>2. IInv /\ NoPollUnlessUp /\ [Next]_vars => NoPollUnlessUp'
  BY NextNoPoll
<1>3. NoPollUnlessUp => CloseWaitsForNoPoll
  BY DEF NoPollUnlessUp, CloseWaitsForNoPoll
<1> QED BY <1>1, <1>2, <1>3, Inductive, PTL DEF Spec

-----------------------------------------------------------------------------
(* Sweeps *)

\* A job whose time or last lease was over before the three passes, and the row
\* they leave of it.
RanOut(row) ==
  Overdue(row, now) \/ (LeaseExpired(row, now) /\ row.attempts = MaxAttempts)

\* After the three passes a row is due for none of them, in whatever order
\* they changed it, and failed if its time or attempts were up.
LEMMA ReapedRow ==
  ASSUME NEW row \in Row, now \in Nat
  PROVE  /\ ~LeaseExpired(ReapRow(row), now)
         /\ ~Overdue(ReapRow(row), now)
         /\ ~StaleCancel(ReapRow(row), now)
         /\ RanOut(row) => ReapRow(row).state = "failed"
<1> DEFINE a == ReapLease(row)
           b == ReapDeadline(a)
<1>1. a \in Row /\ ~LeaseExpired(a, now)
  BY DEF ReapLease, LeaseExpired, Fail, Requeue, Owned, Finished, Row, RowStates, VideoStates,
         TerminalStates
<1> HIDE DEF a
<1>2. b \in Row /\ ~LeaseExpired(b, now) /\ ~Overdue(b, now)
  BY <1>1 DEF ReapDeadline, Overdue, IsLive, LeaseExpired, Fail, Owned, Finished, Row,
              RowStates, VideoStates, TerminalStates, Deadline
<1>3. ReapRow(row) = ReapCancel(b)
  BY DEF ReapRow, a, b
<1>5. RanOut(row) => a.state = "failed" \/ Overdue(a, now)
  BY DEF a, RanOut, ReapLease, Overdue, IsLive, LeaseExpired, Fail, Requeue, Owned, Finished, Row,
         Deadline
<1>6. RanOut(row) => b.state = "failed"
  BY <1>1, <1>5 DEF ReapDeadline, Overdue, IsLive, Fail, Owned, Finished, Row
<1> HIDE DEF b
<1> QED
  BY <1>2, <1>3, <1>6 DEF ReapCancel, Overdue, IsLive, LeaseExpired, StaleCancel, MarkCancelled, Owned,
              Finished, Row, Deadline

\* A sweep settles everything it looks at: no pass undoes or misses the work of
\* another.
THEOREM SweepsSettle == Spec => SweepSettles
<1> DEFINE Settled ==
      Sweep => \A j \in Jobs :
        /\ ~LeaseExpired(jobs'[j], now) /\ ~Overdue(jobs'[j], now)
        /\ ~StaleCancel(jobs'[j], now)
        /\ \/ Overdue(jobs[j], now)
           \/ LeaseExpired(jobs[j], now) /\ jobs[j].attempts = MaxAttempts
           => jobs'[j].state = "failed"
<1>1. IInv /\ [Next]_vars => [Settled]_vars
  <2> SUFFICES ASSUME IInv, Sweep, NEW j \in Jobs
               PROVE /\ ~LeaseExpired(jobs'[j], now) /\ ~Overdue(jobs'[j], now)
                     /\ ~StaleCancel(jobs'[j], now)
                     /\ \/ Overdue(jobs[j], now)
                        \/ LeaseExpired(jobs[j], now) /\ jobs[j].attempts = MaxAttempts
                        => jobs'[j].state = "failed"
    OBVIOUS
  <2>1. jobs[j] \in Row /\ now \in Nat /\ jobs'[j] = ReapRow(jobs[j])
    BY DEF IInv, TypeOK, Sweep
  <2>2. /\ ~LeaseExpired(jobs'[j], now) /\ ~Overdue(jobs'[j], now)
        /\ ~StaleCancel(jobs'[j], now)
        /\ RanOut(jobs[j]) => jobs'[j].state = "failed"
    BY <2>1, ReapedRow
  <2> QED BY <2>2 DEF RanOut
<1> QED BY <1>1, Inductive, PTL DEF Spec, SweepSettles

-----------------------------------------------------------------------------
(* Leases in progress *)

\* The named results a holder may give.
ResultOf(j, l) ==
  \/ ResultCompleted(j, l) \/ ResultCancelled(j, l) \/ ResultRetried(j, l)
  \/ ResultFailed(j, l, TRUE) \/ ResultFailed(j, l, FALSE)

\* No step but a result under its lease takes a job from a pod that renews in
\* time: not another poll, a client, a restart or a sweep.
LEMMA HolderKept ==
  ASSUME IInv, [Next]_vars, NEW j \in Jobs,
         jobs[j].state = "in_progress", jobs[j].expires >= now,
         Deadline(jobs[j]) >= now, ~StaleCancel(jobs[j], now)
  PROVE  Holds(jobs'[j], jobs[j].lease) \/ ResultOf(j, jobs[j].lease)
<1> DEFINE l == jobs[j].lease
<1>a. jobs \in [Jobs -> Row] /\ jobs[j] \in Row /\ now \in Nat /\ Holds(jobs[j], l)
  BY DEF IInv, TypeOK, Holds
<1>b. jobs'[j] = jobs[j] => Holds(jobs'[j], l)
  BY <1>a
<1>1. CASE Dispatches
  <2>a. PICK rows : Renewed(rows) /\
          \E p \in Pods, slots \in Nat : \E C \in Claims(rows, p, slots) : jobs' = ClaimAll(rows, C, p)
    BY <1>1 DEF Dispatches
  <2>b. PICK p \in Pods, slots \in Nat :
          \E C \in Claims(rows, p, slots) : jobs' = ClaimAll(rows, C, p)
    BY <2>a
  <2>1. PICK C \in Claims(rows, p, slots) : jobs' = ClaimAll(rows, C, p)
    BY <2>b
  <2>2. j \notin C
    BY <2>a, ClaimsOldest DEF Servable, Queued, Renewed
  <2> QED BY <2>a, <2>1, <2>2, <1>a DEF ClaimAll, Holds, Renewed
<1>2. ASSUME NEW i \in Jobs, NEW k \in 1..Len(grants[i]),
             \/ ResultCompleted(i, k) \/ ResultCancelled(i, k) \/ ResultRetried(i, k)
             \/ \E retryable \in BOOLEAN : ResultFailed(i, k, retryable)
      PROVE Holds(jobs'[j], l) \/ ResultOf(j, l)
  <2>1. CASE i = j
    <3>1. k = l
      BY <1>2, <2>1 DEF ResultCompleted, ResultCancelled, ResultRetried, ResultFailed,
                        ResultAccepted, Holds
    <3> QED BY <1>2, <2>1, <3>1 DEF ResultOf
  <2>2. CASE i # j
    <3>1. jobs'[j] = jobs[j]
      BY <1>2, <2>2, <1>a DEF ResultCompleted, ResultCancelled, ResultRetried, ResultFailed
    <3> QED BY <3>1, <1>b
  <2> QED BY <2>1, <2>2
<1>3. ASSUME NEW i \in Jobs, SubmitBegin(i) \/ SubmitCommit(i) \/ Delete(i)
      PROVE Holds(jobs'[j], l)
  <2>1. CASE SubmitBegin(i) \/ SubmitCommit(i)
    BY <2>1, <1>a DEF SubmitBegin, SubmitCommit, Holds
  <2>2. CASE Delete(i)
    BY <2>2, <1>a DEF Delete, CancelQueued, RequestCancel, Holds, Row
  <2> QED BY <1>3, <2>1, <2>2
<1>4. CASE Sweep
  <2>1. ~LeaseExpired(jobs[j], now) /\ ~Overdue(jobs[j], now)
    BY <1>a, TimeAssumption DEF LeaseExpired, Overdue, Deadline, Row
  <2>2. ReapRow(jobs[j]) = jobs[j]
    BY <2>1 DEF ReapRow, ReapLease, ReapDeadline, ReapCancel
  <2> QED BY <1>4, <2>2, <1>b DEF Sweep
<1>5. CASE Halt \/ Start
  BY <1>5, <1>a DEF Halt, LostSubmits, Start, RecoverOnStartup, Holds, Row
<1>6. CASE UNCHANGED jobs
  BY <1>6, <1>b
<1>7. \/ Dispatches
      \/ \E i \in Jobs : \E k \in 1..Len(grants[i]) :
           \/ ResultCompleted(i, k) \/ ResultCancelled(i, k) \/ ResultRetried(i, k)
           \/ \E retryable \in BOOLEAN : ResultFailed(i, k, retryable)
      \/ \E i \in Jobs : SubmitBegin(i) \/ SubmitCommit(i) \/ Delete(i)
      \/ Sweep \/ Halt \/ Start \/ UNCHANGED jobs
  BY NextParts
<1> QED BY <1>1, <1>2, <1>3, <1>4, <1>5, <1>6, <1>7 DEF ResultOf

\* A pod that renews in time keeps its job until it reports, or its client
\* cancels and the grace runs out.
THEOREM LeasesAreHonoured == Spec => LeaseHonoured
<1> DEFINE Honoured ==
      \A j \in Jobs :
        LET row == jobs[j] IN
        /\ row.state = "in_progress" /\ row.expires >= now
        /\ Deadline(row) >= now /\ ~StaleCancel(row, now)
        /\ ~Holds(jobs'[j], row.lease)
        => \/ ResultCompleted(j, row.lease) \/ ResultCancelled(j, row.lease)
           \/ ResultRetried(j, row.lease) \/ ResultFailed(j, row.lease, TRUE)
           \/ ResultFailed(j, row.lease, FALSE)
<1>1. IInv /\ [Next]_vars => [Honoured]_vars
  BY HolderKept DEF ResultOf
<1> QED BY <1>1, Inductive, PTL DEF Spec, LeaseHonoured

-----------------------------------------------------------------------------
(* Waiters *)

\* The window of listQueued shows work to every pod that has some: a pod is not
\* kept from its jobs by a hundred older ones of other models.  The registry of
\* domain/models.ts has one model, so the code meets the first condition.
WindowShowsWork ==
  \/ \A j, k \in Jobs : JobModel[j] = JobModel[k]
  \/ Cardinality(Jobs) <= ListLimit

\* With a free slot, a poll that could be served is served.
LEMMA ClaimsSome ==
  ASSUME WindowShowsWork, NEW rows, NEW p, NEW slots \in Nat \ {0},
         NEW C \in Claims(rows, p, slots), Servable(Queued(rows), p) # {}
  PROVE  C # {}
<1>1. PICK window \in Oldest(rows, Queued(rows), ListLimit) :
        C \in Oldest(rows, Servable(window, p), slots)
  BY DEF Claims
<1>2. /\ window \subseteq Queued(rows) /\ Queued(rows) \subseteq Jobs
      /\ window # Queued(rows) => Cardinality(window) = ListLimit
      /\ C \subseteq Servable(window, p)
      /\ C # Servable(window, p) => Cardinality(C) = slots
  BY <1>1 DEF Oldest, Queued
<1>3. PICK j \in Queued(rows) : JobModel[j] = PodModel[p]
  BY DEF Servable
<1>4. Servable(window, p) # {}
  <2>1. CASE \A i, k \in Jobs : JobModel[i] = JobModel[k]
    <3>1. window # {}
      BY <1>2, <1>3, CapacityAssumption, FS_EmptySet
    <3>2. PICK k \in window : TRUE
      BY <3>1
    <3> QED BY <2>1, <1>2, <1>3, <3>2 DEF Servable
  <2>2. CASE Cardinality(Jobs) <= ListLimit
    <3>1. window = Queued(rows)
      <4> SUFFICES ASSUME window # Queued(rows) PROVE FALSE
        OBVIOUS
      <4>1. Cardinality(window) <= Cardinality(Jobs) /\ window # Jobs
            /\ Cardinality(window) \in Nat /\ Cardinality(Jobs) \in Nat
            /\ (Cardinality(Jobs) = Cardinality(window) => Jobs = window)
        BY <1>2, JobsAssumption, FS_Subset, FS_CardinalityType
      <4> QED BY <4>1, <1>2, <2>2, CapacityAssumption
    <3> QED BY <3>1, <1>3 DEF Servable
  <2> QED BY <2>1, <2>2 DEF WindowShowsWork
<1> QED BY <1>2, <1>4, FS_EmptySet

\* A step that leaves no poll parked, or neither queues a job nor parks a poll,
\* loses no wake-up.
LEMMA NothingNewToServe ==
  ASSUME NoLostWakeup,
         \/ \A r \in Polls : polls'[r].st # "parked"
         \/ /\ \A j \in Jobs : jobs'[j].state = "queued" => jobs[j].state = "queued"
            /\ \A r \in Polls : polls'[r].st = "parked" => polls'[r] = polls[r]
  PROVE  NoLostWakeup'
BY DEF NoLostWakeup, Servable, Queued

\* A poll that parks has just seen that there is nothing for its pod.
LEMMA PollLosesNothing ==
  ASSUME WindowShowsWork, IInv, NoLostWakeup,
         NEW r \in Polls, NEW p \in Pods, NEW ready \in BOOLEAN,
         NEW report \in Reports(p), Poll(r, p, ready, report)
  PROVE  NoLostWakeup'
<1> DEFINE slots == FreeSlots(pods[p].draining, ready, Cardinality(StillOwned(report)))
           rows == RenewAll(report)
<1>a. TypeOK
  BY DEF IInv
<1>1. slots \in Nat
  BY SlotsType
<1>2. \A j \in Jobs : rows[j].state = jobs[j].state /\ rows[j].created \in Nat
  BY <1>a, RenewalKeeps DEF Renewed
<1>3. PICK C \in Claims(rows, p, slots) :
        /\ jobs' = ClaimAll(rows, C, p)
        /\ polls' = IF C = {} /\ slots > 0 /\ ~pods[p].draining /\ phase = "up"
                    THEN [polls EXCEPT ![r] = [st |-> "parked", pod |-> p, slots |-> slots]]
                    ELSE polls
  BY DEF Poll
<1> HIDE DEF slots, rows
<1>4. \A j \in Jobs : jobs'[j].state = "queued" => jobs[j].state = "queued"
  BY <1>2, <1>3 DEF ClaimAll, Claim
<1>5. CASE polls' = polls
  BY <1>4, <1>5, NothingNewToServe
<1>6. CASE polls' # polls
  <2>1. C = {} /\ slots > 0
          /\ polls' = [polls EXCEPT ![r] = [st |-> "parked", pod |-> p, slots |-> slots]]
    BY <1>3, <1>6
  <2>2. Servable(Queued(rows), p) = {}
    BY <1>1, <2>1, ClaimsSome
  <2>3. \A q : Servable(Queued(jobs'), q) \subseteq Servable(Queued(jobs), q)
               /\ Servable(Queued(jobs'), q) \subseteq Servable(Queued(rows), q)
    BY <1>2, <1>4 DEF Servable, Queued
  <2>4. ASSUME NEW q \in Polls, polls'[q].st = "parked"
        PROVE Servable(Queued(jobs'), polls'[q].pod) = {}
    <3>1. CASE q = r
      BY <1>a, <2>1, <2>2, <2>3, <3>1 DEF TypeOK
    <3>2. CASE q # r
      BY <1>a, <2>1, <2>3, <2>4, <3>2 DEF TypeOK, NoLostWakeup
    <3> QED BY <3>1, <3>2
  <2> QED BY <2>4 DEF NoLostWakeup, Servable, Queued
<1> QED BY <1>5, <1>6

\* Whoever queues a job wakes the parked polls in the same step.
LEMMA NextLosesNothing ==
  ASSUME WindowShowsWork, IInv, NoLostWakeup, [Next]_vars
  PROVE  NoLostWakeup'
<1>a. TypeOK
  BY DEF IInv
<1>b. \A r \in Polls : Kicked[r].st # "parked" /\ Released[r].st # "parked"
  BY DEF Kicked, Released, IdlePoll
<1>c. ASSUME \A r \in Polls : polls'[r].st # "parked"
      PROVE  NoLostWakeup'
  BY <1>c DEF NoLostWakeup
<1>d. ASSUME \A j \in Jobs : jobs'[j].state = "queued" => jobs[j].state = "queued",
             polls' = polls \/ \E r \in Polls : polls' = [polls EXCEPT ![r] = IdlePoll]
      PROVE  NoLostWakeup'
  <2>1. \A r \in Polls : polls'[r].st = "parked" => polls'[r] = polls[r]
    BY <1>a, <1>d DEF TypeOK, IdlePoll
  <2> QED BY <1>d, <2>1, NothingNewToServe
<1>1. ASSUME NEW r \in Polls, NEW p \in Pods, NEW ready \in BOOLEAN,
             NEW report \in Reports(p), Poll(r, p, ready, report)
      PROVE  NoLostWakeup'
  BY <1>1, PollLosesNothing
<1>2. ASSUME NEW r \in Polls, PollWoken(r)
      PROVE  NoLostWakeup'
  <2>1. \A j \in Jobs : jobs'[j].state = "queued" => jobs[j].state = "queued"
    BY <1>2 DEF PollWoken, ClaimAll, Claim
  <2> QED BY <1>2, <1>d, <2>1 DEF PollWoken
<1>3. ASSUME NEW j \in Jobs, NEW l \in 1..Len(grants[j]),
             \/ ResultCompleted(j, l) \/ ResultCancelled(j, l)
             \/ \E retryable \in BOOLEAN : ResultFailed(j, l, retryable)
      PROVE  NoLostWakeup'
  <2>1. \A i \in Jobs : jobs'[i].state = "queued" => jobs[i].state = "queued"
    <3>1. \/ jobs' = [jobs EXCEPT ![j] = Complete(@, l)]
          \/ jobs' = [jobs EXCEPT ![j] = MarkCancelled(@, l)]
          \/ jobs' = [jobs EXCEPT ![j] = Fail(@, l)]
      BY <1>3 DEF ResultCompleted, ResultCancelled, ResultFailed
    <3>2. /\ jobs \in [Jobs -> Row] /\ jobs[j] \in Row
          /\ \A s \in {"completed", "cancelled", "failed"} :
               Finished(jobs[j], s).state # "queued"
      BY <1>a DEF TypeOK, Row, Finished
    <3>3. \A new \in {Complete(jobs[j], l), MarkCancelled(jobs[j], l), Fail(jobs[j], l)} :
            new.state = "queued" => jobs[j].state = "queued"
      BY <3>2 DEF Complete, MarkCancelled, Fail
    <3> QED
      BY <3>1, <3>2, <3>3
  <2> QED BY <1>3, <1>d, <2>1 DEF ResultCompleted, ResultCancelled, ResultFailed
<1>4. ASSUME NEW j \in Jobs,
             SubmitCommit(j) \/ ResultSettled(j) \/ \E l \in 1..Len(grants[j]) : ResultRetried(j, l)
      PROVE  NoLostWakeup'
  BY <1>4, <1>b, <1>c DEF SubmitCommit, ResultSettled, ResultRetried
<1>5. ASSUME NEW j \in Jobs, SubmitBegin(j) \/ Delete(j)
      PROVE  NoLostWakeup'
  <2>1. \A i \in Jobs : jobs'[i].state = "queued" => jobs[i].state = "queued"
    BY <1>a, <1>5 DEF TypeOK, Row, SubmitBegin, AbsentRow, Delete, CancelQueued, RequestCancel
  <2> QED BY <1>5, <1>d, <2>1 DEF SubmitBegin, Delete
<1>6. CASE Sweep
  <2>1. CASE \E j \in Jobs : RequeuedBySweep(jobs[j])
    BY <1>6, <2>1, <1>b, <1>c DEF Sweep
  <2>2. CASE ~ \E j \in Jobs : RequeuedBySweep(jobs[j])
    <3>1. ASSUME NEW j \in Jobs, jobs'[j].state = "queued"
          PROVE  jobs[j].state = "queued"
      <4> DEFINE row == jobs[j]
                 a == ReapLease(row)
                 b == ReapDeadline(a)
      <4>1. row \in Row /\ now \in Nat /\ MaxAttempts \in Nat /\ ~RequeuedBySweep(row)
        BY <1>a, <2>2, AttemptsAssumption DEF TypeOK
      <4>2. a \in Row /\ (a.state = "queued" => row.state = "queued")
        <5>1. a = row \/ a = Fail(row, row.lease)
          BY <4>1 DEF RequeuedBySweep, ReapLease, Row
        <5>2. /\ Fail(row, row.lease) \in Row
              /\ Fail(row, row.lease).state = "queued" => row.state = "queued"
          BY <4>1 DEF Fail, Finished, Row, RowStates, VideoStates, TerminalStates
        <5> HIDE DEF a, row
        <5> QED BY <4>1, <5>1, <5>2
      <4> HIDE DEF a
      <4>3. b \in Row /\ (b.state = "queued" => a.state = "queued")
        BY <4>2 DEF ReapDeadline, Fail, Finished, Row, RowStates, VideoStates, TerminalStates
      <4> HIDE DEF b
      <4>4. ReapCancel(b).state = "queued" => b.state = "queued"
        BY <4>3 DEF ReapCancel, MarkCancelled, Finished, Row
      <4>5. jobs'[j] = ReapCancel(b)
        BY <1>6 DEF Sweep, ReapRow, a, b
      <4> QED BY <3>1, <4>2, <4>3, <4>4, <4>5
    <3> QED BY <1>6, <2>2, <3>1, <1>d DEF Sweep
  <2> QED BY <2>1, <2>2
<1>7. CASE Stop \/ Halt
  BY <1>7, <1>b, <1>c DEF Stop, Halt, IdlePoll
<1>8. CASE Start
  <2>1. \A i \in Jobs : jobs'[i].state = "queued" => jobs[i].state = "queued"
    BY <1>a, <1>8 DEF TypeOK, Row, Start, RecoverOnStartup
  <2> QED BY <1>8, <1>d, <2>1 DEF Start
<1>9. ASSUME UNCHANGED jobs,
             UNCHANGED polls \/ \E r \in Polls : polls' = [polls EXCEPT ![r] = IdlePoll]
      PROVE  NoLostWakeup'
  BY <1>9, <1>d
<1>10. CASE AgentStep
  BY <1>10, <1>1, <1>3, <1>4 DEF AgentStep
<1>11. CASE ClientStep
  BY <1>11, <1>5, <1>9 DEF ClientStep, SetDraining
<1>12. CASE GatewayStep
  BY <1>12, <1>2, <1>4, <1>6, <1>9 DEF GatewayStep, PollTimeout
<1>13. CASE ProcessStep
  BY <1>13, <1>7, <1>8, <1>9 DEF ProcessStep, Exit, Crash, Tick
<1>14. CASE UNCHANGED vars
  BY <1>14, <1>9 DEF vars
<1> QED BY <1>10, <1>11, <1>12, <1>13, <1>14 DEF Next

\* No lost wake-up: as long as the window shows every pod its work, no job waits
\* in the queue while a poll that could run it is parked.
THEOREM NoWakeupIsLost ==
  ASSUME WindowShowsWork
  PROVE  Spec => []NoLostWakeup
<1>1. Init => NoLostWakeup
  BY DEF Init, IdlePoll, NoLostWakeup
<1>2. IInv /\ NoLostWakeup /\ [Next]_vars => NoLostWakeup'
  BY NextLosesNothing
<1> QED BY <1>1, <1>2, Inductive, PTL DEF Spec
=============================================================================
