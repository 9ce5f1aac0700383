---------------------------- MODULE AgentsProofs -----------------------------
(***************************************************************************)
(* The gateway together with its agents.  First, that every step of the    *)
(* composition is a step of module Gateway: the agents meet what Gateway   *)
(* assumes of its environment, so all that is proved there holds here.     *)
(* Then the two promises that need both sides, that one completion of a    *)
(* job is accepted and that an orphaned run never cancels its job.         *)
(*                                                                         *)
(* Both rest on what the agents may know.  A lease that was lost is lost   *)
(* for good, and a cancel that was asked stays asked; so an agent may act  *)
(* on an old answer, as long as the answer was about the lease it keeps.   *)
(***************************************************************************)
EXTENDS Agents, OutcomeProofs

-----------------------------------------------------------------------------
(* Facts about the gateway *)

\* A job may be cancelled by whoever kept lease l of it: its client asked, or
\* the lease is lost.
Excused(j, l) == jobs[j].cancelAt # 0 \/ ~Holds(jobs[j], l)

\* The record of the leases only grows.
LEMMA GrantsGrow ==
  ASSUME IInv, [Next]_vars, NEW j \in Jobs
  PROVE  /\ Len(grants[j]) \in Nat /\ Len(grants'[j]) \in Nat
         /\ \/ grants'[j] = grants[j]
            \/ jobs[j].state = "queued" /\ Len(grants'[j]) = Len(grants[j]) + 1
         /\ \A l \in 1..Len(grants[j]) :
              l \in 1..Len(grants'[j]) /\ grants'[j][l] = grants[j][l]
<1>1. grants[j] \in Seq(Pods)
  BY DEF IInv, TypeOK
<1>2. CASE UNCHANGED grants
  BY <1>1, <1>2
<1>3. CASE Dispatches
  <2>a. PICK rows : Renewed(rows) /\
          \E p \in Pods, slots \in Nat : \E C \in Claims(rows, p, slots) : grants' = GrantAll(C, p)
    BY <1>3 DEF Dispatches
  <2>b. PICK p \in Pods, slots \in Nat : \E C \in Claims(rows, p, slots) : grants' = GrantAll(C, p)
    BY <2>a
  <2>1. PICK C \in Claims(rows, p, slots) : grants' = GrantAll(C, p)
    BY <2>b
  <2>2. j \in C => jobs[j].state = "queued"
    BY <2>a, ClaimsOldest DEF Servable, Queued, Renewed
  <2> QED BY <1>1, <2>1, <2>2 DEF GrantAll
<1> QED BY <1>2, <1>3, NextParts

\* A row leaves a state it is not claimed from, and a lease once lost, for good.
LEMMA LostForGood ==
  ASSUME IInv, [Next]_vars, NEW j \in Jobs, NEW l \in 1..Len(grants[j]),
         ~Holds(jobs[j], l)
  PROVE  ~Holds(jobs'[j], l)
<1> SUFFICES ASSUME Holds(jobs'[j], l) PROVE FALSE
  OBVIOUS
<1>1. RowInv(jobs[j], grants[j]) /\ RowStep(jobs[j], grants[j], jobs'[j], grants'[j])
  BY NextRows DEF IInv, RowsStep
<1>2. jobs'[j].state = "in_progress" /\ l = Len(grants'[j])
  BY <1>1 DEF RowStep, RowInv, Fenced, Holds
<1>3. grants'[j] = grants[j] /\ l = Len(grants[j])
  BY <1>2, GrantsGrow
<1>4. jobs'[j].attempts = jobs[j].attempts /\ jobs[j].attempts \in Nat
  BY <1>1, <1>3 DEF RowStep, RowInv, Capped, Row
<1>5. jobs[j].state = "in_progress"
  BY <1>1, <1>2, <1>4 DEF RowStep, RowMove, StatusOf, Lifecycle!Move, Lifecycle!Accept,
       Lifecycle!Dispatch, Lifecycle!Return, Lifecycle!Finish, Lifecycle!Withdraw,
       Lifecycle!Outcomes,
       RowInv, Row
<1> QED BY <1>1, <1>3, <1>5 DEF RowInv, Fenced, Holds

\* A request to cancel stays on the row, and a row is cancelled on request.
Asked(row, new) ==
  /\ row.cancelAt # 0 => new.cancelAt # 0
  /\ new.state = "cancelled" => row.state = "cancelled" \/ new.cancelAt # 0

\* Every statement but a pod's own report of a cancel keeps to that.
LEMMA StatementsAsk ==
  ASSUME NEW row \in Row, NEW l \in Nat, NEW t \in Nat \ {0}
  PROVE  /\ Asked(row, row)
         /\ Asked(row, Complete(row, l)) /\ Asked(row, Fail(row, l)) /\ Asked(row, Requeue(row, l))
         /\ Asked(row, CancelQueued(row, t)) /\ Asked(row, RequestCancel(row, t))
         /\ Asked(row, RecoverOnStartup(row, t))
         /\ row.cancelAt # 0 => MarkCancelled(row, l).cancelAt # 0
<1> USE DEF Asked, Row
<1>1. Asked(row, row) /\ Asked(row, Complete(row, l)) /\ Asked(row, Fail(row, l))
  BY DEF Complete, Fail, Finished
<1>2. Asked(row, Requeue(row, l)) /\ Asked(row, RecoverOnStartup(row, t))
  BY DEF Requeue, RecoverOnStartup
<1>3. Asked(row, CancelQueued(row, t)) /\ Asked(row, RequestCancel(row, t))
  BY DEF CancelQueued, RequestCancel
<1>4. row.cancelAt # 0 => MarkCancelled(row, l).cancelAt # 0
  BY DEF MarkCancelled, Finished
<1> QED BY <1>1, <1>2, <1>3, <1>4

\* The three passes of a sweep cancel only what is flagged.
LEMMA ReapAsks ==
  ASSUME NEW row, NEW g, RowInv(row, g), now \in Nat
  PROVE  Asked(row, ReapRow(row))
<1> DEFINE a == ReapLease(row)
           b == ReapDeadline(a)
<1>1. a \in Row /\ a.cancelAt = row.cancelAt /\ (a.state = "cancelled" => row.state = "cancelled")
  BY DEF RowInv, ReapLease, Fail, Requeue, Finished, Row, RowStates, VideoStates, TerminalStates
<1> HIDE DEF a
<1>2. b \in Row /\ b.cancelAt = a.cancelAt /\ (b.state = "cancelled" => a.state = "cancelled")
  BY <1>1 DEF ReapDeadline, Fail, Finished, Row, RowStates, VideoStates, TerminalStates
<1>3. ReapRow(row) = ReapCancel(b)
  BY DEF ReapRow, a, b
<1> HIDE DEF b
<1>4. /\ ReapCancel(b).cancelAt = b.cancelAt
      /\ ReapCancel(b).state = "cancelled" => b.state = "cancelled" \/ b.cancelAt # 0
  BY <1>2 DEF ReapCancel, StaleCancel, MarkCancelled, Finished, Row
<1> QED BY <1>1, <1>2, <1>3, <1>4 DEF Asked

\* The gateway's steps but for the report of a cancel by a pod.
OwnStep ==
  \/ Dispatches \/ Sweep \/ Halt \/ Start \/ UNCHANGED jobs
  \/ \E i \in Jobs : SubmitBegin(i) \/ SubmitCommit(i) \/ Delete(i)
  \/ \E i \in Jobs : \E k \in 1..Len(grants[i]) :
       \/ ResultCompleted(i, k) \/ ResultRetried(i, k)
       \/ \E retryable \in BOOLEAN : ResultFailed(i, k, retryable)

\* They cancel a job only when its client asked, and forget no such request.
LEMMA OwnStepAsks ==
  ASSUME IInv, OwnStep, NEW j \in Jobs, jobs[j].state \in VideoStates
  PROVE  Asked(jobs[j], jobs'[j])
<1>a. /\ jobs \in [Jobs -> Row] /\ jobs[j] \in Row /\ now \in Nat \ {0}
      /\ RowInv(jobs[j], grants[j]) /\ Asked(jobs[j], jobs[j])
      /\ jobs[j].state \notin {"absent", "writing"}
  BY DEF IInv, TypeOK, Asked, VideoStates, TerminalStates
<1>1. CASE Dispatches
  <2>a. PICK rows : Renewed(rows) /\
          \E p \in Pods, slots \in Nat : \E C \in Claims(rows, p, slots) : jobs' = ClaimAll(rows, C, p)
    BY <1>1 DEF Dispatches
  <2>1. rows[j] \in Row /\ rows[j].cancelAt = jobs[j].cancelAt /\ rows[j].state = jobs[j].state
    BY <2>a DEF Renewed
  <2>2. ASSUME NEW p, NEW l, NEW t
        PROVE  /\ Claim(rows[j], p, l, t).cancelAt = rows[j].cancelAt
               /\ Claim(rows[j], p, l, t).state \in {rows[j].state, "in_progress"}
    BY <2>1 DEF Claim, Row
  <2>3. jobs'[j].cancelAt = rows[j].cancelAt /\ jobs'[j].state \in {rows[j].state, "in_progress"}
    BY <2>a, <2>2 DEF ClaimAll
  <2> QED BY <2>1, <2>3 DEF Asked
<1>2. ASSUME NEW i \in Jobs, NEW k \in 1..Len(grants[i]),
             \/ ResultCompleted(i, k) \/ ResultRetried(i, k)
             \/ \E retryable \in BOOLEAN : ResultFailed(i, k, retryable)
      PROVE  Asked(jobs[j], jobs'[j])
  <2>1. \/ jobs' = [jobs EXCEPT ![i] = Complete(@, k)]
        \/ jobs' = [jobs EXCEPT ![i] = Requeue(@, k)]
        \/ jobs' = [jobs EXCEPT ![i] = Fail(@, k)]
    BY <1>2 DEF ResultCompleted, ResultRetried, ResultFailed
  <2>2. k \in Nat
    OBVIOUS
  <2>3. jobs'[j] \in {jobs[j], Complete(jobs[j], k), Requeue(jobs[j], k), Fail(jobs[j], k)}
    BY <1>a, <2>1
  <2> QED BY <1>a, <2>2, <2>3, StatementsAsk
<1>3. ASSUME NEW i \in Jobs, SubmitBegin(i) \/ SubmitCommit(i) \/ Delete(i)
      PROVE  Asked(jobs[j], jobs'[j])
  <2>1. CASE SubmitBegin(i) \/ SubmitCommit(i)
    BY <1>a, <2>1 DEF SubmitBegin, SubmitCommit
  <2>2. CASE Delete(i)
    <3>1. jobs'[j] \in {jobs[j], CancelQueued(jobs[j], now), RequestCancel(jobs[j], now)}
      BY <1>a, <2>2 DEF Delete
    <3> QED BY <1>a, <3>1, StatementsAsk
  <2> QED BY <1>3, <2>1, <2>2
<1>4. CASE Sweep
  BY <1>a, <1>4, ReapAsks DEF Sweep
<1>5. CASE Halt \/ Start
  <2>1. jobs'[j] \in {jobs[j], RecoverOnStartup(jobs[j], now)}
    BY <1>a, <1>5 DEF Halt, LostSubmits, Start
  <2> QED BY <1>a, <2>1, StatementsAsk
<1>6. CASE UNCHANGED jobs
  BY <1>a, <1>6
<1> QED BY <1>1, <1>2, <1>3, <1>4, <1>5, <1>6 DEF OwnStep

\* So an excuse to cancel a job whose lease was granted never expires.
LEMMA ExcusedForGood ==
  ASSUME IInv, [Next]_vars, NEW j \in Jobs, NEW l \in 1..Len(grants[j]), Excused(j, l)
  PROVE  Excused(j, l)'
<1>1. CASE ~Holds(jobs[j], l)
  BY <1>1, LostForGood DEF Excused
<1>2. CASE Holds(jobs[j], l) /\ jobs[j].cancelAt # 0
  <2>a. jobs[j].state \in VideoStates /\ jobs \in [Jobs -> Row]
    BY <1>2 DEF Holds, VideoStates, IInv, TypeOK
  <2>1. CASE OwnStep
    BY <1>2, <2>a, <2>1, OwnStepAsks DEF Asked, Excused
  <2>2. ASSUME NEW i \in Jobs, NEW k \in 1..Len(grants[i]), ResultCancelled(i, k)
        PROVE  jobs'[j].cancelAt # 0
    <3>1. jobs'[j] \in {jobs[j], MarkCancelled(jobs[j], k)} /\ jobs[j] \in Row
      BY <2>a, <2>2 DEF ResultCancelled
    <3>2. MarkCancelled(jobs[j], k).cancelAt = jobs[j].cancelAt
      BY <3>1 DEF MarkCancelled, Finished, Row
    <3> QED BY <1>2, <3>1, <3>2
  <2> QED BY <2>1, <2>2, NextParts DEF OwnStep, Excused
<1> QED BY <1>1, <1>2 DEF Excused

-----------------------------------------------------------------------------
(* The invariant of the composition *)

Phases == {"none", "fetching", "generating", "uploading", "reporting"}
Results == {"none", "completed", "cancelled", "retryable", "fatal"}

Task == [phase : Phases, lease : Nat, cancelled : BOOLEAN, result : Results, tries : Nat]

Conn == [st : {"free", "sent", "serving", "replied"}, pod : Pods \cup {NoPod}, ready : BOOLEAN,
         report : [Jobs -> Nat], assign : SUBSET (Jobs \X Nat), orphan : SUBSET Jobs,
         cancel : SUBSET Jobs]

AgentsTyped ==
  /\ held \in [Pods -> [Jobs -> Task]]
  /\ polling \in [Pods -> Polls \cup {NoPoll}]
  /\ conns \in [Polls -> Conn]
  /\ \A r \in Polls : conns[r].st # "free" => conns[r].pod \in Pods

Granted(p, j, l) == l \in 1..Len(grants[j]) /\ grants[j][l] = p

\* A task that is not kept is blank; a kept lease was granted to its pod.
TasksGranted ==
  \A p \in Pods, j \in Jobs :
    IF held[p][j].phase = "none" THEN held[p][j] = NotHeld ELSE Granted(p, j, held[p][j].lease)

\* So were the leases in a request and in its answer.
ConnsGranted ==
  \A r \in Polls :
    /\ \A j \in Jobs : conns[r].report[j] # 0 => Granted(conns[r].pod, j, conns[r].report[j])
    /\ \A a \in conns[r].assign : Granted(conns[r].pod, a[1], a[2])

\* A poll in progress is the handler of a request that is at the gateway, and
\* an agent waits for a request of its own.
EndsMeet ==
  /\ \A r \in Polls : polls[r].st # "idle" =>
       conns[r].st = "serving" /\ conns[r].pod = polls[r].pod
  /\ \A p \in Pods : polling[p] # NoPoll =>
       conns[polling[p]].st # "free" /\ conns[polling[p]].pod = p

\* A task that may report "cancelled" has an excuse.
FlaggedExcused ==
  \A p \in Pods, j \in Jobs :
    held[p][j].cancelled \/ held[p][j].result = "cancelled" => Excused(j, held[p][j].lease)

\* What an agent waits to hear is about the leases it still keeps: until the
\* request arrives it reports them, and an answer names one only if it is excused.
AnswersFit ==
  \A p \in Pods, r \in Polls : polling[p] = r =>
    \A j \in Jobs : held[p][j].phase # "none" =>
      /\ conns[r].st = "sent" => held[p][j].lease = conns[r].report[j]
      /\ j \in conns[r].orphan \cup conns[r].cancel => Excused(j, held[p][j].lease)

AInv ==
  /\ IInv /\ AgentsTyped /\ TasksGranted /\ ConnsGranted /\ EndsMeet
  /\ FlaggedExcused /\ AnswersFit

-----------------------------------------------------------------------------
(* The composition is a gateway *)

\* A request that arrives reports only leases granted to its pod, so it is one of
\* the polls the gateway expects.
LEMMA ArrivalIsPoll ==
  ASSUME AInv, NEW r \in Polls, PollArrives(r)
  PROVE  /\ conns[r].pod \in Pods /\ conns[r].ready \in BOOLEAN
         /\ conns[r].report \in Reports(conns[r].pod)
         /\ Poll(r, conns[r].pod, conns[r].ready, conns[r].report)
<1>1. conns[r] \in Conn /\ conns[r].st = "sent" /\ conns[r].pod \in Pods
  BY DEF AInv, AgentsTyped, PollArrives
<1>2. ASSUME NEW j \in Jobs PROVE Len(grants[j]) \in 0..MaxAttempts
  <2>1. grants[j] \in Seq(Pods)
    BY DEF AInv, IInv, TypeOK
  <2>2. Len(grants[j]) \in Nat
    BY <2>1, LenProperties
  <2>3. Len(grants[j]) <= MaxAttempts
    BY DEF AInv, IInv, RowInv, Capped
  <2> QED BY <2>2, <2>3, AttemptsAssumption
<1>3. \A j \in Jobs : conns[r].report[j] \in 0..MaxAttempts
  <2> SUFFICES ASSUME NEW j \in Jobs, conns[r].report[j] # 0
               PROVE conns[r].report[j] \in 0..MaxAttempts
    BY AttemptsAssumption
  <2>1. conns[r].report[j] \in 1..Len(grants[j])
    BY DEF AInv, ConnsGranted, Granted
  <2> QED BY <1>2, <2>1, AttemptsAssumption
<1>4. conns[r].report \in [Jobs -> 0..MaxAttempts]
  BY <1>1, <1>3 DEF Conn
<1>5. \A j \in Jobs : conns[r].report[j] # 0 =>
        conns[r].report[j] <= Len(grants[j]) /\ grants[j][conns[r].report[j]] = conns[r].pod
  BY <1>2 DEF AInv, ConnsGranted, Granted
<1> QED BY <1>1, <1>4, <1>5 DEF Conn, PollArrives, Reports

\* Every step of the composition is a step of the gateway or none at all.
LEMMA AgentsStepGateway ==
  ASSUME AInv, [AgentsNext]_allVars
  PROVE  [Next]_vars
<1>1. ASSUME NEW r \in Polls, PollArrives(r)
      PROVE  Next
  BY <1>1, ArrivalIsPoll DEF Next, AgentStep
<1>2. ASSUME NEW r \in Polls, PollAnswered(r)
      PROVE  Next
  BY <1>2 DEF PollAnswered, Next, GatewayStep
<1>3. ASSUME NEW p \in Pods, NEW j \in Jobs, ReportAccepted(p, j)
      PROVE  Next
  <2>1. /\ held[p][j].lease \in 1..Len(grants[j])
        /\ \/ ResultCompleted(j, held[p][j].lease) \/ ResultCancelled(j, held[p][j].lease)
           \/ ResultRetried(j, held[p][j].lease)
           \/ \E retryable \in BOOLEAN : ResultFailed(j, held[p][j].lease, retryable)
    BY <1>3 DEF ReportAccepted, ResultCompleted, ResultCancelled, ResultRetried, ResultFailed,
                ResultAccepted
  <2> QED BY <2>1 DEF Next, AgentStep
<1>4. CASE PollStep
  BY <1>1, <1>2, <1>4 DEF PollStep, SendPoll, Deliver, DropPoll, GiveUpPoll, RestartAgent
<1>5. ASSUME NEW p \in Pods, NEW j \in Jobs, RunStep(p, j)
      PROVE  [Next]_vars
  BY <1>3, <1>5 DEF RunStep, FetchInput, Generated, Abandoned, Upload, RunFails, ReportRefused,
                    ReportLost
<1>6. CASE GatewayAlone
  BY <1>6 DEF GatewayAlone, Next, ClientStep, GatewayStep, ProcessStep
<1>7. CASE GatewayStops \/ GatewayEnds
  BY <1>7 DEF GatewayStops, GatewayEnds, Next, ProcessStep
<1>8. CASE UNCHANGED allVars
  BY <1>8 DEF allVars
<1> QED BY <1>4, <1>5, <1>6, <1>7, <1>8 DEF AgentsNext

-----------------------------------------------------------------------------
(* The steps of the agents *)

\* A task goes on under its lease, or it ends; only a flagged one may begin to
\* report "cancelled".
Continues(h, new) ==
  \/ new = NotHeld
  \/ /\ h.phase # "none" /\ new.phase # "none" /\ new.lease = h.lease
     /\ new.cancelled \/ new.result = "cancelled" => h.cancelled \/ h.result = "cancelled"

TaskMoves(p, j) ==
  /\ \E new \in Task : Continues(held[p][j], new) /\ held' = [held EXCEPT ![p][j] = new]
  /\ UNCHANGED <<polling, conns>>

\* No handler begins, and none changes its pod.
NoNewPoll ==
  \A r \in Polls : polls'[r].st # "idle" => polls[r].st # "idle" /\ polls'[r].pod = polls[r].pod

\* A kick begins no handler.
LEMMA KickedPolls ==
  ASSUME IInv, polls' = polls \/ polls' = Kicked
  PROVE  NoNewPoll
BY DEF IInv, TypeOK, PollRecord, Kicked, NoNewPoll

\* Each step of a task.
LEMMA RunStepMoves ==
  ASSUME AInv, NEW p \in Pods, NEW j \in Jobs, RunStep(p, j)
  PROVE  TaskMoves(p, j) /\ NoNewPoll
<1> DEFINE h == held[p][j]
<1>a. h \in Task
  BY DEF AInv, AgentsTyped
<1>b. NotHeld \in Task
  BY DEF NotHeld, Task, Phases, Results
<1>c. Continues(h, NotHeld)
  BY DEF Continues
<1>d. ASSUME h.phase # "none", NEW result \in Results,
             result = "cancelled" => h.cancelled
      PROVE  Reporting(h, result) \in Task /\ Continues(h, Reporting(h, result))
  BY <1>a, <1>d DEF Reporting, Task, Phases, Continues
<1>e. ASSUME h.phase # "none", NEW next \in Phases \ {"none"}
      PROVE  [h EXCEPT !.phase = next] \in Task /\ Continues(h, [h EXCEPT !.phase = next])
  BY <1>a, <1>e DEF Task, Continues
<1>f. h.phase # "none" => Unreported(h) \in Task /\ Continues(h, Unreported(h))
  <2>1. [h EXCEPT !.tries = @ + 1] \in Task
    BY <1>a DEF Task
  <2>2. h.phase # "none" => Continues(h, [h EXCEPT !.tries = @ + 1])
    BY <1>a DEF Task, Continues
  <2> QED BY <1>b, <1>c, <2>1, <2>2 DEF Unreported
<1>g. UNCHANGED vars => NoNewPoll
  BY DEF vars, NoNewPoll
<1> HIDE DEF h
<1> USE DEF TaskMoves, SetHeld
<1>1. CASE FetchInput(p, j)
  <2>1. h.phase = "fetching" /\ UNCHANGED <<vars, polling, conns>>
        /\ \/ SetHeld(p, j, NotHeld)
           \/ h.cancelled /\ SetHeld(p, j, Reporting(h, "cancelled"))
           \/ SetHeld(p, j, [h EXCEPT !.phase = "generating"])
    BY <1>1 DEF FetchInput, h
  <2>2. h.cancelled => Reporting(h, "cancelled") \in Task /\ Continues(h, Reporting(h, "cancelled"))
    BY <1>d, <2>1 DEF Results
  <2>3. [h EXCEPT !.phase = "generating"] \in Task
          /\ Continues(h, [h EXCEPT !.phase = "generating"])
    BY <1>e, <2>1 DEF Phases
  <2> QED BY <1>b, <1>c, <1>g, <2>1, <2>2, <2>3 DEF h
<1>2. CASE Generated(p, j)
  <2>1. [h EXCEPT !.phase = "uploading"] \in Task /\ Continues(h, [h EXCEPT !.phase = "uploading"])
    BY <1>2, <1>e DEF Generated, Phases, h
  <2> QED BY <1>2, <1>g, <2>1 DEF Generated, h
<1>3. CASE Abandoned(p, j)
  <2>1. Reporting(h, "cancelled") \in Task /\ Continues(h, Reporting(h, "cancelled"))
    BY <1>3, <1>d DEF Abandoned, Results, h
  <2> QED BY <1>3, <1>g, <2>1 DEF Abandoned, h
<1>4. CASE Upload(p, j)
  <2>1. Reporting(h, "completed") \in Task /\ Continues(h, Reporting(h, "completed"))
    BY <1>4, <1>d DEF Upload, Results, h
  <2>2. /\ SetHeld(p, j, Reporting(h, "completed")) \/ SetHeld(p, j, NotHeld)
        /\ UNCHANGED <<vars, polling, conns>>
    BY <1>4 DEF Upload, h
  <2> QED BY <1>b, <1>c, <1>g, <2>1, <2>2 DEF h
<1>5. ASSUME NEW result \in {"retryable", "fatal"}, RunFails(p, j, result)
      PROVE  TaskMoves(p, j) /\ NoNewPoll
  <2>1. Reporting(h, result) \in Task /\ Continues(h, Reporting(h, result))
    BY <1>5, <1>d DEF RunFails, Results, h
  <2> QED BY <1>5, <1>g, <2>1 DEF RunFails, h
<1>6. CASE ReportAccepted(p, j)
  <2>1. NoNewPoll
    <3>1. polls' = polls \/ polls' = Kicked
      BY <1>6 DEF ReportAccepted, ResultCompleted, ResultCancelled, ResultRetried, ResultFailed
    <3> QED BY <3>1, KickedPolls DEF AInv
  <2>2. /\ h.phase # "none" /\ UNCHANGED <<polling, conns>>
        /\ SetHeld(p, j, NotHeld) \/ SetHeld(p, j, Unreported(h))
    BY <1>6 DEF ReportAccepted, h
  <2> QED BY <1>b, <1>c, <1>f, <2>1, <2>2 DEF h
<1>7. CASE ReportRefused(p, j)
  BY <1>b, <1>c, <1>g, <1>7 DEF ReportRefused, h
<1>8. CASE ReportLost(p, j)
  BY <1>f, <1>g, <1>8 DEF ReportLost, h
<1> QED BY <1>1, <1>2, <1>3, <1>4, <1>5, <1>6, <1>7, <1>8 DEF RunStep

\* What an answer does to the tasks of its agent.
Fresh(l) == [NotHeld EXCEPT !.phase = "fetching", !.lease = l]

Hears(c, j, h, new) ==
  \/ new = h
  \/ h.phase # "none" /\ j \in c.orphan \cup c.cancel /\ new = [h EXCEPT !.cancelled = TRUE]
  \/ h.phase = "none" /\ \E a \in c.assign : a[1] = j /\ new = Fresh(a[2])

\* What one answer does to each job its agent keeps, and to nobody else's.
LEMMA DeliveredTasks ==
  ASSUME AInv, NEW r \in Polls, Deliver(r), NEW p, p = conns[r].pod
  PROVE  /\ p \in Pods /\ polling[p] = r /\ held' \in [Pods -> [Jobs -> Task]]
         /\ polling' = [polling EXCEPT ![p] = NoPoll] /\ conns' = [conns EXCEPT ![r] = FreeConn]
         /\ UNCHANGED vars
         /\ \A q \in Pods \ {p} : held'[q] = held[q]
         /\ \A j \in Jobs : Hears(conns[r], j, held[p][j], held'[p][j])
<1> DEFINE c == conns[r]
           S == c.orphan \cup c.cancel
           flagged == FlagCancelled(held[p], S)
           kept == StartAssigned(flagged, c.assign)
<1>1. c \in Conn /\ c.st = "replied" /\ p \in Pods /\ held \in [Pods -> [Jobs -> Task]]
  BY DEF AInv, AgentsTyped, Deliver
<1>2. held' = [held EXCEPT ![p] = kept]
  BY DEF Deliver
<1>3. \A l \in Nat : Fresh(l) \in Task
  BY DEF Fresh, NotHeld, Task, Phases, Results
<1>4. ASSUME NEW j \in Jobs
      PROVE  /\ flagged[j] \in Task
             /\ \/ flagged[j] = held[p][j]
                \/ /\ held[p][j].phase # "none" /\ j \in S
                   /\ flagged[j] = [held[p][j] EXCEPT !.cancelled = TRUE]
             /\ flagged[j].phase = held[p][j].phase
  <2>1. held[p][j] \in Task
    BY <1>1
  <2>2. CASE j \in S /\ held[p][j].phase # "none"
    <3>1. flagged[j] = [held[p][j] EXCEPT !.cancelled = TRUE]
      BY <2>2 DEF FlagCancelled
    <3> QED BY <2>1, <2>2, <3>1 DEF Task
  <2>3. CASE ~(j \in S /\ held[p][j].phase # "none")
    BY <2>1, <2>3 DEF FlagCancelled
  <2> QED BY <2>2, <2>3
<1> HIDE DEF flagged
<1>5. ASSUME NEW j \in Jobs
      PROVE  /\ kept[j] \in Task
             /\ \/ kept[j] = flagged[j]
                \/ /\ flagged[j].phase = "none"
                   /\ \E a \in c.assign : a[1] = j /\ kept[j] = Fresh(a[2])
  <2> DEFINE offers == {a \in c.assign : a[1] = j}
  <2>1. CASE offers = {} \/ flagged[j].phase # "none"
    BY <1>4, <2>1 DEF StartAssigned
  <2>2. CASE offers # {} /\ flagged[j].phase = "none"
    <3> DEFINE a == CHOOSE x \in offers : TRUE
    <3>1. a \in offers
      BY <2>2
    <3>2. a \in c.assign /\ a[1] = j /\ a[2] \in Nat
      BY <1>1, <3>1 DEF Conn
    <3>3. kept[j] = Fresh(a[2])
      BY <2>2 DEF StartAssigned, Fresh
    <3> HIDE DEF a, kept
    <3> QED BY <1>3, <2>2, <3>2, <3>3
  <2> QED BY <2>1, <2>2
<1>6. kept = [j \in Jobs |-> kept[j]]
  BY DEF StartAssigned
<1> HIDE DEF kept
<1>7. kept \in [Jobs -> Task]
  BY <1>5, <1>6
<1>8. held' \in [Pods -> [Jobs -> Task]] /\ held'[p] = kept
        /\ \A q \in Pods \ {p} : held'[q] = held[q]
  BY <1>1, <1>2, <1>7
<1>9. \A j \in Jobs : Hears(c, j, held[p][j], held'[p][j])
  <2> SUFFICES ASSUME NEW j \in Jobs PROVE Hears(c, j, held[p][j], held'[p][j])
    OBVIOUS
  <2> HIDE DEF c
  <2> QED BY <1>4, <1>5, <1>8 DEF Hears
<1> QED BY <1>1, <1>8, <1>9 DEF Deliver

\* What a step may do to the agents and their requests.
LEMMA AgentsParts ==
  ASSUME AInv, [AgentsNext]_allVars
  PROVE  \/ \E p \in Pods, r \in Polls, ready \in BOOLEAN : SendPoll(p, r, ready)
         \/ \E r \in Polls : PollArrives(r) \/ PollAnswered(r) \/ Deliver(r) \/ DropPoll(r)
         \/ \E p \in Pods : GiveUpPoll(p) \/ RestartAgent(p)
         \/ \E p \in Pods, j \in Jobs : TaskMoves(p, j) /\ NoNewPoll
         \/ NoNewPoll /\ UNCHANGED <<held, polling, conns>>
         \/ GatewayStops \/ GatewayEnds
<1>1. CASE GatewayAlone
  <2>1. polls' = polls \/ polls' = Kicked
    BY <1>1 DEF GatewayAlone, SubmitBegin, Delete, SubmitCommit, ResultSettled, Sweep, Start, Tick
  <2> QED BY <1>1, <2>1, KickedPolls DEF AInv, GatewayAlone, agentVars
<1>2. CASE UNCHANGED allVars
  BY <1>2, KickedPolls DEF AInv, allVars, vars, agentVars
<1>3. CASE \E p \in Pods, j \in Jobs : RunStep(p, j)
  BY <1>3, RunStepMoves
<1>4. CASE PollStep
  BY <1>4 DEF PollStep
<1> QED BY <1>1, <1>2, <1>3, <1>4 DEF AgentsNext

\* The leases a poll hands out were granted to its pod in the same step.
LEMMA AssignedGranted ==
  ASSUME AInv, [Next]_vars, NEW p \in Pods, NEW rows, Renewed(rows), NEW slots,
         NEW C \in Claims(rows, p, slots), grants' = GrantAll(C, p),
         NEW a \in {<<j, Len(grants'[j])>> : j \in Assigned}
  PROVE  a \in Jobs \X Nat /\ Granted(p, a[1], a[2])'
<1>1. PICK j \in Assigned : a = <<j, Len(grants'[j])>>
  OBVIOUS
<1>2. j \in Jobs /\ grants'[j] # grants[j]
  BY DEF Assigned
<1>3. j \in C /\ grants'[j] = Append(grants[j], p)
  BY <1>2 DEF GrantAll
<1>4. grants[j] \in Seq(Pods)
  BY <1>2 DEF AInv, IInv, TypeOK
<1> QED BY <1>1, <1>2, <1>3, <1>4 DEF Granted

\* What is written into the answer of a poll that arrives was granted to its pod.
LEMMA ArrivalAssigns ==
  ASSUME AInv, [Next]_vars, NEW r \in Polls, PollArrives(r), NEW p \in Pods, p = conns[r].pod
  PROVE  \A a \in {<<j, Len(grants'[j])>> : j \in Assigned} :
           a \in Jobs \X Nat /\ Granted(p, a[1], a[2])'
<1> DEFINE c == conns[r]
           rows == RenewAll(c.report)
           slots == FreeSlots(pods[p].draining, c.ready, Cardinality(StillOwned(c.report)))
<1>1. c.report \in Reports(p) /\ Poll(r, p, c.ready, c.report)
  BY ArrivalIsPoll
<1>2. PICK C \in Claims(rows, p, slots) : grants' = GrantAll(C, p)
  BY <1>1 DEF Poll
<1>3. Renewed(rows)
  BY <1>1, RenewalKeeps DEF AInv, IInv
<1> HIDE DEF rows, slots
<1> QED BY <1>1, <1>2, <1>3, AssignedGranted

\* The same of a poll that was parked, whose pod is the one that sent it.
LEMMA AnswerAssigns ==
  ASSUME AInv, [Next]_vars, NEW r \in Polls, PollAnswered(r), NEW p \in Pods, p = conns[r].pod
  PROVE  /\ conns[r].st = "serving"
         /\ \A a \in {<<j, Len(grants'[j])>> : j \in Assigned} :
              a \in Jobs \X Nat /\ Granted(p, a[1], a[2])'
<1>1. /\ conns[r].st = "serving" /\ p = polls[r].pod
      /\ polls[r].slots \in Nat
  BY DEF PollAnswered, PollWoken, PollTimeout, AInv, EndsMeet, IInv, TypeOK, PollRecord
<1>2. CASE PollWoken(r)
  <2>1. PICK C \in Claims(jobs, p, polls[r].slots) : grants' = GrantAll(C, p)
    BY <1>1, <1>2 DEF PollWoken
  <2>2. Renewed(jobs)
    BY DEF AInv, IInv, TypeOK, Renewed, Row
  <2> QED BY <1>1, <2>1, <2>2, AssignedGranted
<1>3. CASE PollTimeout(r)
  <2>1. Assigned = {}
    BY <1>3 DEF PollTimeout, Assigned
  <2> QED BY <1>1, <2>1
<1> QED BY <1>1, <1>2, <1>3 DEF PollAnswered

\* Every variable of the agents stays in its range.
LEMMA NextTyped ==
  ASSUME AInv, [AgentsNext]_allVars
  PROVE  AgentsTyped'
<1>a. [Next]_vars
  BY AgentsStepGateway
<1>b. /\ held \in [Pods -> [Jobs -> Task]] /\ polling \in [Pods -> Polls \cup {NoPoll}]
      /\ conns \in [Polls -> Conn] /\ \A r \in Polls : conns[r].st # "free" => conns[r].pod \in Pods
  BY DEF AInv, AgentsTyped
<1>c. FreeConn \in Conn /\ FreeConn.st = "free" /\ NotHeld \in Task
  BY DEF FreeConn, Conn, NotHeld, Task, Phases, Results
<1>1. ASSUME NEW p \in Pods, NEW r \in Polls, NEW ready \in BOOLEAN, SendPoll(p, r, ready)
      PROVE  AgentsTyped'
  <2> DEFINE new == [FreeConn EXCEPT !.st = "sent", !.pod = p, !.ready = ready,
                                     !.report = [j \in Jobs |-> held[p][j].lease]]
  <2>1. new \in Conn /\ new.pod = p
    <3>1. [j \in Jobs |-> held[p][j].lease] \in [Jobs -> Nat]
      BY <1>b DEF Task
    <3> QED BY <3>1 DEF FreeConn, Conn
  <2>2. conns' = [conns EXCEPT ![r] = new] /\ polling' = [polling EXCEPT ![p] = r] /\ held' = held
    BY <1>1 DEF SendPoll
  <2> HIDE DEF new
  <2> QED BY <1>b, <2>1, <2>2 DEF AgentsTyped
<1>2. ASSUME NEW r \in Polls, PollArrives(r)
      PROVE  AgentsTyped'
  <2> DEFINE c == conns[r]
             next == IF polls'[r].st = "parked" THEN "serving" ELSE "replied"
             given == {<<j, Len(grants'[j])>> : j \in Assigned}
             new == [FreeConn EXCEPT !.st = next, !.pod = c.pod, !.orphan = Orphans(c),
                                     !.cancel = Cancels(c), !.assign = given]
  <2>1. given \in SUBSET (Jobs \X Nat) /\ c.pod \in Pods
    <3>1. c.pod \in Pods
      BY <1>2, ArrivalIsPoll
    <3> QED BY <1>a, <1>2, <3>1, ArrivalAssigns
  <2>2. Orphans(c) \subseteq Jobs /\ Cancels(c) \subseteq Jobs /\ next \in {"serving", "replied"}
    BY DEF Orphans, Cancels
  <2>3. conns' = [conns EXCEPT ![r] = new] /\ polling' = polling /\ held' = held
    BY <1>2 DEF PollArrives
  <2> HIDE DEF given, next, c
  <2>4. new \in Conn /\ new.pod \in Pods
    BY <2>1, <2>2 DEF FreeConn, Conn
  <2> HIDE DEF new
  <2> QED BY <1>b, <2>3, <2>4 DEF AgentsTyped
<1>3. ASSUME NEW r \in Polls, PollAnswered(r)
      PROVE  AgentsTyped'
  <2> DEFINE given == {<<j, Len(grants'[j])>> : j \in Assigned}
             new == [conns[r] EXCEPT !.assign = given, !.st = "replied"]
  <2>1. given \in SUBSET (Jobs \X Nat) /\ conns[r].pod \in Pods
    <3>1. conns[r].pod \in Pods
      BY <1>b, <1>3 DEF PollAnswered, PollWoken, PollTimeout, AInv, EndsMeet
    <3> QED BY <1>a, <1>3, <3>1, AnswerAssigns
  <2>2. conns' = [conns EXCEPT ![r] = new] /\ polling' = polling /\ held' = held
    BY <1>b, <1>3 DEF PollAnswered
  <2> HIDE DEF given
  <2>3. new \in Conn /\ new.pod \in Pods
    BY <1>b, <2>1 DEF Conn
  <2> HIDE DEF new
  <2> QED BY <1>b, <2>2, <2>3 DEF AgentsTyped
<1>4. ASSUME NEW r \in Polls, Deliver(r)
      PROVE  AgentsTyped'
  <2>1. held' \in [Pods -> [Jobs -> Task]] /\ conns[r].pod \in Pods
    BY <1>4, DeliveredTasks
  <2>2. /\ polling' = [polling EXCEPT ![conns[r].pod] = NoPoll]
        /\ conns' = [conns EXCEPT ![r] = FreeConn]
    BY <1>4 DEF Deliver
  <2> QED BY <1>b, <1>c, <2>1, <2>2 DEF AgentsTyped
<1>5. ASSUME NEW r \in Polls, DropPoll(r)
      PROVE  AgentsTyped'
  BY <1>b, <1>c, <1>5 DEF DropPoll, AgentsTyped
<1>6. ASSUME NEW p \in Pods, GiveUpPoll(p) \/ RestartAgent(p)
      PROVE  AgentsTyped'
  <2>1. /\ polling' = [polling EXCEPT ![p] = NoPoll] /\ conns' = conns
        /\ held' = held \/ held' = [held EXCEPT ![p] = [j \in Jobs |-> NotHeld]]
    BY <1>6 DEF GiveUpPoll, RestartAgent
  <2> QED BY <1>b, <1>c, <2>1 DEF AgentsTyped
<1>7. ASSUME NEW p \in Pods, NEW j \in Jobs, TaskMoves(p, j)
      PROVE  AgentsTyped'
  BY <1>b, <1>7 DEF TaskMoves, AgentsTyped
<1>8. CASE UNCHANGED <<held, polling, conns>>
  BY <1>b, <1>8 DEF AgentsTyped
<1>9. CASE GatewayStops
  <2>1. \A r \in Polls : conns'[r] \in Conn /\ (conns'[r].st # "free" => conns'[r].pod \in Pods)
    <3> SUFFICES ASSUME NEW r \in Polls
                 PROVE conns'[r] \in Conn /\ (conns'[r].st # "free" => conns'[r].pod \in Pods)
      OBVIOUS
    <3>1. conns[r] \in Conn /\ (polls[r].st = "parked" => conns[r].st = "serving")
      BY <1>b DEF AInv, EndsMeet
    <3> QED BY <1>b, <1>9, <3>1 DEF GatewayStops, Conn
  <2> QED BY <1>b, <1>9, <2>1 DEF GatewayStops, AgentsTyped
<1>10. CASE GatewayEnds
  BY <1>b, <1>c, <1>10 DEF GatewayEnds, AgentsTyped
<1> QED BY <1>1, <1>2, <1>3, <1>4, <1>5, <1>6, <1>7, <1>8, <1>9, <1>10, AgentsParts

\* A granted lease stays granted.
LEMMA GrantedStays ==
  ASSUME IInv, [Next]_vars, NEW p, NEW j \in Jobs, NEW l, Granted(p, j, l)
  PROVE  Granted(p, j, l)'
BY GrantsGrow DEF Granted

\* The kept leases were granted.
LEMMA NextTasksGranted ==
  ASSUME AInv, [AgentsNext]_allVars
  PROVE  TasksGranted'
<1>a. [Next]_vars /\ IInv /\ TasksGranted /\ held \in [Pods -> [Jobs -> Task]]
  BY AgentsStepGateway DEF AInv, AgentsTyped
<1> SUFFICES ASSUME NEW q \in Pods, NEW i \in Jobs
             PROVE IF held'[q][i].phase = "none" THEN held'[q][i] = NotHeld
                   ELSE Granted(q, i, held[q][i].lease)'
  BY DEF TasksGranted
<1> DEFINE Fine(h) == IF h.phase = "none" THEN h = NotHeld ELSE \A l : l = h.lease => Granted(q, i, l)'
<1> SUFFICES Fine(held'[q][i])
  BY DEF Granted
<1>b. Fine(held[q][i])
  BY <1>a, GrantedStays DEF TasksGranted
<1>c. Fine(NotHeld)
  BY DEF NotHeld
<1> HIDE DEF Fine
<1>1. CASE held' = held
  BY <1>b, <1>1
<1>2. ASSUME NEW p \in Pods, NEW j \in Jobs, TaskMoves(p, j)
      PROVE  Fine(held'[q][i])
  <2>1. PICK new \in Task : Continues(held[p][j], new) /\ held' = [held EXCEPT ![p][j] = new]
    BY <1>2 DEF TaskMoves
  <2>2. CASE q = p /\ i = j
    <3>1. held'[q][i] = new
      BY <1>a, <2>1, <2>2
    <3> QED BY <1>b, <1>c, <2>1, <2>2, <3>1 DEF Continues, Fine
  <2>3. CASE ~(q = p /\ i = j)
    <3>1. held'[q][i] = held[q][i]
      BY <1>a, <2>1, <2>3
    <3> QED BY <1>b, <3>1
  <2> QED BY <2>2, <2>3
<1>3. ASSUME NEW r \in Polls, Deliver(r)
      PROVE  Fine(held'[q][i])
  <2>1. PICK p \in Pods : p = conns[r].pod
    BY <1>3, DeliveredTasks
  <2>2. CASE q # p
    BY <1>3, <1>b, <2>1, <2>2, DeliveredTasks
  <2>3. CASE q = p
    <3>1. Hears(conns[r], i, held[q][i], held'[q][i]) /\ held[q][i] \in Task
      BY <1>3, <1>a, <2>1, <2>3, DeliveredTasks
    <3>2. CASE held'[q][i] = held[q][i]
      BY <1>b, <3>2
    <3>3. CASE held[q][i].phase # "none" /\ held'[q][i] = [held[q][i] EXCEPT !.cancelled = TRUE]
      <4>1. held'[q][i].phase = held[q][i].phase /\ held'[q][i].lease = held[q][i].lease
        BY <3>1, <3>3 DEF Task
      <4> QED BY <1>b, <3>3, <4>1 DEF Fine
    <3>4. ASSUME NEW a \in conns[r].assign, a[1] = i, held'[q][i] = Fresh(a[2])
          PROVE  Fine(held'[q][i])
      <4>1. Granted(q, i, a[2])
        BY <2>1, <2>3, <3>4 DEF AInv, ConnsGranted
      <4>2. held'[q][i].phase = "fetching" /\ held'[q][i].lease = a[2]
        BY <3>4 DEF Fresh, NotHeld
      <4> QED BY <1>a, <4>1, <4>2, GrantedStays DEF Fine
    <3> QED BY <3>1, <3>2, <3>3, <3>4 DEF Hears
  <2> QED BY <2>2, <2>3
<1>4. ASSUME NEW p \in Pods, RestartAgent(p)
      PROVE  Fine(held'[q][i])
  BY <1>a, <1>b, <1>c, <1>4 DEF RestartAgent
<1> QED BY <1>1, <1>2, <1>3, <1>4, AgentsParts DEF SendPoll, PollArrives, PollAnswered, DropPoll,
           GiveUpPoll, GatewayStops, GatewayEnds

\* So were the leases on the wire.
LEMMA NextConnsGranted ==
  ASSUME AInv, [AgentsNext]_allVars
  PROVE  ConnsGranted'
<1> DEFINE Fine(c) ==
      /\ \A j \in Jobs : \A q, l :
           c.report[j] # 0 /\ q = c.pod /\ l = c.report[j] => Granted(q, j, l)'
      /\ \A a \in c.assign : \A q : q = c.pod => Granted(q, a[1], a[2])'
<1> SUFFICES ASSUME NEW s \in Polls PROVE Fine(conns'[s])
  BY DEF ConnsGranted, Granted
<1>a. /\ [Next]_vars /\ IInv /\ conns \in [Polls -> Conn]
      /\ held \in [Pods -> [Jobs -> Task]]
  BY AgentsStepGateway DEF AInv, AgentsTyped
<1>b. Fine(conns[s])
  <2>1. \A a \in conns[s].assign : a[1] \in Jobs
    BY <1>a DEF Conn
  <2> QED BY <1>a, <2>1, GrantedStays DEF AInv, ConnsGranted
<1>c. Fine(FreeConn)
  BY DEF FreeConn
<1>d. \A c : c = [conns[s] EXCEPT !.st = "replied"] => Fine(c)
  <2> SUFFICES ASSUME NEW c, c = [conns[s] EXCEPT !.st = "replied"] PROVE Fine(c)
    OBVIOUS
  <2>1. c.report = conns[s].report /\ c.pod = conns[s].pod /\ c.assign = conns[s].assign
    BY <1>a DEF Conn
  <2> QED BY <1>b, <2>1
<1> HIDE DEF Fine
<1>1. CASE conns' = conns
  BY <1>b, <1>1
<1>2. ASSUME NEW p \in Pods, NEW r \in Polls, NEW ready \in BOOLEAN, SendPoll(p, r, ready)
      PROVE  Fine(conns'[s])
  <2> DEFINE new == [FreeConn EXCEPT !.st = "sent", !.pod = p, !.ready = ready,
                                     !.report = [j \in Jobs |-> held[p][j].lease]]
  <2>1. new.pod = p /\ new.assign = {} /\ \A j \in Jobs : new.report[j] = held[p][j].lease
    BY DEF FreeConn
  <2>2. conns' = [conns EXCEPT ![r] = new]
    BY <1>2 DEF SendPoll
  <2> HIDE DEF new
  <2>3. \A j \in Jobs : held[p][j].lease # 0 => Granted(p, j, held[p][j].lease)
    BY DEF AInv, TasksGranted, NotHeld
  <2>4. Fine(new)
    BY <1>a, <2>1, <2>3, GrantedStays DEF Fine
  <2> QED BY <1>a, <1>b, <2>2, <2>4
<1>3. ASSUME NEW r \in Polls, PollArrives(r)
      PROVE  Fine(conns'[s])
  <2> DEFINE c == conns[r]
             next == IF polls'[r].st = "parked" THEN "serving" ELSE "replied"
             given == {<<j, Len(grants'[j])>> : j \in Assigned}
             new == [FreeConn EXCEPT !.st = next, !.pod = c.pod, !.orphan = Orphans(c),
                                     !.cancel = Cancels(c), !.assign = given]
  <2>1. conns' = [conns EXCEPT ![r] = new]
    BY <1>3 DEF PollArrives
  <2>2. PICK p \in Pods : p = c.pod
    BY <1>3, ArrivalIsPoll
  <2>3. \A a \in given : Granted(p, a[1], a[2])'
    BY <1>a, <1>3, <2>2, ArrivalAssigns
  <2>4. new.pod = p /\ new.assign = given /\ new.report = [j \in Jobs |-> 0]
    BY <2>2 DEF FreeConn
  <2> HIDE DEF new, given, c, next
  <2>5. Fine(new)
    BY <2>3, <2>4 DEF Fine
  <2> QED BY <1>a, <1>b, <2>1, <2>5
<1>4. ASSUME NEW r \in Polls, PollAnswered(r)
      PROVE  Fine(conns'[s])
  <2> DEFINE given == {<<j, Len(grants'[j])>> : j \in Assigned}
             new == [conns[r] EXCEPT !.assign = given, !.st = "replied"]
  <2>1. conns' = [conns EXCEPT ![r] = new]
    BY <1>a, <1>4 DEF PollAnswered
  <2>2. PICK p \in Pods : p = conns[r].pod
    BY <1>4 DEF PollAnswered, PollWoken, PollTimeout, AInv, EndsMeet, AgentsTyped
  <2>3. \A a \in given : Granted(p, a[1], a[2])'
    BY <1>a, <1>4, <2>2, AnswerAssigns
  <2>4. new.pod = p /\ new.assign = given /\ new.report = conns[r].report
    BY <1>a, <2>2 DEF Conn
  <2> HIDE DEF new, given
  <2>5. s = r => Fine(new)
    BY <1>b, <2>2, <2>3, <2>4 DEF Fine
  <2> QED BY <1>a, <1>b, <2>1, <2>5
<1>5. ASSUME NEW r \in Polls, Deliver(r) \/ DropPoll(r)
      PROVE  Fine(conns'[s])
  <2>1. conns' = [conns EXCEPT ![r] = FreeConn]
    BY <1>5 DEF Deliver, DropPoll
  <2> QED BY <1>a, <1>b, <1>c, <2>1
<1>6. CASE GatewayStops
  BY <1>b, <1>d, <1>6 DEF GatewayStops
<1>7. CASE GatewayEnds
  BY <1>c, <1>7 DEF GatewayEnds
<1> QED BY <1>1, <1>2, <1>3, <1>4, <1>5, <1>6, <1>7, AgentsParts DEF TaskMoves, GiveUpPoll,
           RestartAgent

\* The two ends of a poll agree.
LEMMA NextEndsMeet ==
  ASSUME AInv, [AgentsNext]_allVars
  PROVE  EndsMeet'
<1>a. /\ AgentsTyped' /\ AgentsTyped /\ EndsMeet /\ IInv
      /\ polls \in [Polls -> PollRecord]
  BY NextTyped DEF AInv, IInv, TypeOK
<1> DEFINE Served(r) == polls'[r].st # "idle" =>
                          conns'[r].st = "serving" /\ conns'[r].pod = polls'[r].pod
           Awaited(p) == polling'[p] # NoPoll =>
                           conns'[polling'[p]].st # "free" /\ conns'[polling'[p]].pod = p
<1> SUFFICES (\A r \in Polls : Served(r)) /\ (\A p \in Pods : Awaited(p))
  BY DEF EndsMeet
<1>1. CASE NoNewPoll /\ UNCHANGED <<polling, conns>>
  BY <1>a, <1>1 DEF NoNewPoll, EndsMeet
<1>2. ASSUME NEW q \in Pods, NEW s \in Polls, NEW ready \in BOOLEAN, SendPoll(q, s, ready)
      PROVE  (\A r \in Polls : Served(r)) /\ (\A p \in Pods : Awaited(p))
  <2>1. /\ conns'[s].st = "sent" /\ conns'[s].pod = q /\ conns[s].st = "free"
        /\ polls[s].st = "idle"
        /\ \A r \in Polls \ {s} : conns'[r] = conns[r]
        /\ polling'[q] = s /\ \A p \in Pods \ {q} : polling'[p] = polling[p]
        /\ polls' = polls
    BY <1>a, <1>2 DEF SendPoll, AgentsTyped, FreeConn, vars
  <2>2. \A r \in Polls : Served(r)
    BY <1>a, <2>1 DEF EndsMeet
  <2>3. \A p \in Pods \ {q} : Awaited(p)
    BY <1>a, <2>1 DEF EndsMeet, AgentsTyped
  <2>4. Awaited(q)
    BY <2>1
  <2> QED BY <2>2, <2>3, <2>4
<1>3. ASSUME NEW s \in Polls, PollArrives(s)
      PROVE  (\A r \in Polls : Served(r)) /\ (\A p \in Pods : Awaited(p))
  <2>1. /\ conns'[s].st = (IF polls'[s].st = "parked" THEN "serving" ELSE "replied")
        /\ conns'[s].pod = conns[s].pod
        /\ \A r \in Polls \ {s} : conns'[r] = conns[r]
        /\ polling' = polling
    BY <1>a, <1>3 DEF PollArrives, AgentsTyped, FreeConn
  <2>2. /\ polls[s].st = "idle"
        /\ \/ polls' = polls
           \/ \E slots : polls' = [polls EXCEPT ![s] = [st |-> "parked", pod |-> conns[s].pod, slots |-> slots]]
    BY <1>3 DEF PollArrives, Poll
  <2>3. \A r \in Polls : Served(r)
    BY <1>a, <2>1, <2>2 DEF EndsMeet
  <2>4. \A p \in Pods : Awaited(p)
    BY <1>a, <2>1 DEF EndsMeet, AgentsTyped
  <2> QED BY <2>3, <2>4
<1>4. ASSUME NEW s \in Polls, PollAnswered(s)
      PROVE  (\A r \in Polls : Served(r)) /\ (\A p \in Pods : Awaited(p))
  <2>1. /\ conns'[s].st = "replied" /\ conns'[s].pod = conns[s].pod
        /\ \A r \in Polls \ {s} : conns'[r] = conns[r]
        /\ polling' = polling
    <3> DEFINE new == [conns[s] EXCEPT !.assign = {<<j, Len(grants'[j])>> : j \in Assigned},
                                       !.st = "replied"]
    <3>1. conns' = [conns EXCEPT ![s] = new] /\ polling' = polling
      BY <1>a, <1>4 DEF PollAnswered, AgentsTyped
    <3>2. new.st = "replied" /\ new.pod = conns[s].pod
      BY <1>a DEF AgentsTyped, Conn
    <3> HIDE DEF new
    <3> QED BY <1>a, <3>1, <3>2 DEF AgentsTyped
  <2>2. polls' = [polls EXCEPT ![s] = IdlePoll]
    BY <1>4 DEF PollAnswered, PollWoken, PollTimeout
  <2>3. \A r \in Polls : Served(r)
    BY <1>a, <2>1, <2>2 DEF EndsMeet, IdlePoll
  <2>4. \A p \in Pods : Awaited(p)
    BY <1>a, <2>1 DEF EndsMeet, AgentsTyped
  <2> QED BY <2>3, <2>4
<1>5. ASSUME NEW s \in Polls, Deliver(s)
      PROVE  (\A r \in Polls : Served(r)) /\ (\A p \in Pods : Awaited(p))
  <2>1. PICK q \in Pods : q = conns[s].pod
    BY <1>5, DeliveredTasks
  <2>2. /\ conns[s].st = "replied" /\ conns'[s] = FreeConn
        /\ \A r \in Polls \ {s} : conns'[r] = conns[r]
        /\ polling'[q] = NoPoll /\ \A p \in Pods \ {q} : polling'[p] = polling[p]
        /\ polls' = polls
    BY <1>a, <1>5, <2>1 DEF Deliver, AgentsTyped, vars
  <2>3. \A p \in Pods \ {q} : polling[p] # s
    BY <1>a, <2>1, NoPollAssumption DEF EndsMeet
  <2>4. \A r \in Polls : Served(r)
    BY <1>a, <2>2 DEF EndsMeet
  <2>5. \A p \in Pods \ {q} : Awaited(p)
    BY <1>a, <2>2, <2>3 DEF EndsMeet, AgentsTyped
  <2>6. Awaited(q)
    BY <2>2
  <2> QED BY <2>4, <2>5, <2>6
<1>6. ASSUME NEW s \in Polls, DropPoll(s)
      PROVE  (\A r \in Polls : Served(r)) /\ (\A p \in Pods : Awaited(p))
  <2>1. /\ conns[s].st \in {"sent", "replied"} /\ polling[conns[s].pod] # s /\ conns'[s] = FreeConn
        /\ \A r \in Polls \ {s} : conns'[r] = conns[r]
        /\ polling' = polling /\ polls' = polls
    BY <1>a, <1>6 DEF DropPoll, AgentsTyped, vars
  <2>2. \A p \in Pods : polling[p] # s
    BY <1>a, <2>1, NoPollAssumption DEF EndsMeet
  <2> QED BY <1>a, <2>1, <2>2 DEF EndsMeet, AgentsTyped
<1>7. ASSUME NEW q \in Pods, GiveUpPoll(q) \/ RestartAgent(q)
      PROVE  (\A r \in Polls : Served(r)) /\ (\A p \in Pods : Awaited(p))
  <2>1. /\ polling'[q] = NoPoll /\ \A p \in Pods \ {q} : polling'[p] = polling[p]
        /\ polls' = polls /\ conns' = conns
    BY <1>a, <1>7 DEF GiveUpPoll, RestartAgent, AgentsTyped, vars
  <2> QED BY <1>a, <2>1 DEF EndsMeet, AgentsTyped
<1>8. CASE GatewayStops
  <2>1. /\ polls' = Released /\ polling' = polling
        /\ \A r \in Polls : conns'[r] = IF polls[r].st = "parked"
                                        THEN [conns[r] EXCEPT !.st = "replied"] ELSE conns[r]
    BY <1>8 DEF GatewayStops, Stop
  <2>2. \A r \in Polls : /\ conns'[r].pod = conns[r].pod
                         /\ conns'[r].st = IF polls[r].st = "parked" THEN "replied" ELSE conns[r].st
    BY <1>a, <2>1 DEF AgentsTyped, Conn
  <2>3. \A r \in Polls : polls'[r].st # "idle" => polls[r].st # "parked" /\ polls'[r] = polls[r]
    BY <2>1 DEF Released, IdlePoll
  <2>4. \A r \in Polls : Served(r)
    BY <1>a, <2>2, <2>3 DEF EndsMeet
  <2>5. \A p \in Pods : Awaited(p)
    BY <1>a, <2>1, <2>2 DEF EndsMeet, AgentsTyped
  <2> QED BY <2>4, <2>5
<1>9. CASE GatewayEnds
  BY <1>9 DEF GatewayEnds, Exit, Crash, Halt, IdlePoll
<1> QED BY <1>1, <1>2, <1>3, <1>4, <1>5, <1>6, <1>7, <1>8, <1>9, AgentsParts DEF TaskMoves

\* An excuse for a task that is kept is an excuse for good.
LEMMA TaskExcused ==
  ASSUME AInv, [Next]_vars, NEW p \in Pods, NEW j \in Jobs, held[p][j].phase # "none",
         NEW l, l = held[p][j].lease, Excused(j, l)
  PROVE  Excused(j, l)'
<1>1. l \in 1..Len(grants[j])
  BY DEF AInv, TasksGranted, Granted
<1> QED BY <1>1, ExcusedForGood DEF AInv

\* A flag has its excuse.
LEMMA NextFlaggedExcused ==
  ASSUME AInv, [AgentsNext]_allVars
  PROVE  FlaggedExcused'
<1> DEFINE Flagged(h) == h.cancelled \/ h.result = "cancelled"
<1> SUFFICES ASSUME NEW q \in Pods, NEW i \in Jobs
             PROVE  Flagged(held'[q][i]) => Excused(i, held[q][i].lease)'
  BY DEF FlaggedExcused
<1> DEFINE Fine(h) == \A l : l = h.lease /\ Flagged(h) => Excused(i, l)'
<1> SUFFICES Fine(held'[q][i])
  BY DEF Excused
<1>a. [Next]_vars /\ held \in [Pods -> [Jobs -> Task]] /\ AgentsTyped'
  BY AgentsStepGateway, NextTyped DEF AInv, AgentsTyped
<1>b. Fine(held[q][i])
  <2>1. Flagged(held[q][i]) => held[q][i].phase # "none" /\ Excused(i, held[q][i].lease)
    BY DEF AInv, TasksGranted, FlaggedExcused, NotHeld
  <2> QED BY <1>a, <2>1, TaskExcused
<1>c. Fine(NotHeld)
  BY DEF NotHeld
<1> HIDE DEF Fine
<1>1. CASE held' = held
  BY <1>b, <1>1
<1>2. ASSUME NEW p \in Pods, NEW j \in Jobs, TaskMoves(p, j)
      PROVE  Fine(held'[q][i])
  <2>1. PICK new \in Task : Continues(held[p][j], new) /\ held' = [held EXCEPT ![p][j] = new]
    BY <1>2 DEF TaskMoves
  <2>2. CASE q = p /\ i = j
    <3>1. held'[q][i] = new
      BY <1>a, <2>1, <2>2
    <3> QED BY <1>b, <1>c, <2>1, <2>2, <3>1 DEF Continues, Fine
  <2>3. CASE ~(q = p /\ i = j)
    <3>1. held'[q][i] = held[q][i]
      BY <1>a, <2>1, <2>3
    <3> QED BY <1>b, <3>1
  <2> QED BY <2>2, <2>3
<1>3. ASSUME NEW r \in Polls, Deliver(r)
      PROVE  Fine(held'[q][i])
  <2>1. PICK p \in Pods : p = conns[r].pod
    BY <1>3, DeliveredTasks
  <2>2. CASE q # p
    BY <1>3, <1>b, <2>1, <2>2, DeliveredTasks
  <2>3. CASE q = p
    <3>1. Hears(conns[r], i, held[q][i], held'[q][i]) /\ held[q][i] \in Task /\ polling[q] = r
      BY <1>3, <1>a, <2>1, <2>3, DeliveredTasks
    <3>2. CASE held'[q][i] = held[q][i]
      BY <1>b, <3>2
    <3>3. CASE /\ held[q][i].phase # "none" /\ i \in conns[r].orphan \cup conns[r].cancel
               /\ held'[q][i] = [held[q][i] EXCEPT !.cancelled = TRUE]
      <4>1. held'[q][i].lease = held[q][i].lease
        BY <3>1, <3>3 DEF Task
      <4>2. Excused(i, held[q][i].lease)
        BY <3>1, <3>3 DEF AInv, AnswersFit
      <4> QED BY <1>a, <3>3, <4>1, <4>2, TaskExcused DEF Fine
    <3>4. ASSUME NEW a \in conns[r].assign, held'[q][i] = Fresh(a[2])
          PROVE  Fine(held'[q][i])
      BY <3>4 DEF Fresh, NotHeld, Fine
    <3> QED BY <3>1, <3>2, <3>3, <3>4 DEF Hears
  <2> QED BY <2>2, <2>3
<1>4. ASSUME NEW p \in Pods, RestartAgent(p)
      PROVE  Fine(held'[q][i])
  BY <1>a, <1>b, <1>c, <1>4 DEF RestartAgent
<1> QED BY <1>1, <1>2, <1>3, <1>4, AgentsParts DEF SendPoll, PollArrives, PollAnswered, DropPoll,
           GiveUpPoll, GatewayStops, GatewayEnds

\* An answer names a kept lease only with an excuse.
LEMMA NextAnswersFit ==
  ASSUME AInv, [AgentsNext]_allVars
  PROVE  AnswersFit'
<1> DEFINE Fits(h, c, i) ==
      /\ c.st = "sent" => h.lease = c.report[i]
      /\ i \in c.orphan \cup c.cancel => \A l : l = h.lease => Excused(i, l)'
<1> SUFFICES ASSUME NEW q \in Pods, NEW s \in Polls, polling'[q] = s,
                    NEW i \in Jobs, held'[q][i].phase # "none"
             PROVE  Fits(held'[q][i], conns'[s], i)
  BY DEF AnswersFit, Excused
<1>a. /\ [Next]_vars /\ AgentsTyped /\ EndsMeet /\ NoPoll # s
      /\ held \in [Pods -> [Jobs -> Task]] /\ conns \in [Polls -> Conn]
  BY AgentsStepGateway, NoPollAssumption DEF AInv, AgentsTyped
<1>b. ASSUME polling[q] = s, held[q][i].phase # "none", held'[q][i].lease = held[q][i].lease,
             conns'[s].st = "sent" => conns[s].st = "sent" /\ conns'[s].report = conns[s].report,
             conns'[s].orphan = conns[s].orphan, conns'[s].cancel = conns[s].cancel
      PROVE  Fits(held'[q][i], conns'[s], i)
  <2>1. /\ conns[s].st = "sent" => held[q][i].lease = conns[s].report[i]
        /\ i \in conns[s].orphan \cup conns[s].cancel => Excused(i, held[q][i].lease)
    BY <1>b DEF AInv, AnswersFit
  <2> QED BY <1>a, <1>b, <2>1, TaskExcused
<1> HIDE DEF Fits
<1>1. CASE UNCHANGED <<held, polling, conns>>
  BY <1>b, <1>1
<1>2. ASSUME NEW p \in Pods, NEW j \in Jobs, TaskMoves(p, j)
      PROVE  Fits(held'[q][i], conns'[s], i)
  <2>1. PICK new \in Task : Continues(held[p][j], new) /\ held' = [held EXCEPT ![p][j] = new]
    BY <1>2 DEF TaskMoves
  <2>2. held[q][i].phase # "none" /\ held'[q][i].lease = held[q][i].lease
    <3>1. CASE q = p /\ i = j
      <4>1. held'[q][i] = new
        BY <1>a, <2>1, <3>1
      <4> QED BY <2>1, <3>1, <4>1 DEF Continues, NotHeld
    <3>2. CASE ~(q = p /\ i = j)
      BY <1>a, <2>1, <3>2
    <3> QED BY <3>1, <3>2
  <2> QED BY <1>2, <1>b, <2>2 DEF TaskMoves
<1>3. ASSUME NEW p \in Pods, NEW r \in Polls, NEW ready \in BOOLEAN, SendPoll(p, r, ready)
      PROVE  Fits(held'[q][i], conns'[s], i)
  <2> DEFINE new == [FreeConn EXCEPT !.st = "sent", !.pod = p, !.ready = ready,
                                     !.report = [j \in Jobs |-> held[p][j].lease]]
  <2>1. new.orphan = {} /\ new.cancel = {} /\ new.report[i] = held[p][i].lease
    BY DEF FreeConn
  <2>2. /\ conns' = [conns EXCEPT ![r] = new] /\ polling' = [polling EXCEPT ![p] = r]
        /\ held' = held /\ conns[r].st = "free"
    BY <1>3 DEF SendPoll
  <2> HIDE DEF new
  <2>3. CASE q = p
    <3>1. s = r /\ conns'[s] = new
      BY <1>a, <2>2, <2>3 DEF AgentsTyped
    <3> QED BY <2>1, <2>2, <2>3, <3>1 DEF Fits
  <2>4. CASE q # p
    <3>1. polling[q] = s /\ s # r
      BY <1>a, <2>2, <2>4 DEF AgentsTyped, EndsMeet
    <3> QED BY <1>a, <1>b, <2>2, <3>1
  <2> QED BY <2>3, <2>4
<1>4. ASSUME NEW r \in Polls, PollArrives(r)
      PROVE  Fits(held'[q][i], conns'[s], i)
  <2> DEFINE c == conns[r]
             next == IF polls'[r].st = "parked" THEN "serving" ELSE "replied"
             given == {<<j, Len(grants'[j])>> : j \in Assigned}
             new == [FreeConn EXCEPT !.st = next, !.pod = c.pod, !.orphan = Orphans(c),
                                     !.cancel = Cancels(c), !.assign = given]
  <2>1. conns' = [conns EXCEPT ![r] = new] /\ held' = held /\ polling' = polling /\ c.st = "sent"
    BY <1>4 DEF PollArrives
  <2>2. new.st # "sent" /\ new.orphan = Orphans(c) /\ new.cancel = Cancels(c)
    BY DEF FreeConn
  <2> HIDE DEF new
  <2>3. CASE s = r
    <3>1. held[q][i].lease = c.report[i] /\ held[q][i].phase # "none"
      BY <2>1, <2>3 DEF AInv, AnswersFit
    <3>2. i \in Orphans(c) \cup Cancels(c) => Excused(i, held[q][i].lease)
      BY <3>1 DEF Orphans, Cancels, Excused
    <3>3. conns'[s] = new
      BY <1>a, <2>1, <2>3
    <3> QED BY <1>a, <2>1, <2>2, <3>1, <3>2, <3>3, TaskExcused DEF Fits
  <2>4. CASE s # r
    BY <1>a, <1>b, <2>1, <2>4
  <2> QED BY <2>3, <2>4
<1>5. ASSUME NEW r \in Polls, PollAnswered(r)
      PROVE  Fits(held'[q][i], conns'[s], i)
  <2> DEFINE new == [conns[r] EXCEPT !.assign = {<<j, Len(grants'[j])>> : j \in Assigned},
                                     !.st = "replied"]
  <2>1. conns' = [conns EXCEPT ![r] = new] /\ held' = held /\ polling' = polling
    BY <1>a, <1>5 DEF PollAnswered
  <2>2. new.st = "replied" /\ new.orphan = conns[r].orphan /\ new.cancel = conns[r].cancel
    BY <1>a DEF Conn
  <2> HIDE DEF new
  <2> QED BY <1>a, <1>b, <2>1, <2>2
<1>6. ASSUME NEW r \in Polls, Deliver(r)
      PROVE  Fits(held'[q][i], conns'[s], i)
  <2>1. PICK p \in Pods : p = conns[r].pod
    BY <1>6, DeliveredTasks
  <2>2. /\ polling' = [polling EXCEPT ![p] = NoPoll] /\ conns' = [conns EXCEPT ![r] = FreeConn]
        /\ \A k \in Pods \ {p} : held'[k] = held[k]
    BY <1>6, <2>1, DeliveredTasks
  <2>3. q # p /\ polling[q] = s
    BY <1>a, <2>1, <2>2 DEF AgentsTyped
  <2>4. s # r
    BY <1>a, <2>1, <2>3 DEF EndsMeet
  <2>5. conns'[s] = conns[s] /\ held'[q] = held[q]
    BY <1>a, <2>2, <2>3, <2>4
  <2> QED BY <1>b, <2>3, <2>5
<1>7. ASSUME NEW r \in Polls, DropPoll(r)
      PROVE  Fits(held'[q][i], conns'[s], i)
  <2>1. /\ conns' = [conns EXCEPT ![r] = FreeConn] /\ held' = held /\ polling' = polling
        /\ polling[conns[r].pod] # r
    BY <1>7 DEF DropPoll
  <2>2. s # r
    BY <1>a, <2>1 DEF EndsMeet
  <2> QED BY <1>a, <1>b, <2>1, <2>2
<1>8. ASSUME NEW p \in Pods, GiveUpPoll(p) \/ RestartAgent(p)
      PROVE  Fits(held'[q][i], conns'[s], i)
  <2>1. /\ polling' = [polling EXCEPT ![p] = NoPoll] /\ conns' = conns
        /\ held' = held \/ held' = [held EXCEPT ![p] = [j \in Jobs |-> NotHeld]]
    BY <1>8 DEF GiveUpPoll, RestartAgent
  <2>2. q # p /\ polling[q] = s
    BY <1>a, <2>1 DEF AgentsTyped
  <2>3. held'[q] = held[q]
    BY <1>a, <2>1, <2>2
  <2> QED BY <1>b, <2>1, <2>2, <2>3
<1>9. CASE GatewayStops
  <2>1. /\ held' = held /\ polling' = polling
        /\ conns'[s] = conns[s] \/ conns'[s] = [conns[s] EXCEPT !.st = "replied"]
    BY <1>9 DEF GatewayStops
  <2>2. /\ conns'[s].st \in {conns[s].st, "replied"} /\ conns'[s].report = conns[s].report
        /\ conns'[s].orphan = conns[s].orphan /\ conns'[s].cancel = conns[s].cancel
    BY <1>a, <2>1 DEF Conn
  <2> QED BY <1>b, <2>1, <2>2
<1>10. CASE GatewayEnds
  BY <1>a, <1>10 DEF GatewayEnds
<1> QED BY <1>1, <1>2, <1>3, <1>4, <1>5, <1>6, <1>7, <1>8, <1>9, <1>10, AgentsParts

\* The invariant holds at first, and every step keeps it.
LEMMA InitAInv ==
  AgentsInit => AInv
<1> SUFFICES ASSUME AgentsInit PROVE AInv
  OBVIOUS
<1>1. IInv
  BY InitIInv DEF AgentsInit
<1>2. NotHeld \in Task /\ FreeConn \in Conn
  BY DEF NotHeld, Task, Phases, Results, FreeConn, Conn
<1>3. AgentsTyped
  BY <1>2 DEF AgentsInit, AgentsTyped, FreeConn
<1>4. TasksGranted /\ FlaggedExcused
  BY DEF AgentsInit, TasksGranted, FlaggedExcused, NotHeld
<1>5. ConnsGranted
  BY DEF AgentsInit, ConnsGranted, FreeConn
<1>6. EndsMeet /\ AnswersFit
  BY NoPollAssumption DEF AgentsInit, EndsMeet, AnswersFit, Init, IdlePoll
<1> QED BY <1>1, <1>3, <1>4, <1>5, <1>6 DEF AInv

\* Every step of the composition keeps the invariant.
LEMMA NextAInv ==
  AInv /\ [AgentsNext]_allVars => AInv'
<1> SUFFICES ASSUME AInv, [AgentsNext]_allVars PROVE AInv'
  OBVIOUS
<1>1. IInv'
  BY AgentsStepGateway, NextIInv DEF AInv
<1> QED BY <1>1, NextTyped, NextTasksGranted, NextConnsGranted, NextEndsMeet, NextFlaggedExcused,
           NextAnswersFit DEF AInv

-----------------------------------------------------------------------------
(* The theorems *)

\* The invariant of the composition holds.
LEMMA AgentsInductive == AgentsSpec => []AInv
BY InitAInv, NextAInv, PTL DEF AgentsSpec

\* The agents are an environment the gateway allows for: whatever calls are
\* lost, late or repeated and whichever side restarts, the composition behaves
\* as module Gateway says, so every theorem about Spec holds of it.
THEOREM AgentsImplementGateway == AgentsSpec => Spec
<1>1. AgentsInit => Init
  BY DEF AgentsInit
<1>2. AInv /\ [AgentsNext]_allVars => [Next]_vars
  BY AgentsStepGateway
<1> QED BY <1>1, <1>2, AgentsInductive, PTL DEF AgentsSpec, Spec

\* An agent keeps, reports and is handed only leases granted to its pod, however
\* many pods, polls and jobs there are.
THEOREM LeasesComeFromGrants == AgentsSpec => []LeasesOnlyFromGrants
<1>1. AInv => LeasesOnlyFromGrants
  BY DEF AInv, TasksGranted, ConnsGranted, Granted, LeasesOnlyFromGrants
<1> QED BY <1>1, AgentsInductive, PTL

\* A step that is not the report of a cancel is a step of the gateway's own kind.
LEMMA AgentsCancel ==
  ASSUME AInv, [AgentsNext]_allVars
  PROVE  \/ OwnStep
         \/ \E p \in Pods, i \in Jobs :
              held[p][i].result = "cancelled" /\ ResultCancelled(i, held[p][i].lease)
<1> USE DEF OwnStep
<1>a. TypeOK
  BY DEF AInv, IInv
<1>1. ASSUME NEW r \in Polls, PollArrives(r)
      PROVE  OwnStep
  BY <1>a, <1>1, ArrivalIsPoll, PollDispatches
<1>2. ASSUME NEW r \in Polls, PollAnswered(r)
      PROVE  OwnStep
  BY <1>a, <1>2, WokenDispatches DEF PollAnswered, PollTimeout
<1>3. ASSUME NEW p \in Pods, NEW j \in Jobs, ReportAccepted(p, j)
      PROVE  OwnStep \/ (held[p][j].result = "cancelled" /\ ResultCancelled(j, held[p][j].lease))
  <2>1. /\ held[p][j].lease \in 1..Len(grants[j])
        /\ \/ ResultCompleted(j, held[p][j].lease)
           \/ held[p][j].result = "cancelled" /\ ResultCancelled(j, held[p][j].lease)
           \/ ResultRetried(j, held[p][j].lease)
           \/ \E retryable \in BOOLEAN : ResultFailed(j, held[p][j].lease, retryable)
    BY <1>3 DEF ReportAccepted, ResultCompleted, ResultCancelled, ResultRetried, ResultFailed,
                ResultAccepted
  <2> QED BY <2>1
<1>4. CASE PollStep
  BY <1>1, <1>2, <1>4 DEF PollStep, SendPoll, Deliver, DropPoll, GiveUpPoll, RestartAgent, vars
<1>5. ASSUME NEW p \in Pods, NEW j \in Jobs, RunStep(p, j)
      PROVE  OwnStep \/ (held[p][j].result = "cancelled" /\ ResultCancelled(j, held[p][j].lease))
  BY <1>3, <1>5 DEF RunStep, FetchInput, Generated, Abandoned, Upload, RunFails, ReportRefused,
                    ReportLost, vars
<1>6. CASE GatewayAlone
  BY <1>6 DEF GatewayAlone, ResultSettled, Tick
<1>7. CASE GatewayStops \/ GatewayEnds
  BY <1>7 DEF GatewayStops, GatewayEnds, Stop, Exit, Crash
<1>8. CASE UNCHANGED allVars
  BY <1>8 DEF allVars, vars
<1> QED BY <1>4, <1>5, <1>6, <1>7, <1>8 DEF AgentsNext

\* No step cancels a job that nobody asked to cancel.
LEMMA NextUnasked ==
  ASSUME AInv, [AgentsNext]_allVars, NobodyCancelsUnasked
  PROVE  NobodyCancelsUnasked'
<1> SUFFICES ASSUME NEW j \in Jobs, jobs'[j].state = "cancelled" PROVE jobs'[j].cancelAt # 0
  BY DEF NobodyCancelsUnasked
<1>a. /\ [Next]_vars /\ IInv /\ jobs \in [Jobs -> Row]
      /\ RowStep(jobs[j], grants[j], jobs'[j], grants'[j])
  BY AgentsStepGateway, NextRows DEF AInv, IInv, TypeOK, RowsStep
<1>b. jobs[j].state \in VideoStates
  BY <1>a DEF RowStep, RowMove, StatusOf, Lifecycle!Move, Lifecycle!Accept, Lifecycle!Dispatch,
       Lifecycle!Return, Lifecycle!Finish, Lifecycle!Withdraw, Lifecycle!Outcomes, Row, RowStates
<1>1. CASE jobs[j].state = "cancelled"
  BY <1>a, <1>1 DEF RowStep, IsTerminal, TerminalStates, NobodyCancelsUnasked
<1>2. CASE jobs[j].state # "cancelled" /\ OwnStep
  BY <1>a, <1>b, <1>2, OwnStepAsks DEF Asked
<1>3. ASSUME jobs[j].state # "cancelled", NEW p \in Pods, NEW i \in Jobs,
             held[p][i].result = "cancelled", ResultCancelled(i, held[p][i].lease)
      PROVE  jobs'[j].cancelAt # 0
  <2>1. i = j /\ jobs'[j] = MarkCancelled(jobs[j], held[p][j].lease)
    BY <1>a, <1>3 DEF ResultCancelled
  <2>2. Holds(jobs[j], held[p][j].lease) /\ Excused(j, held[p][j].lease)
    BY <1>3, <2>1 DEF ResultCancelled, ResultAccepted, AInv, FlaggedExcused
  <2>3. jobs[j] \in Row /\ held[p][j].lease \in Nat
    BY <1>a DEF AInv, AgentsTyped, Task
  <2> QED BY <2>1, <2>2, <2>3 DEF Excused, MarkCancelled, Finished, Row
<1> QED BY <1>1, <1>2, <1>3, AgentsCancel

\* An agent that abandons a run because its lease was lost never turns the job
\* into a cancelled one: only a job whose client asked for it is cancelled.
THEOREM CancelsAreAskedFor == AgentsSpec => []NobodyCancelsUnasked
<1>1. AgentsInit => NobodyCancelsUnasked
  BY DEF AgentsInit, Init, AbsentRow, NobodyCancelsUnasked
<1>2. UNCHANGED allVars /\ NobodyCancelsUnasked => NobodyCancelsUnasked'
  BY DEF allVars, vars, NobodyCancelsUnasked
<1>3. AInv /\ [AgentsNext]_allVars /\ NobodyCancelsUnasked => NobodyCancelsUnasked'
  BY NextUnasked
<1> QED BY <1>1, <1>3, AgentsInductive, PTL DEF AgentsSpec

\* What the history of the accepted completions holds.
Completions == accepted \in [Jobs -> SUBSET (Pods \X Nat)] /\ FencedCompletion

\* A completion is accepted once, and no step touches the row it ended.
LEMMA NextCompletions ==
  ASSUME AInv, [AgentsNext]_allVars, Completions
  PROVE  Completions'
<1>a. /\ [Next]_vars /\ IInv /\ jobs \in [Jobs -> Row]
      /\ accepted \in [Jobs -> SUBSET (Pods \X Nat)]
  BY AgentsStepGateway DEF AInv, IInv, TypeOK, Completions
<1> DEFINE Fine(j) == accepted'[j] # {} => /\ jobs'[j].state = "completed"
                                           /\ accepted'[j] = {<<jobs'[j].pod, Len(grants'[j])>>}
<1>1. ASSUME NEW j \in Jobs, accepted'[j] = accepted[j]
      PROVE  Fine(j)
  <2> SUFFICES ASSUME accepted[j] # {}
               PROVE  /\ jobs'[j].state = "completed"
                      /\ accepted[j] = {<<jobs'[j].pod, Len(grants'[j])>>}
    BY <1>1
  <2>1. jobs[j].state = "completed" /\ accepted[j] = {<<jobs[j].pod, Len(grants[j])>>}
    BY DEF Completions, FencedCompletion
  <2>2. jobs'[j] = jobs[j]
    BY <1>a, <2>1, NextRows DEF RowsStep, RowStep, IsTerminal, TerminalStates
  <2>3. grants'[j] = grants[j]
    BY <1>a, <2>1, GrantsGrow
  <2> QED BY <2>1, <2>2, <2>3
<1>2. ASSUME NEW p \in Pods, NEW i \in Jobs, ReportAccepted(p, i), held[p][i].result = "completed"
      PROVE  accepted' \in [Jobs -> SUBSET (Pods \X Nat)] /\ \A j \in Jobs : Fine(j)
  <2> DEFINE l == held[p][i].lease
  <2>1. /\ ResultCompleted(i, l) /\ accepted' = [accepted EXCEPT ![i] = @ \cup {<<p, l>>}]
        /\ held[p][i].phase = "reporting"
    BY <1>2 DEF ReportAccepted
  <2>2. Holds(jobs[i], l) /\ jobs'[i] = Complete(jobs[i], l) /\ grants' = grants
    BY <1>a, <2>1 DEF ResultCompleted, ResultAccepted
  <2>3. Granted(p, i, l) /\ l \in Nat
    BY <2>1 DEF AInv, TasksGranted, AgentsTyped, Task
  <2>4. l = Len(grants[i]) /\ jobs[i].pod = p /\ jobs[i].state = "in_progress"
    BY <2>2, <2>3 DEF Holds, Granted, AInv, IInv, RowInv, Fenced
  <2>5. accepted[i] = {}
    BY <2>4 DEF Completions, FencedCompletion
  <2>6. jobs'[i].state = "completed" /\ jobs'[i].pod = p
    BY <1>a, <2>2, <2>4 DEF Complete, Finished, Row
  <2> HIDE DEF l
  <2>7. Fine(i) /\ accepted' \in [Jobs -> SUBSET (Pods \X Nat)]
    BY <1>a, <2>1, <2>2, <2>3, <2>4, <2>5, <2>6
  <2>8. \A j \in Jobs \ {i} : accepted'[j] = accepted[j]
    BY <1>a, <2>1
  <2> HIDE DEF Fine
  <2> QED BY <1>1, <2>7, <2>8
<1>3. accepted' = accepted \/ \E p \in Pods, i \in Jobs :
        ReportAccepted(p, i) /\ held[p][i].result = "completed"
  <2>1. ASSUME NEW p \in Pods, NEW i \in Jobs, RunStep(p, i)
        PROVE  accepted' = accepted \/ (ReportAccepted(p, i) /\ held[p][i].result = "completed")
    <3>1. CASE ReportAccepted(p, i)
      BY <3>1 DEF ReportAccepted
    <3> QED BY <2>1, <3>1 DEF RunStep, FetchInput, Generated, Abandoned, Upload, RunFails,
                             ReportRefused, ReportLost
  <2>2. CASE PollStep
    BY <2>2 DEF PollStep, SendPoll, PollArrives, PollAnswered, Deliver, DropPoll, GiveUpPoll,
                RestartAgent
  <2> QED BY <2>1, <2>2 DEF AgentsNext, GatewayAlone, agentVars, allVars, GatewayStops, GatewayEnds
<1>4. CASE accepted' = accepted
  BY <1>a, <1>1, <1>4 DEF Completions, FencedCompletion
<1> QED BY <1>2, <1>3, <1>4 DEF Completions, FencedCompletion

\* The gateway accepts one completion of a job, from the pod and under the lease
\* it was last granted to, however many superseded pods finish it and however
\* often they report.
THEOREM CompletionsAreFenced == AgentsSpec => []FencedCompletion
<1>1. AgentsInit => Completions
  BY DEF AgentsInit, Completions, FencedCompletion
<1>2. AInv /\ [AgentsNext]_allVars /\ Completions => Completions'
  BY NextCompletions
<1>3. Completions => FencedCompletion
  BY DEF Completions
<1> QED BY <1>1, <1>2, <1>3, AgentsInductive, PTL DEF AgentsSpec
=============================================================================
