---------------------------- MODULE ContainerProofs ----------------------------
(***************************************************************************)
(* An agent that is stopped in good order leaves no job behind, for any    *)
(* number of pods and jobs and any settings.  The argument is about the    *)
(* one fault that a clean exit allows.  Before it every container is calm, *)
(* and what the gateway gave to a pod is in an answer its agent awaits or  *)
(* among the tasks it keeps.  If the fault is the signal (or the death of  *)
(* SGLang), nothing is lost afterwards and that remains so until the agent *)
(* ends.  If it is anything else, it is spent: no calm container can end   *)
(* without a second one.                                                   *)
(***************************************************************************)
EXTENDS Container, AgentsProofs

-----------------------------------------------------------------------------
(* The invariant *)

ContainerTyped ==
  /\ shell \in [Pods -> {"boot", "forked server", "server", "forked agent", "watching",
                         "ending", "ended"}]
  /\ tracked \in [Pods -> SUBSET Children]
  /\ server \in [Pods -> {"none", "up", "stopping", "dead"}]
  /\ agent \in [Pods -> {"none", "up", "last", "stopping", "draining", "dead"}]
  /\ cut \in SUBSET Pods /\ faults \in Nat

\* Neither told to end nor about to.
Calm(p) ==
  shell[p] \notin {"ending", "ended"} /\ server[p] \in {"none", "up"} /\ agent[p] \in {"none", "up"}

\* The exit of p, now or to come, is not a clean one: the gateway restarted, or
\* a fault was spent on something else than ending p's container.
Spoilt(p) ==
  \/ faults > 1 \/ restarts > 0
  \/ faults = 1 /\ Calm(p)
  \/ faults = 1 /\ p \in cut

CalmBefore == faults = 0 => \A p \in Pods : Calm(p)

\* An agent that drains polls no more, and one that is gone keeps nothing; no
\* container ends before its agent.
Asleep ==
  \A p \in Pods :
    /\ shell[p] = "ended" => agent[p] \in {"none", "dead"}
    /\ agent[p] \in {"none", "draining", "dead"} => polling[p] = NoPoll
    /\ agent[p] \in {"none", "dead"} => \A j \in Jobs : held[p][j] = NotHeld

\* Every request of p is the one its agent awaits.
CallsAwaited(p) ==
  \A r \in Polls : conns[r].st # "free" /\ conns[r].pod = p => polling[p] = r

\* Job j is among the tasks of p, or in an answer on its way there.
Carried(p, j) ==
  \/ held[p][j].phase # "none"
  \/ \E r \in Polls : /\ polling[p] = r /\ conns[r].st = "replied"
                      /\ \E a \in conns[r].assign : a[1] = j

\* The table gives j to p, under its first lease.
Given(p, j) == jobs[j].state = "in_progress" /\ jobs[j].pod = p /\ Len(grants[j]) = 1

JobsCarried(p) == \A j \in Jobs : Given(p, j) => Carried(p, j)

CInv ==
  /\ AInv /\ ContainerTyped /\ CalmBefore /\ Asleep
  /\ \A p \in Pods : ~Spoilt(p) => CallsAwaited(p) /\ JobsCarried(p)

-----------------------------------------------------------------------------
(* The container runs its agent *)

\* The agent is gone, its tasks with it.
TasksGone(p) ==
  /\ held' = [held EXCEPT ![p] = [j \in Jobs |-> NotHeld]]
  /\ UNCHANGED <<vars, conns>>
  /\ polling' = polling \/ polling' = [polling EXCEPT ![p] = NoPoll]

\* That keeps the invariant of the agents.
LEMMA TasksGoneAInv ==
  ASSUME AInv, NEW p \in Pods, TasksGone(p)
  PROVE  AInv'
<1>a. /\ held \in [Pods -> [Jobs -> Task]] /\ polling \in [Pods -> Polls \cup {NoPoll}]
      /\ UNCHANGED vars /\ conns' = conns
  BY DEF AInv, AgentsTyped, TasksGone
<1>b. /\ NotHeld \in Task /\ NotHeld.phase = "none" /\ ~NotHeld.cancelled
      /\ NotHeld.result = "none"
  BY DEF NotHeld, Task, Phases, Results
<1>c. [j \in Jobs |-> NotHeld] \in [Jobs -> Task]
  BY <1>b
<1>1. \A q \in Pods, j \in Jobs :
        held'[q][j] = held[q][j] \/ held'[q][j] = NotHeld
  BY <1>a DEF TasksGone
<1>2. \A q \in Pods : polling'[q] = polling[q] \/ polling'[q] = NoPoll
  BY <1>a DEF TasksGone
<1>3. IInv'
  BY <1>a, NextIInv DEF AInv
<1>4. AgentsTyped'
  <2>1. held' \in [Pods -> [Jobs -> Task]]
    BY <1>a, <1>c DEF TasksGone
  <2>2. polling' \in [Pods -> Polls \cup {NoPoll}]
    BY <1>a DEF TasksGone
  <2> QED BY <1>a, <2>1, <2>2 DEF AInv, AgentsTyped
<1>5. TasksGranted'
  BY <1>a, <1>b, <1>1 DEF AInv, TasksGranted, Granted, vars
<1>6. ConnsGranted'
  BY <1>a DEF AInv, ConnsGranted, Granted, vars
<1>7. EndsMeet'
  BY <1>a, <1>2 DEF AInv, EndsMeet, vars
<1>8. FlaggedExcused'
  BY <1>a, <1>b, <1>1 DEF AInv, FlaggedExcused, Excused, vars
<1>9. AnswersFit'
  <2> SUFFICES ASSUME NEW q \in Pods, NEW r \in Polls, polling'[q] = r,
                      NEW j \in Jobs, held'[q][j].phase # "none"
               PROVE  /\ conns[r].st = "sent" => held'[q][j].lease = conns[r].report[j]
                      /\ j \in conns[r].orphan \cup conns[r].cancel =>
                           Excused(j, held[q][j].lease)'
    BY <1>a DEF AnswersFit
  <2>1. held'[q][j] = held[q][j]
    BY <1>b, <1>1
  <2>2. polling[q] = r
    BY <1>2, NoPollAssumption
  <2>3. jobs' = jobs
    BY <1>a DEF vars
  <2> QED BY <1>a, <2>1, <2>2, <2>3 DEF AInv, AnswersFit, Excused
<1> QED BY <1>3, <1>4, <1>5, <1>6, <1>7, <1>8, <1>9 DEF AInv

\* A signal, and the death of SGLang, touch the processes and the count only.
ChildrenOnly == UNCHANGED <<vars, held, polling, conns>>

\* What a step of the composition is to the agents.
LEMMA ContainerParts ==
  ASSUME [ContainerNext]_podVars
  PROVE  \/ [AgentsNext]_allVars
         \/ ChildrenOnly
         \/ \E p \in Pods : AgentExits(p) /\ TasksGone(p)
<1>1. ASSUME NEW p \in Pods, ContainerStep(p)
      PROVE  \/ [AgentsNext]_allVars
             \/ ChildrenOnly
             \/ AgentExits(p) /\ TasksGone(p)
  <2>1. CASE \E r \in Polls, ready \in BOOLEAN : PodPolls(p, r, ready)
    BY <2>1 DEF PodPolls, AgentsNext, PollStep
  <2>2. CASE AgentCrashes(p)
    BY <2>2 DEF AgentCrashes, AgentsNext, PollStep
  <2>3. CASE AgentExits(p)
    BY <2>3 DEF AgentExits, TasksGone
  <2>4. CASE Signal(p) \/ ServerEnds(p)
    BY <2>4 DEF Signal, ServerEnds, ChildrenOnly
  <2>5. CASE \/ ForkServer(p) \/ ForkAgent(p) \/ Track(p) \/ ChildExited(p) \/ ContainerExits(p)
             \/ ContainerStarts(p) \/ AgentDrains(p) \/ LastCycleFails(p)
    BY <2>5 DEF ForkServer, ForkAgent, Track, ChildExited, ContainerExits, ContainerStarts,
                AgentDrains, LastCycleFails
  <2> QED BY <1>1, <2>1, <2>2, <2>3, <2>4, <2>5 DEF ContainerStep
<1>2. CASE \E p \in Pods, j \in Jobs : PodRuns(p, j)
  BY <1>2 DEF PodRuns, AgentsNext
<1>3. CASE AgentsAsIs
  BY <1>3 DEF AgentsAsIs, AgentsNext, PollStep
<1>4. CASE UNCHANGED podVars
  BY <1>4 DEF podVars
<1> QED BY <1>1, <1>2, <1>3, <1>4 DEF ContainerNext

\* The invariant of the agents survives their containers.
LEMMA ContainerAInv ==
  ASSUME AInv, [ContainerNext]_podVars
  PROVE  AInv' /\ [Next]_vars
<1>1. CASE [AgentsNext]_allVars
  BY <1>1, NextAInv, AgentsStepGateway
<1>2. CASE ChildrenOnly
  <2>1. AInv'
    BY <1>2 DEF ChildrenOnly, vars, AInv, IInv, TypeOK, AgentsTyped, TasksGranted, ConnsGranted,
                EndsMeet, FlaggedExcused, AnswersFit, Granted, Excused
  <2> QED BY <1>2, <2>1 DEF ChildrenOnly
<1>3. ASSUME NEW p \in Pods, TasksGone(p)
      PROVE  AInv' /\ [Next]_vars
  BY <1>3, TasksGoneAInv DEF TasksGone
<1> QED BY <1>1, <1>2, <1>3, ContainerParts

-----------------------------------------------------------------------------
(* Jobs on their way to an agent, and at it *)

\* A job that stays in progress without a new grant stays where it was.
LEMMA SameHolder ==
  ASSUME IInv, [Next]_vars, NEW j \in Jobs, jobs'[j].state = "in_progress",
         grants'[j] = grants[j]
  PROVE  Holds(jobs[j], Len(grants[j])) /\ jobs[j].pod = jobs'[j].pod
<1>1. /\ RowInv(jobs[j], grants[j]) /\ RowInv(jobs'[j], grants'[j])
      /\ RowMove(jobs[j], jobs'[j])
  BY NextRows DEF IInv, RowsStep, RowStep
<1>2. jobs'[j].attempts = jobs[j].attempts /\ jobs[j].attempts \in Nat
  BY <1>1 DEF RowInv, Capped, Row
<1>3. jobs[j].state = "in_progress"
  BY <1>1, <1>2 DEF RowMove, StatusOf, Lifecycle!Move, Lifecycle!Accept,
       Lifecycle!Dispatch, Lifecycle!Return, Lifecycle!Finish, Lifecycle!Withdraw,
       Lifecycle!Outcomes, RowInv, Row
<1> QED BY <1>1, <1>3 DEF RowInv, Fenced, Holds

\* A result that is accepted ends the job, or queues it again.
LEMMA ReportEnds ==
  ASSUME IInv, NEW j \in Jobs, NEW l,
         \/ ResultCompleted(j, l) \/ ResultCancelled(j, l) \/ ResultRetried(j, l)
         \/ \E retryable \in BOOLEAN : ResultFailed(j, l, retryable)
  PROVE  jobs'[j].state # "in_progress"
<1>1. jobs \in [Jobs -> Row] /\ jobs[j] \in Row /\ Holds(jobs[j], l)
  BY DEF IInv, TypeOK, ResultCompleted, ResultCancelled, ResultRetried, ResultFailed, ResultAccepted
<1>2. \/ jobs'[j] = Complete(jobs[j], l) \/ jobs'[j] = MarkCancelled(jobs[j], l)
      \/ jobs'[j] = Requeue(jobs[j], l) \/ jobs'[j] = Fail(jobs[j], l)
  BY <1>1 DEF ResultCompleted, ResultCancelled, ResultRetried, ResultFailed
<1>3. \A s : Finished(jobs[j], s).state = s
  BY <1>1 DEF Finished, Row
<1>4. Requeue(jobs[j], l).state = "queued"
  BY <1>1 DEF Requeue, Owned, Holds, Row
<1> QED BY <1>1, <1>2, <1>3, <1>4 DEF Complete, MarkCancelled, Fail, Owned, Holds

\* While its first lease lasts, and no call is lost, a task goes on.
LEMMA TaskGoesOn ==
  ASSUME AInv, [Next]_vars, faults \in Nat, faults' = faults,
         NEW q \in Pods, NEW i \in Jobs, RunStep(q, i),
         NEW p \in Pods, NEW j \in Jobs, Given(p, j), Given(p, j)', grants'[j] = grants[j],
         held[p][j].phase # "none"
  PROVE  held'[p][j].phase # "none"
<1> DEFINE h == held[p][j]
<1>a. held \in [Pods -> [Jobs -> Task]] /\ h \in Task /\ IInv
  BY DEF AInv, AgentsTyped
<1>1. CASE ~(q = p /\ i = j)
  <2>1. PICK new \in Task : held' = [held EXCEPT ![q][i] = new]
    BY RunStepMoves DEF TaskMoves
  <2>2. held'[p][j] = held[p][j]
    BY <1>a, <1>1, <2>1
  <2> QED BY <2>2
<1>2. CASE q = p /\ i = j
  <2>1. Current(p, j)
    <3>1. h.lease \in 1..1
      BY DEF AInv, TasksGranted, Granted, Given
    <3>2. Holds(jobs[j], 1)
      BY <1>a, SameHolder DEF Given
    <3> QED BY <3>1, <3>2 DEF Current
  <2>2. \A x : (held' = [held EXCEPT ![p][j] = x]) => held'[p][j] = x
    BY <1>a
  <2>3. ~ReportAccepted(p, j)
    BY <1>a, ReportEnds DEF ReportAccepted, Given
  <2>4. ~ReportLost(p, j)
    BY DEF ReportLost, Fault
  <2>5. \A result : Reporting(h, result).phase = "reporting"
    BY <1>a DEF Reporting, Task
  <2>6. \A x : [h EXCEPT !.phase = x].phase = x
    BY <1>a DEF Task
  <2> HIDE DEF h
  <2>7. CASE FetchInput(p, j)
    BY <2>1, <2>2, <2>5, <2>6, <2>7 DEF FetchInput, SetHeld, h
  <2>8. CASE Generated(p, j) \/ Upload(p, j)
    BY <2>1, <2>2, <2>5, <2>6, <2>8 DEF Generated, Upload, SetHeld, h
  <2>9. CASE Abandoned(p, j) \/ \E result \in {"retryable", "fatal"} : RunFails(p, j, result)
    BY <2>2, <2>5, <2>9 DEF Abandoned, RunFails, SetHeld, h
  <2>10. ~ReportRefused(p, j)
    BY <2>1 DEF ReportRefused
  <2> QED BY <1>2, <2>3, <2>4, <2>7, <2>8, <2>9, <2>10 DEF RunStep
<1> QED BY <1>1, <1>2

\* An agent keeps its tasks when it hears from the gateway, and starts what it is
\* offered unless it has a task of that job.
LEMMA OfferStarts ==
  ASSUME AInv, NEW r \in Polls, Deliver(r), NEW p \in Pods, p = conns[r].pod, NEW j \in Jobs,
         held[p][j].phase # "none" \/ \E a \in conns[r].assign : a[1] = j
  PROVE  held'[p][j].phase # "none"
<1> DEFINE c == conns[r]
           flagged == FlagCancelled(held[p], c.orphan \cup c.cancel)
           offers == {a \in c.assign : a[1] = j}
<1>1. held \in [Pods -> [Jobs -> Task]] /\ held[p][j] \in Task
  BY DEF AInv, AgentsTyped
<1>2. flagged[j].phase = held[p][j].phase
  BY <1>1 DEF FlagCancelled, Task
<1>3. held'[p] = StartAssigned(flagged, c.assign)
  BY <1>1 DEF Deliver
<1> HIDE DEF flagged, c
<1>4. \A l : [NotHeld EXCEPT !.phase = "fetching", !.lease = l].phase = "fetching"
  BY DEF NotHeld
<1>5. CASE flagged[j].phase # "none"
  BY <1>3, <1>5 DEF StartAssigned
<1>6. CASE flagged[j].phase = "none"
  <2>1. offers # {}
    BY <1>2, <1>6 DEF c
  <2>2. held'[p][j] = [NotHeld EXCEPT !.phase = "fetching",
                                      !.lease = (CHOOSE a \in offers : TRUE)[2]]
    BY <1>3, <1>6, <2>1 DEF StartAssigned
  <2> QED BY <1>4, <2>2
<1> QED BY <1>5, <1>6

\* A grant is written into the answer of the same step, which the request of its
\* pod then carries back.
LEMMA GrantIsAnswered ==
  ASSUME AInv, [AgentsNext]_allVars, NEW p \in Pods, NEW j \in Jobs,
         Given(p, j)', grants'[j] # grants[j]
  PROVE  \E r \in Polls :
           /\ PollArrives(r) \/ PollAnswered(r)
           /\ conns[r].st # "free" /\ conns[r].pod = p
           /\ conns'[r].st = "replied" /\ \E a \in conns'[r].assign : a[1] = j
<1>a. /\ [Next]_vars /\ IInv /\ IInv' /\ conns \in [Polls -> Conn]
      /\ polls \in [Polls -> PollRecord]
  BY AgentsStepGateway, NextIInv DEF AInv, AgentsTyped, IInv, TypeOK
<1>b. j \in Assigned
  BY DEF Assigned
<1>c. grants'[j][Len(grants'[j])] = p
  BY <1>a DEF Given, IInv, RowInv, Fenced
<1> DEFINE given == {<<i, Len(grants'[i])>> : i \in Assigned}
<1>d. PICK pair \in given : pair[1] = j /\ pair[2] = Len(grants'[j])
  <2>1. <<j, Len(grants'[j])>> \in given
    BY <1>b
  <2> HIDE DEF given
  <2> QED BY <2>1
<1>1. ASSUME NEW r \in Polls, PollArrives(r)
      PROVE  /\ conns[r].st # "free" /\ conns[r].pod = p
             /\ conns'[r].st = "replied" /\ \E a \in conns'[r].assign : a[1] = j
  <2> DEFINE c == conns[r]
             next == IF polls'[r].st = "parked" THEN "serving" ELSE "replied"
             new == [FreeConn EXCEPT !.st = next, !.pod = c.pod, !.orphan = Orphans(c),
                                     !.cancel = Cancels(c), !.assign = given]
  <2>1. conns' = [conns EXCEPT ![r] = new]
    BY <1>1 DEF PollArrives
  <2>2. PICK q \in Pods : q = c.pod /\ Poll(r, q, c.ready, c.report)
    BY <1>1, ArrivalIsPoll
  <2>a. \A a \in given : Granted(q, a[1], a[2])'
    BY <1>a, <1>1, <2>2, ArrivalAssigns
  <2>b. Granted(q, pair[1], pair[2])'
    BY <1>d, <2>a
  <2>3. q = p
    BY <1>c, <1>d, <2>b DEF Granted
  <2>4. polls'[r].st # "parked"
    <3>1. CASE polls' = polls
      BY <2>2, <3>1 DEF Poll
    <3>2. CASE polls' # polls
      <4>1. grants' = GrantAll({}, q)
        BY <2>2, <3>2 DEF Poll
      <4> QED BY <4>1 DEF GrantAll
    <3> QED BY <3>1, <3>2
  <2>5. new.st = next /\ new.assign = given
    BY DEF FreeConn
  <2>6. conns'[r] = new
    BY <1>a, <2>1
  <2> HIDE DEF new, given
  <2>7. conns'[r].st = "replied" /\ conns'[r].assign = given
    BY <2>4, <2>5, <2>6
  <2> QED BY <1>1, <1>d, <2>2, <2>3, <2>7 DEF PollArrives
<1>2. ASSUME NEW r \in Polls, PollAnswered(r)
      PROVE  /\ conns[r].st # "free" /\ conns[r].pod = p
             /\ conns'[r].st = "replied" /\ \E a \in conns'[r].assign : a[1] = j
  <2> DEFINE new == [conns[r] EXCEPT !.assign = given, !.st = "replied"]
  <2>1. conns' = [conns EXCEPT ![r] = new]
    BY <1>a, <1>2 DEF PollAnswered
  <2>2. PICK q \in Pods : q = conns[r].pod
    BY <1>2 DEF PollAnswered, PollWoken, PollTimeout, AInv, EndsMeet, AgentsTyped
  <2>3. conns[r].st = "serving" /\ \A a \in given : Granted(q, a[1], a[2])'
    BY <1>a, <1>2, <2>2, AnswerAssigns
  <2>b. Granted(q, pair[1], pair[2])'
    BY <1>d, <2>3
  <2>4. q = p
    BY <1>c, <1>d, <2>b DEF Granted
  <2>5. new.st = "replied" /\ new.assign = given
    BY <1>a DEF Conn
  <2>6. conns'[r] = new
    BY <1>a, <2>1
  <2> HIDE DEF new, given
  <2> QED BY <1>d, <2>2, <2>3, <2>4, <2>5, <2>6
<1>3. \E r \in Polls : PollArrives(r) \/ PollAnswered(r)
  <2>1. CASE PollStep
    BY <2>1 DEF PollStep, SendPoll, Deliver, DropPoll, GiveUpPoll, RestartAgent, vars
  <2>2. CASE \E q \in Pods, i \in Jobs : RunStep(q, i)
    BY <2>2 DEF RunStep, FetchInput, Generated, Abandoned, Upload, RunFails, ReportAccepted,
                ReportRefused, ReportLost, ResultCompleted, ResultCancelled, ResultRetried,
                ResultFailed, vars
  <2>3. CASE GatewayAlone \/ GatewayStops \/ GatewayEnds
    BY <2>3 DEF GatewayAlone, GatewayStops, GatewayEnds, SubmitBegin, Delete, SubmitCommit,
                ResultSettled, Sweep, Start, Tick, Stop, Exit, Crash, Halt
  <2>4. CASE UNCHANGED allVars
    BY <2>4 DEF allVars, vars
  <2> QED BY <2>1, <2>2, <2>3, <2>4 DEF AgentsNext
<1> QED BY <1>1, <1>2, <1>3

\* The steps in which nothing is lost: no fault, and no end of the gateway.
Lossless ==
  /\ [AgentsNext]_allVars
  /\ faults \in Nat /\ faults' = faults /\ restarts' = restarts

\* Such a step is one of these.
LEMMA LosslessParts ==
  ASSUME AInv, Lossless
  PROVE  \/ \E p \in Pods, r \in Polls, ready \in BOOLEAN : SendPoll(p, r, ready)
         \/ \E r \in Polls : PollArrives(r) \/ PollAnswered(r) \/ Deliver(r) \/ DropPoll(r)
         \/ \E p \in Pods, j \in Jobs : RunStep(p, j) /\ UNCHANGED <<polling, conns>>
         \/ UNCHANGED <<held, polling, conns>>
         \/ GatewayStops
<1>1. \A p \in Pods : ~GiveUpPoll(p) /\ ~RestartAgent(p)
  BY DEF Lossless, GiveUpPoll, RestartAgent, Fault
<1>2. ~GatewayEnds
  BY DEF Lossless, GatewayEnds, Exit, Crash, Halt, AInv, IInv, TypeOK
<1>3. \A p \in Pods, j \in Jobs : RunStep(p, j) => UNCHANGED <<polling, conns>>
  BY RunStepMoves DEF TaskMoves
<1> QED BY <1>1, <1>2, <1>3 DEF Lossless, AgentsNext, PollStep, GatewayAlone, agentVars, allVars

\* Then a request of an agent stays the one it awaits.
LEMMA StillAwaited ==
  ASSUME AInv, Lossless, NEW p \in Pods, CallsAwaited(p)
  PROVE  CallsAwaited(p)'
<1>a. /\ conns \in [Polls -> Conn] /\ polling \in [Pods -> Polls \cup {NoPoll}]
      /\ polls \in [Polls -> PollRecord] /\ FreeConn.st = "free"
  BY DEF AInv, AgentsTyped, IInv, TypeOK, FreeConn
<1> SUFFICES ASSUME NEW s \in Polls, conns'[s].st # "free", conns'[s].pod = p
             PROVE  polling'[p] = s
  BY DEF CallsAwaited
<1>1. ASSUME NEW q \in Pods, NEW r \in Polls, NEW ready \in BOOLEAN, SendPoll(q, r, ready)
      PROVE  polling'[p] = s
  <2>1. /\ polling[q] = NoPoll /\ polling' = [polling EXCEPT ![q] = r]
        /\ \A t \in Polls \ {r} : conns'[t] = conns[t]
    BY <1>1, <1>a DEF SendPoll
  <2>2. conns'[r].pod = q
    BY <1>1, <1>a DEF SendPoll, FreeConn
  <2>3. s # r => polling[p] = s
    BY <2>1 DEF CallsAwaited
  <2> QED BY <1>a, <2>1, <2>2, <2>3, NoPollAssumption
<1>b. ASSUME UNCHANGED polling, conns[s].st # "free", conns'[s].pod = conns[s].pod
      PROVE  polling'[p] = s
  BY <1>b DEF CallsAwaited
<1>2. ASSUME NEW r \in Polls, PollArrives(r)
      PROVE  polling'[p] = s
  <2>1. /\ polling' = polling /\ conns[r].st = "sent" /\ conns'[r].pod = conns[r].pod
        /\ \A t \in Polls \ {r} : conns'[t] = conns[t]
    BY <1>2, <1>a DEF PollArrives, FreeConn
  <2> QED BY <1>b, <2>1
<1>3. ASSUME NEW r \in Polls, PollAnswered(r)
      PROVE  polling'[p] = s
  <2> DEFINE new == [conns[r] EXCEPT !.assign = {<<j, Len(grants'[j])>> : j \in Assigned},
                                     !.st = "replied"]
  <2>1. conns' = [conns EXCEPT ![r] = new] /\ polling' = polling
    BY <1>a, <1>3 DEF PollAnswered
  <2>2. new.pod = conns[r].pod
    BY <1>a DEF Conn
  <2>3. conns[r].st = "serving"
    BY <1>a, <1>3 DEF PollAnswered, PollWoken, PollTimeout, AInv, EndsMeet
  <2> HIDE DEF new
  <2>4. conns'[r] = new /\ \A t \in Polls \ {r} : conns'[t] = conns[t]
    BY <1>a, <2>1
  <2> QED BY <1>b, <2>1, <2>2, <2>3, <2>4
<1>4. ASSUME NEW r \in Polls, Deliver(r)
      PROVE  polling'[p] = s
  <2>1. PICK q \in Pods : /\ q = conns[r].pod /\ polling[q] = r
                          /\ polling' = [polling EXCEPT ![q] = NoPoll]
                          /\ conns' = [conns EXCEPT ![r] = FreeConn]
    BY <1>4, DeliveredTasks
  <2>2. s # r /\ conns'[s] = conns[s]
    BY <1>a, <2>1
  <2>3. polling[p] = s
    BY <2>2 DEF CallsAwaited
  <2> QED BY <1>a, <2>1, <2>2, <2>3
<1>5. ASSUME NEW r \in Polls, DropPoll(r)
      PROVE  polling'[p] = s
  <2>1. s # r /\ conns'[s] = conns[s] /\ polling' = polling
    BY <1>5, <1>a DEF DropPoll
  <2> QED BY <1>b, <2>1
<1>6. CASE UNCHANGED <<polling, conns>>
  BY <1>b, <1>6
<1>7. CASE GatewayStops
  <2>1. polling' = polling
        /\ conns'[s] = IF polls[s].st = "parked" THEN [conns[s] EXCEPT !.st = "replied"]
                       ELSE conns[s]
    BY <1>7 DEF GatewayStops
  <2>2. conns'[s].pod = conns[s].pod
    BY <1>a, <2>1 DEF Conn
  <2>3. conns[s].st # "free"
    BY <2>1 DEF AInv, EndsMeet
  <2> QED BY <1>b, <2>1, <2>2, <2>3
<1> QED BY <1>1, <1>2, <1>3, <1>4, <1>5, <1>6, <1>7, LosslessParts

\* And a job is on its way to its pod or there, until it ends or is given away.
LEMMA StillCarried ==
  ASSUME AInv, Lossless, NEW p \in Pods, CallsAwaited(p), JobsCarried(p)
  PROVE  JobsCarried(p)'
<1>a. /\ conns \in [Polls -> Conn] /\ polling \in [Pods -> Polls \cup {NoPoll}]
      /\ polls \in [Polls -> PollRecord] /\ FreeConn.st = "free" /\ [Next]_vars /\ IInv
  BY AgentsStepGateway DEF AInv, AgentsTyped, IInv, TypeOK, FreeConn, Lossless
<1> SUFFICES ASSUME NEW j \in Jobs, Given(p, j)'
             PROVE  Carried(p, j)'
  BY DEF JobsCarried
<1>1. CASE grants'[j] # grants[j]
  <2>1. PICK r \in Polls :
           /\ PollArrives(r) \/ PollAnswered(r)
           /\ conns[r].st # "free" /\ conns[r].pod = p
           /\ conns'[r].st = "replied" /\ \E a \in conns'[r].assign : a[1] = j
    BY <1>1, GrantIsAnswered DEF Lossless
  <2>2. polling'[p] = r
    BY <2>1 DEF CallsAwaited, PollArrives, PollAnswered
  <2> QED BY <2>1, <2>2 DEF Carried
<1>2. CASE grants'[j] = grants[j]
  <2>1. Given(p, j) /\ Carried(p, j)
    BY <1>a, <1>2, SameHolder DEF Given, Holds, JobsCarried
  <2>2. CASE held[p][j].phase # "none"
    <3>1. ASSUME NEW r \in Polls, Deliver(r)
          PROVE  held'[p][j].phase # "none"
      <4>1. PICK q \in Pods : q = conns[r].pod /\ \A o \in Pods \ {q} : held'[o] = held[o]
        BY <3>1, DeliveredTasks
      <4>2. q = p => held'[p][j].phase # "none"
        BY <2>2, <3>1, <4>1, OfferStarts
      <4> QED BY <2>2, <4>1, <4>2
    <3>2. ASSUME NEW q \in Pods, NEW i \in Jobs, RunStep(q, i)
          PROVE  held'[p][j].phase # "none"
      BY <1>a, <1>2, <2>1, <2>2, <3>2, TaskGoesOn DEF Lossless
    <3>3. held' = held => held'[p][j].phase # "none"
      BY <2>2
    <3>4. held'[p][j].phase # "none"
      BY <3>1, <3>2, <3>3, LosslessParts DEF SendPoll, PollArrives, PollAnswered, DropPoll,
         GatewayStops
    <3> QED BY <3>4 DEF Carried
  <2>3. ASSUME NEW s \in Polls, polling[p] = s, conns[s].st = "replied",
               \E a \in conns[s].assign : a[1] = j
        PROVE  Carried(p, j)'
    <3>a. conns[s].pod = p /\ polls[s].st = "idle"
      BY <2>3, NoPollAssumption DEF AInv, EndsMeet
    <3>b. ASSUME polling'[p] = s, conns'[s] = conns[s]
          PROVE  Carried(p, j)'
      BY <2>3, <3>b DEF Carried
    <3>1. ASSUME NEW q \in Pods, NEW r \in Polls, NEW ready \in BOOLEAN, SendPoll(q, r, ready)
          PROVE  polling'[p] = s /\ conns'[s] = conns[s]
      BY <1>a, <2>3, <3>1, NoPollAssumption DEF SendPoll
    <3>2. ASSUME NEW r \in Polls, PollArrives(r) \/ PollAnswered(r) \/ DropPoll(r)
          PROVE  polling'[p] = s /\ conns'[s] = conns[s]
      <4>1. r # s
        BY <2>3, <3>2, <3>a DEF PollArrives, PollAnswered, PollWoken, PollTimeout, DropPoll
      <4>2. polling' = polling /\ \A t \in Polls \ {r} : conns'[t] = conns[t]
        BY <1>a, <3>2 DEF PollArrives, PollAnswered, DropPoll
      <4> QED BY <2>3, <4>1, <4>2
    <3>3. ASSUME NEW r \in Polls, Deliver(r)
          PROVE  Carried(p, j)'
      <4>1. PICK q \in Pods : /\ q = conns[r].pod /\ polling[q] = r
                              /\ polling' = [polling EXCEPT ![q] = NoPoll]
                              /\ conns' = [conns EXCEPT ![r] = FreeConn]
        BY <3>3, DeliveredTasks
      <4>2. CASE r = s
        <5>1. held'[p][j].phase # "none"
          BY <2>3, <3>3, <3>a, <4>2, OfferStarts
        <5> QED BY <5>1 DEF Carried
      <4>3. CASE r # s
        <5>1. q # p
          BY <2>3, <4>1, <4>3
        <5>2. polling'[p] = s /\ conns'[s] = conns[s]
          BY <1>a, <2>3, <4>1, <4>3, <5>1
        <5> QED BY <3>b, <5>2
      <4> QED BY <4>2, <4>3
    <3>4. CASE UNCHANGED <<polling, conns>>
      BY <2>3, <3>4, <3>b
    <3>5. CASE GatewayStops
      BY <2>3, <3>5, <3>a, <3>b DEF GatewayStops
    <3> QED BY <3>1, <3>2, <3>3, <3>4, <3>5, <3>b, LosslessParts
  <2> QED BY <2>1, <2>2, <2>3 DEF Carried
<1> QED BY <1>1, <1>2

-----------------------------------------------------------------------------
(* The containers *)

\* Faults and restarts are counted up.
LEMMA CountsGrow ==
  ASSUME CInv, [ContainerNext]_podVars
  PROVE  /\ faults' \in Nat /\ faults' \in {faults, faults + 1}
         /\ restarts \in Nat /\ restarts' \in Nat /\ restarts' >= restarts
<1>a. AInv /\ AInv' /\ [Next]_vars /\ faults \in Nat /\ restarts \in Nat /\ restarts' \in Nat
  BY ContainerAInv DEF CInv, ContainerTyped, AInv, IInv, TypeOK
<1>1. restarts' \in {restarts, restarts + 1}
  <2>1. CASE AgentStep
    BY <2>1 DEF AgentStep, Poll, ResultCompleted, ResultCancelled, ResultRetried, ResultFailed
  <2>2. CASE ClientStep
    BY <2>2 DEF ClientStep, SubmitBegin, Delete, SetDraining
  <2>3. CASE GatewayStep
    BY <2>3 DEF GatewayStep, PollWoken, PollTimeout, SubmitCommit, ResultSettled, Sweep
  <2>4. CASE ProcessStep
    BY <2>4 DEF ProcessStep, Stop, Exit, Crash, Halt, Start, Tick
  <2> QED BY <1>a, <2>1, <2>2, <2>3, <2>4 DEF Next, vars
<1>2. faults' \in {faults, faults + 1}
  <2>1. ASSUME NEW p \in Pods, ContainerStep(p)
        PROVE  faults' \in {faults, faults + 1}
    BY <2>1 DEF ContainerStep, ForkServer, ForkAgent, Track, Signal, ChildExited, ContainerExits,
         ContainerStarts, ServerEnds, AgentCrashes, AgentDrains, AgentExits, LastCycleFails,
         PodPolls, SendPoll, RestartAgent, Fault, allVars, agentVars
  <2>2. ASSUME NEW p \in Pods, NEW j \in Jobs, PodRuns(p, j)
        PROVE  faults' \in {faults, faults + 1}
    BY <2>2 DEF PodRuns, RunStep, FetchInput, Generated, Abandoned, Upload, RunFails,
         ReportAccepted, ReportRefused, ReportLost, Fault
  <2>3. CASE AgentsAsIs
    BY <2>3 DEF AgentsAsIs, PollArrives, PollAnswered, Deliver, DropPoll, GiveUpPoll, Fault,
         GatewayAlone, GatewayStops, GatewayEnds, agentVars
  <2>4. CASE UNCHANGED podVars
    BY <2>4 DEF podVars, allVars, agentVars
  <2> QED BY <2>1, <2>2, <2>3, <2>4 DEF ContainerNext
<1> QED BY <1>a, <1>1, <1>2

\* What a step of p's container leaves as it is elsewhere.
SameContainer(q) ==
  /\ shell'[q] = shell[q] /\ server'[q] = server[q] /\ agent'[q] = agent[q]
  /\ tracked'[q] = tracked[q] /\ (q \in cut' <=> q \in cut)

LEMMA NextContainer ==
  ASSUME ContainerTyped, faults' \in Nat, [ContainerNext]_podVars
  PROVE  /\ ContainerTyped'
         /\ \A p, q \in Pods : ContainerStep(p) /\ p # q => SameContainer(q)
<1>1. ASSUME NEW p \in Pods, ContainerStep(p)
      PROVE  ContainerTyped' /\ \A q \in Pods \ {p} : SameContainer(q)
  <2>1. CASE ForkServer(p) \/ ForkAgent(p) \/ ContainerExits(p)
    BY <2>1 DEF ForkServer, ForkAgent, ContainerExits, ContainerTyped, SameContainer
  <2>6. CASE Track(p)
    <3>1. \A x \in {"sglang", "agent"} :
            LET next == [tracked EXCEPT ![p] = @ \cup {x}]
            IN next \in [Pods -> SUBSET Children] /\ \A q \in Pods \ {p} : next[q] = tracked[q]
      BY DEF ContainerTyped, Children
    <3>2. \E x \in {"sglang", "agent"} : tracked' = [tracked EXCEPT ![p] = @ \cup {x}]
      BY <2>6 DEF Track
    <3> QED BY <2>6, <3>1, <3>2 DEF Track, ContainerTyped, SameContainer
  <2>7. CASE ContainerStarts(p)
    BY <2>7 DEF ContainerStarts, ContainerTyped, SameContainer
  <2>2. ASSUME TerminateAll(p)
        PROVE  ContainerTyped' /\ \A q \in Pods \ {p} : SameContainer(q)
    <3>1. \/ agent' = [agent EXCEPT ![p] = IF @ = "up" THEN "stopping" ELSE @]
          \/ agent' = [agent EXCEPT ![p] = "last"]
          \/ agent' = agent
      BY <2>2 DEF TerminateAll, TermAgent
    <3>2. /\ agent' \in [Pods -> {"none", "up", "last", "stopping", "draining", "dead"}]
          /\ \A q \in Pods \ {p} : agent'[q] = agent[q]
      BY <3>1 DEF ContainerTyped
    <3>3. /\ server' \in [Pods -> {"none", "up", "stopping", "dead"}]
          /\ \A q \in Pods \ {p} : server'[q] = server[q]
      BY <2>2 DEF TerminateAll, ContainerTyped
    <3> QED BY <2>2, <3>2, <3>3 DEF TerminateAll, ContainerTyped, SameContainer
  <2>3. CASE ServerEnds(p) \/ AgentDrains(p) \/ LastCycleFails(p)
    BY <2>3 DEF ServerEnds, AgentDrains, LastCycleFails, ContainerTyped, SameContainer
  <2>4. CASE AgentCrashes(p) \/ AgentExits(p)
    BY <2>4 DEF AgentCrashes, AgentExits, ContainerTyped, SameContainer
  <2>5. CASE \E r \in Polls, ready \in BOOLEAN : PodPolls(p, r, ready)
    BY <2>5 DEF PodPolls, ContainerTyped, SameContainer
  <2> QED BY <1>1, <2>1, <2>2, <2>3, <2>4, <2>5, <2>6, <2>7 DEF ContainerStep, Signal, ChildExited
<1>2. UNCHANGED containerVars => ContainerTyped'
  BY DEF containerVars, ContainerTyped
<1>3. (\E p \in Pods : ContainerStep(p)) \/ UNCHANGED containerVars
  BY DEF ContainerNext, PodRuns, AgentsAsIs, podVars
<1>4. ContainerTyped'
  BY <1>1, <1>2, <1>3
<1>5. ASSUME NEW p \in Pods, NEW q \in Pods, ContainerStep(p), p # q
      PROVE  SameContainer(q)
  <2>1. q \in Pods \ {p}
    BY <1>5
  <2> QED BY <1>1, <1>5, <2>1
<1> QED BY <1>4, <1>5

\* A calm container stays calm until a fault, and one that ended with tasks left
\* counts as such until it starts afresh.
LEMMA CalmLasts ==
  ASSUME CInv, [ContainerNext]_podVars, NEW p \in Pods
  PROVE  /\ Calm(p) /\ faults' = faults => Calm(p)'
         /\ p \in cut => p \in cut' \/ Calm(p)'
<1>a. ContainerTyped /\ faults \in Nat
  BY DEF CInv, ContainerTyped
<1>1. CASE UNCHANGED containerVars
  BY <1>1 DEF containerVars, Calm
<1>2. ASSUME NEW q \in Pods, q # p, ContainerStep(q)
      PROVE  (Calm(p) => Calm(p)') /\ (p \in cut => p \in cut')
  BY <1>a, <1>2, CountsGrow, NextContainer DEF Calm, SameContainer
<1>3. CASE ContainerStep(p)
  <2>1. ContainerStarts(p) => Calm(p)'
    BY <1>a DEF ContainerStarts, ContainerTyped, Calm
  <2>2. ~ContainerStarts(p) => (p \in cut => p \in cut')
    BY <1>3 DEF ContainerStep, ForkServer, ForkAgent, Track, Signal, ChildExited, ContainerExits,
         TerminateAll, ServerEnds, AgentCrashes, AgentDrains, AgentExits, LastCycleFails, PodPolls
  <2>3. ASSUME Calm(p), faults' = faults
        PROVE  Calm(p)'
    <3>1. ~Fault
      BY <1>a, <2>3 DEF Fault
    <3>2. \/ ForkServer(p) \/ ForkAgent(p) \/ Track(p)
          \/ \E r \in Polls, ready \in BOOLEAN : PodPolls(p, r, ready)
      BY <1>3, <2>3, <3>1 DEF ContainerStep, Signal, ChildExited, Dead, ContainerExits,
           ContainerStarts, ServerEnds, AgentCrashes, RestartAgent, AgentDrains, AgentExits,
           LastCycleFails, Calm
    <3> QED BY <1>a, <2>3, <3>2 DEF ForkServer, ForkAgent, Track, PodPolls, ContainerTyped, Calm
  <2> QED BY <2>1, <2>2, <2>3
<1>4. (\E q \in Pods : ContainerStep(q)) \/ UNCHANGED containerVars
  BY DEF ContainerNext, PodRuns, AgentsAsIs, podVars
<1> QED BY <1>1, <1>2, <1>3, <1>4

\* An agent that sleeps stays asleep, and falls asleep with nothing left to do.
LEMMA NextAsleep ==
  ASSUME CInv, [ContainerNext]_podVars
  PROVE  Asleep'
<1>a. /\ ContainerTyped /\ AInv /\ Asleep /\ ContainerTyped' /\ faults' \in Nat
      /\ held \in [Pods -> [Jobs -> Task]] /\ polling \in [Pods -> Polls \cup {NoPoll}]
      /\ NotHeld.phase = "none"
  BY CountsGrow, NextContainer DEF CInv, AInv, AgentsTyped, NotHeld
<1> SUFFICES ASSUME NEW p \in Pods
             PROVE  /\ shell'[p] = "ended" => agent'[p] \in {"none", "dead"}
                    /\ agent'[p] \in {"none", "draining", "dead"} => polling'[p] = NoPoll
                    /\ agent'[p] \in {"none", "dead"} => \A j \in Jobs : held'[p][j] = NotHeld
  BY DEF Asleep
<1> DEFINE Fine == /\ shell'[p] = "ended" => agent'[p] \in {"none", "dead"}
                   /\ agent'[p] \in {"none", "draining", "dead"} => polling'[p] = NoPoll
                   /\ agent'[p] \in {"none", "dead"} => \A j \in Jobs : held'[p][j] = NotHeld
<1>b. /\ shell[p] = "ended" => agent[p] \in {"none", "dead"}
      /\ agent[p] \in {"none", "draining", "dead"} => polling[p] = NoPoll
      /\ agent[p] \in {"none", "dead"} => \A j \in Jobs : held[p][j] = NotHeld
  BY <1>a DEF Asleep
<1>c. ASSUME agent'[p] = agent[p], shell'[p] = shell[p],
             polling'[p] \in {polling[p], NoPoll},
             agent[p] \in {"none", "dead"} => \A j \in Jobs : held'[p][j] = NotHeld
      PROVE  Fine
  BY <1>b, <1>c
<1>1. ASSUME NEW q \in Pods, q # p, ContainerStep(q)
      PROVE  Fine
  <2>1. agent'[p] = agent[p] /\ shell'[p] = shell[p]
    BY <1>a, <1>1, NextContainer DEF SameContainer
  <2>2. polling'[p] = polling[p] /\ held'[p] = held[p]
    BY <1>a, <1>1 DEF ContainerStep, ForkServer, ForkAgent, Track, Signal, ChildExited,
       ContainerExits, ContainerStarts, ServerEnds, AgentCrashes, AgentDrains, AgentExits,
       LastCycleFails, PodPolls, SendPoll, RestartAgent, allVars, agentVars
  <2> QED BY <1>b, <1>c, <2>1, <2>2
<1>2. CASE ContainerStep(p)
  <2>1. CASE ForkServer(p) \/ ForkAgent(p) \/ Track(p) \/ LastCycleFails(p)
    BY <1>a, <1>b, <2>1 DEF ForkServer, ForkAgent, Track, LastCycleFails, ContainerTyped, allVars,
       agentVars
  <2>2. ASSUME TerminateAll(p), UNCHANGED <<held, polling>>
        PROVE  Fine
    <3>1. \/ agent' = [agent EXCEPT ![p] = IF @ = "up" THEN "stopping" ELSE @]
          \/ agent' = [agent EXCEPT ![p] = "last"]
          \/ agent' = agent
      BY <2>2 DEF TerminateAll, TermAgent
    <3>2. agent'[p] \in {agent[p], "stopping", "last"}
      BY <1>a, <3>1 DEF ContainerTyped
    <3>3. shell'[p] = "ending"
      BY <1>a, <2>2 DEF TerminateAll, ContainerTyped
    <3> QED BY <1>b, <2>2, <3>2, <3>3
  <2>3. CASE Signal(p) \/ ChildExited(p)
    BY <2>2, <2>3 DEF Signal, ChildExited, allVars, agentVars
  <2>4. CASE ContainerExits(p)
    BY <1>a, <1>b, <2>4 DEF ContainerExits, ContainerTyped, allVars, agentVars
  <2>5. CASE ContainerStarts(p)
    BY <1>a, <1>b, <2>5 DEF ContainerStarts, ContainerTyped, allVars, agentVars
  <2>6. CASE ServerEnds(p)
    BY <1>b, <2>6 DEF ServerEnds
  <2>7. CASE AgentCrashes(p) \/ AgentExits(p)
    <3>1. agent'[p] = "dead"
      BY <1>a, <2>7 DEF AgentCrashes, AgentExits, ContainerTyped
    <3>2. polling'[p] = NoPoll
      BY <1>a, <1>b, <2>7 DEF AgentCrashes, RestartAgent, AgentExits
    <3>3. held'[p] = [j \in Jobs |-> NotHeld]
      BY <1>a, <2>7 DEF AgentCrashes, RestartAgent, AgentExits
    <3> QED BY <3>1, <3>2, <3>3
  <2>8. CASE AgentDrains(p)
    BY <1>a, <1>b, <2>8 DEF AgentDrains, ContainerTyped, allVars, agentVars
  <2>9. CASE \E r \in Polls, ready \in BOOLEAN : PodPolls(p, r, ready)
    BY <1>a, <1>b, <2>9 DEF PodPolls, ContainerTyped
  <2> QED BY <1>2, <2>1, <2>3, <2>4, <2>5, <2>6, <2>7, <2>8, <2>9 DEF ContainerStep
<1>3. ASSUME NEW q \in Pods, NEW i \in Jobs, PodRuns(q, i)
      PROVE  Fine
  <2>1. PICK new \in Task : Continues(held[q][i], new) /\ held' = [held EXCEPT ![q][i] = new]
    BY <1>a, <1>3, RunStepMoves DEF PodRuns, TaskMoves
  <2>2. polling' = polling
    BY <1>a, <1>3, RunStepMoves DEF PodRuns, TaskMoves
  <2>3. agent[p] \in {"none", "dead"} => \A j \in Jobs : held'[p][j] = NotHeld
    BY <1>a, <1>b, <2>1 DEF Continues
  <2> QED BY <1>3, <1>c, <2>2, <2>3 DEF PodRuns, containerVars
<1>4. CASE AgentsAsIs
  <2>a. agent'[p] = agent[p] /\ shell'[p] = shell[p]
    BY <1>4 DEF AgentsAsIs, containerVars
  <2>b. ASSUME UNCHANGED held, polling'[p] \in {polling[p], NoPoll} PROVE Fine
    BY <1>b, <1>c, <2>a, <2>b
  <2>1. ASSUME NEW r \in Polls, Deliver(r)
        PROVE  Fine
    <3>1. PICK q \in Pods : /\ q = conns[r].pod /\ polling[q] = r
                            /\ polling' = [polling EXCEPT ![q] = NoPoll]
                            /\ \A o \in Pods \ {q} : held'[o] = held[o]
      BY <1>a, <2>1, DeliveredTasks
    <3>2. agent[p] \in {"none", "dead"} => held'[p] = held[p]
      BY <1>b, <3>1, NoPollAssumption
    <3> QED BY <1>a, <1>b, <1>c, <2>a, <3>1, <3>2
  <2>2. CASE \E r \in Polls : PollArrives(r) \/ PollAnswered(r) \/ DropPoll(r)
    BY <2>2, <2>b DEF PollArrives, PollAnswered, DropPoll
  <2>3. CASE \E q \in Pods : GiveUpPoll(q)
    BY <1>a, <2>3, <2>b DEF GiveUpPoll
  <2>4. CASE GatewayAlone \/ GatewayStops \/ GatewayEnds
    BY <1>a, <2>4, <2>b DEF GatewayAlone, GatewayStops, GatewayEnds, agentVars
  <2> QED BY <1>4, <2>1, <2>2, <2>3, <2>4 DEF AgentsAsIs
<1>5. CASE UNCHANGED podVars
  BY <1>b, <1>5 DEF podVars, allVars, agentVars, containerVars
<1> QED BY <1>1, <1>2, <1>3, <1>4, <1>5 DEF ContainerNext

\* The container of p keeps its agent's jobs, or is spoilt.
LEMMA NextCarried ==
  ASSUME CInv, [ContainerNext]_podVars, NEW p \in Pods, ~Spoilt(p)'
  PROVE  CallsAwaited(p)' /\ JobsCarried(p)'
<1>a. /\ AInv /\ faults \in Nat /\ faults' \in Nat /\ faults' \in {faults, faults + 1}
      /\ restarts \in Nat /\ restarts' \in Nat /\ restarts' >= restarts
      /\ held \in [Pods -> [Jobs -> Task]] /\ polling \in [Pods -> Polls \cup {NoPoll}]
  BY CountsGrow DEF CInv, AInv, AgentsTyped, ContainerTyped
<1>b. /\ Calm(p) /\ faults' = faults => Calm(p)'
      /\ p \in cut => p \in cut' \/ Calm(p)'
      /\ faults = 0 => Calm(p)
  BY CalmLasts DEF CInv, CalmBefore
<1>1. ~Spoilt(p) /\ restarts' = restarts
  BY <1>a, <1>b DEF Spoilt
<1>2. CallsAwaited(p) /\ JobsCarried(p)
  BY <1>1 DEF CInv
<1>3. ASSUME [AgentsNext]_allVars, faults' = faults
      PROVE  CallsAwaited(p)' /\ JobsCarried(p)'
  BY <1>a, <1>1, <1>2, <1>3, StillAwaited, StillCarried DEF Lossless
<1>4. ASSUME UNCHANGED <<vars, conns>>, polling'[p] = polling[p], held'[p] = held[p]
      PROVE  CallsAwaited(p)' /\ JobsCarried(p)'
  BY <1>2, <1>4 DEF CallsAwaited, JobsCarried, Given, Carried, vars
<1>5. ASSUME UNCHANGED containerVars, [AgentsNext]_allVars
      PROVE  CallsAwaited(p)' /\ JobsCarried(p)'
  <2>1. Calm(p) => Calm(p)'
    BY <1>5 DEF containerVars, Calm
  <2>2. faults' = faults
    BY <1>a, <1>b, <2>1 DEF Spoilt
  <2> QED BY <1>3, <1>5, <2>2
<1>6. ASSUME NEW q \in Pods, ContainerStep(q)
      PROVE  CallsAwaited(p)' /\ JobsCarried(p)'
  <2>1. CASE \/ ForkServer(q) \/ ForkAgent(q) \/ Track(q) \/ ChildExited(q) \/ ContainerExits(q)
             \/ ContainerStarts(q) \/ AgentDrains(q) \/ LastCycleFails(q)
    BY <1>4, <2>1 DEF ForkServer, ForkAgent, Track, ChildExited, ContainerExits, ContainerStarts,
       AgentDrains, LastCycleFails, allVars, agentVars
  <2>2. CASE Signal(q) \/ ServerEnds(q)
    <3>1. UNCHANGED <<vars, held, polling, conns>>
      BY <2>2 DEF Signal, ServerEnds
    <3> QED BY <1>4, <3>1
  <2>3. CASE \E r \in Polls, ready \in BOOLEAN : PodPolls(q, r, ready)
    <3>1. [AgentsNext]_allVars
      BY <2>3 DEF PodPolls, AgentsNext, PollStep
    <3>2. faults' = faults
      BY <2>3 DEF PodPolls, SendPoll
    <3> QED BY <1>3, <3>1, <3>2
  <2>4. CASE AgentCrashes(q)
    <3>1. q # p
      BY <1>a, <2>4 DEF AgentCrashes, RestartAgent, Fault, Spoilt
    <3> QED BY <1>4, <1>a, <2>4, <3>1 DEF AgentCrashes, RestartAgent
  <2>5. CASE AgentExits(q)
    <3>1. CASE q # p
      BY <1>4, <1>a, <2>5, <3>1 DEF AgentExits
    <3>2. CASE q = p
      <4>1. p \notin cut'
        <5>1. faults # 0 /\ faults' = faults
          BY <1>b, <2>5, <3>2 DEF AgentExits, Calm
        <5> QED BY <1>a, <5>1 DEF Spoilt
      <4>2. \A j \in Jobs : held[p][j] = NotHeld
        BY <2>5, <3>2, <4>1 DEF AgentExits
      <4>3. held'[p] = held[p]
        <5>1. held'[p] = [j \in Jobs |-> NotHeld]
          BY <1>a, <2>5, <3>2 DEF AgentExits
        <5>2. held[p] = [j \in Jobs |-> held[p][j]]
          BY <1>a
        <5> QED BY <4>2, <5>1, <5>2
      <4> QED BY <1>4, <2>5, <4>3 DEF AgentExits
    <3> QED BY <3>1, <3>2
  <2> QED BY <1>6, <2>1, <2>2, <2>3, <2>4, <2>5 DEF ContainerStep
<1>7. CASE \E q \in Pods, j \in Jobs : PodRuns(q, j)
  BY <1>5, <1>7 DEF PodRuns, AgentsNext
<1>8. CASE AgentsAsIs
  BY <1>5, <1>8 DEF AgentsAsIs, AgentsNext, PollStep
<1>9. CASE UNCHANGED podVars
  BY <1>5, <1>9 DEF podVars
<1> QED BY <1>6, <1>7, <1>8, <1>9 DEF ContainerNext

-----------------------------------------------------------------------------
(* The theorems *)

\* The container before its first step.
LEMMA InitCInv == ContainerInit => CInv
<1> SUFFICES ASSUME ContainerInit PROVE CInv
  OBVIOUS
<1>1. AInv /\ AgentsInit /\ faults = 0
  BY InitAInv DEF ContainerInit, AgentsInit
<1>2. ContainerTyped /\ CalmBefore /\ Asleep
  BY <1>1 DEF ContainerInit, AgentsInit, ContainerTyped, CalmBefore, Calm, Asleep
<1>3. \A p \in Pods : CallsAwaited(p) /\ JobsCarried(p)
  BY <1>1 DEF AgentsInit, Init, CallsAwaited, JobsCarried, Given, FreeConn, AbsentRow
<1> QED BY <1>1, <1>2, <1>3 DEF CInv

\* Every step keeps the invariant.
LEMMA NextCInv ==
  ASSUME CInv, [ContainerNext]_podVars
  PROVE  CInv'
<1>1. AInv'
  BY ContainerAInv DEF CInv
<1>2. ContainerTyped'
  BY CountsGrow, NextContainer DEF CInv
<1>3. CalmBefore'
  <2>1. faults \in Nat /\ faults' \in {faults, faults + 1}
    BY CountsGrow DEF CInv, ContainerTyped
  <2>2. ASSUME faults' = 0, NEW p \in Pods PROVE Calm(p)'
    BY <2>1, <2>2, CalmLasts DEF CInv, CalmBefore
  <2> QED BY <2>2 DEF CalmBefore
<1>4. \A p \in Pods : (~Spoilt(p) => CallsAwaited(p) /\ JobsCarried(p))'
  BY NextCarried
<1> QED BY <1>1, <1>2, <1>3, <1>4, NextAsleep DEF CInv

\* The invariant of the containers holds.
LEMMA ContainersInductive == ContainerSpec => []CInv
BY InitCInv, NextCInv, PTL DEF ContainerSpec

\* However its agents are started, signalled, drained and killed, the gateway
\* behaves as module Gateway says, so every theorem about Spec holds of it.
THEOREM ContainersImplementGateway == ContainerSpec => Spec
<1>1. ContainerInit => Init
  BY DEF ContainerInit, AgentsInit
<1>2. CInv /\ [ContainerNext]_podVars => [Next]_vars
  BY ContainerAInv DEF CInv
<1> QED BY <1>1, <1>2, ContainersInductive, PTL DEF ContainerSpec, Spec

\* client.py:190: an agent that ends within its 30 seconds leaves no job behind,
\* for any number of pods and jobs, whatever the orders of polls, grants,
\* answers and reports, and wherever in its cycle SIGTERM finds it.
THEOREM ExitsAreClean == ContainerSpec => []CleanExit
<1>1. CInv => CleanExit
  <2> SUFFICES ASSUME CInv, NEW p \in Pods, NEW j \in Jobs,
                      agent[p] = "dead", p \notin cut, faults = 1, restarts = 0,
                      Len(grants[j]) = 1, jobs[j].state = "in_progress", jobs[j].pod = p
               PROVE  FALSE
    BY DEF CleanExit
  <2>1. Carried(p, j)
    BY DEF CInv, Spoilt, Calm, JobsCarried, Given
  <2>2. polling[p] = NoPoll /\ held[p][j].phase = "none"
    BY DEF CInv, Asleep, NotHeld
  <2> QED BY <2>1, <2>2, NoPollAssumption DEF Carried
<1> QED BY <1>1, ContainersInductive, PTL
=============================================================================
