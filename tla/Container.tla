------------------------------- MODULE Container ------------------------------
(***************************************************************************)
(* The container around an agent: docker-entrypoint.sh forks SGLang and    *)
(* the agent, watches both and ends with the first of them, or when the    *)
(* provider sends SIGTERM.  The agent then ends its poll cycle and waits   *)
(* for its tasks (client.py, run and _drain).  Composes with Agents, whose *)
(* RestartAgent is taken apart here into the ways an agent really ends.    *)
(***************************************************************************)
EXTENDS Agents

VARIABLES
  shell,   \* where the entrypoint is
  tracked, \* the pids array
  server,  \* SGLang: "none", "up", "stopping" or "dead"
  agent,   \* the agent process: also "last" and "draining", see below
  cut      \* history: pods whose agent ended with tasks that were not done

containerVars == <<shell, tracked, server, agent, cut>>
podVars == <<allVars, containerVars>>

Children == {"sglang", "agent"}

ContainerInit ==
  /\ AgentsInit
  /\ shell = [p \in Pods |-> "boot"] /\ tracked = [p \in Pods |-> {}]
  /\ server = [p \in Pods |-> "none"] /\ agent = [p \in Pods |-> "none"]
  /\ cut = {}

Dead(p, child) == IF child = "sglang" THEN server[p] = "dead" ELSE agent[p] = "dead"

-----------------------------------------------------------------------------
(* The entrypoint *)

\* start: the fork, and the line after it.  A trap may run between the two.
ForkServer(p) ==
  /\ shell[p] = "boot"
  /\ shell' = [shell EXCEPT ![p] = "forked server"]
  /\ server' = [server EXCEPT ![p] = "up"]
  /\ UNCHANGED <<allVars, tracked, agent, cut>>

ForkAgent(p) ==
  /\ shell[p] = "server"
  /\ shell' = [shell EXCEPT ![p] = "forked agent"]
  /\ agent' = [agent EXCEPT ![p] = "up"]
  /\ UNCHANGED <<allVars, tracked, server, cut>>

Track(p) ==
  /\ \/ /\ shell[p] = "forked server"
        /\ shell' = [shell EXCEPT ![p] = "server"]
        /\ tracked' = [tracked EXCEPT ![p] = @ \cup {"sglang"}]
     \/ /\ shell[p] = "forked agent"
        /\ shell' = [shell EXCEPT ![p] = "watching"]
        /\ tracked' = [tracked EXCEPT ![p] = @ \cup {"agent"}]
  /\ UNCHANGED <<allVars, server, agent, cut>>

\* The agent sets its stop flag.  "last": between the readiness check and the
\* request of a cycle, so that one more poll is sent.
TermAgent(p) ==
  \/ agent' = [agent EXCEPT ![p] = IF @ = "up" THEN "stopping" ELSE @]
  \/ /\ agent[p] = "up" /\ polling[p] = NoPoll
     /\ agent' = [agent EXCEPT ![p] = "last"]

\* terminate_all: SIGTERM to the children in the array, then wait for all.
TerminateAll(p) ==
  /\ shell' = [shell EXCEPT ![p] = "ending"]
  /\ server' = [server EXCEPT ![p] = IF @ = "up" /\ "sglang" \in tracked[p]
                                     THEN "stopping" ELSE @]
  /\ IF "agent" \in tracked[p] THEN TermAgent(p) ELSE UNCHANGED agent
  /\ UNCHANGED <<tracked, cut>>

Signal(p) ==
  /\ Fault
  /\ shell[p] \notin {"ending", "ended"}
  /\ TerminateAll(p)
  /\ UNCHANGED <<vars, held, polling, conns, accepted>>

\* Faulty form: the loop looks at the agent only.
ChildExitedAgent(p) ==
  /\ shell[p] = "watching" /\ Dead(p, "agent")
  /\ TerminateAll(p)
  /\ UNCHANGED allVars

ChildExited(p) ==
  /\ shell[p] = "watching" /\ \E child \in tracked[p] : Dead(p, child)
  /\ TerminateAll(p)
  /\ UNCHANGED allVars

\* wait returned: no child is left.  The provider starts the container again.
ContainerExits(p) ==
  /\ shell[p] = "ending" /\ server[p] \in {"none", "dead"} /\ agent[p] \in {"none", "dead"}
  /\ shell' = [shell EXCEPT ![p] = "ended"]
  /\ UNCHANGED <<allVars, tracked, server, agent, cut>>

ContainerStarts(p) ==
  /\ shell[p] = "ended"
  /\ shell' = [shell EXCEPT ![p] = "boot"]
  /\ tracked' = [tracked EXCEPT ![p] = {}]
  /\ server' = [server EXCEPT ![p] = "none"]
  /\ agent' = [agent EXCEPT ![p] = "none"]
  /\ cut' = cut \ {p}
  /\ UNCHANGED allVars

-----------------------------------------------------------------------------
(* The children *)

ServerEnds(p) ==
  /\ \/ server[p] = "stopping" /\ faults' = faults
     \/ server[p] = "up" /\ Fault
  /\ server' = [server EXCEPT ![p] = "dead"]
  /\ UNCHANGED <<vars, held, polling, conns, accepted, shell, tracked, agent, cut>>

AgentCrashes(p) ==
  /\ agent[p] \notin {"none", "dead"}
  /\ RestartAgent(p)
  /\ agent' = [agent EXCEPT ![p] = "dead"]
  /\ cut' = cut \cup {p}
  /\ UNCHANGED <<shell, tracked, server>>

\* Faulty form: the agent does not wait for the answer to its last poll.
AgentDrainsAtOnce(p) ==
  /\ agent[p] = "stopping"
  /\ agent' = [agent EXCEPT ![p] = "draining"]
  /\ polling' = [polling EXCEPT ![p] = NoPoll]
  /\ UNCHANGED <<vars, held, conns, accepted, faults, shell, tracked, server, cut>>

\* The cycle in progress is over, and with it the loop.
AgentDrains(p) ==
  /\ agent[p] = "stopping" /\ polling[p] = NoPoll
  /\ agent' = [agent EXCEPT ![p] = "draining"]
  /\ UNCHANGED <<allVars, shell, tracked, server, cut>>

\* _drain: no task is left, or 30 seconds are over and the rest is cancelled.
AgentExits(p) ==
  LET idle == \A j \in Jobs : held[p][j] = NotHeld IN
  /\ agent[p] = "draining"
  /\ agent' = [agent EXCEPT ![p] = "dead"]
  /\ held' = [held EXCEPT ![p] = [j \in Jobs |-> NotHeld]]
  /\ cut' = IF idle THEN cut ELSE cut \cup {p}
  /\ UNCHANGED <<vars, polling, conns, accepted, faults, shell, tracked, server>>

\* A running agent polls, and reports ready only while SGLang answers.
PodPolls(p, r, ready) ==
  /\ agent[p] \in {"up", "last"} /\ (ready => server[p] # "dead")
  /\ SendPoll(p, r, ready)
  /\ agent' = [agent EXCEPT ![p] = IF @ = "last" THEN "stopping" ELSE @]
  /\ UNCHANGED <<shell, tracked, server, cut>>

\* A cycle that was going to poll may find the loop's error path instead.
LastCycleFails(p) ==
  /\ agent[p] = "last"
  /\ agent' = [agent EXCEPT ![p] = "stopping"]
  /\ UNCHANGED <<allVars, shell, tracked, server, cut>>

\* SGLang's part of a task needs SGLang.
PodRuns(p, j) ==
  /\ RunStep(p, j)
  /\ Generated(p, j) => server[p] # "dead"
  /\ UNCHANGED containerVars

AgentsAsIs ==
  /\ \/ \E r \in Polls : PollArrives(r) \/ PollAnswered(r) \/ Deliver(r) \/ DropPoll(r)
     \/ \E p \in Pods : GiveUpPoll(p)
     \/ GatewayAlone \/ GatewayStops \/ GatewayEnds
  /\ UNCHANGED containerVars

ContainerStep(p) ==
  \/ ForkServer(p) \/ ForkAgent(p) \/ Track(p)
  \/ Signal(p) \/ ChildExited(p) \/ ContainerExits(p) \/ ContainerStarts(p)
  \/ ServerEnds(p) \/ AgentCrashes(p) \/ AgentDrains(p) \/ AgentExits(p)
  \/ LastCycleFails(p)
  \/ \E r \in Polls, ready \in BOOLEAN : PodPolls(p, r, ready)

ContainerNext ==
  \/ \E p \in Pods : ContainerStep(p) \/ \E j \in Jobs : PodRuns(p, j)
  \/ AgentsAsIs

ContainerSpec == ContainerInit /\ [][ContainerNext]_podVars

\* What a task does next of itself: without its server it fails.
PodProgress(p, j) ==
  /\ PodRuns(p, j)
  /\ \/ FetchInput(p, j) \/ Generated(p, j) \/ Upload(p, j)
     \/ ReportAccepted(p, j) \/ ReportRefused(p, j)
     \/ server[p] = "dead" /\ held[p][j].phase = "generating" /\ RunFails(p, j, "retryable")

\* The entrypoint and both processes go on, SGLang and the agent end when they
\* are told to, and a poll is answered (or breaks, with its timeout).
ContainerFairness ==
  /\ Fairness
  /\ \A p \in Pods :
       /\ WF_podVars(ForkServer(p) \/ ForkAgent(p) \/ Track(p))
       /\ WF_podVars(ChildExited(p)) /\ WF_podVars(ContainerExits(p))
       /\ WF_podVars(server[p] = "stopping" /\ ServerEnds(p))
       /\ WF_podVars(LastCycleFails(p)) /\ WF_podVars(AgentDrains(p)) /\ WF_podVars(AgentExits(p))
       /\ \A j \in Jobs : WF_podVars(PodProgress(p, j))
  /\ \A r \in Polls :
       WF_podVars((PollArrives(r) \/ PollAnswered(r) \/ Deliver(r)) /\ UNCHANGED containerVars)

ContainerFairSpec == ContainerSpec /\ ContainerFairness

-----------------------------------------------------------------------------
(* Properties *)

\* docker-entrypoint.sh:46-47, "the first one to exit takes the whole container
\* down": once both processes are in the array, the death of either, or a
\* SIGTERM, ends the container, though the agent is in the middle of a poll, of
\* its drain or of a job.
ContainerEnds ==
  \A p \in Pods :
    (tracked[p] = Children /\ (shell[p] = "ending" \/ \E child \in Children : Dead(p, child)))
      ~> shell[p] = "ended"

\* client.py:190, "let in-flight jobs finish reporting before exiting": an
\* agent that ends within its 30 seconds leaves no job behind, not even one the
\* gateway assigned to the poll that was parked when SIGTERM came.  (No call was
\* lost, the gateway did not restart, and it is the job's first lease: a second
\* one may be dropped, see AssignmentsStart.)
CleanExit ==
  \A p \in Pods, j \in Jobs :
    /\ agent[p] = "dead" /\ p \notin cut
    /\ faults = 1 /\ restarts = 0 /\ phase # "down" /\ Len(grants[j]) = 1
    => ~(jobs[j].state = "in_progress" /\ jobs[j].pod = p)
===============================================================================
