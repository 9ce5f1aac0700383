------------------------------- MODULE Agents -------------------------------
(***************************************************************************)
(* The gateway together with the agents of its pods                        *)
(* (agent/src/nidora_agent/client.py and runner.py).  Each agent is one    *)
(* asyncio loop: a poll cycle that is never concurrent with itself, and    *)
(* one task per accepted job.  A call to the gateway may be lost, its      *)
(* answer may be lost or late, an agent may restart and forget its jobs,   *)
(* and a poll the agent has given up is still served by the gateway.       *)
(*                                                                         *)
(* The gateway's half of every call is the action of module Gateway.       *)
(***************************************************************************)
EXTENDS Gateway

CONSTANTS NoPoll,         \* no poll request outstanding
          ReportAttempts, \* range(1, 4) in _report
          MaxFaults,      \* bound of the model: calls lost and agents restarted
          MaxTrouble      \* bound of the model: those and restarts of the gateway

ASSUME NoPollAssumption == NoPoll \notin Polls

VARIABLES
  held,      \* held[p][j]: what agent p keeps for job j (self.jobs)
  polling,   \* the poll request agent p awaits
  conns,     \* the poll requests on the wire or at the gateway
  accepted,  \* history: the <<pod, lease>> pairs whose "completed" was accepted
  faults     \* how many faults happened

agentVars == <<held, polling, conns, accepted, faults>>
allVars == <<vars, agentVars>>

NotHeld == [phase |-> "none", lease |-> 0, cancelled |-> FALSE, result |-> "none", tries |-> 0]
FreeConn == [st |-> "free", pod |-> NoPod, ready |-> FALSE,
             report |-> [j \in Jobs |-> 0], assign |-> {}, orphan |-> {}, cancel |-> {}]

AgentsInit ==
  /\ Init
  /\ held = [p \in Pods |-> [j \in Jobs |-> NotHeld]]
  /\ polling = [p \in Pods |-> NoPoll]
  /\ conns = [r \in Polls |-> FreeConn]
  /\ accepted = [j \in Jobs |-> {}]
  /\ faults = 0

\* Bounds of the model.  A process that closes counts as stopped.
Spared == faults + restarts + (IF phase = "closing" THEN 1 ELSE 0) < MaxTrouble
Fault == Spared /\ faults < MaxFaults /\ faults' = faults + 1

-----------------------------------------------------------------------------
(* The poll cycle *)

SendPoll(p, r, ready) ==
  /\ polling[p] = NoPoll /\ conns[r].st = "free" /\ polls[r].st = "idle"
  /\ conns' = [conns EXCEPT ![r] = [FreeConn EXCEPT !.st = "sent", !.pod = p, !.ready = ready,
                                      !.report = [j \in Jobs |-> held[p][j].lease]]]
  /\ polling' = [polling EXCEPT ![p] = r]
  /\ UNCHANGED <<vars, held, accepted, faults>>

\* What the handler tells the pod of the jobs it reported, and of the cancelled
\* jobs that the table still gives to the pod.
Orphans(c) == {j \in Jobs : c.report[j] # 0 /\ ~Holds(jobs[j], c.report[j])}
Cancels(c) == {j \in Jobs : jobs[j].state = "in_progress" /\ jobs[j].cancelAt # 0 /\
                            (Holds(jobs[j], c.report[j]) \/ jobs[j].pod = c.pod)}

\* Faulty form: the answer lists every job that runs.
AllRunning == {j \in Jobs : jobs'[j].state = "in_progress"}

Assigned == {j \in Jobs : grants'[j] # grants[j]}

PollArrives(r) ==
  LET c == conns[r] IN
  /\ c.st = "sent"
  /\ Poll(r, c.pod, c.ready, c.report)
  /\ conns' = [conns EXCEPT ![r] =
       [FreeConn EXCEPT !.st = IF polls'[r].st = "parked" THEN "serving" ELSE "replied",
                        !.pod = c.pod, !.orphan = Orphans(c), !.cancel = Cancels(c),
                        !.assign = {<<j, Len(grants'[j])>> : j \in Assigned}]]
  /\ UNCHANGED <<held, polling, accepted, faults>>

PollAnswered(r) ==
  /\ PollWoken(r) \/ PollTimeout(r)
  /\ conns' = [conns EXCEPT ![r].assign = {<<j, Len(grants'[j])>> : j \in Assigned},
                            ![r].st = "replied"]
  /\ UNCHANGED <<held, polling, accepted, faults>>

\* An assignment for a job the agent still keeps is dropped (_start).
StartAssigned(kept, assign) ==
  [j \in Jobs |->
     LET offers == {a \in assign : a[1] = j} IN
     IF offers = {} \/ kept[j].phase # "none" THEN kept[j]
     ELSE [NotHeld EXCEPT !.phase = "fetching", !.lease = (CHOOSE a \in offers : TRUE)[2]]]

FlagCancelled(kept, S) ==
  [j \in Jobs |-> IF j \in S /\ kept[j].phase # "none"
                  THEN [kept[j] EXCEPT !.cancelled = TRUE] ELSE kept[j]]

\* Faulty form: new work is started before the orphans are abandoned.
DeliverStartFirst(r) ==
  LET c == conns[r] IN
  /\ c.st = "replied" /\ polling[c.pod] = r
  /\ held' = [held EXCEPT ![c.pod] =
                FlagCancelled(StartAssigned(@, c.assign), c.orphan \cup c.cancel)]
  /\ polling' = [polling EXCEPT ![c.pod] = NoPoll]
  /\ conns' = [conns EXCEPT ![r] = FreeConn]
  /\ UNCHANGED <<vars, accepted, faults>>

\* The rest of _cycle runs without an await: orphans, cancels, assignments.
Deliver(r) ==
  LET c == conns[r] IN
  /\ c.st = "replied" /\ polling[c.pod] = r
  /\ held' = [held EXCEPT ![c.pod] =
                StartAssigned(FlagCancelled(@, c.orphan \cup c.cancel), c.assign)]
  /\ polling' = [polling EXCEPT ![c.pod] = NoPoll]
  /\ conns' = [conns EXCEPT ![r] = FreeConn]
  /\ UNCHANGED <<vars, accepted, faults>>

\* A timeout or a broken connection, seen by the agent only.
GiveUpPoll(p) ==
  /\ Fault
  /\ polling[p] # NoPoll
  /\ polling' = [polling EXCEPT ![p] = NoPoll]
  /\ UNCHANGED <<vars, held, conns, accepted>>

\* A request that never arrives, or an answer nobody waits for.
DropPoll(r) ==
  /\ conns[r].st \in {"sent", "replied"} /\ polling[conns[r].pod] # r
  /\ conns' = [conns EXCEPT ![r] = FreeConn]
  /\ UNCHANGED <<vars, held, polling, accepted, faults>>

RestartAgent(p) ==
  /\ Fault
  /\ held' = [held EXCEPT ![p] = [j \in Jobs |-> NotHeld]]
  /\ polling' = [polling EXCEPT ![p] = NoPoll]
  /\ UNCHANGED <<vars, conns, accepted>>

-----------------------------------------------------------------------------
(* One job on its pod: Runner.run, then _report *)

SetHeld(p, j, h) == held' = [held EXCEPT ![p][j] = h]
Reporting(h, result) == [h EXCEPT !.phase = "reporting", !.result = result]
Current(p, j) == Holds(jobs[j], held[p][j].lease)

\* GET input.  A stale lease ends the task without a report.
FetchInput(p, j) ==
  LET h == held[p][j] IN
  /\ h.phase = "fetching" /\ Serving
  /\ SetHeld(p, j, IF ~Current(p, j) THEN NotHeld
                   ELSE IF h.cancelled THEN Reporting(h, "cancelled")
                   ELSE [h EXCEPT !.phase = "generating"])
  /\ UNCHANGED <<vars, polling, conns, accepted, faults>>

\* SGLang finished; the clip was downloaded.  The cancel flag is not read again.
Generated(p, j) ==
  /\ held[p][j].phase = "generating"
  /\ SetHeld(p, j, [held[p][j] EXCEPT !.phase = "uploading"])
  /\ UNCHANGED <<vars, polling, conns, accepted, faults>>

\* on_poll saw the flag.
Abandoned(p, j) ==
  /\ held[p][j].phase = "generating" /\ held[p][j].cancelled
  /\ SetHeld(p, j, Reporting(held[p][j], "cancelled"))
  /\ UNCHANGED <<vars, polling, conns, accepted, faults>>

\* SGLang, the network, a checksum, the job timeout, or the agent itself.
RunFails(p, j, result) ==
  /\ held[p][j].phase \in {"fetching", "generating", "uploading"}
  /\ SetHeld(p, j, Reporting(held[p][j], result))
  /\ UNCHANGED <<vars, polling, conns, accepted, faults>>

\* POST artifact, with its retries.
Upload(p, j) ==
  LET h == held[p][j] IN
  /\ h.phase = "uploading" /\ Serving
  /\ SetHeld(p, j, IF Current(p, j) THEN Reporting(h, "completed") ELSE NotHeld)
  /\ UNCHANGED <<vars, polling, conns, accepted, faults>>

\* Another attempt to report, or giving up after the last.
Unreported(h) ==
  IF h.tries + 1 < ReportAttempts THEN [h EXCEPT !.tries = @ + 1] ELSE NotHeld

\* POST result reaches the gateway; its answer may be lost.
ReportAccepted(p, j) ==
  LET h == held[p][j] IN
  /\ h.phase = "reporting"
  /\ \/ h.result = "completed" /\ ResultCompleted(j, h.lease)
     \/ h.result = "cancelled" /\ ResultCancelled(j, h.lease)
     \/ h.result = "retryable" /\ (ResultRetried(j, h.lease) \/ ResultFailed(j, h.lease, TRUE))
     \/ h.result = "fatal" /\ ResultFailed(j, h.lease, FALSE)
  /\ \/ SetHeld(p, j, NotHeld) /\ faults' = faults
     \/ SetHeld(p, j, Unreported(h)) /\ Fault
  /\ accepted' = IF h.result = "completed"
                 THEN [accepted EXCEPT ![j] = @ \cup {<<p, h.lease>>}] ELSE accepted
  /\ UNCHANGED <<polling, conns>>

\* Faulty form: a 409 is retried like any other error, and never counted.
ReportRepeated(p, j) ==
  /\ held[p][j].phase = "reporting" /\ Serving /\ ~Current(p, j)
  /\ UNCHANGED allVars

\* 409: the lease is no longer current.
ReportRefused(p, j) ==
  /\ held[p][j].phase = "reporting" /\ Serving /\ ~Current(p, j)
  /\ SetHeld(p, j, NotHeld)
  /\ UNCHANGED <<vars, polling, conns, accepted, faults>>

ReportLost(p, j) ==
  /\ Fault
  /\ held[p][j].phase = "reporting"
  /\ SetHeld(p, j, Unreported(held[p][j]))
  /\ UNCHANGED <<vars, polling, conns, accepted>>

-----------------------------------------------------------------------------
(* The gateway's own steps.  A parked poll released by SIGTERM is answered *)
(* with nothing; when the process ends every connection breaks.            *)

GatewayAlone ==
  /\ \/ \E j \in Jobs : SubmitBegin(j) \/ Delete(j) \/ SubmitCommit(j) \/ ResultSettled(j)
     \/ Sweep \/ Start \/ Tick
  /\ UNCHANGED agentVars

GatewayStops ==
  /\ Spared /\ Stop
  /\ conns' = [r \in Polls |-> IF polls[r].st = "parked"
                               THEN [conns[r] EXCEPT !.st = "replied"] ELSE conns[r]]
  /\ UNCHANGED <<held, polling, accepted, faults>>

GatewayEnds ==
  /\ \/ Exit
     \/ (Spared \/ phase = "closing") /\ Crash
  /\ conns' = [r \in Polls |-> FreeConn]
  /\ polling' = [p \in Pods |-> NoPoll]
  /\ UNCHANGED <<held, accepted, faults>>

RunStep(p, j) ==
  \/ FetchInput(p, j) \/ Generated(p, j) \/ Abandoned(p, j) \/ Upload(p, j)
  \/ \E result \in {"retryable", "fatal"} : RunFails(p, j, result)
  \/ ReportAccepted(p, j) \/ ReportRefused(p, j) \/ ReportLost(p, j)

PollStep ==
  \/ \E p \in Pods, r \in Polls, ready \in BOOLEAN : SendPoll(p, r, ready)
  \/ \E r \in Polls : PollArrives(r) \/ PollAnswered(r) \/ Deliver(r) \/ DropPoll(r)
  \/ \E p \in Pods : GiveUpPoll(p) \/ RestartAgent(p)

AgentsNext ==
  \/ PollStep
  \/ \E p \in Pods, j \in Jobs : RunStep(p, j)
  \/ GatewayAlone \/ GatewayStops \/ GatewayEnds

AgentsSpec == AgentsInit /\ [][AgentsNext]_allVars

-----------------------------------------------------------------------------
(* Properties *)

\* The defining guarantee (routes/agent.ts:281-283): the gateway accepts one
\* completion of a job, from the pod and under the lease it was last granted
\* to, however many superseded pods finish it and however often they report.
FencedCompletion ==
  \A j \in Jobs :
    accepted[j] # {} => /\ jobs[j].state = "completed"
                        /\ accepted[j] = {<<jobs[j].pod, Len(grants[j])>>}

\* A job is cancelled only because its client asked: an agent abandons a job for
\* two reasons, a cancel and a lost lease, and reports both as "cancelled"
\* (client.py:118-128, runner.py:93-94), so an orphaned run must never get to
\* report under a lease that is current.
NobodyCancelsUnasked ==
  \A j \in Jobs : jobs[j].state = "cancelled" => jobs[j].cancelAt # 0

\* An agent keeps, reports and is handed only leases that were granted to its
\* pod; module Gateway assumes no more of its environment.
LeasesOnlyFromGrants ==
  LET GrantedTo(p, j, l) == l \in 1..Len(grants[j]) /\ grants[j][l] = p IN
  /\ \A p \in Pods, j \in Jobs :
       held[p][j].phase # "none" => GrantedTo(p, j, held[p][j].lease)
  /\ \A r \in Polls, j \in Jobs :
       /\ conns[r].report[j] # 0 => GrantedTo(conns[r].pod, j, conns[r].report[j])
       /\ \A a \in conns[r].assign : GrantedTo(conns[r].pod, a[1], a[2])

\* A task ends whatever happens to its lease, so it never occupies its agent for
\* good: a 409 anywhere drops it, three reports at most are attempted.
TasksEnd ==
  \A p \in Pods, j \in Jobs : held[p][j].phase # "none" ~> held[p][j].phase = "none"

-----------------------------------------------------------------------------
(* Statements of the documents that the code does not keep; see the README *)

\* docs/agent-protocol.md:87, assign: "Jobs now owned by this pod. Start them."
AssignmentsStart ==
  [][\A r \in Polls : Deliver(r) =>
       \A a \in conns[r].assign : held'[conns[r].pod][a[1]].lease = a[2]]_allVars
=============================================================================
