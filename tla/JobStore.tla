------------------------------ MODULE JobStore ------------------------------
(***************************************************************************)
(* The jobs table of the gateway (gateway/src/db/jobs.ts), one row at a    *)
(* time.  better-sqlite3 is synchronous and the gateway is one thread, so  *)
(* each UPDATE ... WHERE is atomic; it is modelled here as an operator     *)
(* from the row to the row it leaves, which is the same row when the WHERE *)
(* clause does not match (the code then sees changes = 0).                 *)
(*                                                                         *)
(* 0 stands for SQL NULL in the numeric columns: leases are numbered from  *)
(* 1 and the clock starts at 1.  Progress, upstream id, started_at and the *)
(* error text influence no transition and are left out; deadline_at is     *)
(* always created_at + JobTtl and is computed.                             *)
(***************************************************************************)
EXTENDS Integers, FiniteSets, Sequences

CONSTANTS
  Jobs,         \* ids of the jobs that may be submitted
  Pods,         \* pod ids
  NoPod,        \* SQL NULL in the pod_id column
  LeaseTtl,     \* config.leaseTtlMs
  JobTtl,       \* config.jobTtlMs: the wall-clock budget of a job
  MaxAttempts,  \* config.maxAttempts
  CancelGrace,  \* config.cancelGraceMs
  RestartGrace  \* the window passed to recoverOnStartup

ASSUME PodAssumption == NoPod \notin Pods
ASSUME TimeAssumption == LeaseTtl \in Nat /\ JobTtl \in Nat
                         /\ CancelGrace \in Nat /\ RestartGrace \in Nat
ASSUME AttemptsAssumption == MaxAttempts \in Nat \ {0}

TerminalStates == {"completed", "failed", "cancelled"}
VideoStates == {"queued", "in_progress"} \cup TerminalStates

\* "absent": no row.  "writing": POST /v1/videos is suspended in writeInput,
\* the id and created_at exist but the row does not.
RowStates == {"absent", "writing"} \cup VideoStates

Row == [state : RowStates, pod : Pods \cup {NoPod}, lease : Nat, expires : Nat,
        cancelAt : Nat, attempts : Nat, created : Nat]

AbsentRow == [state |-> "absent", pod |-> NoPod, lease |-> 0, expires |-> 0,
              cancelAt |-> 0, attempts |-> 0, created |-> 0]

IsTerminal(row) == row.state \in TerminalStates
IsLive(row) == row.state \in {"queued", "in_progress"}
Deadline(row) == row.created + JobTtl

-----------------------------------------------------------------------------
(* Transitions *)

\* Faulty form: a result is accepted under any lease.
HoldsAnyLease(row, l) == row.state = "in_progress"

Holds(row, l) == row.state = "in_progress" /\ row.lease = l

\* WHERE state='in_progress' AND lease_id=?, the ownership test dropped when
\* the gateway itself is the caller (l = 0).
Owned(row, l) == row.state = "in_progress" /\ (l = 0 \/ row.lease = l)

Created(t) == [AbsentRow EXCEPT !.state = "queued", !.created = t]

Claim(row, p, l, until) ==
  IF row.state = "queued"
  THEN [row EXCEPT !.state = "in_progress", !.pod = p, !.lease = l,
                   !.expires = until, !.attempts = @ + 1]
  ELSE row

RenewLease(row, l, until) ==
  IF Holds(row, l) THEN [row EXCEPT !.expires = until] ELSE row

\* The columns every terminal UPDATE writes; pod_id is kept.
Finished(row, s) == [row EXCEPT !.state = s, !.lease = 0, !.expires = 0]

Complete(row, l) == IF Holds(row, l) THEN Finished(row, "completed") ELSE row

Fail(row, l) ==
  IF Owned(row, l) \/ (l = 0 /\ row.state = "queued")
  THEN Finished(row, "failed") ELSE row

MarkCancelled(row, l) ==
  IF Owned(row, l) THEN Finished(row, "cancelled") ELSE row

\* Faulty form: the pod of the lost lease stays on the queued row.
RequeueKeepsPod(row, l) ==
  IF Owned(row, l)
  THEN [row EXCEPT !.state = "queued", !.lease = 0, !.expires = 0] ELSE row

\* Faulty form: the lease of the lost pod stays on the queued row.
RequeueKeepsLease(row, l) ==
  IF Owned(row, l) THEN [row EXCEPT !.state = "queued", !.pod = NoPod] ELSE row

\* Ownership is cleared, the attempt count and the cancel request stay.
Requeue(row, l) ==
  IF Owned(row, l)
  THEN [row EXCEPT !.state = "queued", !.pod = NoPod, !.lease = 0, !.expires = 0]
  ELSE row

CancelQueued(row, t) ==
  IF row.state = "queued"
  THEN [row EXCEPT !.state = "cancelled", !.cancelAt = t] ELSE row

\* Faulty form: a sixth state (types.ts deliberately has none).
RequestCancelAsState(row, t) ==
  IF row.state = "in_progress" THEN [row EXCEPT !.state = "cancelling", !.cancelAt = t] ELSE row

RequestCancel(row, t) ==
  IF row.state = "in_progress" /\ row.cancelAt = 0
  THEN [row EXCEPT !.cancelAt = t] ELSE row

\* Faulty form: the WHERE clause is lost and finished rows get an expiry.
RecoverEveryRow(row, t) == [row EXCEPT !.expires = t + RestartGrace]

RecoverOnStartup(row, t) ==
  IF row.state = "in_progress" THEN [row EXCEPT !.expires = t + RestartGrace] ELSE row

-----------------------------------------------------------------------------
(* Sweep queries *)

\* Faulty form: a lease is taken away in its last millisecond.
LeaseExpiredEarly(row, t) ==
  row.state = "in_progress" /\ row.expires # 0 /\ row.expires <= t

LeaseExpired(row, t) ==
  row.state = "in_progress" /\ row.expires # 0 /\ row.expires < t

\* Faulty form: only dispatched jobs have a budget.
OverdueRunning(row, t) == row.state = "in_progress" /\ Deadline(row) < t

Overdue(row, t) == IsLive(row) /\ Deadline(row) < t
StaleCancel(row, t) ==
  row.state = "in_progress" /\ row.cancelAt # 0 /\ row.cancelAt < t - CancelGrace
=============================================================================
