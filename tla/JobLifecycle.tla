----------------------------- MODULE JobLifecycle -----------------------------
(***************************************************************************)
(* What the gateway promises about a job, with no pods, leases or clock:   *)
(* the five statuses of gateway/src/domain/types.ts, a bounded number of   *)
(* dispatches, and an outcome that never changes.  A step may move several *)
(* jobs, as one sweep of the reaper does.                                  *)
(***************************************************************************)
EXTENDS Naturals

CONSTANTS Jobs, MaxAttempts

VARIABLES status, tries

vars == <<status, tries>>

Outcomes == {"completed", "failed", "cancelled"}
Statuses == {"none", "queued", "in_progress"} \cup Outcomes

Init == status = [j \in Jobs |-> "none"] /\ tries = [j \in Jobs |-> 0]

\* What one step may do to one job, from <<s, n>> to <<t, m>>.
Accept(s, n, t, m)   == s = "none" /\ t = "queued" /\ m = n
Dispatch(s, n, t, m) == s = "queued" /\ n < MaxAttempts /\ t = "in_progress" /\ m = n + 1
Return(s, n, t, m)   == s = "in_progress" /\ n < MaxAttempts /\ t = "queued" /\ m = n
Finish(s, n, t, m)   == s = "in_progress" /\ t \in Outcomes /\ m = n
Withdraw(s, n, t, m) == s = "queued" /\ t \in {"failed", "cancelled"} /\ m = n

Move(s, n, t, m) ==
  \/ t = s /\ m = n
  \/ Accept(s, n, t, m) \/ Dispatch(s, n, t, m) \/ Return(s, n, t, m)
  \/ Finish(s, n, t, m) \/ Withdraw(s, n, t, m)

Next ==
  /\ status' \in [Jobs -> Statuses] /\ tries' \in [Jobs -> 0..MaxAttempts]
  /\ \A j \in Jobs : Move(status[j], tries[j], status'[j], tries'[j])

Spec == Init /\ [][Next]_vars
=============================================================================
