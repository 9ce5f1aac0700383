---------------------------- MODULE OutcomeProofs ----------------------------
(***************************************************************************)
(* The counters of the pods table and the leases.  Every lease a pod was   *)
(* granted is, at any time, counted at most once: as a job it completed,   *)
(* as a failure charged to it, or as a job it still holds.  Dispatch adds  *)
(* a lease and a job that is held; every way out of a pod's hands removes  *)
(* the job and charges at most one outcome; nothing else touches either.   *)
(***************************************************************************)
EXTENDS DispatchProofs, FunctionTheorems

-----------------------------------------------------------------------------
(* Counting *)

\* The sets that are counted are finite.
LEMMA CountsFinite ==
  ASSUME NEW p
  PROVE  /\ \A s : /\ IsFiniteSet(JobsOf(p, s)) /\ Cardinality(JobsOf(p, s)) \in Nat
                   /\ IsFiniteSet(JobsOf(p, s)') /\ Cardinality(JobsOf(p, s)') \in Nat
         /\ IsFiniteSet(LeasesOf(p)) /\ Cardinality(LeasesOf(p)) \in Nat
         /\ IsFiniteSet(LeasesOf(p)') /\ Cardinality(LeasesOf(p)') \in Nat
<1>1. \A s : JobsOf(p, s) \subseteq Jobs /\ JobsOf(p, s)' \subseteq Jobs
  BY DEF JobsOf
<1>2. LeasesOf(p) \subseteq Jobs \X (1..MaxAttempts)
        /\ LeasesOf(p)' \subseteq Jobs \X (1..MaxAttempts)
  BY DEF LeasesOf
<1>3. IsFiniteSet(1..MaxAttempts)
  BY AttemptsAssumption, FS_Interval
<1>4. IsFiniteSet(Jobs \X (1..MaxAttempts))
  BY <1>3, JobsAssumption, FS_Product
<1> QED BY <1>1, <1>2, <1>4, JobsAssumption, FS_Subset, FS_CardinalityType

\* What the property says of one pod.
ChargedOnce(p) ==
  /\ pods[p].done = Cardinality(JobsOf(p, "completed"))
  /\ pods[p].done + pods[p].failed + Cardinality(JobsOf(p, "in_progress"))
       <= Cardinality(LeasesOf(p))

\* A step that moves n jobs of pod p out of its hands, completes c of them and
\* charges f failures for the others.
LEMMA Settlement ==
  ASSUME TypeOK, NEW p \in Pods, ChargedOnce(p), NEW c \in Nat, NEW f \in Nat,
         pods'[p].done = pods[p].done + c, pods'[p].failed = pods[p].failed + f,
         Cardinality(JobsOf(p, "completed")') = Cardinality(JobsOf(p, "completed")) + c,
         Cardinality(JobsOf(p, "in_progress")') + c + f <= Cardinality(JobsOf(p, "in_progress")),
         LeasesOf(p)' = LeasesOf(p)
  PROVE  ChargedOnce(p)'
<1>1. pods[p].done \in Nat /\ pods[p].failed \in Nat
  BY DEF TypeOK
<1>2. ChargedOnce(p)' <=>
        /\ pods'[p].done = Cardinality(JobsOf(p, "completed")')
        /\ pods'[p].done + pods'[p].failed + Cardinality(JobsOf(p, "in_progress")')
             <= Cardinality(LeasesOf(p)')
  BY DEF ChargedOnce
<1>3. /\ Cardinality(JobsOf(p, "completed")) \in Nat
      /\ Cardinality(JobsOf(p, "in_progress")) \in Nat
      /\ Cardinality(JobsOf(p, "in_progress")') \in Nat /\ Cardinality(LeasesOf(p)) \in Nat
  BY CountsFinite
<1> QED BY <1>1, <1>2, <1>3 DEF ChargedOnce

\* A step that completes nothing, charges nothing and dispatches nothing.
LEMMA Uncharged ==
  ASSUME TypeOK, NEW p \in Pods, ChargedOnce(p), UNCHANGED grants,
         pods'[p].done = pods[p].done, pods'[p].failed = pods[p].failed,
         \A j \in Jobs :
           /\ jobs[j].state = "completed" => jobs'[j] = jobs[j]
           /\ jobs'[j].state \in {"completed", "in_progress"}
                => jobs[j].state = jobs'[j].state /\ jobs[j].pod = jobs'[j].pod
  PROVE  ChargedOnce(p)'
<1>1. JobsOf(p, "completed")' = JobsOf(p, "completed")
  BY DEF JobsOf
<1>2. JobsOf(p, "in_progress")' \subseteq JobsOf(p, "in_progress")
  BY DEF JobsOf
<1>3. Cardinality(JobsOf(p, "in_progress")') <= Cardinality(JobsOf(p, "in_progress"))
  BY <1>2, CountsFinite, FS_Subset
<1>4. LeasesOf(p)' = LeasesOf(p)
  BY DEF LeasesOf
<1>5. /\ Cardinality(JobsOf(p, "in_progress")') \in Nat /\ pods[p].done \in Nat
      /\ pods[p].failed \in Nat
      /\ Cardinality(JobsOf(p, "completed")) \in Nat
  BY CountsFinite DEF TypeOK
<1>6. /\ pods'[p].done = pods[p].done + 0 /\ pods'[p].failed = pods[p].failed + 0
      /\ Cardinality(JobsOf(p, "completed")') = Cardinality(JobsOf(p, "completed")) + 0
      /\ Cardinality(JobsOf(p, "in_progress")') + 0 + 0 <= Cardinality(JobsOf(p, "in_progress"))
  BY <1>1, <1>3, <1>5
<1> QED BY <1>4, <1>6, Settlement

-----------------------------------------------------------------------------
(* Results *)

\* A result ends the lease of a job in progress and charges it once, to the pod
\* that held it.
LEMMA ResultCharges ==
  ASSUME IInv, NEW p \in Pods, ChargedOnce(p),
         NEW j \in Jobs, NEW l \in 1..Len(grants[j]),
         \/ ResultCompleted(j, l) \/ ResultCancelled(j, l) \/ ResultRetried(j, l)
         \/ \E retryable \in BOOLEAN : ResultFailed(j, l, retryable)
  PROVE  ChargedOnce(p)'
<1>a. TypeOK /\ jobs[j] \in Row /\ jobs \in [Jobs -> Row] /\ pods[p].done \in Nat
        /\ pods[p].failed \in Nat
  BY DEF IInv, TypeOK
<1>b. ResultAccepted(j, l) /\ UNCHANGED grants /\ jobs[j].state = "in_progress" /\ jobs[j].lease = l
  BY DEF ResultCompleted, ResultCancelled, ResultRetried, ResultFailed, ResultAccepted, Holds
<1>c. jobs[j].pod \in Pods
  <2>1. RowInv(jobs[j], grants[j])
    BY DEF IInv
  <2> QED BY <2>1, <1>b DEF RowInv, Fenced
<1>d. \A i \in Jobs \ {j} : jobs'[i] = jobs[i]
  BY <1>a DEF ResultCompleted, ResultCancelled, ResultRetried, ResultFailed
<1>e. LeasesOf(p)' = LeasesOf(p)
  BY <1>b DEF LeasesOf
<1>f. /\ IsFiniteSet(JobsOf(p, "completed")) /\ IsFiniteSet(JobsOf(p, "in_progress"))
      /\ Cardinality(JobsOf(p, "completed")) \in Nat /\ Cardinality(JobsOf(p, "completed")') \in Nat
      /\ Cardinality(JobsOf(p, "in_progress")) \in Nat
      /\ Cardinality(JobsOf(p, "in_progress")') \in Nat
  BY CountsFinite
<1>1. CASE ResultCancelled(j, l)
  <2>1. jobs'[j] = MarkCancelled(jobs[j], l) /\ UNCHANGED pods
    BY <1>1, <1>a DEF ResultCancelled
  <2>2. jobs'[j].state = "cancelled"
    BY <2>1, <1>a, <1>b DEF MarkCancelled, Owned, Finished, Row
  <2>3. jobs[j].state # "completed"
    BY <1>b
  <2>4. \A i \in Jobs :
          /\ jobs[i].state = "completed" => jobs'[i] = jobs[i]
          /\ jobs'[i].state \in {"completed", "in_progress"}
               => jobs[i].state = jobs'[i].state /\ jobs[i].pod = jobs'[i].pod
    <3> SUFFICES ASSUME NEW i \in Jobs
                 PROVE  /\ jobs[i].state = "completed" => jobs'[i] = jobs[i]
                        /\ jobs'[i].state \in {"completed", "in_progress"}
                             => jobs[i].state = jobs'[i].state /\ jobs[i].pod = jobs'[i].pod
      OBVIOUS
    <3>1. CASE i = j
      BY <3>1, <2>2, <2>3
    <3>2. CASE i # j
      BY <3>2, <1>d
    <3> QED
      BY <3>1, <3>2
  <2>5. pods'[p].done = pods[p].done /\ pods'[p].failed = pods[p].failed /\ UNCHANGED grants
    BY <2>1, <1>b
  <2>6. TypeOK
    BY <1>a
  <2> QED BY <2>4, <2>5, <2>6, Uncharged
<1>2. CASE jobs[j].pod # p /\ ~ResultCancelled(j, l)
  <2>1. /\ jobs'[j].state \notin {"completed", "in_progress"} \/ jobs'[j].pod # p
        /\ jobs[j].pod # p
    <3>1. jobs'[j] \in {Complete(jobs[j], l), Requeue(jobs[j], l), Fail(jobs[j], l)}
      BY <1>2, <1>a DEF ResultCompleted, ResultRetried, ResultFailed
    <3>2. Owned(jobs[j], l)
      BY <1>b DEF Owned
    <3>3. Complete(jobs[j], l).pod = jobs[j].pod
      BY <1>a DEF Complete, Finished, Row
    <3>4. Requeue(jobs[j], l).state = "queued" /\ Fail(jobs[j], l).state = "failed"
      BY <1>a, <3>2 DEF Requeue, Fail, Finished, Row
    <3> QED
      BY <1>2, <3>1, <3>3, <3>4
  <2>2. JobsOf(p, "completed")' = JobsOf(p, "completed")
          /\ JobsOf(p, "in_progress")' = JobsOf(p, "in_progress")
    BY <2>1, <1>d DEF JobsOf
  <2>3. pods'[p] = pods[p]
    BY <1>2, <1>c DEF ResultCompleted, ResultRetried, ResultFailed, Outcome, IInv, TypeOK
  <2>4. /\ pods'[p].done = pods[p].done + 0 /\ pods'[p].failed = pods[p].failed + 0
        /\ Cardinality(JobsOf(p, "completed")') = Cardinality(JobsOf(p, "completed")) + 0
        /\ Cardinality(JobsOf(p, "in_progress")') + 0 + 0 <= Cardinality(JobsOf(p, "in_progress"))
    BY <1>a, <1>f, <2>2, <2>3
  <2> QED BY <2>4, <1>a, <1>e, Settlement
<1>3. CASE jobs[j].pod = p /\ ~ResultCancelled(j, l)
  <2>1. JobsOf(p, "in_progress")' = JobsOf(p, "in_progress") \ {j} /\ j \in JobsOf(p, "in_progress")
    <3>1. jobs'[j].state # "in_progress"
      BY <1>3, <1>a, <1>b DEF ResultCompleted, ResultRetried, ResultFailed, Complete, Requeue, Fail,
                              Holds, Owned, Finished, Row
    <3> QED BY <3>1, <1>3, <1>b, <1>d DEF JobsOf
  <2>2. Cardinality(JobsOf(p, "in_progress")') + 1 = Cardinality(JobsOf(p, "in_progress"))
    <3>1. Cardinality(JobsOf(p, "in_progress") \ {j}) = Cardinality(JobsOf(p, "in_progress")) - 1
      BY <1>f, <2>1, FS_RemoveElement
    <3>2. Cardinality(JobsOf(p, "in_progress")') = Cardinality(JobsOf(p, "in_progress") \ {j})
      BY <2>1
    <3> QED BY <1>f, <3>1, <3>2
  <2>3. CASE ResultCompleted(j, l)
    <3>1. jobs'[j].state = "completed" /\ jobs'[j].pod = p
      BY <2>3, <1>3, <1>a, <1>b DEF ResultCompleted, Complete, Holds, Finished, Row
    <3>2. JobsOf(p, "completed")' = JobsOf(p, "completed") \cup {j}
            /\ j \notin JobsOf(p, "completed")
      BY <3>1, <1>b, <1>d DEF JobsOf
    <3>3. Cardinality(JobsOf(p, "completed")') = Cardinality(JobsOf(p, "completed")) + 1
      BY <1>f, <3>2, FS_AddElement
    <3>4. pods'[p].done = pods[p].done + 1 /\ pods'[p].failed = pods[p].failed + 0
      BY <2>3, <1>3, <1>a DEF ResultCompleted, Outcome, TypeOK
    <3>5. Cardinality(JobsOf(p, "in_progress")') + 1 + 0 <= Cardinality(JobsOf(p, "in_progress"))
      BY <1>f, <2>2
    <3> QED BY <3>3, <3>4, <3>5, <1>a, <1>e, Settlement
  <2>4. CASE ResultRetried(j, l) \/ \E retryable \in BOOLEAN : ResultFailed(j, l, retryable)
    <3>1. jobs'[j].state # "completed"
      BY <2>4, <1>a, <1>b DEF ResultRetried, ResultFailed, Requeue, Fail, Holds, Owned, Finished,
         Row
    <3>2. JobsOf(p, "completed")' = JobsOf(p, "completed")
      BY <3>1, <1>b, <1>d DEF JobsOf
    <3>3. pods'[p].done = pods[p].done + 0 /\ pods'[p].failed = pods[p].failed + 1
      BY <2>4, <1>3, <1>a DEF ResultRetried, ResultFailed, Outcome, TypeOK
    <3>4. /\ Cardinality(JobsOf(p, "in_progress")') + 0 + 1 <= Cardinality(JobsOf(p, "in_progress"))
          /\ Cardinality(JobsOf(p, "completed")') = Cardinality(JobsOf(p, "completed")) + 0
      BY <1>f, <2>2, <3>2
    <3> QED BY <3>3, <3>4, <1>a, <1>e, Settlement
  <2> QED BY <1>3, <2>3, <2>4
<1> QED BY <1>1, <1>2, <1>3

-----------------------------------------------------------------------------
(* Dispatch *)

\* A dispatch to pod q gives it as many new leases as new jobs, and gives no
\* other pod either.
LEMMA DispatchCounts ==
  ASSUME IInv, NEW rows, NEW q \in Pods, NEW slots, NEW C \in Claims(rows, q, slots),
         jobs' = ClaimAll(rows, C, q), grants' = GrantAll(C, q),
         Renewed(rows),
         NEW p \in Pods
  PROVE  /\ JobsOf(p, "completed")' = JobsOf(p, "completed")
         /\ p # q => /\ JobsOf(p, "in_progress")' = JobsOf(p, "in_progress")
                     /\ LeasesOf(p)' = LeasesOf(p)
         /\ p = q => /\ Cardinality(JobsOf(p, "in_progress")') =
                          Cardinality(JobsOf(p, "in_progress")) + Cardinality(C)
                     /\ Cardinality(LeasesOf(p)') = Cardinality(LeasesOf(p)) + Cardinality(C)
                     /\ Cardinality(C) \in Nat
<1>a. C \subseteq Jobs /\ \A j \in C : rows[j].state = "queued" /\ jobs[j].state = "queued"
  BY ClaimsOldest DEF Servable, Queued, Renewed
<1>b. \A j \in Jobs \ C : /\ jobs'[j] = rows[j] /\ grants'[j] = grants[j]
                         /\ rows[j].state = jobs[j].state /\ rows[j].pod = jobs[j].pod
  BY DEF Renewed, ClaimAll, GrantAll
<1>c. \A j \in C : /\ jobs'[j].state = "in_progress" /\ jobs'[j].pod = q
  BY <1>a DEF ClaimAll, Claim, Row, Renewed
<1>d. \A j \in Jobs : grants[j] \in Seq(Pods) /\ Len(grants[j]) \in Nat
  BY DEF IInv, TypeOK
<1>e. \A j \in C : grants'[j] = Append(grants[j], q) /\ Len(grants[j]) + 1 \in 1..MaxAttempts
  <2> SUFFICES ASSUME NEW j \in C
               PROVE grants'[j] = Append(grants[j], q) /\ Len(grants[j]) + 1 \in 1..MaxAttempts
    OBVIOUS
  <2>1. jobs[j].attempts = Len(grants[j]) /\ jobs[j].attempts < MaxAttempts
    BY <1>a DEF IInv, RowInv, Capped
  <2> QED BY <1>a, <1>d, <2>1, AttemptsAssumption DEF GrantAll
<1>f. \A j \in C : /\ Len(grants'[j]) = Len(grants[j]) + 1
                   /\ grants'[j][Len(grants[j]) + 1] = q
                   /\ \A k \in 1..Len(grants[j]) : grants'[j][k] = grants[j][k]
  BY <1>a, <1>d, <1>e
<1> DEFINE N == {<<j, Len(grants[j]) + 1>> : j \in C}
<1>1. JobsOf(p, "completed")' = JobsOf(p, "completed")
  BY <1>a, <1>b, <1>c DEF JobsOf
<1>2. p # q => JobsOf(p, "in_progress")' = JobsOf(p, "in_progress")
  BY <1>a, <1>b, <1>c DEF JobsOf
<1>3. p = q => /\ JobsOf(p, "in_progress")' = JobsOf(p, "in_progress") \cup C
               /\ JobsOf(p, "in_progress") \cap C = {}
  BY <1>a, <1>b, <1>c DEF JobsOf
<1>4. ASSUME NEW j \in Jobs, NEW k \in 1..MaxAttempts
      PROVE <<j, k>> \in LeasesOf(p)' <=> (<<j, k>> \in LeasesOf(p) \/ (p = q /\ <<j, k>> \in N))
  <2>a. <<j, k>> \in N <=> j \in C /\ k = Len(grants[j]) + 1
    OBVIOUS
  <2>b. /\ <<j, k>> \in LeasesOf(p) <=> k <= Len(grants[j]) /\ grants[j][k] = p
        /\ <<j, k>> \in LeasesOf(p)' <=> k <= Len(grants'[j]) /\ grants'[j][k] = p
    BY DEF LeasesOf
  <2>1. CASE j \notin C
    BY <1>b, <2>a, <2>b, <2>1
  <2>2. CASE j \in C
    BY <1>a, <1>d, <1>f, <2>a, <2>b, <2>2
  <2> QED BY <2>1, <2>2
<1>5. N \subseteq Jobs \X (1..MaxAttempts) /\ LeasesOf(p) \subseteq Jobs \X (1..MaxAttempts)
      /\ LeasesOf(p)' \subseteq Jobs \X (1..MaxAttempts)
  BY <1>a, <1>e DEF LeasesOf
<1> HIDE DEF N
<1>6. LeasesOf(p)' = IF p = q THEN LeasesOf(p) \cup N ELSE LeasesOf(p)
  <2>1. \A e \in Jobs \X (1..MaxAttempts) :
          e \in LeasesOf(p)' <=> (e \in LeasesOf(p) \/ (p = q /\ e \in N))
    <3> SUFFICES ASSUME NEW j \in Jobs, NEW k \in 1..MaxAttempts
                 PROVE <<j, k>> \in LeasesOf(p)' <=> (<<j, k>> \in LeasesOf(p) \/ (p = q /\ <<j, k>> \in N))
      OBVIOUS
    <3> QED BY <1>4
  <2>2. CASE p = q
    <3>1. LeasesOf(p)' = LeasesOf(p) \cup N
      BY <1>5, <2>1, <2>2, Zenon
    <3> QED BY <2>2, <3>1
  <2>3. CASE p # q
    <3>1. LeasesOf(p)' = LeasesOf(p)
      BY <1>5, <2>1, <2>3, Zenon
    <3> QED BY <2>3, <3>1
  <2> QED BY <2>2, <2>3
<1>7. LeasesOf(p) \cap N = {}
  BY <1>a, <1>d DEF LeasesOf, N
<1>8. IsFiniteSet(C) /\ Cardinality(C) \in Nat
  BY <1>a, JobsAssumption, FS_Subset, FS_CardinalityType
<1>9. IsFiniteSet(N) /\ Cardinality(N) = Cardinality(C)
  <2> DEFINE f == [j \in C |-> <<j, Len(grants[j]) + 1>>]
  <2>1. f \in Bijection(C, N)
    BY DEF N, Bijection, Injection, Surjection, IsInjective
  <2>2. ExistsBijection(C, N)
    BY <2>1 DEF ExistsBijection
  <2> QED BY <1>8, <2>2, FS_Bijection
<1>g. /\ IsFiniteSet(JobsOf(p, "in_progress")) /\ Cardinality(JobsOf(p, "in_progress")) \in Nat
       /\ IsFiniteSet(LeasesOf(p)) /\ Cardinality(LeasesOf(p)) \in Nat
  BY CountsFinite
<1>10. p = q => Cardinality(JobsOf(p, "in_progress")') = Cardinality(JobsOf(p, "in_progress")) + Cardinality(C)
  <2>1. Cardinality(JobsOf(p, "in_progress") \cup C) =
          Cardinality(JobsOf(p, "in_progress")) + Cardinality(C) - Cardinality(JobsOf(p, "in_progress") \cap C)
    BY <1>8, <1>g, FS_Union
  <2>2. p = q => Cardinality(JobsOf(p, "in_progress") \cap C) = 0
    BY <1>3, FS_EmptySet
  <2>3. p = q => Cardinality(JobsOf(p, "in_progress")') = Cardinality(JobsOf(p, "in_progress") \cup C)
    BY <1>3
  <2> QED BY <1>8, <1>g, <2>1, <2>2, <2>3
<1>11. p = q => Cardinality(LeasesOf(p)') = Cardinality(LeasesOf(p)) + Cardinality(C)
  <2>1. Cardinality(LeasesOf(p) \cup N) =
          Cardinality(LeasesOf(p)) + Cardinality(N) - Cardinality(LeasesOf(p) \cap N)
    BY <1>9, <1>g, FS_Union
  <2>2. Cardinality(LeasesOf(p) \cap N) = 0
    BY <1>7, FS_EmptySet
  <2> QED BY <1>6, <1>8, <1>9, <1>g, <2>1, <2>2
<1> QED BY <1>1, <1>2, <1>6, <1>8, <1>10, <1>11

\* A dispatch charges nobody.
LEMMA DispatchCharges ==
  ASSUME IInv, Dispatches, NEW p \in Pods, ChargedOnce(p),
         pods'[p].done = pods[p].done, pods'[p].failed = pods[p].failed
  PROVE  ChargedOnce(p)'
<1>1. PICK rows : Renewed(rows) /\
        \E q \in Pods, slots \in Nat : \E C \in Claims(rows, q, slots) :
           jobs' = ClaimAll(rows, C, q) /\ grants' = GrantAll(C, q)
  BY DEF Dispatches
<1>2. PICK q \in Pods, slots \in Nat : \E C \in Claims(rows, q, slots) :
        jobs' = ClaimAll(rows, C, q) /\ grants' = GrantAll(C, q)
  BY <1>1
<1>3. PICK C \in Claims(rows, q, slots) : jobs' = ClaimAll(rows, C, q) /\ grants' = GrantAll(C, q)
  BY <1>2
<1>4. /\ JobsOf(p, "completed")' = JobsOf(p, "completed")
      /\ p # q => /\ JobsOf(p, "in_progress")' = JobsOf(p, "in_progress")
                  /\ LeasesOf(p)' = LeasesOf(p)
      /\ p = q => /\ Cardinality(JobsOf(p, "in_progress")') =
                       Cardinality(JobsOf(p, "in_progress")) + Cardinality(C)
                  /\ Cardinality(LeasesOf(p)') = Cardinality(LeasesOf(p)) + Cardinality(C)
                  /\ Cardinality(C) \in Nat
  BY <1>1, <1>3, DispatchCounts
<1>5. /\ pods[p].done \in Nat /\ pods[p].failed \in Nat
      /\ Cardinality(JobsOf(p, "in_progress")) \in Nat /\ Cardinality(LeasesOf(p)) \in Nat
  BY CountsFinite DEF IInv, TypeOK
<1>6. ChargedOnce(p)' <=>
        /\ pods'[p].done = Cardinality(JobsOf(p, "completed")')
        /\ pods'[p].done + pods'[p].failed + Cardinality(JobsOf(p, "in_progress")')
             <= Cardinality(LeasesOf(p)')
  BY DEF ChargedOnce
<1>7. pods'[p].done = Cardinality(JobsOf(p, "completed")')
  BY <1>4 DEF ChargedOnce
<1>8. pods[p].done + pods[p].failed + Cardinality(JobsOf(p, "in_progress")')
        <= Cardinality(LeasesOf(p)')
  <2>1. CASE p = q
    BY <1>4, <1>5, <2>1 DEF ChargedOnce
  <2>2. CASE p # q
    <3>1. /\ Cardinality(JobsOf(p, "in_progress")') = Cardinality(JobsOf(p, "in_progress"))
          /\ Cardinality(LeasesOf(p)') = Cardinality(LeasesOf(p))
      BY <1>4, <2>2
    <3> QED BY <1>5, <3>1 DEF ChargedOnce
  <2> QED BY <2>1, <2>2
<1> QED BY <1>6, <1>7, <1>8

-----------------------------------------------------------------------------
(* Sweeps *)

\* The sweep charges the pod of a row only when it takes the row from it, and a
\* row is completed, or held, after a sweep only if it was before.
LEMMA SweptRow ==
  ASSUME NEW row, NEW g, RowInv(row, g), now \in Nat
  PROVE  /\ ChargedPod(row) \in Pods =>
              /\ row.state = "in_progress" /\ row.pod = ChargedPod(row)
              /\ ReapRow(row).state # "in_progress"
         /\ row.state = "completed" => ReapRow(row) = row
         /\ ReapRow(row).state \in {"completed", "in_progress"}
              => row.state = ReapRow(row).state /\ row.pod = ReapRow(row).pod
<1> DEFINE a == ReapLease(row)
           b == ReapDeadline(a)
<1>a. row \in Row /\ row.attempts \in Nat /\ row.lease \in Nat /\ MaxAttempts \in Nat
      /\ (row.state = "queued" => row.pod = NoPod)
  BY AttemptsAssumption DEF RowInv, Row, Fenced
<1>1. \/ a = row /\ ~LeaseExpired(row, now)
      \/ /\ LeaseExpired(row, now) /\ row.attempts >= MaxAttempts
         /\ a = Finished(row, "failed") /\ row.state = "in_progress"
      \/ /\ LeaseExpired(row, now) /\ row.attempts < MaxAttempts
         /\ a = [row EXCEPT !.state = "queued", !.pod = NoPod, !.lease = 0, !.expires = 0]
         /\ row.state = "in_progress"
  BY <1>a DEF ReapLease, Fail, Requeue, Owned, LeaseExpired
<1> HIDE DEF a
<1>2. /\ a \in Row
      /\ a.state = "in_progress" => a = row
      /\ a.state = "completed" => a = row
      /\ a.pod \in Pods /\ ~(LeaseExpired(row, now) /\ row.attempts >= MaxAttempts) => a = row
  <2>1. CASE a = row
    BY <1>a, <2>1
  <2>2. CASE LeaseExpired(row, now) /\ row.attempts >= MaxAttempts /\ a = Finished(row, "failed")
    BY <1>a, <2>2 DEF Finished, Row, RowStates, VideoStates, TerminalStates
  <2>3. CASE a = [row EXCEPT !.state = "queued", !.pod = NoPod, !.lease = 0, !.expires = 0]
    <3>1. a \in Row /\ a.state = "queued" /\ a.pod = NoPod
      BY <1>a, <2>3 DEF Row, RowStates, VideoStates, TerminalStates
    <3> QED BY <3>1, PodAssumption
  <2> QED BY <1>1, <2>1, <2>2, <2>3
<1>3. /\ b \in Row
      /\ b.state \in {"completed", "in_progress"} => b = a /\ ~Overdue(a, now)
      /\ a.state = "completed" => b = a
      /\ a.state = "failed" => b.state = "failed"
      /\ Overdue(a, now) => b.state = "failed"
  BY <1>2 DEF ReapDeadline, Overdue, IsLive, Fail, Owned, Finished, Row, RowStates, VideoStates,
     TerminalStates
<1>4. ReapRow(row) = ReapCancel(b)
  BY DEF ReapRow, a, b
<1> HIDE DEF b
<1>5. /\ ReapCancel(b).state \in {"completed", "in_progress"} => ReapCancel(b) = b
      /\ b.state \in {"completed", "failed"} => ReapCancel(b) = b
  BY <1>3 DEF ReapCancel, StaleCancel, MarkCancelled, Owned, Finished, Row
<1>6. row.state = "completed" => ReapRow(row) = row
  <2>1. row.state = "completed" => a = row
    BY <1>1
  <2> QED BY <2>1, <1>3, <1>4, <1>5
<1>7. ReapRow(row).state \in {"completed", "in_progress"}
        => row.state = ReapRow(row).state /\ row.pod = ReapRow(row).pod
  BY <1>2, <1>3, <1>4, <1>5
<1>8. ASSUME ChargedPod(row) \in Pods
      PROVE  /\ row.state = "in_progress" /\ row.pod = ChargedPod(row)
             /\ ReapRow(row).state # "in_progress"
  <2>1. /\ ChargedPod(row) = a.pod
        /\ \/ LeaseExpired(row, now) /\ row.attempts >= MaxAttempts
           \/ Overdue(a, now)
    BY <1>8, PodAssumption DEF ChargedPod, a
  <2>2. CASE LeaseExpired(row, now) /\ row.attempts >= MaxAttempts
    <3>1. a = Finished(row, "failed") /\ row.state = "in_progress"
      BY <1>1, <1>a, <2>2
    <3>2. a.state = "failed" /\ a.pod = row.pod
      BY <3>1, <1>a DEF Finished, Row
    <3> QED BY <2>1, <3>1, <3>2, <1>3, <1>4, <1>5
  <2>3. CASE ~(LeaseExpired(row, now) /\ row.attempts >= MaxAttempts) /\ Overdue(a, now)
    <3>1. a.pod \in Pods /\ a.state \in {"queued", "in_progress"}
      BY <1>8, <2>1, <2>3 DEF Overdue, IsLive
    <3>2. a = row
      BY <3>1, <1>2, <2>3
    <3>3. row.state = "in_progress"
      BY <3>1, <3>2, <1>a, PodAssumption
    <3> QED BY <2>1, <2>3, <3>2, <3>3, <1>3, <1>4, <1>5
  <2> QED BY <2>1, <2>2, <2>3
<1> QED BY <1>6, <1>7, <1>8

\* A sweep takes a job from every pod it charges, once for each charge.
LEMMA SweepCharges ==
  ASSUME IInv, Sweep, NEW p \in Pods, ChargedOnce(p)
  PROVE  ChargedOnce(p)'
<1> DEFINE X == {j \in Jobs : ChargedPod(jobs[j]) = p}
           Run == JobsOf(p, "in_progress")
<1>a. TypeOK /\ now \in Nat /\ \A j \in Jobs : RowInv(jobs[j], grants[j])
  BY DEF IInv, TypeOK
<1>b. \A j \in Jobs : jobs'[j] = ReapRow(jobs[j])
  BY DEF Sweep
<1>c. UNCHANGED grants
  BY DEF Sweep
<1>1. X \subseteq Run /\ Run' \subseteq Run \ X
  BY <1>a, <1>b, SweptRow DEF JobsOf
<1>2. JobsOf(p, "completed")' = JobsOf(p, "completed")
  BY <1>a, <1>b, SweptRow DEF JobsOf
<1>3. LeasesOf(p)' = LeasesOf(p)
  BY <1>c DEF LeasesOf
<1>4. /\ IsFiniteSet(Run) /\ Cardinality(Run) \in Nat /\ Cardinality(Run') \in Nat
      /\ Cardinality(JobsOf(p, "completed")) \in Nat
  BY CountsFinite
<1>5. pods'[p].done = pods[p].done /\ pods'[p].failed = pods[p].failed + Cardinality(X)
  BY <1>a DEF Sweep, TypeOK
<1>6. pods[p].done \in Nat
  BY <1>a DEF TypeOK
<1> HIDE DEF X, Run
<1>7. IsFiniteSet(X) /\ Cardinality(X) \in Nat
  BY <1>1, <1>4, FS_Subset, FS_CardinalityType
<1>8. Cardinality(Run \ X) = Cardinality(Run) - Cardinality(X) /\ IsFiniteSet(Run \ X)
  <2>1. Run \cap X = X
    BY <1>1
  <2>2. Cardinality(Run \ X) = Cardinality(Run) - Cardinality(Run \cap X) /\ IsFiniteSet(Run \ X)
    BY <1>4, FS_Difference
  <2> QED BY <2>1, <2>2
<1>9. Cardinality(Run') <= Cardinality(Run \ X)
  BY <1>1, <1>8, FS_Subset
<1>10. Cardinality(Run') + 0 + Cardinality(X) <= Cardinality(Run)
  BY <1>4, <1>7, <1>8, <1>9
<1>11. /\ pods'[p].done = pods[p].done + 0
       /\ Cardinality(JobsOf(p, "completed")') = Cardinality(JobsOf(p, "completed")) + 0
  BY <1>2, <1>4, <1>5, <1>6
<1> QED BY <1>a, <1>3, <1>5, <1>7, <1>10, <1>11, Settlement DEF Run

-----------------------------------------------------------------------------
(* The theorem *)

\* Each step charges its pod once for each job it ends, and nobody else.
LEMMA NextCharges ==
  ASSUME IInv, [Next]_vars, NEW p \in Pods, ChargedOnce(p)
  PROVE  ChargedOnce(p)'
<1>a. TypeOK /\ jobs \in [Jobs -> Row]
  BY DEF IInv, TypeOK
<1>1. ASSUME NEW r \in Polls, NEW q \in Pods, NEW ready \in BOOLEAN,
             NEW report \in Reports(q), Poll(r, q, ready, report)
      PROVE  ChargedOnce(p)'
  <2>1. pods'[p].done = pods[p].done /\ pods'[p].failed = pods[p].failed
    BY <1>a, <1>1 DEF Poll, TypeOK
  <2>2. Dispatches
    BY <1>a, <1>1, PollDispatches
  <2> QED BY <2>1, <2>2, DispatchCharges
<1>2. ASSUME NEW r \in Polls, PollWoken(r)
      PROVE  ChargedOnce(p)'
  <2>1. Dispatches
    BY <1>a, <1>2, WokenDispatches
  <2> QED BY <1>2, <2>1, DispatchCharges DEF PollWoken
<1>3. ASSUME NEW j \in Jobs, NEW l \in 1..Len(grants[j]),
             \/ ResultCompleted(j, l) \/ ResultCancelled(j, l) \/ ResultRetried(j, l)
             \/ \E retryable \in BOOLEAN : ResultFailed(j, l, retryable)
      PROVE  ChargedOnce(p)'
  BY <1>3, ResultCharges
<1>4. CASE Sweep
  BY <1>4, SweepCharges
<1>5. ASSUME NEW j \in Jobs, SubmitBegin(j) \/ SubmitCommit(j) \/ Delete(j)
      PROVE  ChargedOnce(p)'
  <2>1. \A i \in Jobs : /\ jobs[i].state = "completed" => jobs'[i] = jobs[i]
                        /\ jobs'[i].state \in {"completed", "in_progress"}
                             => jobs[i].state = jobs'[i].state /\ jobs[i].pod = jobs'[i].pod
    <3>1. CASE SubmitBegin(j)
      BY <1>a, <3>1 DEF SubmitBegin, AbsentRow, Row
    <3>2. CASE SubmitCommit(j)
      BY <1>a, <3>2 DEF SubmitCommit, Created, AbsentRow, Row
    <3>3. CASE Delete(j)
      BY <1>a, <3>3 DEF Delete, IsLive, CancelQueued, RequestCancel, Row
    <3> QED BY <1>5, <3>1, <3>2, <3>3
  <2>2. UNCHANGED <<grants, pods>>
    BY <1>5 DEF SubmitBegin, SubmitCommit, Delete
  <2> QED BY <1>a, <2>1, <2>2, Uncharged
<1>6. CASE Halt \/ Start
  <2>1. \A i \in Jobs : /\ jobs[i].state = "completed" => jobs'[i] = jobs[i]
                        /\ jobs'[i].state \in {"completed", "in_progress"}
                             => jobs[i].state = jobs'[i].state /\ jobs[i].pod = jobs'[i].pod
    BY <1>a, <1>6 DEF Halt, LostSubmits, AbsentRow, Start, RecoverOnStartup, Row
  <2> QED BY <1>a, <1>6, <2>1, Uncharged DEF Halt, Start
<1>7. ASSUME UNCHANGED <<jobs, grants>>,
             pods'[p].done = pods[p].done, pods'[p].failed = pods[p].failed
      PROVE  ChargedOnce(p)'
  BY <1>a, <1>7, Uncharged
<1>8. CASE AgentStep
  BY <1>8, <1>1, <1>3 DEF AgentStep
<1>9. CASE ClientStep
  <2>1. ASSUME NEW q \in Pods, NEW draining \in BOOLEAN, SetDraining(q, draining)
        PROVE  ChargedOnce(p)'
    BY <1>a, <1>7, <2>1 DEF SetDraining, TypeOK
  <2> QED BY <1>9, <1>5, <2>1 DEF ClientStep
<1>10. CASE GatewayStep
  BY <1>10, <1>2, <1>4, <1>5, <1>7 DEF GatewayStep, PollTimeout, ResultSettled
<1>11. CASE ProcessStep
  BY <1>11, <1>6, <1>7 DEF ProcessStep, Stop, Exit, Crash, Tick
<1>12. CASE UNCHANGED vars
  BY <1>12, <1>7 DEF vars
<1> QED BY <1>8, <1>9, <1>10, <1>11, <1>12 DEF Next

\* Each pod is charged for each of its leases at most once, and never for one it
\* still holds; its completions are exactly the completed jobs it ran.
THEOREM OutcomesAreChargedOnce == Spec => []OutcomesChargedOnce
<1>1. Init => OutcomesChargedOnce
  <2> SUFFICES ASSUME Init, NEW p \in Pods
               PROVE  /\ pods[p].done = Cardinality(JobsOf(p, "completed"))
                      /\ pods[p].done + pods[p].failed + Cardinality(JobsOf(p, "in_progress"))
                           <= Cardinality(LeasesOf(p))
    BY DEF OutcomesChargedOnce
  <2>1. JobsOf(p, "completed") = {} /\ JobsOf(p, "in_progress") = {}
    BY DEF Init, AbsentRow, JobsOf
  <2>2. pods[p].done = 0 /\ pods[p].failed = 0
    BY DEF Init
  <2> QED BY <2>1, <2>2, CountsFinite, FS_EmptySet
<1>2. IInv /\ OutcomesChargedOnce /\ [Next]_vars => OutcomesChargedOnce'
  <2>1. OutcomesChargedOnce <=> \A p \in Pods : ChargedOnce(p)
    BY DEF OutcomesChargedOnce, ChargedOnce
  <2>2. OutcomesChargedOnce' <=> \A p \in Pods : ChargedOnce(p)'
    BY DEF OutcomesChargedOnce, ChargedOnce
  <2> QED BY <2>1, <2>2, NextCharges
<1> QED BY <1>1, <1>2, Inductive, PTL DEF Spec
=============================================================================
