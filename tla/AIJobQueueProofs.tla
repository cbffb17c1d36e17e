-------------------------- MODULE AIJobQueueProofs --------------------------
(***************************************************************************)
(* Theorems about AIJobQueue, for every number of workers, owners, jobs,   *)
(* attempts and crashes.                                                   *)
(***************************************************************************)
EXTENDS AIJobQueue, SequenceTheorems, TLAPS

\* Closing an attempt keeps the log a sequence of attempt statuses of the same
\* length, changed only at the number attempts_count.
LEMMA CloseAttemptLog ==
  ASSUME TypeOK, NEW j \in Jobs, NEW result \in AttemptStatus,
         CloseAttempt(j, result)
  PROVE  /\ attempts' \in [Jobs -> Seq(AttemptStatus)]
         /\ \A i \in Jobs : Len(attempts'[i]) = Len(attempts[i])
         /\ \A i \in Jobs \ {j} : attempts'[i] = attempts[i]
         /\ attempts_count[j] \in 1 .. Len(attempts[j]) =>
              attempts'[j][attempts_count[j]] = result
PROOF
<1> DEFINE closed == [n \in DOMAIN attempts[j] |->
                        IF n = attempts_count[j] THEN result ELSE attempts[j][n]]
<1>1. attempts \in [Jobs -> Seq(AttemptStatus)] /\ attempts_count \in [Jobs -> Nat]
  BY DEF TypeOK
<1>2. attempts' = [attempts EXCEPT ![j] = closed]
  BY DEF CloseAttempt
<1>3. attempts[j] \in Seq(AttemptStatus)
  BY <1>1
<1>4. DOMAIN attempts[j] = 1 .. Len(attempts[j]) /\ Len(attempts[j]) \in Nat
  BY <1>3
<1>5. closed \in [1 .. Len(attempts[j]) -> AttemptStatus]
  BY <1>3, <1>4
<1>6. closed \in Seq(AttemptStatus) /\ Len(closed) = Len(attempts[j])
  BY <1>4, <1>5, SeqDef
<1>7. attempts'[j] = closed /\ \A i \in Jobs \ {j} : attempts'[i] = attempts[i]
  BY <1>1, <1>2
<1> QED
  BY <1>1, <1>2, <1>4, <1>6, <1>7

-----------------------------------------------------------------------------
\* A worker in the middle of run_once holds a job that was once stored: its row
\* may be purged, but never be a request that has yet to commit.
HoldsJob ==
  \A w \in Workers : pc[w] \in Busy =>
    work[w] \in Jobs /\ status[work[w]] \in JobStatus \cup {"GONE"}

TypeInv == TypeOK /\ HoldsJob

LEMMA TypeInit == ASSUME QueueAssumption, Init PROVE TypeInv
PROOF
<1> << >> \in Seq(AttemptStatus)
  OBVIOUS
<1> QED
  BY DEF Init, TypeInv, TypeOK, HoldsJob, NotStored, Access, Busy, BeforeResult

LEMMA TypeStep == ASSUME QueueAssumption, TypeInv, [Next]_vars PROVE TypeInv'
PROOF
<1> USE DEF TypeInv, TypeOK, HoldsJob, NotStored, NoJob, Access
<1>1. ASSUME NEW j \in Jobs,
             \/ AdmitRequest(j) \/ Enqueue(j) \/ RefuseRequest(j)
             \/ LeaseExpires(j) \/ BackoffElapses(j)
      PROVE TypeInv'
  <2> USE DEF rowVars, effectVars, accountVars, workerVars, JobStatus
  <2>1. CASE AdmitRequest(j) \/ RefuseRequest(j)
    <3>1. /\ \E s \in NotStored : status' = [status EXCEPT ![j] = s]
          /\ UNCHANGED <<leased_by, lease, due, attempts_count, attempts>>
          /\ UNCHANGED <<effectVars, accountVars, workerVars, crashes>>
      BY <2>1 DEF AdmitRequest, RefuseRequest
    <3>2. ~Stored(j)
      BY <2>1 DEF AdmitRequest, RefuseRequest, Stored
    <3>3. status' \in [Jobs -> JobStatus \cup NotStored]
      BY <3>1
    <3>4. status[j] # "GONE"
      BY <2>1 DEF AdmitRequest, RefuseRequest
    <3>5. HoldsJob'
      BY <3>1, <3>2, <3>4 DEF Stored
    <3> QED
      BY <3>1, <3>3, <3>5
  <2>2. CASE Enqueue(j)
    BY <2>2 DEF Enqueue
  <2>3. CASE LeaseExpires(j)
    BY <2>3 DEF LeaseExpires
  <2>4. CASE BackoffElapses(j)
    BY <2>4 DEF BackoffElapses
  <2> QED
    BY <1>1, <2>1, <2>2, <2>3, <2>4
<1>2. ASSUME NEW w \in Workers, ServeQueue(w) \/ Heartbeat(w) \/ Crash(w) \/ Restart(w)
      PROVE TypeInv'
  <2> USE DEF rowVars, effectVars, accountVars, workerVars, Goto, Finish, ReleaseLease,
              Busy, BeforeResult
  <2>1. CASE Claim(w)
    <3>1. PICK job \in Jobs : ClaimRow(w, job)
      BY <2>1 DEF Claim
    <3>2. Append(attempts[job], "RUNNING") \in Seq(AttemptStatus)
      BY AppendProperties DEF AttemptStatus
    <3>3. HoldsJob'
      BY <3>1 DEF ClaimRow, JobStatus
    <3>4. /\ status' \in [Jobs -> JobStatus \cup NotStored]
          /\ leased_by' \in [Jobs -> Workers \cup {Nobody}]
          /\ lease' \in [Jobs -> {"none", "live", "expired"}]
      BY <3>1 DEF ClaimRow, JobStatus
    <3>5. /\ attempts_count' \in [Jobs -> Nat]
          /\ attempts' \in [Jobs -> Seq(AttemptStatus)]
      BY <3>1, <3>2 DEF ClaimRow
    <3>6. /\ pc' \in [Workers -> Busy \cup {"idle", "down", "exited"}]
          /\ work' \in [Workers -> Jobs \cup {NoJob}]
          /\ UNCHANGED <<due, drafts, usage, access, purgers, tokens, crashes>>
      BY <3>1 DEF ClaimRow
    <3> QED
      BY <3>3, <3>4, <3>5, <3>6
  <2>2. CASE CompleteJob(w)
    <3>1. attempts' \in [Jobs -> Seq(AttemptStatus)]
      BY <2>2, CloseAttemptLog DEF CompleteJob, AttemptStatus
    <3>2. work[w] \in Jobs
      BY <2>2 DEF CompleteJob
    <3>3. usage' \in [Jobs -> Nat]
      <4>1. \/ usage' = [usage EXCEPT ![work[w]] = usage[work[w]] + 1]
            \/ usage' = [usage EXCEPT ![work[w]] = usage[work[w]]]
        BY <2>2, Zenon DEF CompleteJob
      <4> QED
        BY <3>2, <4>1
    <3>4. /\ status' \in [Jobs -> JobStatus \cup NotStored]
          /\ leased_by' \in [Jobs -> Workers \cup {Nobody}]
          /\ lease' \in [Jobs -> {"none", "live", "expired"}]
      BY <2>2, <3>2 DEF CompleteJob, JobStatus
    <3>5. /\ pc' \in [Workers -> Busy \cup {"idle", "down", "exited"}]
          /\ work' \in [Workers -> Jobs \cup {NoJob}]
          /\ tokens' \in [Workers -> BOOLEAN]
      BY <2>2 DEF CompleteJob
    <3>6. HoldsJob'
      BY <2>2, <3>2 DEF CompleteJob, JobStatus
    <3> QED
      BY <2>2, <3>1, <3>3, <3>4, <3>5, <3>6 DEF CompleteJob
  <2>3. CASE FailJob(w)
    <3>1. attempts' \in [Jobs -> Seq(AttemptStatus)]
      BY <2>3, CloseAttemptLog DEF FailJob, AttemptStatus
    <3> QED
      BY <2>3, <3>1 DEF FailJob, AfterFailure, JobStatus
  <2>4. CASE CancelJob(w)
    <3>1. attempts' \in [Jobs -> Seq(AttemptStatus)]
      BY <2>4, CloseAttemptLog DEF CancelJob, AttemptStatus
    <3> QED
      BY <2>4, <3>1 DEF CancelJob, JobStatus
  <2>5. CASE CheckOwner(w)
    <3>1. UNCHANGED <<rowVars, effectVars, accountVars, crashes>> /\ pc[w] \in Busy
      BY <2>5 DEF CheckOwner
    <3>2. \/ Finish(w, "idle")
          \/ Goto(w, "starting") /\ UNCHANGED <<work, tokens>>
          \/ Goto(w, "canceling") /\ UNCHANGED <<work, tokens>>
      BY <2>5 DEF CheckOwner
    <3>3. HoldsJob'
      BY <3>1, <3>2
    <3>4. /\ pc' \in [Workers -> Busy \cup {"idle", "down", "exited"}]
          /\ work' \in [Workers -> Jobs \cup {NoJob}]
          /\ tokens' \in [Workers -> BOOLEAN]
      BY <3>2
    <3> QED
      BY <3>1, <3>3, <3>4
  <2>6. CASE FindExisting(w)
    BY <2>6 DEF FindExisting
  <2>7. CASE LockDocument(w)
    BY <2>7 DEF LockDocument
  <2>8. CASE Land(w)
    BY <2>8 DEF Land
  <2>9. CASE Raise(w)
    BY <2>9 DEF Raise
  <2>10. CASE LookupFails(w)
    BY <2>10 DEF LookupFails
  <2>11. CASE Heartbeat(w)
    BY <2>11 DEF Heartbeat
  <2>12. CASE Crash(w)
    BY <2>12 DEF Crash
  <2>13. CASE Restart(w)
    BY <2>13 DEF Restart
  <2> QED
    BY <1>2, <2>1, <2>2, <2>3, <2>4, <2>5, <2>6, <2>7, <2>8, <2>9, <2>10, <2>11,
       <2>12, <2>13 DEF ServeQueue
<1>3. ASSUME NEW o \in Owners, NEW p \in Purgers,
             \/ RequestDeletion(o) \/ DisableAI(o) \/ EnableAI(o) \/ CancelDeletion(o)
             \/ PurgeBegin(o, p) \/ PurgeFinish(o, p) \/ PurgeGivesUp(o, p)
      PROVE TypeInv'
  <2> USE DEF rowVars, effectVars, accountVars, workerVars, JobStatus, CancelRows
  <2>1. CASE RequestDeletion(o)
    BY <2>1 DEF RequestDeletion
  <2>2. CASE DisableAI(o)
    BY <2>2 DEF DisableAI
  <2>3. CASE EnableAI(o)
    BY <2>3 DEF EnableAI
  <2>4. CASE CancelDeletion(o)
    BY <2>4 DEF CancelDeletion
  <2>5. CASE PurgeBegin(o, p)
    BY <2>5 DEF PurgeBegin
  <2>6. CASE PurgeFinish(o, p)
    <3>1. << >> \in Seq(AttemptStatus)
      OBVIOUS
    <3> QED
      BY <2>6, <3>1 DEF PurgeFinish
  <2>7. CASE PurgeGivesUp(o, p)
    BY <2>7 DEF PurgeGivesUp
  <2> QED
    BY <1>3, <2>1, <2>2, <2>3, <2>4, <2>5, <2>6, <2>7
<1>4. CASE UNCHANGED vars
  BY <1>4 DEF vars, rowVars, effectVars, accountVars, workerVars
<1> QED
  BY <1>1, <1>2, <1>3, <1>4 DEF Next, Purgers

\* Every variable keeps its type, and a busy worker always holds a job: the
\* column types of models.py and the local variables of run_once.
THEOREM TypeCorrect == ASSUME QueueAssumption PROVE Spec => []TypeOK
PROOF
<1>1. Init => TypeInv
  BY TypeInit
<1>2. TypeInv /\ [Next]_vars => TypeInv'
  BY TypeStep
<1>3. TypeInv => TypeOK
  BY DEF TypeInv
<1> QED
  BY <1>1, <1>2, <1>3, PTL DEF Spec

-----------------------------------------------------------------------------
(* The lease of a row.                                                     *)

LEMMA LeaseStep ==
  ASSUME QueueAssumption, TypeInv, LeaseHeldIffRunning, [Next]_vars
  PROVE  LeaseHeldIffRunning'
PROOF
<1> USE DEF LeaseHeldIffRunning, TypeInv, TypeOK, HoldsJob, QueueAssumption
<1>1. ASSUME NEW j \in Jobs,
             \/ AdmitRequest(j) \/ Enqueue(j) \/ RefuseRequest(j)
             \/ LeaseExpires(j) \/ BackoffElapses(j)
      PROVE LeaseHeldIffRunning'
  BY <1>1 DEF AdmitRequest, Enqueue, RefuseRequest, LeaseExpires, BackoffElapses, rowVars
<1>2. ASSUME NEW w \in Workers, ServeQueue(w) \/ Heartbeat(w) \/ Crash(w) \/ Restart(w)
      PROVE LeaseHeldIffRunning'
  <2> USE DEF rowVars, Busy, BeforeResult
  <2>1. CASE Claim(w)
    <3>1. PICK job \in Jobs : ClaimRow(w, job)
      BY <2>1 DEF Claim
    <3> QED
      BY <3>1 DEF ClaimRow, Expired
  <2>2. CASE CompleteJob(w) \/ FailJob(w) \/ CancelJob(w)
    BY <2>2 DEF CompleteJob, FailJob, CancelJob, ReleaseLease, AfterFailure
  <2>3. CASE \/ CheckOwner(w) \/ FindExisting(w) \/ LockDocument(w) \/ Land(w)
             \/ Raise(w) \/ LookupFails(w) \/ Crash(w) \/ Restart(w)
    BY <2>3 DEF CheckOwner, FindExisting, LockDocument, Land, Raise, LookupFails,
       Crash, Restart
  <2>4. CASE Heartbeat(w)
    BY <2>4 DEF Heartbeat
  <2> QED
    BY <1>2, <2>1, <2>2, <2>3, <2>4 DEF ServeQueue
<1>3. ASSUME NEW o \in Owners, NEW p \in Purgers,
             \/ RequestDeletion(o) \/ DisableAI(o) \/ EnableAI(o) \/ CancelDeletion(o)
             \/ PurgeBegin(o, p) \/ PurgeFinish(o, p) \/ PurgeGivesUp(o, p)
      PROVE LeaseHeldIffRunning'
  <2> USE DEF rowVars, CancelRows, JobsOf
  <2>1. CASE RequestDeletion(o) \/ DisableAI(o) \/ EnableAI(o) \/ CancelDeletion(o)
    BY <2>1 DEF RequestDeletion, DisableAI, EnableAI, CancelDeletion, Unstarted
  <2>2. CASE PurgeBegin(o, p)
    BY <2>2 DEF PurgeBegin
  <2>3. CASE PurgeFinish(o, p)
    BY <2>3 DEF PurgeFinish, Stored, JobStatus
  <2>4. CASE PurgeGivesUp(o, p)
    BY <2>4 DEF PurgeGivesUp
  <2> QED
    BY <1>3, <2>1, <2>2, <2>3, <2>4
<1>4. CASE UNCHANGED vars
  BY <1>4 DEF vars, rowVars
<1> QED
  BY <1>1, <1>2, <1>3, <1>4 DEF Next, Purgers

\* A row is RUNNING exactly while it has a lease and a holder, for any number of
\* workers: queue.claim_next_job never strands a row without a lease that could
\* expire, and never requeues one that is not running.
THEOREM LeaseDiscipline == ASSUME QueueAssumption PROVE Spec => []LeaseHeldIffRunning
PROOF
<1>1. Init => TypeInv /\ LeaseHeldIffRunning
  BY TypeInit DEF Init, LeaseHeldIffRunning
<1>2. TypeInv /\ LeaseHeldIffRunning /\ [Next]_vars => TypeInv' /\ LeaseHeldIffRunning'
  BY TypeStep, LeaseStep
<1> QED
  BY <1>1, <1>2, PTL DEF Spec

-----------------------------------------------------------------------------
(* The draft of a job and the token counts booked for it.  A worker that   *)
(* is about to complete a job knows that its draft is there; at most one   *)
(* worker carries the token counts of a draft, and then they are not yet   *)
(* booked.                                                                 *)

CompletingHasDraft ==
  \A w \in Workers : pc[w] = "completing" /\ Stored(work[w]) => drafts[work[w]] = 1

TokensCarriedOnce ==
  \A w \in Workers : tokens[w] =>
    /\ pc[w] = "completing"
    /\ Stored(work[w]) => usage[work[w]] = 0
    /\ \A v \in Workers : tokens[v] /\ work[v] = work[w] => v = w

NothingUnstored == \A j \in Jobs : ~Stored(j) => drafts[j] = 0 /\ usage[j] = 0

DraftInv == /\ OneDraftPerJob /\ SuccessHasDraft /\ UsageBookedOncePerDraft
            /\ CompletingHasDraft /\ TokensCarriedOnce /\ NothingUnstored

LEMMA DraftInit == ASSUME Init PROVE DraftInv
PROOF
BY DEF Init, DraftInv, OneDraftPerJob, SuccessHasDraft, UsageBookedOncePerDraft,
   CompletingHasDraft, TokensCarriedOnce, NothingUnstored, Stored, JobStatus

LEMMA DraftStep ==
  ASSUME QueueAssumption, TypeInv, DraftInv, [Next]_vars
  PROVE  DraftInv'
PROOF
<1> USE DEF DraftInv, OneDraftPerJob, SuccessHasDraft, UsageBookedOncePerDraft,
            CompletingHasDraft, TokensCarriedOnce, NothingUnstored,
            TypeInv, TypeOK, HoldsJob, Stored, JobStatus
<1>1. ASSUME NEW j \in Jobs,
             \/ AdmitRequest(j) \/ Enqueue(j) \/ RefuseRequest(j)
             \/ LeaseExpires(j) \/ BackoffElapses(j)
      PROVE DraftInv'
  <2> USE DEF effectVars, workerVars, rowVars, Busy
  <2>1. CASE AdmitRequest(j)
    BY <2>1 DEF AdmitRequest
  <2>2. CASE RefuseRequest(j)
    BY <2>2 DEF RefuseRequest
  <2>3. CASE Enqueue(j)
    BY <2>3 DEF Enqueue
  <2>4. CASE LeaseExpires(j) \/ BackoffElapses(j)
    BY <2>4 DEF LeaseExpires, BackoffElapses
  <2> QED
    BY <1>1, <2>1, <2>2, <2>3, <2>4
<1>2. ASSUME NEW w \in Workers, ServeQueue(w) \/ Heartbeat(w) \/ Crash(w) \/ Restart(w)
      PROVE DraftInv'
  <2> USE DEF rowVars, effectVars, workerVars, Busy, BeforeResult, Goto, Finish
  <2>1. CASE Claim(w)
    <3>1. PICK job \in Jobs : ClaimRow(w, job) /\ Claimable(job)
      BY <2>1 DEF Claim
    <3>2. Idle(w)
      BY <2>1 DEF Claim
    <3> QED
      BY <3>1, <3>2 DEF ClaimRow, Expired, Claimable, Idle
  <2>2. CASE CompleteJob(w)
    BY <2>2 DEF CompleteJob
  <2>3. CASE FailJob(w)
    BY <2>3 DEF FailJob, AfterFailure
  <2>4. CASE CancelJob(w)
    BY <2>4 DEF CancelJob
  <2>5. CASE CheckOwner(w) \/ LockDocument(w) \/ LookupFails(w) \/ Raise(w)
    BY <2>5 DEF CheckOwner, LockDocument, LookupFails, Raise
  <2>6. CASE FindExisting(w)
    <3>1. work[w] \in Jobs
      BY <2>6 DEF FindExisting
    <3>2. CASE drafts[work[w]] > 0
      <4>1. drafts[work[w]] = 1
        BY <3>1, <3>2
      <4>2. pc' = [pc EXCEPT ![w] = "completing"]
        BY <2>6, <3>2 DEF FindExisting
      <4> QED
        BY <2>6, <4>1, <4>2 DEF FindExisting
    <3>3. CASE ~(drafts[work[w]] > 0)
      BY <2>6, <3>3 DEF FindExisting
    <3> QED
      BY <3>2, <3>3
  <2>7. CASE Land(w)
    <3>1. work[w] \in Jobs /\ usage[work[w]] = 0
      <4>1. work[w] \in Jobs
        BY <2>7 DEF Land
      <4>2. drafts[work[w]] = 0 /\ usage[work[w]] <= drafts[work[w]]
        BY <2>7, <4>1 DEF Land
      <4> QED
        BY <4>1, <4>2
    <3>2. \A v \in Workers : tokens[v] => work[v] # work[w]
      BY <2>7, <3>1 DEF Land
    <3>3. OneDraftPerJob' /\ SuccessHasDraft' /\ UsageBookedOncePerDraft' /\ NothingUnstored'
      BY <2>7, <3>1 DEF Land
    <3>4. CompletingHasDraft'
      BY <2>7, <3>1 DEF Land
    <3>5. TokensCarriedOnce'
      BY <2>7, <3>1, <3>2 DEF Land
    <3> QED
      BY <3>3, <3>4, <3>5
  <2>8. CASE Heartbeat(w)
    BY <2>8 DEF Heartbeat
  <2>9. CASE Crash(w) \/ Restart(w)
    BY <2>9 DEF Crash, Restart
  <2> QED
    BY <1>2, <2>1, <2>2, <2>3, <2>4, <2>5, <2>6, <2>7, <2>8, <2>9 DEF ServeQueue
<1>3. ASSUME NEW o \in Owners, NEW p \in Purgers,
             \/ RequestDeletion(o) \/ DisableAI(o) \/ EnableAI(o) \/ CancelDeletion(o)
             \/ PurgeBegin(o, p) \/ PurgeFinish(o, p) \/ PurgeGivesUp(o, p)
      PROVE DraftInv'
  <2> USE DEF rowVars, effectVars, workerVars, CancelRows, JobsOf
  <2>1. CASE RequestDeletion(o)
    BY <2>1 DEF RequestDeletion, Unstarted, Busy
  <2>2. CASE DisableAI(o)
    BY <2>2 DEF DisableAI, Unstarted, Busy
  <2>3. CASE EnableAI(o) \/ CancelDeletion(o) \/ PurgeGivesUp(o, p)
    BY <2>3 DEF EnableAI, CancelDeletion, PurgeGivesUp
  <2>4. CASE PurgeBegin(o, p)
    BY <2>4 DEF PurgeBegin, Busy
  <2>5. CASE PurgeFinish(o, p)
    BY <2>5 DEF PurgeFinish, Busy
  <2> QED
    BY <1>3, <2>1, <2>2, <2>3, <2>4, <2>5
<1>4. CASE UNCHANGED vars
  BY <1>4 DEF vars, rowVars, effectVars, workerVars
<1> QED
  BY <1>1, <1>2, <1>3, <1>4 DEF Next, Purgers

\* However many workers execute a job and wherever they crash, it leaves at most
\* one draft version, it is SUCCEEDED only when that version exists, and its
\* tokens are booked at most once.
THEOREM OneDraft ==
  ASSUME QueueAssumption
  PROVE  Spec => []DraftAndBillAgree
PROOF
<1>1. Init => TypeInv /\ DraftInv
  BY TypeInit, DraftInit
<1>2. TypeInv /\ DraftInv /\ [Next]_vars => TypeInv' /\ DraftInv'
  BY TypeStep, DraftStep
<1>3. DraftInv => DraftAndBillAgree
  BY DEF DraftInv, DraftAndBillAgree
<1> QED
  BY <1>1, <1>2, <1>3, PTL DEF Spec

-----------------------------------------------------------------------------
(* The attempt log.  A worker that holds a stored job claimed it once, so  *)
(* the row has an attempt to close.                                        *)

HeldHasAttempt ==
  \A w \in Workers : pc[w] \in Busy /\ Stored(work[w]) => attempts_count[work[w]] > 0

LogInv == AttemptLogAgrees /\ FailedOnlyWhenExhausted /\ HeldHasAttempt

LEMMA LogInit == ASSUME Init PROVE LogInv
PROOF
<1> Len(<< >>) = 0
  OBVIOUS
<1> QED
  BY DEF Init, LogInv, AttemptLogAgrees, FailedOnlyWhenExhausted, HeldHasAttempt, Busy,
     BeforeResult

LEMMA LogStep ==
  ASSUME QueueAssumption, TypeInv, LogInv, [Next]_vars
  PROVE  LogInv'
PROOF
<1> USE DEF LogInv, AttemptLogAgrees, FailedOnlyWhenExhausted, HeldHasAttempt,
            TypeInv, TypeOK, HoldsJob, Stored, JobStatus, QueueAssumption
<1>1. ASSUME NEW j \in Jobs,
             \/ AdmitRequest(j) \/ Enqueue(j) \/ RefuseRequest(j)
             \/ LeaseExpires(j) \/ BackoffElapses(j)
      PROVE LogInv'
  <2> USE DEF workerVars, rowVars
  <2>1. CASE AdmitRequest(j)
    BY <2>1 DEF AdmitRequest
  <2>2. CASE RefuseRequest(j)
    BY <2>2 DEF RefuseRequest
  <2>3. CASE Enqueue(j)
    BY <2>3 DEF Enqueue
  <2>4. CASE LeaseExpires(j) \/ BackoffElapses(j)
    BY <2>4 DEF LeaseExpires, BackoffElapses
  <2> QED
    BY <1>1, <2>1, <2>2, <2>3, <2>4
<1>2. ASSUME NEW w \in Workers, ServeQueue(w) \/ Heartbeat(w) \/ Crash(w) \/ Restart(w)
      PROVE LogInv'
  <2> USE DEF rowVars, effectVars, workerVars, Busy, BeforeResult, Goto, Finish
  <2>1. CASE Claim(w)
    <3>1. PICK job \in Jobs : ClaimRow(w, job) /\ Claimable(job)
      BY <2>1 DEF Claim
    <3>2. /\ attempts'[job] = Append(attempts[job], "RUNNING")
          /\ Len(attempts'[job]) = Len(attempts[job]) + 1
      BY <3>1, AppendProperties DEF ClaimRow, AttemptStatus
    <3>3. AttemptLogAgrees'
      BY <3>1, <3>2 DEF ClaimRow, Expired
    <3>4. FailedOnlyWhenExhausted' /\ HeldHasAttempt'
      BY <3>1 DEF ClaimRow, Expired
    <3> QED
      BY <3>3, <3>4
  <2>2. ASSUME NEW result \in AttemptStatus, CloseAttempt(work[w], result), pc[w] \in Busy,
               Stored(work[w]),
               \/ CompleteJob(w) /\ result = "SUCCEEDED"
               \/ FailJob(w) /\ result = "FAILED"
               \/ CancelJob(w) /\ result = "CANCELED"
        PROVE LogInv'
    <3> DEFINE j == work[w]
    <3>1. j \in Jobs /\ attempts_count[j] > 0 /\ attempts_count[j] = Len(attempts[j])
      BY <2>2
    <3>2. /\ \A i \in Jobs : Len(attempts'[i]) = Len(attempts[i])
          /\ \A i \in Jobs \ {j} : attempts'[i] = attempts[i]
          /\ attempts'[j][attempts_count[j]] = result
      <4>1. TypeOK
        OBVIOUS
      <4>2. attempts_count[j] \in 1 .. Len(attempts[j])
        BY <3>1
      <4> HIDE DEF TypeOK, j
      <4> QED
        BY <2>2, <3>1, <4>1, <4>2, CloseAttemptLog DEF j
    <3>3. /\ attempts_count' = attempts_count
          /\ \A i \in Jobs \ {j} : status'[i] = status[i]
          /\ status'[j] \in {"QUEUED", result}
          /\ status'[j] = "FAILED" => attempts_count[j] >= MaxAttempts
          /\ pc' = [pc EXCEPT ![w] = "idle"]
          /\ work' = [work EXCEPT ![w] = NoJob]
      BY <2>2, <3>1 DEF CompleteJob, FailJob, CancelJob, AfterFailure
    <3>4. AttemptLogAgrees'
      BY <3>1, <3>2, <3>3
    <3>5. FailedOnlyWhenExhausted' /\ HeldHasAttempt'
      BY <3>1, <3>3
    <3> QED
      BY <3>4, <3>5
  <2>3. CASE CompleteJob(w) \/ FailJob(w) \/ CancelJob(w)
    BY <2>2, <2>3 DEF CompleteJob, FailJob, CancelJob, AttemptStatus
  <2>4. CASE \/ CheckOwner(w) \/ FindExisting(w) \/ LockDocument(w) \/ Land(w)
             \/ Raise(w) \/ LookupFails(w)
    BY <2>4 DEF CheckOwner, FindExisting, LockDocument, Land, Raise, LookupFails
  <2>5. CASE Heartbeat(w) \/ Crash(w) \/ Restart(w)
    BY <2>5 DEF Heartbeat, Crash, Restart
  <2> QED
    BY <1>2, <2>1, <2>3, <2>4, <2>5 DEF ServeQueue
<1>3. ASSUME NEW o \in Owners, NEW p \in Purgers,
             \/ RequestDeletion(o) \/ DisableAI(o) \/ EnableAI(o) \/ CancelDeletion(o)
             \/ PurgeBegin(o, p) \/ PurgeFinish(o, p) \/ PurgeGivesUp(o, p)
      PROVE LogInv'
  <2> USE DEF rowVars, effectVars, workerVars, CancelRows, JobsOf
  <2>1. CASE RequestDeletion(o)
    BY <2>1 DEF RequestDeletion, Unstarted
  <2>2. CASE DisableAI(o)
    BY <2>2 DEF DisableAI, Unstarted
  <2>3. CASE EnableAI(o) \/ CancelDeletion(o) \/ PurgeGivesUp(o, p)
    BY <2>3 DEF EnableAI, CancelDeletion, PurgeGivesUp
  <2>4. CASE PurgeBegin(o, p)
    BY <2>4 DEF PurgeBegin
  <2>5. CASE PurgeFinish(o, p)
    <3>1. Len(<< >>) = 0
      OBVIOUS
    <3> QED
      BY <2>5, <3>1 DEF PurgeFinish
  <2> QED
    BY <1>3, <2>1, <2>2, <2>3, <2>4, <2>5
<1>4. CASE UNCHANGED vars
  BY <1>4 DEF vars, rowVars, workerVars
<1> QED
  BY <1>1, <1>2, <1>3, <1>4 DEF Next, Purgers

\* The attempt rows are exactly the claims made, the last of them says how a
\* finished job finished, and a job FAILED only with its attempts spent.
THEOREM AttemptLog ==
  ASSUME QueueAssumption PROVE Spec => []RowsAgree
PROOF
<1>1. Init => TypeInv /\ LogInv
  BY TypeInit, LogInit
<1>2. TypeInv /\ LogInv /\ [Next]_vars => TypeInv' /\ LogInv'
  BY TypeStep, LogStep
<1>3. LogInv /\ LeaseHeldIffRunning => RowsAgree
  BY DEF LogInv, RowsAgree
<1> QED
  BY <1>1, <1>2, <1>3, LeaseDiscipline, PTL DEF Spec

LEMMA FailedStep ==
  ASSUME QueueAssumption, TypeInv, LogInv, [Next]_vars,
         NEW j \in Jobs, status[j] = "FAILED"
  PROVE  status'[j] \notin {"QUEUED", "RUNNING"}
PROOF
<1> USE DEF TypeInv, TypeOK, rowVars, Stored, JobStatus
<1>1. ASSUME NEW i \in Jobs,
             \/ AdmitRequest(i) \/ Enqueue(i) \/ RefuseRequest(i)
             \/ LeaseExpires(i) \/ BackoffElapses(i)
      PROVE status'[j] = "FAILED"
  BY <1>1 DEF AdmitRequest, Enqueue, RefuseRequest, LeaseExpires, BackoffElapses
<1>2. ASSUME NEW w \in Workers, ServeQueue(w) \/ Heartbeat(w) \/ Crash(w) \/ Restart(w)
      PROVE status'[j] \notin {"QUEUED", "RUNNING"}
  <2>1. CASE Claim(w)
    <3>1. PICK job \in Jobs : ClaimRow(w, job) /\ Claimable(job)
      BY <2>1 DEF Claim
    <3> QED
      BY <3>1 DEF ClaimRow, Claimable, Expired
  <2>2. CASE FailJob(w)
    BY <2>2 DEF FailJob, AfterFailure, LogInv, FailedOnlyWhenExhausted
  <2>3. CASE CompleteJob(w) \/ CancelJob(w)
    BY <2>3 DEF CompleteJob, CancelJob
  <2>4. CASE \/ CheckOwner(w) \/ FindExisting(w) \/ LockDocument(w) \/ Land(w)
             \/ Raise(w) \/ LookupFails(w) \/ Heartbeat(w) \/ Crash(w) \/ Restart(w)
    BY <2>4 DEF CheckOwner, FindExisting, LockDocument, Land, Raise, LookupFails,
       Heartbeat, Crash, Restart
  <2> QED
    BY <1>2, <2>1, <2>2, <2>3, <2>4 DEF ServeQueue
<1>3. ASSUME NEW o \in Owners, NEW p \in Purgers,
             \/ RequestDeletion(o) \/ DisableAI(o) \/ EnableAI(o) \/ CancelDeletion(o)
             \/ PurgeBegin(o, p) \/ PurgeFinish(o, p) \/ PurgeGivesUp(o, p)
      PROVE status'[j] \notin {"QUEUED", "RUNNING"}
  BY <1>3 DEF RequestDeletion, DisableAI, EnableAI, CancelDeletion, PurgeBegin,
     PurgeFinish, PurgeGivesUp, CancelRows, Unstarted, JobsOf
<1>4. CASE UNCHANGED vars
  BY <1>4 DEF vars
<1> QED
  BY <1>1, <1>2, <1>3, <1>4 DEF Next, Purgers

\* A job that FAILED is never queued or run again, whichever workers still hold
\* it and report late.
THEOREM FailedIsOver == ASSUME QueueAssumption PROVE Spec => FailedNeverRunsAgain
PROOF
<1>1. Init => TypeInv /\ LogInv
  BY TypeInit, LogInit
<1>2. TypeInv /\ LogInv /\ [Next]_vars => TypeInv' /\ LogInv'
  BY TypeStep, LogStep
<1>3. TypeInv /\ LogInv /\ [Next]_vars =>
        [\A j \in Jobs : status[j] = "FAILED" => status'[j] \notin {"QUEUED", "RUNNING"}]_vars
  BY FailedStep
<1> QED
  BY <1>1, <1>2, <1>3, PTL DEF Spec, FailedNeverRunsAgain

-----------------------------------------------------------------------------
(* The deployment of compose.production.yaml: one worker, and no purge from *)
(* the command line while it runs.  The job the worker holds is RUNNING     *)
(* until the worker itself ends it, and between the transactions of a purge *)
(* the worker is the purger and nothing of the owner runs.                  *)

Deployed == CliPurge = FALSE /\ \E w \in Workers : Workers = {w}

HeldIsRunning == \A w \in Workers : pc[w] \in Busy => status[work[w]] = "RUNNING"

PurgeIsAlone ==
  \A o \in Owners, p \in Purgers : p \in purgers[o] =>
    /\ p \in Workers
    /\ pc[p] \notin Busy
    /\ \A j \in JobsOf(o) : status[j] # "RUNNING"

DeployedInv == HeldIsRunning /\ PurgeIsAlone /\ NoWorkerExits

LEMMA DeployedInit == ASSUME Init PROVE DeployedInv
PROOF
BY DEF Init, DeployedInv, HeldIsRunning, PurgeIsAlone, NoWorkerExits, Busy, BeforeResult

LEMMA DeployedStep ==
  ASSUME QueueAssumption, Deployed, TypeInv, DeployedInv, [Next]_vars
  PROVE  DeployedInv'
PROOF
<1> USE DEF DeployedInv, HeldIsRunning, PurgeIsAlone, NoWorkerExits, Deployed, TypeInv,
            TypeOK, HoldsJob, QueueAssumption, JobStatus, JobsOf, Purgers
<1>1. ASSUME NEW j \in Jobs,
             \/ AdmitRequest(j) \/ Enqueue(j) \/ RefuseRequest(j)
             \/ LeaseExpires(j) \/ BackoffElapses(j)
      PROVE DeployedInv'
  <2> USE DEF workerVars, rowVars, accountVars
  <2>1. CASE AdmitRequest(j)
    BY <2>1 DEF AdmitRequest
  <2>2. CASE RefuseRequest(j)
    BY <2>2 DEF RefuseRequest
  <2>3. CASE Enqueue(j)
    BY <2>3 DEF Enqueue
  <2>4. CASE LeaseExpires(j) \/ BackoffElapses(j)
    BY <2>4 DEF LeaseExpires, BackoffElapses
  <2> QED
    BY <1>1, <2>1, <2>2, <2>3, <2>4
<1>2. ASSUME NEW w \in Workers, ServeQueue(w) \/ Heartbeat(w) \/ Crash(w) \/ Restart(w)
      PROVE DeployedInv'
  <2> USE DEF rowVars, effectVars, workerVars, accountVars, Busy, BeforeResult, Goto, Finish
  <2>0. Workers = {w}
    OBVIOUS
  <2>1. CASE Claim(w)
    <3>1. PICK job \in Jobs : ClaimRow(w, job)
      BY <2>1 DEF Claim
    <3>2. Idle(w)
      BY <2>1 DEF Claim
    <3>3. \A o \in Owners, p \in Purgers : p \notin purgers[o]
      BY <2>0, <3>2 DEF Idle
    <3>4. PurgeIsAlone'
      BY <3>1, <3>3 DEF ClaimRow
    <3>5. HeldIsRunning' /\ NoWorkerExits'
      BY <2>0, <3>1 DEF ClaimRow
    <3> QED
      BY <3>4, <3>5
  <2>2. CASE CompleteJob(w)
    BY <2>0, <2>2 DEF CompleteJob
  <2>3. CASE FailJob(w)
    BY <2>0, <2>3 DEF FailJob, AfterFailure
  <2>4. CASE CancelJob(w)
    BY <2>0, <2>4 DEF CancelJob
  <2>5. CASE \/ CheckOwner(w) \/ FindExisting(w) \/ LockDocument(w) \/ Land(w)
             \/ Raise(w)
    BY <2>0, <2>5 DEF CheckOwner, FindExisting, LockDocument, Land, Raise, Stored
  <2>6. CASE LookupFails(w)
    BY <2>6 DEF LookupFails, Stored
  <2>7. CASE Heartbeat(w)
    BY <2>7 DEF Heartbeat
  <2>8. CASE Crash(w) \/ Restart(w)
    BY <2>0, <2>8 DEF Crash, Restart
  <2> QED
    BY <1>2, <2>1, <2>2, <2>3, <2>4, <2>5, <2>6, <2>7, <2>8 DEF ServeQueue
<1>3. ASSUME NEW o \in Owners, NEW p \in Purgers,
             \/ RequestDeletion(o) \/ DisableAI(o) \/ EnableAI(o) \/ CancelDeletion(o)
             \/ PurgeBegin(o, p) \/ PurgeFinish(o, p) \/ PurgeGivesUp(o, p)
      PROVE DeployedInv'
  <2> USE DEF rowVars, effectVars, workerVars, accountVars, CancelRows
  <2>1. CASE RequestDeletion(o)
    BY <2>1 DEF RequestDeletion, Unstarted
  <2>2. CASE DisableAI(o)
    BY <2>2 DEF DisableAI, Unstarted
  <2>3. CASE EnableAI(o) \/ CancelDeletion(o)
    BY <2>3 DEF EnableAI, CancelDeletion
  <2>4. CASE PurgeBegin(o, p)
    <3>1. p \in Workers /\ pc[p] = "idle" /\ Workers = {p}
      BY <2>4 DEF PurgeBegin, MayPurge, Idle
    <3>2. HeldIsRunning' /\ NoWorkerExits'
      BY <2>4, <3>1 DEF PurgeBegin, Busy, BeforeResult
    <3>3. PurgeIsAlone'
      BY <2>4, <3>1 DEF PurgeBegin, Busy, BeforeResult
    <3> QED
      BY <3>2, <3>3
  <2>5. CASE PurgeFinish(o, p)
    BY <2>5 DEF PurgeFinish, Stored
  <2>6. CASE PurgeGivesUp(o, p)
    BY <2>6 DEF PurgeGivesUp
  <2> QED
    BY <1>3, <2>1, <2>2, <2>3, <2>4, <2>5, <2>6
<1>4. CASE UNCHANGED vars
  BY <1>4 DEF vars, rowVars, workerVars, accountVars
<1> QED
  BY <1>1, <1>2, <1>3, <1>4 DEF Next

\* In the deployed topology no row is deleted under the worker: its process never
\* ends on a LookupError.
THEOREM DeployedWorkerSurvives ==
  ASSUME QueueAssumption, Deployed PROVE Spec => []NoWorkerExits
PROOF
<1>1. Init => TypeInv /\ DeployedInv
  BY TypeInit, DeployedInit
<1>2. TypeInv /\ DeployedInv /\ [Next]_vars => TypeInv' /\ DeployedInv'
  BY TypeStep, DeployedStep
<1>3. DeployedInv => NoWorkerExits
  BY DEF DeployedInv
<1> QED
  BY <1>1, <1>2, <1>3, PTL DEF Spec

(* The deployed queue implements JobLifecycle: what each action does to one *)
(* job, stated on status and drafts, is a step of the abstract machine.     *)

LifecycleStep(i) ==
  \/ Lifecycle!Submit(i) \/ Lifecycle!Start(i) \/ Lifecycle!Land(i)
  \/ Lifecycle!Succeed(i) \/ Lifecycle!Retry(i) \/ Lifecycle!Fail(i)
  \/ Lifecycle!Cancel(i) \/ Lifecycle!Erase(i) \/ Lifecycle!Rest(i)

LEMMA StatusStep ==
  ASSUME NEW i \in Jobs, TypeOK, TypeOK', DraftInv,
         \/ drafts'[i] = drafts[i] /\ \/ status'[i] = status[i]
                                      \/ ~Stored(i) /\ ~Stored(i)'
                                      \/ ~Stored(i) /\ status'[i] = "QUEUED"
                                      \/ /\ status[i] = "QUEUED"
                                         /\ status'[i] \in {"RUNNING", "CANCELED"}
                                      \/ /\ status[i] = "RUNNING"
                                         /\ status'[i] \in {"QUEUED", "FAILED", "CANCELED"}
                                      \/ /\ status[i] = "RUNNING" /\ drafts[i] = 1
                                         /\ status'[i] = "SUCCEEDED"
         \/ /\ status[i] = "RUNNING" /\ status'[i] = "RUNNING"
            /\ drafts[i] = 0 /\ drafts'[i] = 1
         \/ Stored(i) /\ status[i] # "RUNNING" /\ ~Stored(i)' /\ drafts'[i] = 0
  PROVE  LifecycleStep(i)
PROOF
BY DEF LifecycleStep, TypeOK, Stored, JobStatus, lifecycleStatus,
   Lifecycle!Submit, Lifecycle!Start, Lifecycle!Land, Lifecycle!Succeed, Lifecycle!Retry,
   Lifecycle!Fail, Lifecycle!Cancel, Lifecycle!Erase, Lifecycle!Rest, Lifecycle!Moves,
   Lifecycle!KeepsDraft

LEMMA RefinementStep ==
  ASSUME QueueAssumption, Deployed, TypeInv, TypeInv', DraftInv, DeployedInv, [Next]_vars
  PROVE  \A i \in Jobs : LifecycleStep(i)
PROOF
<1> USE DEF TypeInv, TypeOK, Stored, JobStatus, rowVars, effectVars
<1>1. ASSUME NEW j \in Jobs,
             \/ AdmitRequest(j) \/ Enqueue(j) \/ RefuseRequest(j)
             \/ LeaseExpires(j) \/ BackoffElapses(j)
      PROVE \A i \in Jobs : LifecycleStep(i)
  BY <1>1, StatusStep DEF AdmitRequest, Enqueue, RefuseRequest, LeaseExpires, BackoffElapses
<1>2. ASSUME NEW w \in Workers, ServeQueue(w) \/ Heartbeat(w) \/ Crash(w) \/ Restart(w)
      PROVE \A i \in Jobs : LifecycleStep(i)
  <2>0. pc[w] \in Busy => work[w] \in Jobs /\ status[work[w]] = "RUNNING"
    BY DEF HoldsJob, DeployedInv, HeldIsRunning
  <2>1. CASE Claim(w)
    <3>1. PICK job \in Jobs : ClaimRow(w, job) /\ Claimable(job)
      BY <2>1 DEF Claim
    <3> QED
      BY <3>1, StatusStep DEF ClaimRow, Claimable, Expired
  <2>2. CASE CompleteJob(w)
    <3>1. drafts[work[w]] = 1
      BY <2>2 DEF CompleteJob, DraftInv, CompletingHasDraft
    <3> QED
      BY <2>0, <2>2, <3>1, StatusStep DEF CompleteJob, Busy
  <2>3. CASE FailJob(w)
    BY <2>0, <2>3, StatusStep DEF FailJob, AfterFailure, Busy
  <2>4. CASE CancelJob(w)
    BY <2>0, <2>4, StatusStep DEF CancelJob, Busy
  <2>5. CASE Land(w)
    <3>1. work[w] \in Jobs /\ status[work[w]] = "RUNNING" /\ status' = status
      BY <2>0, <2>5 DEF Land, Busy, BeforeResult
    <3>2. \A i \in Jobs : \/ drafts'[i] = drafts[i]
                          \/ i = work[w] /\ drafts[i] = 0 /\ drafts'[i] = 1
      BY <2>5, <3>1 DEF Land
    <3> QED
      BY <3>1, <3>2, StatusStep
  <2>6. CASE \/ CheckOwner(w) \/ FindExisting(w) \/ LockDocument(w) \/ Raise(w)
             \/ LookupFails(w) \/ Heartbeat(w) \/ Crash(w) \/ Restart(w)
    <3>1. status' = status /\ drafts' = drafts
      BY <2>6 DEF CheckOwner, FindExisting, LockDocument, Raise, LookupFails,
                  Heartbeat, Crash, Restart
    <3> QED
      BY <3>1, StatusStep
  <2> QED
    BY <1>2, <2>1, <2>2, <2>3, <2>4, <2>5, <2>6 DEF ServeQueue
<1>3. ASSUME NEW o \in Owners, NEW p \in Purgers,
             \/ RequestDeletion(o) \/ DisableAI(o) \/ EnableAI(o) \/ CancelDeletion(o)
             \/ PurgeBegin(o, p) \/ PurgeFinish(o, p) \/ PurgeGivesUp(o, p)
      PROVE \A i \in Jobs : LifecycleStep(i)
  <2> USE DEF CancelRows, JobsOf
  <2>1. CASE RequestDeletion(o) \/ DisableAI(o)
    BY <2>1, StatusStep DEF RequestDeletion, DisableAI, Unstarted
  <2>2. CASE EnableAI(o) \/ CancelDeletion(o) \/ PurgeGivesUp(o, p)
    BY <2>2, StatusStep DEF EnableAI, CancelDeletion, PurgeGivesUp
  <2>3. CASE PurgeBegin(o, p)
    BY <2>3, StatusStep DEF PurgeBegin
  <2>4. CASE PurgeFinish(o, p)
    BY <2>4, StatusStep DEF PurgeFinish, DeployedInv, PurgeIsAlone
  <2> QED
    BY <1>3, <2>1, <2>2, <2>3, <2>4
<1>4. CASE UNCHANGED vars
  BY <1>4, StatusStep DEF vars
<1> QED
  BY <1>1, <1>2, <1>3, <1>4 DEF Next, Purgers

\* With one worker and no purge beside it, the queue implements the machine of
\* docs/states.md: a final status is final, the draft is written while the job is
\* RUNNING, and success is reported only with the draft, for every number of
\* jobs, owners and crashes.
THEOREM DeployedRefinement ==
  ASSUME QueueAssumption, Deployed PROVE Spec => RefinesLifecycle
PROOF
<1>1. Init => TypeInv /\ DraftInv /\ DeployedInv
  BY TypeInit, DraftInit, DeployedInit
<1>2. TypeInv /\ DraftInv /\ DeployedInv /\ [Next]_vars =>
        TypeInv' /\ DraftInv' /\ DeployedInv'
  BY TypeStep, DraftStep, DeployedStep
<1>3. Init => Lifecycle!Init
  BY DEF Init, Lifecycle!Init, lifecycleStatus, Stored, JobStatus
<1>4. TypeInv /\ TypeInv' /\ DraftInv /\ DeployedInv /\ [Next]_vars =>
        [Lifecycle!Next]_(Lifecycle!vars)
  BY RefinementStep DEF Lifecycle!Next, LifecycleStep
<1> QED
  BY <1>1, <1>2, <1>3, <1>4, PTL DEF Spec, RefinesLifecycle, Lifecycle!Spec
=============================================================================
