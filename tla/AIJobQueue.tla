----------------------------- MODULE AIJobQueue -----------------------------
(***************************************************************************)
(* The PostgreSQL job queue (queue.py), the worker loop that serves it     *)
(* (worker.py) and the account operations that cancel its rows (auth.py,   *)
(* manage_users.py, account_deletion.py).  One action is one transaction,  *)
(* or one step of a worker between two transactions.                       *)
(*                                                                         *)
(* Time is abstract: a lease that was given out may expire at any later    *)
(* moment and a backoff may elapse at any later moment, so every relative  *)
(* speed of the workers, the clock and the AI provider is a behaviour.     *)
(***************************************************************************)
EXTENDS Naturals, Sequences

CONSTANTS
  Workers,      \* worker processes (compose runs one)
  Owners,       \* teacher accounts
  Jobs,         \* ai_jobs rows; the number is the rank of created_at
  OwnerOf,      \* the teacher of each job
  MaxAttempts,  \* AIJob.max_attempts
  Renewers,     \* workers that call queue.heartbeat: none in worker.py
  CliPurge,     \* whether an administrator may run manage_users purge-due
  Cli,          \* that administrator process
  Nobody,       \* leased_by IS NULL
  MaxCrashes    \* bound on the crashes explored

ASSUME QueueAssumption ==
  /\ Jobs \subseteq Nat \ {0}
  /\ OwnerOf \in [Jobs -> Owners]
  /\ MaxAttempts \in Nat \ {0}
  /\ Renewers \subseteq Workers
  /\ CliPurge \in BOOLEAN
  /\ Cli \notin Workers
  /\ Nobody \notin Workers
  /\ MaxCrashes \in Nat

VARIABLES
  status,          \* AIJob.status, NONE before the row and GONE after it
  leased_by,       \* AIJob.leased_by
  lease,           \* AIJob.lease_expires_at against the clock
  due,             \* AIJob.available_at <= now
  attempts_count,  \* AIJob.attempts_count
  attempts,        \* AIJobAttempt.status by attempt_number
  drafts,          \* version rows that carry the job's ai_job_id
  usage,           \* times the job's token counts were added to AIUsageMonth
  access,          \* what the owner's row says of AI access and deletion
  purgers,         \* processes between the two transactions of a purge
  pc,              \* where each worker is in run_once
  work,            \* the job_id run_once holds
  tokens,          \* whether the executor's output carries token counts
  crashes          \* crashes so far

rowVars     == <<status, leased_by, lease, due, attempts_count, attempts>>
effectVars  == <<drafts, usage>>
accountVars == <<access, purgers>>
workerVars  == <<pc, work, tokens>>
vars == <<rowVars, effectVars, accountVars, workerVars, crashes>>

NoJob == 0
JobStatus == {"QUEUED", "RUNNING", "SUCCEEDED", "FAILED", "CANCELED"}
\* "ADMITTED" is a request whose handler passed require_ai_access and has not
\* yet committed its INSERT.
NotStored == {"NONE", "ADMITTED", "GONE"}
AttemptStatus == {"RUNNING", "SUCCEEDED", "FAILED", "CANCELED"}
\* "purging": the first transaction of the purge has deactivated the account.
Access == {"allowed", "disabled", "deleting", "purging", "gone"}
BeforeResult == {"starting", "locking", "calling"}
Busy == BeforeResult \cup {"claimed", "canceling", "completing", "failing"}
Purgers == Workers \cup {Cli}

TypeOK ==
  /\ status \in [Jobs -> JobStatus \cup NotStored]
  /\ leased_by \in [Jobs -> Workers \cup {Nobody}]
  /\ lease \in [Jobs -> {"none", "live", "expired"}]
  /\ due \in [Jobs -> BOOLEAN]
  /\ attempts_count \in [Jobs -> Nat]
  /\ attempts \in [Jobs -> Seq(AttemptStatus)]
  /\ drafts \in [Jobs -> Nat]
  /\ usage \in [Jobs -> Nat]
  /\ access \in [Owners -> Access]
  /\ purgers \in [Owners -> SUBSET Purgers]
  /\ pc \in [Workers -> Busy \cup {"idle", "down", "exited"}]
  /\ work \in [Workers -> Jobs \cup {NoJob}]
  /\ tokens \in [Workers -> BOOLEAN]
  /\ crashes \in Nat

Init ==
  /\ status = [j \in Jobs |-> "NONE"]
  /\ leased_by = [j \in Jobs |-> Nobody]
  /\ lease = [j \in Jobs |-> "none"]
  /\ due = [j \in Jobs |-> TRUE]
  /\ attempts_count = [j \in Jobs |-> 0]
  /\ attempts = [j \in Jobs |-> << >>]
  /\ drafts = [j \in Jobs |-> 0]
  /\ usage = [j \in Jobs |-> 0]
  /\ access = [o \in Owners |-> "allowed"]
  /\ purgers = [o \in Owners |-> {}]
  /\ pc = [w \in Workers |-> "idle"]
  /\ work = [w \in Workers |-> NoJob]
  /\ tokens = [w \in Workers |-> FALSE]
  /\ crashes = 0

JobsOf(o) == {j \in Jobs : OwnerOf[j] = o}
Stored(j) == status[j] \in JobStatus
Goto(w, label) == pc' = [pc EXCEPT ![w] = label]

\* run_once is left, and its local variables with it.
Finish(w, label) ==
  /\ Goto(w, label)
  /\ work' = [work EXCEPT ![w] = NoJob]
  /\ tokens' = [tokens EXCEPT ![w] = FALSE]
-----------------------------------------------------------------------------
(* The API handlers that enqueue a job.  The access check reads the user   *)
(* row when the request arrives; the INSERT commits later, in the same     *)
(* transaction but after any number of other transactions.                 *)

AdmitRequest(j) ==
  /\ status[j] = "NONE"
  /\ access[OwnerOf[j]] = "allowed"
  /\ status' = [status EXCEPT ![j] = "ADMITTED"]
  /\ UNCHANGED <<leased_by, lease, due, attempts_count, attempts>>
  /\ UNCHANGED <<effectVars, accountVars, workerVars, crashes>>

\* The foreign key to users fails the INSERT of a purged owner.
Enqueue(j) ==
  /\ status[j] = "ADMITTED"
  /\ access[OwnerOf[j]] # "gone"
  /\ status' = [status EXCEPT ![j] = "QUEUED"]
  /\ UNCHANGED <<leased_by, lease, due, attempts_count, attempts>>
  /\ UNCHANGED <<effectVars, accountVars, workerVars, crashes>>

RefuseRequest(j) ==
  /\ status[j] = "ADMITTED"
  /\ status' = [status EXCEPT ![j] = "NONE"]
  /\ UNCHANGED <<leased_by, lease, due, attempts_count, attempts>>
  /\ UNCHANGED <<effectVars, accountVars, workerVars, crashes>>
-----------------------------------------------------------------------------
(* queue.claim_next_job: put every expired lease back to QUEUED, then take *)
(* the oldest due QUEUED row that no other session has locked.             *)

Idle(w) == pc[w] = "idle" /\ \A o \in Owners : w \notin purgers[o]

\* Mutant: the reclaiming UPDATE is missing.
ExpiredNever(j) == FALSE

Expired(j) == status[j] = "RUNNING" /\ lease[j] = "expired"

\* Mutant: the claim also takes failed rows.
ClaimableWithFailed(j) == due[j] /\ (status[j] \in {"QUEUED", "FAILED"} \/ Expired(j))

Claimable(j) == due[j] /\ (status[j] = "QUEUED" \/ Expired(j))

ClaimRow(w, job) ==
  /\ status' = [j \in Jobs |-> IF j = job THEN "RUNNING"
                               ELSE IF Expired(j) THEN "QUEUED" ELSE status[j]]
  /\ leased_by' = [j \in Jobs |-> IF j = job THEN w
                                  ELSE IF Expired(j) THEN Nobody ELSE leased_by[j]]
  /\ lease' = [j \in Jobs |-> IF j = job THEN "live"
                              ELSE IF Expired(j) THEN "none" ELSE lease[j]]
  /\ attempts_count' = [attempts_count EXCEPT ![job] = @ + 1]
  /\ attempts' = [attempts EXCEPT ![job] = Append(@, "RUNNING")]
  /\ work' = [work EXCEPT ![w] = job]
  /\ Goto(w, "claimed")
  /\ UNCHANGED <<due, effectVars, accountVars, tokens, crashes>>

\* A row this transaction has just requeued is its own and is not skipped.
\* A requeued row is due, so a claim that finds no row requeued none and
\* changed nothing: the poll that follows is a stuttering step.
Claim(w) ==
  /\ Idle(w)
  /\ \E skipped \in SUBSET {j \in Jobs : status[j] = "QUEUED"}, job \in Jobs :
       /\ Claimable(job) /\ job \notin skipped
       /\ \A j \in Jobs : Claimable(j) /\ j \notin skipped => job <= j
       /\ ClaimRow(w, job)

\* queue.heartbeat, for a worker that would call it while it executes.
Heartbeat(w) ==
  /\ w \in Renewers
  /\ pc[w] \in BeforeResult
  /\ status[work[w]] = "RUNNING"
  /\ leased_by[work[w]] = w
  /\ lease' = [lease EXCEPT ![work[w]] = "live"]
  /\ UNCHANGED <<status, leased_by, due, attempts_count, attempts>>
  /\ UNCHANGED <<effectVars, accountVars, workerVars, crashes>>
-----------------------------------------------------------------------------
(* worker.run_once between the claim and the executor.                     *)

CheckOwner(w) ==
  /\ pc[w] = "claimed"
  /\ \/ /\ ~Stored(work[w])
        /\ Finish(w, "idle")
     \/ /\ Stored(work[w])
        /\ access[OwnerOf[work[w]]] = "allowed"
        /\ Goto(w, "starting")
        /\ UNCHANGED <<work, tokens>>
     \/ /\ Stored(work[w])
        /\ access[OwnerOf[work[w]]] # "allowed"
        /\ Goto(w, "canceling")
        /\ UNCHANGED <<work, tokens>>
  /\ UNCHANGED <<rowVars, effectVars, accountVars, crashes>>

(* The four executors share one shape: return the version an earlier run   *)
(* of this job left, else lock the document, call the provider, insert a   *)
(* version whose ai_job_id is UNIQUE, commit.                              *)

\* Mutant: the output of the earlier run is returned with its token counts.
FindExistingWithTokens(w) ==
  /\ pc[w] = "starting"
  /\ IF drafts[work[w]] > 0 THEN Goto(w, "completing") ELSE Goto(w, "locking")
  /\ tokens' = [tokens EXCEPT ![w] = drafts[work[w]] > 0]
  /\ UNCHANGED <<work, rowVars, effectVars, accountVars, crashes>>

FindExisting(w) ==
  /\ pc[w] = "starting"
  /\ IF drafts[work[w]] > 0 THEN Goto(w, "completing") ELSE Goto(w, "locking")
  /\ tokens' = [tokens EXCEPT ![w] = FALSE]
  /\ UNCHANGED <<work, rowVars, effectVars, accountVars, crashes>>

LockDocument(w) ==
  /\ pc[w] = "locking"
  /\ \A v \in Workers : pc[v] = "calling" => work[v] # work[w]
  /\ Goto(w, "calling")
  /\ UNCHANGED <<work, tokens, rowVars, effectVars, accountVars, crashes>>

\* The foreign keys of the version row need the job and its owner.
Land(w) ==
  /\ pc[w] = "calling"
  /\ Stored(work[w])
  /\ drafts[work[w]] = 0
  /\ drafts' = [drafts EXCEPT ![work[w]] = @ + 1]
  /\ tokens' = [tokens EXCEPT ![w] = TRUE]
  /\ Goto(w, "completing")
  /\ UNCHANGED <<work, usage, rowVars, accountVars, crashes>>

\* A provider error, unusable output, a duplicate ai_job_id, a lost database
\* connection: the executor's transaction rolls back.
Raise(w) ==
  /\ pc[w] \in BeforeResult
  /\ Goto(w, "failing")
  /\ UNCHANGED <<work, tokens, rowVars, effectVars, accountVars, crashes>>
-----------------------------------------------------------------------------
(* queue.complete_job, fail_job and cancel_job: each locks the row by id,  *)
(* reads neither status nor leased_by, and closes the attempt whose number *)
(* is the row's attempts_count at that moment.                             *)

\* Mutant: always the first attempt row.
CloseFirstAttempt(j, result) ==
  attempts' = [attempts EXCEPT ![j] =
                 [n \in DOMAIN @ |-> IF n = 1 THEN result ELSE @[n]]]

CloseAttempt(j, result) ==
  attempts' = [attempts EXCEPT ![j] =
                 [n \in DOMAIN @ |-> IF n = attempts_count[j] THEN result ELSE @[n]]]

ReleaseLease(j) ==
  /\ leased_by' = [leased_by EXCEPT ![j] = Nobody]
  /\ lease' = [lease EXCEPT ![j] = "none"]

\* The row is gone: LookupError leaves run_once and ends the process.
LookupFails(w) ==
  /\ pc[w] \in {"completing", "failing", "canceling"}
  /\ ~Stored(work[w])
  /\ Finish(w, "exited")
  /\ UNCHANGED <<rowVars, effectVars, accountVars, crashes>>

CompleteJob(w) ==
  LET j == work[w] IN
  /\ pc[w] = "completing"
  /\ Stored(j)
  /\ status' = [status EXCEPT ![j] = "SUCCEEDED"]
  /\ ReleaseLease(j)
  /\ CloseAttempt(j, "SUCCEEDED")
  /\ usage' = [usage EXCEPT ![j] = IF tokens[w] THEN @ + 1 ELSE @]
  /\ Finish(w, "idle")
  /\ UNCHANGED <<due, attempts_count, drafts, accountVars, crashes>>

AfterFailure(j) == IF attempts_count[j] >= MaxAttempts THEN "FAILED" ELSE "QUEUED"

FailJob(w) ==
  LET j == work[w] IN
  /\ pc[w] = "failing"
  /\ Stored(j)
  /\ status' = [status EXCEPT ![j] = AfterFailure(j)]
  /\ due' = [due EXCEPT ![j] = FALSE]
  /\ ReleaseLease(j)
  /\ CloseAttempt(j, "FAILED")
  /\ Finish(w, "idle")
  /\ UNCHANGED <<attempts_count, effectVars, accountVars, crashes>>

CancelJob(w) ==
  LET j == work[w] IN
  /\ pc[w] = "canceling"
  /\ Stored(j)
  /\ status' = [status EXCEPT ![j] = "CANCELED"]
  /\ ReleaseLease(j)
  /\ CloseAttempt(j, "CANCELED")
  /\ Finish(w, "idle")
  /\ UNCHANGED <<due, attempts_count, effectVars, accountVars, crashes>>
-----------------------------------------------------------------------------
(* The account operations that touch the queue.                            *)

\* Mutant: the running rows as well, with their leases left in place.
Unfinished(o) == {j \in JobsOf(o) : status[j] \in {"QUEUED", "RUNNING"}}

Unstarted(o) == {j \in JobsOf(o) : status[j] = "QUEUED"}

CancelRows(rows) ==
  status' = [j \in Jobs |-> IF j \in rows THEN "CANCELED" ELSE status[j]]

\* auth.request_account_deletion.
RequestDeletion(o) ==
  /\ access[o] \in {"allowed", "disabled"}
  /\ access' = [access EXCEPT ![o] = "deleting"]
  /\ CancelRows(Unstarted(o))
  /\ UNCHANGED <<leased_by, lease, due, attempts_count, attempts>>
  /\ UNCHANGED <<effectVars, purgers, workerVars, crashes>>

\* manage_users.set_ai_quota(0) and set_active(False).
DisableAI(o) ==
  /\ access[o] # "gone"
  /\ access' = [access EXCEPT ![o] = IF @ = "allowed" THEN "disabled" ELSE @]
  /\ CancelRows(Unstarted(o))
  /\ UNCHANGED <<leased_by, lease, due, attempts_count, attempts>>
  /\ UNCHANGED <<effectVars, purgers, workerVars, crashes>>

\* manage_users.set_ai_quota(n), after set_active(True) where it is needed.
EnableAI(o) ==
  /\ access[o] = "disabled"
  /\ access' = [access EXCEPT ![o] = "allowed"]
  /\ UNCHANGED <<rowVars, effectVars, purgers, workerVars, crashes>>

\* auth.cancel_account_deletion.  It holds no lock: a request authorised before
\* the purge began may commit after it, on an account already deactivated.
CancelDeletion(o) ==
  /\ \/ access[o] = "deleting" /\ \E a \in {"allowed", "disabled"} :
                                     access' = [access EXCEPT ![o] = a]
     \/ access[o] = "purging" /\ access' = [access EXCEPT ![o] = "disabled"]
  /\ UNCHANGED <<rowVars, effectVars, purgers, workerVars, crashes>>

\* Mutant: the worker purges in the background of run_once.
MayPurgeWhileBusy(p) == p \in Workers

MayPurge(p) == \/ p \in Workers /\ Idle(p)
               \/ p = Cli /\ CliPurge /\ \A o \in Owners : Cli \notin purgers[o]

\* account_deletion.purge_due_accounts, first transaction: the grace period is
\* over, the account is deactivated and its queued and running jobs canceled.
PurgeBegin(o, p) ==
  /\ MayPurge(p)
  /\ access[o] \in {"deleting", "purging"}
  /\ access' = [access EXCEPT ![o] = "purging"]
  /\ purgers' = [purgers EXCEPT ![o] = @ \cup {p}]
  /\ LET rows == {j \in JobsOf(o) : status[j] \in {"QUEUED", "RUNNING"}}
     IN  /\ CancelRows(rows)
         /\ leased_by' = [j \in Jobs |-> IF j \in rows THEN Nobody ELSE leased_by[j]]
         /\ lease' = [j \in Jobs |-> IF j \in rows THEN "none" ELSE lease[j]]
  /\ UNCHANGED <<due, attempts_count, attempts, effectVars, workerVars, crashes>>

\* Second transaction: the deletion is still scheduled, the rows go.  It waits
\* for the document locks that executors of this owner's jobs hold.
PurgeFinish(o, p) ==
  /\ p \in purgers[o]
  /\ access[o] \in {"deleting", "purging"}
  /\ \A w \in Workers : pc[w] = "calling" => work[w] \notin JobsOf(o)
  /\ access' = [access EXCEPT ![o] = "gone"]
  /\ purgers' = [purgers EXCEPT ![o] = @ \ {p}]
  /\ LET rows == {j \in JobsOf(o) : Stored(j)}
     IN  /\ status' = [j \in Jobs |-> IF j \in rows THEN "GONE" ELSE status[j]]
         /\ leased_by' = [j \in Jobs |-> IF j \in rows THEN Nobody ELSE leased_by[j]]
         /\ lease' = [j \in Jobs |-> IF j \in rows THEN "none" ELSE lease[j]]
         /\ attempts_count' = [j \in Jobs |-> IF j \in rows THEN 0 ELSE attempts_count[j]]
         /\ attempts' = [j \in Jobs |-> IF j \in rows THEN << >> ELSE attempts[j]]
         /\ drafts' = [j \in Jobs |-> IF j \in rows THEN 0 ELSE drafts[j]]
         /\ usage' = [j \in Jobs |-> IF j \in rows THEN 0 ELSE usage[j]]
  /\ UNCHANGED <<due, workerVars, crashes>>

\* Second transaction: the account is not scheduled any more, or the deletion
\* raised and was logged.
PurgeGivesUp(o, p) ==
  /\ p \in purgers[o]
  /\ purgers' = [purgers EXCEPT ![o] = @ \ {p}]
  /\ UNCHANGED <<rowVars, effectVars, access, workerVars, crashes>>
-----------------------------------------------------------------------------
(* The environment: the clock, crashes, and the container's restart.       *)

LeaseExpires(j) ==
  /\ lease[j] = "live"
  /\ lease' = [lease EXCEPT ![j] = "expired"]
  /\ UNCHANGED <<status, leased_by, due, attempts_count, attempts>>
  /\ UNCHANGED <<effectVars, accountVars, workerVars, crashes>>

BackoffElapses(j) ==
  /\ ~due[j]
  /\ due' = [due EXCEPT ![j] = TRUE]
  /\ UNCHANGED <<status, leased_by, lease, attempts_count, attempts>>
  /\ UNCHANGED <<effectVars, accountVars, workerVars, crashes>>

Crash(w) ==
  /\ crashes < MaxCrashes
  /\ pc[w] \in Busy \/ \E o \in Owners : w \in purgers[o]
  /\ crashes' = crashes + 1
  /\ purgers' = [o \in Owners |-> purgers[o] \ {w}]
  /\ Finish(w, "down")
  /\ UNCHANGED <<rowVars, effectVars, access>>

Restart(w) ==
  /\ pc[w] \in {"down", "exited"}
  /\ Goto(w, "idle")
  /\ UNCHANGED <<work, tokens, rowVars, effectVars, accountVars, crashes>>
-----------------------------------------------------------------------------
ServeQueue(w) ==
  \/ Claim(w) \/ CheckOwner(w) \/ FindExisting(w) \/ LockDocument(w)
  \/ Land(w) \/ Raise(w) \/ LookupFails(w) \/ CompleteJob(w) \/ FailJob(w)
  \/ CancelJob(w)

Next ==
  \/ \E j \in Jobs : \/ AdmitRequest(j) \/ Enqueue(j) \/ RefuseRequest(j)
                     \/ LeaseExpires(j) \/ BackoffElapses(j)
  \/ \E w \in Workers : \/ ServeQueue(w) \/ Heartbeat(w) \/ Crash(w) \/ Restart(w)
  \/ \E o \in Owners : \/ RequestDeletion(o) \/ DisableAI(o) \/ EnableAI(o)
                       \/ CancelDeletion(o)
                       \/ \E p \in Purgers : \/ PurgeBegin(o, p) \/ PurgeFinish(o, p)
                                             \/ PurgeGivesUp(o, p)

Spec == Init /\ [][Next]_vars

\* The clock advances; a worker process that runs takes its next step, a
\* provider call returns or times out, docker restarts a stopped worker.
\* Teachers, administrators and crashes owe nothing.
Fairness ==
  /\ \A j \in Jobs : WF_vars(LeaseExpires(j)) /\ WF_vars(BackoffElapses(j))
  /\ \A w \in Workers : WF_vars(ServeQueue(w)) /\ WF_vars(Restart(w))
  /\ \A o \in Owners, w \in Workers :
       WF_vars(PurgeFinish(o, w) \/ PurgeGivesUp(o, w))

FairSpec == Spec /\ Fairness
-----------------------------------------------------------------------------
\* A row has a lease and a holder exactly while it is RUNNING.  Five pieces of
\* code write these columns, among them bulk updates that cancel rows without
\* touching the lease (auth.py:588, manage_users.py:143).
LeaseHeldIffRunning ==
  \A j \in Jobs : /\ status[j] = "RUNNING" <=> lease[j] # "none"
                  /\ status[j] = "RUNNING" <=> leased_by[j] # Nobody

\* The attempt rows are the log of the claims: one per claim, so the next claim
\* never meets UNIQUE(job_id, attempt_number), and the last one tells how a
\* finished job finished, although complete_job and fail_job may be called for
\* an attempt that is no longer the last (queue.py:86-104, 169-179).
AttemptLogAgrees ==
  \A j \in Jobs :
    /\ Len(attempts[j]) = attempts_count[j]
    /\ status[j] \in {"SUCCEEDED", "FAILED"} =>
         /\ attempts_count[j] > 0
         /\ attempts[j][attempts_count[j]] = status[j]

\* A task leaves at most one draft version, however many workers execute it
\* and wherever they crash (phase2_service.py:227-234 and the UNIQUE ai_job_id).
OneDraftPerJob == \A j \in Jobs : drafts[j] <= 1

\* A task is reported SUCCEEDED only when its draft exists.
SuccessHasDraft == \A j \in Jobs : status[j] = "SUCCEEDED" => drafts[j] = 1

\* Token counts enter the monthly usage at most once per draft: a completion
\* that found the version of an earlier run books nothing (queue.py:105-121).
UsageBookedOncePerDraft == \A j \in Jobs : usage[j] <= drafts[j]

\* A task FAILED only with its attempts spent (queue.py:162-163).
FailedOnlyWhenExhausted ==
  \A j \in Jobs : status[j] = "FAILED" => attempts_count[j] >= MaxAttempts

\* What the tables say of a task agrees: the columns of its row with each other
\* and with the log of its attempts, whatever worker reports late and whatever
\* bulk update came between.
RowsAgree == LeaseHeldIffRunning /\ AttemptLogAgrees /\ FailedOnlyWhenExhausted

\* Success, the draft and the bill of a task go together, although they are
\* committed by two transactions of a worker that may crash between them or be
\* late (phase2_service.py:329, queue.py:105-121).
DraftAndBillAgree == OneDraftPerJob /\ SuccessHasDraft /\ UsageBookedOncePerDraft

\* A task that has FAILED is over, although late failures still report
\* (queue.py:41, 162-163).
FailedNeverRunsAgain ==
  [][\A j \in Jobs : status[j] = "FAILED" => status'[j] \notin {"QUEUED", "RUNNING"}]_vars

\* A worker process never ends on the LookupError of a row that was deleted
\* under it (queue.py:80-81 outside the try of worker.py:72-87).
NoWorkerExits == \A w \in Workers : pc[w] # "exited"

\* Every task that was queued is in the end neither waiting nor running.
QueueDrains ==
  \A j \in Jobs : <>[](status[j] \notin {"QUEUED", "RUNNING"})

\* The task follows the documented machine: no status after a final one, a
\* draft written only while RUNNING, success only with the draft.
lifecycleStatus == [j \in Jobs |-> IF Stored(j) THEN status[j] ELSE "ABSENT"]

Lifecycle == INSTANCE JobLifecycle WITH status <- lifecycleStatus

RefinesLifecycle == Lifecycle!Spec
=============================================================================
