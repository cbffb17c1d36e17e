--------------------------- MODULE LessonFeedback ---------------------------
(***************************************************************************)
(* The feedback on one completed lesson: the handlers of phase3.py that    *)
(* record, organize, edit and review it, and the executor of               *)
(* phase3_service.py that lands the organized drafts.                      *)
(*                                                                         *)
(* A handler locks the feedback row before it reads it and is one action,  *)
(* except create_feedback_draft, which reads without a lock and commits    *)
(* later.  The executor holds the row lock across the provider call.       *)
(***************************************************************************)
EXTENDS Naturals, Sequences

CONSTANTS
  Tabs,         \* browser tabs of the teacher
  Jobs,         \* the lesson_feedback.organize tasks
  NoJob,        \* no task
  MaxVersions,  \* bound on the versions explored
  MaxWrites     \* bound on LessonFeedback.version

ASSUME FeedbackAssumption ==
  /\ NoJob \notin Jobs
  /\ MaxVersions \in Nat
  /\ MaxWrites \in Nat

VARIABLES
  feedback,  \* the row of lesson_feedbacks
  versions,  \* the rows of lesson_feedback_versions, by version_number
  jobs,      \* status, source version and idempotency key of the tasks
  lock,      \* the task whose executor holds the row lock
  entry,     \* the create_feedback_draft request each tab has in flight
  screen,    \* the feedback each tab shows
  applied    \* the versions whose plan minutes and mastery were written, in order

vars == <<feedback, versions, jobs, lock, entry, screen, applied>>

Review == {"DRAFT", "PENDING_REVIEW", "APPROVED", "REJECTED"}
VersionStatus == Review \cup {"SUPERSEDED"}

Feedbacks == [status: Review \cup {"ABSENT"}, current: Nat, approved: Nat, version: Nat]
\* input: the quick entry whose keywords the version carries as raw_input.
Versions == [status: VersionStatus, source: {"QUICK_ENTRY", "MANUAL_EDIT", "AI_ORGANIZED"},
             basis: Nat, input: Nat, job: Jobs \cup {NoJob}]
Tasks == [state: {"new", "active", "ended"}, source: Nat, number: Nat]
Entries == [stage: {"idle", "loaded", "checked", "numbered"}, row: Feedbacks, newest: Nat,
            found: VersionStatus]
Screens == [version: Nat, current: Nat]

TypeOK ==
  /\ feedback \in Feedbacks
  /\ versions \in Seq(Versions)
  /\ jobs \in [Jobs -> Tasks]
  /\ lock \in Jobs \cup {NoJob}
  /\ entry \in [Tabs -> Entries]
  /\ screen \in [Tabs -> Screens]
  /\ applied \in Seq(Nat)

\* Approved 0 is approved_version_number IS NULL.  A new row starts at version 1.
NoFeedback == [status |-> "ABSENT", current |-> 0, approved |-> 0, version |-> 1]
NoEntry == [stage |-> "idle", row |-> NoFeedback, newest |-> 0, found |-> "DRAFT"]

Init ==
  /\ feedback = NoFeedback
  /\ versions = << >>
  /\ jobs = [j \in Jobs |-> [state |-> "new", source |-> 0, number |-> 0]]
  /\ lock = NoJob
  /\ entry = [t \in Tabs |-> NoEntry]
  /\ screen = [t \in Tabs |-> [version |-> 0, current |-> 0]]
  /\ applied = << >>

Idle(t) == entry[t].stage = "idle"
Show(t, version, current) ==
  screen' = [screen EXCEPT ![t] = [version |-> version, current |-> current]]
Supersede(rows, n) ==
  [m \in DOMAIN rows |-> IF m = n THEN [rows[m] EXCEPT !.status = "SUPERSEDED"] ELSE rows[m]]

\* get_feedback.
Open(t) ==
  /\ Idle(t)
  /\ feedback.current \in DOMAIN versions
  /\ Show(t, feedback.version, feedback.current)
  /\ UNCHANGED <<feedback, versions, jobs, lock, entry, applied>>
-----------------------------------------------------------------------------
(* create_feedback_draft: the row, the running tasks and the newest        *)
(* version are read one after the other without a lock; then the commit.  *)

EnterKeywords(t) ==
  /\ Idle(t)
  /\ feedback.approved = 0
  /\ feedback.status # "PENDING_REVIEW"
  /\ entry' = [entry EXCEPT ![t] = [NoEntry EXCEPT !.stage = "loaded", !.row = feedback]]
  /\ UNCHANGED <<feedback, versions, jobs, lock, screen, applied>>

\* Mutant: the running task is not looked for.
TaskIgnored == TRUE

\* active_feedback_job.
NoActiveJob == \A j \in Jobs : jobs[j].state # "active"

CheckEntry(t) ==
  /\ entry[t].stage = "loaded"
  /\ NoActiveJob
  /\ entry' = [entry EXCEPT ![t].stage = "checked"]
  /\ UNCHANGED <<feedback, versions, jobs, lock, screen, applied>>

\* max(version_number), and the version the loaded row points at.
ReadNewest(t) ==
  LET e == entry[t] IN
  /\ e.stage = "checked"
  /\ entry' = [entry EXCEPT ![t] =
       [e EXCEPT !.stage = "numbered", !.newest = Len(versions),
                 !.found = IF e.row.current \in DOMAIN versions
                           THEN versions[e.row.current].status ELSE @]]
  /\ UNCHANGED <<feedback, versions, jobs, lock, screen, applied>>

RefuseEntry(t) ==
  /\ ~Idle(t)
  /\ entry' = [entry EXCEPT ![t] = NoEntry]
  /\ UNCHANGED <<feedback, versions, jobs, lock, screen, applied>>

RowFree == lock = NoJob

\* The UPDATE names a column only if it differs from what the handler loaded.
Written(now, loaded, new) == IF new = loaded THEN now ELSE new

Writable == RowFree /\ feedback.version < MaxWrites

\* UNIQUE (feedback_id, version_number) and UNIQUE lesson_id refuse what another
\* transaction has inserted meanwhile.
CreateDraft(t) ==
  LET e == entry[t]
      number == e.newest + 1
      replaced == IF e.row.current # 0 /\ e.found # "SUPERSEDED" THEN e.row.current ELSE 0
  IN  /\ e.stage = "numbered"
      /\ Writable
      /\ Len(versions) < MaxVersions
      /\ number = Len(versions) + 1
      /\ e.row.status = "ABSENT" => feedback.status = "ABSENT"
      /\ versions' = Append(Supersede(versions, replaced),
                            [status |-> "DRAFT", source |-> "QUICK_ENTRY",
                             basis |-> e.row.current, input |-> number, job |-> NoJob])
      /\ feedback' = [status   |-> Written(feedback.status, e.row.status, "DRAFT"),
                      current  |-> Written(feedback.current, e.row.current, number),
                      approved |-> feedback.approved,
                      version  |-> e.row.version + 1]
      /\ entry' = [entry EXCEPT ![t] = NoEntry]
      /\ Show(t, e.row.version + 1, number)
      /\ UNCHANGED <<jobs, lock, applied>>
-----------------------------------------------------------------------------
(* The handlers that lock the row.                                         *)

\* Mutant: the version the tab sends is not looked at.
AnyVersion(t) == TRUE

\* check_version under the lock.
VersionMatches(t) == screen[t].version = feedback.version

\* owned_feedback(for_update) and check_version.
LockRow(t) == Idle(t) /\ feedback.status # "ABSENT" /\ Writable /\ VersionMatches(t)

Editable == feedback.status \in {"DRAFT", "REJECTED"}

\* organize_feedback.
Organize(t) ==
  LET task == [state |-> "active", source |-> feedback.current, number |-> feedback.version + 1]
  IN  /\ LockRow(t)
      /\ feedback.approved = 0
      /\ Editable
      /\ NoActiveJob
      /\ \A j \in Jobs : [jobs[j] EXCEPT !.state = "active"] # task
      /\ \E j \in Jobs : jobs[j].state = "new" /\ jobs' = [jobs EXCEPT ![j] = task]
      /\ feedback' = [feedback EXCEPT !.version = @ + 1]
      /\ UNCHANGED <<versions, lock, entry, screen, applied>>

\* save_feedback.
Save(t) ==
  LET number == feedback.current + 1
  IN  /\ LockRow(t)
      /\ feedback.approved = 0
      /\ Editable
      /\ Len(versions) < MaxVersions
      /\ feedback.current \in DOMAIN versions
      /\ number \notin DOMAIN versions
      /\ versions' = Append(Supersede(versions, feedback.current),
                            [status |-> "DRAFT", source |-> "MANUAL_EDIT",
                             basis |-> screen[t].current,
                             input |-> versions[feedback.current].input, job |-> NoJob])
      /\ feedback' = [feedback EXCEPT !.status = "DRAFT", !.current = number, !.version = @ + 1]
      /\ Show(t, feedback.version + 1, number)
      /\ UNCHANGED <<jobs, lock, entry, applied>>

\* Mutant: an earlier approval is not looked for.
ApprovableAgain(target) ==
  IF target = "PENDING_REVIEW" THEN Editable ELSE feedback.status = "PENDING_REVIEW"

Allowed(target) ==
  CASE target = "PENDING_REVIEW" -> Editable
    [] target = "REJECTED" -> feedback.status = "PENDING_REVIEW"
    [] target = "APPROVED" -> feedback.status = "PENDING_REVIEW" /\ feedback.approved = 0

\* review_transition: an approval writes the plan items and the mastery evidence
\* that the version proposes, in the same transaction.
ReviewTransition(t, target) ==
  /\ LockRow(t)
  /\ feedback.current \in DOMAIN versions
  /\ Allowed(target)
  /\ versions' = [versions EXCEPT ![feedback.current].status = target]
  /\ feedback' = [feedback EXCEPT
                    !.status = target,
                    !.approved = IF target = "APPROVED" THEN feedback.current ELSE @,
                    !.version = @ + 1]
  /\ applied' = IF target = "APPROVED" THEN Append(applied, feedback.current) ELSE applied
  /\ Show(t, feedback.version + 1, feedback.current)
  /\ UNCHANGED <<jobs, lock, entry>>
-----------------------------------------------------------------------------
(* execute_feedback_job, and the end of the task in the queue.             *)

Landed(j) == \E n \in DOMAIN versions : versions[n].job = j

StartExecutor(j) ==
  /\ jobs[j].state = "active"
  /\ ~Landed(j)
  /\ RowFree
  /\ jobs[j].source \in DOMAIN versions
  /\ lock' = j
  /\ UNCHANGED <<feedback, versions, jobs, entry, screen, applied>>

\* Mutant: the draft lands and the review status stays.
StatusKept(status) == status

StatusLanded(status) == "DRAFT"

Land(j) ==
  LET source == jobs[j].source
      number == Len(versions) + 1
  IN  /\ lock = j
      /\ Len(versions) < MaxVersions /\ feedback.version < MaxWrites
      /\ versions' = Append(Supersede(versions, source),
                            [status |-> "DRAFT", source |-> "AI_ORGANIZED", basis |-> source,
                             input |-> versions[source].input, job |-> j])
      /\ feedback' = [feedback EXCEPT !.status = StatusLanded(@), !.current = number,
                                      !.version = @ + 1]
      /\ lock' = NoJob
      /\ UNCHANGED <<jobs, entry, screen, applied>>

\* The provider failed, the output was refused, the worker crashed: rolled back.
Abandon(j) ==
  /\ lock = j
  /\ lock' = NoJob
  /\ UNCHANGED <<feedback, versions, jobs, entry, screen, applied>>

\* The queue ends the task; until then it may be executed again.
EndJob(j) ==
  /\ jobs[j].state = "active"
  /\ lock # j
  /\ jobs' = [jobs EXCEPT ![j].state = "ended"]
  /\ UNCHANGED <<feedback, versions, lock, entry, screen, applied>>
-----------------------------------------------------------------------------
Next ==
  \/ \E t \in Tabs : \/ Open(t) \/ EnterKeywords(t) \/ CheckEntry(t) \/ ReadNewest(t)
                     \/ RefuseEntry(t) \/ CreateDraft(t) \/ Organize(t) \/ Save(t)
                     \/ \E target \in {"PENDING_REVIEW", "APPROVED", "REJECTED"} :
                          ReviewTransition(t, target)
  \/ \E j \in Jobs : StartExecutor(j) \/ Land(j) \/ Abandon(j) \/ EndJob(j)

Spec == Init /\ [][Next]_vars
-----------------------------------------------------------------------------
\* The plan minutes and the mastery of a feedback are written once, from the
\* version that was approved (phase3.py:455-539), although a draft that lands after
\* the approval makes the feedback a DRAFT again that may be submitted and reviewed.
AppliedOnce ==
  applied = IF feedback.approved = 0 THEN << >> ELSE <<feedback.approved>>

\* The feedback points at its newest version: save_feedback numbers by the pointer
\* (phase3.py:399), the others by the maximum.
CurrentIsNewest == feedback.current = Len(versions)

\* What waits for review is the version that was submitted: the executor moves the
\* pointer and takes the review back in one step (phase3_service.py:251-252).
PendingIsSubmitted ==
  feedback.status = "PENDING_REVIEW" => versions[feedback.current].status = "PENDING_REVIEW"

\* The feedback row speaks of its newest version, and of its status while it waits
\* for review.
RowSpeaksOfNewest == CurrentIsNewest /\ PendingIsSubmitted

\* An edit is made from the version it replaces, however drafts land meanwhile
\* (phase3.py:382).
EditsNewest ==
  \A n \in DOMAIN versions : versions[n].source = "MANUAL_EDIT" => versions[n].basis = n - 1

\* Keywords that the teacher entered later are not replaced by earlier ones: no
\* draft is organized from an entry that another entry has followed
\* (phase3.py:243, 310, phase3_service.py:243).
InputNeverOlder ==
  \A m, n \in DOMAIN versions : m < n => versions[m].input <= versions[n].input

\* An approved feedback is locked (docs/states.md:31): no version is added to it and
\* none of its versions changes.  Stated, and false of the code: create_feedback_draft
\* looks at the approval in a row it read without the lock (phase3.py:227-240), so two
\* tabs break it, and the executor does not look at it at all.
ApprovedFeedbackIsLocked ==
  [][feedback.approved # 0 => versions' = versions]_vars
=============================================================================
