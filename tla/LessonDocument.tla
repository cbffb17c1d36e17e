--------------------------- MODULE LessonDocument ---------------------------
(***************************************************************************)
(* The lesson plan of one lesson: the handlers of phase2.py that generate, *)
(* edit and review it, and the executor of phase2_service.py that lands    *)
(* the drafts of the AI tasks.                                             *)
(*                                                                         *)
(* A handler does not lock the row of the document.  It loads the row,     *)
(* reads what else it needs, and writes at its commit the columns that     *)
(* differ from what it loaded; other transactions may commit in between.   *)
(* The executor holds the row lock from before the provider call to its    *)
(* commit, and the commits of handlers wait for it.                        *)
(***************************************************************************)
EXTENDS Naturals, Sequences

CONSTANTS
  Tabs,         \* browser tabs of the teacher; each sends one request at a time
  Jobs,         \* the ai_jobs rows of this document
  Sections,     \* the sections that may be regenerated
  NoJob,        \* no task: a version made by hand, a row nobody has locked
  MaxVersions,  \* bound on the versions explored
  MaxWrites     \* bound on LessonDocument.version

ASSUME DocumentAssumption ==
  /\ NoJob \notin Jobs
  /\ Sections \cap {"none", "generate", "save", "submit", "approve", "reject", "edit"} = {}
  /\ MaxVersions \in Nat
  /\ MaxWrites \in Nat

VARIABLES
  doc,       \* the row of lesson_documents
  versions,  \* the rows of document_versions, by version_number
  jobs,      \* status and idempotency_key of the tasks
  lock,      \* the task whose executor holds the row lock of the document
  merged,    \* current_version_number as that executor read it
  req,       \* the request each tab has in flight
  screen     \* the document each tab shows

vars == <<doc, versions, jobs, lock, merged, req, screen>>

Review == {"DRAFT", "PENDING_REVIEW", "APPROVED", "REJECTED"}
VersionStatus == Review \cup {"SUPERSEDED"}
Generations == {"generate"} \cup Sections
Reviews == {"submit", "approve", "reject"}
Operations == Generations \cup Reviews \cup {"save"}

Documents == [status: Review \cup {"ABSENT"}, current: Nat, approved: Nat, version: Nat]
Versions == [status: VersionStatus, origin: Generations \cup {"edit"}, basis: Nat,
             job: Jobs \cup {NoJob}]
Tasks == [state: {"new", "active", "ended"}, kind: Generations \cup {"none"},
          current: Nat, number: Nat]
Requests == [op: Operations \cup {"none"}, stage: {"idle", "loaded", "checked"},
             row: Documents, shown: Nat, newest: Nat, found: VersionStatus]
Screens == [version: Nat, current: Nat]

TypeOK ==
  /\ doc \in Documents
  /\ versions \in Seq(Versions)
  /\ jobs \in [Jobs -> Tasks]
  /\ lock \in Jobs \cup {NoJob}
  /\ merged \in Nat
  /\ req \in [Tabs -> Requests]
  /\ screen \in [Tabs -> Screens]

\* Approved 0 is approved_version_number IS NULL.  A new row starts at version 1.
NoDocument == [status |-> "ABSENT", current |-> 0, approved |-> 0, version |-> 1]
Unsent == [op |-> "none", stage |-> "idle", row |-> NoDocument, shown |-> 0,
           newest |-> 0, found |-> "DRAFT"]

Init ==
  /\ doc = NoDocument
  /\ versions = << >>
  /\ jobs = [j \in Jobs |-> [state |-> "new", kind |-> "none", current |-> 0, number |-> 0]]
  /\ lock = NoJob
  /\ merged = 0
  /\ req = [t \in Tabs |-> Unsent]
  /\ screen = [t \in Tabs |-> [version |-> 0, current |-> 0]]
-----------------------------------------------------------------------------
(* Reading.                                                                *)

\* get_lesson_document: there is a document and its current version.
Open(t) ==
  /\ req[t].stage = "idle"
  /\ doc.current > 0
  /\ screen' = [screen EXCEPT ![t] = [version |-> doc.version, current |-> doc.current]]
  /\ UNCHANGED <<doc, versions, jobs, lock, merged, req>>
-----------------------------------------------------------------------------
(* A handler up to its commit.                                             *)

\* check_version on the row as loaded; generate takes no version.
VersionMatches(t, op) ==
  \/ op = "generate"
  \/ doc.status # "ABSENT" /\ doc.version = screen[t].version

Load(t, op) ==
  /\ req[t].stage = "idle"
  /\ VersionMatches(t, op)
  /\ req' = [req EXCEPT ![t] = [Unsent EXCEPT !.op = op, !.stage = "loaded", !.row = doc,
                                             !.shown = screen[t].current]]
  /\ UNCHANGED <<doc, versions, jobs, lock, merged, screen>>

ReviewAllowed(op, row) ==
  IF op = "submit" THEN row.status \in {"DRAFT", "REJECTED"}
                   ELSE row.status = "PENDING_REVIEW"

NoGeneration == \A j \in Jobs : jobs[j].state # "active"

\* The second reads: max(version_number), the active tasks, or the status of the
\* version row that the loaded document row names.
Check(t) ==
  LET r == req[t] IN
  /\ r.stage = "loaded"
  /\ \/ /\ r.op = "save"
        /\ req' = [req EXCEPT ![t] = [r EXCEPT !.stage = "checked", !.newest = Len(versions)]]
     \/ /\ r.op \in Generations
        /\ NoGeneration
        /\ req' = [req EXCEPT ![t] = [r EXCEPT !.stage = "checked"]]
     \/ /\ r.op \in Reviews
        /\ r.row.current \in DOMAIN versions
        /\ ReviewAllowed(r.op, r.row)
        /\ req' = [req EXCEPT ![t] = [r EXCEPT !.stage = "checked",
                                              !.found = versions[r.row.current].status]]
  /\ UNCHANGED <<doc, versions, jobs, lock, merged, screen>>

\* An error response, or a constraint that fails the commit: nothing is written.
Refuse(t) ==
  /\ req[t].stage # "idle"
  /\ req' = [req EXCEPT ![t] = Unsent]
  /\ UNCHANGED <<doc, versions, jobs, lock, merged, screen>>
-----------------------------------------------------------------------------
(* The commits.                                                            *)

\* Mutant: the executor reads the document without a lock.
NeverLocked == TRUE

RowFree == lock = NoJob

\* The UPDATE names a column only if it differs from what the handler loaded.
Written(now, loaded, new) == IF new = loaded THEN now ELSE new

Flush(row, new) ==
  doc' = [status   |-> Written(doc.status, row.status, new.status),
          current  |-> Written(doc.current, row.current, new.current),
          approved |-> Written(doc.approved, row.approved, new.approved),
          version  |-> row.version + 1]

Respond(t, current) ==
  /\ req' = [req EXCEPT ![t] = Unsent]
  /\ screen' = [screen EXCEPT ![t] = [version |-> req[t].row.version + 1,
                                      current |-> current]]

Committing(t) == req[t].stage = "checked" /\ RowFree /\ doc.version < MaxWrites

\* save_lesson_document; UNIQUE (document_id, version_number) refuses a number
\* that another transaction has used meanwhile.
Save(t) ==
  LET r == req[t]
      number == r.newest + 1
  IN  /\ Committing(t)
      /\ r.op = "save"
      /\ Len(versions) < MaxVersions
      /\ number = Len(versions) + 1
      /\ versions' = Append(versions, [status |-> "DRAFT", origin |-> "edit",
                                       basis |-> r.shown, job |-> NoJob])
      /\ Flush(r.row, [r.row EXCEPT !.status = "DRAFT", !.current = number])
      /\ Respond(t, number)
      /\ UNCHANGED <<jobs, lock, merged>>

\* generate_lesson_document, regenerate_document_section: idempotency_key (the
\* kind, the version shown, the next row version) is UNIQUE, and so is the lesson
\* of a document that is created.
Enqueue(t) ==
  LET r == req[t]
      task == [state |-> "active", kind |-> r.op, number |-> r.row.version + 1,
               current |-> IF r.op \in Sections THEN r.row.current ELSE 0]
  IN  /\ Committing(t)
      /\ r.op \in Generations
      /\ r.row.status = "ABSENT" => doc.status = "ABSENT"
      /\ \A j \in Jobs : [jobs[j] EXCEPT !.state = "active"] # task
      /\ \E j \in Jobs : /\ jobs[j].state = "new"
                        /\ jobs' = [jobs EXCEPT ![j] = task]
      /\ Flush(r.row, [r.row EXCEPT !.status = "DRAFT"])
      /\ req' = [req EXCEPT ![t] = Unsent]
      /\ UNCHANGED <<versions, lock, merged, screen>>

Target(op) == CASE op = "submit"  -> "PENDING_REVIEW"
                [] op = "approve" -> "APPROVED"
                [] op = "reject"  -> "REJECTED"

\* Mutants: the approved version stays as it is; any verdict retires it, even
\* when it is the version under review.
NoneRetired(r) == {}
RetiredByVerdict(r) == IF r.op = "submit" THEN {} ELSE {r.row.approved}

Retired(r) ==
  IF r.op = "approve" /\ r.row.approved # r.row.current THEN {r.row.approved} ELSE {}

\* _review_transition.
ReviewVersion(t) ==
  LET r == req[t]
      target == Target(r.op)
      new == [r.row EXCEPT !.status = target,
                           !.approved = IF r.op = "approve" THEN r.row.current ELSE @]
  IN  /\ Committing(t)
      /\ r.op \in Reviews
      /\ versions' = [n \in DOMAIN versions |->
                        IF n \in Retired(r) THEN [versions[n] EXCEPT !.status = "SUPERSEDED"]
                        ELSE IF n = r.row.current
                          THEN [versions[n] EXCEPT !.status = Written(@, r.found, target)]
                          ELSE versions[n]]
      /\ Flush(r.row, new)
      /\ Respond(t, r.row.current)
      /\ UNCHANGED <<jobs, lock, merged>>
-----------------------------------------------------------------------------
(* execute_lesson_plan_job, and the end of the task in the queue.          *)

Landed(j) == \E n \in DOMAIN versions : versions[n].job = j

\* SELECT ... FOR UPDATE, then the reads that build the prompt.
StartExecutor(j) ==
  /\ jobs[j].state = "active"
  /\ ~Landed(j)
  /\ RowFree
  /\ jobs[j].kind \in Sections => doc.current \in DOMAIN versions
  /\ lock' = j
  /\ merged' = IF jobs[j].kind \in Sections THEN doc.current ELSE 0
  /\ UNCHANGED <<doc, versions, jobs, req, screen>>

Land(j) ==
  /\ lock = j
  /\ Len(versions) < MaxVersions /\ doc.version < MaxWrites
  /\ versions' = Append(versions, [status |-> "DRAFT", origin |-> jobs[j].kind,
                                   basis |-> merged, job |-> j])
  /\ doc' = [doc EXCEPT !.current = Len(versions) + 1, !.version = @ + 1]
  /\ lock' = NoJob
  /\ merged' = 0
  /\ UNCHANGED <<jobs, req, screen>>

\* The provider failed, the output was refused, the worker crashed: rolled back.
Abandon(j) ==
  /\ lock = j
  /\ lock' = NoJob
  /\ merged' = 0
  /\ UNCHANGED <<doc, versions, jobs, req, screen>>

\* The queue ends the task (complete_job, fail_job, a revocation); until then a
\* task that failed or landed may be executed again.
EndJob(j) ==
  /\ jobs[j].state = "active"
  /\ lock # j
  /\ jobs' = [jobs EXCEPT ![j].state = "ended"]
  /\ UNCHANGED <<doc, versions, lock, merged, req, screen>>
-----------------------------------------------------------------------------
Next ==
  \/ \E t \in Tabs : \/ Open(t) \/ Check(t) \/ Refuse(t)
                     \/ Save(t) \/ Enqueue(t) \/ ReviewVersion(t)
                     \/ \E op \in Operations : Load(t, op)
  \/ \E j \in Jobs : StartExecutor(j) \/ Land(j) \/ Abandon(j) \/ EndJob(j)

Spec == Init /\ [][Next]_vars
-----------------------------------------------------------------------------
\* The document points at its newest version.  Handlers write the pointer from a
\* row they read several transactions earlier (phase2.py:456, 508, 540), and the
\* executor moves it meanwhile (phase2_service.py:327).
CurrentIsNewest == doc.current = Len(versions)

\* No edit of the teacher is lost to a regenerated section: the executor merges
\* the section into the version right before its own (phase2_service.py:293-305),
\* however long the provider took and whatever was saved meanwhile.
MergesIntoNewest ==
  \A n \in DOMAIN versions : versions[n].origin \in Sections => versions[n].basis = n - 1

\* The versions are one line: the document points at its end, and what is merged
\* goes on from the version before.
HistoryIsLinear == CurrentIsNewest /\ MergesIntoNewest

\* Approving a version retires the one approved before (phase2.py:543-556),
\* although drafts land between the reads of the approval and its commit, and a
\* generation may have reopened the approved version.
AtMostOneApproved ==
  \A m, n \in DOMAIN versions :
    versions[m].status = "APPROVED" /\ versions[n].status = "APPROVED" => m = n

\* A version that was superseded stays so (docs/states.md:26).
SupersededIsFinal ==
  [][\A n \in DOMAIN versions :
       versions[n].status = "SUPERSEDED" => versions'[n].status = "SUPERSEDED"]_vars

\* What the document says of its review is said by a version row too: some
\* version waits for review or was rejected, and an approved document has the
\* version that may be exported.  The two tables are written by different sets
\* of operations (phase2.py:375, 508, 540-541).
StatusBacked ==
  /\ doc.status \in {"PENDING_REVIEW", "REJECTED"} =>
       \E n \in DOMAIN versions : versions[n].status = doc.status
  /\ doc.status = "APPROVED" =>
       doc.approved \in DOMAIN versions /\ versions[doc.approved].status = "APPROVED"

BecomesApproved(n) ==
  /\ versions[n].status # "APPROVED"
  /\ versions'[n].status = "APPROVED"

\* What docs/architecture.md:26 says: the review approves the version that the
\* teacher designated, one that some tab shows.
ApprovesWhatIsShown ==
  [][\A n \in DOMAIN versions :
       BecomesApproved(n) => \E t \in Tabs : screen[t].current = n]_vars
=============================================================================
