------------------------------ MODULE Practice ------------------------------
(***************************************************************************)
(* Wrong questions (错题) and generated question sets of one link, and the  *)
(* two executors that write drafts into them: phase4.py and                *)
(* phase4_service.py.  The two kinds of record have the same review, so a  *)
(* row, its versions and what an approval derives from it are kept in one  *)
(* function each.                                                          *)
(*                                                                         *)
(* Every handler that writes takes the row FOR UPDATE before it compares   *)
(* the version of the screen, so a request is one step.  An executor looks *)
(* for its own draft before it takes the lock, and holds the lock while    *)
(* the provider answers.                                                   *)
(***************************************************************************)
EXTENDS Integers, Sequences, FiniteSetsExt

CONSTANTS
  Questions,  \* wrong questions that may be recorded
  Sets,       \* question sets that may be generated
  Tabs,
  Runs,       \* executions of tasks that may overlap
  NoRecord,
  MaxWrites   \* bound on the sum of the row versions

ASSUME PracticeAssumption ==
  /\ Questions \cap Sets = {}
  /\ NoRecord \notin Questions \cup Sets
  /\ MaxWrites \in Nat

VARIABLES
  rows,      \* wrong_questions and generated_question_sets
  versions,  \* their version rows, by number
  derived,   \* versions the knowledge-point links or the published questions come from
  screens,   \* what each tab shows
  runs       \* the executions under way

vars == <<rows, versions, derived, screens, runs>>

Records == Questions \cup Sets
ReviewStatus == {"DRAFT", "PENDING_REVIEW", "APPROVED", "REJECTED", "SUPERSEDED"}
\* uses: the versions of wrong questions that the prompt of a generated set quoted.
VersionRows == [status: ReviewStatus, complete: BOOLEAN, byTask: BOOLEAN,
                uses: SUBSET (Questions \X Nat)]
\* current, approved: 0 where the column is 0 or NULL.
Rows == [status: ReviewStatus \cup {"ABSENT"}, current: Nat, approved: Nat, version: Nat,
         archived: BOOLEAN, task: BOOLEAN, reviews: Nat, asked: SUBSET Questions]
Screens == [of: Records \cup {NoRecord}, version: Nat, current: Nat]
RunRows == [stage: {"idle", "checked", "locked"}, of: Records \cup {NoRecord}, version: Nat,
            uses: SUBSET (Questions \X Nat)]

TypeOK ==
  /\ rows \in [Records -> Rows]
  /\ versions \in [Records -> Seq(VersionRows)]
  /\ derived \in [Records -> SUBSET Nat]
  /\ screens \in [Tabs -> Screens]
  /\ runs \in [Runs -> RunRows]
  /\ \A x \in Records : rows[x].status # "SUPERSEDED"

NoRow == [status |-> "ABSENT", current |-> 0, approved |-> 0, version |-> 0, archived |-> FALSE,
          task |-> FALSE, reviews |-> 0, asked |-> {}]
Blank == [of |-> NoRecord, version |-> 0, current |-> 0]
NoRun == [stage |-> "idle", of |-> NoRecord, version |-> 0, uses |-> {}]
Draft(complete) == [status |-> "DRAFT", complete |-> complete, byTask |-> FALSE, uses |-> {}]

Init ==
  /\ rows = [x \in Records |-> NoRow]
  /\ versions = [x \in Records |-> <<>>]
  /\ derived = [x \in Records |-> {}]
  /\ screens = [t \in Tabs |-> Blank]
  /\ runs = [r \in Runs |-> NoRun]

Writes == MapThenSumSet(LAMBDA x : rows[x].version, Records)
Locked(x) == \E r \in Runs : runs[r].stage = "locked" /\ runs[r].of = x
Shown(x, row) == [of |-> x, version |-> row.version, current |-> row.current]
-----------------------------------------------------------------------------
(* Requests of the teacher.                                                *)

Open(t, x) ==
  /\ rows[x].status # "ABSENT"
  /\ screens' = [screens EXCEPT ![t] = Shown(x, rows[x])]
  /\ UNCHANGED <<rows, versions, derived, runs>>

Create(x, row, vs) ==
  /\ rows[x].status = "ABSENT"
  /\ Writes < MaxWrites
  /\ rows' = [rows EXCEPT ![x] = row]
  /\ versions' = [versions EXCEPT ![x] = vs]
  /\ UNCHANGED <<screens, runs>>

\* A question typed in by the teacher is complete and approved at once.
CreateWrongQuestion(q) ==
  /\ Create(q, [NoRow EXCEPT !.status = "APPROVED", !.current = 1, !.approved = 1, !.version = 1],
            <<[Draft(TRUE) EXCEPT !.status = "APPROVED"]>>)
  /\ derived' = [derived EXCEPT ![q] = {1}]

\* The stored image is in AccountFiles.
CreateFromImage(q) ==
  /\ Create(q, [NoRow EXCEPT !.status = "DRAFT", !.current = 1, !.version = 1, !.task = TRUE],
            <<Draft(FALSE)>>)
  /\ UNCHANGED derived

Usable(q) == rows[q].status = "APPROVED" /\ ~rows[q].archived

GenerateQuestionSet(s, asked) ==
  /\ \A q \in asked : Usable(q)
  /\ Create(s, [NoRow EXCEPT !.status = "DRAFT", !.version = 1, !.task = TRUE, !.asked = asked],
            <<>>)
  /\ UNCHANGED derived

MayWrite(t, x) == screens[t].of = x /\ screens[t].version = rows[x].version /\ ~Locked(x)

\* The answer shows the row that was written.
Commit(t, x, row, vs) ==
  LET written == [row EXCEPT !.version = @ + 1] IN
  /\ MayWrite(t, x)
  /\ Writes < MaxWrites
  /\ rows' = [rows EXCEPT ![x] = written]
  /\ versions' = [versions EXCEPT ![x] = vs]
  /\ screens' = [screens EXCEPT ![t] = Shown(x, written)]
  /\ UNCHANGED runs

Editable(row) == row.status \notin {"ABSENT", "APPROVED"}

\* UNIQUE (record, version_number).
Save(t, x, complete) ==
  LET row == rows[x]
      number == row.current + 1
      retired == [i \in DOMAIN versions[x] |->
                    IF i = row.current THEN [versions[x][i] EXCEPT !.status = "SUPERSEDED"]
                    ELSE versions[x][i]]
  IN
  /\ Editable(row)
  /\ number \notin DOMAIN versions[x]
  /\ Commit(t, x, [row EXCEPT !.current = number, !.status = "DRAFT"],
            Append(retired, Draft(complete)))
  /\ UNCHANGED derived

AllowedFrom(target) ==
  IF target = "PENDING_REVIEW" THEN {"DRAFT", "REJECTED"} ELSE {"PENDING_REVIEW"}

Transition(t, x, target, approved) ==
  LET row == rows[x] IN
  /\ row.current \in DOMAIN versions[x]
  /\ row.status \in AllowedFrom(target)
  /\ Commit(t, x, [row EXCEPT !.status = target, !.approved = approved],
            [versions[x] EXCEPT ![row.current].status = target])

Submit(t, x) == Transition(t, x, "PENDING_REVIEW", rows[x].approved) /\ UNCHANGED derived
Reject(t, x) == Transition(t, x, "REJECTED", rows[x].approved) /\ UNCHANGED derived

\* Mutant: what an earlier approval published is not deleted.
PublishAlso(x, n) == derived' = [derived EXCEPT ![x] = @ \cup {n}]

\* replace_wrong_question_points, or the rows of generated_questions.
Publish(x, n) == derived' = [derived EXCEPT ![x] = {n}]

\* validate_for_approval asks a question for its answer, reason and analysis.
Approve(t, x) ==
  LET n == rows[x].current IN
  /\ Transition(t, x, "APPROVED", n)
  /\ x \in Questions => versions[x][n].complete
  /\ Publish(x, n)

RecordReview(t, q) ==
  /\ rows[q].status = "APPROVED"
  /\ Commit(t, q, [rows[q] EXCEPT !.reviews = @ + 1], versions[q])
  /\ UNCHANGED derived

Archive(t, q) ==
  /\ rows[q].status # "ABSENT"
  /\ Commit(t, q, [rows[q] EXCEPT !.archived = TRUE], versions[q])
  /\ UNCHANGED derived
-----------------------------------------------------------------------------
(* The executors.  Which task runs, and how often, is in AIJobQueue.       *)

Drafted(x) == \E i \in DOMAIN versions[x] : versions[x][i].byTask

StartRun(r, x) ==
  /\ runs[r].stage = "idle"
  /\ rows[x].task /\ ~Drafted(x)
  /\ runs' = [runs EXCEPT ![r] = [NoRun EXCEPT !.stage = "checked", !.of = x]]
  /\ UNCHANGED <<rows, versions, derived, screens>>

\* Mutant: the prompt quotes the current version of a wrong question.
QuotedCurrent(q) == <<q, rows[q].current>>

Quoted(q) == <<q, rows[q].approved>>

\* The row FOR UPDATE, and the wrong questions a set was asked for, without a lock.
LockRow(r) ==
  LET x == runs[r].of
      quoted == {q \in rows[x].asked : rows[q].approved > 0 /\ ~rows[q].archived}
  IN
  /\ runs[r].stage = "checked"
  /\ ~Locked(x)
  /\ runs' = [runs EXCEPT ![r] = [@ EXCEPT !.stage = "locked", !.version = rows[x].version,
                                           !.uses = {Quoted(q) : q \in quoted}]]
  /\ UNCHANGED <<rows, versions, derived, screens>>

\* Mutant: the version that is current is retired.
RetiresCurrent(x) == {rows[x].current}

\* Recognition retires the version that carries the image; generation has no source.
Retires(x) == IF x \in Questions THEN {1} ELSE {}

\* UNIQUE (ai_job_id): the commit of a second draft of the task fails.
Lands(x) == ~Drafted(x)

\* Mutant: the status of the record is left as it is.
StatusKept(x) == rows[x].status

StatusLanded(x) == "DRAFT"

Land(r, complete) ==
  LET x == runs[r].of
      number == Len(versions[x]) + 1
      retired == [i \in DOMAIN versions[x] |->
                    IF i \in Retires(x) THEN [versions[x][i] EXCEPT !.status = "SUPERSEDED"]
                    ELSE versions[x][i]]
      draft == [Draft(complete) EXCEPT !.byTask = TRUE, !.uses = runs[r].uses]
  IN
  /\ runs[r].stage = "locked"
  /\ Lands(x)
  /\ Writes < MaxWrites
  /\ versions' = [versions EXCEPT ![x] = Append(retired, draft)]
  /\ rows' = [rows EXCEPT ![x] = [@ EXCEPT !.current = number, !.status = StatusLanded(x),
                                           !.version = runs[r].version + 1]]
  /\ runs' = [runs EXCEPT ![r] = NoRun]
  /\ UNCHANGED <<derived, screens>>

\* An error of the provider, of validation or of the commit, or a worker that dies.
FailRun(r) ==
  /\ runs[r].stage # "idle"
  /\ runs' = [runs EXCEPT ![r] = NoRun]
  /\ UNCHANGED <<rows, versions, derived, screens>>
-----------------------------------------------------------------------------
Next ==
  \/ \E q \in Questions : CreateWrongQuestion(q) \/ CreateFromImage(q)
  \/ \E s \in Sets, asked \in SUBSET Questions : GenerateQuestionSet(s, asked)
  \/ \E t \in Tabs :
       \/ \E x \in Records :
            \/ Open(t, x) \/ Submit(t, x) \/ Approve(t, x) \/ Reject(t, x)
            \/ \E complete \in BOOLEAN : Save(t, x, complete)
       \/ \E q \in Questions : RecordReview(t, q) \/ Archive(t, q)
  \/ \E r \in Runs :
       \/ LockRow(r) \/ FailRun(r)
       \/ \E x \in Records : StartRun(r, x)
       \/ \E complete \in BOOLEAN : Land(r, complete)

Spec == Init /\ [][Next]_vars
-----------------------------------------------------------------------------
\* A record has the status of its current version, and the current version is the
\* newest, although saving counts on from the pointer and an executor from the
\* largest number (phase4.py:478-492, phase4_service.py:263-286).
CurrentIsNewest ==
  \A x \in Records : rows[x].current > 0 =>
    /\ rows[x].current = Len(versions[x])
    /\ rows[x].status = versions[x][rows[x].current].status

\* The knowledge points of a question and the published questions of a set are those
\* of the approved version, once a late draft has reopened the review and after a
\* second approval as well (phase4.py:526, 838-873, docs/phase4-wrong-questions.md:6, 9).
DerivedFromApproved ==
  \A x \in Records : derived[x] = IF rows[x].approved = 0 THEN {} ELSE {rows[x].approved}

\* A record agrees with its versions and with what was published from them.
RecordsAgree == TypeOK /\ CurrentIsNewest /\ DerivedFromApproved

\* Approved content is complete and a prompt quotes nothing else of a wrong question,
\* whatever happens to the question while the set is generated (phase4.py:697-706,
\* phase4_service.py:346-375).
QuotesApproved ==
  \A s \in Sets : \A i \in DOMAIN versions[s] : \A u \in versions[s][i].uses :
    /\ u[2] \in DOMAIN versions[u[1]]
    /\ versions[u[1]][u[2]].status = "APPROVED"
    /\ versions[u[1]][u[2]].complete

\* An approved version is never written again (docs/phase4-wrong-questions.md:7).
ApprovedVersionKept ==
  [][\A x \in Records : \A i \in DOMAIN versions[x] :
       versions[x][i].status = "APPROVED" => versions'[x][i] = versions[x][i]]_vars

\* A version is approved only after it was submitted: a draft that lands while the
\* record waits for review takes the review back (phase4.py:512-518,
\* phase4_service.py:285).
ApprovesSubmitted(x) ==
  \A i \in DOMAIN versions[x] :
    versions[x][i].status # "APPROVED" /\ versions'[x][i].status = "APPROVED"
      => versions[x][i].status = "PENDING_REVIEW"

\* A step of the review acts on the version that the screen of a tab shows, although
\* drafts land between the reading and the click (phase4.py:79, 504).
ActsOnScreen(x) ==
  /\ rows[x].status \notin {"ABSENT", rows'[x].status}
  /\ rows'[x].current = rows[x].current
  => \E t \in Tabs : screens[t].of = x /\ screens[t].current = rows[x].current

\* The review is of what a teacher saw and submitted (phase4.py:79, 504-518).
ReviewsWhatIsShown == [][\A x \in Records : ApprovesSubmitted(x) /\ ActsOnScreen(x)]_vars
=============================================================================
