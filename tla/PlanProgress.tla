---------------------------- MODULE PlanProgress ----------------------------
(***************************************************************************)
(* One teaching plan of a student: its items, the numbered revisions that  *)
(* every change leaves behind, and the student's mastery of a knowledge    *)
(* point with its evidence.  The handlers of phase1.py read without a      *)
(* lock; the UPDATE of an item is sent by the autoflush of the next SELECT *)
(* and locks the row until the commit.  The approval of a feedback         *)
(* (phase3.py) locks the student's subject with its feedback, then the     *)
(* items one by one, the plan, and the mastery.                            *)
(***************************************************************************)
EXTENDS Naturals, Sequences

CONSTANTS
  Tabs,        \* browser tabs of the teacher
  Items,       \* the items the plan may get
  Levels,      \* mastery levels an approval may propose
  Unlearned,   \* the level of a point nobody has assessed
  Absent,      \* what a snapshot holds of an item that was not there
  Deltas,      \* minutes that a completion, an approval or an edit carries
  MaxPlan,     \* bound on TeachingPlan.version
  MaxEvidence  \* bound on the evidence explored

ASSUME PlanAssumption ==
  /\ Unlearned \notin Levels
  /\ Absent \notin Nat
  /\ Deltas \subseteq Nat
  /\ MaxPlan \in Nat
  /\ MaxEvidence \in Nat

VARIABLES
  plan,       \* version and archive mark of the row; version 0: not created
  items,      \* minutes and version of each row; version 0: not created
  revisions,  \* the snapshots, by version_number
  mastery,    \* the level of the student_masteries row, Unlearned: no row
  evidence,   \* the mastery_evidence rows, in order
  session,    \* what the request of each tab has read and written so far
  credited,   \* minutes set by the last edit plus all that was added since
  raced       \* items written by a request that had read an older row

vars == <<plan, items, revisions, mastery, evidence, session, credited, raced>>

Plans == [version: Nat, archived: BOOLEAN]
Rows == [minutes: Nat, version: Nat]
Changes == {"minutes", "delta", "approval"}
Proposals == Levels \cup {Unlearned}
Evidence == [previous: Proposals, new: Levels]
Stages == {"idle", "plan", "items", "locking", "flushed", "assessed"}
\* rows: the items as the session holds them; value: the minutes it sends for them.
Sessions == [stage: Stages, change: Changes, rows: [Items -> Rows], value: Nat, plan: Nat,
             level: Proposals]

TypeOK ==
  /\ plan \in Plans
  /\ items \in [Items -> Rows]
  /\ revisions \in Seq([Items -> Nat \cup {Absent}])
  /\ mastery \in Proposals
  /\ evidence \in Seq(Evidence)
  /\ session \in [Tabs -> Sessions]
  /\ credited \in [Items -> Nat]
  /\ raced \subseteq Items

NoRows == [i \in Items |-> [minutes |-> 0, version |-> 0]]
Idle == [stage |-> "idle", change |-> "delta", rows |-> NoRows, value |-> 0, plan |-> 0,
         level |-> Unlearned]

Init ==
  /\ plan = [version |-> 0, archived |-> FALSE]
  /\ items = NoRows
  /\ revisions = << >>
  /\ mastery = Unlearned
  /\ evidence = << >>
  /\ session = [t \in Tabs |-> Idle]
  /\ credited = [i \in Items |-> 0]
  /\ raced = {}

Exists(i) == items[i].version > 0
Held(rows) == {i \in Items : rows[i].version > 0}
Writing(t) == session[t].stage \in {"locking", "flushed", "assessed"}
RowFree(t, i) == \A u \in Tabs \ {t} : Writing(u) => i \notin Held(session[u].rows)
Approving(t) == Writing(t) /\ session[t].change = "approval"
PlanFree(t) == \A u \in Tabs \ {t} : ~(Approving(u) /\ session[u].plan > 0)
Put(t, s) == session' = [session EXCEPT ![t] = s]
-----------------------------------------------------------------------------
(* The revision that every change of the plan leaves.                      *)

NumberFree(number) == number \notin DOMAIN revisions

\* Mutant: the rows are taken as they were before this request wrote its own.
SnapshotBefore(rows) == [i \in Items |-> IF Exists(i) THEN items[i].minutes ELSE Absent]

\* create_plan_revision: the session's own rows hide what the table holds of them.
Snapshot(rows) ==
  [i \in Items |-> IF i \in Held(rows) THEN rows[i].minutes
                   ELSE IF Exists(i) THEN items[i].minutes ELSE Absent]

\* plan.version += 1 from the row the session has read, and the revision.
Revise(read, rows) ==
  /\ read < MaxPlan
  /\ NumberFree(read + 1)
  /\ plan' = [plan EXCEPT !.version = read + 1]
  /\ revisions' = Append(revisions, Snapshot(rows))

\* create_plan.
CreatePlan ==
  /\ plan.version = 0
  /\ Revise(0, NoRows)
  /\ UNCHANGED <<items, mastery, evidence, session, credited, raced>>
-----------------------------------------------------------------------------
(* create_plan_item, update_plan_record and archive_plan read the plan and *)
(* write it later.                                                         *)

ReadPlan(t) ==
  /\ session[t].stage = "idle"
  /\ plan.version > 0
  /\ Put(t, [Idle EXCEPT !.stage = "plan", !.plan = plan.version])
  /\ UNCHANGED <<plan, items, revisions, mastery, evidence, credited, raced>>

CreateItem(t, i) ==
  LET new == [minutes |-> 0, version |-> 1] IN
  /\ session[t].stage = "plan"
  /\ PlanFree(t)
  /\ ~Exists(i)
  /\ Revise(session[t].plan, [NoRows EXCEPT ![i] = new])
  /\ items' = [items EXCEPT ![i] = new]
  /\ Put(t, Idle)
  /\ UNCHANGED <<mastery, evidence, credited, raced>>

\* archive_plan: an archived plan is still edited; nothing else looks at the mark.
ChangePlan(t, archive) ==
  /\ session[t].stage = "plan"
  /\ PlanFree(t)
  /\ session[t].plan < MaxPlan
  /\ NumberFree(session[t].plan + 1)
  /\ plan' = [version |-> session[t].plan + 1, archived |-> plan.archived \/ archive]
  /\ revisions' = Append(revisions, Snapshot(NoRows))
  /\ Put(t, Idle)
  /\ UNCHANGED <<items, mastery, evidence, credited, raced>>
-----------------------------------------------------------------------------
(* update_plan_item and complete_lesson: the items are read, then flushed  *)
(* with what the request makes of them, then the plan is read.             *)

ReadItems(t, S) ==
  /\ session[t].stage = "idle"
  /\ S # {} /\ \A i \in S : Exists(i)
  /\ Put(t, [Idle EXCEPT !.stage = "items", !.rows = [i \in Items |-> IF i \in S THEN items[i] ELSE @[i]]])
  /\ UNCHANGED <<plan, items, revisions, mastery, evidence, credited, raced>>

\* Mutant: the minutes of the lesson replace those of the item.
Replaced(row, change, value) == [minutes |-> value, version |-> row.version + 1]

\* An edit sets the minutes of one item; a completion adds to each of its items.
Changed(row, change, value) ==
  [minutes |-> IF change = "minutes" THEN value ELSE row.minutes + value,
   version |-> row.version + 1]

Flush(t, change, value) ==
  LET s == session[t] IN
  /\ s.stage = "items"
  /\ change \in {"minutes", "delta"}
  /\ change = "minutes" => \E i \in Items : Held(s.rows) = {i}
  /\ \A i \in Held(s.rows) : RowFree(t, i)
  /\ Put(t, [s EXCEPT !.stage = "flushed", !.change = change, !.value = value,
                      !.plan = plan.version])
  /\ UNCHANGED <<plan, items, revisions, mastery, evidence, credited, raced>>
-----------------------------------------------------------------------------
(* review_transition to APPROVED: SELECT ... FOR UPDATE for each item, in  *)
(* the order of the content, then for the plan, then for the mastery.      *)

\* Mutant: the approval reads its items as the other handlers do.
Unlocked(t, i) == TRUE

LockFree(t, i) == RowFree(t, i)

\* owned_feedback(for_update) joins the lesson with student_subjects and students, and
\* FOR UPDATE locks every row of the join: a student's subject has one approval at a time.
LinkFree(t) == \A u \in Tabs \ {t} : ~Approving(u)

LockItem(t, i, value) ==
  LET s == session[t] IN
  /\ s.stage \in {"idle", "locking"}
  /\ s.stage = "idle" => LinkFree(t)
  /\ s.stage = "locking" => s.value = value
  /\ Exists(i) /\ i \notin Held(s.rows)
  /\ LockFree(t, i)
  /\ Put(t, [s EXCEPT !.stage = "locking", !.change = "approval", !.value = value,
                      !.rows[i] = items[i]])
  /\ UNCHANGED <<plan, items, revisions, mastery, evidence, credited, raced>>

LockPlan(t) ==
  /\ session[t].stage = "locking"
  /\ PlanFree(t)
  /\ Put(t, [session[t] EXCEPT !.stage = "flushed", !.plan = plan.version])
  /\ UNCHANGED <<plan, items, revisions, mastery, evidence, credited, raced>>

\* FOR UPDATE of the mastery, if there is a row; approvals are its only writers.
MasteryFree(t) ==
  mastery = Unlearned \/ \A u \in Tabs \ {t} : session[u].stage # "assessed"

\* A feedback may propose mastery and no progress: then the plan is left alone.
ReadMastery(t) ==
  LET s == session[t] IN
  /\ \/ s.stage = "idle" /\ LinkFree(t)
     \/ s.stage = "flushed" /\ s.change = "approval"
  /\ MasteryFree(t)
  /\ Put(t, [s EXCEPT !.stage = "assessed", !.change = "approval", !.level = mastery])
  /\ UNCHANGED <<plan, items, revisions, mastery, evidence, credited, raced>>

\* UNIQUE (student_subject_id, knowledge_point_id).
MasteryAsRead(read) == read # Unlearned \/ mastery = Unlearned

Assess(read, new) ==
  /\ Len(evidence) < MaxEvidence
  /\ MasteryAsRead(read)
  /\ mastery' = new
  /\ evidence' = Append(evidence, [previous |-> read, new |-> new])
-----------------------------------------------------------------------------
(* The commit, and the rollback of a refused or deadlocked request.        *)

\* The UPDATE names actual_minutes only if the handler changed it.
Written(i, old, new) ==
  [new EXCEPT !.minutes = IF new.minutes = old.minutes THEN items[i].minutes ELSE @]

WriteItems(s) ==
  LET held == Held(s.rows)
      new == [i \in Items |-> IF i \in held THEN Changed(s.rows[i], s.change, s.value)
                                             ELSE s.rows[i]]
  IN
  /\ items' = [i \in Items |-> IF i \in held THEN Written(i, s.rows[i], new[i]) ELSE items[i]]
  /\ credited' = [i \in Items |->
       IF i \notin held THEN credited[i]
       ELSE IF s.change = "minutes" THEN s.value ELSE credited[i] + s.value]
  /\ raced' = raced \cup {i \in held : s.rows[i] # items[i]}
  /\ IF held = {} THEN UNCHANGED <<plan, revisions>> ELSE Revise(s.plan, new)

Commit(t) ==
  LET s == session[t] IN
  /\ s.stage = "flushed"
  /\ PlanFree(t)
  /\ WriteItems(s)
  /\ Put(t, Idle)
  /\ UNCHANGED <<mastery, evidence>>

CommitApproval(t, new) ==
  LET s == session[t] IN
  /\ s.stage = "assessed"
  /\ WriteItems(s)
  /\ Assess(s.level, new)
  /\ Put(t, Idle)

Refuse(t) ==
  /\ session[t].stage # "idle"
  /\ Put(t, Idle)
  /\ UNCHANGED <<plan, items, revisions, mastery, evidence, credited, raced>>
-----------------------------------------------------------------------------
Next ==
  \/ CreatePlan
  \/ \E t \in Tabs :
       \/ ReadPlan(t) \/ LockPlan(t) \/ ReadMastery(t) \/ Commit(t) \/ Refuse(t)
       \/ \E i \in Items : CreateItem(t, i) \/ \E value \in Deltas : LockItem(t, i, value)
       \/ \E archive \in BOOLEAN : ChangePlan(t, archive)
       \/ \E S \in SUBSET Items : ReadItems(t, S)
       \/ \E change \in Changes, value \in Deltas : Flush(t, change, value)
       \/ \E new \in Levels : CommitApproval(t, new)

Spec == Init /\ [][Next]_vars
-----------------------------------------------------------------------------
\* The history of the plan has no gap and no fork: each version of the plan has
\* exactly one revision, although no handler of phase1.py locks the plan
\* (phase1.py:818, models.py:401).
RevisionPerVersion == Len(revisions) = plan.version

\* The newest revision is the plan as it stands, for every item that no request
\* wrote from an older row (phase1.py:280-319, docs/requirements.md:12).
NewestRevisionIsPlan ==
  revisions # << >> =>
    \A i \in Items \ raced :
      revisions[Len(revisions)][i] = IF Exists(i) THEN items[i].minutes ELSE Absent

\* The evidence is a chain from UNLEARNED to the level of the mastery row: each
\* approval records the level it replaced (phase3.py:509-538, docs/states.md:15).
EvidenceChain ==
  /\ \A n \in DOMAIN evidence :
       evidence[n].previous = IF n = 1 THEN Unlearned ELSE evidence[n - 1].new
  /\ mastery = IF evidence = << >> THEN Unlearned ELSE evidence[Len(evidence)].new

\* The plan and the mastery agree with their histories, in types, in length and in content.
HistoryAgrees == TypeOK /\ RevisionPerVersion /\ NewestRevisionIsPlan /\ EvidenceChain

\* The minutes of completed lessons and approved feedback all arrive, except at
\* items that a request wrote from an older row (phase1.py:1070, phase3.py:474).
MinutesCredited == \A i \in Items \ raced : items[i].minutes = credited[i]

\* Approvals never write from an older row, although edits and completions write the
\* same items without a lock of their own (phase3.py:463-472, phase1.py:852).
ApprovalsNeverRace ==
  [][\A t \in Tabs : Approving(t) /\ items' # items /\ session'[t] = Idle => raced' = raced]_vars
=============================================================================
