--------------------------- MODULE LessonSchedule ---------------------------
(***************************************************************************)
(* The students, subjects and student-subject links of one teacher, and    *)
(* the lessons scheduled on the links: the handlers of phase1.py.  None of *)
(* them locks a row.  A request reads what it needs, decides, and commits  *)
(* later; an UPDATE names only the columns the handler changed.            *)
(*                                                                         *)
(* check_version compares the payload with the row the same request has    *)
(* read, and a tab can always have refreshed just before: it refuses old   *)
(* screens, not overlapping requests.                                      *)
(***************************************************************************)
EXTENDS Integers, FiniteSetsExt

CONSTANTS
  Requests,    \* requests of the teacher's browser tabs that may overlap
  Students,
  Subjects,
  Lessons,     \* the lessons that may be created
  NoLesson,    \* rescheduled_from_lesson_id IS NULL
  Minutes,     \* planned and actual minutes that are entered
  Prices,      \* unit prices, in cents an hour
  MaxWrites    \* bound on the sum of Lesson.version over the lessons

ASSUME ScheduleAssumption ==
  /\ IsFiniteSet(Lessons) /\ NoLesson \notin Lessons
  /\ Students # {} /\ Subjects # {}
  /\ Minutes \subseteq Nat \ {0}
  /\ Prices \subseteq Nat
  /\ MaxWrites \in Nat

VARIABLES
  students,  \* archive state of each student
  subjects,  \* archive state of each subject
  links,     \* archive state of each row of student_subjects
  lessons,   \* the rows of lessons
  reads,     \* what each request has read
  overlapped \* lessons and links written by a request whose reads had become old

scheduleVars == <<students, subjects, links, lessons, reads, overlapped>>

Links == Students \X Subjects
Record == {"ABSENT", "ACTIVE", "ARCHIVED"}
LessonStatus == {"ABSENT", "PLANNED", "COMPLETED", "CANCELED", "RESCHEDULED"}
LessonRows == [status: LessonStatus, link: Links, planned: Nat, actual: Nat, price: Nat,
               receivable: Nat, overridden: BOOLEAN, from: Lessons \cup {NoLesson},
               version: Nat]
\* stage: whether the request has read a lesson, or a link with its student and its
\* subject; then whether its counts found planned lessons of the link, planned lessons
\* of the student, and active links of the subject.
Reads == [stage: {"idle", "lesson", "link", "paying"}, lesson: Lessons \cup {NoLesson},
          row: LessonRows, link: Links, student: Record, subject: Record, linked: Record,
          planned: BOOLEAN, ofStudent: BOOLEAN, ofSubject: BOOLEAN]

ScheduleTypeOK ==
  /\ students \in [Students -> Record]
  /\ subjects \in [Subjects -> Record]
  /\ links \in [Links -> Record]
  /\ lessons \in [Lessons -> LessonRows]
  /\ reads \in [Requests -> Reads]
  /\ overlapped \subseteq Lessons \cup Links

NoRow == [status |-> "ABSENT", link |-> CHOOSE k \in Links : TRUE, planned |-> 0, actual |-> 0,
          price |-> 0, receivable |-> 0, overridden |-> FALSE, from |-> NoLesson, version |-> 0]
NoReads == [stage |-> "idle", lesson |-> NoLesson, row |-> NoRow,
         link |-> NoRow.link, student |-> "ABSENT", subject |-> "ABSENT", linked |-> "ABSENT",
         planned |-> FALSE, ofStudent |-> FALSE, ofSubject |-> FALSE]

ScheduleInit ==
  /\ students = [s \in Students |-> "ABSENT"]
  /\ subjects = [s \in Subjects |-> "ABSENT"]
  /\ links = [k \in Links |-> "ABSENT"]
  /\ lessons = [l \in Lessons |-> NoRow]
  /\ reads = [r \in Requests |-> NoReads]
  /\ overlapped = {}

Done(r) == reads' = [reads EXCEPT ![r] = NoReads]
OfLink(k) == {l \in Lessons : lessons[l].link = k /\ lessons[l].status # "ABSENT"}
Writes == MapThenSumSet(LAMBDA l : lessons[l].version, Lessons)
Planned(k) == {l \in OfLink(k) : lessons[l].status = "PLANNED"}
-----------------------------------------------------------------------------
(* calculated_receivable_cents and refresh_lesson_receivable.              *)

Calculated(price, minutes) == (price * minutes + 30) \div 60

\* Mutant: a completed lesson is charged for the minutes that were planned.
RefreshedByPlan(row) ==
  [row EXCEPT !.receivable =
     CASE row.overridden -> @
       [] ~row.overridden /\ row.status \in {"CANCELED", "RESCHEDULED"} -> 0
       [] OTHER -> Calculated(row.price, row.planned)]

Refreshed(row) ==
  [row EXCEPT !.receivable =
     CASE row.overridden -> @
       [] ~row.overridden /\ row.status \in {"CANCELED", "RESCHEDULED"} -> 0
       [] ~row.overridden /\ row.status = "COMPLETED" -> Calculated(row.price, row.actual)
       [] OTHER -> Calculated(row.price, row.planned)]
-----------------------------------------------------------------------------
(* Students, subjects and links.                                           *)

CreateStudent(s) ==
  /\ students[s] = "ABSENT"
  /\ students' = [students EXCEPT ![s] = "ACTIVE"]
  /\ UNCHANGED <<subjects, links, lessons, reads, overlapped>>

CreateSubject(s) ==
  /\ subjects[s] = "ABSENT"
  /\ subjects' = [subjects EXCEPT ![s] = "ACTIVE"]
  /\ UNCHANGED <<students, links, lessons, reads, overlapped>>

\* The counts of the archive handlers.
HasPlanned(k) == Planned(k) # {}
StudentHasPlanned(s) == \E k \in Links : k[1] = s /\ HasPlanned(k)
SubjectInUse(s) == \E k \in Links : k[2] = s /\ links[k] = "ACTIVE"

\* owned_student, owned_subject or owned_student_subject, and the count; the handler
\* decides at its commit, by what it has read here.
ReadLink(r, k) ==
  /\ reads[r].stage = "idle"
  /\ students[k[1]] # "ABSENT" \/ subjects[k[2]] # "ABSENT"
  /\ reads' = [reads EXCEPT ![r] =
       [NoReads EXCEPT !.stage = "link", !.link = k, !.student = students[k[1]],
                    !.subject = subjects[k[2]], !.linked = links[k],
                    !.planned = HasPlanned(k), !.ofStudent = StudentHasPlanned(k[1]),
                    !.ofSubject = SubjectInUse(k[2])]]
  /\ UNCHANGED <<students, subjects, links, lessons, overlapped>>

\* History: ks are excused when what the handler decided by is no longer so.
Decided(current, ks) == overlapped' = IF current THEN overlapped ELSE overlapped \cup ks

\* create_student_subject; UNIQUE (student_id, subject_id).
CreateLink(r) ==
  LET s == reads[r] IN
  /\ s.stage = "link"
  /\ s.student = "ACTIVE" /\ s.subject = "ACTIVE"
  /\ links[s.link] = "ABSENT"
  /\ links' = [links EXCEPT ![s.link] = "ACTIVE"]
  /\ Decided(students[s.link[1]] = s.student /\ subjects[s.link[2]] = s.subject, {s.link})
  /\ Done(r)
  /\ UNCHANGED <<students, subjects, lessons>>

\* Mutant: planned lessons are not counted.
MayArchiveAny(s) == s.linked # "ABSENT"

MayArchive(s) == s.linked # "ABSENT" /\ ~s.planned

ArchiveLink(r) ==
  LET s == reads[r] IN
  /\ s.stage = "link"
  /\ MayArchive(s)
  /\ links' = [links EXCEPT ![s.link] = "ARCHIVED"]
  /\ Decided(HasPlanned(s.link) = s.planned, {s.link})
  /\ Done(r)
  /\ UNCHANGED <<students, subjects, lessons>>

\* archive_student counts the planned lessons of all its links; the links stay active.
ArchiveStudent(r) ==
  LET s == reads[r] IN
  /\ s.stage = "link"
  /\ s.student # "ABSENT" /\ ~s.ofStudent
  /\ students' = [students EXCEPT ![s.link[1]] = "ARCHIVED"]
  /\ Done(r)
  /\ UNCHANGED <<subjects, links, lessons, overlapped>>

SubjectUnused(s) == s.subject # "ABSENT" /\ ~s.ofSubject

ArchiveSubject(r) ==
  LET s == reads[r] IN
  /\ s.stage = "link"
  /\ SubjectUnused(s)
  /\ subjects' = [subjects EXCEPT ![s.link[2]] = "ARCHIVED"]
  /\ Decided(SubjectInUse(s.link[2]) = s.ofSubject, {k \in Links : k[2] = s.link[2]})
  /\ Done(r)
  /\ UNCHANGED <<students, links, lessons>>
-----------------------------------------------------------------------------
(* Lessons.                                                                *)

\* create_lesson asks for the archive mark of the link, not of the student.
CreateLesson(r, l, planned, price) ==
  LET s == reads[r] IN
  /\ s.stage = "link"
  /\ s.linked = "ACTIVE"
  /\ lessons[l].status = "ABSENT"
  /\ Writes < MaxWrites
  /\ lessons' = [lessons EXCEPT ![l] =
       Refreshed([NoRow EXCEPT !.status = "PLANNED", !.link = s.link, !.planned = planned,
                               !.price = price, !.version = 1])]
  /\ Decided(links[s.link] = s.linked, {s.link})
  /\ Done(r)
  /\ UNCHANGED <<students, subjects, links>>

\* owned_lesson.
ReadLesson(r, l) ==
  /\ reads[r].stage = "idle"
  /\ lessons[l].status # "ABSENT"
  /\ reads' = [reads EXCEPT ![r] =
       [NoReads EXCEPT !.stage = "lesson", !.lesson = l, !.row = lessons[l]]]
  /\ UNCHANGED <<students, subjects, links, lessons, overlapped>>

\* The row after the UPDATE of the columns in which new differs from what was read.
Merged(now, read, new) == [c \in DOMAIN now |-> IF new[c] = read[c] THEN now[c] ELSE new[c]]

\* The UPDATE of a lesson, and the row of its replacement if there is one.
WriteLesson(r, new, replacements) ==
  LET s == reads[r]
      now == lessons[s.lesson]
  IN
  /\ Writes < MaxWrites
  /\ lessons' = [l \in Lessons |->
       IF l = s.lesson THEN Merged(now, s.row, [new EXCEPT !.version = s.row.version + 1])
       ELSE IF l \in DOMAIN replacements THEN replacements[l] ELSE lessons[l]]
  /\ overlapped' = IF now = s.row THEN overlapped ELSE overlapped \cup {s.lesson, s.row.link}
  /\ Done(r)
  /\ UNCHANGED <<students, subjects, links>>

None == [l \in {} |-> NoRow]

IsPlanned(r) == reads[r].stage = "lesson" /\ reads[r].row.status = "PLANNED"

\* A payload without a price keeps the price of the row.
UpdateLesson(r, planned, price) ==
  /\ IsPlanned(r)
  /\ WriteLesson(r, Refreshed([reads[r].row EXCEPT !.planned = planned, !.price = price]), None)

\* complete_lesson does not call check_version.  Its plan items are in PlanProgress.
CompleteLesson(r, actual) ==
  /\ IsPlanned(r)
  /\ WriteLesson(r, Refreshed([reads[r].row EXCEPT !.status = "COMPLETED", !.actual = actual]),
                 None)

Ended(row, status) == Refreshed([row EXCEPT !.status = status, !.overridden = FALSE])

CancelLesson(r) ==
  /\ IsPlanned(r)
  /\ WriteLesson(r, Ended(reads[r].row, "CANCELED"), None)

RescheduleLesson(r, l, planned) ==
  LET row == reads[r].row IN
  /\ IsPlanned(r)
  /\ lessons[l].status = "ABSENT"
  /\ WriteLesson(r, Ended(row, "RESCHEDULED"),
       [m \in {l} |-> Refreshed([NoRow EXCEPT !.status = "PLANNED", !.link = row.link,
                                   !.planned = planned, !.price = row.price,
                                   !.from = reads[r].lesson, !.version = 1])])

\* A 404, 409 or 422, or the tab is closed.
RefuseLesson(r) ==
  /\ reads[r].stage \in {"lesson", "link"}
  /\ Done(r)
  /\ UNCHANGED <<students, subjects, links, lessons, overlapped>>
-----------------------------------------------------------------------------
ScheduleNext ==
  \/ \E s \in Students : CreateStudent(s)
  \/ \E s \in Subjects : CreateSubject(s)
  \/ \E r \in Requests :
       \/ CreateLink(r) \/ ArchiveLink(r) \/ ArchiveStudent(r) \/ ArchiveSubject(r)
       \/ CancelLesson(r) \/ RefuseLesson(r)
       \/ \E k \in Links : ReadLink(r, k)
       \/ \E l \in Lessons : ReadLesson(r, l)
       \/ \E minutes \in Minutes :
            \/ CompleteLesson(r, minutes)
            \/ \E l \in Lessons : RescheduleLesson(r, l, minutes)
            \/ \E price \in Prices :
                 \/ UpdateLesson(r, minutes, price)
                 \/ \E l \in Lessons : CreateLesson(r, l, minutes, price)
-----------------------------------------------------------------------------
\* A link that is archived has no planned lesson, nor has a subject that is archived
\* an active link, unless what the archiving counted, or the mark a new link or lesson
\* was allowed by, was no longer so at the commit (phase1.py:543, 602, 656, 959).
ArchivedIsUnused ==
  \A k \in Links \ overlapped :
    /\ links[k] = "ARCHIVED" => ~HasPlanned(k)
    /\ subjects[k[2]] = "ARCHIVED" => links[k] # "ACTIVE"

\* A lesson is rescheduled once: exactly the rescheduled lessons have a replacement,
\* one each and on the same link, unless two requests on the lesson overlapped
\* (phase1.py:1126-1181, docs/states.md:7).
OneReplacement ==
  \A l \in Lessons \ overlapped :
    LET next == {m \in Lessons : lessons[m].from = l} IN
    /\ Cardinality(next) = IF lessons[l].status = "RESCHEDULED" THEN 1 ELSE 0
    /\ \A m \in next : lessons[m].link = lessons[l].link

\* Archiving is refused to a student who has planned lessons
\* (docs/m3-isolation-verification.md:10, phase1.py:436-449).  Stated, and false of two
\* requests: a lesson may be committed after the count.
ArchivingStopsAtLessons ==
  [][\A s \in Students :
       students[s] # "ARCHIVED" /\ students'[s] = "ARCHIVED" => ~StudentHasPlanned(s)]_scheduleVars

\* A completed lesson is not canceled (docs/states.md:8, phase1.py:1109-1112).  Stated,
\* and false of two requests: the cancellation may have read the lesson before.
CompletedIsNotCanceled ==
  [][\A l \in Lessons :
       lessons[l].status = "COMPLETED" => lessons'[l].status # "CANCELED"]_scheduleVars
=============================================================================
