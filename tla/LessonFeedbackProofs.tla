------------------------ MODULE LessonFeedbackProofs ------------------------
(***************************************************************************)
(* What holds of a lesson's feedback however many tabs are open, tasks are *)
(* run and versions are written: the types, the pointer to the newest      *)
(* version, and that an approval takes effect once.                        *)
(***************************************************************************)
EXTENDS LessonFeedback, SequenceTheorems, TLAPS

\* An entry carries a row that was current once: the number it writes is new to it.
RowInThePast == \A t \in Tabs : entry[t].row.current <= feedback.current

\* A task that was enqueued names a version that exists, and only such a task is run.
SourceExists ==
  /\ \A j \in Jobs : jobs[j].state # "new" => jobs[j].source <= feedback.current
  /\ lock # NoJob => jobs[lock].source \in DOMAIN versions

\* The invariant that the theorems rest on.
IInv == TypeOK /\ CurrentIsNewest /\ AppliedOnce /\ RowInThePast /\ SourceExists
-----------------------------------------------------------------------------
\* Superseding a version changes no other column and no other row.
LEMMA SupersedeType ==
  ASSUME versions \in Seq(Versions), NEW n \in Nat
  PROVE  /\ Supersede(versions, n) \in Seq(Versions)
         /\ Len(Supersede(versions, n)) = Len(versions)
         /\ \A m \in DOMAIN versions :
              /\ Supersede(versions, n)[m].source = versions[m].source
              /\ Supersede(versions, n)[m].basis = versions[m].basis
              /\ Supersede(versions, n)[m].input = versions[m].input
<1>1. ASSUME NEW m \in DOMAIN versions, NEW s \in VersionStatus
      PROVE  LET v == [versions[m] EXCEPT !.status = s] IN
             /\ v \in Versions
             /\ v.source = versions[m].source
             /\ v.basis = versions[m].basis
             /\ v.input = versions[m].input
  <2>1. versions[m] \in Versions
    OBVIOUS
  <2> QED
    BY <2>1 DEF Versions
<1>2. \A m \in DOMAIN versions : Supersede(versions, n)[m] \in Versions
  <2>1. \A m \in DOMAIN versions : versions[m] \in Versions
    OBVIOUS
  <2> QED
    BY <1>1, <2>1 DEF Supersede, VersionStatus
<1>3. DOMAIN Supersede(versions, n) = 1 .. Len(versions) /\ Len(versions) \in Nat
  BY DEF Supersede
<1>4. Supersede(versions, n) \in Seq(Versions) /\ Len(Supersede(versions, n)) = Len(versions)
  <2>1. Supersede(versions, n) \in [1 .. Len(versions) -> Versions]
    BY <1>2, <1>3 DEF Supersede
  <2> QED
    BY <1>3, <2>1, SeqDef
<1> QED
  BY <1>1, <1>4 DEF Supersede, VersionStatus

\* Adding a version after one was superseded.
LEMMA AddVersion ==
  ASSUME versions \in Seq(Versions), NEW n \in Nat, NEW v \in Versions,
         versions' = Append(Supersede(versions, n), v)
  PROVE  /\ versions' \in Seq(Versions)
         /\ Len(versions') = Len(versions) + 1
         /\ DOMAIN versions' = DOMAIN versions \cup {Len(versions) + 1}
         /\ versions'[Len(versions) + 1] = v
         /\ \A m \in DOMAIN versions :
              /\ versions'[m].source = versions[m].source
              /\ versions'[m].basis = versions[m].basis
              /\ versions'[m].input = versions[m].input
<1> DEFINE rows == Supersede(versions, n)
<1>1. rows \in Seq(Versions) /\ Len(rows) = Len(versions) /\ Len(versions) \in Nat
  BY SupersedeType
<1>2. \A m \in DOMAIN versions : /\ rows[m].source = versions[m].source
                                 /\ rows[m].basis = versions[m].basis
                                 /\ rows[m].input = versions[m].input
  BY SupersedeType
<1> HIDE DEF rows
<1>3. versions' = Append(rows, v)
  BY DEF rows
<1>4. /\ versions' \in Seq(Versions)
      /\ Len(versions') = Len(versions) + 1
      /\ versions'[Len(versions) + 1] = v
      /\ \A m \in 1 .. Len(versions) : versions'[m] = rows[m]
  BY <1>1, <1>3
<1>5. DOMAIN versions = 1 .. Len(versions) /\ DOMAIN versions' = 1 .. Len(versions) + 1
  BY <1>1, <1>4
<1> QED
  BY <1>1, <1>2, <1>4, <1>5

\* A row of the declared type, whatever columns an UPDATE writes.
LEMMA RowType ==
  ASSUME feedback \in Feedbacks, NEW s \in Review, NEW c \in Nat, NEW a \in Nat, NEW v \in Nat
  PROVE  LET row == [feedback EXCEPT !.status = s, !.current = c, !.approved = a, !.version = v]
         IN  row \in Feedbacks /\ row.status = s /\ row.current = c /\ row.approved = a
BY DEF Feedbacks

\* The tab shows the version and the number it is told.
LEMMA ScreenType ==
  ASSUME TypeOK, NEW t \in Tabs, NEW v \in Nat, NEW n \in Nat, Show(t, v, n)
  PROVE  screen' \in [Tabs -> Screens]
BY DEF Show, TypeOK, Screens

\* The record of a tab that has no entry in flight.
LEMMA NoEntryType == NoEntry \in Entries /\ NoEntry.row.current = 0 /\ NoEntry.stage = "idle"
BY DEF NoEntry, NoFeedback, Entries, Feedbacks, Review, VersionStatus
-----------------------------------------------------------------------------
\* The initial state satisfies the invariant.
LEMMA InvInit == ASSUME FeedbackAssumption, Init PROVE IInv
<1>1. TypeOK
  <2>1. NoFeedback \in Feedbacks
    BY DEF NoFeedback, Feedbacks, Review
  <2> QED
    BY <2>1, NoEntryType DEF Init, TypeOK, Tasks, Screens
<1> QED
  BY <1>1, NoEntryType DEF Init, IInv, NoFeedback, CurrentIsNewest, AppliedOnce, RowInThePast,
                           SourceExists, FeedbackAssumption

\* The reads of an entry, and the page it starts from, write nothing else.
LEMMA ReadStep ==
  ASSUME FeedbackAssumption, IInv, NEW t \in Tabs,
         Open(t) \/ EnterKeywords(t) \/ CheckEntry(t) \/ ReadNewest(t) \/ RefuseEntry(t)
  PROVE  /\ IInv'
         /\ UNCHANGED <<feedback, versions, jobs, lock, applied>>
<1> USE DEF IInv, TypeOK
<1>1. UNCHANGED <<feedback, versions, jobs, lock, applied>>
  BY DEF Open, EnterKeywords, CheckEntry, ReadNewest, RefuseEntry
<1>2. CASE Open(t)
  <2>1. feedback.version \in Nat /\ feedback.current \in Nat
    BY DEF Feedbacks
  <2>2. screen' \in [Tabs -> Screens]
    BY <1>2, <2>1, ScreenType DEF Open
  <2> QED
    BY <1>1, <1>2, <2>2 DEF Open, CurrentIsNewest, AppliedOnce, RowInThePast, SourceExists
<1>3. ASSUME NEW x \in Entries, x.row.current <= feedback.current,
             entry' = [entry EXCEPT ![t] = x], screen' = screen
      PROVE  IInv'
  BY <1>1, <1>3 DEF CurrentIsNewest, AppliedOnce, RowInThePast, SourceExists
<1>4. CASE EnterKeywords(t)
  <2> DEFINE x == [NoEntry EXCEPT !.stage = "loaded", !.row = feedback]
  <2>1. x \in Entries /\ x.row = feedback
    BY NoEntryType DEF Entries
  <2>2. entry' = [entry EXCEPT ![t] = x] /\ screen' = screen
    BY <1>4 DEF EnterKeywords
  <2>3. x.row.current <= feedback.current
    BY <2>1 DEF Feedbacks
  <2> HIDE DEF x
  <2> QED
    BY <1>1, <1>3, <2>1, <2>2, <2>3
<1>5. CASE CheckEntry(t)
  <2> DEFINE x == [entry[t] EXCEPT !.stage = "checked"]
  <2>1. x \in Entries /\ x.row = entry[t].row
    <3>1. entry[t] \in Entries
      OBVIOUS
    <3> QED
      BY <3>1 DEF Entries
  <2>2. entry' = [entry EXCEPT ![t] = x] /\ screen' = screen
    BY <1>5 DEF CheckEntry
  <2> HIDE DEF x
  <2> QED
    BY <1>1, <1>3, <2>1, <2>2 DEF RowInThePast
<1>6. CASE ReadNewest(t)
  <2> DEFINE found == IF entry[t].row.current \in DOMAIN versions
                      THEN versions[entry[t].row.current].status ELSE entry[t].found
             x == [entry[t] EXCEPT !.stage = "numbered", !.newest = Len(versions),
                                   !.found = found]
  <2>1. entry[t] \in Entries /\ Len(versions) \in Nat
    OBVIOUS
  <2>2. found \in VersionStatus
    <3>1. \A n \in DOMAIN versions : versions[n] \in Versions
      OBVIOUS
    <3> QED
      BY <2>1, <3>1 DEF Versions, Entries
  <2>3. entry' = [entry EXCEPT ![t] = x] /\ screen' = screen
    BY <1>6 DEF ReadNewest
  <2> HIDE DEF found
  <2>4. x \in Entries /\ x.row = entry[t].row
    BY <2>1, <2>2 DEF Entries
  <2> HIDE DEF x
  <2> QED
    BY <1>1, <1>3, <2>3, <2>4 DEF RowInThePast
<1>7. CASE RefuseEntry(t)
  <2>1. 0 <= feedback.current
    BY DEF Feedbacks
  <2> QED
    BY <1>1, <1>3, <1>7, <2>1, NoEntryType DEF RefuseEntry
<1> QED
  BY <1>1, <1>2, <1>4, <1>5, <1>6, <1>7

\* An entry is committed: its number is new, so the pointer is written whatever was
\* loaded, and the approval is left alone.
LEMMA CreateStep ==
  ASSUME FeedbackAssumption, IInv, NEW t \in Tabs, CreateDraft(t)
  PROVE  IInv'
<1> USE DEF IInv, TypeOK
<1> DEFINE e == entry[t]
           number == e.newest + 1
           replaced == IF e.row.current # 0 /\ e.found # "SUPERSEDED" THEN e.row.current ELSE 0
           v == [status |-> "DRAFT", source |-> "QUICK_ENTRY",
                 basis |-> e.row.current, input |-> number, job |-> NoJob]
<1>1. /\ number = Len(versions) + 1
      /\ versions' = Append(Supersede(versions, replaced), v)
      /\ feedback'.approved = feedback.approved
      /\ feedback' \in [status: {feedback.status, "DRAFT"}, current: {feedback'.current},
                        approved: {feedback.approved}, version: {e.row.version + 1}]
      /\ feedback'.current = Written(feedback.current, e.row.current, number)
      /\ entry' = [entry EXCEPT ![t] = NoEntry]
      /\ Show(t, e.row.version + 1, number)
      /\ lock = NoJob
      /\ UNCHANGED <<jobs, lock, applied>>
      /\ e.row.status = "ABSENT" => feedback.status = "ABSENT"
      /\ feedback'.status = Written(feedback.status, e.row.status, "DRAFT")
  BY DEF CreateDraft, Writable, RowFree, Written
<1>2. /\ e.row \in Feedbacks /\ feedback \in Feedbacks /\ Len(versions) \in Nat
      /\ e.row.current \in Nat /\ e.row.version + 1 \in Nat /\ number \in Nat
      /\ e.row.current <= feedback.current
  <2>1. e \in Entries
    OBVIOUS
  <2>2. e.row \in Feedbacks /\ e.newest \in Nat
    BY <2>1 DEF Entries
  <2> QED
    BY <2>2 DEF Feedbacks, RowInThePast
<1>3. v \in Versions /\ replaced \in Nat
  BY <1>2 DEF Versions, VersionStatus, Review
<1> HIDE DEF v, replaced
<1>4. /\ versions' \in Seq(Versions) /\ Len(versions') = Len(versions) + 1
      /\ DOMAIN versions' = DOMAIN versions \cup {Len(versions) + 1}
  BY <1>1, <1>3, AddVersion
<1>5. feedback'.current = number
  BY <1>1, <1>2 DEF Written, CurrentIsNewest
<1>6. feedback' \in Feedbacks
  BY <1>1, <1>2, <1>5 DEF Feedbacks, Review
<1>7. screen' \in [Tabs -> Screens] /\ entry' \in [Tabs -> Entries]
  BY <1>1, <1>2, ScreenType, NoEntryType
<1>8. RowInThePast'
  <2>1. \A u \in Tabs : entry[u].row.current \in Nat
    BY DEF Entries, Feedbacks
  <2>2. \A u \in Tabs : entry'[u] = entry[u] \/ entry'[u] = NoEntry
    BY <1>1
  <2> QED
    BY <1>1, <1>2, <1>5, <2>1, <2>2, NoEntryType DEF RowInThePast, CurrentIsNewest
<1>9. SourceExists'
  <2>1. \A j \in Jobs : jobs[j].source \in Nat
    BY DEF Tasks
  <2> QED
    BY <1>1, <1>2, <1>5, <2>1 DEF SourceExists, CurrentIsNewest
<1> QED
  BY <1>1, <1>4, <1>5, <1>6, <1>7, <1>8, <1>9 DEF CurrentIsNewest, AppliedOnce

\* What a step that holds the row lock keeps.
LEMMA RowStep ==
  ASSUME FeedbackAssumption, IInv,
         versions' \in Seq(Versions), Len(versions') \in {Len(versions), Len(versions) + 1},
         feedback' \in Feedbacks, feedback'.current = Len(versions'),
         entry' = entry, jobs' = jobs, lock' \in {lock, NoJob}
  PROVE  RowInThePast' /\ SourceExists' /\ CurrentIsNewest'
<1> USE DEF IInv, TypeOK
<1>1. /\ Len(versions) \in Nat /\ Len(versions) <= Len(versions')
      /\ \A t \in Tabs : entry[t].row.current \in Nat
      /\ \A j \in Jobs : jobs[j].source \in Nat
  BY DEF Entries, Feedbacks, Tasks
<1>2. lock' # NoJob => jobs[lock'].source \in 1 .. Len(versions)
  BY DEF SourceExists
<1> QED
  BY <1>1, <1>2 DEF RowInThePast, SourceExists, CurrentIsNewest

\* A save: the pointer is the newest version, so the number after it is new.
LEMMA SaveStep ==
  ASSUME FeedbackAssumption, IInv, NEW t \in Tabs, Save(t)
  PROVE  IInv'
<1> USE DEF IInv, TypeOK
<1> DEFINE number == feedback.current + 1
           v == [status |-> "DRAFT", source |-> "MANUAL_EDIT", basis |-> screen[t].current,
                 input |-> versions[feedback.current].input, job |-> NoJob]
<1>1. /\ feedback.current \in DOMAIN versions /\ feedback.approved = 0
      /\ versions' = Append(Supersede(versions, feedback.current), v)
      /\ feedback' = [feedback EXCEPT !.status = "DRAFT", !.current = number, !.version = @ + 1]
      /\ Show(t, feedback.version + 1, number)
      /\ UNCHANGED <<jobs, lock, entry, applied>>
  BY DEF Save
<1>2. /\ feedback.current \in Nat /\ number \in Nat /\ feedback.version + 1 \in Nat
      /\ feedback.approved \in Nat
  BY DEF Feedbacks
<1>3. v \in Versions
  <2>1. versions[feedback.current] \in Versions /\ screen[t].current \in Nat
    BY <1>1 DEF Screens
  <2> QED
    BY <2>1 DEF Versions, VersionStatus, Review
<1> HIDE DEF v
<1>4. /\ versions' \in Seq(Versions) /\ Len(versions') = Len(versions) + 1
  BY <1>1, <1>2, <1>3, AddVersion
<1> HIDE DEF number
<1>5. /\ feedback' \in Feedbacks
      /\ feedback'.current = number /\ feedback'.approved = feedback.approved
  BY <1>1, <1>2 DEF Feedbacks, Review
<1>6. screen' \in [Tabs -> Screens]
  BY <1>1, <1>2, ScreenType
<1>7. feedback'.current = Len(versions')
  BY <1>4, <1>5 DEF CurrentIsNewest, number
<1> QED
  BY <1>1, <1>4, <1>5, <1>6, <1>7, RowStep DEF AppliedOnce

\* A request for a draft writes the token and a task that names the present version.
LEMMA OrganizeStep ==
  ASSUME FeedbackAssumption, IInv, NEW t \in Tabs, Organize(t)
  PROVE  /\ IInv'
         /\ versions' = versions
         /\ \E j \in Jobs :
              /\ jobs[j].state = "new"
              /\ jobs'[j].source = feedback.current
              /\ \A i \in Jobs \ {j} : jobs'[i] = jobs[i]
<1> USE DEF IInv, TypeOK
<1> DEFINE task == [state |-> "active", source |-> feedback.current,
                    number |-> feedback.version + 1]
<1>1. feedback.current \in Nat /\ feedback.version + 1 \in Nat
  BY DEF Feedbacks
<1>2. task \in Tasks
  BY <1>1 DEF Tasks
<1>3. /\ feedback' = [feedback EXCEPT !.version = @ + 1]
      /\ lock = NoJob
      /\ UNCHANGED <<versions, lock, entry, screen, applied>>
  BY DEF Organize, LockRow, Writable, RowFree
<1>4. PICK j \in Jobs : jobs[j].state = "new" /\ jobs' = [jobs EXCEPT ![j] = task]
  BY DEF Organize
<1>5. /\ feedback' \in Feedbacks /\ feedback'.current = feedback.current
      /\ feedback'.approved = feedback.approved
  BY <1>1, <1>3 DEF Feedbacks
<1>6. jobs' \in [Jobs -> Tasks]
  BY <1>2, <1>4
<1>7. /\ \A i \in Jobs \ {j} : jobs'[i] = jobs[i]
      /\ jobs'[j].source = feedback.current
  BY <1>4
<1>8. SourceExists'
  BY <1>1, <1>3, <1>5, <1>7 DEF SourceExists
<1> HIDE DEF task
<1> QED
  BY <1>3, <1>4, <1>5, <1>6, <1>7, <1>8 DEF CurrentIsNewest, AppliedOnce, RowInThePast

\* A review: the first approval applies the version it approves, and no other follows.
LEMMA ReviewStep ==
  ASSUME FeedbackAssumption, IInv, NEW t \in Tabs,
         NEW target \in {"PENDING_REVIEW", "APPROVED", "REJECTED"}, ReviewTransition(t, target)
  PROVE  /\ IInv'
         /\ Len(versions') = Len(versions)
         /\ \A m \in DOMAIN versions : /\ versions'[m].source = versions[m].source
                                       /\ versions'[m].basis = versions[m].basis
                                       /\ versions'[m].input = versions[m].input
         /\ versions'[feedback.current].status = target
         /\ feedback'.current = feedback.current
         /\ feedback'.status = target
<1> USE DEF IInv, TypeOK
<1> DEFINE a == IF target = "APPROVED" THEN feedback.current ELSE feedback.approved
           v(m) == [versions[m] EXCEPT !.status = target]
<1>1. /\ feedback.current \in DOMAIN versions
      /\ Allowed(target)
      /\ versions' = [versions EXCEPT ![feedback.current] = v(feedback.current)]
      /\ feedback' = [feedback EXCEPT !.status = target, !.approved = a, !.version = @ + 1]
      /\ applied' = IF target = "APPROVED" THEN Append(applied, feedback.current) ELSE applied
      /\ Show(t, feedback.version + 1, feedback.current)
      /\ UNCHANGED <<jobs, lock, entry>>
  BY DEF ReviewTransition
<1>2. /\ feedback.current \in Nat \ {0} /\ feedback.version + 1 \in Nat /\ a \in Nat
      /\ target \in Review /\ target \in VersionStatus
  <2>1. feedback.current \in 1 .. Len(versions) /\ Len(versions) \in Nat
    BY <1>1
  <2>2. feedback.approved \in Nat /\ feedback.version \in Nat
    BY DEF Feedbacks
  <2> QED
    BY <2>1, <2>2 DEF Review, VersionStatus
<1>3. \A m \in DOMAIN versions :
        /\ v(m) \in Versions
        /\ v(m).status = target /\ v(m).source = versions[m].source
        /\ v(m).basis = versions[m].basis /\ v(m).input = versions[m].input
  <2>1. \A m \in DOMAIN versions : versions[m] \in Versions
    OBVIOUS
  <2> QED
    BY <1>2, <2>1 DEF Versions
<1> HIDE DEF v, a
<1>4. feedback' \in Feedbacks /\ feedback'.status = target
      /\ feedback'.current = feedback.current /\ feedback'.approved = a
  BY <1>1, <1>2 DEF Feedbacks
<1>5. /\ versions' \in Seq(Versions) /\ Len(versions') = Len(versions)
      /\ versions'[feedback.current] = v(feedback.current)
      /\ \A m \in DOMAIN versions : m # feedback.current => versions'[m] = versions[m]
  BY <1>1, <1>3
<1>6. screen' \in [Tabs -> Screens]
  BY <1>1, <1>2, ScreenType
<1>7. applied' \in Seq(Nat) /\ AppliedOnce'
  <2>1. CASE target = "APPROVED"
    <3>1. feedback.approved = 0
      BY <1>1, <2>1 DEF Allowed
    <3>2. applied' = <<feedback.current>> /\ a = feedback.current
      BY <1>1, <2>1, <3>1 DEF AppliedOnce, a
    <3> QED
      BY <1>2, <1>4, <3>2 DEF AppliedOnce
  <2>2. CASE target # "APPROVED"
    BY <1>1, <1>4, <2>2 DEF AppliedOnce, a
  <2> QED
    BY <2>1, <2>2
<1>8. feedback'.current = Len(versions')
  BY <1>4, <1>5 DEF CurrentIsNewest
<1>9. RowInThePast' /\ SourceExists' /\ CurrentIsNewest'
  BY <1>1, <1>4, <1>5, <1>8, RowStep
<1> QED
  BY <1>1, <1>3, <1>4, <1>5, <1>6, <1>7, <1>9

\* The draft of the executor becomes the newest version.
LEMMA LandStep ==
  ASSUME FeedbackAssumption, IInv, NEW j \in Jobs, Land(j)
  PROVE  /\ IInv'
         /\ feedback'.status = "DRAFT"
         /\ \E v \in Versions :
              /\ v.source = "AI_ORGANIZED"
              /\ jobs[j].source \in DOMAIN versions
              /\ v.input = versions[jobs[j].source].input
              /\ versions' = Append(Supersede(versions, jobs[j].source), v)
<1> USE DEF IInv, TypeOK
<1> DEFINE source == jobs[j].source
           number == Len(versions) + 1
           v == [status |-> "DRAFT", source |-> "AI_ORGANIZED", basis |-> source,
                 input |-> versions[source].input, job |-> j]
<1>1. /\ lock = j /\ lock' = NoJob
      /\ versions' = Append(Supersede(versions, source), v)
      /\ feedback' = [feedback EXCEPT !.status = "DRAFT", !.current = number, !.version = @ + 1]
      /\ UNCHANGED <<jobs, entry, screen, applied>>
  BY DEF Land, StatusLanded
<1>2. source \in DOMAIN versions /\ source \in Nat /\ number \in Nat
  BY <1>1 DEF SourceExists, FeedbackAssumption, Tasks
<1>3. v \in Versions
  <2>1. versions[source] \in Versions
    BY <1>2
  <2>2. versions[source].input \in Nat
    BY <2>1 DEF Versions
  <2> QED
    BY <1>2, <2>2 DEF Versions, VersionStatus, Review
<1>4. v.source = "AI_ORGANIZED" /\ v.input = versions[source].input
  OBVIOUS
<1> HIDE DEF v
<1>5. versions' \in Seq(Versions) /\ Len(versions') = number
  BY <1>1, <1>2, <1>3, AddVersion
<1>6. /\ feedback' \in Feedbacks /\ feedback'.status = "DRAFT"
      /\ feedback'.current = number /\ feedback'.approved = feedback.approved
  <2>1. feedback.version + 1 \in Nat
    BY DEF Feedbacks
  <2> HIDE DEF number
  <2> QED
    BY <1>1, <1>2, <2>1 DEF Feedbacks, Review
<1>7. RowInThePast' /\ SourceExists' /\ CurrentIsNewest'
  BY <1>1, <1>5, <1>6, RowStep
<1>8. AppliedOnce'
  BY <1>1, <1>6 DEF AppliedOnce
<1> QED
  BY <1>1, <1>2, <1>3, <1>4, <1>5, <1>6, <1>7, <1>8

\* Taking and giving up the lock, and the end of a task.
LEMMA TaskStep ==
  ASSUME FeedbackAssumption, IInv, NEW j \in Jobs, StartExecutor(j) \/ Abandon(j) \/ EndJob(j)
  PROVE  /\ IInv'
         /\ UNCHANGED <<feedback, versions, entry, screen, applied>>
         /\ \A i \in Jobs : jobs'[i].source = jobs[i].source
                            /\ (jobs'[i].state = "active" => jobs[i].state = "active")
<1> USE DEF IInv, TypeOK
<1>1. UNCHANGED <<feedback, versions, entry, screen, applied>>
  BY DEF StartExecutor, Abandon, EndJob
<1>2. /\ jobs' \in [Jobs -> Tasks]
      /\ \A i \in Jobs : /\ jobs'[i].source = jobs[i].source
                         /\ jobs'[i].state # "new" => jobs[i].state # "new"
                         /\ jobs'[i].state = "active" => jobs[i].state = "active"
  <2>1. CASE jobs' = jobs
    BY <2>1
  <2>2. CASE EndJob(j)
    <3>1. \A i \in Jobs : jobs[i] \in Tasks
      OBVIOUS
    <3>2. jobs[j].state = "active" /\ jobs' = [jobs EXCEPT ![j].state = "ended"]
      BY <2>2 DEF EndJob
    <3>3. \A i \in Jobs : /\ jobs'[i] \in Tasks
                          /\ jobs'[i].source = jobs[i].source
                          /\ jobs'[i].state # "new" => jobs[i].state # "new"
                          /\ jobs'[i].state = "active" => jobs[i].state = "active"
      BY <3>1, <3>2 DEF Tasks
    <3>4. jobs' \in [Jobs -> Tasks]
      BY <3>2, <3>3
    <3> QED
      BY <3>3, <3>4
  <2> QED
    BY <2>1, <2>2 DEF StartExecutor, Abandon
<1>3. /\ lock' \in Jobs \cup {NoJob}
      /\ lock' # NoJob => jobs'[lock'].source \in DOMAIN versions
  BY <1>2 DEF StartExecutor, Abandon, EndJob, SourceExists
<1> QED
  BY <1>1, <1>2, <1>3 DEF CurrentIsNewest, AppliedOnce, RowInThePast, SourceExists

\* Every step preserves the invariant.
LEMMA InvStep == ASSUME FeedbackAssumption, IInv, [Next]_vars PROVE IInv'
<1>1. CASE UNCHANGED vars
  BY <1>1 DEF vars, IInv, TypeOK, CurrentIsNewest, AppliedOnce, RowInThePast, SourceExists
<1> QED
  BY <1>1, ReadStep, CreateStep, SaveStep, OrganizeStep, ReviewStep, LandStep, TaskStep
     DEF Next

\* IInv holds in every reachable state.
LEMMA Invariance == ASSUME FeedbackAssumption PROVE Spec => []IInv
BY InvInit, InvStep, PTL DEF Spec
-----------------------------------------------------------------------------
\* Type correctness, for any number of tabs, tasks and versions.
THEOREM FeedbackTypes == ASSUME FeedbackAssumption PROVE Spec => []TypeOK
<1>1. IInv => TypeOK
  BY DEF IInv
<1> QED
  BY <1>1, Invariance, PTL

\* The feedback points at its newest version, although an entry writes the pointer
\* without a lock and a save numbers by it (phase3.py:275, 399).
LEMMA FeedbackPointsAtNewest == ASSUME FeedbackAssumption PROVE Spec => []CurrentIsNewest
<1>1. IInv => CurrentIsNewest
  BY DEF IInv
<1> QED
  BY <1>1, Invariance, PTL

\* Plan minutes and mastery are written once for a feedback, however often drafts that
\* land later send it through the review again (phase3.py:456).
THEOREM ApprovalAppliedOnce == ASSUME FeedbackAssumption PROVE Spec => []AppliedOnce
<1>1. IInv => AppliedOnce
  BY DEF IInv
<1> QED
  BY <1>1, Invariance, PTL
-----------------------------------------------------------------------------
(* One tab: an entry meets the executor, but no other request.             *)

OneTab == \E t : Tabs = {t}

\* No entry is made while the feedback waits for review, and none is numbered while
\* a task runs.
EntryAlone ==
  /\ \A t \in Tabs : entry[t].stage # "idle" => feedback.status # "PENDING_REVIEW"
  /\ \A t \in Tabs : entry[t].stage \in {"checked", "numbered"} =>
       NoActiveJob /\ lock = NoJob

\* The tab shows the present version if it holds the present token.
TokenIsFresh ==
  \A t \in Tabs : /\ screen[t].version <= feedback.version
                  /\ VersionMatches(t) => screen[t].current = feedback.current

\* A running task organizes the newest keywords, and a version has none that are newer
\* than itself.
NewestOrganized ==
  /\ \A j \in Jobs : jobs[j].state = "active" =>
       /\ jobs[j].source \in DOMAIN versions
       /\ versions[jobs[j].source].input = versions[feedback.current].input
  /\ lock # NoJob => jobs[lock].state = "active"
  /\ \A n \in DOMAIN versions : versions[n].input <= n

\* A row is committed together with its first version.
RowHasVersion == feedback.status # "ABSENT" => feedback.current # 0

EntryInv ==
  /\ RowHasVersion
  /\ EntryAlone
  /\ TokenIsFresh
  /\ NewestOrganized
  /\ PendingIsSubmitted
  /\ EditsNewest
  /\ InputNeverOlder

\* Every active task, and the newest version, carry one entry, which is the newest.
LEMMA AddedKeepsOrder ==
  ASSUME IInv, IInv', EntryInv, NEW v \in Versions, NEW n \in Nat,
         versions' = Append(Supersede(versions, n), v),
         v.input <= Len(versions) + 1,
         \A m \in DOMAIN versions : versions[m].input <= v.input,
         v.source = "MANUAL_EDIT" => v.basis = Len(versions)
  PROVE  /\ EditsNewest' /\ InputNeverOlder'
         /\ \A m \in DOMAIN versions' : versions'[m].input <= m
         /\ versions'[feedback'.current].input = v.input
         /\ \A m \in DOMAIN versions : m \in DOMAIN versions'
                                     /\ versions'[m].input = versions[m].input
<1> USE DEF IInv, TypeOK
<1>1. /\ DOMAIN versions' = DOMAIN versions \cup {Len(versions) + 1}
      /\ Len(versions') = Len(versions) + 1
      /\ versions'[Len(versions) + 1] = v
      /\ \A m \in DOMAIN versions : /\ versions'[m].source = versions[m].source
                                    /\ versions'[m].basis = versions[m].basis
                                    /\ versions'[m].input = versions[m].input
  BY AddVersion
<1>2. Len(versions) \in Nat /\ DOMAIN versions = 1 .. Len(versions)
  OBVIOUS
<1>3. feedback'.current = Len(versions) + 1
  BY <1>1 DEF CurrentIsNewest
<1>4. EditsNewest'
  <2>1. \A m \in DOMAIN versions : versions'[m].source = "MANUAL_EDIT" => versions'[m].basis = m - 1
    BY <1>1 DEF EntryInv, EditsNewest
  <2>2. v.source = "MANUAL_EDIT" => v.basis = (Len(versions) + 1) - 1
    BY <1>2
  <2> HIDE DEF IInv, TypeOK
  <2> QED
    BY <1>1, <2>1, <2>2 DEF EditsNewest
<1>5. InputNeverOlder'
  BY <1>1, <1>2 DEF EntryInv, InputNeverOlder
<1>6. \A m \in DOMAIN versions' : versions'[m].input <= m
  <2>1. \A m \in DOMAIN versions : versions'[m].input <= m
    BY <1>1 DEF EntryInv, NewestOrganized
  <2> HIDE DEF IInv, TypeOK
  <2> QED
    BY <1>1, <2>1
<1> QED
  BY <1>1, <1>3, <1>4, <1>5, <1>6

\* No version carries keywords newer than those of the newest version.
LEMMA NewestInput ==
  ASSUME IInv, EntryInv, feedback.current \in DOMAIN versions
  PROVE  \A m \in DOMAIN versions : versions[m].input <= versions[feedback.current].input
<1>1. /\ feedback.current = Len(versions) /\ Len(versions) \in Nat
      /\ DOMAIN versions = 1 .. Len(versions)
  BY DEF IInv, TypeOK, CurrentIsNewest
<1>2. \A m \in DOMAIN versions : versions[m].input \in Nat
  <2>1. \A m \in DOMAIN versions : versions[m] \in Versions
    BY DEF IInv, TypeOK
  <2> QED
    BY <2>1 DEF Versions
<1>3. \A m \in DOMAIN versions :
        m = feedback.current \/ versions[m].input <= versions[feedback.current].input
  BY <1>1 DEF EntryInv, InputNeverOlder
<1> QED
  BY <1>2, <1>3

\* The reads of the only tab.
LEMMA EntryReads ==
  ASSUME FeedbackAssumption, IInv, EntryInv, NEW t \in Tabs, Tabs = {t},
         Open(t) \/ EnterKeywords(t) \/ CheckEntry(t) \/ ReadNewest(t) \/ RefuseEntry(t)
  PROVE  EntryInv'
<1> USE DEF IInv, TypeOK
<1>1. UNCHANGED <<feedback, versions, jobs, lock, applied>>
  BY ReadStep
<1>2. /\ RowHasVersion' /\ NewestOrganized' /\ PendingIsSubmitted'
      /\ EditsNewest' /\ InputNeverOlder'
  BY <1>1
     DEF EntryInv, RowHasVersion, NewestOrganized, PendingIsSubmitted, EditsNewest, InputNeverOlder
<1>3. TokenIsFresh'
  <2>1. CASE Open(t)
    <3>1. screen'[t] = [version |-> feedback.version, current |-> feedback.current]
      BY <2>1 DEF Open, Show
    <3>2. feedback.version \in Nat
      BY DEF Feedbacks
    <3> QED
      BY <1>1, <3>1, <3>2 DEF TokenIsFresh, VersionMatches
  <2>2. CASE screen' = screen
    BY <1>1, <2>2 DEF EntryInv, TokenIsFresh, VersionMatches
  <2> QED
    BY <2>1, <2>2 DEF EnterKeywords, CheckEntry, ReadNewest, RefuseEntry
<1>4. EntryAlone'
  <2>1. CASE Open(t)
    BY <1>1, <2>1 DEF Open, EntryInv, EntryAlone, NoActiveJob
  <2>2. CASE EnterKeywords(t)
    <3>1. entry'[t].stage = "loaded" /\ feedback.status # "PENDING_REVIEW"
      <4>1. [NoEntry EXCEPT !.stage = "loaded", !.row = feedback].stage = "loaded"
        BY NoEntryType DEF Entries
      <4> QED
        BY <2>2, <4>1 DEF EnterKeywords
    <3> QED
      BY <1>1, <3>1 DEF EntryAlone
  <2>3. CASE CheckEntry(t)
    <3>1. NoActiveJob /\ lock = NoJob
      BY <2>3 DEF CheckEntry, NoActiveJob, EntryInv, NewestOrganized
    <3>2. entry[t].stage # "idle"
      BY <2>3 DEF CheckEntry
    <3> QED
      BY <1>1, <3>1, <3>2 DEF EntryInv, EntryAlone, NoActiveJob
  <2>4. CASE ReadNewest(t)
    <3>1. entry[t].stage = "checked"
      BY <2>4 DEF ReadNewest
    <3> QED
      BY <1>1, <3>1 DEF EntryInv, EntryAlone, NoActiveJob
  <2>5. CASE RefuseEntry(t)
    <3>1. entry'[t].stage = "idle"
      BY <2>5, NoEntryType DEF RefuseEntry
    <3> QED
      BY <1>1, <3>1 DEF EntryAlone
  <2> QED
    BY <2>1, <2>2, <2>3, <2>4, <2>5
<1> QED
  BY <1>2, <1>3, <1>4 DEF EntryInv

\* The tab has no entry in flight, and shows what it is told.
LEMMA ToldTab ==
  ASSUME IInv, NEW t \in Tabs, Tabs = {t}, entry'[t].stage = "idle", feedback' \in Feedbacks,
         Show(t, feedback'.version, feedback'.current)
  PROVE  EntryAlone' /\ TokenIsFresh'
<1>1. screen'[t] = [version |-> feedback'.version, current |-> feedback'.current]
  BY DEF Show, IInv, TypeOK
<1>2. feedback'.version \in Nat
  BY DEF Feedbacks
<1> QED
  BY <1>1, <1>2 DEF EntryAlone, TokenIsFresh, VersionMatches

\* The entry of the only tab: no task runs, and its keywords are the newest.
LEMMA EntryCommits ==
  ASSUME FeedbackAssumption, IInv, IInv', EntryInv, NEW t \in Tabs, Tabs = {t}, CreateDraft(t)
  PROVE  EntryInv'
<1> USE DEF IInv, TypeOK
<1> DEFINE e == entry[t]
           number == e.newest + 1
           replaced == IF e.row.current # 0 /\ e.found # "SUPERSEDED" THEN e.row.current ELSE 0
           v == [status |-> "DRAFT", source |-> "QUICK_ENTRY",
                 basis |-> e.row.current, input |-> number, job |-> NoJob]
<1>1. /\ number = Len(versions) + 1 /\ e.stage = "numbered"
      /\ versions' = Append(Supersede(versions, replaced), v)
      /\ feedback'.version = e.row.version + 1
      /\ feedback'.current = Written(feedback.current, e.row.current, number)
      /\ feedback'.status = Written(feedback.status, e.row.status, "DRAFT")
      /\ entry' = [entry EXCEPT ![t] = NoEntry]
      /\ Show(t, e.row.version + 1, number)
      /\ UNCHANGED <<jobs, lock, applied>>
  BY DEF CreateDraft
<1>2. e.row.current \in Nat /\ Len(versions) \in Nat /\ e.row.current <= Len(versions)
  <2>1. e \in Entries
    OBVIOUS
  <2> QED
    BY <2>1 DEF Entries, Feedbacks, RowInThePast, CurrentIsNewest
<1>3. v \in Versions /\ v.input = Len(versions) + 1 /\ v.source # "MANUAL_EDIT"
      /\ replaced \in Nat
  BY <1>1, <1>2 DEF Versions, VersionStatus, Review
<1>4. \A m \in DOMAIN versions : versions[m].input <= v.input
  <2>1. \A m \in DOMAIN versions : versions[m] \in Versions
    OBVIOUS
  <2>2. \A m \in DOMAIN versions : versions[m].input \in Nat
    BY <2>1 DEF Versions
  <2>3. \A m \in DOMAIN versions : versions[m].input <= m /\ m \in 1 .. Len(versions)
    BY DEF EntryInv, NewestOrganized
  <2> QED
    BY <1>2, <1>3, <2>2, <2>3
<1> HIDE DEF v, replaced
<1>5. /\ EditsNewest' /\ InputNeverOlder'
      /\ \A m \in DOMAIN versions' : versions'[m].input <= m
  <2>1. v.input <= Len(versions) + 1
    BY <1>2, <1>3
  <2> HIDE DEF IInv, TypeOK
  <2> QED
    BY <1>1, <1>3, <1>4, <2>1, AddedKeepsOrder
<1>6. NoActiveJob /\ lock = NoJob /\ feedback.status # "PENDING_REVIEW"
  BY <1>1 DEF EntryInv, EntryAlone
<1>7. NewestOrganized'
  BY <1>1, <1>5, <1>6 DEF NewestOrganized, NoActiveJob
<1>8. PendingIsSubmitted' /\ RowHasVersion'
  BY <1>1, <1>2, <1>6 DEF PendingIsSubmitted, RowHasVersion, Written
<1>9. EntryAlone' /\ TokenIsFresh'
  <2>1. entry'[t].stage = "idle"
    BY <1>1, NoEntryType
  <2>2. Show(t, feedback'.version, feedback'.current)
    BY <1>1, <1>2 DEF Written
  <2> QED
    BY <2>1, <2>2, ToldTab
<1> QED
  BY <1>5, <1>7, <1>8, <1>9 DEF EntryInv

\* A save of the only tab: it has seen the version it replaces.
LEMMA SaveCommits ==
  ASSUME FeedbackAssumption, IInv, IInv', EntryInv, NEW t \in Tabs, Tabs = {t}, Save(t)
  PROVE  EntryInv'
<1> USE DEF IInv, TypeOK
<1> DEFINE number == feedback.current + 1
           v == [status |-> "DRAFT", source |-> "MANUAL_EDIT", basis |-> screen[t].current,
                 input |-> versions[feedback.current].input, job |-> NoJob]
<1>1. /\ feedback.current \in DOMAIN versions /\ VersionMatches(t) /\ entry[t].stage = "idle"
      /\ lock = NoJob
      /\ versions' = Append(Supersede(versions, feedback.current), v)
      /\ feedback' = [feedback EXCEPT !.status = "DRAFT", !.current = number, !.version = @ + 1]
      /\ Show(t, feedback.version + 1, number)
      /\ UNCHANGED <<jobs, lock, entry, applied>>
  BY DEF Save, LockRow, Idle, Writable, RowFree
<1>2. /\ feedback'.status = "DRAFT" /\ feedback'.current = number
      /\ feedback'.version = feedback.version + 1
  BY <1>1 DEF Feedbacks
<1>3. v \in Versions /\ v.basis = feedback.current /\ v.input = versions[feedback.current].input
  <2>1. versions[feedback.current] \in Versions /\ screen[t].current \in Nat
    BY <1>1 DEF Screens
  <2>2. screen[t].current = feedback.current
    BY <1>1 DEF EntryInv, TokenIsFresh
  <2> QED
    BY <2>1, <2>2 DEF Versions, VersionStatus, Review
<1> HIDE DEF v, number
<1>4. /\ v.input <= Len(versions) + 1 /\ v.basis = Len(versions) /\ feedback.current \in Nat
      /\ \A m \in DOMAIN versions : versions[m].input <= v.input
  <2>1. versions[feedback.current] \in Versions /\ feedback.current = Len(versions)
        /\ Len(versions) \in Nat
    BY <1>1 DEF CurrentIsNewest
  <2>2. versions[feedback.current].input \in Nat
        /\ versions[feedback.current].input <= feedback.current
    BY <1>1, <2>1 DEF Versions, EntryInv, NewestOrganized
  <2> QED
    BY <1>1, <1>3, <2>1, <2>2, NewestInput
<1>5. /\ EditsNewest' /\ InputNeverOlder'
      /\ \A m \in DOMAIN versions' : versions'[m].input <= m
      /\ versions'[feedback'.current].input = v.input
      /\ \A m \in DOMAIN versions : m \in DOMAIN versions'
                                  /\ versions'[m].input = versions[m].input
  BY <1>1, <1>3, <1>4, AddedKeepsOrder
<1>6. NewestOrganized'
  BY <1>1, <1>3, <1>5 DEF EntryInv, NewestOrganized
<1>7. PendingIsSubmitted' /\ RowHasVersion'
  BY <1>2, <1>4 DEF PendingIsSubmitted, RowHasVersion, number
<1>8. EntryAlone' /\ TokenIsFresh'
  BY <1>1, <1>2, ToldTab
<1> QED
  BY <1>5, <1>6, <1>7, <1>8 DEF EntryInv

\* The draft of the executor carries the newest keywords, and the tab that does not know
\* it has an older token.
LEMMA LandCommits ==
  ASSUME FeedbackAssumption, IInv, IInv', EntryInv, NEW j \in Jobs, Land(j)
  PROVE  EntryInv'
<1> USE DEF IInv, TypeOK
<1>1. /\ lock = j /\ lock' = NoJob /\ feedback'.version = feedback.version + 1
      /\ UNCHANGED <<jobs, entry, screen, applied>>
  BY DEF Land, Feedbacks
<1>2. PICK v \in Versions :
        /\ v.source = "AI_ORGANIZED"
        /\ jobs[j].source \in DOMAIN versions
        /\ v.input = versions[jobs[j].source].input
        /\ versions' = Append(Supersede(versions, jobs[j].source), v)
  BY LandStep
<1>3. feedback'.status = "DRAFT"
  BY LandStep
<1>4. jobs[j].state = "active" /\ v.input = versions[feedback.current].input
  BY <1>1, <1>2 DEF EntryInv, NewestOrganized, FeedbackAssumption
<1>5. /\ v.input <= Len(versions) + 1 /\ jobs[j].source \in Nat
      /\ \A m \in DOMAIN versions : versions[m].input <= v.input
  <2>1. /\ feedback.current = Len(versions) /\ Len(versions) \in Nat
        /\ DOMAIN versions = 1 .. Len(versions)
    BY DEF CurrentIsNewest
  <2>2. jobs[j].source \in Nat /\ feedback.current \in DOMAIN versions
    BY <1>2, <2>1
  <2>3. versions[feedback.current] \in Versions
    BY <2>2
  <2>4. versions[feedback.current].input \in Nat
        /\ versions[feedback.current].input <= feedback.current
    BY <2>2, <2>3 DEF Versions, EntryInv, NewestOrganized
  <2> QED
    BY <1>4, <2>1, <2>2, <2>4, NewestInput
<1>6. /\ EditsNewest' /\ InputNeverOlder'
      /\ \A m \in DOMAIN versions' : versions'[m].input <= m
      /\ versions'[feedback'.current].input = v.input
      /\ \A m \in DOMAIN versions : m \in DOMAIN versions'
                                  /\ versions'[m].input = versions[m].input
  BY <1>2, <1>5, AddedKeepsOrder
<1>7. NewestOrganized'
  BY <1>1, <1>4, <1>6 DEF EntryInv, NewestOrganized
<1>8. EntryAlone'
  BY <1>1, <1>3, <1>4 DEF EntryInv, EntryAlone, NoActiveJob
<1>9. TokenIsFresh'
  <2>1. feedback.version \in Nat /\ \A t \in Tabs : screen[t].version \in Nat
    BY DEF Feedbacks, Screens
  <2> QED
    BY <1>1, <2>1 DEF EntryInv, TokenIsFresh, VersionMatches
<1>10. PendingIsSubmitted' /\ RowHasVersion'
  <2>1. versions' \in Seq(Versions) /\ Len(versions') = Len(versions) + 1
    BY <1>2, <1>5, AddVersion
  <2> QED
    BY <1>3, <2>1 DEF PendingIsSubmitted, RowHasVersion, CurrentIsNewest
<1> QED
  BY <1>6, <1>7, <1>8, <1>9, <1>10 DEF EntryInv

\* A request for a draft, and a review, of the only tab.
LEMMA RowCommits ==
  ASSUME FeedbackAssumption, IInv, IInv', EntryInv, NEW t \in Tabs, Tabs = {t},
         \/ Organize(t)
         \/ \E target \in {"PENDING_REVIEW", "APPROVED", "REJECTED"} : ReviewTransition(t, target)
  PROVE  EntryInv'
<1> USE DEF IInv, TypeOK
<1>1. CASE Organize(t)
  <2>1. /\ entry' = entry /\ screen' = screen /\ versions' = versions /\ lock' = lock
        /\ lock = NoJob /\ entry[t].stage = "idle"
        /\ feedback'.version = feedback.version + 1
        /\ feedback'.current = feedback.current /\ feedback'.status = feedback.status
        /\ Editable
    BY <1>1 DEF Organize, LockRow, Idle, Writable, RowFree, Feedbacks
  <2>2. PICK j \in Jobs : /\ jobs[j].state = "new"
                          /\ jobs'[j].source = feedback.current
                          /\ \A i \in Jobs \ {j} : jobs'[i] = jobs[i]
    BY <1>1, OrganizeStep
  <2>3. feedback.current \in DOMAIN versions
    <3>1. /\ feedback.status # "ABSENT" /\ VersionMatches(t)
      BY <1>1 DEF Organize, LockRow
    <3> QED
      BY <3>1, <2>1 DEF EntryInv, RowHasVersion, CurrentIsNewest, Feedbacks
  <2>4. NewestOrganized'
    BY <2>1, <2>2, <2>3 DEF EntryInv, NewestOrganized
  <2>5. EntryAlone'
    BY <2>1 DEF EntryAlone
  <2>6. TokenIsFresh'
    <3>1. feedback.version \in Nat /\ screen[t].version \in Nat
      BY DEF Feedbacks, Screens
    <3> QED
      BY <2>1, <3>1 DEF EntryInv, TokenIsFresh, VersionMatches
  <2>7. RowHasVersion' /\ PendingIsSubmitted' /\ EditsNewest' /\ InputNeverOlder'
    BY <2>1 DEF EntryInv, RowHasVersion, PendingIsSubmitted, EditsNewest, InputNeverOlder
  <2> QED
    BY <2>4, <2>5, <2>6, <2>7 DEF EntryInv
<1>2. ASSUME NEW target \in {"PENDING_REVIEW", "APPROVED", "REJECTED"},
             ReviewTransition(t, target)
      PROVE  EntryInv'
  <2>1. /\ DOMAIN versions' = DOMAIN versions
        /\ \A m \in DOMAIN versions : /\ versions'[m].source = versions[m].source
                                      /\ versions'[m].basis = versions[m].basis
                                      /\ versions'[m].input = versions[m].input
        /\ versions'[feedback.current].status = target
        /\ feedback'.current = feedback.current
        /\ feedback'.status = target
    <3>1. DOMAIN versions' = DOMAIN versions
      BY <1>2 DEF ReviewTransition
    <3> QED
      BY <1>2, <3>1, ReviewStep
  <2>2. /\ feedback.current \in DOMAIN versions
        /\ entry' = entry /\ entry[t].stage = "idle"
        /\ jobs' = jobs /\ lock' = lock
        /\ feedback'.version = feedback.version + 1
        /\ Show(t, feedback.version + 1, feedback.current)
    BY <1>2 DEF ReviewTransition, LockRow, Idle, Feedbacks
  <2>3. EntryAlone' /\ TokenIsFresh'
    BY <2>1, <2>2, ToldTab
  <2>4. NewestOrganized' /\ PendingIsSubmitted' /\ EditsNewest' /\ InputNeverOlder'
    BY <2>1, <2>2
       DEF EntryInv, NewestOrganized, PendingIsSubmitted, EditsNewest, InputNeverOlder
  <2>5. RowHasVersion'
    BY <2>1, <2>2 DEF RowHasVersion
  <2> QED
    BY <2>3, <2>4, <2>5 DEF EntryInv
<1> QED
  BY <1>1, <1>2

\* Taking and giving up the lock, and the end of a task.
LEMMA TaskKeeps ==
  ASSUME FeedbackAssumption, IInv, EntryInv, OneTab,
         NEW j \in Jobs, StartExecutor(j) \/ Abandon(j) \/ EndJob(j)
  PROVE  EntryInv'
<1> USE DEF IInv, TypeOK
<1>1. /\ UNCHANGED <<feedback, versions, entry, screen, applied>>
      /\ \A i \in Jobs : jobs'[i].source = jobs[i].source
                         /\ (jobs'[i].state = "active" => jobs[i].state = "active")
  BY TaskStep
<1>2. lock' # NoJob => jobs'[lock'].state = "active"
  BY DEF StartExecutor, Abandon, EndJob, EntryInv, NewestOrganized
<1>3. NewestOrganized'
  BY <1>1, <1>2 DEF EntryInv, NewestOrganized
<1>4. EntryAlone'
  <2>1. NoActiveJob /\ lock = NoJob => lock' = NoJob
    BY DEF NoActiveJob, StartExecutor, Abandon, EndJob
  <2> QED
    BY <1>1, <2>1 DEF EntryInv, EntryAlone, NoActiveJob
<1>5. /\ RowHasVersion' /\ TokenIsFresh' /\ PendingIsSubmitted'
      /\ EditsNewest' /\ InputNeverOlder'
  BY <1>1 DEF EntryInv, RowHasVersion, TokenIsFresh, VersionMatches, PendingIsSubmitted,
              EditsNewest, InputNeverOlder
<1> QED
  BY <1>3, <1>4, <1>5 DEF EntryInv

\* With one tab every step keeps EntryInv.
LEMMA EntryInvStep ==
  ASSUME FeedbackAssumption, OneTab, IInv, EntryInv, [Next]_vars
  PROVE  EntryInv'
<1>0. IInv'
  BY InvStep
<1>1. CASE UNCHANGED vars
  BY <1>1 DEF vars, EntryInv, RowHasVersion, EntryAlone, TokenIsFresh, NewestOrganized,
              PendingIsSubmitted, EditsNewest, InputNeverOlder, NoActiveJob, VersionMatches
<1>2. CASE Next
  <2>1. \A t \in Tabs : Tabs = {t}
    BY DEF OneTab
  <2> QED
    BY <1>0, <1>2, <2>1, EntryReads, EntryCommits, SaveCommits, LandCommits, RowCommits,
       TaskKeeps DEF Next
<1> QED
  BY <1>1, <1>2

\* EntryInv holds in every reachable state.
LEMMA EntryInvariance ==
  ASSUME FeedbackAssumption, OneTab PROVE Spec => []EntryInv
<1>1. Init => EntryInv
  <2>1. ASSUME Init PROVE DOMAIN versions = {}
    BY <2>1 DEF Init
  <2> QED
    BY <2>1, NoEntryType
       DEF Init, EntryInv, RowHasVersion, EntryAlone, TokenIsFresh, NewestOrganized,
           PendingIsSubmitted, EditsNewest, InputNeverOlder, NoFeedback, VersionMatches
<1> QED
  BY <1>1, InvInit, InvStep, EntryInvStep, PTL DEF Spec

\* With one tab, a draft that lands takes the review of the version before it back
\* (phase3_service.py:252).
THEOREM PendingWasSubmitted ==
  ASSUME FeedbackAssumption, OneTab PROVE Spec => []RowSpeaksOfNewest
<1>1. EntryInv /\ CurrentIsNewest => RowSpeaksOfNewest
  BY DEF EntryInv, RowSpeaksOfNewest
<1> QED
  BY <1>1, EntryInvariance, FeedbackPointsAtNewest, PTL

\* With one tab, no edit buries a draft that its author has not seen (phase3.py:382).
THEOREM EditsSeeNewest ==
  ASSUME FeedbackAssumption, OneTab PROVE Spec => []EditsNewest
<1>1. EntryInv => EditsNewest
  BY DEF EntryInv
<1> QED
  BY <1>1, EntryInvariance, PTL

\* With one tab, no draft organizes keywords that others have replaced (phase3.py:243,
\* 310, phase3_service.py:243).
THEOREM KeywordsNeverOlder ==
  ASSUME FeedbackAssumption, OneTab PROVE Spec => []InputNeverOlder
<1>1. EntryInv => InputNeverOlder
  BY DEF EntryInv
<1> QED
  BY <1>1, EntryInvariance, PTL
=============================================================================
