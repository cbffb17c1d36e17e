--------------------------- MODULE PracticeProofs ---------------------------
(***************************************************************************)
(* What holds of wrong questions and question sets for any number of       *)
(* records, tabs, overlapping executions and writes: the record, its       *)
(* versions and what was published agree, approved versions stay as they   *)
(* are, and the review is of what a teacher saw.                           *)
(***************************************************************************)
EXTENDS Practice, SequenceTheorems, TLAPS

\* A row, the versions and the published versions of one record.
RecordSound(x, row, vs, published) ==
  /\ row.current = Len(vs)
  /\ row.current > 0 => row.status = vs[row.current].status
  /\ row.status = "ABSENT" => row.current = 0 /\ row.approved = 0 /\ row.version = 0
                               /\ ~row.task
  /\ published = IF row.approved = 0 THEN {} ELSE {row.approved}
  /\ row.approved > 0 =>
       /\ row.approved \in DOMAIN vs
       /\ vs[row.approved].status = "APPROVED"
       /\ x \in Questions => vs[row.approved].complete
  /\ x \in Questions /\ row.task => 1 \in DOMAIN vs /\ vs[1].status # "APPROVED" /\ ~vs[1].complete

RecordsSound == \A x \in Records : RecordSound(x, rows[x], versions[x], derived[x])

\* A version of a wrong question that a prompt may quote.
Quotable(u) ==
  /\ u[2] \in DOMAIN versions[u[1]]
  /\ versions[u[1]][u[2]].status = "APPROVED"
  /\ versions[u[1]][u[2]].complete

\* What drafts quote, and what the executors are about to quote.
QuotesSound ==
  /\ \A x \in Records : \A i \in DOMAIN versions[x] : \A u \in versions[x][i].uses : Quotable(u)
  /\ \A r \in Runs : \A u \in runs[r].uses : Quotable(u)

\* A screen shows a record that exists; what it shows of it is current or can be told
\* from the current row by the version.
ScreensSound ==
  \A t \in Tabs : \A x \in Records : screens[t].of = x =>
    /\ rows[x].status # "ABSENT"
    /\ screens[t].version <= rows[x].version
    /\ screens[t].version = rows[x].version => screens[t].current = rows[x].current

\* An execution is of a record with a task; the row it has locked is as it read it.
RunsSound ==
  /\ \A r \in Runs : runs[r].stage # "idle" => runs[r].of \in Records /\ rows[runs[r].of].task
  /\ \A r \in Runs : runs[r].stage = "locked" => runs[r].version = rows[runs[r].of].version
  /\ \A r, s \in Runs : runs[r].stage = "locked" /\ runs[s].stage = "locked"
                          /\ runs[r].of = runs[s].of => r = s

\* The invariant that the theorems rest on.
IInv == TypeOK /\ RecordsSound /\ QuotesSound /\ ScreensSound /\ RunsSound
-----------------------------------------------------------------------------
(* Rows of versions.                                                       *)

\* A save and a draft that lands retire versions: no other column changes.
Retired(vs, S) ==
  [i \in DOMAIN vs |-> IF i \in S THEN [vs[i] EXCEPT !.status = "SUPERSEDED"] ELSE vs[i]]

WithDraft(vs, S, draft) == Append(Retired(vs, S), draft)

\* The versions that were there are there still, and the approved ones are the same.
Keeps(old, new) ==
  \A i \in DOMAIN old : i \in DOMAIN new /\ (old[i].status = "APPROVED" => new[i] = old[i])

\* Only what was submitted is approved.
ApprovesPending(old, new) ==
  \A i \in DOMAIN old :
    old[i].status # "APPROVED" /\ new[i].status = "APPROVED" => old[i].status = "PENDING_REVIEW"

\* What adding a draft does to the versions.
DraftAdded(vs, draft, new) ==
  /\ new \in Seq(VersionRows)
  /\ Len(new) = Len(vs) + 1
  /\ DOMAIN new = DOMAIN vs \cup {Len(vs) + 1}
  /\ new[Len(vs) + 1] = draft
  /\ \A i \in DOMAIN vs :
       /\ new[i].complete = vs[i].complete
       /\ new[i].byTask = vs[i].byTask
       /\ new[i].uses = vs[i].uses
       /\ new[i].status \in {vs[i].status, "SUPERSEDED"}
  /\ Keeps(vs, new) /\ ApprovesPending(vs, new)

\* Writing the status of a version writes nothing else of it (phase4.py:507-518).
LEMMA StatusColumn ==
  ASSUME NEW v \in VersionRows, NEW s \in ReviewStatus
  PROVE  LET w == [v EXCEPT !.status = s] IN
         /\ w \in VersionRows /\ w.status = s
         /\ w.complete = v.complete /\ w.byTask = v.byTask /\ w.uses = v.uses
BY DEF VersionRows

\* A draft added after versions were retired (phase4.py:474-492, phase4_service.py:263-286).
LEMMA AddDraft ==
  ASSUME NEW vs \in Seq(VersionRows), NEW S \in SUBSET Nat, NEW draft \in VersionRows,
         \A i \in DOMAIN vs : i \in S => vs[i].status # "APPROVED",
         draft.status = "DRAFT",
         NEW new, new = WithDraft(vs, S, draft)
  PROVE  DraftAdded(vs, draft, new)
<1> DEFINE old == Retired(vs, S)
<1>1. \A i \in DOMAIN vs :
        /\ old[i] \in VersionRows
        /\ old[i].complete = vs[i].complete
        /\ old[i].byTask = vs[i].byTask
        /\ old[i].uses = vs[i].uses
        /\ old[i].status \in {vs[i].status, "SUPERSEDED"}
        /\ vs[i].status = "APPROVED" => old[i] = vs[i]
  <2> TAKE i \in DOMAIN vs
  <2>1. vs[i] \in VersionRows
    OBVIOUS
  <2>2. old[i] = IF i \in S THEN [vs[i] EXCEPT !.status = "SUPERSEDED"] ELSE vs[i]
    BY DEF Retired
  <2> HIDE DEF old
  <2>3. CASE i \in S
    <3> DEFINE w == [vs[i] EXCEPT !.status = "SUPERSEDED"]
    <3>1. /\ w \in VersionRows /\ w.status = "SUPERSEDED"
          /\ w.complete = vs[i].complete /\ w.byTask = vs[i].byTask /\ w.uses = vs[i].uses
      BY <2>1, StatusColumn DEF ReviewStatus
    <3>2. old[i] = w /\ vs[i].status # "APPROVED"
      BY <2>2, <2>3
    <3> HIDE DEF w
    <3> QED
      BY <3>1, <3>2
  <2>4. CASE i \notin S
    BY <2>1, <2>2, <2>4
  <2> QED
    BY <2>3, <2>4
<1>2. DOMAIN old = 1 .. Len(vs) /\ Len(vs) \in Nat
  BY DEF Retired
<1>3. old \in Seq(VersionRows) /\ Len(old) = Len(vs)
  <2>1. old \in [1 .. Len(vs) -> VersionRows]
    BY <1>1, <1>2 DEF Retired
  <2> QED
    BY <1>2, <2>1, SeqDef
<1> HIDE DEF old
<1>4. /\ new \in Seq(VersionRows)
      /\ Len(new) = Len(vs) + 1
      /\ new[Len(vs) + 1] = draft
      /\ \A i \in 1 .. Len(vs) : new[i] = old[i]
  <2>1. new = Append(old, draft)
    BY DEF old, WithDraft
  <2> QED
    BY <1>2, <1>3, <2>1
<1>5. DOMAIN new = DOMAIN vs \cup {Len(vs) + 1} /\ DOMAIN vs = 1 .. Len(vs)
  BY <1>2, <1>4
<1>6. \A i \in DOMAIN vs : vs[i].status # "APPROVED" => new[i].status # "APPROVED"
  BY <1>1, <1>4, <1>5
<1>7. Keeps(vs, new) /\ ApprovesPending(vs, new)
  BY <1>1, <1>4, <1>5, <1>6 DEF Keeps, ApprovesPending
<1> QED
  BY <1>1, <1>4, <1>5, <1>7 DEF DraftAdded

\* A transition writes the status of the version that is current, no other version and no
\* other column.
LEMMA MoveVersion ==
  ASSUME NEW vs \in Seq(VersionRows), NEW n \in DOMAIN vs, NEW s \in ReviewStatus
  PROVE  LET new == [vs EXCEPT ![n].status = s] IN
         /\ new \in Seq(VersionRows)
         /\ Len(new) = Len(vs) /\ DOMAIN new = DOMAIN vs
         /\ new[n].status = s
         /\ \A i \in DOMAIN vs :
              /\ new[i].complete = vs[i].complete
              /\ new[i].byTask = vs[i].byTask
              /\ new[i].uses = vs[i].uses
              /\ i # n => new[i] = vs[i]
<1> DEFINE v == [vs[n] EXCEPT !.status = s]
<1>1. vs[n] \in VersionRows /\ DOMAIN vs = 1 .. Len(vs)
  OBVIOUS
<1>2. /\ v \in VersionRows /\ v.status = s
      /\ v.complete = vs[n].complete /\ v.byTask = vs[n].byTask /\ v.uses = vs[n].uses
  BY <1>1, StatusColumn
<1>3. [vs EXCEPT ![n].status = s] = [vs EXCEPT ![n] = v]
  OBVIOUS
<1> HIDE DEF v
<1> DEFINE new == [vs EXCEPT ![n] = v]
<1>4. /\ new \in Seq(VersionRows)
      /\ Len(new) = Len(vs)
      /\ \A i \in 1 .. Len(vs) : new[i] = IF i = n THEN v ELSE vs[i]
  BY <1>1, <1>2, ExceptSeq
<1> HIDE DEF new
<1>5. DOMAIN new = DOMAIN vs
  BY <1>1, <1>4
<1> QED
  BY <1>1, <1>2, <1>3, <1>4, <1>5 DEF new
-----------------------------------------------------------------------------
(* One write of a record.                                                  *)

\* The step leaves approved versions alone and reviews what was shown.
Reviewed ==
  /\ \A x \in Records : \A i \in DOMAIN versions[x] :
       versions[x][i].status = "APPROVED" => versions'[x][i] = versions[x][i]
  /\ \A x \in Records : ApprovesSubmitted(x) /\ ActsOnScreen(x)

\* A tab shows the current version of the record.
Seen(x) == \E t \in Tabs : screens[t].of = x /\ screens[t].current = rows[x].current

\* A step that leaves the rows and the versions alone reviews nothing.
LEMMA NothingReviewed == ASSUME UNCHANGED <<rows, versions>> PROVE Reviewed
BY DEF Reviewed, ApprovesSubmitted, ActsOnScreen

\* What a write of the record x keeps: of x what the hypotheses say of the new row and the
\* new versions, of every other record everything.
LEMMA WriteStep ==
  ASSUME PracticeAssumption, IInv, NEW x \in Records, NEW row \in Rows,
         NEW vs \in Seq(VersionRows), NEW published,
         rows' = [rows EXCEPT ![x] = row],
         versions' = [versions EXCEPT ![x] = vs],
         derived' = [derived EXCEPT ![x] = published],
         row.status \notin {"ABSENT", "SUPERSEDED"},
         row.version = rows[x].version + 1,
         rows[x].task => row.task,
         RecordSound(x, row, vs, published),
         Keeps(versions[x], vs), ApprovesPending(versions[x], vs),
         \A i \in DOMAIN vs : \A u \in vs[i].uses : Quotable(u),
         rows[x].status = "ABSENT" \/ row.current # rows[x].current \/ Seen(x),
         screens' = screens \/ \E t \in Tabs : screens' = [screens EXCEPT ![t] = Shown(x, row)],
         runs' = runs \/ \E r \in Runs : runs' = [runs EXCEPT ![r] = NoRun],
         \A r \in Runs : runs'[r].stage = "locked" => runs'[r].of # x
  PROVE  IInv' /\ Reviewed
<1> USE DEF IInv
<1>1. /\ rows'[x] = row /\ versions'[x] = vs /\ derived'[x] = published
      /\ \A y \in Records \ {x} : /\ rows'[y] = rows[y] /\ versions'[y] = versions[y]
                                  /\ derived'[y] = derived[y]
      /\ rows \in [Records -> Rows] /\ runs \in [Runs -> RunRows] /\ rows[x] \in Rows
      /\ screens \in [Tabs -> Screens]
  BY DEF TypeOK
<1>2. \A r \in Runs : runs'[r] = runs[r] \/ runs'[r] = NoRun
  BY <1>1
<1>3. NoRun \in RunRows /\ NoRun.stage = "idle" /\ NoRun.uses = {}
  BY DEF NoRun, RunRows
<1>4. \A t \in Tabs : screens'[t] = screens[t] \/ screens'[t] = Shown(x, row)
  BY <1>1
<1>5. Shown(x, row) \in Screens /\ Shown(x, row).of = x
      /\ Shown(x, row).version = row.version /\ Shown(x, row).current = row.current
  BY DEF Shown, Screens, Rows
<1>6. TypeOK'
  <2>1. published \subseteq Nat
    BY DEF RecordSound, Rows
  <2>2. /\ rows' \in [Records -> Rows] /\ versions' \in [Records -> Seq(VersionRows)]
        /\ derived' \in [Records -> SUBSET Nat]
    BY <2>1 DEF TypeOK
  <2>3. screens' \in [Tabs -> Screens] /\ runs' \in [Runs -> RunRows]
    BY <1>1, <1>3, <1>5
  <2>4. \A y \in Records : rows'[y].status # "SUPERSEDED"
    BY <1>1 DEF TypeOK
  <2> QED
    BY <2>2, <2>3, <2>4 DEF TypeOK
<1>7. RecordsSound'
  <2>1. \A y \in Records : RecordSound(y, rows'[y], versions'[y], derived'[y])
    BY <1>1 DEF RecordsSound
  <2> QED
    BY <2>1 DEF RecordsSound, RecordSound
<1>8. QuotesSound'
  <2>1. ASSUME NEW u \in Questions \X Nat, Quotable(u) PROVE Quotable(u)'
    <3>1. u[1] \in Records
      BY DEF Records
    <3> QED
      BY <1>1, <2>1, <3>1 DEF Quotable, Keeps
  <2>2. \A y \in Records : \A i \in DOMAIN versions'[y] : \A u \in versions'[y][i].uses : Quotable(u)
    BY <1>1 DEF QuotesSound
  <2>3. \A r \in Runs : \A u \in runs'[r].uses : Quotable(u)
    BY <1>2, <1>3 DEF QuotesSound
  <2>4. \A y \in Records : \A i \in DOMAIN versions'[y] :
          versions'[y][i].uses \subseteq Questions \X Nat
    <3> TAKE y \in Records
    <3>1. versions'[y] \in Seq(VersionRows)
      BY <1>6 DEF TypeOK
    <3>2. \A i \in DOMAIN versions'[y] : versions'[y][i] \in VersionRows
      BY <3>1
    <3> QED
      BY <3>2 DEF VersionRows
  <2>5. \A r \in Runs : runs'[r].uses \subseteq Questions \X Nat
    BY <1>6 DEF TypeOK, RunRows
  <2> QED
    BY <2>1, <2>2, <2>3, <2>4, <2>5 DEF QuotesSound
<1>9. ScreensSound'
  <2> SUFFICES ASSUME NEW t \in Tabs, NEW y \in Records, screens'[t].of = y
               PROVE  /\ rows'[y].status # "ABSENT"
                      /\ screens'[t].version <= rows'[y].version
                      /\ screens'[t].version = rows'[y].version => screens'[t].current = rows'[y].current
    BY DEF ScreensSound
  <2>1. CASE screens'[t] = Shown(x, row)
    BY <1>1, <1>5, <2>1 DEF Rows
  <2>2. CASE screens'[t] = screens[t] /\ y # x
    BY <1>1, <2>2 DEF ScreensSound
  <2>3. CASE screens'[t] = screens[t] /\ y = x
    <3>1. screens[t].version <= rows[x].version /\ screens[t].version \in Nat /\ rows[x].version \in Nat
      BY <1>1, <2>3 DEF ScreensSound, Screens, Rows
    <3> QED
      BY <1>1, <2>3, <3>1
  <2> QED
    BY <1>4, <2>1, <2>2, <2>3
<1>10. RunsSound'
  <2>1. \A y \in Records : rows[y].task => rows'[y].task
    BY <1>1
  <2>2. \A r \in Runs : runs'[r].stage # "idle" => runs'[r] = runs[r]
    BY <1>2, <1>3
  <2>3. \A r \in Runs : runs[r].stage = "locked" => runs[r].of \in Records
    BY DEF RunsSound
  <2> QED
    BY <1>1, <2>1, <2>2, <2>3 DEF RunsSound
<1>11. Reviewed
  BY <1>1 DEF Reviewed, Keeps, ApprovesPending, ApprovesSubmitted, ActsOnScreen, Seen
<1> QED
  BY <1>6, <1>7, <1>8, <1>9, <1>10, <1>11

\* A request of a tab: the row it compared is the row it writes, and it is not locked.
LEMMA CommitStep ==
  ASSUME PracticeAssumption, IInv, NEW t \in Tabs, NEW x \in Records, NEW row \in Rows,
         NEW vs \in Seq(VersionRows), NEW published,
         Commit(t, x, row, vs),
         derived' = [derived EXCEPT ![x] = published],
         row.status \notin {"ABSENT", "SUPERSEDED"},
         row.version = rows[x].version, row.task = rows[x].task,
         RecordSound(x, row, vs, published),
         Keeps(versions[x], vs), ApprovesPending(versions[x], vs),
         \A i \in DOMAIN vs : \/ vs[i].uses = {}
                              \/ i \in DOMAIN versions[x] /\ vs[i].uses = versions[x][i].uses
  PROVE  IInv' /\ Reviewed
<1> DEFINE written == [row EXCEPT !.version = @ + 1]
<1>1. /\ written \in Rows /\ written.version = row.version + 1 /\ written.current = row.current
      /\ written.status = row.status /\ written.approved = row.approved /\ written.task = row.task
  BY DEF Rows
<1>2. /\ rows' = [rows EXCEPT ![x] = written] /\ versions' = [versions EXCEPT ![x] = vs]
      /\ screens' = [screens EXCEPT ![t] = Shown(x, written)]
      /\ runs' = runs /\ ~Locked(x)
      /\ screens[t].of = x /\ screens[t].version = rows[x].version
  BY DEF Commit, MayWrite
<1> HIDE DEF written
<1>3. Seen(x)
  BY <1>2 DEF Seen, IInv, ScreensSound
<1>4. RecordSound(x, written, vs, published)
  BY <1>1 DEF RecordSound
<1>5. \A i \in DOMAIN vs : \A u \in vs[i].uses : Quotable(u)
  BY DEF IInv, QuotesSound
<1>6. \A r \in Runs : runs'[r].stage = "locked" => runs'[r].of # x
  BY <1>2 DEF Locked
<1> QED
  BY <1>1, <1>2, <1>3, <1>4, <1>5, <1>6, WriteStep

\* What the invariant says of the row of one record.
LEMMA RowFacts ==
  ASSUME IInv, NEW x \in Records
  PROVE  /\ rows[x] \in Rows /\ versions[x] \in Seq(VersionRows) /\ derived[x] \subseteq Nat
         /\ Len(versions[x]) \in Nat /\ DOMAIN versions[x] = 1 .. Len(versions[x])
         /\ derived = [derived EXCEPT ![x] = derived[x]]
         /\ versions = [versions EXCEPT ![x] = versions[x]]
         /\ rows[x].status # "SUPERSEDED"
         /\ RecordSound(x, rows[x], versions[x], derived[x])
BY DEF IInv, TypeOK, RecordsSound

\* A save adds a draft after the newest version and retires that one, which is not
\* approved because the record is not.
LEMMA SaveStep ==
  ASSUME PracticeAssumption, IInv, NEW t \in Tabs, NEW x \in Records, NEW complete \in BOOLEAN,
         Save(t, x, complete)
  PROVE  IInv' /\ Reviewed
<1> DEFINE current == rows[x].current
           number == current + 1
           draft == Draft(complete)
           row == [rows[x] EXCEPT !.current = number, !.status = "DRAFT"]
           newest == {current}
           vs == Append(Retired(versions[x], newest), draft)
<1>1. /\ rows[x] \in Rows /\ versions[x] \in Seq(VersionRows) /\ Len(versions[x]) \in Nat
      /\ DOMAIN versions[x] = 1 .. Len(versions[x])
      /\ RecordSound(x, rows[x], versions[x], derived[x])
      /\ derived = [derived EXCEPT ![x] = derived[x]]
  BY RowFacts
<1>2. /\ rows[x].status \notin {"ABSENT", "APPROVED"} /\ Commit(t, x, row, vs)
      /\ derived' = [derived EXCEPT ![x] = derived[x]]
  <2>1. Retired(versions[x], newest) =
          [i \in DOMAIN versions[x] |->
             IF i = current THEN [versions[x][i] EXCEPT !.status = "SUPERSEDED"]
             ELSE versions[x][i]]
    BY DEF Retired
  <2>2. rows[x].status \notin {"ABSENT", "APPROVED"} /\ Commit(t, x, row, vs) /\ derived' = derived
    BY <2>1 DEF Save, Editable
  <2> QED
    BY <1>1, <2>2
<1>3. /\ draft \in VersionRows /\ draft.status = "DRAFT" /\ draft.complete = complete
      /\ ~draft.byTask /\ draft.uses = {}
  BY DEF Draft, VersionRows, ReviewStatus
<1>4. /\ row \in Rows /\ row.current = number /\ row.status = "DRAFT"
      /\ row.approved = rows[x].approved /\ row.version = rows[x].version
      /\ row.task = rows[x].task /\ number \in Nat
  <2>1. rows[x] \in Rows
    BY <1>1
  <2>2. current \in Nat /\ number \in Nat
    BY <2>1 DEF Rows
  <2> HIDE DEF number
  <2> QED
    BY <2>1, <2>2 DEF Rows, ReviewStatus
<1>5. number = Len(versions[x]) + 1
  BY <1>1 DEF RecordSound
<1>6. \A i \in DOMAIN versions[x] : i \in newest => versions[x][i].status # "APPROVED"
  BY <1>1, <1>2 DEF RecordSound
<1> HIDE DEF draft, row, number, newest
<1>7. /\ vs \in Seq(VersionRows) /\ Len(vs) = number
      /\ DOMAIN vs = DOMAIN versions[x] \cup {number} /\ vs[number] = draft
      /\ \A i \in DOMAIN versions[x] :
           /\ vs[i].complete = versions[x][i].complete
           /\ vs[i].byTask = versions[x][i].byTask
           /\ vs[i].uses = versions[x][i].uses
           /\ vs[i].status \in {versions[x][i].status, "SUPERSEDED"}
      /\ Keeps(versions[x], vs) /\ ApprovesPending(versions[x], vs)
  <2>0. newest \in SUBSET Nat
    BY <1>1 DEF newest, Rows
  <2>1. vs = WithDraft(versions[x], newest, draft)
    BY DEF vs, WithDraft
  <2> HIDE DEF vs
  <2>2. versions[x] \in Seq(VersionRows)
    BY <1>1
  <2>3. DraftAdded(versions[x], draft, vs)
    BY <1>3, <1>6, <2>0, <2>1, <2>2, AddDraft
  <2> QED
    BY <1>5, <2>3 DEF DraftAdded
<1> HIDE DEF vs
<1>8. RecordSound(x, row, vs, derived[x])
  <2>1. /\ row.current = Len(vs) /\ row.status = vs[row.current].status
        /\ row.status # "ABSENT" /\ row.approved = rows[x].approved
        /\ derived[x] = IF row.approved = 0 THEN {} ELSE {row.approved}
    BY <1>1, <1>3, <1>4, <1>7 DEF RecordSound
  <2>2. row.approved > 0 =>
          /\ row.approved \in DOMAIN vs
          /\ vs[row.approved].status = "APPROVED"
          /\ x \in Questions => vs[row.approved].complete
    BY <1>1, <2>1, <1>7 DEF RecordSound, Keeps
  <2>3. x \in Questions /\ row.task =>
          1 \in DOMAIN vs /\ vs[1].status # "APPROVED" /\ ~vs[1].complete
    BY <1>1, <1>4, <1>7 DEF RecordSound
  <2> QED
    BY <2>1, <2>2, <2>3 DEF RecordSound
<1>9. \A i \in DOMAIN vs : \/ vs[i].uses = {}
                           \/ i \in DOMAIN versions[x] /\ vs[i].uses = versions[x][i].uses
  BY <1>3, <1>7
<1>10. row.status \notin {"ABSENT", "SUPERSEDED"}
  BY <1>4
<1> HIDE DEF current
<1> QED
  BY <1>2, <1>4, <1>7, <1>8, <1>9, <1>10, CommitStep

\* A transition: the version that is current takes the status of the record.
LEMMA TransitionStep ==
  ASSUME PracticeAssumption, IInv, NEW t \in Tabs, NEW x \in Records,
         NEW target \in {"PENDING_REVIEW", "REJECTED", "APPROVED"}, NEW approved \in Nat,
         Transition(t, x, target, approved),
         \/ target # "APPROVED" /\ approved = rows[x].approved /\ derived' = derived
         \/ /\ target = "APPROVED" /\ approved = rows[x].current
            /\ x \in Questions => versions[x][rows[x].current].complete
            /\ derived' = [derived EXCEPT ![x] = {rows[x].current}]
  PROVE  IInv' /\ Reviewed
<1> DEFINE n == rows[x].current
           row == [rows[x] EXCEPT !.status = target, !.approved = approved]
           vs == [versions[x] EXCEPT ![n].status = target]
           published == IF target = "APPROVED" THEN {n} ELSE derived[x]
<1>1. /\ rows[x] \in Rows /\ versions[x] \in Seq(VersionRows) /\ Len(versions[x]) \in Nat
      /\ DOMAIN versions[x] = 1 .. Len(versions[x])
      /\ RecordSound(x, rows[x], versions[x], derived[x])
      /\ derived = [derived EXCEPT ![x] = derived[x]]
  BY RowFacts
<1>2. /\ n \in DOMAIN versions[x] /\ rows[x].status \in AllowedFrom(target)
      /\ Commit(t, x, row, vs) /\ derived' = [derived EXCEPT ![x] = published]
  BY <1>1 DEF Transition
<1>3. /\ row \in Rows /\ row.current = n /\ row.status = target
      /\ row.approved = approved /\ row.version = rows[x].version /\ row.task = rows[x].task
  BY <1>1 DEF Rows, ReviewStatus
<1>4. target \in ReviewStatus
  BY DEF ReviewStatus
<1> HIDE DEF row
<1>5. /\ vs \in Seq(VersionRows) /\ Len(vs) = Len(versions[x])
      /\ DOMAIN vs = DOMAIN versions[x] /\ vs[n].status = target
      /\ \A i \in DOMAIN versions[x] :
           /\ vs[i].complete = versions[x][i].complete
           /\ vs[i].byTask = versions[x][i].byTask
           /\ vs[i].uses = versions[x][i].uses
           /\ i # n => vs[i] = versions[x][i]
  BY <1>1, <1>2, <1>4, MoveVersion
<1> HIDE DEF vs
<1>6. /\ versions[x][n].status = rows[x].status /\ rows[x].status # "APPROVED"
      /\ target = "APPROVED" => rows[x].status = "PENDING_REVIEW"
  BY <1>1, <1>2 DEF AllowedFrom, RecordSound
<1>7. Keeps(versions[x], vs) /\ ApprovesPending(versions[x], vs)
  BY <1>5, <1>6 DEF Keeps, ApprovesPending
<1>8. RecordSound(x, row, vs, published)
  <2>1. /\ row.current = Len(vs) /\ row.status = vs[row.current].status
        /\ row.status # "ABSENT" /\ n > 0 /\ n \in Nat
    BY <1>1, <1>2, <1>3, <1>5 DEF RecordSound
  <2>2. /\ published = IF row.approved = 0 THEN {} ELSE {row.approved}
        /\ row.approved > 0 =>
             /\ row.approved \in DOMAIN vs
             /\ vs[row.approved].status = "APPROVED"
             /\ x \in Questions => vs[row.approved].complete
    <3>1. CASE target = "APPROVED"
      <4>1. /\ approved = n /\ published = {n}
            /\ x \in Questions => versions[x][n].complete
        BY <3>1
      <4>2. row.approved = n /\ n # 0 /\ n \in DOMAIN vs /\ n \in DOMAIN versions[x]
        <5>1. row.approved = n
          BY <1>3, <4>1
        <5>2. n # 0
          BY <2>1
        <5>3. n \in DOMAIN versions[x]
          BY <1>2
        <5>4. n \in DOMAIN vs
          BY <1>5, <5>3
        <5> QED
          BY <5>1, <5>2, <5>3, <5>4
      <4>3. x \in Questions => vs[n].complete
        BY <1>5, <4>1, <4>2
      <4> HIDE DEF n, published
      <4> QED
        BY <1>5, <3>1, <4>1, <4>2, <4>3
    <3>2. CASE target # "APPROVED"
      <4>1. approved = rows[x].approved /\ published = derived[x]
        BY <3>2
      <4>2. rows[x].approved > 0 => rows[x].approved # n
        BY <1>1, <1>6 DEF RecordSound
      <4> QED
        BY <1>1, <1>3, <1>5, <4>1, <4>2 DEF RecordSound
    <3> QED
      BY <3>1, <3>2
  <2>3. x \in Questions /\ row.task =>
          1 \in DOMAIN vs /\ vs[1].status # "APPROVED" /\ ~vs[1].complete
    BY <1>1, <1>3, <1>5 DEF RecordSound
  <2> QED
    BY <2>1, <2>2, <2>3 DEF RecordSound
<1> HIDE DEF published
<1>9. \A i \in DOMAIN vs : \/ vs[i].uses = {}
                           \/ i \in DOMAIN versions[x] /\ vs[i].uses = versions[x][i].uses
  BY <1>5
<1>10. row.status \notin {"ABSENT", "SUPERSEDED"}
  BY <1>3
<1> HIDE DEF n
<1> QED
  BY <1>2, <1>3, <1>5, <1>7, <1>8, <1>9, <1>10, CommitStep

\* A review of a question and the archive mark leave the versions and the status alone.
LEMMA NoteStep ==
  ASSUME PracticeAssumption, IInv, NEW t \in Tabs, NEW q \in Questions,
         RecordReview(t, q) \/ Archive(t, q)
  PROVE  IInv' /\ Reviewed
<1>1. /\ q \in Records /\ rows[q] \in Rows /\ versions[q] \in Seq(VersionRows)
      /\ rows[q].status # "SUPERSEDED"
      /\ RecordSound(q, rows[q], versions[q], derived[q])
      /\ derived = [derived EXCEPT ![q] = derived[q]]
  <2>1. q \in Records
    BY DEF Records
  <2> QED
    BY <2>1, RowFacts
<1>2. PICK row \in Rows :
        /\ Commit(t, q, row, versions[q]) /\ rows[q].status # "ABSENT"
        /\ row.status = rows[q].status /\ row.current = rows[q].current
        /\ row.approved = rows[q].approved /\ row.version = rows[q].version
        /\ row.task = rows[q].task
  <2>1. CASE RecordReview(t, q)
    <3> DEFINE row == [rows[q] EXCEPT !.reviews = @ + 1]
    <3>1. /\ row \in Rows /\ row.status = rows[q].status /\ row.current = rows[q].current
          /\ row.approved = rows[q].approved /\ row.version = rows[q].version
          /\ row.task = rows[q].task
      BY <1>1 DEF Rows
    <3>2. Commit(t, q, row, versions[q]) /\ rows[q].status # "ABSENT"
      BY <2>1 DEF RecordReview
    <3> QED
      BY <3>1, <3>2
  <2>2. CASE Archive(t, q)
    <3> DEFINE row == [rows[q] EXCEPT !.archived = TRUE]
    <3>1. /\ row \in Rows /\ row.status = rows[q].status /\ row.current = rows[q].current
          /\ row.approved = rows[q].approved /\ row.version = rows[q].version
          /\ row.task = rows[q].task
      BY <1>1 DEF Rows
    <3>2. Commit(t, q, row, versions[q]) /\ rows[q].status # "ABSENT"
      BY <2>2 DEF Archive
    <3> QED
      BY <3>1, <3>2
  <2> QED
    BY <2>1, <2>2
<1>3. derived' = [derived EXCEPT ![q] = derived[q]]
  BY <1>1 DEF RecordReview, Archive
<1>4. RecordSound(q, row, versions[q], derived[q])
  BY <1>1, <1>2 DEF RecordSound
<1>5. Keeps(versions[q], versions[q]) /\ ApprovesPending(versions[q], versions[q])
  BY DEF Keeps, ApprovesPending
<1>6. \A i \in DOMAIN versions[q] :
        \/ versions[q][i].uses = {}
        \/ i \in DOMAIN versions[q] /\ versions[q][i].uses = versions[q][i].uses
  OBVIOUS
<1>7. row.status \notin {"ABSENT", "SUPERSEDED"}
  BY <1>1, <1>2
<1> QED
  BY <1>1, <1>2, <1>3, <1>4, <1>5, <1>6, <1>7, CommitStep

\* A record that is created had no row: no tab showed it and no execution was of it.
LEMMA CreateStep ==
  ASSUME PracticeAssumption, IInv, NEW x \in Records, NEW row \in Rows,
         NEW vs \in Seq(VersionRows), NEW published,
         Create(x, row, vs),
         derived' = [derived EXCEPT ![x] = published],
         row.status \notin {"ABSENT", "SUPERSEDED"}, row.version = rows[x].version + 1,
         RecordSound(x, row, vs, published),
         \A i \in DOMAIN vs : vs[i].uses = {}
  PROVE  IInv' /\ Reviewed
<1>1. /\ rows[x].status = "ABSENT" /\ screens' = screens /\ runs' = runs
      /\ rows' = [rows EXCEPT ![x] = row] /\ versions' = [versions EXCEPT ![x] = vs]
  BY DEF Create
<1>2. rows[x].current = 0 /\ ~rows[x].task /\ versions[x] \in Seq(VersionRows)
      /\ Len(versions[x]) = 0
  <2>1. versions[x] \in Seq(VersionRows) /\ RecordSound(x, rows[x], versions[x], derived[x])
    BY RowFacts
  <2> QED
    BY <1>1, <2>1 DEF RecordSound
<1>3. DOMAIN versions[x] = {}
  BY <1>2
<1>4. Keeps(versions[x], vs) /\ ApprovesPending(versions[x], vs)
  BY <1>3 DEF Keeps, ApprovesPending
<1>5. \A r \in Runs : runs'[r].stage = "locked" => runs'[r].of # x
  BY <1>1, <1>2 DEF IInv, RunsSound
<1>6. \A i \in DOMAIN vs : \A u \in vs[i].uses : Quotable(u)
  OBVIOUS
<1> QED
  BY <1>1, <1>2, <1>4, <1>5, <1>6, WriteStep

\* A question that is typed in, a question from an image and a set that is requested.
LEMMA CreateRecord ==
  ASSUME PracticeAssumption, IInv,
         \/ \E q \in Questions : CreateWrongQuestion(q) \/ CreateFromImage(q)
         \/ \E s \in Sets, asked \in SUBSET Questions : GenerateQuestionSet(s, asked)
  PROVE  IInv' /\ Reviewed
<1>1. \A b \in BOOLEAN :
        /\ Draft(b) \in VersionRows /\ Draft(b).status = "DRAFT" /\ Draft(b).complete = b
        /\ ~Draft(b).byTask /\ Draft(b).uses = {}
  BY DEF Draft, VersionRows, ReviewStatus
<1>2. \A v \in VersionRows : /\ <<v>> \in Seq(VersionRows) /\ Len(<<v>>) = 1 /\ <<v>>[1] = v
                             /\ DOMAIN <<v>> = {1}
  OBVIOUS
<1>3. ASSUME NEW q \in Questions, CreateWrongQuestion(q) PROVE IInv' /\ Reviewed
  <2> DEFINE v == [Draft(TRUE) EXCEPT !.status = "APPROVED"]
             row == [NoRow EXCEPT !.status = "APPROVED", !.current = 1, !.approved = 1, !.version = 1]
             vs == <<v>>
  <2>1. q \in Records
    BY DEF Records
  <2>2. /\ v \in VersionRows /\ v.status = "APPROVED" /\ v.complete /\ v.uses = {}
    BY <1>1, StatusColumn DEF ReviewStatus
  <2>3. /\ row \in Rows /\ row.status = "APPROVED" /\ row.current = 1 /\ row.approved = 1
        /\ row.version = 1 /\ ~row.task
    BY DEF NoRow, Rows, ReviewStatus
  <2>4. Create(q, row, vs) /\ derived' = [derived EXCEPT ![q] = {1}]
    BY <1>3 DEF CreateWrongQuestion
  <2> HIDE DEF v, row
  <2>5. vs \in Seq(VersionRows) /\ Len(vs) = 1 /\ vs[1] = v /\ DOMAIN vs = {1}
    BY <1>2, <2>2
  <2> HIDE DEF vs
  <2>6. RecordSound(q, row, vs, {1})
    BY <2>2, <2>3, <2>5 DEF RecordSound
  <2>7. row.version = rows[q].version + 1
    <3>1. rows[q].status = "ABSENT" /\ RecordSound(q, rows[q], versions[q], derived[q])
      BY <2>1, <2>4, RowFacts DEF Create
    <3> QED
      BY <2>3, <3>1 DEF RecordSound
  <2> QED
    BY <2>1, <2>2, <2>3, <2>4, <2>5, <2>6, <2>7, CreateStep
<1>4. ASSUME NEW q \in Questions, CreateFromImage(q) PROVE IInv' /\ Reviewed
  <2> DEFINE v == Draft(FALSE)
             row == [NoRow EXCEPT !.status = "DRAFT", !.current = 1, !.version = 1, !.task = TRUE]
             vs == <<v>>
  <2>1. q \in Records
    BY DEF Records
  <2>2. v \in VersionRows /\ v.status = "DRAFT" /\ ~v.complete /\ v.uses = {}
    BY <1>1
  <2>3. /\ row \in Rows /\ row.status = "DRAFT" /\ row.current = 1 /\ row.approved = 0
        /\ row.version = 1
    BY DEF NoRow, Rows, ReviewStatus
  <2>4. rows[q].status = "ABSENT" /\ RecordSound(q, rows[q], versions[q], derived[q])
        /\ derived = [derived EXCEPT ![q] = derived[q]]
    BY <1>4, <2>1, RowFacts DEF CreateFromImage, Create
  <2>5. derived[q] = {} /\ row.version = rows[q].version + 1
    BY <2>3, <2>4 DEF RecordSound
  <2>6. Create(q, row, vs) /\ derived' = [derived EXCEPT ![q] = {}]
    BY <1>4, <2>4, <2>5 DEF CreateFromImage
  <2> HIDE DEF v, row
  <2>7. vs \in Seq(VersionRows) /\ Len(vs) = 1 /\ vs[1] = v /\ DOMAIN vs = {1}
    BY <1>2, <2>2
  <2> HIDE DEF vs
  <2>8. RecordSound(q, row, vs, {})
    BY <2>2, <2>3, <2>7 DEF RecordSound
  <2> QED
    BY <2>1, <2>2, <2>3, <2>5, <2>6, <2>7, <2>8, CreateStep
<1>5. ASSUME NEW s \in Sets, NEW asked \in SUBSET Questions, GenerateQuestionSet(s, asked)
      PROVE  IInv' /\ Reviewed
  <2> DEFINE row == [NoRow EXCEPT !.status = "DRAFT", !.version = 1, !.task = TRUE, !.asked = asked]
             vs == <<>>
  <2>1. s \in Records /\ s \notin Questions
    BY DEF Records, PracticeAssumption
  <2>2. /\ row \in Rows /\ row.status = "DRAFT" /\ row.current = 0 /\ row.approved = 0
        /\ row.version = 1
    BY DEF NoRow, Rows, ReviewStatus
  <2>3. rows[s].status = "ABSENT" /\ RecordSound(s, rows[s], versions[s], derived[s])
        /\ derived = [derived EXCEPT ![s] = derived[s]]
    BY <1>5, <2>1, RowFacts DEF GenerateQuestionSet, Create
  <2>4. derived[s] = {} /\ row.version = rows[s].version + 1
    BY <2>2, <2>3 DEF RecordSound
  <2>5. Create(s, row, vs) /\ derived' = [derived EXCEPT ![s] = {}]
    BY <1>5, <2>3, <2>4 DEF GenerateQuestionSet
  <2> HIDE DEF row
  <2>6. vs \in Seq(VersionRows) /\ Len(vs) = 0 /\ DOMAIN vs = {}
    OBVIOUS
  <2> HIDE DEF vs
  <2>7. RecordSound(s, row, vs, {})
    BY <2>1, <2>2, <2>6 DEF RecordSound
  <2> QED
    BY <2>1, <2>2, <2>4, <2>5, <2>6, <2>7, CreateStep
<1> QED
  BY <1>3, <1>4, <1>5

\* A draft of a task lands: the version that carried the image is incomplete and so was
\* never approved, and nothing was written since the row was locked.
LEMMA LandStep ==
  ASSUME PracticeAssumption, IInv, NEW r \in Runs, NEW complete \in BOOLEAN, Land(r, complete)
  PROVE  IInv' /\ Reviewed
<1> DEFINE x == runs[r].of
           number == Len(versions[x]) + 1
           draft == [Draft(complete) EXCEPT !.byTask = TRUE, !.uses = runs[r].uses]
           row == [rows[x] EXCEPT !.current = number, !.status = "DRAFT",
                                  !.version = runs[r].version + 1]
           old == versions[x]
           vs == WithDraft(old, Retires(x), draft)
<1>1. runs[r].stage = "locked"
  BY DEF Land
<1>2. x \in Records /\ rows[x].task /\ runs[r].version = rows[x].version
  BY <1>1 DEF IInv, RunsSound
<1>3. /\ rows[x] \in Rows /\ old \in Seq(VersionRows) /\ Len(old) \in Nat
      /\ DOMAIN old = 1 .. Len(old)
      /\ RecordSound(x, rows[x], old, derived[x])
      /\ derived = [derived EXCEPT ![x] = derived[x]]
  BY <1>2, RowFacts
<1>4. runs[r] \in RunRows
  BY DEF IInv, TypeOK
<1>5. /\ ~Drafted(x)
      /\ rows' = [rows EXCEPT ![x] = row] /\ versions' = [versions EXCEPT ![x] = vs]
      /\ runs' = [runs EXCEPT ![r] = NoRun] /\ screens' = screens
      /\ derived' = [derived EXCEPT ![x] = derived[x]]
  BY <1>3 DEF Land, Lands, StatusLanded, WithDraft, Retired
<1>6. /\ draft \in VersionRows /\ draft.status = "DRAFT" /\ draft.uses = runs[r].uses
  BY <1>4 DEF Draft, VersionRows, ReviewStatus, RunRows
<1>7. /\ row \in Rows /\ row.current = number /\ row.status = "DRAFT"
      /\ row.approved = rows[x].approved /\ row.version = rows[x].version + 1 /\ row.task
      /\ number \in Nat /\ number > rows[x].current
  <2>1. rows[x].version + 1 \in Nat /\ number \in Nat
    BY <1>3 DEF Rows
  <2>2. number > rows[x].current
    BY <1>3 DEF RecordSound
  <2>3. row = [rows[x] EXCEPT !.current = number, !.status = "DRAFT", !.version = rows[x].version + 1]
    BY <1>2
  <2> HIDE DEF number
  <2> QED
    BY <1>2, <1>3, <2>1, <2>2, <2>3 DEF Rows, ReviewStatus
<1>8. Retires(x) \in SUBSET Nat /\ (x \in Questions => Retires(x) = {1})
      /\ (x \notin Questions => Retires(x) = {})
  BY DEF Retires
<1>9. \A i \in DOMAIN old : i \in Retires(x) => old[i].status # "APPROVED"
  BY <1>2, <1>3, <1>8 DEF RecordSound
<1> HIDE DEF draft, row, vs
<1>10. DraftAdded(old, draft, vs)
  <2>1. vs = WithDraft(old, Retires(x), draft)
    BY DEF vs
  <2> HIDE DEF x, old
  <2> QED
    BY <1>3, <1>6, <1>8, <1>9, <2>1, AddDraft
<1> HIDE DEF number
<1>11. /\ vs \in Seq(VersionRows) /\ Len(vs) = number
       /\ DOMAIN vs = DOMAIN old \cup {number} /\ vs[number] = draft
       /\ Keeps(old, vs) /\ ApprovesPending(old, vs)
  BY <1>10 DEF DraftAdded, number
<1>12. \A i \in DOMAIN old :
         /\ vs[i].complete = old[i].complete
         /\ vs[i].byTask = old[i].byTask
         /\ vs[i].uses = old[i].uses
         /\ vs[i].status \in {old[i].status, "SUPERSEDED"}
  BY <1>10 DEF DraftAdded
<1> HIDE DEF old
<1>13. RecordSound(x, row, vs, derived[x])
  <2>1. /\ row.current = Len(vs) /\ row.status = vs[row.current].status
        /\ row.status # "ABSENT"
        /\ derived[x] = IF row.approved = 0 THEN {} ELSE {row.approved}
    BY <1>3, <1>6, <1>7, <1>11 DEF RecordSound
  <2>2. row.approved > 0 =>
          /\ row.approved \in DOMAIN vs
          /\ vs[row.approved].status = "APPROVED"
          /\ x \in Questions => vs[row.approved].complete
    BY <1>3, <1>7, <1>11, <1>12 DEF RecordSound, Keeps
  <2>3. x \in Questions /\ row.task =>
          1 \in DOMAIN vs /\ vs[1].status # "APPROVED" /\ ~vs[1].complete
    BY <1>2, <1>3, <1>11, <1>12 DEF RecordSound
  <2> QED
    BY <2>1, <2>2, <2>3 DEF RecordSound
<1>14. \A i \in DOMAIN vs : \A u \in vs[i].uses : Quotable(u)
  <2>1. \A i \in DOMAIN old : \A u \in old[i].uses : Quotable(u)
    BY <1>2 DEF IInv, QuotesSound, old
  <2>2. \A u \in draft.uses : Quotable(u)
    BY <1>6 DEF IInv, QuotesSound
  <2> QED
    BY <1>11, <1>12, <2>1, <2>2
<1>15. \A s \in Runs : runs'[s].stage = "locked" => runs'[s].of # x
  <2>1. runs'[r].stage = "idle" /\ \A s \in Runs \ {r} : runs'[s] = runs[s]
    BY <1>5 DEF IInv, TypeOK, NoRun
  <2> QED
    BY <1>1, <2>1 DEF IInv, RunsSound
<1>16. row.current # rows[x].current
  BY <1>3, <1>7 DEF Rows
<1>17. Keeps(versions[x], vs) /\ ApprovesPending(versions[x], vs)
  BY <1>11 DEF old
<1>18. row.status \notin {"ABSENT", "SUPERSEDED"}
  BY <1>7
<1> HIDE DEF x
<1> QED
  BY <1>2, <1>5, <1>7, <1>11, <1>13, <1>14, <1>15, <1>16, <1>17, <1>18, WriteStep

\* Steps that only read: a page that is opened, and an execution that starts, locks the
\* row or fails.
LEMMA ReadStep ==
  ASSUME PracticeAssumption, IInv,
         \/ \E t \in Tabs, x \in Records : Open(t, x)
         \/ \E r \in Runs : LockRow(r) \/ FailRun(r) \/ \E x \in Records : StartRun(r, x)
  PROVE  IInv' /\ Reviewed
<1> USE DEF IInv
<1>1. UNCHANGED <<rows, versions, derived>>
  BY DEF Open, LockRow, FailRun, StartRun
<1>2. Reviewed /\ RecordsSound'
  BY <1>1, NothingReviewed DEF RecordsSound, RecordSound
<1>3. ASSUME NEW t \in Tabs, NEW x \in Records, Open(t, x) PROVE IInv'
  <2>1. /\ screens' = [screens EXCEPT ![t] = Shown(x, rows[x])] /\ runs' = runs
        /\ rows[x].status # "ABSENT" /\ rows[x] \in Rows
    BY <1>3 DEF Open, TypeOK
  <2>2. /\ Shown(x, rows[x]) \in Screens /\ Shown(x, rows[x]).of = x
        /\ Shown(x, rows[x]).version = rows[x].version
        /\ Shown(x, rows[x]).current = rows[x].current /\ rows[x].version \in Nat
    BY <2>1 DEF Shown, Screens, Rows
  <2>3. TypeOK'
    BY <1>1, <2>1, <2>2 DEF TypeOK
  <2>4. \A s \in Tabs : screens'[s] = IF s = t THEN Shown(x, rows[x]) ELSE screens[s]
    BY <2>1 DEF TypeOK
  <2>5. ScreensSound'
    BY <1>1, <2>1, <2>2, <2>4 DEF ScreensSound
  <2> QED
    BY <1>1, <1>2, <2>1, <2>3, <2>5 DEF QuotesSound, Quotable, RunsSound
<1>4. ASSUME NEW r \in Runs, NEW run \in RunRows,
             runs' = [runs EXCEPT ![r] = run], screens' = screens,
             run.stage # "idle" => run.of \in Records /\ rows[run.of].task,
             run.stage = "locked" => run.version = rows[run.of].version /\ ~Locked(run.of),
             \A u \in run.uses : Quotable(u)
      PROVE  IInv'
  <2>1. \A s \in Runs : runs'[s] = IF s = r THEN run ELSE runs[s]
    BY <1>4 DEF TypeOK
  <2>2. TypeOK' /\ ScreensSound'
    BY <1>1, <1>4 DEF TypeOK, ScreensSound
  <2>3. QuotesSound'
    BY <1>1, <1>4, <2>1 DEF QuotesSound, Quotable
  <2>4. RunsSound'
    BY <1>1, <1>4, <2>1 DEF RunsSound, Locked
  <2> QED
    BY <1>2, <2>2, <2>3, <2>4
<1>5. NoRun \in RunRows /\ NoRun.stage = "idle" /\ NoRun.uses = {}
  BY DEF NoRun, RunRows
<1>6. ASSUME NEW r \in Runs, NEW x \in Records, StartRun(r, x) PROVE IInv'
  <2> DEFINE run == [NoRun EXCEPT !.stage = "checked", !.of = x]
  <2>1. run \in RunRows /\ run.stage = "checked" /\ run.of = x /\ run.uses = {}
    BY DEF NoRun, RunRows
  <2>2. runs' = [runs EXCEPT ![r] = run] /\ screens' = screens /\ rows[x].task
    BY <1>6 DEF StartRun
  <2> HIDE DEF run
  <2> QED
    BY <1>4, <2>1, <2>2
<1>7. ASSUME NEW r \in Runs, FailRun(r) PROVE IInv'
  BY <1>4, <1>5, <1>7 DEF FailRun
<1>8. ASSUME NEW r \in Runs, LockRow(r) PROVE IInv'
  <2> DEFINE x == runs[r].of
             quoted == {q \in rows[x].asked : rows[q].approved > 0 /\ ~rows[q].archived}
             uses == {Quoted(q) : q \in quoted}
             run == [runs[r] EXCEPT !.stage = "locked", !.version = rows[x].version, !.uses = uses]
  <2>1. runs[r].stage = "checked" /\ runs[r] \in RunRows /\ ~Locked(x)
        /\ runs' = [runs EXCEPT ![r] = run] /\ screens' = screens
    BY <1>8 DEF LockRow, TypeOK
  <2>2. x \in Records /\ rows[x].task /\ rows[x] \in Rows
    BY <2>1 DEF RunsSound, TypeOK
  <2>3. \A q \in quoted : /\ q \in Questions /\ q \in Records /\ rows[q].approved \in Nat
                          /\ rows[q].approved > 0
    BY <2>2 DEF Records, Rows, TypeOK
  <2>4. uses \subseteq Questions \X Nat
    BY <2>3 DEF Quoted
  <2>5. \A u \in uses : Quotable(u)
    <3>1. ASSUME NEW q \in quoted PROVE Quotable(Quoted(q))
      <4>1. RecordSound(q, rows[q], versions[q], derived[q])
        BY <2>3 DEF RecordsSound
      <4> QED
        BY <2>3, <4>1 DEF RecordSound, Quotable, Quoted
    <3> QED
      BY <3>1
  <2> HIDE DEF uses
  <2>6. /\ run \in RunRows /\ run.stage = "locked" /\ run.of = x /\ run.uses = uses
        /\ run.version = rows[x].version
    BY <2>1, <2>2, <2>4 DEF RunRows, Rows
  <2> HIDE DEF run, x
  <2> QED
    BY <1>4, <2>1, <2>2, <2>5, <2>6
<1> QED
  BY <1>2, <1>3, <1>6, <1>7, <1>8

\* The initial state satisfies the invariant.
LEMMA InvInit == ASSUME PracticeAssumption, Init PROVE IInv
<1> USE DEF Init
<1>1. NoRow \in Rows /\ NoRow.status = "ABSENT" /\ NoRow.current = 0 /\ NoRow.approved = 0
      /\ NoRow.version = 0 /\ ~NoRow.task
  BY DEF NoRow, Rows
<1>2. Blank \in Screens /\ Blank.of \notin Records
  BY DEF Blank, Screens, PracticeAssumption, Records
<1>3. NoRun \in RunRows /\ NoRun.stage = "idle" /\ NoRun.uses = {}
  BY DEF NoRun, RunRows
<1>4. <<>> \in Seq(VersionRows) /\ Len(<<>>) = 0 /\ DOMAIN <<>> = {}
  OBVIOUS
<1>5. TypeOK
  BY <1>1, <1>2, <1>3, <1>4 DEF TypeOK
<1>6. RecordsSound
  BY <1>1, <1>4 DEF RecordsSound, RecordSound
<1>7. QuotesSound /\ ScreensSound /\ RunsSound
  BY <1>2, <1>3, <1>4 DEF QuotesSound, ScreensSound, RunsSound
<1> QED
  BY <1>5, <1>6, <1>7 DEF IInv

\* Every step keeps the invariant, keeps what was approved and reviews what was shown.
LEMMA InvStep == ASSUME PracticeAssumption, IInv, [Next]_vars PROVE IInv' /\ [Reviewed]_vars
<1>1. CASE UNCHANGED vars
  BY <1>1 DEF vars, IInv, TypeOK, RecordsSound, RecordSound, QuotesSound, Quotable, ScreensSound,
              RunsSound
<1>2. CASE Next
  <2>1. CASE \/ \E q \in Questions : CreateWrongQuestion(q) \/ CreateFromImage(q)
             \/ \E s \in Sets, asked \in SUBSET Questions : GenerateQuestionSet(s, asked)
    BY <2>1, CreateRecord
  <2>2. CASE \/ \E t \in Tabs, x \in Records : Open(t, x)
             \/ \E r \in Runs : LockRow(r) \/ FailRun(r) \/ \E x \in Records : StartRun(r, x)
    BY <2>2, ReadStep
  <2>3. ASSUME NEW t \in Tabs, NEW x \in Records, Submit(t, x) \/ Reject(t, x)
        PROVE  IInv' /\ Reviewed
    <3>1. rows[x].approved \in Nat
      BY DEF IInv, TypeOK, Rows
    <3>2. \E target \in {"PENDING_REVIEW", "REJECTED"} :
            Transition(t, x, target, rows[x].approved) /\ derived' = derived
      BY <2>3 DEF Submit, Reject
    <3> QED
      BY <3>1, <3>2, TransitionStep
  <2>4. ASSUME NEW t \in Tabs, NEW x \in Records, Approve(t, x) PROVE IInv' /\ Reviewed
    <3>1. rows[x].current \in Nat
      BY DEF IInv, TypeOK, Rows
    <3>2. /\ Transition(t, x, "APPROVED", rows[x].current)
          /\ x \in Questions => versions[x][rows[x].current].complete
          /\ derived' = [derived EXCEPT ![x] = {rows[x].current}]
      BY <2>4 DEF Approve, Publish
    <3> QED
      BY <3>1, <3>2, TransitionStep
  <2>5. ASSUME NEW t \in Tabs, NEW x \in Records, NEW complete \in BOOLEAN, Save(t, x, complete)
        PROVE  IInv' /\ Reviewed
    BY <2>5, SaveStep
  <2>6. ASSUME NEW t \in Tabs, NEW q \in Questions, RecordReview(t, q) \/ Archive(t, q)
        PROVE  IInv' /\ Reviewed
    BY <2>6, NoteStep
  <2>7. ASSUME NEW r \in Runs, NEW complete \in BOOLEAN, Land(r, complete)
        PROVE  IInv' /\ Reviewed
    BY <2>7, LandStep
  <2> QED
    BY <1>2, <2>1, <2>2, <2>3, <2>4, <2>5, <2>6, <2>7 DEF Next
<1> QED
  BY <1>1, <1>2

\* The invariant holds in every state.
LEMMA Invariance == Spec => []IInv
<1>1. Init => IInv
  BY InvInit, PracticeAssumption
<1>2. IInv /\ [Next]_vars => IInv'
  BY InvStep, PracticeAssumption
<1> QED
  BY <1>1, <1>2, PTL DEF Spec
-----------------------------------------------------------------------------
\* A record agrees with its versions and with what was published from them: the current
\* version is the newest and has the status of the record, although saving counts on from
\* the pointer and an executor from the largest number, and what is published is the
\* approved version (phase4.py:478-526, 838-873, phase4_service.py:263-286).
THEOREM RecordsAlwaysAgree == Spec => []RecordsAgree
<1>1. IInv => RecordsAgree
  BY DEF IInv, RecordsSound, RecordSound, RecordsAgree, CurrentIsNewest, DerivedFromApproved
<1> QED
  BY <1>1, Invariance, PTL

\* A prompt quotes only complete, approved versions of wrong questions, and what it quoted
\* is complete and approved for ever (phase4.py:697-706, phase4_service.py:346-375).
THEOREM AlwaysQuotesApproved == Spec => []QuotesApproved
<1>1. IInv => QuotesApproved
  BY DEF IInv, QuotesSound, Quotable, QuotesApproved, Records
<1> QED
  BY <1>1, Invariance, PTL

\* An approved version is never written again (docs/phase4-wrong-questions.md:7).
THEOREM ApprovedVersionsStay == Spec => ApprovedVersionKept
<1> DEFINE Kept == \A x \in Records : \A i \in DOMAIN versions[x] :
                     versions[x][i].status = "APPROVED" => versions'[x][i] = versions[x][i]
<1>1. IInv /\ [Next]_vars => [Kept]_vars
  BY InvStep, PracticeAssumption DEF Reviewed
<1> HIDE DEF Kept
<1>2. Spec => [][Kept]_vars
  BY <1>1, Invariance, PTL DEF Spec
<1> QED
  BY <1>2 DEF Kept, ApprovedVersionKept

\* The review is of what a teacher saw and submitted, although drafts land between the
\* reading and the click (phase4.py:79, 504-518, phase4_service.py:285).
THEOREM AlwaysReviewsWhatIsShown == Spec => ReviewsWhatIsShown
<1> DEFINE Shows == \A x \in Records : ApprovesSubmitted(x) /\ ActsOnScreen(x)
<1>1. IInv /\ [Next]_vars => [Shows]_vars
  BY InvStep, PracticeAssumption DEF Reviewed
<1> HIDE DEF Shows
<1>2. Spec => [][Shows]_vars
  BY <1>1, Invariance, PTL DEF Spec
<1> QED
  BY <1>2 DEF Shows, ReviewsWhatIsShown
=============================================================================
