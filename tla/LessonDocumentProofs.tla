------------------------ MODULE LessonDocumentProofs ------------------------
(***************************************************************************)
(* What holds of the lesson document however many tabs are open, tasks are *)
(* enqueued and versions are written: the types, the pointer to the newest *)
(* version, and what a regenerated section is merged into.                 *)
(***************************************************************************)
EXTENDS LessonDocument, SequenceTheorems, TLAPS

\* A request carries a row that was current once, so it points at a version that
\* exists, and every number it writes for a new version is new to it.
RowInThePast == \A t \in Tabs : req[t].row.current <= doc.current

\* The row lock keeps the version that the executor read the newest one.
LockedStaysNewest ==
  lock # NoJob /\ jobs[lock].kind \in Sections => merged = doc.current

\* A task that was enqueued generates something, and only such a task is executed.
EnqueuedGenerates ==
  /\ \A j \in Jobs : jobs[j].state # "new" => jobs[j].kind \in Generations
  /\ lock # NoJob => jobs[lock].state # "new"

\* The invariant that the theorems rest on.
IInv ==
  /\ TypeOK
  /\ EnqueuedGenerates
  /\ CurrentIsNewest
  /\ RowInThePast
  /\ LockedStaysNewest
  /\ MergesIntoNewest
-----------------------------------------------------------------------------
\* What an UPDATE writes is the present value or the new one.
LEMMA WrittenIsEither ==
  ASSUME NEW S, NEW now \in S, NEW loaded, NEW new \in S
  PROVE  Written(now, loaded, new) \in S
BY DEF Written

\* The commit of a handler leaves a document row of the declared type.
LEMMA FlushType ==
  ASSUME doc \in Documents, NEW row \in Documents, NEW new \in Documents, Flush(row, new)
  PROVE  doc' \in Documents
<1>1. /\ Written(doc.status, row.status, new.status) \in Review \cup {"ABSENT"}
      /\ Written(doc.current, row.current, new.current) \in Nat
      /\ Written(doc.approved, row.approved, new.approved) \in Nat
  BY DEF Documents, Written
<1>2. row.version + 1 \in Nat
  BY DEF Documents
<1> QED
  BY <1>1, <1>2 DEF Flush, Documents

\* Appending a version of the declared type.
LEMMA AppendType ==
  ASSUME versions \in Seq(Versions), NEW v \in Versions
  PROVE  /\ Append(versions, v) \in Seq(Versions)
         /\ Len(Append(versions, v)) = Len(versions) + 1
         /\ Append(versions, v)[Len(versions) + 1] = v
         /\ \A n \in DOMAIN versions : Append(versions, v)[n] = versions[n]
         /\ DOMAIN Append(versions, v) = DOMAIN versions \cup {Len(versions) + 1}
OBVIOUS

\* The record of a tab that waits for nothing.
LEMMA UnsentType == Unsent \in Requests /\ Unsent.row.current = 0
BY DEF Unsent, NoDocument, Requests, Documents, Review, VersionStatus

\* Ending a request keeps the others, whose rows stay in the past.
LEMMA EndOfRequest ==
  ASSUME TypeOK, RowInThePast, NEW t \in Tabs, req' = [req EXCEPT ![t] = Unsent],
         doc' \in Documents, doc'.current >= doc.current
  PROVE  req' \in [Tabs -> Requests] /\ RowInThePast'
<1>1. req' \in [Tabs -> Requests]
  BY UnsentType DEF TypeOK
<1>2. ASSUME NEW u \in Tabs PROVE req'[u].row.current <= doc'.current
  <2>1. doc.current \in Nat /\ doc'.current \in Nat /\ req[u].row.current \in Nat
    BY DEF TypeOK, Documents, Requests
  <2>2. req'[u] = req[u] \/ req'[u] = Unsent
    BY DEF TypeOK
  <2> QED
    BY <2>1, <2>2, UnsentType DEF RowInThePast
<1> QED
  BY <1>1, <1>2 DEF RowInThePast

\* The tab shows the version it is told.
LEMMA ScreenType ==
  ASSUME TypeOK, NEW t \in Tabs, NEW n \in Nat, Respond(t, n)
  PROVE  screen' \in [Tabs -> Screens]
<1>1. req[t].row.version + 1 \in Nat
  BY DEF TypeOK, Requests, Documents
<1> QED
  BY <1>1 DEF Respond, TypeOK, Screens
-----------------------------------------------------------------------------
\* The initial state satisfies the invariant.
LEMMA InvInit == ASSUME DocumentAssumption, Init PROVE IInv
<1>1. TypeOK
  BY DEF Init, TypeOK, NoDocument, Unsent, Documents, Tasks, Requests, Screens, Review,
         VersionStatus
<1> QED
  BY <1>1 DEF Init, IInv, DocumentAssumption, NoDocument, Unsent, CurrentIsNewest,
              RowInThePast, LockedStaysNewest, MergesIntoNewest, EnqueuedGenerates

\* The second reads of a request keep the row it loaded.
LEMMA CheckedRow ==
  ASSUME TypeOK, NEW t \in Tabs, Check(t)
  PROVE  \E x \in Requests : x.row = req[t].row /\ req' = [req EXCEPT ![t] = x]
<1> USE DEF TypeOK
<1>1. req[t] \in Requests /\ Len(versions) \in Nat
  OBVIOUS
<1>2. \A n \in DOMAIN versions : versions[n].status \in VersionStatus
  <2>1. \A n \in DOMAIN versions : versions[n] \in Versions
    OBVIOUS
  <2> QED
    BY <2>1 DEF Versions
<1> DEFINE saved == [req[t] EXCEPT !.stage = "checked", !.newest = Len(versions)]
           begun == [req[t] EXCEPT !.stage = "checked"]
           found(s) == [req[t] EXCEPT !.stage = "checked", !.found = s]
<1>3. saved \in Requests /\ saved.row = req[t].row
  BY <1>1 DEF Requests
<1>4. begun \in Requests /\ begun.row = req[t].row
  BY <1>1 DEF Requests
<1>5. \A s \in VersionStatus : found(s) \in Requests /\ found(s).row = req[t].row
  BY <1>1 DEF Requests
<1> HIDE DEF saved, begun, found
<1>6. \/ req' = [req EXCEPT ![t] = saved]
      \/ req' = [req EXCEPT ![t] = begun]
      \/ \E s \in VersionStatus : req' = [req EXCEPT ![t] = found(s)]
  BY <1>2 DEF Check, saved, begun, found
<1> QED
  BY <1>3, <1>4, <1>5, <1>6 DEF Check

\* A request that has not committed writes nothing but its own record.
LEMMA ReadStep ==
  ASSUME DocumentAssumption, IInv, NEW t \in Tabs,
         \/ Open(t) \/ Check(t) \/ Refuse(t) \/ \E op \in Operations : Load(t, op)
  PROVE  IInv'
<1> USE DEF IInv, TypeOK
<1>1. UNCHANGED <<doc, versions, jobs, lock, merged>>
  BY DEF Open, Check, Refuse, Load
<1>2. req' \in [Tabs -> Requests] /\ screen' \in [Tabs -> Screens] /\ RowInThePast'
  <2>1. CASE Open(t)
    BY <2>1 DEF Open, Screens, Documents, RowInThePast
  <2>2. CASE Refuse(t)
    <3>1. doc' = doc /\ screen' = screen /\ req' = [req EXCEPT ![t] = Unsent]
      BY <2>2 DEF Refuse
    <3>2. doc' \in Documents /\ doc'.current >= doc.current
      BY <3>1 DEF Documents
    <3> QED
      BY <3>1, <3>2, EndOfRequest
  <2>3. ASSUME NEW op \in Operations, Load(t, op)
        PROVE  req' \in [Tabs -> Requests] /\ screen' \in [Tabs -> Screens] /\ RowInThePast'
    <3> DEFINE sent == [Unsent EXCEPT !.op = op, !.stage = "loaded", !.row = doc,
                                      !.shown = screen[t].current]
    <3>1. sent \in Requests /\ sent.row = doc
      BY UnsentType DEF Requests, Screens
    <3>2. req' = [req EXCEPT ![t] = sent] /\ screen' = screen /\ doc' = doc
      BY <2>3 DEF Load
    <3> QED
      BY <3>1, <3>2 DEF RowInThePast, Documents
  <2>4. CASE Check(t)
    <3>3. screen' = screen /\ doc' = doc
      BY <2>4 DEF Check
    <3>4. PICK x \in Requests : x.row = req[t].row /\ req' = [req EXCEPT ![t] = x]
      BY <2>4, CheckedRow
    <3> QED
      BY <3>3, <3>4 DEF RowInThePast
  <2> QED
    BY <2>1, <2>2, <2>3, <2>4
<1> QED
  BY <1>1, <1>2 DEF CurrentIsNewest, LockedStaysNewest, MergesIntoNewest, EnqueuedGenerates

\* A save: its number is new, so the pointer is written whatever was loaded.
LEMMA SaveStep ==
  ASSUME DocumentAssumption, IInv, NEW t \in Tabs, Save(t)
  PROVE  IInv'
<1> USE DEF IInv, TypeOK
<1> DEFINE r == req[t]
           number == Len(versions) + 1
           v == [status |-> "DRAFT", origin |-> "edit", basis |-> r.shown, job |-> NoJob]
           new == [r.row EXCEPT !.status = "DRAFT", !.current = number]
<1>1. r \in Requests /\ r.row \in Documents /\ Len(versions) \in Nat
  BY DEF Requests
<1>2. /\ versions' = Append(versions, v)
      /\ Flush(r.row, new)
      /\ Respond(t, number)
      /\ lock = NoJob
      /\ UNCHANGED <<jobs, lock, merged>>
  BY DEF Save, Committing, RowFree
<1>3. v \in Versions
  <2>1. r.shown \in Nat
    BY <1>1 DEF Requests
  <2> QED
    BY <2>1 DEF Versions, VersionStatus, Review
<1>4. new \in Documents
  <2>1. r.row \in Documents /\ number \in Nat
    BY <1>1
  <2> HIDE DEF number, r
  <2> QED
    BY <2>1 DEF Documents, Review
<1>5. doc' \in Documents
  BY <1>1, <1>2, <1>4, FlushType
<1>6. doc'.current = number
  BY <1>1, <1>2 DEF Flush, Written, RowInThePast, CurrentIsNewest, Documents
<1>7. screen' \in [Tabs -> Screens]
  BY <1>1, <1>2, ScreenType
<1>8. req' \in [Tabs -> Requests] /\ RowInThePast'
  <2>1. doc'.current >= doc.current
    BY <1>1, <1>6 DEF CurrentIsNewest
  <2> QED
    BY <1>2, <1>5, <2>1, EndOfRequest DEF Respond
<1>9. MergesIntoNewest'
  BY <1>2, <1>3, AppendType DEF MergesIntoNewest, DocumentAssumption
<1> QED
  BY <1>2, <1>3, <1>5, <1>6, <1>7, <1>8, <1>9, AppendType
     DEF CurrentIsNewest, LockedStaysNewest, EnqueuedGenerates

\* A request for a generation does not move the pointer.
LEMMA EnqueueStep ==
  ASSUME DocumentAssumption, IInv, NEW t \in Tabs, Enqueue(t)
  PROVE  IInv'
<1> USE DEF IInv, TypeOK
<1> DEFINE r == req[t]
           task == [state |-> "active", kind |-> r.op, number |-> r.row.version + 1,
                    current |-> IF r.op \in Sections THEN r.row.current ELSE 0]
           new == [r.row EXCEPT !.status = "DRAFT"]
<1>1. r \in Requests /\ r.row \in Documents
  BY DEF Requests
<1>2. PICK j \in Jobs : jobs' = [jobs EXCEPT ![j] = task]
  BY DEF Enqueue
<1>3. /\ Flush(r.row, new)
      /\ r.op \in Generations
      /\ lock = NoJob
      /\ req' = [req EXCEPT ![t] = Unsent]
      /\ UNCHANGED <<versions, lock, merged, screen>>
  BY DEF Enqueue, Committing, RowFree
<1>4. jobs' \in [Jobs -> Tasks]
  <2>1. r.row.version + 1 \in Nat /\ r.row.current \in Nat
    BY <1>1 DEF Documents
  <2>2. task \in Tasks
    BY <1>3, <2>1 DEF Tasks
  <2> QED
    BY <1>2, <2>2
<1>5. doc' \in Documents
  <2>1. new \in Documents
    BY <1>1 DEF Documents, Review
  <2> QED
    BY <1>1, <1>3, <2>1, FlushType
<1>6. doc'.current = doc.current
  BY <1>1, <1>3 DEF Flush, Written, Documents
<1>7. req' \in [Tabs -> Requests] /\ RowInThePast'
  <2>1. doc'.current >= doc.current
    BY <1>6 DEF Documents
  <2> QED
    BY <1>3, <1>5, <2>1, EndOfRequest
<1>8. EnqueuedGenerates'
  BY <1>2, <1>3 DEF EnqueuedGenerates, Tasks, DocumentAssumption
<1> QED
  BY <1>3, <1>4, <1>5, <1>6, <1>7, <1>8 DEF CurrentIsNewest, LockedStaysNewest, MergesIntoNewest

\* A review changes the status of versions, and nothing else of them.
LEMMA ReviewStep ==
  ASSUME DocumentAssumption, IInv, NEW t \in Tabs, ReviewVersion(t)
  PROVE  IInv'
<1> USE DEF IInv, TypeOK
<1> DEFINE r == req[t]
           target == Target(r.op)
           new == [r.row EXCEPT !.status = target,
                                !.approved = IF r.op = "approve" THEN r.row.current ELSE @]
           row(n) == IF n \in Retired(r) THEN [versions[n] EXCEPT !.status = "SUPERSEDED"]
                     ELSE IF n = r.row.current
                       THEN [versions[n] EXCEPT !.status = Written(@, r.found, target)]
                       ELSE versions[n]
<1>1. r \in Requests /\ r.row \in Documents /\ Len(versions) \in Nat
  BY DEF Requests
<1>2. /\ versions' = [n \in DOMAIN versions |-> row(n)]
      /\ Flush(r.row, new)
      /\ Respond(t, r.row.current)
      /\ r.op \in Reviews
      /\ UNCHANGED <<jobs, lock, merged>>
  BY DEF ReviewVersion
<1>3. target \in Review
  BY <1>2 DEF Target, Reviews, Review
<1>4. doc' \in Documents
  <2>1. new \in Documents
    BY <1>1, <1>3 DEF Documents
  <2> QED
    BY <1>1, <1>2, <2>1, FlushType
<1>5. doc'.current = doc.current
  BY <1>1, <1>2 DEF Flush, Written, Documents
<1>6. \A n \in DOMAIN versions :
        row(n) \in Versions /\ row(n).origin = versions[n].origin
                            /\ row(n).basis = versions[n].basis
  <2>1. ASSUME NEW n \in DOMAIN versions
        PROVE  /\ versions[n] \in Versions
               /\ \A s \in VersionStatus :
                    LET new_row == [versions[n] EXCEPT !.status = s] IN
                    /\ new_row \in Versions
                    /\ new_row.origin = versions[n].origin
                    /\ new_row.basis = versions[n].basis
    <3>1. versions[n] \in Versions
      BY <2>1
    <3> QED
      BY <3>1 DEF Versions
  <2>2. \A n \in DOMAIN versions :
          Written(versions[n].status, r.found, target) \in VersionStatus
    BY <1>3, <2>1 DEF Written, VersionStatus, Versions
  <2> QED
    BY <2>1, <2>2 DEF VersionStatus
<1>7. versions' \in Seq(Versions) /\ Len(versions') = Len(versions)
  <2>1. DOMAIN versions = 1 .. Len(versions)
    BY <1>1
  <2>2. versions' \in [1 .. Len(versions) -> Versions]
    BY <1>2, <1>6, <2>1
  <2> QED
    BY <1>1, <2>2, SeqDef
<1>8. req' \in [Tabs -> Requests] /\ screen' \in [Tabs -> Screens] /\ RowInThePast'
  <2>1. doc'.current >= doc.current /\ r.row.current \in Nat
    BY <1>1, <1>5 DEF Documents
  <2>2. screen' \in [Tabs -> Screens]
    BY <1>2, <2>1, ScreenType
  <2> QED
    BY <1>2, <1>4, <2>1, <2>2, EndOfRequest DEF Respond
<1>9. MergesIntoNewest'
  BY <1>2, <1>6 DEF MergesIntoNewest
<1> QED
  BY <1>2, <1>4, <1>5, <1>7, <1>8, <1>9
     DEF CurrentIsNewest, LockedStaysNewest, EnqueuedGenerates

\* The executor reads under the row lock what it merges into.
LEMMA StartStep ==
  ASSUME DocumentAssumption, IInv, NEW j \in Jobs, StartExecutor(j)
  PROVE  IInv'
<1> USE DEF IInv, TypeOK
<1>1. /\ lock' = j
      /\ merged' = IF jobs[j].kind \in Sections THEN doc.current ELSE 0
      /\ UNCHANGED <<doc, versions, jobs, req, screen>>
  BY DEF StartExecutor
<1>2. merged' \in Nat
  BY <1>1 DEF Documents
<1>3. jobs[j].state # "new"
  BY DEF StartExecutor
<1> QED
  BY <1>1, <1>2, <1>3 DEF CurrentIsNewest, RowInThePast, LockedStaysNewest, MergesIntoNewest,
                          EnqueuedGenerates

\* The draft lands right after the version it was merged into.
LEMMA LandStep ==
  ASSUME DocumentAssumption, IInv, NEW j \in Jobs, Land(j)
  PROVE  IInv'
<1> USE DEF IInv, TypeOK
<1> DEFINE v == [status |-> "DRAFT", origin |-> jobs[j].kind, basis |-> merged, job |-> j]
<1>1. /\ lock = j /\ lock' = NoJob /\ merged' = 0
      /\ versions' = Append(versions, v)
      /\ doc' = [doc EXCEPT !.current = Len(versions) + 1, !.version = @ + 1]
      /\ UNCHANGED <<jobs, req, screen>>
  BY DEF Land
<1>2. Len(versions) \in Nat /\ jobs[j] \in Tasks
  OBVIOUS
<1>3. doc' \in Documents /\ doc'.current = Len(versions) + 1
  <2>1. ASSUME NEW x \in Nat, NEW y \in Nat
        PROVE  LET moved == [doc EXCEPT !.current = x, !.version = y] IN
               moved \in Documents /\ moved.current = x
    BY DEF Documents
  <2>2. Len(versions) + 1 \in Nat /\ doc.version + 1 \in Nat
    BY <1>2 DEF Documents
  <2> QED
    BY <1>1, <2>1, <2>2
<1>4. RowInThePast'
  <2>1. \A t \in Tabs : req[t].row.current \in Nat
    BY DEF Requests, Documents
  <2> QED
    BY <1>1, <1>2, <1>3, <2>1 DEF RowInThePast, CurrentIsNewest
<1>5. v \in Versions
  <2>1. jobs[j].kind \in Generations
    BY <1>1 DEF EnqueuedGenerates, DocumentAssumption
  <2>2. merged \in Nat
    OBVIOUS
  <2> QED
    BY <2>1, <2>2 DEF Versions, VersionStatus, Review
<1>6. MergesIntoNewest'
  <2>1. jobs[j].kind \in Sections => merged = Len(versions)
    BY <1>1 DEF LockedStaysNewest, CurrentIsNewest, DocumentAssumption
  <2>2. /\ versions'[Len(versions) + 1] = v
        /\ \A n \in DOMAIN versions : versions'[n] = versions[n]
        /\ DOMAIN versions' = DOMAIN versions \cup {Len(versions) + 1}
    BY <1>1, <1>5, AppendType
  <2>3. v.origin = jobs[j].kind /\ v.basis = merged
    OBVIOUS
  <2> HIDE DEF v
  <2>4. ASSUME NEW n \in DOMAIN versions', versions'[n].origin \in Sections
        PROVE  versions'[n].basis = n - 1
    BY <1>2, <2>1, <2>2, <2>3, <2>4 DEF MergesIntoNewest
  <2> QED
    BY <2>4 DEF MergesIntoNewest
<1> QED
  BY <1>1, <1>3, <1>4, <1>5, <1>6, AppendType
     DEF CurrentIsNewest, LockedStaysNewest, EnqueuedGenerates

\* A task that fails or ends releases what it holds.
LEMMA EndStep ==
  ASSUME DocumentAssumption, IInv, NEW j \in Jobs, Abandon(j) \/ EndJob(j)
  PROVE  IInv'
<1> USE DEF IInv, TypeOK
<1>1. CASE Abandon(j)
  BY <1>1 DEF Abandon, CurrentIsNewest, RowInThePast, LockedStaysNewest, MergesIntoNewest,
              EnqueuedGenerates
<1>2. CASE EndJob(j)
  <2>1. /\ jobs[j].state = "active"
        /\ jobs' = [jobs EXCEPT ![j].state = "ended"]
        /\ UNCHANGED <<doc, versions, lock, merged, req, screen>>
    BY <1>2 DEF EndJob
  <2>2. \A i \in Jobs : jobs[i] \in Tasks
    OBVIOUS
  <2>3. \A i \in Jobs : jobs'[i] \in Tasks /\ jobs'[i].kind = jobs[i].kind
                        /\ (jobs'[i].state = "new" <=> jobs[i].state = "new")
    BY <2>1, <2>2 DEF Tasks
  <2>4. jobs' \in [Jobs -> Tasks]
    BY <2>1, <2>3
  <2> QED
    BY <2>1, <2>3, <2>4 DEF CurrentIsNewest, RowInThePast, LockedStaysNewest,
                            MergesIntoNewest, EnqueuedGenerates
<1> QED
  BY <1>1, <1>2

\* Every step preserves the invariant.
LEMMA InvStep == ASSUME DocumentAssumption, IInv, [Next]_vars PROVE IInv'
<1>1. CASE UNCHANGED vars
  BY <1>1 DEF vars, IInv, TypeOK, CurrentIsNewest, RowInThePast, LockedStaysNewest,
              MergesIntoNewest, EnqueuedGenerates
<1> QED
  BY <1>1, ReadStep, SaveStep, EnqueueStep, ReviewStep, StartStep, LandStep, EndStep DEF Next

\* IInv holds in every reachable state.
LEMMA Invariance == ASSUME DocumentAssumption PROVE Spec => []IInv
BY InvInit, InvStep, PTL DEF Spec
-----------------------------------------------------------------------------
\* Type correctness, for any number of tabs, tasks and versions.
THEOREM DocumentTypes == ASSUME DocumentAssumption PROVE Spec => []TypeOK
<1>1. IInv => TypeOK
  BY DEF IInv
<1> QED
  BY <1>1, Invariance, PTL

\* The document points at its newest version, although handlers write the pointer
\* without a lock, and no edit is lost to a regenerated section (phase2.py:456,
\* phase2_service.py:293-327).
THEOREM NoEditLost == ASSUME DocumentAssumption PROVE Spec => []HistoryIsLinear
<1>1. IInv => HistoryIsLinear
  BY DEF IInv, HistoryIsLinear
<1> QED
  BY <1>1, Invariance, PTL
-----------------------------------------------------------------------------
(* One tab: requests meet the executor, but not each other.                *)

OneTab == \E t : Tabs = {t}

\* The approved version is the one that the document names.
ApprovedIsNamed == \A n \in DOMAIN versions : versions[n].status = "APPROVED" => n = doc.approved

\* A superseded version is not the newest one, and the approved one is no newer.
SupersededIsOld ==
  /\ doc.approved <= doc.current
  /\ \A n \in DOMAIN versions : versions[n].status = "SUPERSEDED" => n # doc.current

\* The row that a request works on: nobody approved a version since, and its
\* version was not superseded.
RowIsCurrent ==
  \A t \in Tabs : req[t].stage # "idle" =>
    /\ req[t].row.approved = doc.approved
    /\ req[t].row.approved <= req[t].row.current
    /\ \A n \in DOMAIN versions : versions[n].status = "SUPERSEDED" => n # req[t].row.current

ReviewInv == ApprovedIsNamed /\ SupersededIsOld /\ RowIsCurrent

\* A request loads a row that is current, and the steps of the executor and of the
\* queue change neither the approved version nor a status.
LEMMA QuietStep ==
  ASSUME IInv, ReviewInv,
         \/ \E t \in Tabs : \/ Open(t) \/ Check(t) \/ Refuse(t)
                            \/ \E op \in Operations : Load(t, op)
         \/ \E j \in Jobs : StartExecutor(j) \/ Abandon(j) \/ EndJob(j)
  PROVE  ReviewInv' /\ versions' = versions
<1> USE DEF IInv, TypeOK
<1>1. doc' = doc /\ versions' = versions
  BY DEF Open, Check, Refuse, Load, StartExecutor, Abandon, EndJob
<1>2. RowIsCurrent'
  <2>1. ASSUME NEW t \in Tabs, NEW op \in Operations, Load(t, op)
        PROVE  RowIsCurrent'
    <3> DEFINE sent == [Unsent EXCEPT !.op = op, !.stage = "loaded", !.row = doc,
                                      !.shown = screen[t].current]
    <3>0. sent.row = doc
      BY UnsentType DEF Requests
    <3>1. req' = [req EXCEPT ![t] = sent]
      BY <2>1 DEF Load
    <3> HIDE DEF sent
    <3>2. /\ \A u \in Tabs \ {t} : req'[u] = req[u]
          /\ req'[t].row = doc
      BY <3>0, <3>1
    <3> QED
      BY <1>1, <3>2 DEF ReviewInv, RowIsCurrent, SupersededIsOld
  <2>2. ASSUME NEW t \in Tabs, Check(t)
        PROVE  RowIsCurrent'
    <3>1. PICK x \in Requests : x.row = req[t].row /\ req' = [req EXCEPT ![t] = x]
      BY <2>2, CheckedRow
    <3>2. /\ \A u \in Tabs : req'[u].row = req[u].row
          /\ \A u \in Tabs \ {t} : req'[u] = req[u]
          /\ req[t].stage # "idle"
      BY <2>2, <3>1 DEF Check
    <3> QED
      BY <1>1, <3>2 DEF ReviewInv, RowIsCurrent
  <2>3. ASSUME NEW t \in Tabs, Refuse(t)
        PROVE  RowIsCurrent'
    <3>1. \A u \in Tabs : req'[u] = req[u] \/ req'[u].stage = "idle"
      BY <2>3 DEF Refuse, Unsent
    <3> QED
      BY <1>1, <3>1 DEF ReviewInv, RowIsCurrent
  <2>4. CASE req' = req
    BY <1>1, <2>4 DEF ReviewInv, RowIsCurrent
  <2> QED
    BY <2>1, <2>2, <2>3, <2>4 DEF Open, StartExecutor, Abandon, EndJob
<1> QED
  BY <1>1, <1>2 DEF ReviewInv, ApprovedIsNamed, SupersededIsOld

\* A version that is added is a draft, and becomes the newest.
LEMMA NewVersion ==
  ASSUME IInv, ReviewInv, IInv', NEW v \in Versions, v.status = "DRAFT",
         versions' = Append(versions, v), doc'.approved = doc.approved,
         \A t \in Tabs : req'[t] = req[t] \/ req'[t].stage = "idle"
  PROVE  ReviewInv' /\ \A n \in DOMAIN versions : versions'[n] = versions[n]
<1> USE DEF IInv, TypeOK
<1>1. /\ versions'[Len(versions) + 1] = v
      /\ \A n \in DOMAIN versions : versions'[n] = versions[n]
      /\ DOMAIN versions' = DOMAIN versions \cup {Len(versions) + 1}
      /\ Len(versions') = Len(versions) + 1
  BY AppendType
<1>2. /\ Len(versions) \in Nat /\ DOMAIN versions = 1 .. Len(versions)
      /\ doc.current = Len(versions) /\ doc'.current = Len(versions) + 1
  BY <1>1 DEF CurrentIsNewest
<1>3. doc.approved \in Nat /\ \A t \in Tabs : req[t].row.current \in Nat
  BY DEF Documents, Requests
<1>4. ApprovedIsNamed' /\ SupersededIsOld'
  BY <1>1, <1>2, <1>3 DEF ReviewInv, ApprovedIsNamed, SupersededIsOld
<1>5. RowIsCurrent'
  BY <1>1, <1>2, <1>3 DEF ReviewInv, RowIsCurrent, RowInThePast
<1> QED
  BY <1>1, <1>4, <1>5 DEF ReviewInv

\* A review of the only tab: nobody approved a version since it loaded the row, so
\* the version it retires is the approved one, and an older one.
LEMMA ReviewKeeps ==
  ASSUME IInv, ReviewInv, IInv', NEW t \in Tabs, Tabs = {t}, ReviewVersion(t)
  PROVE  /\ ReviewInv'
         /\ \A n \in DOMAIN versions :
              versions[n].status = "SUPERSEDED" => versions'[n].status = "SUPERSEDED"
<1> USE DEF IInv, TypeOK
<1> DEFINE r == req[t]
           target == Target(r.op)
<1>1. /\ r.stage = "checked" /\ r.op \in Reviews
      /\ r \in Requests /\ r.row \in Documents
      /\ r.row.approved = doc.approved
      /\ r.row.approved <= r.row.current
      /\ \A n \in DOMAIN versions : versions[n].status = "SUPERSEDED" => n # r.row.current
      /\ r.row.current <= doc.current
  BY DEF ReviewVersion, Committing, ReviewInv, RowIsCurrent, RowInThePast, Requests
<1>2. /\ doc'.approved = IF r.op = "approve" THEN r.row.current ELSE doc.approved
      /\ doc'.current = doc.current
  BY <1>1 DEF ReviewVersion, Flush, Written, Documents
<1>3. target # "SUPERSEDED" /\ (target = "APPROVED" => r.op = "approve")
  BY <1>1 DEF Target, Reviews
<1>4. ASSUME NEW n \in DOMAIN versions
      PROVE  /\ n \in Retired(r) => versions'[n].status = "SUPERSEDED"
             /\ n \notin Retired(r) /\ n = r.row.current =>
                  versions'[n].status \in {versions[n].status, target}
             /\ n \notin Retired(r) /\ n # r.row.current =>
                  versions'[n].status = versions[n].status
  <2>1. versions[n] \in Versions
    OBVIOUS
  <2> QED
    BY <2>1 DEF ReviewVersion, Written, Versions
<1>5. DOMAIN versions' = DOMAIN versions
  BY DEF ReviewVersion
<1>6. Retired(r) = IF r.op = "approve" /\ doc.approved # r.row.current
                   THEN {doc.approved} ELSE {}
  BY <1>1 DEF Retired
<1>7. doc.approved \in Nat /\ doc.current \in Nat /\ r.row.current \in Nat
  BY <1>1 DEF Documents
<1>8. ApprovedIsNamed'
  BY <1>2, <1>3, <1>4, <1>5, <1>6 DEF ReviewInv, ApprovedIsNamed
<1>9. SupersededIsOld'
  <2>1. doc'.approved <= doc'.current /\ doc.approved <= doc.current
    BY <1>1, <1>2, <1>7 DEF ReviewInv, SupersededIsOld
  <2>2. ASSUME NEW n \in DOMAIN versions, versions'[n].status = "SUPERSEDED"
        PROVE  n \in Retired(r) \/ versions[n].status = "SUPERSEDED"
    BY <1>3, <1>4, <2>2
  <2>3. doc.current \notin Retired(r)
    BY <1>1, <1>6, <1>7
  <2> QED
    BY <1>2, <1>5, <2>1, <2>2, <2>3 DEF ReviewInv, SupersededIsOld
<1>10. RowIsCurrent'
  BY DEF ReviewVersion, Respond, Unsent, RowIsCurrent
<1>11. \A n \in DOMAIN versions :
         versions[n].status = "SUPERSEDED" => versions'[n].status = "SUPERSEDED"
  BY <1>1, <1>4
<1> QED
  BY <1>8, <1>9, <1>10, <1>11 DEF ReviewInv

\* With one tab every step keeps ReviewInv, and no step revives a superseded version.
LEMMA ReviewInvStep ==
  ASSUME DocumentAssumption, OneTab, IInv, ReviewInv, [Next]_vars
  PROVE  /\ ReviewInv'
         /\ \A n \in DOMAIN versions :
              versions[n].status = "SUPERSEDED" => versions'[n].status = "SUPERSEDED"
<1>0. IInv'
  BY InvStep
<1> USE DEF IInv, TypeOK
<1>1. CASE UNCHANGED vars
  BY <1>1 DEF vars, ReviewInv, ApprovedIsNamed, SupersededIsOld, RowIsCurrent
<1>2. ASSUME NEW t \in Tabs, Save(t)
      PROVE  ReviewInv' /\ \A n \in DOMAIN versions : versions'[n] = versions[n]
  <2> DEFINE v == [status |-> "DRAFT", origin |-> "edit", basis |-> req[t].shown, job |-> NoJob]
  <2>1. versions' = Append(versions, v) /\ req' = [req EXCEPT ![t] = Unsent]
    BY <1>2 DEF Save, Respond
  <2>2. v \in Versions /\ v.status = "DRAFT"
    <3>1. req[t].shown \in Nat
      BY DEF Requests
    <3> QED
      BY <3>1 DEF Versions, VersionStatus, Review
  <2>3. doc'.approved = doc.approved
    <3>1. req[t].row \in Documents
      BY DEF Requests
    <3> QED
      BY <1>2, <3>1 DEF Save, Flush, Written, Documents
  <2>4. \A u \in Tabs : req'[u] = req[u] \/ req'[u].stage = "idle"
    BY <2>1 DEF Unsent
  <2> HIDE DEF v
  <2> QED
    BY <1>0, <2>1, <2>2, <2>3, <2>4, NewVersion
<1>3. ASSUME NEW j \in Jobs, Land(j)
      PROVE  ReviewInv' /\ \A n \in DOMAIN versions : versions'[n] = versions[n]
  <2> DEFINE v == [status |-> "DRAFT", origin |-> jobs[j].kind, basis |-> merged, job |-> j]
  <2>1. versions' = Append(versions, v) /\ req' = req
    BY <1>3 DEF Land
  <2>2. v \in Versions /\ v.status = "DRAFT"
    <3>1. jobs[j].kind \in Generations
      BY <1>3 DEF Land, EnqueuedGenerates, DocumentAssumption
    <3>2. merged \in Nat
      OBVIOUS
    <3> QED
      BY <3>1, <3>2 DEF Versions, VersionStatus, Review
  <2>3. doc'.approved = doc.approved
    BY <1>3 DEF Land, Documents
  <2> HIDE DEF v
  <2> QED
    BY <1>0, <2>1, <2>2, <2>3, NewVersion
<1>4. ASSUME NEW t \in Tabs, Enqueue(t)
      PROVE  ReviewInv' /\ versions' = versions
  <2>1. req[t].row \in Documents
    BY DEF Requests
  <2>2. /\ versions' = versions
        /\ doc'.approved = doc.approved
        /\ doc'.current = doc.current
    BY <1>4, <2>1 DEF Enqueue, Flush, Written, Documents
  <2>3. \A u \in Tabs : req'[u] = req[u] \/ req'[u].stage = "idle"
    BY <1>4 DEF Enqueue, Unsent
  <2> QED
    BY <2>2, <2>3 DEF ReviewInv, ApprovedIsNamed, SupersededIsOld, RowIsCurrent
<1>5. ASSUME NEW t \in Tabs, ReviewVersion(t)
      PROVE  /\ ReviewInv'
             /\ \A n \in DOMAIN versions :
                  versions[n].status = "SUPERSEDED" => versions'[n].status = "SUPERSEDED"
  BY <1>0, <1>5, ReviewKeeps DEF OneTab
<1> HIDE DEF IInv, TypeOK
<1> QED
  BY <1>1, <1>2, <1>3, <1>4, <1>5, QuietStep DEF Next

\* ReviewInv holds in every reachable state.
LEMMA ReviewInvariance ==
  ASSUME DocumentAssumption, OneTab PROVE Spec => [](IInv /\ ReviewInv)
<1>1. Init => ReviewInv
  BY DEF Init, ReviewInv, ApprovedIsNamed, SupersededIsOld, RowIsCurrent, NoDocument, Unsent
<1> QED
  BY <1>1, InvInit, InvStep, ReviewInvStep, PTL DEF Spec

\* With one tab, however generations and edits are interleaved with reviews, at most
\* one version is approved (phase2.py:543-556).
THEOREM OneApproved ==
  ASSUME DocumentAssumption, OneTab PROVE Spec => []AtMostOneApproved
<1>1. ReviewInv => AtMostOneApproved
  BY DEF ReviewInv, ApprovedIsNamed, AtMostOneApproved
<1> QED
  BY <1>1, ReviewInvariance, PTL

\* With one tab, a superseded version stays superseded (docs/states.md:26).
THEOREM SupersededForGood ==
  ASSUME DocumentAssumption, OneTab PROVE Spec => SupersededIsFinal
<1>1. IInv /\ ReviewInv /\ [Next]_vars =>
        [\A n \in DOMAIN versions : versions[n].status = "SUPERSEDED" =>
                                      versions'[n].status = "SUPERSEDED"]_vars
  BY ReviewInvStep
<1> QED
  BY <1>1, ReviewInvariance, PTL DEF Spec, SupersededIsFinal
-----------------------------------------------------------------------------
\* What the only request has read is still so: no other tab changes a status, and the
\* executor changes none.
StatusAsRead ==
  \A t \in Tabs : req[t].stage # "idle" =>
    /\ req[t].row.status = doc.status
    /\ req[t].stage = "checked" /\ req[t].op \in Reviews =>
         /\ req[t].row.current \in DOMAIN versions
         /\ req[t].found = versions[req[t].row.current].status

BackedInv == StatusBacked /\ StatusAsRead

\* A draft that is added backs nothing, and takes nothing away from what is backed.
LEMMA DraftBacks ==
  ASSUME IInv, BackedInv, NEW v \in Versions, versions' = Append(versions, v),
         \/ doc'.status = doc.status /\ doc'.approved = doc.approved
         \/ doc'.status = "DRAFT",
         \A t \in Tabs : \/ req'[t] = req[t] /\ doc'.status = doc.status
                         \/ req'[t].stage = "idle"
  PROVE  BackedInv'
<1>1. /\ \A n \in DOMAIN versions : versions'[n] = versions[n]
      /\ DOMAIN versions' = DOMAIN versions \cup {Len(versions) + 1}
  BY AppendType DEF IInv, TypeOK
<1>2. StatusBacked'
  BY <1>1 DEF BackedInv, StatusBacked
<1>3. StatusAsRead'
  BY <1>1 DEF BackedInv, StatusAsRead
<1> QED
  BY <1>2, <1>3 DEF BackedInv

\* The verdict of the only tab lands on the document and on the version alike.
LEMMA VerdictBacks ==
  ASSUME IInv, ReviewInv, BackedInv, NEW t \in Tabs, Tabs = {t}, ReviewVersion(t)
  PROVE  BackedInv'
<1> USE DEF IInv, TypeOK
<1> DEFINE r == req[t]
           target == Target(r.op)
<1>1. /\ r.stage = "checked" /\ r.op \in Reviews
      /\ r \in Requests /\ r.row \in Documents /\ r.row.status = doc.status
      /\ r.row.approved = doc.approved
      /\ r.row.current \in DOMAIN versions /\ r.found = versions[r.row.current].status
  BY DEF ReviewVersion, Committing, ReviewInv, RowIsCurrent, BackedInv, StatusAsRead, Requests
<1>2. /\ doc'.approved = IF r.op = "approve" THEN r.row.current ELSE doc.approved
      /\ doc'.status = target
  BY <1>1 DEF ReviewVersion, Flush, Written, Documents
<1>3. DOMAIN versions' = DOMAIN versions /\ versions'[r.row.current].status = target
  <2>1. versions[r.row.current] \in Versions
    BY <1>1
  <2>2. r.row.current \notin Retired(r)
    BY <1>1 DEF Retired
  <2> QED
    BY <1>1, <2>1, <2>2 DEF ReviewVersion, Written, Versions
<1>4. target = "APPROVED" => r.op = "approve"
  BY <1>1 DEF Target, Reviews
<1>5. StatusBacked'
  BY <1>1, <1>2, <1>3, <1>4 DEF StatusBacked
<1>6. StatusAsRead'
  BY DEF ReviewVersion, Respond, Unsent, StatusAsRead
<1> QED
  BY <1>5, <1>6 DEF BackedInv

\* A request that reads finds the document and its version as they are.
LEMMA ReadsBacked ==
  ASSUME DocumentAssumption, IInv, BackedInv, [Next]_vars,
         ~(\E t \in Tabs : Save(t) \/ Enqueue(t) \/ ReviewVersion(t)), ~(\E j \in Jobs : Land(j))
  PROVE  BackedInv'
<1> USE DEF IInv, TypeOK
<1>1. doc' = doc /\ versions' = versions
  BY DEF Next, vars, Open, Check, Refuse, Load, StartExecutor, Abandon, EndJob
<1>2. StatusAsRead'
  <2>1. ASSUME NEW t \in Tabs, NEW op \in Operations, Load(t, op)
        PROVE  StatusAsRead'
    <3> DEFINE sent == [Unsent EXCEPT !.op = op, !.stage = "loaded", !.row = doc,
                                      !.shown = screen[t].current]
    <3>1. sent.row = doc /\ sent.stage = "loaded"
      BY UnsentType DEF Requests, Unsent
    <3>2. req' = [req EXCEPT ![t] = sent]
      BY <2>1 DEF Load
    <3> HIDE DEF sent
    <3>3. /\ \A u \in Tabs \ {t} : req'[u] = req[u]
          /\ req'[t].row = doc /\ req'[t].stage = "loaded"
      BY <3>1, <3>2
    <3> QED
      BY <1>1, <3>3 DEF BackedInv, StatusAsRead
  <2>2. ASSUME NEW t \in Tabs, Check(t)
        PROVE  StatusAsRead'
    <3>1. req[t] \in Requests /\ req[t].stage = "loaded"
      BY <2>2 DEF Check
    <3>2. /\ \A u \in Tabs \ {t} : req'[u] = req[u]
          /\ req'[t].row = req[t].row /\ req'[t].op = req[t].op
          /\ req[t].op \in Reviews => /\ req[t].row.current \in DOMAIN versions
                                      /\ req'[t].found = versions[req[t].row.current].status
      <4>1. Reviews \cap Generations = {} /\ "save" \notin Reviews
        BY DEF DocumentAssumption, Reviews, Generations
      <4>2. CASE req[t].op \in Reviews
        <5>1. /\ req' = [req EXCEPT ![t] = [req[t] EXCEPT !.stage = "checked",
                           !.found = versions[req[t].row.current].status]]
              /\ req[t].row.current \in DOMAIN versions
          BY <2>2, <4>1, <4>2 DEF Check
        <5> DEFINE found == versions[req[t].row.current].status
                   new == [req[t] EXCEPT !.stage = "checked", !.found = found]
        <5> HIDE DEF found
        <5>2. new.row = req[t].row /\ new.op = req[t].op /\ new.found = found
          BY <3>1 DEF Requests
        <5>3. req' = [req EXCEPT ![t] = new]
          BY <5>1 DEF found
        <5> HIDE DEF new
        <5> QED
          BY <5>1, <5>2, <5>3 DEF found
      <4>3. CASE req[t].op \notin Reviews
        <5>1. \/ req' = [req EXCEPT ![t] = [req[t] EXCEPT !.stage = "checked"]]
              \/ req' = [req EXCEPT ![t] = [req[t] EXCEPT !.stage = "checked",
                                                          !.newest = Len(versions)]]
          BY <2>2, <4>3 DEF Check
        <5> DEFINE begun == [req[t] EXCEPT !.stage = "checked"]
                   saved == [req[t] EXCEPT !.stage = "checked", !.newest = Len(versions)]
        <5>2. /\ begun.row = req[t].row /\ begun.op = req[t].op
              /\ saved.row = req[t].row /\ saved.op = req[t].op
          BY <3>1 DEF Requests
        <5>3. req' = [req EXCEPT ![t] = begun] \/ req' = [req EXCEPT ![t] = saved]
          BY <5>1
        <5> HIDE DEF begun, saved
        <5> QED
          BY <4>3, <5>2, <5>3
      <4> QED
        BY <4>2, <4>3
    <3> QED
      BY <1>1, <3>1, <3>2 DEF BackedInv, StatusAsRead
  <2>3. ASSUME NEW t \in Tabs, Refuse(t)
        PROVE  StatusAsRead'
    <3>1. \A u \in Tabs : req'[u] = req[u] \/ req'[u].stage = "idle"
      BY <2>3 DEF Refuse, Unsent
    <3> QED
      BY <1>1, <3>1 DEF BackedInv, StatusAsRead
  <2>4. CASE req' = req
    BY <1>1, <2>4 DEF BackedInv, StatusAsRead
  <2> QED
    BY <2>1, <2>2, <2>3, <2>4 DEF Next, vars, Open, StartExecutor, Abandon, EndJob
<1> QED
  BY <1>1, <1>2 DEF BackedInv, StatusBacked

\* With one tab every step keeps what the document says of its review backed.
LEMMA BackedStep ==
  ASSUME DocumentAssumption, OneTab, IInv, ReviewInv, BackedInv, [Next]_vars
  PROVE  BackedInv'
<1> USE DEF IInv, TypeOK
<1>1. ASSUME NEW t \in Tabs, Save(t) PROVE BackedInv'
  <2> DEFINE v == [status |-> "DRAFT", origin |-> "edit", basis |-> req[t].shown, job |-> NoJob]
  <2>1. versions' = Append(versions, v) /\ req' = [req EXCEPT ![t] = Unsent]
    BY <1>1 DEF Save, Respond
  <2>2. v \in Versions
    <3>1. req[t].shown \in Nat
      BY DEF Requests
    <3> QED
      BY <3>1 DEF Versions, VersionStatus, Review
  <2>3. req[t] \in Requests /\ req[t].row \in Documents /\ req[t].row.status = doc.status
    BY <1>1 DEF Save, Committing, Requests, BackedInv, StatusAsRead
  <2>4. doc'.status = "DRAFT"
    BY <1>1, <2>3 DEF Save, Flush, Written, Documents
  <2>5. \A u \in Tabs : req'[u].stage = "idle"
    BY <2>1 DEF OneTab, Unsent
  <2> HIDE DEF v
  <2> QED
    BY <2>1, <2>2, <2>4, <2>5, DraftBacks
<1>2. ASSUME NEW t \in Tabs, Enqueue(t) PROVE BackedInv'
  <2>1. versions' = versions /\ req' = [req EXCEPT ![t] = Unsent]
    BY <1>2 DEF Enqueue
  <2>2. req[t] \in Requests /\ req[t].row \in Documents /\ req[t].row.status = doc.status
    BY <1>2 DEF Enqueue, Committing, Requests, BackedInv, StatusAsRead
  <2>3. doc'.status = "DRAFT"
    BY <1>2, <2>2 DEF Enqueue, Flush, Written, Documents
  <2>4. \A u \in Tabs : req'[u].stage = "idle"
    BY <2>1 DEF OneTab, Unsent
  <2> QED
    BY <2>3, <2>4 DEF BackedInv, StatusBacked, StatusAsRead
<1>3. ASSUME NEW j \in Jobs, Land(j) PROVE BackedInv'
  <2> DEFINE v == [status |-> "DRAFT", origin |-> jobs[j].kind, basis |-> merged, job |-> j]
  <2>1. versions' = Append(versions, v) /\ req' = req
    BY <1>3 DEF Land
  <2>2. v \in Versions
    <3>1. jobs[j].kind \in Generations
      BY <1>3 DEF Land, EnqueuedGenerates, DocumentAssumption
    <3>2. merged \in Nat
      OBVIOUS
    <3> QED
      BY <3>1, <3>2 DEF Versions, VersionStatus, Review
  <2>3. doc'.status = doc.status /\ doc'.approved = doc.approved
    BY <1>3 DEF Land, Documents
  <2> HIDE DEF v
  <2> QED
    BY <2>1, <2>2, <2>3, DraftBacks
<1>4. ASSUME NEW t \in Tabs, ReviewVersion(t) PROVE BackedInv'
  BY <1>4, VerdictBacks DEF OneTab
<1> HIDE DEF IInv, TypeOK
<1> QED
  BY <1>1, <1>2, <1>3, <1>4, ReadsBacked

\* With one tab, what the document says of its review is said by a version too, although
\* the two tables are written by different sets of operations (phase2.py:375, 508, 540-541).
THEOREM StatusAlwaysBacked ==
  ASSUME DocumentAssumption, OneTab PROVE Spec => []StatusBacked
<1>1. Init => BackedInv
  BY DEF Init, BackedInv, StatusBacked, StatusAsRead, NoDocument, Unsent
<1>2. IInv /\ ReviewInv /\ BackedInv /\ [Next]_vars => BackedInv'
  BY BackedStep
<1>3. BackedInv => StatusBacked
  BY DEF BackedInv
<1> QED
  BY <1>1, <1>2, <1>3, ReviewInvariance, PTL DEF Spec
=============================================================================
