----------------------------- MODULE FilesProofs -----------------------------
(***************************************************************************)
(* What holds of stored files.  First of the files of an account, for any  *)
(* number of uploads, documents and overlapping purges: the types, that    *)
(* uploads, exports and purges implement FileStore, so that a row names an *)
(* object that is there, that nothing strays and that the quota is kept.   *)
(* Then of backups and restores, for any set of files and any number of    *)
(* backups: complete backups, complete served data, and what a restore     *)
(* returns.  The tool only relies on FileStore, whose variables are those  *)
(* of an abstract account of its own: the two do not share any.            *)
(***************************************************************************)
EXTENDS AccountFiles, BackupRestore, Sums, TLAPS

\* An upload that is not over has a key that nothing else knows.
UploadsAreNew ==
  \A k \in Uploads : requests[k] # "over" =>
    k \notin rows /\ \A p \in Purgers : k \notin purges[p].keys \cup purges[p].left

\* What a request has stored is there, but for an export overtaken by a purge.
StoredIsThere ==
  \A k \in Keys : requests[k] = "stored" =>
    k \in objects \/ (k \in Documents /\ (Leaving \/ ~account.there))

\* A purge that has closed the account finds it leaving, or gone by another purge, and it
\* is leaving as long as its row is locked for the deletion.
PurgesLeaving ==
  \A p \in Purgers :
    /\ purges[p].stage = "closed" => Leaving \/ ~account.there
    /\ purges[p].stage = "deleting" => Leaving

OneDeletes ==
  \A p, q \in Purgers : purges[p].stage = "deleting" /\ purges[q].stage = "deleting" => p = q

\* An upload that holds the users row finds the account, and no purge deletes it meanwhile.
LockHolders ==
  \A k \in Uploads : requests[k] \in {"locked", "stored"} => account.there /\ ~Deleting

\* The invariant that the theorems rest on.
IInv == TypeOK /\ UploadsAreNew /\ StoredIsThere /\ PurgesLeaving /\ OneDeletes /\ LockHolders
-----------------------------------------------------------------------------
\* A step towards FileStore: one of its actions or none.
Kept == Store!StoreNext \/ UNCHANGED Store!data

\* How a request moves.
LEMMA MovesOn ==
  ASSUME TypeOK, NEW k \in Keys, NEW stage \in Stages, Moves(k, stage)
  PROVE  /\ requests' \in [Keys -> Stages]
         /\ requests'[k] = stage
         /\ \A l \in Keys : l # k => requests'[l] = requests[l]
BY DEF TypeOK, Moves

\* How a request ends.
LEMMA EndsAsOver ==
  ASSUME TypeOK, NEW k \in Keys, Ends(k)
  PROVE  /\ requests' \in [Keys -> Stages]
         /\ requests'[k] = IF k \in Uploads THEN "over" ELSE "idle"
         /\ \A l \in Keys : l # k => requests'[l] = requests[l]
BY DEF TypeOK, Ends, Moves, Stages

\* How a purge moves.
LEMMA PurgeMoves ==
  ASSUME TypeOK, NEW p \in Purgers, NEW row \in PurgeRows, Steps(p, row)
  PROVE  /\ purges' \in [Purgers -> PurgeRows]
         /\ purges'[p] = row
         /\ \A q \in Purgers : q # p => purges'[q] = purges[q]
BY DEF TypeOK, Steps

\* Leaving looks at the account and at what raced with it.
LEMMA LeavingKept ==
  ASSUME account' = account, history'.raced = history.raced
  PROVE  Leaving' <=> Leaving
BY DEF Leaving

\* The history keeps its type, and a request does not race.
LEMMA HistoryOfFiles ==
  ASSUME TypeOK, NEW S \in SUBSET Keys
  PROVE  /\ [history EXCEPT !.excused = S] \in HistoryRows
         /\ [history EXCEPT !.excused = S].raced = history.raced
         /\ history.excused \subseteq Keys
BY DEF TypeOK, HistoryRows

\* A step of a request leaves the account and the purges alone.
RequestStep(k) ==
  /\ account' = account /\ purges' = purges /\ cancelling' = cancelling
  /\ history' \in HistoryRows /\ history'.raced = history.raced
  /\ requests' \in [Keys -> Stages]
  /\ \A l \in Keys : l # k => requests'[l] = requests[l]

\* What such a step may do to files and rows, and to its own request.
FilesMove(k) ==
  /\ rows' \subseteq Keys /\ objects' \subseteq Keys /\ (~account.there => rows' = {})
  /\ k \in Uploads /\ requests'[k] # "over" => requests[k] # "over" /\ k \notin rows'
  /\ \A l \in Keys : l # k => (l \in rows' <=> l \in rows) /\ (l \in objects' <=> l \in objects)
  /\ requests'[k] = "stored" => k \in objects'
  /\ k \in Uploads /\ requests'[k] \in {"locked", "stored"} =>
       requests[k] \in {"locked", "stored"} \/ (account.there /\ ~Deleting)

\* A step of that kind keeps the invariant.
LEMMA RequestKeeps ==
  ASSUME IInv, NEW k \in Keys, RequestStep(k), FilesMove(k)
  PROVE  IInv'
<1> USE DEF FilesMove
<1>1. TypeOK'
  BY DEF IInv, TypeOK, RequestStep
<1>2. UploadsAreNew'
  BY DEF IInv, UploadsAreNew, RequestStep, Keys
<1>3. Leaving' <=> Leaving
  BY LeavingKept DEF RequestStep
<1>4. StoredIsThere'
  BY <1>3 DEF IInv, StoredIsThere, RequestStep
<1>5. PurgesLeaving' /\ OneDeletes'
  BY <1>3 DEF IInv, PurgesLeaving, OneDeletes, RequestStep
<1>6. LockHolders'
  BY DEF IInv, LockHolders, RequestStep, Deleting, Keys
<1> QED
  BY <1>1, <1>2, <1>4, <1>5, <1>6 DEF IInv

\* Uploads and exports keep the invariant and the promise.
LEMMA FileKeeps ==
  ASSUME IInv, NEW k \in Keys, FileStep(k)
  PROVE  IInv' /\ Kept
<1>0. /\ TypeOK /\ UploadsAreNew /\ StoredIsThere /\ LockHolders
      /\ rows \subseteq Keys /\ objects \subseteq Keys /\ history \in HistoryRows
      /\ requests \in [Keys -> Stages] /\ (~account.there => rows = {})
  BY DEF IInv, TypeOK
<1>1. ASSUME StartRequest(k) PROVE IInv' /\ Kept
  <2>1. RequestStep(k) /\ requests'[k] = "read" /\ requests[k] = "idle"
    BY <1>0, <1>1, MovesOn DEF StartRequest, RequestStep, Stages
  <2>2. UNCHANGED <<rows, objects>> /\ (Leaving' <=> Leaving)
    BY <1>1, <2>1, LeavingKept DEF StartRequest, RequestStep
  <2>3. IInv'
    <3>1. FilesMove(k)
      BY <1>0, <2>1, <2>2 DEF FilesMove, UploadsAreNew
    <3> QED
      BY <3>1, <2>1, RequestKeeps
  <2> QED
    BY <2>2, <2>3 DEF Kept, Store!data, Leaving
<1>2. ASSUME EnsureCapacity(k) PROVE IInv' /\ Kept
  <2> DEFINE next == IF LocksAccount /\ Used + SizeOf[k] <= Quota THEN "locked" ELSE "over"
  <2>1. Moves(k, next) /\ requests[k] = "read"
    BY <1>2 DEF EnsureCapacity
  <2>2. next \in Stages /\ next # "stored" /\ (next = "locked" => account.there)
    BY DEF Stages, LocksAccount
  <2> HIDE DEF next
  <2>3. RequestStep(k) /\ requests'[k] = next
    BY <1>0, <1>2, <2>1, <2>2, MovesOn DEF EnsureCapacity, RequestStep
  <2>4. UNCHANGED <<rows, objects>> /\ (Leaving' <=> Leaving)
    BY <1>2, <2>3, LeavingKept DEF EnsureCapacity, RequestStep
  <2>5. requests'[k] = "locked" => account.there /\ ~Deleting
    BY <1>2, <2>2, <2>3 DEF EnsureCapacity, QuotaReadable, Free
  <2>6. IInv'
    <3>1. FilesMove(k)
      BY <1>0, <2>1, <2>2, <2>3, <2>4, <2>5 DEF FilesMove, UploadsAreNew
    <3> QED
      BY <3>1, <2>3, RequestKeeps
  <2> QED
    BY <2>4, <2>6 DEF Kept, Store!data, Leaving
<1>3. ASSUME SaveObject(k) PROVE IInv' /\ Kept
  <2>1. history' \in HistoryRows /\ history'.raced = history.raced
    BY <1>0, <1>3, HistoryOfFiles DEF SaveObject, Noted
  <2>2. RequestStep(k) /\ requests[k] # "over" /\ (k \in Uploads => requests[k] = "locked")
    BY <1>0, <1>3, <2>1, MovesOn DEF SaveObject, RequestStep, Stages
  <2>3. rows' = rows /\ objects' = objects \cup {k} /\ (Leaving' <=> Leaving)
    BY <1>3, <2>1, LeavingKept DEF SaveObject
  <2>4. IInv'
    <3>1. FilesMove(k)
      BY <1>0, <2>2, <2>3 DEF FilesMove, UploadsAreNew
    <3> QED
      BY <3>1, <2>2, RequestKeeps
  <2>5. Store!Put(k)
    BY <2>3 DEF Store!Put, Leaving
  <2> QED
    BY <2>4, <2>5 DEF Kept, Store!StoreNext
<1>4. ASSUME NEW partly \in BOOLEAN, SaveFails(k, partly) PROVE IInv' /\ Kept
  <2>1. history' \in HistoryRows /\ history'.raced = history.raced
    BY <1>0, <1>4, HistoryOfFiles DEF SaveFails
  <2>2. /\ RequestStep(k) /\ requests[k] # "over"
        /\ requests'[k] = IF k \in Uploads THEN "over" ELSE "idle"
    BY <1>0, <1>4, <2>1, EndsAsOver DEF SaveFails, RequestStep
  <2>3. rows' = rows /\ objects' \in {objects, objects \cup {k}} /\ (Leaving' <=> Leaving)
    BY <1>4, <2>1, LeavingKept DEF SaveFails
  <2>4. IInv'
    <3>1. FilesMove(k)
      BY <1>0, <2>2, <2>3 DEF FilesMove, UploadsAreNew
    <3> QED
      BY <3>1, <2>2, RequestKeeps
  <2>5. Store!Put(k) \/ UNCHANGED Store!data
    BY <2>3 DEF Store!Put, Store!data, Leaving
  <2> QED
    BY <2>4, <2>5 DEF Kept, Store!StoreNext
<1>5. ASSUME CommitUpload(k) PROVE IInv' /\ Kept
  <2>1. history' \in HistoryRows /\ history'.raced = history.raced
    BY <1>0, <1>5, HistoryOfFiles DEF CommitUpload, Noted
  <2>2. RequestStep(k) /\ requests[k] = "stored" /\ requests'[k] = "over"
    BY <1>0, <1>5, <2>1, EndsAsOver DEF CommitUpload, RequestStep
  <2>3. rows' = rows \cup {k} /\ objects' = objects /\ (Leaving' <=> Leaving)
    BY <1>5, <2>1, LeavingKept DEF CommitUpload
  <2>4. account.there
    BY <1>0, <1>5, <2>2 DEF CommitUpload, LockHolders
  <2>5. IInv'
    <3>1. FilesMove(k)
      BY <1>0, <2>2, <2>3, <2>4 DEF FilesMove
    <3> QED
      BY <3>1, <2>2, RequestKeeps
  <2>6. k \in objects
    BY <1>0, <1>5, <2>2, FilesAssumption DEF CommitUpload, StoredIsThere, FilesAssumption
  <2>7. Store!Name(k)
    BY <2>3, <2>6 DEF Store!Name, Leaving
  <2> QED
    BY <2>5, <2>7 DEF Kept, Store!StoreNext
<1>6. ASSUME UploadFails(k) PROVE IInv' /\ Kept
  <2>1. history' \in HistoryRows /\ history'.raced = history.raced
    BY <1>0, <1>6, HistoryOfFiles DEF UploadFails
  <2>2. RequestStep(k) /\ requests[k] = "stored" /\ requests'[k] = "over"
    BY <1>0, <1>6, <2>1, EndsAsOver DEF UploadFails, RequestStep
  <2>3. rows' = rows /\ objects' = objects \ {k} /\ (Leaving' <=> Leaving)
    BY <1>6, <2>1, LeavingKept DEF UploadFails
  <2>4. IInv'
    <3>1. FilesMove(k)
      BY <1>0, <2>2, <2>3 DEF FilesMove
    <3> QED
      BY <3>1, <2>2, RequestKeeps
  <2>5. k \notin rows
    BY <1>0, <1>6, <2>2 DEF UploadFails, UploadsAreNew
  <2>6. Store!Discard(k)
    BY <2>3, <2>5 DEF Store!Discard, Leaving
  <2> QED
    BY <2>4, <2>6 DEF Kept, Store!StoreNext
<1>7. ASSUME CommitExport(k) PROVE IInv' /\ Kept
  <2>1. history' \in HistoryRows /\ history'.raced = history.raced
    BY <1>0, <1>7, HistoryOfFiles DEF CommitExport
  <2>2. /\ RequestStep(k) /\ requests[k] = "stored" /\ requests'[k] = "idle"
        /\ k \in Documents /\ k \notin Uploads
    BY <1>0, <1>7, <2>1, EndsAsOver, FilesAssumption DEF CommitExport, RequestStep, FilesAssumption
  <2>3. /\ rows' = IF account.there THEN rows \cup {k} ELSE rows
        /\ objects' = objects /\ (Leaving' <=> Leaving)
    BY <1>7, <2>1, LeavingKept DEF CommitExport
  <2>4. IInv'
    <3>1. FilesMove(k)
      BY <1>0, <2>2, <2>3 DEF FilesMove
    <3> QED
      BY <3>1, <2>2, RequestKeeps
  <2>5. CASE account.there
    <3>1. Store!Name(k)
      BY <1>0, <2>2, <2>3, <2>5 DEF Store!Name, StoredIsThere, Leaving
    <3> QED
      BY <2>4, <3>1 DEF Kept, Store!StoreNext
  <2>6. CASE ~account.there
    BY <2>3, <2>4, <2>6 DEF Kept, Store!data, Leaving
  <2> QED
    BY <2>5, <2>6
<1>8. ASSUME Dies(k) PROVE IInv' /\ Kept
  <2>1. history' \in HistoryRows /\ history'.raced = history.raced
    BY <1>0, <1>8, HistoryOfFiles DEF Dies
  <2>2. /\ RequestStep(k) /\ requests[k] # "over"
        /\ requests'[k] = IF k \in Uploads THEN "over" ELSE "idle"
    BY <1>0, <1>8, <2>1, EndsAsOver DEF Dies, RequestStep
  <2>3. UNCHANGED <<rows, objects>> /\ (Leaving' <=> Leaving)
    BY <1>8, <2>1, LeavingKept DEF Dies
  <2>4. IInv'
    <3>1. FilesMove(k)
      BY <1>0, <2>2, <2>3 DEF FilesMove
    <3> QED
      BY <3>1, <2>2, RequestKeeps
  <2> QED
    BY <2>3, <2>4 DEF Kept, Store!data, Leaving
<1> QED
  BY <1>1, <1>2, <1>3, <1>4, <1>5, <1>6, <1>7, <1>8 DEF FileStep
-----------------------------------------------------------------------------
\* What is done to the account, short of the purge, leaves it there, leaving if it was
\* leaving, and with its files.
LEMMA AccountMoves ==
  ASSUME TypeOK, AccountStep
  PROVE  /\ TypeOK' /\ account'.there = account.there /\ (Leaving => Leaving')
         /\ UNCHANGED <<rows, objects, requests, purges>>
<1>0. account \in AccountRows /\ history \in HistoryRows
  BY DEF TypeOK
<1> DEFINE Goal == /\ account' \in AccountRows /\ history' \in HistoryRows
                   /\ cancelling' \in BOOLEAN
                   /\ (~account'.there => ~account'.active)
                   /\ account'.there = account.there /\ (Leaving => Leaving')
                   /\ UNCHANGED <<rows, objects, requests, purges>>
<1> SUFFICES Goal
  BY DEF TypeOK
<1>1. CASE BindLesson
  BY <1>0, <1>1 DEF BindLesson, AccountRows, Leaving, TypeOK
<1>2. CASE RequestDeletion
  <2>1. history' \in HistoryRows /\ history'.raced = history.raced
    BY <1>0, <1>2 DEF RequestDeletion, HistoryRows
  <2> QED
    BY <1>0, <1>2, <2>1 DEF RequestDeletion, AccountRows, Leaving, TypeOK
<1>3. CASE GracePasses
  BY <1>0, <1>3 DEF GracePasses, AccountRows, Leaving, TypeOK
<1>4. CASE StartCancel
  BY <1>0, <1>4 DEF StartCancel, Leaving, TypeOK
<1>5. CASE CommitCancel
  <2>1. history' \in HistoryRows /\ history'.raced = (history.raced \/ ~account.active)
    BY <1>0, <1>5 DEF CommitCancel, HistoryRows, AccountRows
  <2>2. account' \in AccountRows /\ account'.there = account.there
        /\ account'.active = account.active
    BY <1>0, <1>5 DEF CommitCancel, AccountRows
  <2> QED
    BY <1>0, <1>5, <2>1, <2>2 DEF CommitCancel, Leaving, TypeOK
<1>6. ASSUME NEW active \in BOOLEAN, SetActive(active) PROVE Goal
  BY <1>0, <1>6 DEF SetActive, AccountRows, Leaving, TypeOK
<1> QED
  BY <1>1, <1>2, <1>3, <1>4, <1>5, <1>6 DEF AccountStep

\* The account keeps the invariant and the promise.
LEMMA AccountKeeps ==
  ASSUME IInv, AccountStep
  PROVE  IInv' /\ Kept
<1>1. /\ TypeOK' /\ account'.there = account.there /\ (Leaving => Leaving')
      /\ rows' = rows /\ objects' = objects /\ requests' = requests /\ purges' = purges
  BY AccountMoves DEF IInv
<1>2. UploadsAreNew' /\ StoredIsThere' /\ PurgesLeaving' /\ OneDeletes' /\ LockHolders'
  BY <1>1 DEF IInv, UploadsAreNew, StoredIsThere, PurgesLeaving, OneDeletes, LockHolders, Deleting
<1>3. CASE Leaving' <=> Leaving
  BY <1>1, <1>2, <1>3 DEF IInv, Kept, Store!data, Leaving
<1>4. CASE ~(Leaving' <=> Leaving)
  <2>1. Store!Close
    BY <1>1, <1>4 DEF Store!Close, Leaving
  <2> QED
    BY <1>1, <1>2, <2>1 DEF IInv, Kept, Store!StoreNext
<1> QED
  BY <1>3, <1>4
-----------------------------------------------------------------------------
\* A purge that is not at work.
LEMMA RestingPurge ==
  ASSUME NEW stage \in {"idle", "failed", "listed"}
  PROVE  /\ [NoPurge EXCEPT !.stage = stage] \in PurgeRows
         /\ [NoPurge EXCEPT !.stage = stage].stage = stage
         /\ [NoPurge EXCEPT !.stage = stage].keys = {}
         /\ [NoPurge EXCEPT !.stage = stage].left = {}
BY DEF NoPurge, PurgeRows

\* A purge that moves to a stage in which it promises nothing changes nothing else.
LEMMA PurgeRests ==
  ASSUME IInv, NEW p \in Purgers, NEW stage \in {"idle", "failed", "listed"},
         Steps(p, [NoPurge EXCEPT !.stage = stage]),
         UNCHANGED <<account, rows, objects, requests, cancelling, history>>
  PROVE  IInv' /\ Kept
<1> DEFINE row == [NoPurge EXCEPT !.stage = stage]
<1>1. row \in PurgeRows /\ row.stage = stage /\ row.keys = {} /\ row.left = {}
  BY RestingPurge
<1> HIDE DEF row
<1>2. TypeOK
  BY DEF IInv
<1>3. /\ purges' \in [Purgers -> PurgeRows] /\ purges'[p] = row
      /\ \A q \in Purgers : q # p => purges'[q] = purges[q]
  BY <1>1, <1>2, PurgeMoves DEF row
<1>4. TypeOK'
  BY <1>2, <1>3 DEF TypeOK
<1>5. UploadsAreNew' /\ PurgesLeaving' /\ OneDeletes'
  BY <1>1, <1>3 DEF IInv, UploadsAreNew, PurgesLeaving, OneDeletes, Leaving
<1>6. StoredIsThere' /\ LockHolders'
  BY <1>1, <1>3 DEF IInv, StoredIsThere, LockHolders, Deleting, Leaving
<1> QED
  BY <1>4, <1>5, <1>6 DEF IInv, Kept, Store!data, Leaving

\* NoPurge is at rest.
LEMMA NoPurgeRests == NoPurge = [NoPurge EXCEPT !.stage = "idle"]
BY DEF NoPurge

\* The purge keeps the invariant and the promise.
LEMMA PurgeKeeps ==
  ASSUME IInv, NEW p \in Purgers, PurgeStep(p) \/ PurgeFails(p)
  PROVE  IInv' /\ Kept
<1>0. /\ TypeOK /\ UploadsAreNew /\ StoredIsThere /\ PurgesLeaving /\ OneDeletes /\ LockHolders
      /\ account \in AccountRows /\ history \in HistoryRows /\ rows \subseteq Keys
      /\ objects \subseteq Keys /\ purges[p] \in PurgeRows
  BY DEF IInv, TypeOK
<1>1. CASE ListDueAccounts(p)
  BY <1>1, PurgeRests DEF ListDueAccounts
<1>2. CASE PurgeFails(p)
  BY <1>2, PurgeRests DEF PurgeFails
<1>3. CASE CloseAccount(p)
  <2>1. CASE account.there /\ account.due # "none"
    <3> DEFINE row == [NoPurge EXCEPT !.stage = "closed", !.keys = OwnedObjectKeys]
    <3>1. row \in PurgeRows /\ row.stage = "closed" /\ row.keys = rows /\ row.left = {}
      BY <1>0 DEF NoPurge, PurgeRows, OwnedObjectKeys
    <3>2. Steps(p, row) /\ account' = Closed
      BY <1>3, <2>1 DEF CloseAccount
    <3> HIDE DEF row
    <3>3. /\ purges' \in [Purgers -> PurgeRows] /\ purges'[p] = row
          /\ \A q \in Purgers : q # p => purges'[q] = purges[q]
      BY <1>0, <3>1, <3>2, PurgeMoves
    <3>4. /\ account' \in AccountRows /\ account'.there /\ account'.due # "none"
          /\ ~account'.active
      BY <1>0, <2>1, <3>2 DEF Closed, AccountRows
    <3>5. UNCHANGED <<rows, objects, requests, cancelling, history>>
      BY <1>3 DEF CloseAccount
    <3>6. Leaving'
      BY <3>4 DEF Leaving
    <3>7. TypeOK'
      BY <1>0, <3>3, <3>4, <3>5 DEF TypeOK
    <3>8. UploadsAreNew' /\ StoredIsThere' /\ PurgesLeaving' /\ OneDeletes' /\ LockHolders'
      BY <1>0, <2>1, <3>1, <3>3, <3>4, <3>5, <3>6
      DEF UploadsAreNew, StoredIsThere, PurgesLeaving, OneDeletes, LockHolders, Deleting
    <3>9. Store!Close \/ UNCHANGED Store!data
      BY <3>5, <3>6 DEF Store!Close, Store!data, Leaving
    <3> QED
      BY <3>7, <3>8, <3>9 DEF IInv, Kept, Store!StoreNext
  <2>2. CASE ~(account.there /\ account.due # "none")
    BY <1>3, <2>2, NoPurgeRests, PurgeRests DEF CloseAccount
  <2> QED
    BY <2>1, <2>2
<1>4. CASE DeleteRows(p)
  <2>1. CASE account.there /\ account.due # "none" /\ ~account.bound
    <3> DEFINE row == [purges[p] EXCEPT !.stage = "deleting", !.left = purges[p].keys]
    <3>1. /\ row \in PurgeRows /\ row.stage = "deleting" /\ row.keys = purges[p].keys
          /\ row.left = purges[p].keys
      BY <1>0 DEF PurgeRows
    <3>2. Steps(p, row)
      BY <1>4, <2>1 DEF DeleteRows
    <3> HIDE DEF row
    <3>3. /\ purges' \in [Purgers -> PurgeRows] /\ purges'[p] = row
          /\ \A q \in Purgers : q # p => purges'[q] = purges[q]
      BY <1>0, <3>1, <3>2, PurgeMoves
    <3>4. UNCHANGED <<account, rows, objects, requests, cancelling, history>> /\ Free
      BY <1>4 DEF DeleteRows
    <3>5. Leaving /\ (Leaving' <=> Leaving)
      BY <1>0, <1>4, <2>1, <3>4, LeavingKept DEF DeleteRows, PurgesLeaving
    <3>6. TypeOK'
      BY <1>0, <3>3, <3>4 DEF TypeOK
    <3>7. UploadsAreNew' /\ StoredIsThere' /\ PurgesLeaving' /\ OneDeletes'
      BY <1>0, <3>1, <3>3, <3>4, <3>5
      DEF UploadsAreNew, StoredIsThere, PurgesLeaving, OneDeletes, Free, Deleting
    <3>8. LockHolders'
      BY <3>4 DEF LockHolders, Free
    <3> QED
      BY <3>4, <3>5, <3>6, <3>7, <3>8 DEF IInv, Kept, Store!data, Leaving
  <2>2. CASE ~(account.there /\ account.due # "none" /\ ~account.bound)
    BY <1>4, <2>2, NoPurgeRests, PurgeRests DEF DeleteRows
  <2> QED
    BY <2>1, <2>2
<1>5. ASSUME NEW k \in Keys, DeleteObject(p, k) PROVE IInv' /\ Kept
  <2> DEFINE row == [purges[p] EXCEPT !.left = @ \ {k}]
  <2>1. /\ row \in PurgeRows /\ row.stage = purges[p].stage /\ row.keys = purges[p].keys
        /\ row.left \subseteq purges[p].left
    BY <1>0 DEF PurgeRows
  <2>2. Steps(p, row)
    BY <1>5 DEF DeleteObject
  <2> HIDE DEF row
  <2>3. /\ purges' \in [Purgers -> PurgeRows] /\ purges'[p] = row
        /\ \A q \in Purgers : q # p => purges'[q] = purges[q]
    BY <1>0, <2>1, <2>2, PurgeMoves
  <2>4. /\ account' = account /\ rows' = rows /\ requests' = requests /\ cancelling' = cancelling
        /\ objects' = objects \ {k} /\ k \in purges[p].left /\ purges[p].stage = "deleting"
    BY <1>5 DEF DeleteObject
  <2>5. history' \in HistoryRows /\ history'.raced = history.raced
    BY <1>0, <1>5, HistoryOfFiles DEF DeleteObject
  <2>6. Leaving /\ (Leaving' <=> Leaving)
    BY <1>0, <2>4, <2>5, LeavingKept DEF PurgesLeaving
  <2>7. TypeOK'
    BY <1>0, <2>3, <2>4, <2>5 DEF TypeOK
  <2>8. UploadsAreNew' /\ PurgesLeaving' /\ OneDeletes' /\ LockHolders'
    BY <1>0, <2>1, <2>3, <2>4, <2>6
    DEF UploadsAreNew, PurgesLeaving, OneDeletes, LockHolders, Deleting
  <2>9. StoredIsThere'
    BY <1>0, <2>4, <2>6 DEF StoredIsThere, UploadsAreNew, Keys
  <2>10. Store!Discard(k)
    BY <2>4, <2>6 DEF Store!Discard, Leaving
  <2> QED
    BY <2>7, <2>8, <2>9, <2>10 DEF IInv, Kept, Store!StoreNext
<1>6. CASE CommitPurge(p)
  <2>1. NoPurge \in PurgeRows /\ NoPurge.stage = "idle" /\ NoPurge.keys = {} /\ NoPurge.left = {}
    BY DEF NoPurge, PurgeRows
  <2>2. /\ purges' \in [Purgers -> PurgeRows] /\ purges'[p] = NoPurge
        /\ \A q \in Purgers : q # p => purges'[q] = purges[q]
    BY <1>0, <1>6, <2>1, PurgeMoves DEF CommitPurge
  <2>3. account' \in AccountRows /\ ~account'.there /\ ~account'.active /\ account'.due = "none"
    BY <1>6 DEF CommitPurge, AccountRows
  <2>4. /\ rows' = {} /\ objects' = objects /\ requests' = requests /\ cancelling' = cancelling
        /\ purges[p].stage = "deleting"
    BY <1>6 DEF CommitPurge
  <2>5. history' \in HistoryRows /\ ~history'.raced
    BY <1>0, <1>6 DEF CommitPurge, HistoryRows
  <2>6. Leaving /\ ~Leaving'
    BY <1>0, <2>3, <2>4, <2>5 DEF PurgesLeaving, Leaving
  <2>7. TypeOK'
    BY <1>0, <2>2, <2>3, <2>4, <2>5 DEF TypeOK
  <2>8. UploadsAreNew' /\ OneDeletes'
    BY <1>0, <2>1, <2>2, <2>4 DEF UploadsAreNew, OneDeletes
  <2>9. StoredIsThere'
    BY <1>0, <2>3, <2>4, <2>6 DEF StoredIsThere
  <2>10. PurgesLeaving'
    BY <1>0, <2>1, <2>2, <2>3, <2>4 DEF PurgesLeaving, OneDeletes
  <2>11. LockHolders'
    BY <1>0, <2>4 DEF LockHolders, Deleting
  <2>12. Store!Drop
    BY <2>4, <2>6 DEF Store!Drop, Leaving
  <2> QED
    BY <2>7, <2>8, <2>9, <2>10, <2>11, <2>12 DEF IInv, Kept, Store!StoreNext
<1> QED
  BY <1>1, <1>2, <1>3, <1>4, <1>5, <1>6 DEF PurgeStep
-----------------------------------------------------------------------------
\* The invariant holds at the start, which is a start of FileStore.
LEMMA InvInit == Init => IInv /\ Store!StoreInit
<1> SUFFICES ASSUME Init PROVE IInv /\ Store!StoreInit
  OBVIOUS
<1>1. TypeOK
  BY DEF Init, TypeOK, AccountRows, HistoryRows, PurgeRows, NoPurge, Stages
<1>2. UploadsAreNew /\ StoredIsThere /\ PurgesLeaving /\ OneDeletes /\ LockHolders
  BY DEF Init, UploadsAreNew, StoredIsThere, PurgesLeaving, OneDeletes, LockHolders, Deleting,
    NoPurge, Keys
<1>3. Store!StoreInit
  BY DEF Init, Store!StoreInit, Leaving
<1> QED
  BY <1>1, <1>2, <1>3 DEF IInv

\* Every step keeps the invariant and is one of FileStore, or none.
LEMMA InvStep ==
  ASSUME IInv, [Next]_vars
  PROVE  IInv' /\ Kept
<1>1. CASE UNCHANGED vars
  <2>1. TypeOK' /\ UploadsAreNew' /\ OneDeletes' /\ LockHolders'
    BY <1>1 DEF IInv, vars, TypeOK, UploadsAreNew, OneDeletes, LockHolders, Deleting
  <2>2. StoredIsThere' /\ PurgesLeaving'
    BY <1>1 DEF IInv, vars, StoredIsThere, PurgesLeaving, Leaving
  <2> QED
    BY <1>1, <2>1, <2>2 DEF IInv, vars, Kept, Store!data, Leaving
<1>2. CASE Next
  BY <1>2, FileKeeps, AccountKeeps, PurgeKeeps DEF Next
<1> QED
  BY <1>1, <1>2

\* The invariant holds in every reachable state.
LEMMA Invariance == Spec => []IInv
<1>1. IInv /\ [Next]_vars => IInv'
  BY InvStep
<1> QED
  BY <1>1, InvInit, PTL DEF Spec
-----------------------------------------------------------------------------
\* Every reachable state has the declared types, and rows go with their account.
THEOREM FileTypes == Spec => []TypeOK
<1>1. IInv => TypeOK
  BY DEF IInv
<1> QED
  BY <1>1, Invariance, PTL

\* Uploads, exports and purges, overlapping and failing at any step, implement FileStore:
\* files are there before the rows that name them and go when the account is leaving.
THEOREM FilesImplementStore == Spec => ImplementsFileStore
<1>1. IInv /\ [Next]_vars => [Store!StoreNext]_(Store!data)
  BY InvStep DEF Kept
<1> QED
  BY <1>1, InvInit, Invariance, PTL DEF Spec, ImplementsFileStore, Store!StoreSpec

\* So a row names an object that is there, for any number of uploads, documents and
\* purges, unless the account is closed and on its way out, or a late cancellation
\* brought it back.
THEOREM RowsHaveObjects == Spec => []Store!RowHasObject
<1>1. Store!StoreInit => Store!RowHasObject
  BY DEF Store!StoreInit, Store!RowHasObject, Store!Complete
<1>2. Store!RowHasObject /\ [Store!StoreNext]_(Store!data) => Store!RowHasObject'
  BY DEF Store!RowHasObject, Store!Complete, Store!StoreNext, Store!data, Store!Put, Store!Name,
    Store!Discard, Store!Close, Store!Drop
<1> QED
  BY <1>1, <1>2, FilesImplementStore, PTL DEF ImplementsFileStore, Store!StoreSpec
-----------------------------------------------------------------------------
\* A purge that has the account in its list found it due, and so it still is unless its
\* deletion was cancelled, asked for anew, or carried out by another purge.
PurgesDue ==
  \A p \in Purgers :
    /\ Running(p) => account.due # "pending" \/ history.renewed \/ ~account.there
    /\ purges[p].stage = "deleting" => account.there /\ account.due # "none"

\* Requests leave alone what PurgesDue looks at.
LEMMA FilesKeepDue ==
  ASSUME IInv, PurgesDue, NEW k \in Keys, FileStep(k)
  PROVE  PurgesDue' /\ account' = account
<1>1. history \in HistoryRows
  BY DEF IInv, TypeOK
<1>2. \A S : [history EXCEPT !.excused = S].renewed = history.renewed
  BY <1>1 DEF HistoryRows
<1>3. account' = account /\ purges' = purges /\ history'.renewed = history.renewed
  BY <1>2 DEF FileStep, StartRequest, EnsureCapacity, SaveObject, SaveFails, CommitUpload,
    UploadFails, CommitExport, Dies, Noted
<1> QED
  BY <1>3 DEF PurgesDue, Running

\* The account keeps PurgesDue: a new request notes the purges that are at work.
LEMMA AccountKeepsDue ==
  ASSUME IInv, PurgesDue, AccountStep
  PROVE  PurgesDue' /\ account'.there = account.there
<1>0. account \in AccountRows /\ history \in HistoryRows
  BY DEF IInv, TypeOK
<1>1. CASE BindLesson
  BY <1>0, <1>1 DEF BindLesson, AccountRows, PurgesDue, Running
<1>2. CASE RequestDeletion
  <2>1. /\ account'.there = account.there /\ account'.due = "pending" /\ purges' = purges
        /\ ~Deleting
    BY <1>0, <1>2 DEF RequestDeletion, AccountRows, Free
  <2>2. (\E p \in Purgers : Running(p)) => history'.renewed
    BY <1>0, <1>2 DEF RequestDeletion, HistoryRows
  <2> QED
    BY <2>1, <2>2 DEF PurgesDue, Running, Deleting
<1>3. CASE GracePasses
  BY <1>0, <1>3 DEF GracePasses, AccountRows, PurgesDue, Running
<1>4. CASE StartCancel
  BY <1>4 DEF StartCancel, PurgesDue, Running
<1>5. CASE CommitCancel
  <2>1. /\ account'.there = account.there /\ account'.due \in {account.due, "none"}
        /\ purges' = purges /\ history'.renewed = history.renewed /\ ~Deleting
    BY <1>0, <1>5 DEF CommitCancel, AccountRows, HistoryRows, Free
  <2> QED
    BY <2>1 DEF PurgesDue, Running, Deleting
<1>6. ASSUME NEW active \in BOOLEAN, SetActive(active)
      PROVE  PurgesDue' /\ account'.there = account.there
  BY <1>0, <1>6 DEF SetActive, AccountRows, PurgesDue, Running
<1> QED
  BY <1>1, <1>2, <1>3, <1>4, <1>5, <1>6 DEF AccountStep

\* The purges keep PurgesDue, and only the commit of one takes the account away.
LEMMA PurgeKeepsDue ==
  ASSUME IInv, PurgesDue, NEW p \in Purgers, PurgeStep(p) \/ PurgeFails(p)
  PROVE  /\ PurgesDue'
         /\ account.there /\ ~account'.there => purges[p].stage = "deleting"
<1>0. /\ TypeOK /\ account \in AccountRows /\ history \in HistoryRows
      /\ purges[p] \in PurgeRows
  BY DEF IInv, TypeOK
<1>1. ASSUME NEW row \in PurgeRows, Steps(p, row)
      PROVE  purges'[p] = row /\ \A q \in Purgers : q # p => purges'[q] = purges[q]
  BY <1>0, <1>1, PurgeMoves
<1>2. CASE ListDueAccounts(p)
  <2>1. purges'[p].stage = "listed" /\ \A q \in Purgers : q # p => purges'[q] = purges[q]
    BY <1>1, <1>2, RestingPurge DEF ListDueAccounts
  <2> QED
    BY <1>2, <2>1 DEF ListDueAccounts, IsDue, PurgesDue, Running
<1>3. CASE PurgeFails(p)
  <2>1. purges'[p].stage = "failed" /\ \A q \in Purgers : q # p => purges'[q] = purges[q]
    BY <1>1, <1>3, RestingPurge DEF PurgeFails
  <2> QED
    BY <1>3, <2>1 DEF PurgeFails, PurgesDue, Running
<1>4. CASE CloseAccount(p)
  <2>1. NoPurge \in PurgeRows /\ NoPurge.stage = "idle"
    BY NoPurgeRests, RestingPurge
  <2>2. LET row == [NoPurge EXCEPT !.stage = "closed", !.keys = OwnedObjectKeys]
        IN  row \in PurgeRows /\ row.stage = "closed"
    BY <1>0 DEF NoPurge, PurgeRows, OwnedObjectKeys, TypeOK
  <2>3. /\ purges'[p].stage \in {"closed", "idle"}
        /\ \A q \in Purgers : q # p => purges'[q] = purges[q]
    BY <1>1, <1>4, <2>1, <2>2 DEF CloseAccount
  <2>4. account'.there = account.there /\ account'.due = account.due /\ history' = history
    BY <1>0, <1>4 DEF CloseAccount, Closed, AccountRows
  <2> QED
    BY <1>4, <2>3, <2>4 DEF CloseAccount, PurgesDue, Running
<1>5. CASE DeleteRows(p)
  <2>1. NoPurge \in PurgeRows /\ NoPurge.stage = "idle"
    BY NoPurgeRests, RestingPurge
  <2>2. LET row == [purges[p] EXCEPT !.stage = "deleting", !.left = purges[p].keys]
        IN  row \in PurgeRows /\ row.stage = "deleting"
    BY <1>0 DEF PurgeRows
  <2>3. /\ purges'[p].stage = "deleting" => account.there /\ account.due # "none"
        /\ purges'[p].stage \in {"deleting", "idle"}
        /\ \A q \in Purgers : q # p => purges'[q] = purges[q]
    BY <1>1, <1>5, <2>1, <2>2 DEF DeleteRows
  <2> QED
    BY <1>5, <2>3 DEF DeleteRows, PurgesDue, Running
<1>6. ASSUME NEW k \in Keys, DeleteObject(p, k)
      PROVE  PurgesDue' /\ account' = account
  <2>1. LET row == [purges[p] EXCEPT !.left = @ \ {k}]
        IN  row \in PurgeRows /\ row.stage = purges[p].stage
    BY <1>0 DEF PurgeRows
  <2>2. purges'[p].stage = purges[p].stage /\ \A q \in Purgers : q # p => purges'[q] = purges[q]
    BY <1>1, <1>6, <2>1 DEF DeleteObject
  <2>3. account' = account /\ history'.renewed = history.renewed
    BY <1>0, <1>6 DEF DeleteObject, HistoryRows
  <2> QED
    BY <2>2, <2>3 DEF PurgesDue, Running
<1>7. CASE CommitPurge(p)
  <2>1. NoPurge \in PurgeRows /\ NoPurge.stage = "idle"
    BY NoPurgeRests, RestingPurge
  <2>2. /\ purges'[p].stage = "idle" /\ \A q \in Purgers : q # p => purges'[q] = purges[q]
        /\ ~account'.there /\ purges[p].stage = "deleting"
    BY <1>1, <1>7, <2>1 DEF CommitPurge
  <2> QED
    BY <2>2 DEF PurgesDue, Running, IInv, OneDeletes
<1> QED
  BY <1>2, <1>3, <1>4, <1>5, <1>6, <1>7 DEF PurgeStep

\* The account is only ever purged while its deletion is requested and it is closed, and
\* after the period of grace, but for a late cancellation and for a request made anew
\* under a purge (account_deletion.py:55-69, 96-97).
THEOREM PurgedOnlyOnRequest == Spec => PurgedOnRequest
<1> DEFINE Asked == account.there /\ ~account'.there =>
                      /\ ~account.active \/ history.raced
                      /\ account.due = "due" \/ (account.due = "pending" /\ history.renewed)
<1>1. Init => PurgesDue
  BY DEF Init, PurgesDue, Running, NoPurge
<1>2. ASSUME IInv, PurgesDue, Next PROVE PurgesDue' /\ Asked
  <2>1. ASSUME NEW k \in Keys, FileStep(k) PROVE PurgesDue' /\ Asked
    BY <1>2, <2>1, FilesKeepDue
  <2>2. CASE AccountStep
    BY <1>2, <2>2, AccountKeepsDue
  <2>3. ASSUME NEW p \in Purgers, PurgeStep(p) \/ PurgeFails(p) PROVE PurgesDue' /\ Asked
    <3>1. PurgesDue' /\ (account.there /\ ~account'.there => purges[p].stage = "deleting")
      BY <1>2, <2>3, PurgeKeepsDue
    <3>2. purges[p].stage = "deleting" =>
            /\ Leaving /\ account.due # "none"
            /\ account.due # "pending" \/ history.renewed \/ ~account.there
      BY <1>2 DEF IInv, PurgesLeaving, PurgesDue, Running
    <3>3. account.due \in {"none", "pending", "due"}
      BY <1>2 DEF IInv, TypeOK, AccountRows
    <3> QED
      BY <3>1, <3>2, <3>3 DEF Leaving
  <2> QED
    BY <1>2, <2>1, <2>2, <2>3 DEF Next
<1>3. IInv /\ PurgesDue /\ [Next]_vars => PurgesDue' /\ [Asked]_vars
  <2>1. ASSUME PurgesDue, UNCHANGED vars PROVE PurgesDue'
    BY <2>1 DEF vars, PurgesDue, Running
  <2> QED
    BY <1>2, <2>1
<1> HIDE DEF Asked
<1>4. Spec => [][Asked]_vars
  BY <1>1, <1>3, Invariance, PTL DEF Spec
<1> QED
  BY <1>4 DEF Asked, PurgedOnRequest
-----------------------------------------------------------------------------
\* A purge knows every file that rows name, but for those stored or named since it made
\* its list, and has still to delete those that are there.
PurgesCover ==
  \A p \in Purgers : \A k \in rows \cap objects :
    /\ purges[p].stage = "closed" => k \in purges[p].keys \/ k \in history.excused
    /\ purges[p].stage = "deleting" => k \in purges[p].left \/ k \in history.excused

StrayInv == NoStrayObjects /\ PurgesCover

\* A request notes what it leaves behind, and what a purge at work cannot know.
LEMMA FilesLeaveNone ==
  ASSUME IInv, StrayInv, NEW k \in Keys, FileStep(k)
  PROVE  StrayInv'
<1>0. /\ TypeOK /\ requests \in [Keys -> Stages] /\ history \in HistoryRows
      /\ objects \subseteq Keys
  BY DEF IInv, TypeOK
<1>1. \A S : [history EXCEPT !.excused = S].excused = S
  BY <1>0 DEF HistoryRows
<1>2. purges' = purges
  BY DEF FileStep, StartRequest, EnsureCapacity, SaveObject, SaveFails, CommitUpload,
    UploadFails, CommitExport, Dies
<1>3. \A l \in Keys : l # k => requests'[l] = requests[l]
  BY <1>0 DEF FileStep, StartRequest, EnsureCapacity, SaveObject, SaveFails, CommitUpload,
    UploadFails, CommitExport, Dies, Ends, Moves
<1>4. UnderPurge <=> \E p \in Purgers : purges[p].stage \in {"closed", "deleting"}
  BY DEF UnderPurge
<1> USE DEF StrayInv, NoStrayObjects, PurgesCover
<1>5. CASE StartRequest(k) \/ EnsureCapacity(k)
  BY <1>0, <1>2, <1>3, <1>5 DEF StartRequest, EnsureCapacity
<1>6. CASE SaveObject(k)
  <2>1. requests'[k] = "stored"
    BY <1>0, <1>6 DEF SaveObject, Moves
  <2>2. /\ objects' = objects \cup {k} /\ rows' = rows
        /\ history'.excused = IF UnderPurge THEN history.excused \cup {k} ELSE history.excused
    BY <1>1, <1>6 DEF SaveObject, Noted
  <2> QED
    BY <1>2, <1>3, <1>4, <2>1, <2>2, <1>0
<1>7. ASSUME NEW partly \in BOOLEAN, SaveFails(k, partly) PROVE StrayInv'
  <2>1. requests[k] # "stored"
    BY <1>7 DEF SaveFails
  <2>2. /\ rows' = rows
        /\ \/ objects' = objects /\ history' = history
           \/ objects' = objects \cup {k} /\ history'.excused = history.excused \cup {k}
    BY <1>1, <1>7 DEF SaveFails
  <2> QED
    BY <1>0, <1>2, <1>3, <2>1, <2>2
<1>8. CASE CommitUpload(k)
  <2>1. /\ objects' = objects /\ rows' = rows \cup {k}
        /\ history'.excused = IF UnderPurge THEN history.excused \cup {k} ELSE history.excused
    BY <1>1, <1>8 DEF CommitUpload, Noted
  <2> QED
    BY <1>0, <1>2, <1>3, <1>4, <2>1
<1>9. CASE UploadFails(k)
  <2>1. /\ objects' = objects \ {k} /\ rows' = rows
        /\ history'.excused = history.excused \ {k}
    BY <1>1, <1>9 DEF UploadFails
  <2> QED
    BY <1>0, <1>2, <1>3, <2>1
<1>10. CASE CommitExport(k)
  <2>1. /\ objects' = objects /\ rows' = IF account.there THEN rows \cup {k} ELSE rows
        /\ history'.excused = IF UnderPurge \/ ~account.there THEN history.excused \cup {k}
                                                             ELSE history.excused
    BY <1>1, <1>10 DEF CommitExport
  <2> QED
    BY <1>0, <1>2, <1>3, <1>4, <2>1
<1>11. CASE Dies(k)
  <2>1. /\ objects' = objects /\ rows' = rows
        /\ history'.excused = IF requests[k] = "stored" THEN history.excused \cup {k}
                                                        ELSE history.excused
    BY <1>1, <1>11 DEF Dies
  <2> QED
    BY <1>0, <1>2, <1>3, <2>1
<1> QED
  BY <1>5, <1>6, <1>7, <1>8, <1>9, <1>10, <1>11 DEF FileStep

\* A purge that commits has deleted every file that it knew.
LEMMA PurgesLeaveNone ==
  ASSUME IInv, StrayInv, NEW p \in Purgers, PurgeStep(p) \/ PurgeFails(p)
  PROVE  StrayInv'
<1>0. /\ TypeOK /\ history \in HistoryRows /\ purges[p] \in PurgeRows
      /\ objects \subseteq Keys /\ rows \subseteq Keys
  BY DEF IInv, TypeOK
<1>1. ASSUME NEW row \in PurgeRows, Steps(p, row)
      PROVE  purges'[p] = row /\ \A q \in Purgers : q # p => purges'[q] = purges[q]
  BY <1>0, <1>1, PurgeMoves
<1>2. /\ requests' = requests
      /\ \A S : [history EXCEPT !.excused = S].excused = S
  BY <1>0 DEF PurgeStep, ListDueAccounts, CloseAccount, DeleteRows, DeleteObject, CommitPurge,
    PurgeFails, HistoryRows
<1>3. NoPurge \in PurgeRows /\ NoPurge.stage = "idle"
  BY NoPurgeRests, RestingPurge
<1> USE DEF StrayInv, NoStrayObjects, PurgesCover
<1>4. CASE ListDueAccounts(p) \/ PurgeFails(p)
  <2>1. /\ purges'[p].stage \in {"listed", "failed"}
        /\ \A q \in Purgers : q # p => purges'[q] = purges[q]
    BY <1>1, <1>4, RestingPurge DEF ListDueAccounts, PurgeFails
  <2> QED
    BY <1>2, <1>4, <2>1 DEF ListDueAccounts, PurgeFails
<1>5. CASE CloseAccount(p)
  <2>1. LET row == [NoPurge EXCEPT !.stage = "closed", !.keys = OwnedObjectKeys]
        IN  row \in PurgeRows /\ row.stage = "closed" /\ row.keys = rows
    BY <1>0 DEF NoPurge, PurgeRows, OwnedObjectKeys
  <2>2. /\ purges'[p].stage = "idle" \/ (purges'[p].stage = "closed" /\ purges'[p].keys = rows)
        /\ \A q \in Purgers : q # p => purges'[q] = purges[q]
    BY <1>1, <1>3, <1>5, <2>1 DEF CloseAccount
  <2> QED
    BY <1>2, <1>5, <2>2 DEF CloseAccount
<1>6. CASE DeleteRows(p)
  <2>1. LET row == [purges[p] EXCEPT !.stage = "deleting", !.left = purges[p].keys]
        IN  row \in PurgeRows /\ row.stage = "deleting" /\ row.left = purges[p].keys
    BY <1>0 DEF PurgeRows
  <2>2. /\ \/ purges'[p].stage = "idle"
           \/ purges'[p].stage = "deleting" /\ purges'[p].left = purges[p].keys
        /\ \A q \in Purgers : q # p => purges'[q] = purges[q]
    BY <1>1, <1>3, <1>6, <2>1 DEF DeleteRows
  <2> QED
    BY <1>2, <1>6, <2>2 DEF DeleteRows
<1>7. ASSUME NEW k \in Keys, DeleteObject(p, k) PROVE StrayInv'
  <2>1. LET row == [purges[p] EXCEPT !.left = @ \ {k}]
        IN  /\ row \in PurgeRows /\ row.stage = "deleting"
            /\ row.left = purges[p].left \ {k}
    BY <1>0, <1>7 DEF PurgeRows, DeleteObject
  <2>2. /\ purges'[p].stage = "deleting" /\ purges'[p].left = purges[p].left \ {k}
        /\ \A q \in Purgers : q # p => purges'[q] = purges[q]
    BY <1>1, <1>7, <2>1 DEF DeleteObject
  <2>3. /\ objects' = objects \ {k} /\ rows' = rows
        /\ history'.excused = history.excused \ {k} /\ purges[p].stage = "deleting"
    BY <1>2, <1>7 DEF DeleteObject
  <2> QED
    BY <1>2, <2>2, <2>3
<1>8. CASE CommitPurge(p)
  <2>1. /\ rows' = {} /\ objects' = objects /\ history'.excused = history.excused
        /\ purges[p].stage = "deleting" /\ purges[p].left = {}
    BY <1>0, <1>8 DEF CommitPurge, HistoryRows
  <2> QED
    BY <1>2, <2>1
<1> QED
  BY <1>4, <1>5, <1>6, <1>7, <1>8 DEF PurgeStep

\* Whatever fails and however purges overlap, an object that no row names is about to be
\* named, or was left by a process that died or a request that overlapped a purge
\* (account_deletion.py:32-44, phase7.py:228-231).
THEOREM NothingStrays == Spec => []NoStrayObjects
<1>1. Init => StrayInv
  BY DEF Init, StrayInv, NoStrayObjects, PurgesCover
<1>2. IInv /\ StrayInv /\ [Next]_vars => StrayInv'
  <2> SUFFICES ASSUME IInv, StrayInv, [Next]_vars PROVE StrayInv'
    OBVIOUS
  <2>1. CASE AccountStep
    <3>1. UNCHANGED <<rows, objects, requests, purges>> /\ history'.excused = history.excused
      BY <2>1, AccountMoves DEF IInv, TypeOK, HistoryRows, AccountStep, BindLesson,
        RequestDeletion, GracePasses, StartCancel, CommitCancel, SetActive
    <3> QED
      BY <3>1 DEF StrayInv, NoStrayObjects, PurgesCover
  <2>2. CASE UNCHANGED vars
    BY <2>2 DEF vars, StrayInv, NoStrayObjects, PurgesCover
  <2> QED
    BY <2>1, <2>2, FilesLeaveNone, PurgesLeaveNone DEF Next
<1>3. StrayInv => NoStrayObjects
  BY DEF StrayInv
<1> QED
  BY <1>1, <1>2, <1>3, Invariance, PTL DEF Spec
-----------------------------------------------------------------------------
\* An upload that has looked at the quota and still holds the users row.
HasRoom(k) == k \in Uploads /\ requests[k] \in {"locked", "stored"}

\* The bytes of a set of uploads.
Bytes(S) == SumOver(SizeOf, S)

\* What is used is counted over finitely many rows, and the only upload that has looked at
\* the quota has the room that it saw.
QuotaInv ==
  /\ IsFiniteSet(rows \cap Uploads)
  /\ QuotaKept
  /\ \A k \in Uploads : HasRoom(k) =>
       Used + SizeOf[k] <= Quota /\ \A j \in Uploads : HasRoom(j) => j = k

\* What a finite set of uploads takes, and one more.
LEMMA BytesAdded ==
  ASSUME NEW S, IsFiniteSet(S), S \subseteq Uploads, NEW k \in Uploads \ S
  PROVE  /\ IsFiniteSet(S \cup {k})
         /\ Bytes(S) \in Int /\ SizeOf[k] \in Int
         /\ Bytes(S \cup {k}) = SizeOf[k] + Bytes(S)
<1>1. \A i \in S \cup {k} : SizeOf[i] \in Int
  BY FilesAssumption
<1> QED
  BY <1>1, SumOverAdded, FS_AddElement DEF Bytes

\* What is used before and after a step, as sums over the rows.
LEMMA UsedIsBytes ==
  /\ Used = Bytes(rows \cap Uploads)
  /\ Used' = Bytes(rows' \cap Uploads)
<1>1. Used = Bytes(rows \cap Uploads)
  BY DEF Used, Bytes, SumOver
<1>2. Used' = Bytes(rows' \cap Uploads)
  BY DEF Used, Bytes, SumOver, MapThenSumSet, MapThenFoldSet
<1> QED
  BY <1>1, <1>2

\* Rows that stay take the same room, and who held the users row may still hold it.
LEMMA RoomStays ==
  ASSUME QuotaInv, rows' \cap Uploads = rows \cap Uploads,
         \A k \in Uploads : HasRoom(k)' => HasRoom(k)
  PROVE  QuotaInv'
<1>1. Used' = Used
  BY UsedIsBytes
<1> QED
  BY <1>1 DEF QuotaInv, QuotaKept

\* An upload that looks at the quota is the only one to hold the row, and sees its room.
LEMMA RoomIsSeen ==
  ASSUME IInv, QuotaInv, NEW k \in Keys, EnsureCapacity(k)
  PROVE  QuotaInv'
<1>1. CASE Used + SizeOf[k] <= Quota
  <2>1. \A j \in Uploads : ~HasRoom(j) /\ (HasRoom(j)' => j = k)
    BY DEF IInv, TypeOK, Keys, EnsureCapacity, QuotaReadable, Free, Moves, HasRoom
  <2>2. Used' = Used /\ rows' = rows
    BY UsedIsBytes DEF EnsureCapacity
  <2> QED
    BY <1>1, <2>1, <2>2 DEF QuotaInv, QuotaKept
<1>2. CASE ~(Used + SizeOf[k] <= Quota)
  <2>1. rows' = rows /\ \A j \in Uploads : HasRoom(j)' => HasRoom(j)
    BY <1>2 DEF IInv, TypeOK, Keys, EnsureCapacity, Moves, HasRoom
  <2> QED
    BY <2>1, RoomStays
<1> QED
  BY <1>1, <1>2

\* An upload that commits takes the room that it saw, and nobody else waits for room.
LEMMA RoomIsTaken ==
  ASSUME IInv, QuotaInv, NEW k \in Keys, CommitUpload(k)
  PROVE  QuotaInv'
<1>1. /\ k \in Uploads /\ HasRoom(k) /\ k \notin rows
      /\ rows' \cap Uploads = (rows \cap Uploads) \cup {k}
  BY DEF CommitUpload, HasRoom, IInv, UploadsAreNew
<1>2. Used + SizeOf[k] <= Quota /\ \A j \in Uploads : HasRoom(j) => j = k
  BY <1>1 DEF QuotaInv
<1>3. IsFiniteSet(rows' \cap Uploads) /\ Used' = Used + SizeOf[k]
  <2> DEFINE S == rows \cap Uploads
  <2>1. IsFiniteSet(S) /\ S \subseteq Uploads /\ k \in Uploads \ S
    BY <1>1 DEF QuotaInv
  <2>2. Used = Bytes(S) /\ Used' = Bytes(S \cup {k}) /\ rows' \cap Uploads = S \cup {k}
    BY <1>1, UsedIsBytes
  <2> HIDE DEF S
  <2>3. /\ IsFiniteSet(S \cup {k})
        /\ Bytes(S) \in Int /\ SizeOf[k] \in Int
        /\ Bytes(S \cup {k}) = SizeOf[k] + Bytes(S)
    BY <2>1, BytesAdded
  <2>4. Bytes(S) + SizeOf[k] = SizeOf[k] + Bytes(S)
    BY <2>3
  <2> QED
    BY <2>2, <2>3, <2>4
<1>4. \A j \in Uploads : ~HasRoom(j)'
  BY <1>1, <1>2 DEF IInv, TypeOK, Keys, CommitUpload, Ends, Moves, HasRoom
<1> QED
  BY <1>2, <1>3, <1>4 DEF QuotaInv, QuotaKept

\* Every step of an upload or an export keeps the quota.
LEMMA FilesKeepQuota ==
  ASSUME IInv, QuotaInv, NEW k \in Keys, FileStep(k)
  PROVE  QuotaInv'
<1>1. ASSUME \/ StartRequest(k) \/ SaveObject(k) \/ \E partly \in BOOLEAN : SaveFails(k, partly)
             \/ UploadFails(k) \/ Dies(k)
      PROVE  QuotaInv'
  <2>1. rows' = rows
    BY <1>1 DEF StartRequest, SaveObject, SaveFails, UploadFails, Dies
  <2>2. \A j \in Uploads : HasRoom(j)' => HasRoom(j)
    BY <1>1 DEF IInv, TypeOK, Keys, StartRequest, SaveObject, SaveFails, UploadFails, Dies, Ends,
      Moves, HasRoom
  <2> QED
    BY <2>1, <2>2, RoomStays
<1>2. ASSUME CommitExport(k) PROVE QuotaInv'
  <2>1. k \in Documents /\ k \notin Uploads /\ rows' \in {rows, rows \cup {k}}
    BY <1>2, FilesAssumption DEF FilesAssumption, CommitExport
  <2>2. rows' \cap Uploads = rows \cap Uploads
    BY <2>1
  <2>3. \A j \in Uploads : HasRoom(j)' => HasRoom(j)
    BY <1>2 DEF IInv, TypeOK, Keys, CommitExport, Ends, Moves, HasRoom
  <2> QED
    BY <2>2, <2>3, RoomStays
<1> QED
  BY <1>1, <1>2, RoomIsSeen, RoomIsTaken DEF FileStep

\* A purge that commits gives all the room back.
LEMMA PurgesKeepQuota ==
  ASSUME IInv, QuotaInv, NEW p \in Purgers, PurgeStep(p) \/ PurgeFails(p)
  PROVE  QuotaInv'
<1>1. \A k \in Uploads : HasRoom(k)' => HasRoom(k)
  BY DEF PurgeStep, PurgeFails, ListDueAccounts, CloseAccount, DeleteRows, DeleteObject,
    CommitPurge, HasRoom
<1>2. CASE rows' = rows
  BY <1>1, <1>2, RoomStays
<1>3. CASE CommitPurge(p)
  <2>1. \A k \in Uploads : ~HasRoom(k)
    BY <1>3 DEF CommitPurge, IInv, LockHolders, Deleting, HasRoom
  <2>2. rows' \cap Uploads = {}
    BY <1>3 DEF CommitPurge
  <2>3. Used' = 0 /\ IsFiniteSet(rows' \cap Uploads)
    BY <2>2, UsedIsBytes, SumOverNone, FS_EmptySet DEF Bytes
  <2> QED
    BY <1>1, <2>1, <2>3, FilesAssumption DEF QuotaInv, QuotaKept, FilesAssumption
<1> QED
  BY <1>2, <1>3 DEF PurgeStep, PurgeFails, ListDueAccounts, CloseAccount, DeleteRows,
    DeleteObject

(* Uploads that overlap never exceed the quota together, whatever their     *)
(* number and sizes (storage_quota.py:27-35).                              *)
THEOREM QuotaAlwaysKept == Spec => []QuotaKept
<1>1. Init => QuotaInv
  <2>1. ASSUME Init PROVE QuotaInv
    <3>1. rows \cap Uploads = {} /\ \A k \in Uploads : ~HasRoom(k)
      BY <2>1 DEF Init, HasRoom, Keys
    <3>2. Used = 0 /\ IsFiniteSet(rows \cap Uploads)
      BY <3>1, UsedIsBytes, SumOverNone, FS_EmptySet DEF Bytes
    <3> QED
      BY <3>1, <3>2, FilesAssumption DEF QuotaInv, QuotaKept, FilesAssumption
  <2> QED
    BY <2>1
<1>2. IInv /\ QuotaInv /\ [Next]_vars => QuotaInv'
  <2> SUFFICES ASSUME IInv, QuotaInv, [Next]_vars PROVE QuotaInv'
    OBVIOUS
  <2>1. CASE AccountStep
    <3>1. UNCHANGED <<rows, requests>>
      BY <2>1, AccountMoves DEF IInv
    <3> QED
      BY <3>1, RoomStays DEF HasRoom
  <2>2. CASE UNCHANGED vars
    BY <2>2, RoomStays DEF vars, HasRoom
  <2> QED
    BY <2>1, <2>2, FilesKeepQuota, PurgesKeepQuota DEF Next
<1>3. QuotaInv => QuotaKept
  BY DEF QuotaInv
<1> QED
  BY <1>1, <1>2, <1>3, Invariance, PTL DEF Spec
-----------------------------------------------------------------------------
(* The tool, on the files of any application that does what FileStore      *)
(* allows.                                                                 *)

\* A backup lacks no file without a reason.
Sound(b) == Complete(b.named, b.stored, b.leaving) \/ b.torn

\* What the stages of the tool rely on: between dump and packing the storage keeps what
\* the dump names, and a restore has brought about what its stage says.
StagesAgree ==
  /\ tool.stage = "dumped" =>
       tool.made.named \subseteq stored \/ tool.made.leaving \/ tool.made.torn
  /\ tool.stage = "packed" => Sound(tool.made)
  /\ tool.restores => Sound(tool.target)
  /\ tool.stage \in Replacing \cup {"saved"} => tool.restores
  /\ tool.stage \in {"loaded", "emptied", "unpacked"} =>
       named = tool.target.named /\ leaving = tool.target.leaving /\ torn = tool.target.torn
  /\ tool.stage = "emptied" => stored = {}
  /\ tool.stage = "unpacked" => stored = tool.target.stored

\* The invariant that the theorems rest on.
ToolInv == ToolTypeOK /\ BackupIsComplete /\ ServedDataIsComplete /\ StagesAgree
-----------------------------------------------------------------------------
\* The tool at rest promises nothing.
LEMMA IdleTool ==
  /\ NoBackup \in Backups /\ NoTool \in ToolRows
  /\ NoTool.stage = "idle" /\ ~NoTool.restores
  /\ NoTool.made = NoBackup /\ NoTool.target = NoBackup /\ Sound(NoBackup)
BY DEF NoBackup, NoTool, Backups, ToolRows, ToolStages, Sound, Complete

\* The application keeps its files while the account stays (FileStore).
LEMMA ServiceStep ==
  ASSUME named \subseteq Files, stored \subseteq Files, leaving \in BOOLEAN, StoreNext
  PROVE  /\ named' \subseteq Files /\ stored' \subseteq Files /\ leaving' \in BOOLEAN
         /\ RowHasObject => RowHasObject'
BY DEF StoreNext, Put, Name, Discard, Close, Drop, RowHasObject,
  Complete

\* The invariant holds at the start.
LEMMA ToolInit == BackupInit => ToolInv
BY IdleTool DEF BackupInit, StoreInit, ToolInv, ToolTypeOK, BackupIsComplete,
  ServedDataIsComplete,
  RowHasObject, Complete, StagesAgree, Replacing

\* A step that leaves the tool at rest and the backups alone.
LEMMA ToolRests ==
  ASSUME ToolInv, tool' = NoTool, backups' = backups,
         named' \subseteq Files, stored' \subseteq Files, leaving' \in BOOLEAN,
         serving' \in BOOLEAN, torn' \in BOOLEAN, ServedDataIsComplete'
  PROVE  ToolInv'
<1>1. ToolTypeOK'
  BY IdleTool DEF ToolInv, ToolTypeOK
<1>2. BackupIsComplete'
  BY DEF ToolInv, BackupIsComplete
<1>3. StagesAgree'
  BY IdleTool DEF StagesAgree, Replacing
<1> QED
  BY <1>1, <1>2, <1>3 DEF ToolInv

\* The application keeps the invariant, whatever the tool is doing.
LEMMA ApplicationStep ==
  ASSUME ToolInv, Application PROVE ToolInv'
<1> USE DEF Application
<1>1. /\ named \subseteq Files /\ stored \subseteq Files /\ leaving \in BOOLEAN
      /\ named' \subseteq Files /\ stored' \subseteq Files /\ leaving' \in BOOLEAN
      /\ RowHasObject => RowHasObject'
  BY ServiceStep DEF ToolInv, ToolTypeOK
<1>2. tool \in ToolRows /\ tool.made \in Backups
  BY DEF ToolInv, ToolTypeOK, ToolRows
<1>3. /\ tool' \in ToolRows /\ tool'.stage = tool.stage /\ tool'.restores = tool.restores
      /\ tool'.target = tool.target
      /\ tool'.made.named = tool.made.named /\ tool'.made.leaving = tool.made.leaving
  BY <1>2 DEF ToolRows, Backups
<1>4. tool.stage # "dumped" => tool' = tool
  BY DEF Tears
<1>5. Tears => tool'.made.torn
  BY <1>2 DEF ToolRows, Backups
<1>6. ~Tears => tool' = tool
  OBVIOUS
<1>7. ToolTypeOK'
  BY <1>1, <1>3 DEF ToolInv, ToolTypeOK
<1>8. BackupIsComplete' /\ ServedDataIsComplete'
  BY <1>1 DEF ToolInv, BackupIsComplete, ServedDataIsComplete
<1>9. tool.stage \notin Replacing
  BY DEF ToolInv, ToolTypeOK, Replacing
<1>10. tool.stage = "dumped" =>
         tool'.made.named \subseteq stored' \/ tool'.made.leaving \/ tool'.made.torn
  BY <1>3, <1>5, <1>6 DEF ToolInv, StagesAgree, Tears
<1>11. StagesAgree'
  BY <1>3, <1>4, <1>9, <1>10 DEF ToolInv, StagesAgree, Replacing, Sound
<1> QED
  BY <1>7, <1>8, <1>11 DEF ToolInv

\* Creating a backup keeps the invariant.
LEMMA CreateStep ==
  ASSUME ToolInv,
         \/ StartCreate
         \/ \E b \in backups : StartRestore(b) \/ RemoveBackup(b)
         \/ DumpDatabase \/ PackStorage \/ FinishBackup
  PROVE  ToolInv'
<1> USE DEF ToolInv
<1>1. CASE StartCreate
  <2>1. ToolTypeOK'
    BY <1>1, IdleTool DEF StartCreate, ServicesAreUp, ToolTypeOK, data,
      Replacing, ToolRows, ToolStages
  <2>2. BackupIsComplete' /\ ServedDataIsComplete'
    BY <1>1 DEF StartCreate, BackupIsComplete, ServedDataIsComplete,
      RowHasObject, data
  <2>3. StagesAgree'
    BY <1>1, IdleTool DEF StartCreate, StagesAgree, Replacing, NoTool
  <2> QED
    BY <2>1, <2>2, <2>3
<1>2. ASSUME NEW b \in backups, StartRestore(b) PROVE ToolInv'
  <2>1. /\ tool' = [restores |-> TRUE, stage |-> "started", made |-> NoBackup, target |-> b]
        /\ serving /\ b \in Backups
    BY <1>2 DEF StartRestore, ServicesAreUp, NoTool, ToolTypeOK
  <2>2. ToolTypeOK'
    BY <1>2, <2>1, IdleTool DEF StartRestore, ToolTypeOK, data, Replacing,
      ToolRows, ToolStages
  <2>3. BackupIsComplete' /\ ServedDataIsComplete'
    BY <1>2 DEF StartRestore, BackupIsComplete, ServedDataIsComplete,
      RowHasObject, data
  <2>4. StagesAgree'
    BY <2>1 DEF StagesAgree, Replacing, BackupIsComplete, Sound
  <2> QED
    BY <2>2, <2>3, <2>4
<1>3. ASSUME NEW b \in backups, RemoveBackup(b) PROVE ToolInv'
  BY <1>3 DEF RemoveBackup, ToolTypeOK, BackupIsComplete, ServedDataIsComplete,
    RowHasObject,
    StagesAgree, data
<1>4. CASE DumpDatabase
  <2>1. serving /\ tool \in ToolRows
    BY <1>4 DEF DumpDatabase, ToolTypeOK, Replacing
  <2>2. /\ tool' \in ToolRows /\ tool'.stage = "dumped" /\ tool'.target = tool.target
        /\ tool'.restores = tool.restores
        /\ tool'.made = [named |-> named, stored |-> {}, leaving |-> leaving, torn |-> torn]
    BY <1>4, <2>1 DEF DumpDatabase, ToolTypeOK, ToolRows, Backups, ToolStages
  <2>3. ToolTypeOK'
    BY <1>4, <2>1, <2>2 DEF DumpDatabase, ToolTypeOK, data, Replacing
  <2>4. BackupIsComplete' /\ ServedDataIsComplete'
    BY <1>4 DEF DumpDatabase, BackupIsComplete, ServedDataIsComplete,
      RowHasObject, data
  <2>5. named \subseteq stored \/ leaving \/ torn
    BY <2>1 DEF ServedDataIsComplete, RowHasObject, Complete
  <2>6. StagesAgree'
    BY <1>4, <2>2, <2>5 DEF DumpDatabase, StagesAgree, Replacing, data
  <2> QED
    BY <2>3, <2>4, <2>6
<1>5. CASE PackStorage
  <2>1. tool \in ToolRows /\ tool.made \in Backups
    BY DEF ToolTypeOK, ToolRows
  <2>2. /\ tool' \in ToolRows /\ tool'.stage = "packed" /\ tool'.target = tool.target
        /\ tool'.restores = tool.restores
        /\ tool'.made.named = tool.made.named /\ tool'.made.leaving = tool.made.leaving
        /\ tool'.made.torn = tool.made.torn /\ tool'.made.stored = stored
    BY <1>5, <2>1 DEF PackStorage, ToolTypeOK, ToolRows, Backups, ToolStages
  <2>3. ToolTypeOK'
    BY <1>5, <2>2 DEF PackStorage, ToolTypeOK, data, Replacing
  <2>4. BackupIsComplete' /\ ServedDataIsComplete'
    BY <1>5 DEF PackStorage, BackupIsComplete, ServedDataIsComplete,
      RowHasObject, data
  <2>5. Sound(tool.made)' /\ (tool.restores => Sound(tool.target)')
    BY <1>5, <2>2 DEF PackStorage, StagesAgree, Sound, Complete
  <2>6. StagesAgree'
    BY <2>2, <2>5 DEF StagesAgree, Replacing
  <2> QED
    BY <2>3, <2>4, <2>6
<1>6. CASE FinishBackup
  <2>1. tool \in ToolRows /\ tool.made \in Backups /\ Sound(tool.made) /\ serving
    BY <1>6 DEF FinishBackup, ToolTypeOK, ToolRows, StagesAgree, Replacing
  <2>2. backups' \subseteq Backups /\ BackupIsComplete' /\ ServedDataIsComplete'
    BY <1>6, <2>1 DEF FinishBackup, Made, ToolTypeOK, BackupIsComplete,
      ServedDataIsComplete,
      RowHasObject, Sound, data
  <2>3. CASE tool.restores
    <3>1. /\ tool' \in ToolRows /\ tool'.stage = "saved" /\ tool'.target = tool.target
          /\ tool'.restores
      BY <1>6, <2>1, <2>3, IdleTool DEF FinishBackup, ToolRows, ToolStages
    <3>2. ToolTypeOK'
      BY <1>6, <2>1, <2>2, <3>1 DEF FinishBackup, ToolTypeOK, data, Replacing
    <3>3. StagesAgree'
      BY <2>3, <3>1 DEF StagesAgree, Replacing
    <3> QED
      BY <2>2, <3>2, <3>3
  <2>4. CASE ~tool.restores
    <3>1. tool' = NoTool
      BY <1>6, <2>4 DEF FinishBackup
    <3>2. ToolTypeOK'
      BY <1>6, <2>2, <3>1, IdleTool DEF FinishBackup, ToolTypeOK, data
    <3>3. StagesAgree'
      BY <3>1, IdleTool DEF StagesAgree, Replacing
    <3> QED
      BY <2>2, <3>2, <3>3
  <2> QED
    BY <2>3, <2>4
<1> QED
  BY <1>1, <1>2, <1>3, <1>4, <1>5, <1>6

\* Replacing the data keeps the invariant.
LEMMA ReplaceStep ==
  ASSUME ToolInv,
         StopServices \/ LoadDatabase \/ EmptyStorage \/ UnpackStorage
           \/ StartServices
  PROVE  ToolInv'
<1> USE DEF ToolInv
<1>0. tool \in ToolRows /\ tool.target \in Backups
  BY DEF ToolTypeOK, ToolRows
<1>1. ASSUME NEW stage \in ToolStages, Runs(stage)
      PROVE  /\ tool' \in ToolRows /\ tool'.stage = stage /\ tool'.target = tool.target
             /\ tool'.restores = tool.restores
  BY <1>0, <1>1 DEF Runs, ToolRows
<1>2. CASE StopServices
  <2>1. /\ tool' \in ToolRows /\ tool'.stage = "stopped" /\ tool'.target = tool.target
        /\ tool'.restores = tool.restores
    BY <1>1, <1>2 DEF StopServices, ToolStages
  <2> QED
    BY <1>2, <2>1 DEF StopServices, ToolTypeOK, BackupIsComplete,
      ServedDataIsComplete,
      StagesAgree, Replacing, data
<1>3. CASE LoadDatabase
  <2>1. /\ tool' \in ToolRows /\ tool'.stage = "loaded" /\ tool'.target = tool.target
        /\ tool'.restores = tool.restores /\ ~serving
    BY <1>1, <1>3 DEF LoadDatabase, ToolStages, ToolTypeOK, Replacing
  <2>2. ToolTypeOK'
    BY <1>0, <1>3, <2>1 DEF LoadDatabase, ToolTypeOK, Backups, Replacing
  <2>3. BackupIsComplete' /\ ServedDataIsComplete' /\ StagesAgree'
    BY <1>3, <2>1 DEF LoadDatabase, BackupIsComplete, ServedDataIsComplete,
      StagesAgree, Replacing
  <2> QED
    BY <2>2, <2>3
<1>4. CASE EmptyStorage
  <2>1. /\ tool' \in ToolRows /\ tool'.stage = "emptied" /\ tool'.target = tool.target
        /\ tool'.restores = tool.restores /\ ~serving
    BY <1>1, <1>4 DEF EmptyStorage, ToolStages, ToolTypeOK, Replacing
  <2>2. ToolTypeOK'
    BY <1>4, <2>1 DEF EmptyStorage, WithoutOldFiles, ToolTypeOK, Replacing
  <2>3. BackupIsComplete' /\ ServedDataIsComplete' /\ StagesAgree'
    BY <1>4, <2>1 DEF EmptyStorage, WithoutOldFiles, BackupIsComplete,
      ServedDataIsComplete,
      StagesAgree, Replacing
  <2> QED
    BY <2>2, <2>3
<1>5. CASE UnpackStorage
  <2>1. /\ tool' \in ToolRows /\ tool'.stage = "unpacked" /\ tool'.target = tool.target
        /\ tool'.restores = tool.restores /\ ~serving
    BY <1>1, <1>5 DEF UnpackStorage, ToolStages, ToolTypeOK, Replacing
  <2>2. stored' = tool.target.stored /\ tool.target.stored \subseteq Files
    BY <1>0, <1>5 DEF UnpackStorage, StagesAgree, Backups
  <2>3. ToolTypeOK'
    BY <1>5, <2>1, <2>2 DEF UnpackStorage, ToolTypeOK, Replacing
  <2>4. BackupIsComplete' /\ ServedDataIsComplete' /\ StagesAgree'
    BY <1>5, <2>1, <2>2 DEF UnpackStorage, BackupIsComplete, ServedDataIsComplete,
      StagesAgree,
      Replacing
  <2> QED
    BY <2>3, <2>4
<1>6. CASE StartServices
  <2>1. /\ Sound(tool.target) /\ named = tool.target.named /\ leaving = tool.target.leaving
        /\ torn = tool.target.torn /\ stored = tool.target.stored
    BY <1>6 DEF StartServices, StagesAgree, Replacing
  <2>2. ServedDataIsComplete'
    BY <1>6, <2>1 DEF StartServices, ServedDataIsComplete, RowHasObject, Sound,
      data
  <2> QED
    BY <1>6, <2>2, ToolRests DEF StartServices, ToolTypeOK, data
<1> QED
  BY <1>2, <1>3, <1>4, <1>5, <1>6

\* A failure keeps the invariant, and so does the operator who starts the services again.
LEMMA FailureStep ==
  ASSUME ToolInv,
         \/ ToolFails \/ StartByHand
         \/ \E part \in SUBSET Files : LoadFails(part) \/ UnpackFails(part)
  PROVE  ToolInv'
<1> USE DEF ToolInv
<1>1. CASE ToolFails
  <2>1. ServedDataIsComplete'
    BY <1>1 DEF ToolFails, StaysAsItIs, ServedDataIsComplete, RowHasObject,
      data
  <2> QED
    BY <1>1, <2>1, ToolRests DEF ToolFails, StaysAsItIs, ToolTypeOK, data
<1>2. ASSUME NEW part \in SUBSET Files, LoadFails(part) PROVE ToolInv'
  <2>1. ~serving /\ ServedDataIsComplete'
    BY <1>2 DEF LoadFails, StaysAsItIs, ToolTypeOK, Replacing,
      ServedDataIsComplete
  <2> QED
    BY <1>2, <2>1, ToolRests DEF LoadFails, StaysAsItIs, ToolTypeOK
<1>3. ASSUME NEW part \in SUBSET Files, UnpackFails(part) PROVE ToolInv'
  <2>1. ~serving /\ ServedDataIsComplete'
    BY <1>3 DEF UnpackFails, StaysAsItIs, ToolTypeOK, Replacing,
      ServedDataIsComplete
  <2> QED
    BY <1>3, <2>1, ToolRests DEF UnpackFails, StaysAsItIs, ToolTypeOK
<1>4. CASE StartByHand
  BY <1>4 DEF StartByHand, ToolTypeOK, BackupIsComplete, ServedDataIsComplete,
    RowHasObject,
    StagesAgree, Replacing, data
<1> QED
  BY <1>1, <1>2, <1>3, <1>4

\* A step that changes nothing.
LEMMA ToolStutter ==
  ASSUME ToolInv, UNCHANGED backupVars PROVE ToolInv'
BY DEF ToolInv, ToolTypeOK, BackupIsComplete, ServedDataIsComplete,
  RowHasObject, StagesAgree,
  backupVars, data

\* Every step keeps the invariant.
LEMMA ToolSteps ==
  ASSUME ToolInv, [BackupNext]_backupVars PROVE ToolInv'
<1>1. CASE UNCHANGED backupVars
  BY <1>1, ToolStutter
<1>2. CASE BackupNext
  BY <1>2, ApplicationStep, CreateStep, ReplaceStep, FailureStep DEF BackupNext
<1> QED
  BY <1>1, <1>2

\* The invariant holds in every reachable state.
LEMMA ToolInvariance == BackupSpec => []ToolInv
<1>1. ToolInv /\ [BackupNext]_backupVars => ToolInv'
  BY ToolSteps
<1> QED
  BY <1>1, ToolInit, PTL DEF BackupSpec
-----------------------------------------------------------------------------
\* Every reachable state has the declared types, and the tool only works on running
\* services or on services that it stopped itself.
THEOREM ToolTypes == BackupSpec => []ToolTypeOK
<1>1. ToolInv => ToolTypeOK
  BY DEF ToolInv
<1> QED
  BY <1>1, ToolInvariance, PTL

\* Whatever is uploaded, fails or is purged while a backup is made, the backup has the
\* file of every row in its dump, unless a purge took files between dump and packing.
THEOREM CompleteBackups == BackupSpec => []BackupIsComplete
<1>1. ToolInv => BackupIsComplete
  BY DEF ToolInv
<1> QED
  BY <1>1, ToolInvariance, PTL

\* However often and wherever restores fail, data that is served has the file of every
\* row, unless the operator started the services by hand on less.
THEOREM CompleteService == BackupSpec => []ServedDataIsComplete
<1>1. ToolInv => ServedDataIsComplete
  BY DEF ToolInv
<1> QED
  BY <1>1, ToolInvariance, PTL

\* When the tool starts the services, rows and files are those of the backup that was
\* asked for, with nothing left of the data before.
THEOREM RestoreReturns == BackupSpec => ReturnsWhatWasAsked
<1> DEFINE Returned == ~serving /\ serving' /\ tool.stage # "idle" =>
                         named = tool.target.named /\ stored = tool.target.stored
<1>1. ASSUME ToolInv, BackupNext PROVE Returned
  <2>1. CASE Application
    BY <2>1 DEF Application
  <2>2. CASE \/ StartCreate
             \/ \E b \in backups : StartRestore(b) \/ RemoveBackup(b)
             \/ DumpDatabase \/ PackStorage \/ FinishBackup
    BY <2>2 DEF StartCreate, StartRestore, RemoveBackup, DumpDatabase,
      PackStorage, FinishBackup
  <2>3. CASE StopServices \/ LoadDatabase \/ EmptyStorage \/ UnpackStorage
    BY <2>3 DEF StopServices, LoadDatabase, EmptyStorage, UnpackStorage
  <2>4. CASE StartServices
    BY <1>1, <2>4 DEF StartServices, ToolInv, StagesAgree
  <2>5. CASE ToolFails \/ StartByHand
    \/ \E part \in SUBSET Files : LoadFails(part) \/ UnpackFails(part)
    BY <2>5 DEF ToolFails, StartByHand, LoadFails, UnpackFails, StaysAsItIs
  <2> QED
    BY <1>1, <2>1, <2>2, <2>3, <2>4, <2>5 DEF BackupNext
<1>2. ToolInv /\ [BackupNext]_backupVars => [Returned]_backupVars
  BY <1>1
<1> HIDE DEF Returned
<1>3. BackupSpec => [][Returned]_backupVars
  BY <1>2, ToolInvariance, PTL DEF BackupSpec
<1> QED
  BY <1>3 DEF Returned, ReturnsWhatWasAsked
=============================================================================
