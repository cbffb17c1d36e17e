---------------------------- MODULE AccountFiles ----------------------------
(***************************************************************************)
(* One account, the files it stores and its deletion: uploads of materials *)
(* (phase7.py) and of question images (phase4.py) under the quota of       *)
(* storage_quota.py, DOCX exports (phase2.py), the request for deletion    *)
(* and its cancellation (auth.py), and the purge (account_deletion.py)     *)
(* that the worker runs every hour and the command line at will.           *)
(*                                                                         *)
(* A stored object and the row that names it are written one after the     *)
(* other, and only the row belongs to a transaction.  Every upload has a   *)
(* key of its own; an exported document has one key however often it is    *)
(* exported.                                                               *)
(***************************************************************************)
EXTENDS Integers, FiniteSetsExt

CONSTANTS
  Uploads,    \* keys of files to upload
  Documents,  \* keys of documents to export
  Purgers,    \* runs of the purge that may overlap
  Quota,
  SizeOf      \* bytes of each upload

ASSUME FilesAssumption ==
  /\ Uploads \cap Documents = {}
  /\ SizeOf \in [Uploads -> Nat \ {0}] /\ Quota \in Nat

VARIABLES
  account,     \* the users row
  rows,        \* keys named by uploaded_materials and by document_versions
  objects,     \* keys in the storage
  requests,    \* by key, the request that stores it
  purges,      \* the runs of the purge
  cancelling,  \* a cancellation was authenticated and has not written yet
  history      \* what happened, for the properties: it steers nothing

vars == <<account, rows, objects, requests, purges, cancelling, history>>

Keys == Uploads \cup Documents
\* due is deletion_scheduled_for: NULL, in the future, in the past.  bound: a lesson of
\* the account is referred to by a foreign key that restricts its deletion.
AccountRows == [there: BOOLEAN, active: BOOLEAN, due: {"none", "pending", "due"}, bound: BOOLEAN]
Stages == {"idle", "read", "locked", "stored", "over"}
PurgeRows == [stage: {"idle", "failed", "listed", "closed", "deleting"}, keys: SUBSET Keys, left: SUBSET Keys]
\* excused: objects left behind by a process that died, or stored while a purge ran.
\* raced: a cancellation authenticated earlier was written after the account was closed.
\* renewed: deletion was requested anew while a purge still had the account in its list.
HistoryRows == [excused: SUBSET Keys, raced: BOOLEAN, renewed: BOOLEAN]

TypeOK ==
  /\ account \in AccountRows
  /\ rows \subseteq Keys /\ objects \subseteq Keys
  /\ requests \in [Keys -> Stages]
  /\ purges \in [Purgers -> PurgeRows]
  /\ cancelling \in BOOLEAN /\ history \in HistoryRows
  /\ ~account.there => rows = {} /\ ~account.active

NoPurge == [stage |-> "idle", keys |-> {}, left |-> {}]

Init ==
  /\ account = [there |-> TRUE, active |-> TRUE, due |-> "none", bound |-> FALSE]
  /\ rows = {} /\ objects = {}
  /\ requests = [k \in Keys |-> "idle"]
  /\ purges = [p \in Purgers |-> NoPurge]
  /\ cancelling = FALSE
  /\ history = [excused |-> {}, raced |-> FALSE, renewed |-> FALSE]

\* A run of the purge has the account in its list.
Running(p) == purges[p].stage \in {"listed", "closed", "deleting"}
\* The users row is locked by the second transaction of a purge, and by an upload from
\* its look at the quota until its commit.
Deleting == \E p \in Purgers : purges[p].stage = "deleting"
Free == ~Deleting /\ \A k \in Uploads : requests[k] \notin {"locked", "stored"}
UnderPurge == \E p \in Purgers : purges[p].stage \in {"closed", "deleting"}
Moves(k, stage) == requests' = [requests EXCEPT ![k] = stage]
\* A document may be exported again, under the same key.
Ends(k) == Moves(k, IF k \in Uploads THEN "over" ELSE "idle")
-----------------------------------------------------------------------------
(* Uploads and exports.                                                    *)

\* Authentication and everything read before the lock; for an export, the approved version.
\* A file that is refused here, as a duplicate or for its content, leaves no trace.
StartRequest(k) ==
  /\ requests[k] = "idle"
  /\ account.active
  /\ Moves(k, "read")
  /\ UNCHANGED <<account, rows, objects, purges, cancelling, history>>

Used == MapThenSumSet(LAMBDA k : SizeOf[k], rows \cap Uploads)

\* Mutant: the quota is read without the lock.
QuotaReadAnyTime == TRUE

QuotaReadable == Free

LocksAccount == account.there

\* ensure_upload_capacity: it finds a disabled account too.
EnsureCapacity(k) ==
  /\ k \in Uploads /\ requests[k] = "read" /\ QuotaReadable
  /\ Moves(k, IF LocksAccount /\ Used + SizeOf[k] <= Quota THEN "locked" ELSE "over")
  /\ UNCHANGED <<account, rows, objects, purges, cancelling, history>>

Noted(k) == history' = IF UnderPurge THEN [history EXCEPT !.excused = @ \cup {k}] ELSE history

SaveObject(k) ==
  /\ requests[k] = IF k \in Uploads THEN "locked" ELSE "read"
  /\ objects' = objects \cup {k}
  /\ Moves(k, "stored") /\ Noted(k)
  /\ UNCHANGED <<account, rows, purges, cancelling>>

\* The storage refuses; an upload releases the row.  What a local disk kept of the file
\* is left there.
SaveFails(k, partly) ==
  /\ requests[k] = IF k \in Uploads THEN "locked" ELSE "read"
  /\ objects' = IF partly THEN objects \cup {k} ELSE objects
  /\ history' = IF partly THEN [history EXCEPT !.excused = @ \cup {k}] ELSE history
  /\ Ends(k)
  /\ UNCHANGED <<account, rows, purges, cancelling>>

CommitUpload(k) ==
  /\ k \in Uploads /\ requests[k] = "stored"
  /\ rows' = rows \cup {k}
  /\ Ends(k) /\ Noted(k)
  /\ UNCHANGED <<account, objects, purges, cancelling>>

UploadFails(k) ==
  /\ k \in Uploads /\ requests[k] = "stored"
  /\ objects' = objects \ {k}
  /\ Ends(k)
  /\ history' = [history EXCEPT !.excused = @ \ {k}]
  /\ UNCHANGED <<account, rows, purges, cancelling>>

\* docx_object_key is set in a transaction that locks the version row only: it waits for a
\* purge that is deleting it, and finds no row after that.
CommitExport(k) ==
  /\ k \in Documents /\ requests[k] = "stored" /\ ~Deleting
  /\ rows' = IF account.there THEN rows \cup {k} ELSE rows
  /\ history' = IF UnderPurge \/ ~account.there THEN [history EXCEPT !.excused = @ \cup {k}]
                                                ELSE history
  /\ Ends(k)
  /\ UNCHANGED <<account, objects, purges, cancelling>>

\* The process dies, or the commit of an export fails, which does not clean up.
Dies(k) ==
  /\ requests[k] \in {"locked", "stored"}
  /\ Ends(k)
  /\ history' = IF requests[k] = "stored"
                THEN [history EXCEPT !.excused = @ \cup {k}] ELSE history
  /\ UNCHANGED <<account, rows, objects, purges, cancelling>>
-----------------------------------------------------------------------------
(* The account.                                                            *)

\* A payment is allocated to a lesson (payment_allocations.lesson_id) or feedback is
\* approved (mastery_evidence.feedback_version_id).
BindLesson ==
  /\ account.active /\ ~account.bound
  /\ account' = [account EXCEPT !.bound = TRUE]
  /\ UNCHANGED <<rows, objects, requests, purges, cancelling, history>>

RequestDeletion ==
  /\ account.active /\ account.due = "none" /\ Free
  /\ account' = [account EXCEPT !.due = "pending"]
  /\ history' = IF \E p \in Purgers : Running(p) THEN [history EXCEPT !.renewed = TRUE] ELSE history
  /\ UNCHANGED <<rows, objects, requests, purges, cancelling>>

GracePasses ==
  /\ account.due = "pending"
  /\ account' = [account EXCEPT !.due = "due"]
  /\ UNCHANGED <<rows, objects, requests, purges, cancelling, history>>

StartCancel ==
  /\ account.active /\ account.due # "none" /\ ~cancelling
  /\ cancelling' = TRUE
  /\ UNCHANGED <<account, rows, objects, requests, purges, history>>

\* The UPDATE waits for the row lock and looks at nothing but the id.
CommitCancel ==
  /\ cancelling /\ Free
  /\ cancelling' = FALSE
  /\ account' = IF account.there THEN [account EXCEPT !.due = "none"] ELSE account
  /\ history' = IF account.active THEN history ELSE [history EXCEPT !.raced = TRUE]
  /\ UNCHANGED <<rows, objects, requests, purges>>

SetActive(active) ==
  /\ account.there /\ Free
  /\ account.active # active /\ (active => account.due = "none")
  /\ account' = [account EXCEPT !.active = active]
  /\ UNCHANGED <<rows, objects, requests, purges, cancelling, history>>
-----------------------------------------------------------------------------
(* The purge.                                                              *)

Steps(p, row) == purges' = [purges EXCEPT ![p] = row]

\* Mutant: the end of the period of grace is not awaited.
AnyRequest == account.due # "none"

\* Mutant: an account that an earlier run closed is not listed again.
OnlyOpenAndDue == account.due = "due" /\ account.active

IsDue == account.due = "due"

ListDueAccounts(p) ==
  /\ ~Running(p) /\ account.there /\ IsDue
  /\ Steps(p, [NoPurge EXCEPT !.stage = "listed"])
  /\ UNCHANGED <<account, rows, objects, requests, cancelling, history>>

\* Mutant: the account stays open until its rows are gone.
StaysOpen == account

Closed == [account EXCEPT !.active = FALSE]

\* Mutant: only uploaded files are listed.
MaterialKeys == rows \cap Uploads

OwnedObjectKeys == rows

\* First transaction; both transactions look whether a deletion is still requested.
CloseAccount(p) ==
  /\ purges[p].stage = "listed" /\ Free
  /\ IF account.there /\ account.due # "none"
     THEN account' = Closed /\ Steps(p, [NoPurge EXCEPT !.stage = "closed", !.keys = OwnedObjectKeys])
     ELSE Steps(p, NoPurge) /\ UNCHANGED account
  /\ UNCHANGED <<rows, objects, requests, cancelling, history>>

\* Second transaction: the rows go first, and a restricting foreign key ends it.
DeleteRows(p) ==
  /\ purges[p].stage = "closed" /\ Free
  /\ Steps(p, IF account.there /\ account.due # "none" /\ ~account.bound
              THEN [purges[p] EXCEPT !.stage = "deleting", !.left = purges[p].keys] ELSE NoPurge)
  /\ UNCHANGED <<account, rows, objects, requests, cancelling, history>>

DeleteObject(p, k) ==
  /\ purges[p].stage = "deleting" /\ k \in purges[p].left
  /\ objects' = objects \ {k}
  /\ Steps(p, [purges[p] EXCEPT !.left = @ \ {k}])
  /\ history' = [history EXCEPT !.excused = @ \ {k}]
  /\ UNCHANGED <<account, rows, requests, cancelling>>

CommitPurge(p) ==
  /\ purges[p].stage = "deleting" /\ purges[p].left = {}
  /\ account' = [there |-> FALSE, active |-> FALSE, due |-> "none", bound |-> FALSE]
  /\ rows' = {}
  /\ Steps(p, NoPurge)
  /\ history' = [history EXCEPT !.raced = FALSE, !.renewed = FALSE]
  /\ UNCHANGED <<objects, requests, cancelling>>

\* The storage refuses a deletion, or the process dies: the rows come back.
PurgeFails(p) ==
  /\ Running(p)
  /\ Steps(p, [NoPurge EXCEPT !.stage = "failed"])
  /\ UNCHANGED <<account, rows, objects, requests, cancelling, history>>

FileStep(k) ==
  \/ StartRequest(k) \/ EnsureCapacity(k) \/ SaveObject(k)
  \/ \E partly \in BOOLEAN : SaveFails(k, partly)
  \/ CommitUpload(k) \/ UploadFails(k) \/ CommitExport(k) \/ Dies(k)

PurgeStep(p) ==
  \/ ListDueAccounts(p) \/ CloseAccount(p) \/ DeleteRows(p)
  \/ \E k \in Keys : DeleteObject(p, k)
  \/ CommitPurge(p)

AccountStep ==
  \/ BindLesson \/ RequestDeletion \/ GracePasses \/ StartCancel \/ CommitCancel
  \/ \E active \in BOOLEAN : SetActive(active)

Next ==
  \/ \E k \in Keys : FileStep(k)
  \/ AccountStep
  \/ \E p \in Purgers : PurgeStep(p) \/ PurgeFails(p)

Spec == Init /\ [][Next]_vars

\* An upload that holds the row ends one way or another, the purge runs again and again,
\* and from some time on neither the storage nor the process fails it.
FairSpec ==
  /\ Spec
  /\ \A k \in Uploads : WF_vars(requests[k] # "read" /\ FileStep(k))
  /\ \A p \in Purgers : WF_vars(PurgeStep(p))
  /\ <>[][\A p \in Purgers : ~PurgeFails(p)]_vars
-----------------------------------------------------------------------------
\* The account is on its way out, or a late cancellation stopped it half way.
Leaving == (~account.active /\ account.due # "none") \/ history.raced

Store == INSTANCE FileStore WITH
  Files <- Keys, named <- rows, stored <- objects, leaving <- Leaving

(* Uploads, exports and purges keep the promise of FileStore: a row names  *)
(* an object that is there until the account is closed and on its way out. *)
(* Only a cancellation that was under way when the account was closed can  *)
(* bring rows back whose files a failed purge has taken                    *)
(* (phase7.py:185-231, account_deletion.py:70-144).                        *)
ImplementsFileStore == Store!StoreSpec

(* Uploads that overlap never exceed the quota together                    *)
(* (storage_quota.py:27-35).                                               *)
QuotaKept == Used <= Quota

(* An object that no row names, and no request is about to name, was left  *)
(* by a process that died or by a request that overlapped the purge;       *)
(* failed uploads and finished purges leave nothing                        *)
(* (account_deletion.py:32-44, phase7.py:228-231).                         *)
NoStrayObjects ==
  \A k \in objects \ rows :
    \/ k \in history.excused
    \/ requests[k] = "stored"

(* The account goes only while a deletion is requested and it is closed    *)
(* (but for such a late cancellation), and only after the period of grace, *)
(* unless the request was cancelled and made again while a purge still had *)
(* the account in its list                                                 *)
(* (account_deletion.py:55-69, 96-97).                                     *)
PurgedOnRequest ==
  [][account.there /\ ~account'.there =>
       /\ ~account.active \/ history.raced
       /\ account.due = "due" \/ (account.due = "pending" /\ history.renewed)]_vars

(* A due account is purged in the end, unless the deletion is cancelled or *)
(* a row restricts it, however often a purge fails on the way              *)
(* (worker.py:97-103).                                                     *)
DueIsPurged == account.due = "due" ~> (account.due # "due" \/ account.bound)

(* docs/m4-public-readiness.md:13 says the worker or the command clears    *)
(* the rows and files of an account that is due.                           *)
EveryDueIsPurged == account.due = "due" ~> account.due # "due"
=============================================================================
