----------------------------- MODULE FileStore -----------------------------
(***************************************************************************)
(* What the storage and the database promise each other, for the files of  *)
(* one account: a row names a file that is there, until the account leaves.*)
(* AccountFiles implements it with its uploads, exports and purges;        *)
(* BackupRestore builds on it.                                             *)
(***************************************************************************)
CONSTANTS Files  \* object keys

VARIABLES
  named,    \* keys that rows of the database name
  stored,   \* keys in the storage
  leaving   \* the account is closed and on its way out

data == <<named, stored, leaving>>

StoreInit == named = {} /\ stored = {} /\ leaving = FALSE

\* Files are stored before anything names them, over an older file of the same key too.
Put(k) == stored' = stored \cup {k} /\ UNCHANGED <<named, leaving>>

Name(k) ==
  /\ k \in stored \/ leaving
  /\ named' = named \cup {k} /\ UNCHANGED <<stored, leaving>>

\* An upload that failed cleans up, a purge empties the storage.
Discard(k) ==
  /\ k \notin named \/ leaving
  /\ stored' = stored \ {k} /\ UNCHANGED <<named, leaving>>

Close == ~leaving /\ leaving' = TRUE /\ UNCHANGED <<named, stored>>

\* The purge commits; the account is gone.
Drop == leaving /\ named' = {} /\ leaving' \in BOOLEAN /\ UNCHANGED stored

StoreNext == (\E k \in Files : Put(k) \/ Name(k) \/ Discard(k)) \/ Close \/ Drop

StoreSpec == StoreInit /\ [][StoreNext]_data

Complete(names, files, left) == names \subseteq files \/ left

(* A row names a stored object, except while its account is leaving:       *)
(* files are stored before the row and deleted only when the account is    *)
(* closed (phase7.py:185-231, account_deletion.py:70-144).                 *)
RowHasObject == Complete(named, stored, leaving)
=============================================================================
