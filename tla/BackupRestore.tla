--------------------------- MODULE BackupRestore ---------------------------
(***************************************************************************)
(* Backup and restore of the database and the stored files:                *)
(* backup_restore.py.  A backup dumps the database and packs the storage   *)
(* one after the other while the services go on working; a restore takes a *)
(* safety backup, stops the services, and replaces first the database and  *)
(* then the files.  A command may fail at every step.                      *)
(*                                                                         *)
(* The application underneath is FileStore, which AccountFiles implements. *)
(* One run of the tool at a time.                                          *)
(***************************************************************************)
EXTENDS FileStore, Integers, FiniteSets

CONSTANTS MaxBackups  \* bound on the backups that are kept

ASSUME BackupAssumption == MaxBackups \in Nat

VARIABLES
  serving,  \* web, worker and api are up
  backups,  \* finished backups: a directory with its manifest
  tool,     \* the run of the tool that is under way
  torn      \* the data lacks files, and not because an account is leaving

backupVars == <<data, serving, backups, tool, torn>>

\* torn, here too, only remembers: a purge took files between dump and packing, or the
\* backup is one of torn data.
Backups == [named: SUBSET Files, stored: SUBSET Files, leaving: BOOLEAN, torn: BOOLEAN]
NoBackup == [named |-> {}, stored |-> {}, leaving |-> FALSE, torn |-> FALSE]
ToolStages ==
  {"idle", "started", "dumped", "packed", "saved", "stopped", "loaded", "emptied", "unpacked"}
\* made: the backup under construction.  target: the one to restore.
ToolRows == [restores: BOOLEAN, stage: ToolStages, made: Backups, target: Backups]
NoTool == [restores |-> FALSE, stage |-> "idle", made |-> NoBackup, target |-> NoBackup]
\* The services are up until a restore stops them.
Replacing == {"stopped", "loaded", "emptied", "unpacked"}

ToolTypeOK ==
  /\ named \subseteq Files /\ stored \subseteq Files /\ leaving \in BOOLEAN
  /\ serving \in BOOLEAN /\ torn \in BOOLEAN
  /\ backups \subseteq Backups /\ tool \in ToolRows
  /\ tool.stage # "idle" => (serving <=> tool.stage \notin Replacing)

BackupInit == StoreInit /\ serving = TRUE /\ backups = {} /\ tool = NoTool /\ torn = FALSE
-----------------------------------------------------------------------------
(* The application works while its services are up.                        *)

\* A purge takes a file whose row is in the dump, before the storage is packed.
Tears == tool.stage = "dumped" /\ ~(tool.made.named \cap stored \subseteq stored')

Application ==
  /\ serving /\ StoreNext
  /\ tool' = IF Tears THEN [tool EXCEPT !.made.torn = TRUE] ELSE tool
  /\ UNCHANGED <<serving, backups, torn>>
-----------------------------------------------------------------------------
(* Creating a backup, alone or as the first part of a restore.             *)

Runs(stage) == tool' = [tool EXCEPT !.stage = stage]

ServicesAreUp == serving

StartCreate ==
  /\ tool.stage = "idle" /\ ServicesAreUp /\ Cardinality(backups) < MaxBackups
  /\ tool' = [NoTool EXCEPT !.stage = "started"]
  /\ UNCHANGED <<data, serving, backups, torn>>

\* Manifest and checksums of b are right, and the backup was confirmed by its name.
StartRestore(b) ==
  /\ tool.stage = "idle" /\ ServicesAreUp /\ Cardinality(backups) < MaxBackups
  /\ tool' = [NoTool EXCEPT !.restores = TRUE, !.stage = "started", !.target = b]
  /\ UNCHANGED <<data, serving, backups, torn>>

DumpDatabase ==
  /\ tool.stage = "started"
  /\ tool' = [tool EXCEPT !.stage = "dumped",
               !.made = [named |-> named, stored |-> {}, leaving |-> leaving, torn |-> torn]]
  /\ UNCHANGED <<data, serving, backups, torn>>

PackStorage ==
  /\ tool.stage = "dumped"
  /\ tool' = [tool EXCEPT !.stage = "packed", !.made.stored = stored]
  /\ UNCHANGED <<data, serving, backups, torn>>

\* Mutant: the database is dumped after the storage was packed.
DumpedLast == [tool.made EXCEPT !.named = named, !.leaving = leaving]

Made == tool.made

\* The manifest is written and the directory gets its final name.
FinishBackup ==
  /\ tool.stage = "packed"
  /\ backups' = backups \cup {Made}
  /\ tool' = IF tool.restores THEN [tool EXCEPT !.stage = "saved", !.made = NoBackup] ELSE NoTool
  /\ UNCHANGED <<data, serving, torn>>

\* Old backups are removed by hand.
RemoveBackup(b) ==
  /\ tool.stage = "idle"
  /\ backups' = backups \ {b}
  /\ UNCHANGED <<data, serving, tool, torn>>
-----------------------------------------------------------------------------
(* Replacing the current data.                                             *)

\* Requests, tasks and purges in flight die with their processes.  Nothing else writes
\* until the services are up again: an administrator's manage_users purge-due, which is
\* no service and runs on the host, is assumed not to run during a restore.
StopServices ==
  /\ tool.stage = "saved"
  /\ serving' = FALSE /\ Runs("stopped")
  /\ UNCHANGED <<data, backups, torn>>

LoadDatabase ==
  /\ tool.stage = "stopped"
  /\ named' = tool.target.named /\ leaving' = tool.target.leaving /\ torn' = tool.target.torn
  /\ Runs("loaded")
  /\ UNCHANGED <<stored, serving, backups>>

\* Mutant: the archive is unpacked over the files that are there.
KeepsOldFiles == stored

WithoutOldFiles == {}

\* A container empties the volume and unpacks the archive.
EmptyStorage ==
  /\ tool.stage = "loaded"
  /\ stored' = WithoutOldFiles /\ Runs("emptied")
  /\ UNCHANGED <<named, leaving, serving, backups, torn>>

UnpackStorage ==
  /\ tool.stage = "emptied"
  /\ stored' = stored \cup tool.target.stored /\ Runs("unpacked")
  /\ UNCHANGED <<named, leaving, serving, backups, torn>>

StartServices ==
  /\ tool.stage = "unpacked"
  /\ serving' = TRUE /\ tool' = NoTool
  /\ UNCHANGED <<data, backups, torn>>

\* Mutant: the services are started again whatever happened.
StartsAnyway == TRUE

StaysAsItIs == serving

\* A command fails: temporary directories and containers go, everything else stays.
ToolFails ==
  /\ tool.stage # "idle"
  /\ tool' = NoTool /\ serving' = StaysAsItIs
  /\ UNCHANGED <<data, backups, torn>>

\* pg_restore fails half way: --clean has dropped some of the old tables, or all of them
\* and some of the target's are loaded.
LoadFails(part) ==
  /\ tool.stage = "stopped"
  /\ part \in SUBSET named \cup SUBSET tool.target.named
  /\ named' = part /\ leaving' \in {FALSE, leaving}
  /\ tool' = NoTool /\ serving' = StaysAsItIs
  /\ UNCHANGED <<stored, backups, torn>>

\* The container fails while it removes or unpacks files.
UnpackFails(part) ==
  /\ \/ tool.stage = "loaded" /\ part \subseteq stored
     \/ tool.stage = "emptied" /\ part \subseteq tool.target.stored
  /\ stored' = part
  /\ tool' = NoTool /\ serving' = StaysAsItIs
  /\ UNCHANGED <<named, leaving, backups, torn>>

\* The operator starts the services after a restore failed, with what is there; the tool
\* cannot run again before (it needs the api for its safety backup).
StartByHand ==
  /\ ~serving /\ tool.stage = "idle"
  /\ serving' = TRUE
  /\ torn' = (torn \/ ~RowHasObject)
  /\ UNCHANGED <<data, backups, tool>>

BackupNext ==
  \/ Application
  \/ StartCreate \/ \E b \in backups : StartRestore(b) \/ RemoveBackup(b)
  \/ DumpDatabase \/ PackStorage \/ FinishBackup
  \/ StopServices \/ LoadDatabase \/ EmptyStorage \/ UnpackStorage \/ StartServices
  \/ ToolFails \/ \E part \in SUBSET Files : LoadFails(part) \/ UnpackFails(part)
  \/ StartByHand

BackupSpec == BackupInit /\ [][BackupNext]_backupVars
-----------------------------------------------------------------------------
(* Every row in the dump of a finished backup has its file in the archive, *)
(* although uploads, exports and failures go on between the two: the       *)
(* database is dumped first.  Only a purge that takes files in between     *)
(* tears a backup (backup_restore.py:218-251).                             *)
BackupIsComplete == \A b \in backups : Complete(b.named, b.stored, b.leaving) \/ b.torn

(* While the services are up no row lacks its file, however often a        *)
(* restore failed half way: after the first change of the data the tool    *)
(* leaves the services down, and only the operator may start them with     *)
(* what is there (backup_restore.py:536-590).                              *)
ServedDataIsComplete == serving => RowHasObject \/ torn

(* The tool starts the services only with exactly the rows and the files   *)
(* of the backup that was asked for (backup_restore.py:536-581).           *)
ReturnsWhatWasAsked ==
  [][~serving /\ serving' /\ tool.stage # "idle" =>
       named = tool.target.named /\ stored = tool.target.stored]_backupVars
=============================================================================
