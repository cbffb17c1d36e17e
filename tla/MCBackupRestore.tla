-------------------------- MODULE MCBackupRestore --------------------------
(* Values for the constants of BackupRestore.                              *)
EXTENDS BackupRestore, TLC

CONSTANTS k1, k2

KeySymmetry == Permutations({k1, k2})
=============================================================================
