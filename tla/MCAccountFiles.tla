--------------------------- MODULE MCAccountFiles ---------------------------
(* Values for the constants of AccountFiles.                               *)
EXTENDS AccountFiles, TLC

CONSTANTS file1, file2, document1, worker, command

Sizes == [k \in Uploads |-> 2]
=============================================================================
