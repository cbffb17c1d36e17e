---------------------------- MODULE MCAIJobQueue ----------------------------
(* Values for the constants of AIJobQueue.                                 *)
EXTENDS AIJobQueue, TLC

CONSTANTS w1, w2, t1, t2

OneOwner == [j \in Jobs |-> t1]
OwnerPerJob == [j \in Jobs |-> IF j = 1 THEN t1 ELSE t2]
=============================================================================
