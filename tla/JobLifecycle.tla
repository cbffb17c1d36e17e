---------------------------- MODULE JobLifecycle ----------------------------
(***************************************************************************)
(* What an AI task promises, whatever claims and executes it: the machine  *)
(* QUEUED -> RUNNING -> SUCCEEDED | FAILED | CANCELED, the way back from   *)
(* RUNNING to QUEUED for a retry, and the one draft version the task may   *)
(* leave behind, written only while the task is RUNNING.  A step of the    *)
(* system is one database transaction and may move several tasks at once.  *)
(***************************************************************************)
EXTENDS Naturals

CONSTANT Jobs

VARIABLES status, drafts

vars == <<status, drafts>>

Moves(j, from, to) == status[j] \in from /\ status'[j] = to

KeepsDraft(j) == drafts'[j] = drafts[j]

Submit(j)  == Moves(j, {"ABSENT"}, "QUEUED") /\ KeepsDraft(j)
Start(j)   == Moves(j, {"QUEUED"}, "RUNNING") /\ KeepsDraft(j)
Land(j)    == Moves(j, {"RUNNING"}, "RUNNING") /\ drafts[j] = 0 /\ drafts'[j] = 1
Succeed(j) == Moves(j, {"RUNNING"}, "SUCCEEDED") /\ drafts[j] = 1 /\ KeepsDraft(j)
Retry(j)   == Moves(j, {"RUNNING"}, "QUEUED") /\ KeepsDraft(j)
Fail(j)    == Moves(j, {"RUNNING"}, "FAILED") /\ KeepsDraft(j)
Cancel(j)  == Moves(j, {"QUEUED", "RUNNING"}, "CANCELED") /\ KeepsDraft(j)
Erase(j)   == /\ Moves(j, {"QUEUED", "SUCCEEDED", "FAILED", "CANCELED"}, "ABSENT")
              /\ drafts'[j] = 0
Rest(j)    == status'[j] = status[j] /\ KeepsDraft(j)

Init == /\ status = [j \in Jobs |-> "ABSENT"]
        /\ drafts = [j \in Jobs |-> 0]

Next == \A j \in Jobs : \/ Submit(j) \/ Start(j) \/ Land(j) \/ Succeed(j)
                        \/ Retry(j) \/ Fail(j) \/ Cancel(j) \/ Erase(j) \/ Rest(j)

Spec == Init /\ [][Next]_vars
=============================================================================
