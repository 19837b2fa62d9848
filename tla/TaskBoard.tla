------------------------------ MODULE TaskBoard ------------------------------
(***************************************************************************)
(* What the middleware promises about a task, with no threads, queue or     *)
(* map: tasks are submitted with consecutive ids, started in the order of   *)
(* their ids and one at a time, finished once, and forgotten only when they *)
(* are finished.                                                            *)
(***************************************************************************)
EXTENDS Naturals

CONSTANT MaxTasks

VARIABLE phase  \* id -> where the task stands

Ids == 1..MaxTasks

Phase == {"none", "PENDING", "IN_PROGRESS", "COMPLETED", "FAILED", "gone"}

BoardInit == phase = [id \in Ids |-> "none"]

Submit(id) ==
    /\ phase[id] = "none"
    /\ \A other \in Ids : other < id => phase[other] # "none"
    /\ phase' = [phase EXCEPT ![id] = "PENDING"]

Begin(id) ==
    /\ phase[id] = "PENDING"
    /\ \A other \in Ids : phase[other] # "IN_PROGRESS"
    /\ \A other \in Ids : other < id => phase[other] # "PENDING"
    /\ phase' = [phase EXCEPT ![id] = "IN_PROGRESS"]

Finish(id) ==
    /\ phase[id] = "IN_PROGRESS"
    /\ \E result \in {"COMPLETED", "FAILED"} : phase' = [phase EXCEPT ![id] = result]

\* Any set of finished tasks leaves the board at once (one poll, or one sweep).
Forget(S) ==
    /\ \A id \in S : phase[id] \in {"COMPLETED", "FAILED"}
    /\ phase' = [id \in Ids |-> IF id \in S THEN "gone" ELSE phase[id]]

BoardNext ==
    \/ \E id \in Ids : Submit(id) \/ Begin(id) \/ Finish(id)
    \/ \E S \in SUBSET Ids : Forget(S)

BoardSpec == BoardInit /\ [][BoardNext]_phase
=============================================================================
