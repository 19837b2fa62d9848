--------------------------- MODULE ServerRefinement ---------------------------
(***************************************************************************)
(* Two consequences of the inductive invariant of ServerProofs: a task and  *)
(* its response agree, and the threads of Server implement TaskBoard.       *)
(***************************************************************************)
EXTENDS ServerProofs

-----------------------------------------------------------------------------
(* What a step does to the tasks *)

\* No task comes or goes, or changes its state or response.
Keeping ==
    /\ UNCHANGED m_next_task_counter
    /\ \A id \in TaskId :
          /\ Found(id)' <=> Found(id)
          /\ Found(id) => /\ m_task_map'[id].state = m_task_map[id].state
                          /\ m_task_map'[id].response = m_task_map[id].response

\* addTask puts a new task in the map.
Drawing ==
    /\ m_next_task_counter \in TaskId /\ ~Found(m_next_task_counter)
    /\ m_next_task_counter' = m_next_task_counter + 1
    /\ m_task_map' = [m_task_map EXCEPT ![m_next_task_counter] = NewTask]

Fits(t) ==
    /\ t.state \in {"PENDING", "IN_PROGRESS"} => t.response = ""
    /\ t.state = "COMPLETED" => t.response = "reply"
    /\ t.state = "FAILED" => t.response \in {"Robot error", "Robot disconnected"}

\* The task becomes t.
Becomes(id, t) ==
    /\ m_task_map' = [m_task_map EXCEPT ![id] = t]
    /\ UNCHANGED m_next_task_counter

\* The worker starts the task it has popped.
Beginning ==
    \E id \in TaskId, t \in Task :
        /\ worker.pc = "start" /\ worker.id = id /\ Is(id, "PENDING")
        /\ Becomes(id, t) /\ t.state = "IN_PROGRESS" /\ t.response = m_task_map[id].response

\* The worker finishes the task it has started.
Finishing ==
    \E id \in TaskId, t \in Task :
        /\ Is(id, "IN_PROGRESS")
        /\ Becomes(id, t) /\ t.state \in Finished /\ Fits(t)

\* A poll or a sweep removes finished tasks.
Dropping(S) ==
    /\ \A id \in S : Found(id) /\ m_task_map[id].state \in Finished
    /\ m_task_map' = [id \in TaskId |-> IF id \in S THEN NoTask ELSE m_task_map[id]]
    /\ UNCHANGED m_next_task_counter

LEMMA MainSteps ==
    ASSUME IInv,
           MainNext \/ Signal \/ RobotThread \/ Wakeup \/ SweeperWake \/ SweepSessions
    PROVE  Keeping
<1>1. UNCHANGED <<m_next_task_counter, m_task_map>>
  <2>1. CASE MainNext
    BY <2>1 DEF MainNext, Start, MainCheck, MainBlock, StopRunning, StopTasker, StopSession, Join,
       stop_flag, stop_notify, taskerVars
  <2>2. CASE Signal \/ RobotThread \/ Wakeup \/ SweeperWake \/ SweepSessions
    BY <2>2 DEF Signal, RobotThread, Wakeup, SpuriousWakeup, SweeperWake, SweepSessions, taskerVars
  <2> QED
    BY <2>1, <2>2
<1> QED
  BY <1>1 DEF Keeping, Found

LEMMA TimeSteps ==
    ASSUME IInv, TimePasses
    PROVE  Keeping
<1>1. UNCHANGED m_next_task_counter
  BY DEF TimePasses, Tick
<1>2. ASSUME NEW id \in TaskId
      PROVE  /\ Found(id)' <=> Found(id)
             /\ Found(id) => m_task_map'[id].state = m_task_map[id].state
                             /\ m_task_map'[id].response = m_task_map[id].response
  <2>1. m_task_map'[id] = Older(m_task_map[id])
    BY DEF TimePasses, Tick
  <2>2. CASE ~Found(id)
    BY <2>1, <2>2 DEF Found, Older
  <2>3. CASE Found(id)
    <3>1. m_task_map[id] \in Task
      BY <2>3 DEF IInv, TypeOK, TaskerTypeOK, Found
    <3>2. Older(m_task_map[id]) \in Task
      BY <3>1, TaskOperations DEF Response
    <3>3. /\ Older(m_task_map[id]).state = m_task_map[id].state
          /\ Older(m_task_map[id]).response = m_task_map[id].response
      BY <3>1 DEF Older, Task
    <3> QED
      BY <2>1, <2>3, <3>2, <3>3, NoTaskAssumption DEF Found
  <2> QED
    BY <2>2, <2>3
<1> QED
  BY <1>1, <1>2 DEF Keeping

LEMMA SweepSteps ==
    ASSUME IInv, SweepTasks
    PROVE  \E S \in SUBSET TaskId : Dropping(S)
<1> DEFINE S == {id \in TaskId : Found(id) /\ isExpired(m_task_map[id])}
<1>1. Dropping(S)
  BY DEF SweepTasks, sweepExpiredTasks, Dropping, isExpired
<1> QED
  BY <1>1

LEMMA ServerSteps ==
    ASSUME IInv, ServerNext
    PROVE  Keeping \/ Drawing \/ \E S \in SUBSET TaskId : Dropping(S)
<1>1. CASE ServerTop \/ ServerRecv \/ HandleOther \/ ServerPush \/ ServerNotify
           \/ \E id \in TaskId : HandleCheckTask(id)
  <2>1. UNCHANGED <<m_next_task_counter, m_task_map>>
    BY <1>1 DEF ServerTop, ServerRecv, HandleOther, ServerPush, addTask_push, ServerNotify,
       addTask_notify, HandleCheckTask, taskerVars
  <2> QED
    BY <2>1 DEF Keeping, Found
<1>2. CASE HandleRobotCommand
  <2>1. m_next_task_counter \in TaskId /\ m_next_task_counter \in Nat
    BY <1>2 DEF HandleRobotCommand, addTask_emplace, TaskId
  <2>2. ~Found(m_next_task_counter)
    BY <2>1 DEF IInv, Drawn
  <2> QED
    BY <1>2, <2>1, <2>2 DEF HandleRobotCommand, addTask_emplace, Drawing
<1>3. CASE ServerRemove
  <2> DEFINE S == {id \in TaskId : id = server.id /\ Found(id)}
  <2>1. server.pc = "remove" /\ server.id \in TaskId
    BY <1>3 DEF ServerRemove, IInv, TypeOK
  <2>2. \A id \in S : Found(id) /\ m_task_map[id].state \in Finished
    BY <2>1 DEF IInv, Removing
  <2>3. m_task_map' = [id \in TaskId |-> IF id \in S THEN NoTask ELSE m_task_map[id]]
    <3>1. m_task_map \in [TaskId -> Task \cup {NoTask}]
      BY DEF IInv, TypeOK, TaskerTypeOK
    <3>2. m_task_map' = [m_task_map EXCEPT ![server.id] = NoTask]
      BY <1>3 DEF ServerRemove, removeTask, SetTask
    <3> QED
      BY <3>1, <3>2, <2>1 DEF Found
  <2>4. Dropping(S)
    BY <1>3, <2>2, <2>3 DEF ServerRemove, removeTask, SetTask, Dropping
  <2> QED
    BY <2>4
<1> QED
  BY <1>1, <1>2, <1>3 DEF ServerNext

LEMMA WorkerSteps ==
    ASSUME IInv, WorkerNext
    PROVE  Keeping \/ Beginning \/ Finishing
<1>0. worker.pc \in Working =>
          /\ worker.id \in TaskId /\ Found(worker.id)
          /\ m_task_map[worker.id] \in Task
          /\ worker.pc # "start" => Is(worker.id, "IN_PROGRESS")
  BY DEF IInv, Starting, Executing, TypeOK, TaskerTypeOK, Is, Found, Working
<1>1. CASE WorkerTop \/ WorkerGet \/ WorkerQueue \/ (WorkerConn /\ connected) \/ WorkerWait
  <2>1. UNCHANGED <<m_next_task_counter, m_task_map>>
    BY <1>1 DEF WorkerTop, WorkerGet, WorkerQueue, WorkerConn, WorkerWait, wait_blocks,
       wait_nullopt, wait_pop, taskerVars
  <2> QED
    BY <2>1 DEF Keeping, Found
<1>2. CASE WorkerStart
  <2>0. PICK id \in TaskId : id = worker.id
    BY <1>0, <1>2 DEF WorkerStart, Working
  <2> DEFINE t == m_task_map[id]
             u == markStarted(t)
  <2>1. worker.pc = "start" /\ Is(id, "PENDING") /\ Found(id) /\ t \in Task
    BY <1>0, <1>2, <2>0 DEF WorkerStart, IInv, Starting, Working
  <2>2. u \in Task /\ u.state = "IN_PROGRESS" /\ u.response = t.response
    BY <2>1 DEF markStarted, Task, TaskState, Is
  <2>3. Becomes(id, u)
    BY <1>2, <2>0, <2>1 DEF WorkerStart, startTask, SetTask, Becomes
  <2> QED
    BY <2>0, <2>1, <2>2, <2>3 DEF Beginning
<1>3. CASE (WorkerConn /\ ~connected) \/ WorkerAwait
  <2>0. PICK id \in TaskId : id = worker.id
    BY <1>0, <1>3 DEF WorkerConn, WorkerAwait, Working
  <2> DEFINE t == m_task_map[id]
  <2>1. Is(id, "IN_PROGRESS") /\ Found(id) /\ t \in Task /\ t.state = "IN_PROGRESS"
    BY <1>0, <1>3, <2>0 DEF WorkerConn, WorkerAwait, Working, Is
  <2>2. \/ completeTask(id, "reply")
        \/ \E r \in {"Robot error", "Robot disconnected"} : failTask(id, r)
    BY <1>3, <2>0 DEF WorkerConn, WorkerAwait
  <2>3. CASE completeTask(id, "reply")
    <3> DEFINE u == setResponse(markCompleted(t), "reply")
    <3>1. u \in Task
      BY <2>1, TaskOperations DEF Response
    <3>2. u.state = "COMPLETED" /\ u.response = "reply"
      BY <2>1 DEF markCompleted, setResponse, Task
    <3>3. Becomes(id, u)
      BY <2>1, <2>3 DEF completeTask, SetTask, Becomes
    <3> QED
      BY <2>1, <3>1, <3>2, <3>3 DEF Finishing, Finished, Fits
  <2>4. ASSUME NEW r \in {"Robot error", "Robot disconnected"}, failTask(id, r) PROVE Finishing
    <3> DEFINE u == setResponse(markFailed(t), r)
    <3>1. u \in Task
      BY <2>1, TaskOperations DEF Response
    <3>2. u.state = "FAILED" /\ u.response = r
      BY <2>1 DEF markFailed, setResponse, Task
    <3>3. Becomes(id, u)
      BY <2>1, <2>4 DEF failTask, SetTask, Becomes
    <3> QED
      BY <2>1, <3>1, <3>2, <3>3 DEF Finishing, Finished, Fits
  <2> QED
    BY <2>2, <2>3, <2>4
<1> QED
  BY <1>1, <1>2, <1>3 DEF WorkerNext

\* Every step of the threads does one of five things to the tasks.
LEMMA StepKinds ==
    ASSUME IInv, [Next]_vars
    PROVE  \/ Keeping \/ Drawing \/ Beginning \/ Finishing
           \/ \E S \in SUBSET TaskId : Dropping(S)
<1>1. CASE Next
  BY <1>1, MainSteps, TimeSteps, SweepSteps, ServerSteps, WorkerSteps DEF Next, SweeperNext
<1>2. CASE UNCHANGED vars
  BY <1>2 DEF vars, Keeping, Found
<1> QED
  BY <1>1, <1>2

-----------------------------------------------------------------------------
(* A task and its response agree *)

AllFit == \A id \in TaskId : Found(id) => Fits(m_task_map[id])

LEMMA FitNext == IInv /\ AllFit /\ [Next]_vars => AllFit'
<1> SUFFICES ASSUME IInv, AllFit, [Next]_vars, NEW id \in TaskId, Found(id)'
             PROVE  Fits(m_task_map'[id])
  BY DEF AllFit, Fits
<1>0. m_task_map \in [TaskId -> Task \cup {NoTask}]
  BY DEF IInv, TypeOK, TaskerTypeOK
<1>1. Found(id) => Fits(m_task_map[id])
  BY DEF AllFit
<1>2. CASE Keeping
  BY <1>1, <1>2 DEF Keeping, Fits
<1>3. CASE Drawing
  <2>1. Fits(NewTask)
    BY DEF Fits, NewTask
  <2> QED
    BY <1>0, <1>1, <1>3, <2>1 DEF Drawing, Found
<1>4. CASE Beginning
  <2>1. PICK begun \in TaskId, t \in Task :
            /\ Is(begun, "PENDING") /\ Becomes(begun, t)
            /\ t.state = "IN_PROGRESS" /\ t.response = m_task_map[begun].response
    BY <1>4 DEF Beginning
  <2>2. Fits(t)
    BY <2>1 DEF AllFit, Fits, Is
  <2> QED
    BY <1>0, <1>1, <2>1, <2>2 DEF Becomes, Found
<1>5. CASE Finishing
  BY <1>0, <1>1, <1>5 DEF Finishing, Becomes, Found
<1>6. ASSUME NEW S \in SUBSET TaskId, Dropping(S) PROVE Fits(m_task_map'[id])
  BY <1>1, <1>6 DEF Dropping, Found
<1> QED
  BY <1>2, <1>3, <1>4, <1>5, <1>6, StepKinds

\* Although completeTask and failTask store the response whatever the mark method
\* answered, a poll never sees a state with the response of another one.
THEOREM ResponseAgreesWithState == Spec => []ResponseFitsState
<1>1. Init => AllFit
  BY DEF Init, TaskerInit, AllFit, Found
<1>2. AllFit => ResponseFitsState
  BY DEF AllFit, Fits, ResponseFitsState, StateOf
<1> QED
  BY <1>1, <1>2, FitNext, Invariant, PTL DEF Spec

-----------------------------------------------------------------------------
(* The threads implement TaskBoard *)

Phases == [id \in TaskId |-> StateOf(id)]

LEMMA PhaseOf ==
    ASSUME IInv, NEW id \in TaskId
    PROVE  /\ Phases[id] = StateOf(id)
           /\ \A state \in TaskState : Is(id, state) <=> Phases[id] = state
           /\ ~Found(id) <=> Phases[id] \in {"gone", "none"}
           /\ Phases[id] = "none" <=> id >= m_next_task_counter
<1>1. Found(id) => m_task_map[id] \in Task /\ m_task_map[id].state \in TaskState
  BY DEF IInv, TypeOK, TaskerTypeOK, Found, Task
<1>2. Found(id) => id < m_next_task_counter
  BY DEF IInv, Drawn
<1>3. id \in Nat /\ m_next_task_counter \in Nat
  BY DEF IInv, TypeOK, TaskerTypeOK, TaskId
<1>4. Phases[id] = StateOf(id)
  BY DEF Phases
<1> QED
  BY <1>1, <1>2, <1>3, <1>4 DEF StateOf, Is, TaskState

LEMMA BoardStep == IInv /\ IInv' /\ [Next]_vars => [Board!BoardNext]_Phases
<1> SUFFICES ASSUME IInv, IInv', [Next]_vars PROVE Board!BoardNext \/ Phases' = Phases
  OBVIOUS
<1>0. m_task_map \in [TaskId -> Task \cup {NoTask}] /\ Board!Ids = TaskId
  BY DEF IInv, TypeOK, TaskerTypeOK, Board!Ids, TaskId
<1>1. CASE Keeping
  BY <1>1 DEF Keeping, Phases, StateOf
<1>2. CASE Drawing
  <2>0. PICK new \in TaskId : new = m_next_task_counter
    BY <1>2 DEF Drawing
  <2>1. /\ new \in Nat /\ \A id \in TaskId : id \in Nat
        /\ m_next_task_counter' = new + 1
        /\ m_task_map' = [m_task_map EXCEPT ![new] = NewTask]
    BY <1>2, <2>0 DEF Drawing, TaskId
  <2>2. Phases[new] = "none" /\ \A other \in TaskId : other < new => Phases[other] # "none"
    BY <2>0, <2>1, PhaseOf
  <2>3. Phases' = [Phases EXCEPT ![new] = "PENDING"]
    <3>1. NewTask \in Task /\ NewTask # NoTask /\ NewTask.state = "PENDING"
      BY NewTaskIsTask, NoTaskAssumption DEF NewTask
    <3>2. StateOf(new)' = "PENDING"
      BY <1>0, <2>1, <3>1 DEF StateOf, Found
    <3>3. \A id \in TaskId : id # new => StateOf(id)' = StateOf(id)
      BY <1>0, <2>0, <2>1 DEF StateOf, Found
    <3> QED
      BY <3>2, <3>3 DEF Phases
  <2>4. Board!Submit(new)
    BY <1>0, <2>2, <2>3 DEF Board!Submit, Phases
  <2> QED
    BY <1>0, <2>4 DEF Board!BoardNext
<1>3. ASSUME NEW id \in TaskId, NEW t \in Task, Becomes(id, t), Found(id)
      PROVE  Phases' = [Phases EXCEPT ![id] = t.state]
  <2>1. m_task_map' = [m_task_map EXCEPT ![id] = t] /\ UNCHANGED m_next_task_counter
    BY <1>3 DEF Becomes
  <2>2. StateOf(id)' = t.state
    BY <1>0, <1>3, <2>1, NoTaskAssumption DEF StateOf, Found
  <2>3. \A other \in TaskId : other # id => StateOf(other)' = StateOf(other)
    BY <1>0, <2>1 DEF StateOf, Found
  <2> QED
    BY <2>2, <2>3 DEF Phases
<1>4. CASE Beginning
  <2>1. PICK id \in TaskId, t \in Task :
            /\ worker.pc = "start" /\ worker.id = id /\ Is(id, "PENDING")
            /\ Becomes(id, t) /\ t.state = "IN_PROGRESS"
    BY <1>4 DEF Beginning
  <2>2. Phases[id] = "PENDING" /\ Phases' = [Phases EXCEPT ![id] = "IN_PROGRESS"]
    BY <1>3, <2>1, PhaseOf DEF Is, TaskState
  <2>3. \A other \in TaskId : Phases[other] # "IN_PROGRESS"
    BY <2>1, PhaseOf DEF IInv, InProgressInHand, TaskState
  <2>4. ASSUME NEW other \in TaskId, other < id PROVE Phases[other] # "PENDING"
    <3>0. id \in Nat /\ other \in Nat
      BY DEF TaskId
    <3>1. ~InHand(other)
      BY <2>1, <2>4, <3>0 DEF InHand, IInv, Starting
    <3>2. ~Queued(other)
      BY <2>1, <2>4, <3>0 DEF Queued, IInv, Starting
    <3> QED
      BY <3>1, <3>2, PhaseOf DEF IInv, PendingInReach, TaskState
  <2>5. Board!Begin(id)
    BY <1>0, <2>2, <2>3, <2>4 DEF Board!Begin, Phases
  <2> QED
    BY <1>0, <2>5 DEF Board!BoardNext
<1>5. CASE Finishing
  <2>1. PICK id \in TaskId, t \in Task :
            Is(id, "IN_PROGRESS") /\ Becomes(id, t) /\ t.state \in Finished
    BY <1>5 DEF Finishing
  <2>2. Phases[id] = "IN_PROGRESS" /\ Phases' = [Phases EXCEPT ![id] = t.state]
    BY <1>3, <2>1, PhaseOf DEF Is, TaskState
  <2>3. Board!Finish(id)
    BY <2>1, <2>2 DEF Board!Finish, Phases, Finished
  <2> QED
    BY <1>0, <2>3 DEF Board!BoardNext
<1>6. ASSUME NEW S \in SUBSET TaskId, Dropping(S) PROVE Board!BoardNext
  <2>1. \A id \in S : Phases[id] \in {"COMPLETED", "FAILED"}
    BY <1>6, PhaseOf DEF Dropping, Is, Finished, TaskState
  <2>2. \A id \in S : StateOf(id)' = "gone"
    BY <1>6 DEF Dropping, StateOf, Found, IInv, Drawn
  <2>3. \A id \in TaskId \ S : StateOf(id)' = StateOf(id)
    BY <1>6 DEF Dropping, StateOf, Found
  <2>4. Phases' = [id \in TaskId |-> IF id \in S THEN "gone" ELSE Phases[id]]
    BY <2>2, <2>3 DEF Phases
  <2>5. Board!Forget(S)
    BY <1>0, <2>1, <2>4 DEF Board!Forget, Phases
  <2> QED
    BY <1>0, <2>5 DEF Board!BoardNext
<1> QED
  BY <1>1, <1>2, <1>4, <1>5, <1>6, StepKinds

\* The threads, with their queue and map, do nothing that the board of tasks does
\* not allow: ids are submitted in order, started in order and one at a time,
\* finished once and forgotten only when finished.
THEOREM Refinement == Spec => RefinesTaskBoard
<1>1. Init => Board!BoardInit
  <2> SUFFICES ASSUME Init PROVE Board!BoardInit
    OBVIOUS
  <2>1. \A id \in TaskId : ~Found(id) /\ ~(id < m_next_task_counter)
    BY DEF Init, TaskerInit, Found, TaskId
  <2> QED
    BY <2>1 DEF Board!BoardInit, Board!Ids, TaskId, StateOf
<1> QED
  BY <1>1, BoardStep, Invariant, PTL DEF Spec, RefinesTaskBoard, Board!BoardSpec, Phases
=============================================================================
