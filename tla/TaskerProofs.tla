---------------------------- MODULE TaskerProofs ----------------------------
(***************************************************************************)
(* What the operations of module Tasker do to one task and to the types of  *)
(* the registry: the lemmas that the proofs about Server and Middleware     *)
(* share.                                                                   *)
(***************************************************************************)
EXTENDS Tasker, TLAPS

-----------------------------------------------------------------------------
(* class Task *)

\* The mark methods and setResponse keep a task a task.
LEMMA TaskOperations ==
    ASSUME NEW t \in Task, NEW r \in Response
    PROVE  /\ markStarted(t) \in Task
           /\ setResponse(markCompleted(t), r) \in Task
           /\ setResponse(markFailed(t), r) \in Task
           /\ t # NoTask /\ Older(t) \in Task
<1>1. /\ 0 \in 0..Expiration
      /\ t.age < Expiration => t.age + 1 \in 0..Expiration
  BY ExpirationAssumption DEF Task
<1>2. t # NoTask
  BY NoTaskAssumption
<1>3. markStarted(t) \in Task
  BY DEF Task, markStarted, TaskState
<1>4. markCompleted(t) \in Task /\ markFailed(t) \in Task
  BY <1>1 DEF Task, markCompleted, markFailed, TaskState
<1>5. \A u \in Task : setResponse(u, r) \in Task
  BY DEF Task, setResponse
<1>6. Older(t) \in Task
  BY <1>1, <1>2 DEF Task, Older
<1> QED
  BY <1>2, <1>3, <1>4, <1>5, <1>6

\* addTask puts a task in the map.
LEMMA NewTaskIsTask == NewTask \in Task
  BY ExpirationAssumption DEF Task, NewTask, TaskState, Response

\* What the mark methods do to the state, which their guards decide.
LEMMA TaskStates ==
    ASSUME NEW t \in Task, NEW r \in Response
    PROVE  /\ markStarted(t).state = IF t.state = "PENDING" THEN "IN_PROGRESS" ELSE t.state
           /\ setResponse(markCompleted(t), r).state =
                  IF t.state = "IN_PROGRESS" THEN "COMPLETED" ELSE t.state
           /\ setResponse(markFailed(t), r).state =
                  IF t.state = "IN_PROGRESS" THEN "FAILED" ELSE t.state
           /\ Older(t).state = t.state
           /\ NewTask.state = "PENDING"
  BY DEF Task, markStarted, markCompleted, markFailed, setResponse, Older, NewTask

-----------------------------------------------------------------------------
(* class Tasker *)

\* Every operator of the Tasker keeps the Tasker's types.
LEMMA TaskerTypes ==
    ASSUME TaskerTypeOK, NEW id \in TaskId, NEW r \in Response
    PROVE  /\ addTask_emplace => TaskerTypeOK'
           /\ addTask_push(id) => TaskerTypeOK'
           /\ addTask_notify \/ stop_notify \/ SpuriousWakeup => TaskerTypeOK'
           /\ startTask(id) => TaskerTypeOK'
           /\ completeTask(id, r) \/ failTask(id, r) => TaskerTypeOK'
           /\ removeTask(id) => TaskerTypeOK'
           /\ sweepExpiredTasks \/ Tick => TaskerTypeOK'
           /\ wait_blocks \/ wait_nullopt => TaskerTypeOK'
           /\ wait_pop => TaskerTypeOK'
           /\ stop_flag => TaskerTypeOK'
           /\ UNCHANGED taskerVars => TaskerTypeOK'
<1> USE DEF TaskerTypeOK
<1>1. addTask_emplace => TaskerTypeOK'
  <2> SUFFICES ASSUME addTask_emplace PROVE TaskerTypeOK'
    OBVIOUS
  <2>1. m_next_task_counter' \in 1..(MaxTasks + 1)
    BY MaxTasksAssumption DEF addTask_emplace, TaskId
  <2>2. m_task_map' \in [TaskId -> Task \cup {NoTask}]
    BY NewTaskIsTask DEF addTask_emplace
  <2> QED
    BY <2>1, <2>2 DEF addTask_emplace
<1>2. addTask_push(id) => TaskerTypeOK'
  BY DEF addTask_push
<1>3. addTask_notify \/ stop_notify \/ SpuriousWakeup => TaskerTypeOK'
  BY DEF addTask_notify, stop_notify, SpuriousWakeup
<1>4. startTask(id) => TaskerTypeOK'
  BY TaskOperations DEF startTask, Found, SetTask, taskerVars
<1>5. completeTask(id, r) \/ failTask(id, r) => TaskerTypeOK'
  <2> SUFFICES ASSUME completeTask(id, r) \/ failTask(id, r), Found(id)
               PROVE  TaskerTypeOK'
    BY DEF completeTask, failTask, taskerVars
  <2> DEFINE t == m_task_map[id]
  <2>1. t \in Task
    BY DEF Found
  <2>2. /\ setResponse(markCompleted(t), r) \in Task
        /\ setResponse(markFailed(t), r) \in Task
    BY <2>1, TaskOperations
  <2> QED
    BY <2>2 DEF completeTask, failTask, SetTask
<1>6. removeTask(id) => TaskerTypeOK'
  BY DEF removeTask, SetTask
<1>7. sweepExpiredTasks \/ Tick => TaskerTypeOK'
  BY TaskOperations DEF sweepExpiredTasks, Tick, Found, Older
<1>8. wait_blocks \/ wait_nullopt => TaskerTypeOK'
  BY DEF wait_blocks, wait_nullopt, taskerVars
<1>9. wait_pop => TaskerTypeOK'
  BY DEF wait_pop
<1>10. stop_flag => TaskerTypeOK'
  BY DEF stop_flag
<1>11. UNCHANGED taskerVars => TaskerTypeOK'
  BY DEF taskerVars
<1> QED
  BY <1>1, <1>2, <1>3, <1>4, <1>5, <1>6, <1>7, <1>8, <1>9, <1>10, <1>11
=============================================================================
