------------------------------- MODULE Tasker -------------------------------
(***************************************************************************)
(* The task registry of src/src/server/tasker.{hpp,cpp}: the map of tasks   *)
(* that clients poll, the queue of task ids that the robot worker consumes  *)
(* and the condition variable that connects them.  Every critical section   *)
(* of a method (m_map_mutex or m_queue_mutex held) is one operator below;   *)
(* a method with two critical sections is two operators.  The threads that  *)
(* call them are in module Server.                                          *)
(***************************************************************************)
EXTENDS Naturals, Sequences

CONSTANTS
    MaxTasks,    \* bound on the ids m_next_task_counter hands out (uint64 in the code)
    Expiration,  \* ticks a finished task stays pollable (300 s in Task::isExpired)
    NoTask       \* m_task_map.find(id) == end()

TaskId == 1..MaxTasks

TaskState == {"PENDING", "IN_PROGRESS", "COMPLETED", "FAILED"}

Finished == {"COMPLETED", "FAILED"}

\* Who produced Task::m_response: nobody yet, the robot (accepted), the robot
\* (ERR: or NACK), or the robot worker after it gave up.
Response == {"", "reply", "Robot error", "Robot disconnected"}

\* age is the time since m_end_time, counted up to Expiration.
Task == [state: TaskState, response: Response, age: 0..Expiration]

ASSUME MaxTasksAssumption == MaxTasks \in Nat \ {0}
ASSUME ExpirationAssumption == Expiration \in Nat \ {0}
ASSUME NoTaskAssumption == NoTask \notin Task

VARIABLES
    m_next_task_counter,  \* next id
    m_task_map,           \* id -> Task, or NoTask
    m_task_queue,         \* ids waiting for the robot worker
    m_queue_cv,           \* threads blocked in m_queue_cv.wait
    m_shutdown            \* set by stop()

taskerVars == <<m_next_task_counter, m_task_map, m_task_queue, m_queue_cv, m_shutdown>>

TaskerTypeOK ==
    /\ m_next_task_counter \in 1..(MaxTasks + 1)
    /\ m_task_map \in [TaskId -> Task \cup {NoTask}]
    /\ m_task_queue \in Seq(TaskId)
    /\ m_queue_cv \subseteq {"worker"}
    /\ m_shutdown \in BOOLEAN

TaskerInit ==
    /\ m_next_task_counter = 1
    /\ m_task_map = [id \in TaskId |-> NoTask]
    /\ m_task_queue = <<>>
    /\ m_queue_cv = {}
    /\ m_shutdown = FALSE

-----------------------------------------------------------------------------
(* class Task *)

NewTask == [state |-> "PENDING", response |-> "", age |-> 0]

\* Mutant: the guard of markStarted inverted.
markStarted_Inverted(t) ==
    IF t.state # "PENDING" THEN [t EXCEPT !.state = "IN_PROGRESS"] ELSE t

markStarted(t) == IF t.state = "PENDING" THEN [t EXCEPT !.state = "IN_PROGRESS"] ELSE t

markCompleted(t) ==
    IF t.state = "IN_PROGRESS" THEN [t EXCEPT !.state = "COMPLETED", !.age = 0] ELSE t

markFailed(t) ==
    IF t.state = "IN_PROGRESS" THEN [t EXCEPT !.state = "FAILED", !.age = 0] ELSE t

setResponse(t, response) == [t EXCEPT !.response = response]

\* Mutant: without the test of the state, m_end_time is the epoch of an
\* unfinished task.
isExpired_NoStateCheck(t) == t.state \notin Finished \/ t.age = Expiration

\* Mutant: FAILED tasks forgotten.
isExpired_CompletedOnly(t) == t.state = "COMPLETED" /\ t.age = Expiration

isExpired(t) == t.state \in Finished /\ t.age = Expiration

\* One tick of the steady clock, seen by a task.
Older(t) == IF t # NoTask /\ t.state \in Finished /\ t.age < Expiration
            THEN [t EXCEPT !.age = @ + 1] ELSE t

-----------------------------------------------------------------------------
(* class Tasker *)

Found(id) == m_task_map[id] # NoTask

\* addTask, first critical section: the id is drawn from the counter and the
\* PENDING task is put in the map.
addTask_emplace ==
    /\ m_next_task_counter \in TaskId
    /\ m_next_task_counter' = m_next_task_counter + 1
    /\ m_task_map' = [m_task_map EXCEPT ![m_next_task_counter] = NewTask]
    /\ UNCHANGED <<m_task_queue, m_queue_cv, m_shutdown>>

\* Mutant: the counter is read again instead of the id that was drawn.
addTask_push_NextId(id) ==
    /\ m_task_queue' = Append(m_task_queue, m_next_task_counter)
    /\ UNCHANGED <<m_next_task_counter, m_task_map, m_queue_cv, m_shutdown>>

\* Mutant: a stack in place of the queue.
addTask_push_Front(id) ==
    /\ m_task_queue' = <<id>> \o m_task_queue
    /\ UNCHANGED <<m_next_task_counter, m_task_map, m_queue_cv, m_shutdown>>

\* addTask, second critical section: the id enters the queue.
addTask_push(id) ==
    /\ m_task_queue' = Append(m_task_queue, id)
    /\ UNCHANGED <<m_next_task_counter, m_task_map, m_queue_cv, m_shutdown>>

\* Mutant: nobody is notified.
addTask_notify_None == UNCHANGED taskerVars

\* addTask, notify_one after both sections; only the worker ever waits.
addTask_notify ==
    /\ m_queue_cv' = {}
    /\ UNCHANGED <<m_next_task_counter, m_task_map, m_task_queue, m_shutdown>>

SetTask(id, t) ==
    /\ m_task_map' = [m_task_map EXCEPT ![id] = t]
    /\ UNCHANGED <<m_next_task_counter, m_task_queue, m_queue_cv, m_shutdown>>

\* startTask, completeTask and failTask return false when the id is not in the
\* map; otherwise they ignore what the mark method answers.
startTask(id) ==
    IF Found(id) THEN SetTask(id, markStarted(m_task_map[id])) ELSE UNCHANGED taskerVars

completeTask(id, response) ==
    IF Found(id) THEN SetTask(id, setResponse(markCompleted(m_task_map[id]), response))
                 ELSE UNCHANGED taskerVars

\* Mutant: failTask copied from completeTask.
failTask_MarksCompleted(id, response) ==
    IF Found(id) THEN SetTask(id, setResponse(markCompleted(m_task_map[id]), response))
                 ELSE UNCHANGED taskerVars

failTask(id, response) ==
    IF Found(id) THEN SetTask(id, setResponse(markFailed(m_task_map[id]), response))
                 ELSE UNCHANGED taskerVars

removeTask(id) == SetTask(id, NoTask)

\* The loop over the map under one unique_lock.  The method's own argument is
\* ignored: isExpired() always takes its default of 300 s.
sweepExpiredTasks ==
    /\ m_task_map' = [id \in TaskId |-> IF Found(id) /\ isExpired(m_task_map[id])
                                        THEN NoTask ELSE m_task_map[id]]
    /\ UNCHANGED <<m_next_task_counter, m_task_queue, m_queue_cv, m_shutdown>>

\* waitForNextTask, by what its predicate and the test after the wait decide:
\* block, return std::nullopt, or return and pop the front of the queue.
wait_blocks ==
    /\ m_task_queue = <<>> /\ ~m_shutdown
    /\ m_queue_cv' = m_queue_cv \cup {"worker"}
    /\ UNCHANGED <<m_next_task_counter, m_task_map, m_task_queue, m_shutdown>>

wait_nullopt == m_task_queue = <<>> /\ m_shutdown /\ UNCHANGED taskerVars

wait_pop ==
    /\ m_task_queue # <<>>
    /\ m_task_queue' = Tail(m_task_queue)
    /\ UNCHANGED <<m_next_task_counter, m_task_map, m_queue_cv, m_shutdown>>

\* stop(): the flag under m_queue_mutex, then notify_all.
stop_flag ==
    /\ m_shutdown' = TRUE
    /\ UNCHANGED <<m_next_task_counter, m_task_map, m_task_queue, m_queue_cv>>

\* Mutant: the sleeping worker is not woken.
stop_notify_None == UNCHANGED taskerVars

stop_notify ==
    /\ m_queue_cv' = {}
    /\ UNCHANGED <<m_next_task_counter, m_task_map, m_task_queue, m_shutdown>>

\* A condition variable may wake a waiter without a notification.
SpuriousWakeup ==
    /\ m_queue_cv # {}
    /\ m_queue_cv' = {}
    /\ UNCHANGED <<m_next_task_counter, m_task_map, m_task_queue, m_shutdown>>

Tick ==
    /\ m_task_map' = [id \in TaskId |-> Older(m_task_map[id])]
    /\ UNCHANGED <<m_next_task_counter, m_task_queue, m_queue_cv, m_shutdown>>
=============================================================================
