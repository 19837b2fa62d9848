---------------------------- MODULE ServerProofs ----------------------------
(***************************************************************************)
(* Proofs about module Server: its type invariant and, from an inductive    *)
(* invariant, that no accepted task is lost or abandoned and that the queue *)
(* holds PENDING tasks in the order of their ids.                           *)
(***************************************************************************)
EXTENDS Server, TaskerProofs

-----------------------------------------------------------------------------
(* Type correctness *)

\* The types hold initially.
LEMMA TypesInit == Init => TypeOK
<1> SUFFICES ASSUME Init PROVE TypeOK
  OBVIOUS
<1>1. 1 \in 1..(MaxTasks + 1) /\ 0 \in 0..MaxTasks
  BY MaxTasksAssumption
<1>2. TaskerTypeOK
  <2>1. m_task_map \in [TaskId -> Task \cup {NoTask}]
    BY DEF Init, TaskerInit
  <2>2. m_task_queue \in Seq(TaskId)
    BY DEF Init, TaskerInit
  <2>3. m_queue_cv \subseteq {"worker"} /\ m_shutdown \in BOOLEAN
    BY DEF Init, TaskerInit
  <2> QED
    BY <1>1, <2>1, <2>2, <2>3 DEF Init, TaskerInit, TaskerTypeOK
<1>3. /\ server \in [pc: ServerPc, id: 0..MaxTasks] /\ server.pc = "none"
      /\ worker \in [pc: WorkerPc, id: 0..MaxTasks] /\ worker.pc = "none"
  BY <1>1 DEF Init, ServerPc, WorkerPc
<1>4. sweeper \in SweeperPc /\ main \in MainPc
  BY DEF Init, SweeperPc, MainPc
<1> QED
  BY <1>2, <1>3, <1>4 DEF Init, TypeOK, Working

\* A step of main, or one that only the environment takes.
LEMMA TypesMain ==
    ASSUME TypeOK, MainNext \/ Signal \/ RobotThread \/ TimePasses \/ Wakeup
    PROVE  TypeOK'
<1> USE DEF TypeOK
<1>1. TaskerTypeOK
  OBVIOUS
<1>2. 1 \in TaskId /\ "" \in Response
  BY MaxTasksAssumption DEF TaskId, Response
<1>3. stop_flag \/ stop_notify \/ SpuriousWakeup \/ Tick \/ UNCHANGED taskerVars => TaskerTypeOK'
  BY <1>1, <1>2, TaskerTypes
<1>4. CASE Start
  <2>1. TaskerTypeOK' /\ main' \in MainPc
    BY <1>3, <1>4 DEF Start, MainAt, MainPc
  <2>2. /\ server'.pc \in {server.pc, "top"} /\ server' \in [pc: ServerPc, id: 0..MaxTasks]
        /\ worker'.pc \in {worker.pc, "top"} /\ worker' \in [pc: WorkerPc, id: 0..MaxTasks]
        /\ server'.id = server.id /\ worker'.id = worker.id
    BY <1>4 DEF Start, ServerPc, WorkerPc
  <2> QED
    BY <1>4, <2>1, <2>2 DEF Start, Working, SweeperPc
<1>5. CASE MainCheck \/ MainBlock \/ Signal \/ StopRunning \/ StopTasker \/ StopSession \/ Join
  <2>1. TaskerTypeOK'
    BY <1>3, <1>5 DEF MainCheck, MainBlock, Signal, StopRunning, StopTasker, StopSession, Join
  <2>2. main' \in MainPc
    BY <1>5 DEF MainCheck, MainBlock, Signal, StopRunning, StopTasker, StopSession, Join,
       MainAt, MainPc
  <2> QED
    BY <1>5, <2>1, <2>2 DEF MainCheck, MainBlock, Signal, StopRunning, StopTasker, StopSession,
       Join
<1>6. CASE RobotThread \/ TimePasses \/ Wakeup
  BY <1>3, <1>6 DEF RobotThread, TimePasses, Wakeup, threadVars
<1> QED
  BY <1>4, <1>5, <1>6 DEF MainNext

\* A step of the server thread.
LEMMA TypesServer ==
    ASSUME TypeOK, ServerNext
    PROVE  TypeOK'
<1> USE DEF TypeOK
<1>1. TaskerTypeOK
  OBVIOUS
<1>2. /\ "" \in Response /\ 0 \in 0..MaxTasks
      /\ \A id \in TaskId : id \in 0..MaxTasks
  BY MaxTasksAssumption DEF Response, TaskId
<1>3. CASE ServerTop \/ ServerRecv \/ HandleOther
  <2>1. TaskerTypeOK'
    BY <1>3 DEF ServerTop, ServerRecv, HandleOther, TaskerTypeOK, taskerVars
  <2>2. \/ server' = [pc |-> "top", id |-> 0]
        \/ \E next \in {"top", "recv", "handle", "exited", "threw"} :
              server' = [server EXCEPT !.pc = next]
    BY <1>3 DEF ServerTop, ServerRecv, HandleOther, ServerAt, Replied
  <2>3. {"top", "recv", "handle", "exited", "threw"} \subseteq ServerPc
    BY DEF ServerPc
  <2>4. server' \in [pc: ServerPc, id: 0..MaxTasks] /\ server'.pc \notin {"push", "notify", "remove"}
    <3>1. CASE server' = [pc |-> "top", id |-> 0]
      BY <1>2, <2>3, <3>1
    <3>2. ASSUME NEW next \in {"top", "recv", "handle", "exited", "threw"},
                 server' = [server EXCEPT !.pc = next]
          PROVE  /\ server' \in [pc: ServerPc, id: 0..MaxTasks]
                 /\ server'.pc = next
      BY <2>3, <3>2
    <3> QED
      BY <2>2, <3>1, <3>2
  <2> QED
    BY <1>3, <2>1, <2>4 DEF ServerTop, ServerRecv, HandleOther, OtherThanServer
<1>4. CASE HandleRobotCommand
  <2>1. m_next_task_counter \in TaskId /\ TaskerTypeOK'
    BY <1>1, <1>2, <1>4, TaskerTypes DEF HandleRobotCommand, addTask_emplace
  <2> QED
    BY <1>2, <1>4, <2>1 DEF HandleRobotCommand, OtherThanServer, ServerPc
<1>5. CASE ServerPush
  <2>1. server.id \in TaskId /\ TaskerTypeOK'
    BY <1>1, <1>2, <1>5, TaskerTypes DEF ServerPush, ServerAt
  <2> QED
    BY <1>5, <2>1 DEF ServerPush, ServerAt, OtherThanServer, ServerPc
<1>6. CASE ServerNotify
  <2>1. server.id \in TaskId /\ TaskerTypeOK'
    BY <1>1, <1>2, <1>6, TaskerTypes DEF ServerNotify
  <2> QED
    BY <1>2, <1>6, <2>1 DEF ServerNotify, Replied, OtherThanServer, ServerPc
<1>7. CASE ServerRemove
  <2>1. server.id \in TaskId /\ TaskerTypeOK'
    BY <1>1, <1>2, <1>7, TaskerTypes DEF ServerRemove
  <2> QED
    BY <1>2, <1>7, <2>1 DEF ServerRemove, Replied, OtherThanServer, ServerPc
<1>8. ASSUME NEW id \in TaskId, HandleCheckTask(id) PROVE TypeOK'
  <2>1. TaskerTypeOK'
    BY <1>8 DEF HandleCheckTask, TaskerTypeOK, taskerVars
  <2>2. server' \in {[pc |-> "remove", id |-> id], [pc |-> "top", id |-> 0]}
    BY <1>8 DEF HandleCheckTask, Replied
  <2>3. /\ server' \in [pc: ServerPc, id: 0..MaxTasks]
        /\ server'.pc \in {"push", "notify", "remove"} => server'.id \in TaskId
    <3>1. "remove" \in ServerPc /\ "top" \in ServerPc
      BY DEF ServerPc
    <3>2. CASE server' = [pc |-> "remove", id |-> id]
      BY <1>2, <3>1, <3>2
    <3>3. CASE server' = [pc |-> "top", id |-> 0]
      BY <1>2, <3>1, <3>3
    <3> QED
      BY <2>2, <3>2, <3>3
  <2> QED
    BY <1>8, <2>1, <2>3 DEF HandleCheckTask, OtherThanServer
<1> QED
  BY <1>3, <1>4, <1>5, <1>6, <1>7, <1>8 DEF ServerNext

\* A step of the robot worker.
LEMMA TypesWorker ==
    ASSUME TypeOK, WorkerNext
    PROVE  TypeOK'
<1> USE DEF TypeOK
<1>1. TaskerTypeOK
  OBVIOUS
<1>2. /\ {"reply", "Robot error", "Robot disconnected"} \subseteq Response
      /\ 0 \in 0..MaxTasks /\ 1 \in TaskId
      /\ \A id \in TaskId : id \in 0..MaxTasks
  BY MaxTasksAssumption DEF Response, TaskId
<1>3. CASE WorkerTop
  BY <1>3 DEF WorkerTop, WorkerAt, OtherThanWorker, WorkerPc, Working, TaskerTypeOK, taskerVars
<1>4. CASE WorkerWait
  <2>1. TaskerTypeOK'
    BY <1>1, <1>2, <1>4, TaskerTypes DEF WorkerWait
  <2>2. wait_pop => Head(m_task_queue) \in TaskId
    BY <1>1 DEF wait_pop, TaskerTypeOK
  <2>3. \/ worker' = worker
        \/ worker' = [worker EXCEPT !.pc = "exited"]
        \/ \E id \in TaskId : worker' = [pc |-> "start", id |-> id]
    BY <1>4, <2>2 DEF WorkerWait, WorkerAt
  <2>4. /\ worker' \in [pc: WorkerPc, id: 0..MaxTasks]
        /\ worker'.pc \in Working => worker'.id \in TaskId
    <3>1. {"exited", "start"} \subseteq WorkerPc /\ "exited" \notin Working
      BY DEF WorkerPc, Working
    <3>2. CASE worker' = worker
      BY <3>2
    <3>3. CASE worker' = [worker EXCEPT !.pc = "exited"]
      BY <3>1, <3>3
    <3>4. ASSUME NEW id \in TaskId, worker' = [pc |-> "start", id |-> id]
          PROVE  /\ worker' \in [pc: WorkerPc, id: 0..MaxTasks]
                 /\ worker'.id \in TaskId
      BY <1>2, <3>1, <3>4
    <3> QED
      BY <2>3, <3>2, <3>3, <3>4
  <2> QED
    BY <1>4, <2>1, <2>4 DEF WorkerWait, OtherThanWorker
<1>5. CASE WorkerStart \/ WorkerGet \/ WorkerConn \/ WorkerQueue \/ WorkerAwait
  <2>1. worker.id \in TaskId
    BY <1>5 DEF WorkerStart, WorkerGet, WorkerConn, WorkerQueue, WorkerAwait, WorkerAt, Working
  <2>2. \/ startTask(worker.id) \/ UNCHANGED taskerVars
        \/ \E r \in Response : completeTask(worker.id, r) \/ failTask(worker.id, r)
    BY <1>2, <1>5 DEF WorkerStart, WorkerGet, WorkerConn, WorkerQueue, WorkerAwait
  <2>3. TaskerTypeOK'
    BY <1>1, <1>2, <2>1, <2>2, TaskerTypes
  <2>4. \/ worker' = [pc |-> "top", id |-> 0]
        \/ \E next \in Working : worker' = [worker EXCEPT !.pc = next]
    BY <1>5 DEF WorkerStart, WorkerGet, WorkerConn, WorkerQueue, WorkerAwait, WorkerAt, Continue,
       Working
  <2>5. Working \subseteq WorkerPc /\ "top" \in WorkerPc \ Working
    BY DEF WorkerPc, Working
  <2>6. /\ worker' \in [pc: WorkerPc, id: 0..MaxTasks]
        /\ worker'.pc \in Working => worker'.id \in TaskId
    <3>1. CASE worker' = [pc |-> "top", id |-> 0]
      BY <1>2, <2>5, <3>1
    <3>2. ASSUME NEW next \in Working, worker' = [worker EXCEPT !.pc = next]
          PROVE  /\ worker' \in [pc: WorkerPc, id: 0..MaxTasks]
                 /\ worker'.id = worker.id
      BY <2>5, <3>2
    <3> QED
      BY <2>1, <2>4, <3>1, <3>2
  <2> QED
    BY <1>5, <2>3, <2>6 DEF WorkerStart, WorkerGet, WorkerConn, WorkerQueue, WorkerAwait,
       OtherThanWorker
<1> QED
  BY <1>3, <1>4, <1>5 DEF WorkerNext

\* A step of the sweeper.
LEMMA TypesSweeper ==
    ASSUME TypeOK, SweeperNext
    PROVE  TypeOK'
<1>1. 1 \in TaskId /\ "" \in Response
  BY MaxTasksAssumption DEF TaskId, Response
<1>2. TaskerTypeOK'
  BY <1>1, TaskerTypes DEF TypeOK, SweeperNext, SweeperWake, SweepSessions, SweepTasks
<1>3. sweeper' \in SweeperPc
  BY DEF SweeperNext, SweeperWake, SweepSessions, SweepTasks, SweeperAt, SweeperPc
<1> QED
  BY <1>2, <1>3 DEF TypeOK, SweeperNext, SweeperWake, SweepSessions, SweepTasks, OtherThanSweeper

\* Every step keeps the types.
LEMMA TypesNext == TypeOK /\ [Next]_vars => TypeOK'
<1>1. ASSUME TypeOK, UNCHANGED vars PROVE TypeOK'
  BY <1>1 DEF TypeOK, TaskerTypeOK, vars
<1> QED
  BY <1>1, TypesMain, TypesServer, TypesWorker, TypesSweeper DEF Next

\* Every variable of the threads, the map and the queue keeps its type, and a
\* thread that works on a task has the id of one.
THEOREM TypeCorrect == Spec => []TypeOK
  BY TypesInit, TypesNext, PTL DEF Spec

-----------------------------------------------------------------------------
(* The inductive invariant *)

Is(id, state) == Found(id) /\ m_task_map[id].state = state

\* Ids that were not drawn yet are not in the map.
Drawn == \A id \in TaskId : Found(id) => id < m_next_task_counter

\* The id that addTask is about to push is the youngest one.
Pushing ==
    server.pc = "push" =>
        /\ Is(server.id, "PENDING") /\ m_next_task_counter = server.id + 1
        /\ \A i \in 1..Len(m_task_queue) : m_task_queue[i] < server.id

\* The task that a poll is about to remove was finished; the sweep may have
\* removed it meanwhile.
Removing ==
    server.pc = "remove" /\ Found(server.id) => m_task_map[server.id].state \in Finished

\* The id that the worker has popped is older than all those behind it.
Starting ==
    worker.pc = "start" =>
        /\ Is(worker.id, "PENDING")
        /\ \A i \in 1..Len(m_task_queue) : worker.id < m_task_queue[i]
        /\ server.pc = "push" => worker.id < server.id

\* The task the worker has started stays IN_PROGRESS until the worker is done.
Executing == worker.pc \in Working \ {"start"} => Is(worker.id, "IN_PROGRESS")

QueueOrder ==
    \A i \in 1..Len(m_task_queue) :
        /\ Is(m_task_queue[i], "PENDING")
        /\ \A j \in 1..Len(m_task_queue) : i < j => m_task_queue[i] < m_task_queue[j]

PendingInReach == \A id \in TaskId : Is(id, "PENDING") => Queued(id) \/ InHand(id)

InProgressInHand ==
    \A id \in TaskId : Is(id, "IN_PROGRESS") => worker.id = id /\ worker.pc \in Working \ {"start"}

\* The threads do not exist before Server::start.
NotStarted == main = "start" => server.pc = "none" /\ worker.pc = "none"

IInv ==
    /\ TypeOK /\ NotStarted
    /\ Drawn /\ Pushing /\ Removing /\ Starting /\ Executing
    /\ QueueOrder /\ PendingInReach /\ InProgressInHand

-----------------------------------------------------------------------------
(* Steps that disturb the invariant little *)

\* The map keeps every unfinished task and the state of every task it keeps.
Kept ==
    \A id \in TaskId :
        /\ Found(id)' => Found(id) /\ m_task_map'[id].state = m_task_map[id].state
        /\ Found(id) /\ m_task_map[id].state \in {"PENDING", "IN_PROGRESS"} => Found(id)'

\* The server thread takes up or ends nothing but the removal of a finished task.
ServerQuiet ==
    \/ server' = server
    \/ /\ server.pc # "push" /\ server'.pc # "push"
       /\ server'.pc = "remove" =>
              server'.id \in TaskId /\ m_task_map[server'.id].state \in Finished

\* The worker holds the same started task as before, or none before and after.
WorkerQuiet ==
    \/ worker' = worker
    \/ worker.pc \notin Working /\ worker'.pc \notin Working
    \/ /\ worker.pc \in Working \ {"start"} /\ worker'.pc \in Working \ {"start"}
       /\ worker'.id = worker.id

LEMMA Quiet ==
    ASSUME IInv, TypeOK', NotStarted', Kept, ServerQuiet, WorkerQuiet,
           UNCHANGED <<m_next_task_counter, m_task_queue>>
    PROVE  IInv'
<1> USE DEF IInv, TypeOK, TaskerTypeOK
<1>1. Drawn'
  BY DEF Drawn, Kept
<1>2. \A id \in TaskId, state \in {"PENDING", "IN_PROGRESS"} : Is(id, state)' <=> Is(id, state)
  BY DEF Kept, Is, Found
<1>3. \A i \in 1..Len(m_task_queue) : m_task_queue[i] \in TaskId
  OBVIOUS
<1>4. Pushing'
  BY <1>2 DEF Pushing, ServerQuiet
<1>5. Removing'
  BY DEF Removing, ServerQuiet, Kept
<1>6. Starting'
  BY <1>2 DEF Starting, ServerQuiet, WorkerQuiet, Working
<1>7. Executing'
  BY <1>2 DEF Executing, WorkerQuiet, Working
<1>8. QueueOrder'
  BY <1>2, <1>3 DEF QueueOrder
<1>9. PendingInReach'
  <2> SUFFICES ASSUME NEW id \in TaskId, Is(id, "PENDING")' PROVE (Queued(id) \/ InHand(id))'
    BY DEF PendingInReach
  <2>1. Queued(id) \/ InHand(id)
    BY <1>2 DEF PendingInReach
  <2> QED
    BY <2>1 DEF Queued, InHand, ServerQuiet, WorkerQuiet, Working
<1>10. InProgressInHand'
  BY <1>2 DEF InProgressInHand, WorkerQuiet, Working
<1> QED
  BY <1>1, <1>4, <1>5, <1>6, <1>7, <1>8, <1>9, <1>10

\* Nothing has been drawn, queued or started yet.
LEMMA InvInit == Init => IInv
<1> SUFFICES ASSUME Init PROVE IInv
  OBVIOUS
<1>1. \A id \in TaskId : ~Found(id)
  BY DEF Init, TaskerInit, Found
<1>2. Len(m_task_queue) = 0 /\ server.pc = "none" /\ worker.pc = "none"
  BY DEF Init, TaskerInit
<1>3. Drawn /\ PendingInReach /\ InProgressInHand
  BY <1>1 DEF Drawn, PendingInReach, InProgressInHand, Is
<1>4. NotStarted /\ Pushing /\ Removing /\ Starting /\ Executing /\ QueueOrder
  BY <1>2 DEF NotStarted, Pushing, Removing, Starting, Executing, QueueOrder, Working
<1> QED
  BY <1>3, <1>4, TypesInit DEF IInv

\* The steps of main, of the robot's thread, of the sweeper and of the clock.
LEMMA InvOthers ==
    ASSUME IInv, TypeOK',
           MainNext \/ Signal \/ RobotThread \/ TimePasses \/ Wakeup \/ SweeperNext
    PROVE  IInv'
<1>1. CASE Start
  <2>1. NotStarted'
    BY <1>1 DEF Start, MainAt, NotStarted
  <2>2. Kept
    BY <1>1 DEF Start, Kept, Found, taskerVars
  <2>3. server.pc = "none" /\ worker.pc = "none"
    BY <1>1 DEF IInv, NotStarted, Start, MainAt
  <2>4. ServerQuiet /\ WorkerQuiet
    BY <1>1, <2>3 DEF IInv, TypeOK, Start, ServerQuiet, WorkerQuiet, Working
  <2> QED
    BY <1>1, <2>1, <2>2, <2>4, Quiet DEF Start, taskerVars
<1>2. CASE MainCheck \/ MainBlock \/ Signal \/ StopRunning \/ StopTasker \/ StopSession \/ Join
  <2>1. /\ UNCHANGED <<m_next_task_counter, m_task_map, m_task_queue, server, worker>>
        /\ main' = "start" => main = "start"
    BY <1>2 DEF MainCheck, MainBlock, Signal, StopRunning, StopTasker, StopSession, Join, MainAt,
       stop_flag, stop_notify, taskerVars
  <2>2. NotStarted' /\ Kept /\ ServerQuiet /\ WorkerQuiet
    BY <2>1 DEF IInv, NotStarted, Kept, Found, ServerQuiet, WorkerQuiet
  <2> QED
    BY <2>1, <2>2, Quiet
<1>3. CASE RobotThread \/ Wakeup \/ SweeperWake \/ SweepSessions
  <2>1. UNCHANGED <<m_next_task_counter, m_task_map, m_task_queue, server, worker, main>>
    BY <1>3 DEF RobotThread, Wakeup, SpuriousWakeup, SweeperWake, SweepSessions, OtherThanSweeper,
       taskerVars, threadVars
  <2>2. NotStarted' /\ Kept /\ ServerQuiet /\ WorkerQuiet
    BY <2>1 DEF IInv, NotStarted, Kept, Found, ServerQuiet, WorkerQuiet
  <2> QED
    BY <2>1, <2>2, Quiet
<1>4. CASE TimePasses
  <2>1. UNCHANGED <<m_next_task_counter, m_task_queue, server, worker, main>>
    BY <1>4 DEF TimePasses, Tick, threadVars
  <2>2. Kept
    <3> SUFFICES ASSUME NEW id \in TaskId
                 PROVE  /\ Found(id)' <=> Found(id)
                        /\ Found(id) => m_task_map'[id].state = m_task_map[id].state
      BY DEF Kept
    <3>1. m_task_map'[id] = Older(m_task_map[id])
      BY <1>4 DEF TimePasses, Tick
    <3>2. CASE ~Found(id)
      BY <3>1, <3>2 DEF Found, Older
    <3>3. CASE Found(id)
      <4>1. m_task_map[id] \in Task /\ "" \in Response
        BY <3>3 DEF IInv, TypeOK, TaskerTypeOK, Found, Response
      <4>2. Older(m_task_map[id]) # NoTask
        BY <4>1, TaskOperations, NoTaskAssumption
      <4> QED
        BY <3>1, <3>3, <4>1, <4>2, TaskStates DEF Found
    <3> QED
      BY <3>2, <3>3
  <2>3. NotStarted' /\ ServerQuiet /\ WorkerQuiet
    BY <2>1 DEF IInv, NotStarted, ServerQuiet, WorkerQuiet
  <2> QED
    BY <2>1, <2>2, <2>3, Quiet
<1>5. CASE SweepTasks
  <2>1. UNCHANGED <<m_next_task_counter, m_task_queue, server, worker, main>>
    BY <1>5 DEF SweepTasks, sweepExpiredTasks, OtherThanSweeper
  <2>2. Kept
    BY <1>5 DEF SweepTasks, sweepExpiredTasks, Kept, Found, isExpired, Finished
  <2>3. NotStarted' /\ ServerQuiet /\ WorkerQuiet
    BY <2>1 DEF IInv, NotStarted, ServerQuiet, WorkerQuiet
  <2> QED
    BY <2>1, <2>2, <2>3, Quiet
<1> QED
  BY <1>1, <1>2, <1>3, <1>4, <1>5 DEF MainNext, SweeperNext

-----------------------------------------------------------------------------
(* The steps of the server thread and of the worker *)

\* addTask draws the youngest id and pushes it behind all others; a poll removes
\* a task only after it has seen it finished.
LEMMA InvServer ==
    ASSUME IInv, TypeOK', ServerNext
    PROVE  IInv'
<1> USE DEF IInv
<1>1. UNCHANGED <<worker, main>> /\ main # "start"
  BY DEF ServerNext, ServerTop, ServerRecv, HandleOther, HandleRobotCommand, HandlerRuns,
     ServerPush, ServerNotify, HandleCheckTask, ServerRemove, ServerAt, OtherThanServer, NotStarted
<1>2. NotStarted' /\ WorkerQuiet
  BY <1>1 DEF NotStarted, WorkerQuiet
<1>3. CASE ServerTop \/ ServerRecv \/ HandleOther \/ ServerNotify
  <2>1. UNCHANGED <<m_next_task_counter, m_task_map, m_task_queue>>
    BY <1>3 DEF ServerTop, ServerRecv, HandleOther, ServerNotify, addTask_notify, taskerVars
  <2>2. Kept
    BY <2>1 DEF Kept, Found
  <2>3. ServerQuiet
    BY <1>3 DEF TypeOK, ServerTop, ServerRecv, HandleOther, HandlerRuns, ServerNotify, ServerAt,
       Replied, ServerQuiet
  <2> QED
    BY <1>2, <2>1, <2>2, <2>3, Quiet
<1>4. CASE ServerRemove
  <2>1. UNCHANGED <<m_next_task_counter, m_task_queue>>
    BY <1>4 DEF ServerRemove, removeTask, SetTask
  <2>2. Kept
    BY <1>4 DEF ServerRemove, removeTask, SetTask, Kept, Found, Removing, Finished, TypeOK,
       TaskerTypeOK
  <2>3. ServerQuiet
    BY <1>4 DEF ServerRemove, Replied, ServerQuiet
  <2> QED
    BY <1>2, <2>1, <2>2, <2>3, Quiet
<1>5. ASSUME NEW id \in TaskId, HandleCheckTask(id) PROVE IInv'
  <2>1. UNCHANGED <<m_next_task_counter, m_task_map, m_task_queue>>
    BY <1>5 DEF HandleCheckTask, taskerVars
  <2>2. Kept
    BY <2>1 DEF Kept, Found
  <2>3. ServerQuiet
    BY <1>5 DEF HandleCheckTask, HandlerRuns, Replied, ServerQuiet
  <2> QED
    BY <1>2, <2>1, <2>2, <2>3, Quiet
<1>6. CASE HandleRobotCommand
  <2>0. PICK new \in TaskId : new = m_next_task_counter
    BY <1>6 DEF HandleRobotCommand, addTask_emplace
  <2>1. /\ m_next_task_counter = new
        /\ new \in TaskId /\ new \in Nat /\ ~Found(new) /\ server.pc = "handle"
        /\ server' = [pc |-> "push", id |-> new]
        /\ m_next_task_counter' = new + 1 /\ m_task_queue' = m_task_queue
    BY <1>6, <2>0 DEF HandleRobotCommand, HandlerRuns, addTask_emplace, Drawn, TaskId, TypeOK,
       TaskerTypeOK
  <2>2. \A id \in TaskId : m_task_map'[id] = IF id = new THEN NewTask ELSE m_task_map[id]
    BY <1>6, <2>0 DEF HandleRobotCommand, addTask_emplace, TypeOK, TaskerTypeOK
  <2>3. Found(new)' /\ Is(new, "PENDING")'
    <3>1. NewTask # NoTask
      BY NewTaskIsTask, NoTaskAssumption
    <3>2. NewTask.state = "PENDING"
      BY DEF NewTask
    <3> QED
      BY <2>1, <2>2, <3>1, <3>2 DEF Found, Is
  <2>4. \A id \in TaskId, state \in TaskState : Is(id, state) => id < new /\ Is(id, state)'
    BY <2>1, <2>2 DEF Drawn, Is, Found
  <2>5. \A id \in TaskId, state \in TaskState : Is(id, state)' => Is(id, state) \/ id = new
    BY <2>1, <2>2 DEF Is, Found
  <2>6. \A i \in 1..Len(m_task_queue) : m_task_queue[i] \in TaskId /\ Is(m_task_queue[i], "PENDING")
    BY DEF QueueOrder, TypeOK, TaskerTypeOK
  <2>7. Drawn'
    BY <2>1, <2>2 DEF Drawn, Found, TaskId
  <2>8. Pushing'
    BY <2>1, <2>3, <2>4, <2>6 DEF Pushing, TaskState
  <2>9. Removing'
    BY <2>1 DEF Removing
  <2>10. Starting'
    BY <1>1, <2>1, <2>4 DEF Starting, TaskState, TypeOK, Working
  <2>11. Executing'
    BY <1>1, <2>4 DEF Executing, TaskState, TypeOK
  <2>12. QueueOrder'
    BY <2>1, <2>4, <2>6 DEF QueueOrder, TaskState
  <2>13. PendingInReach'
    <3> SUFFICES ASSUME NEW id \in TaskId, Is(id, "PENDING")' PROVE (Queued(id) \/ InHand(id))'
      BY DEF PendingInReach
    <3>1. CASE id = new
      BY <2>1, <3>1 DEF InHand
    <3>2. CASE Is(id, "PENDING")
      BY <1>1, <2>1, <3>2 DEF PendingInReach, Queued, InHand
    <3> QED
      BY <2>5, <3>1, <3>2 DEF TaskState
  <2>14. InProgressInHand'
    <3>1. ~Is(new, "IN_PROGRESS")'
      BY <2>3 DEF Is
    <3> QED
      BY <1>1, <2>5, <3>1 DEF InProgressInHand, TaskState
  <2> QED
    BY <1>2, <2>7, <2>8, <2>9, <2>10, <2>11, <2>12, <2>13, <2>14
<1>7. CASE ServerPush
  <2> DEFINE q == m_task_queue
  <2>0. PICK id0 \in TaskId : id0 = server.id
    BY <1>7 DEF ServerPush, ServerAt, TypeOK
  <2>1. /\ server.pc = "push" /\ server.id = id0 /\ Is(id0, "PENDING")
        /\ \A i \in 1..Len(q) : q[i] < id0
        /\ server' = [server EXCEPT !.pc = "notify"]
        /\ q' = Append(q, id0)
        /\ UNCHANGED <<m_next_task_counter, m_task_map>>
    BY <1>7, <2>0 DEF ServerPush, ServerAt, addTask_push, Pushing
  <2>2. server'.pc = "notify"
    BY <2>1 DEF TypeOK
  <2>3. /\ Len(q) \in Nat /\ Len(q') = Len(q) + 1
        /\ \A i \in 1..Len(q) : q'[i] = q[i]
        /\ q'[Len(q) + 1] = id0
    BY <2>1 DEF TypeOK, TaskerTypeOK
  <2>4. \A i \in 1..Len(q') : i \in 1..Len(q) \/ i = Len(q) + 1
    BY <2>3
  <2>5. \A id, state : Is(id, state)' <=> Is(id, state)
    BY <2>1 DEF Is, Found
  <2>6. Drawn' /\ Executing' /\ InProgressInHand'
    BY <1>1, <2>1, <2>5 DEF Drawn, Found, Executing, InProgressInHand
  <2>7. Pushing' /\ Removing'
    BY <2>2 DEF Pushing, Removing
  <2>8. Starting'
    BY <1>1, <2>1, <2>2, <2>3, <2>4, <2>5 DEF Starting
  <2>9. QueueOrder'
    <3>1. \A i \in 1..Len(q') : Is(q[i], "PENDING")'
      BY <2>1, <2>3, <2>4, <2>5 DEF QueueOrder
    <3>2. \A i, j \in 1..Len(q') : i < j => q'[i] < q'[j]
      BY <2>1, <2>3, <2>4 DEF QueueOrder
    <3> QED
      BY <3>1, <3>2 DEF QueueOrder
  <2>10. PendingInReach'
    <3> SUFFICES ASSUME NEW id \in TaskId, Is(id, "PENDING")' PROVE (Queued(id) \/ InHand(id))'
      BY DEF PendingInReach
    <3>1. Queued(id) \/ InHand(id)
      BY <2>5 DEF PendingInReach
    <3>2. CASE id = id0
      BY <2>3, <3>2 DEF Queued
    <3>3. CASE id # id0
      BY <1>1, <2>1, <2>3, <3>1, <3>3 DEF Queued, InHand
    <3> QED
      BY <3>2, <3>3
  <2> QED
    BY <1>2, <2>6, <2>7, <2>8, <2>9, <2>10
<1> QED
  BY <1>3, <1>4, <1>5, <1>6, <1>7 DEF ServerNext

\* The worker finishes the task it holds: what WorkerConn (no connection) and
\* WorkerAwait do with failTask or completeTask.
LEMMA InvFinish ==
    ASSUME IInv, TypeOK', NotStarted', NEW id \in TaskId, id = worker.id,
           worker.pc \in Working \ {"start"}, worker' = [pc |-> "top", id |-> 0],
           NEW r \in Response, completeTask(id, r) \/ failTask(id, r), UNCHANGED server
    PROVE  IInv'
<1> USE DEF IInv, TypeOK, TaskerTypeOK
<1> DEFINE t == m_task_map[id]
<1>1. /\ Found(id) /\ t \in Task /\ t.state = "IN_PROGRESS"
  BY DEF Executing, Is, Found
<1>2. PICK u \in Task : /\ u.state \in Finished
                        /\ m_task_map' = [m_task_map EXCEPT ![id] = u]
                        /\ UNCHANGED <<m_next_task_counter, m_task_queue>>
  <2>1. /\ setResponse(markCompleted(t), r) \in Task /\ setResponse(markFailed(t), r) \in Task
        /\ setResponse(markCompleted(t), r).state \in Finished
        /\ setResponse(markFailed(t), r).state \in Finished
    BY <1>1, TaskOperations, TaskStates DEF Finished
  <2> QED
    BY <1>1, <2>1 DEF completeTask, failTask, SetTask
<1>3. Found(id)' /\ \A state \in {"PENDING", "IN_PROGRESS"} : ~Is(id, state)'
  BY <1>2, NoTaskAssumption DEF Found, Is, Finished
<1>4. \A other \in TaskId : \A state : other # id => (Is(other, state)' <=> Is(other, state))
  BY <1>2 DEF Is, Found
<1>5. \A state : Is(id, state) => state = "IN_PROGRESS"
  BY <1>1 DEF Is
<1>6. Drawn'
  BY <1>1, <1>2 DEF Drawn, Found
<1>7. Pushing'
  BY <1>2, <1>4, <1>5 DEF Pushing
<1>8. Removing'
  BY <1>2 DEF Removing, Found
<1>9. Starting' /\ Executing'
  BY DEF Starting, Executing, Working
<1>10. QueueOrder'
  <2>1. \A i \in 1..Len(m_task_queue) : m_task_queue[i] \in TaskId /\ m_task_queue[i] # id
    BY <1>5 DEF QueueOrder
  <2> QED
    BY <1>2, <1>4, <2>1 DEF QueueOrder
<1>11. PendingInReach'
  <2> SUFFICES ASSUME NEW other \in TaskId, Is(other, "PENDING")'
               PROVE  (Queued(other) \/ InHand(other))'
    BY DEF PendingInReach
  <2>1. Queued(other) \/ InHand(other)
    BY <1>3, <1>4 DEF PendingInReach
  <2> QED
    BY <1>2, <2>1 DEF Queued, InHand
<1>12. InProgressInHand'
  BY <1>3, <1>4 DEF InProgressInHand
<1> QED
  BY <1>6, <1>7, <1>8, <1>9, <1>10, <1>11, <1>12

\* The worker pops the oldest id, starts it, and finishes what it has started.
LEMMA InvWorker ==
    ASSUME IInv, TypeOK', WorkerNext
    PROVE  IInv'
<1> USE DEF IInv
<1>1. UNCHANGED <<server, main>> /\ main # "start"
  BY DEF WorkerNext, WorkerTop, WorkerWait, WorkerStart, WorkerGet, WorkerConn, WorkerQueue,
     WorkerAwait, WorkerAt, OtherThanWorker, NotStarted
<1>2. NotStarted' /\ ServerQuiet
  BY <1>1 DEF NotStarted, ServerQuiet
<1>3. worker.pc \in Working => worker.id \in TaskId /\ Found(worker.id)
  BY DEF Starting, Executing, TypeOK, Is, Working
<1>4. CASE WorkerTop \/ WorkerGet \/ WorkerQueue \/ (WorkerConn /\ connected)
           \/ (WorkerWait /\ ~wait_pop)
  <2>1. UNCHANGED <<m_next_task_counter, m_task_map, m_task_queue>>
    BY <1>4 DEF WorkerTop, WorkerGet, WorkerQueue, WorkerConn, WorkerWait, wait_blocks,
       wait_nullopt, taskerVars
  <2>2. Kept
    BY <2>1 DEF Kept, Found
  <2>3. WorkerQuiet
    BY <1>3, <1>4 DEF TypeOK, WorkerTop, WorkerGet, WorkerQueue, WorkerConn, WorkerWait, WorkerAt,
       WorkerQuiet, Working
  <2> QED
    BY <1>2, <2>1, <2>2, <2>3, Quiet
<1>5. CASE (WorkerConn /\ ~connected) \/ WorkerAwait
  <2>1. /\ worker.pc \in Working \ {"start"} /\ worker' = [pc |-> "top", id |-> 0]
        /\ \E r \in Response : completeTask(worker.id, r) \/ failTask(worker.id, r)
    BY <1>5 DEF WorkerConn, WorkerAwait, Continue, Working, Response
  <2> QED
    BY <1>1, <1>2, <1>3, <2>1, InvFinish
<1>6. CASE WorkerStart
  <2>0. PICK id \in TaskId : id = worker.id
    BY <1>3, <1>6 DEF WorkerStart, Working
  <2> DEFINE t == m_task_map[id]
  <2>1. /\ worker.pc = "start" /\ Found(id) /\ t \in Task /\ t.state = "PENDING"
        /\ \A i \in 1..Len(m_task_queue) : id < m_task_queue[i]
        /\ server.pc = "push" => id < server.id
        /\ worker' = [worker EXCEPT !.pc = "get"]
    BY <1>6, <2>0 DEF WorkerStart, WorkerAt, Starting, Is, Found, TypeOK, TaskerTypeOK
  <2>2. worker'.pc = "get" /\ worker'.id = id
    BY <2>0, <2>1 DEF TypeOK
  <2>3. PICK u \in Task : /\ u.state = "IN_PROGRESS"
                          /\ m_task_map' = [m_task_map EXCEPT ![id] = u]
                          /\ UNCHANGED <<m_next_task_counter, m_task_queue>>
    <3>1. markStarted(t) \in Task /\ markStarted(t).state = "IN_PROGRESS"
      BY <2>1 DEF markStarted, Task, TaskState
    <3> QED
      BY <1>6, <2>0, <2>1, <3>1 DEF WorkerStart, startTask, SetTask
  <2>4. Is(id, "IN_PROGRESS")' /\ ~Is(id, "PENDING")'
    BY <2>3, NoTaskAssumption DEF Found, Is, TypeOK, TaskerTypeOK
  <2>5. \A other \in TaskId : \A state : other # id => (Is(other, state)' <=> Is(other, state))
    BY <2>3 DEF Is, Found, TypeOK, TaskerTypeOK
  <2>6. \A i \in 1..Len(m_task_queue) : m_task_queue[i] \in TaskId /\ m_task_queue[i] # id
    <3>1. id \in Nat /\ \A other \in TaskId : other \in Nat
      BY DEF TaskId
    <3> QED
      BY <2>1, <3>1 DEF TypeOK, TaskerTypeOK
  <2>7. Drawn'
    BY <2>1, <2>3 DEF Drawn, Found, TypeOK, TaskerTypeOK
  <2>8. Pushing'
    BY <1>1, <2>1, <2>3, <2>5 DEF Pushing, TypeOK, TaskId
  <2>9. Removing'
    BY <1>1, <2>1, <2>3 DEF Removing, Found, Finished, TypeOK, TaskerTypeOK
  <2>10. Starting' /\ Executing'
    BY <2>2, <2>4 DEF Starting, Executing
  <2>11. QueueOrder'
    BY <2>3, <2>5, <2>6 DEF QueueOrder
  <2>12. PendingInReach'
    BY <1>1, <2>0, <2>3, <2>4, <2>5 DEF PendingInReach, Queued, InHand
  <2>13. InProgressInHand'
    BY <2>1, <2>2, <2>5 DEF InProgressInHand, Working
  <2> QED
    BY <1>2, <2>7, <2>8, <2>9, <2>10, <2>11, <2>12, <2>13
<1>7. CASE WorkerWait /\ wait_pop
  <2> DEFINE q == m_task_queue
  <2>1. /\ q # <<>> /\ q' = Tail(q) /\ UNCHANGED <<m_next_task_counter, m_task_map>>
        /\ worker.pc = "wait" /\ worker' = [pc |-> "start", id |-> Head(q)]
    BY <1>7 DEF WorkerWait, wait_pop, wait_blocks, wait_nullopt
  <2>2. /\ Len(q) \in Nat \ {0} /\ Len(q') = Len(q) - 1 /\ Head(q) = q[1] /\ q[1] \in TaskId
        /\ \A i \in 1..Len(q') : q'[i] = q[i + 1] /\ i + 1 \in 1..Len(q)
    BY <2>1 DEF TypeOK, TaskerTypeOK
  <2>0. PICK id \in TaskId : id = q[1]
    BY <2>2
  <2>3. worker'.pc = "start" /\ worker'.id = id
    BY <2>0, <2>1, <2>2
  <2>4. \A other, state : Is(other, state)' <=> Is(other, state)
    BY <2>1 DEF Is, Found
  <2>5. Is(id, "PENDING") /\ \A i \in 1..Len(q') : id < q'[i]
    BY <2>0, <2>2 DEF QueueOrder
  <2>6. server.pc = "push" => id < server.id
    BY <2>0, <2>2 DEF Pushing
  <2>7. Drawn' /\ Removing'
    BY <1>1, <2>1 DEF Drawn, Removing, Found
  <2>8. Pushing'
    BY <1>1, <2>1, <2>2, <2>4 DEF Pushing
  <2>9. Starting' /\ Executing'
    BY <1>1, <2>3, <2>4, <2>5, <2>6 DEF Starting, Executing
  <2>10. QueueOrder'
    <3>1. \A i \in 1..Len(q') : Is(q[i], "PENDING")'
      BY <2>2, <2>4 DEF QueueOrder
    <3>2. \A i, j \in 1..Len(q') : i < j => q'[i] < q'[j]
      BY <2>2 DEF QueueOrder
    <3> QED
      BY <3>1, <3>2 DEF QueueOrder
  <2>11. PendingInReach'
    <3> SUFFICES ASSUME NEW other \in TaskId, Is(other, "PENDING")'
                 PROVE  (Queued(other) \/ InHand(other))'
      BY DEF PendingInReach
    <3>1. Queued(other) \/ InHand(other)
      BY <2>4 DEF PendingInReach
    <3>2. CASE InHand(other)
      BY <1>1, <2>1, <3>2 DEF InHand
    <3>3. ASSUME NEW i \in 1..Len(q), q[i] = other PROVE (Queued(other) \/ InHand(other))'
      <4>1. CASE i = 1
        BY <2>0, <2>3, <3>3, <4>1 DEF InHand
      <4>2. CASE i # 1
        <5>1. i - 1 \in 1..Len(q') /\ q'[i - 1] = other
          BY <2>2, <3>3, <4>2
        <5> QED
          BY <5>1 DEF Queued
      <4> QED
        BY <4>1, <4>2
    <3> QED
      BY <3>1, <3>2, <3>3 DEF Queued
  <2>12. InProgressInHand'
    BY <2>1, <2>4 DEF InProgressInHand, Working
  <2> QED
    BY <1>2, <2>7, <2>8, <2>9, <2>10, <2>11, <2>12
<1> QED
  BY <1>4, <1>5, <1>6, <1>7 DEF WorkerNext

LEMMA InvNext == IInv /\ [Next]_vars => IInv'
<1> SUFFICES ASSUME IInv, [Next]_vars PROVE IInv'
  OBVIOUS
<1>1. TypeOK'
  BY TypesNext DEF IInv
<1>2. CASE Next
  BY <1>1, <1>2, InvOthers, InvServer, InvWorker DEF Next
<1>3. CASE UNCHANGED vars
  <2>1. UNCHANGED <<m_next_task_counter, m_task_map, m_task_queue, server, worker, main>>
    BY <1>3 DEF vars
  <2>2. NotStarted' /\ Kept /\ ServerQuiet /\ WorkerQuiet
    BY <2>1 DEF IInv, NotStarted, Kept, Found, ServerQuiet, WorkerQuiet
  <2> QED
    BY <1>1, <2>1, <2>2, Quiet
<1> QED
  BY <1>2, <1>3

\* The inductive invariant holds of every execution of the threads.
THEOREM Invariant == Spec => []IInv
  BY InvInit, InvNext, PTL DEF Spec

-----------------------------------------------------------------------------
(* What follows from it *)

\* The two critical sections of addTask and the two steps by which the worker
\* takes a task (waitForNextTask, startTask) never lose a PENDING task.
THEOREM NoTaskIsLost == Spec => []NoTaskLost
<1>1. IInv => NoTaskLost
  BY DEF IInv, PendingInReach, NoTaskLost, StateOf, Is
<1> QED
  BY <1>1, Invariant, PTL

\* m_task_queue and m_task_map, changed under two different mutexes, agree: what
\* is queued is PENDING, in the order in which addTask drew the ids.
THEOREM QueueAgreesWithMap == Spec => []QueuedArePending
<1>1. IInv => QueuedArePending
  BY DEF IInv, QueueOrder, QueuedArePending, StateOf, Is
<1> QED
  BY <1>1, Invariant, PTL

\* Whatever exit robot_worker_loop_ takes, it leaves no task IN_PROGRESS behind.
THEOREM StartedTaskIsHeld == Spec => []NoTaskAbandoned
<1>1. IInv => NoTaskAbandoned
  BY DEF IInv, InProgressInHand, NoTaskAbandoned, StateOf, Is
<1> QED
  BY <1>1, Invariant, PTL
=============================================================================
