------------------------------- MODULE Server -------------------------------
(***************************************************************************)
(* The threads of class Server (src/src/server/server.cpp) over the Tasker, *)
(* and main() (src/src/main.cpp) that starts and stops them:                *)
(*   server   loop_: one ZeroMQ request at a time through RequestHandler    *)
(*   worker   robot_worker_loop_: takes tasks to the robot                  *)
(*   sweeper  sweeper_loop_: expires sessions and tasks                     *)
(*   main     waits for a signal, then Server::stop                         *)
(* The session checks of the handlers are in module Sessions and the Robot  *)
(* class in module RobotLink; here a request is accepted or refused, and    *)
(* the robot connected or not, as they please.                              *)
(***************************************************************************)
EXTENDS Tasker

VARIABLES
    running_,        \* Server::running_
    robot_running,   \* Robot::running_, the session flag
    connected,       \* Robot::connected_
    server,          \* loop_: pc and the task id in hand
    worker,          \* robot_worker_loop_: pc and the task id in hand
    sweeper,         \* sweeper_loop_: pc
    main,            \* main and Server::stop: pc
    g_shutdown_requested

threadVars == <<running_, robot_running, connected, server, worker, sweeper, main,
                g_shutdown_requested>>
vars == <<m_next_task_counter, m_task_map, m_task_queue, m_queue_cv, m_shutdown,
          running_, robot_running, connected, server, worker, sweeper, main,
          g_shutdown_requested>>

ServerPc == {"none", "top", "recv", "handle", "push", "notify", "remove", "exited", "threw"}
WorkerPc == {"none", "top", "wait", "start", "get", "conn", "queue", "await",
             "exited", "threw"}
\* The worker has an id in hand.
Working == {"start", "get", "conn", "queue", "await", "threw"}
SweeperPc == {"none", "sleep", "sessions", "tasks", "hung", "exited"}
MainPc == {"start", "check", "going to block", "blocked", "stop", "tasker flag",
           "tasker notify", "stop_session", "robot joined", "join server",
           "join worker", "join sweeper", "done"}

TypeOK ==
    /\ TaskerTypeOK
    /\ running_ \in BOOLEAN /\ robot_running \in BOOLEAN /\ connected \in BOOLEAN
    /\ server \in [pc: ServerPc, id: 0..MaxTasks]
    /\ worker \in [pc: WorkerPc, id: 0..MaxTasks]
    /\ server.pc \in {"push", "notify", "remove"} => server.id \in TaskId
    /\ worker.pc \in Working => worker.id \in TaskId
    /\ sweeper \in SweeperPc
    /\ main \in MainPc
    /\ g_shutdown_requested \in BOOLEAN

Init ==
    /\ TaskerInit
    /\ running_ = FALSE /\ robot_running = FALSE /\ connected = FALSE
    /\ server = [pc |-> "none", id |-> 0]
    /\ worker = [pc |-> "none", id |-> 0]
    /\ sweeper = "none"
    /\ main = "start"
    /\ g_shutdown_requested = FALSE

\* An exception that leaves a thread's function ends the process.
Terminated == server.pc = "threw" \/ worker.pc = "threw"

-----------------------------------------------------------------------------
(* main() and Server::start / Server::stop *)

MainAt(here, next) == main = here /\ main' = next

\* Without a robot or users start() returns early and no thread exists.
Start ==
    /\ MainAt("start", "check")
    /\ \/ /\ running_' = TRUE /\ robot_running' = TRUE
          /\ server' = [server EXCEPT !.pc = "top"]
          /\ worker' = [worker EXCEPT !.pc = "top"]
          /\ sweeper' = "sleep"
       \/ UNCHANGED <<running_, robot_running, server, worker, sweeper>>
    /\ UNCHANGED <<taskerVars, connected, g_shutdown_requested>>

\* g_wait_cv.wait: the predicate is evaluated, then the thread blocks.  The
\* signal handler does not take g_wait_mutex, so it can run in between.
MainCheck ==
    /\ IF g_shutdown_requested THEN MainAt("check", "stop")
                               ELSE MainAt("check", "going to block")
    /\ UNCHANGED <<taskerVars, running_, robot_running, connected, server, worker,
                   sweeper, g_shutdown_requested>>

MainBlock ==
    /\ MainAt("going to block", "blocked")
    /\ UNCHANGED <<taskerVars, running_, robot_running, connected, server, worker,
                   sweeper, g_shutdown_requested>>

Signal ==
    /\ g_shutdown_requested' = TRUE
    /\ main' = IF main = "blocked" THEN "check" ELSE main
    /\ UNCHANGED <<taskerVars, running_, robot_running, connected, server, worker,
                   sweeper>>

StopRunning ==
    /\ IF running_ THEN MainAt("stop", "tasker flag") ELSE MainAt("stop", "done")
    /\ running_' = FALSE
    /\ UNCHANGED <<taskerVars, robot_running, connected, server, worker, sweeper,
                   g_shutdown_requested>>

StopTasker ==
    /\ \/ MainAt("tasker flag", "tasker notify") /\ stop_flag
       \/ MainAt("tasker notify", "stop_session") /\ stop_notify
    /\ UNCHANGED <<running_, robot_running, connected, server, worker, sweeper,
                   g_shutdown_requested>>

\* Robot::stop_session lowers the session flag, joins the robot's own thread
\* (connected_ keeps its value meanwhile) and then closes the connection.
StopSession ==
    /\ \/ MainAt("stop_session", "robot joined") /\ robot_running' = FALSE
          /\ UNCHANGED connected
       \/ MainAt("robot joined", "join server") /\ connected' = FALSE
          /\ UNCHANGED robot_running
    /\ UNCHANGED <<taskerVars, running_, server, worker, sweeper,
                   g_shutdown_requested>>

Join ==
    /\ \/ MainAt("join server", "join worker") /\ server.pc = "exited"
       \/ MainAt("join worker", "join sweeper") /\ worker.pc = "exited"
       \/ MainAt("join sweeper", "done") /\ sweeper = "exited"
    /\ UNCHANGED <<taskerVars, running_, robot_running, connected, server, worker,
                   sweeper, g_shutdown_requested>>

MainNext == Start \/ MainCheck \/ MainBlock \/ StopRunning \/ StopTasker \/ StopSession \/ Join

-----------------------------------------------------------------------------
(* Server::loop_ and the part of RequestHandler that reaches the Tasker *)

\* What the actions of the server thread leave alone besides the Tasker.
OtherThanServer == <<running_, robot_running, connected, worker, sweeper, main,
                     g_shutdown_requested>>

ServerAt(here, next) == server.pc = here /\ server' = [server EXCEPT !.pc = next]

\* The reply is sent and the loop goes on to its test.
Replied == server' = [pc |-> "top", id |-> 0]

ServerTop ==
    /\ IF running_ THEN ServerAt("top", "recv") ELSE ServerAt("top", "exited")
    /\ UNCHANGED <<taskerVars, OtherThanServer>>

\* recv: a timeout after 500 ms, a request whose size happens to be EAGAIN (the
\* exception is thrown outside the try block), or any other request.
ServerRecv ==
    /\ \E next \in {"top", "threw", "handle"} : ServerAt("recv", next)
    /\ UNCHANGED <<taskerVars, OtherThanServer>>

\* Every handler takes SessionManager::mutex_ first (token_to_username or
\* is_valid_token); while a hung sweeper owns it, none gets past that.
HandlerRuns == server.pc = "handle" /\ sweeper # "hung"

\* Requests that do not touch the Tasker, and all those refused with an error.
HandleOther ==
    /\ HandlerRuns
    /\ Replied
    /\ UNCHANGED <<taskerVars, OtherThanServer>>

\* handle_robot_command: token, lock and connection are good; addTask begins.
HandleRobotCommand ==
    /\ HandlerRuns
    /\ connected
    /\ addTask_emplace
    /\ server' = [pc |-> "push", id |-> m_next_task_counter]
    /\ UNCHANGED OtherThanServer

ServerPush ==
    /\ ServerAt("push", "notify")
    /\ addTask_push(server.id)
    /\ UNCHANGED OtherThanServer

ServerNotify ==
    /\ server.pc = "notify" /\ Replied
    /\ addTask_notify
    /\ UNCHANGED OtherThanServer

\* handle_check_task: getTask copies the task, the reply is made from the copy,
\* and a finished task is removed from the map.  Any id may be asked for.
HandleCheckTask(id) ==
    /\ HandlerRuns
    /\ IF Found(id) /\ m_task_map[id].state \in Finished
       THEN server' = [pc |-> "remove", id |-> id]
       ELSE Replied
    /\ UNCHANGED <<taskerVars, OtherThanServer>>

ServerRemove ==
    /\ server.pc = "remove" /\ Replied
    /\ removeTask(server.id)
    /\ UNCHANGED OtherThanServer

ServerNext ==
    \/ ServerTop \/ ServerRecv \/ HandleOther \/ HandleRobotCommand \/ ServerPush
    \/ ServerNotify \/ ServerRemove
    \/ \E id \in TaskId : HandleCheckTask(id)

-----------------------------------------------------------------------------
(* Server::robot_worker_loop_ *)

OtherThanWorker == <<running_, robot_running, connected, server, sweeper, main,
                     g_shutdown_requested>>

WorkerAt(here, next) == worker.pc = here /\ worker' = [worker EXCEPT !.pc = next]

\* `continue', or the end of the loop body.
Continue == worker' = [pc |-> "top", id |-> 0]

WorkerTop ==
    /\ IF running_ THEN WorkerAt("top", "wait") ELSE WorkerAt("top", "exited")
    /\ UNCHANGED <<taskerVars, OtherThanWorker>>

WorkerWait ==
    /\ worker.pc = "wait" /\ "worker" \notin m_queue_cv
    /\ \/ wait_blocks /\ UNCHANGED worker
       \/ wait_nullopt /\ WorkerAt("wait", "exited")
       \/ wait_pop /\ worker' = [pc |-> "start", id |-> Head(m_task_queue)]
    /\ UNCHANGED OtherThanWorker

WorkerStart ==
    /\ worker.pc = "start"
    /\ startTask(worker.id)
    /\ IF Found(worker.id) THEN WorkerAt("start", "get") ELSE Continue
    /\ UNCHANGED OtherThanWorker

WorkerGet ==
    /\ worker.pc = "get"
    /\ IF Found(worker.id) THEN WorkerAt("get", "conn") ELSE Continue
    /\ UNCHANGED <<taskerVars, OtherThanWorker>>

\* Mutant: the early `continue' without failTask.
WorkerConn_NoFail ==
    /\ worker.pc = "conn"
    /\ \/ connected /\ WorkerAt("conn", "queue")
       \/ ~connected /\ Continue
    /\ UNCHANGED <<taskerVars, OtherThanWorker>>

WorkerConn ==
    /\ worker.pc = "conn"
    /\ \/ connected /\ WorkerAt("conn", "queue") /\ UNCHANGED taskerVars
       \/ ~connected /\ failTask(worker.id, "Robot disconnected") /\ Continue
    /\ UNCHANGED OtherThanWorker

\* queue_request throws when the robot session is no longer running; nothing in
\* the loop catches it.
WorkerQueue ==
    /\ IF robot_running THEN WorkerAt("queue", "await") ELSE WorkerAt("queue", "threw")
    /\ UNCHANGED <<taskerVars, OtherThanWorker>>

\* wait_for(90 s) on the future: the robot answered, answered ERR or NACK, or
\* the time ran out.
WorkerAwait ==
    /\ worker.pc = "await"
    /\ \/ completeTask(worker.id, "reply")
       \/ failTask(worker.id, "Robot error")
       \/ failTask(worker.id, "Robot disconnected")
    /\ Continue
    /\ UNCHANGED OtherThanWorker

WorkerNext ==
    WorkerTop \/ WorkerWait \/ WorkerStart \/ WorkerGet \/ WorkerConn \/ WorkerQueue \/ WorkerAwait

-----------------------------------------------------------------------------
(* Server::sweeper_loop_ *)

OtherThanSweeper == <<running_, robot_running, connected, server, worker, main,
                      g_shutdown_requested>>

SweeperAt(here, next) == sweeper = here /\ sweeper' = next

SweeperWake ==
    /\ IF running_ THEN SweeperAt("sleep", "sessions") ELSE SweeperAt("sleep", "exited")
    /\ UNCHANGED <<taskerVars, OtherThanSweeper>>

\* sweep_expired_sessions returns, or locks its own mutex a second time and
\* never returns (module Sessions).
SweepSessions ==
    /\ \E next \in {"tasks", "hung"} : SweeperAt("sessions", next)
    /\ UNCHANGED <<taskerVars, OtherThanSweeper>>

SweepTasks ==
    /\ SweeperAt("tasks", "sleep")
    /\ sweepExpiredTasks
    /\ UNCHANGED OtherThanSweeper

SweeperNext == SweeperWake \/ SweepSessions \/ SweepTasks

-----------------------------------------------------------------------------
(* The environment and the specification *)

\* The robot's own thread gains and loses the connection until it is joined.
RobotThread ==
    /\ robot_running
    /\ connected' = ~connected
    /\ UNCHANGED <<taskerVars, running_, robot_running, server, worker, sweeper, main,
                   g_shutdown_requested>>

TimePasses == Tick /\ UNCHANGED threadVars

Wakeup == SpuriousWakeup /\ UNCHANGED threadVars

Next ==
    /\ ~Terminated
    /\ \/ MainNext \/ ServerNext \/ WorkerNext \/ SweeperNext
       \/ Signal \/ RobotThread \/ TimePasses \/ Wakeup

Spec == Init /\ [][Next]_vars

\* The scheduler runs every thread that can run (each blocking call of the
\* loops has a time limit), and time passes.  Nothing is assumed of the
\* clients, the signals, the connection or spurious wakeups.
Fairness ==
    /\ WF_vars(~Terminated /\ MainNext)
    /\ WF_vars(~Terminated /\ ServerNext)
    /\ WF_vars(~Terminated /\ WorkerNext)
    /\ WF_vars(~Terminated /\ SweeperNext)
    /\ WF_vars(~Terminated /\ TimePasses)

FairSpec == Spec /\ Fairness

-----------------------------------------------------------------------------
(* Properties *)

StateOf(id) == IF Found(id) THEN m_task_map[id].state
               ELSE IF id < m_next_task_counter THEN "gone" ELSE "none"

Queued(id) == \E i \in 1..Len(m_task_queue) : m_task_queue[i] = id

\* An id between the two critical sections of addTask, or between the pop of
\* waitForNextTask and startTask.
InHand(id) == \/ server.pc = "push" /\ server.id = id
              \/ worker.pc = "start" /\ worker.id = id

\* No PENDING task is ever out of the worker's reach: it is in m_task_queue, on
\* its way in (addTask) or on its way out (waitForNextTask).  A task that were
\* not would answer TASK_PENDING to its client for ever.
NoTaskLost == \A id \in TaskId : StateOf(id) = "PENDING" => Queued(id) \/ InHand(id)

\* The queue holds only PENDING tasks, each once and in the order of their ids:
\* the worker never pops an id that a sweep or a poll has removed, nor one that
\* addTask has not put in the map yet.
QueuedArePending ==
    \A i \in 1..Len(m_task_queue) :
        /\ StateOf(m_task_queue[i]) = "PENDING"
        /\ \A j \in 1..Len(m_task_queue) : i < j => m_task_queue[i] < m_task_queue[j]

\* Every path of robot_worker_loop_ that leaves a started task behind has
\* finished it: an IN_PROGRESS task is the one the worker holds.
NoTaskAbandoned ==
    \A id \in TaskId : StateOf(id) = "IN_PROGRESS" =>
        worker.id = id /\ worker.pc \in Working \ {"start"}

\* The copy that getTask hands to a poll never pairs a state with the response
\* of another one, although completeTask and failTask store the response
\* whatever the mark method answered.
ResponseFitsState ==
    \A id \in TaskId :
        /\ StateOf(id) \in {"PENDING", "IN_PROGRESS"} => m_task_map[id].response = ""
        /\ StateOf(id) = "COMPLETED" => m_task_map[id].response = "reply"
        /\ StateOf(id) = "FAILED" =>
               m_task_map[id].response \in {"Robot error", "Robot disconnected"}

Stopping == main \notin {"start", "check", "going to block", "blocked"}

\* An accepted task does not stay PENDING or IN_PROGRESS: while the server is
\* not being stopped, the worker finishes every one of them.
TaskFinishes ==
    \A id \in TaskId : (StateOf(id) \in {"PENDING", "IN_PROGRESS"})
                           ~> (StateOf(id) \in Finished \cup {"gone"} \/ Stopping \/ Terminated)

\* The map does not grow for ever: a finished task that nobody polls is swept,
\* FAILED ones too, unless the session sweep of the same thread hangs.
FinishedTaskReclaimed ==
    \A id \in TaskId : (StateOf(id) \in Finished)
                           ~> (StateOf(id) = "gone" \/ Stopping \/ Terminated \/ sweeper = "hung")

\* Server::stop returns: all three threads end, whatever they were doing, unless
\* an exception ended the process or the sweeper hangs in the session sweep.
StopReturns == (main = "stop") ~> (main = "done" \/ Terminated \/ sweeper = "hung")

\* The threads together keep the promises of module TaskBoard.
Board == INSTANCE TaskBoard WITH phase <- [id \in TaskId |-> StateOf(id)]

RefinesTaskBoard == Board!BoardSpec

-----------------------------------------------------------------------------
(* What the repository says and the code does not do *)

\* A signal starts a "graceful shutdown" (main.cpp): no thread is ended by an
\* exception while Server::stop is on its way.
ShutdownIsGraceful == Stopping => worker.pc # "threw"

\* main "blocks until a signal is received" (main.cpp): once one has been, main
\* goes on to Server::stop.
SignalStopsServer == g_shutdown_requested ~> (Stopping \/ Terminated)
=============================================================================
