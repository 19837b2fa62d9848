----------------------------- MODULE Middleware -----------------------------
(***************************************************************************)
(* Sessions and tasks together: the server thread works on a request by the *)
(* calls of module Sessions, then by those of module Tasker, while the      *)
(* worker and the sweeper change what both of them keep.  Sessions leaves   *)
(* open when a task is finished, and Server which requests are refused;     *)
(* here each decides for the other, and a task has the token it was         *)
(* accepted for.                                                            *)
(*                                                                          *)
(* How the worker waits, fails and stops is in Server: here its loop is     *)
(* reduced to the steps that change a task, and it never sleeps on          *)
(* m_queue_cv.                                                              *)
(***************************************************************************)
EXTENDS Tasker, FiniteSets

CONSTANTS Users, Tokens, NoUser, NoToken, SessionTimeout, RelockOutcomes   \* of Sessions

ASSUME AccessAssumption ==
    /\ NoUser \notin Users /\ NoToken \notin Tokens
    /\ SessionTimeout \in Nat /\ RelockOutcomes \subseteq {"hang", "recurse"}

VARIABLES
    \* of Sessions
    sessions_, username, idle, uptime, current_lock_, handler, sweeper,
    request,  \* the handler's calls on the Tasker: the next one, its id, who asked
    worker,   \* robot_worker_loop_: the id it has popped or started
    owner     \* the token each task was accepted for

accessVars == <<sessions_, username, idle, uptime, current_lock_, handler, sweeper>>
vars == <<m_next_task_counter, m_task_map, m_task_queue, m_queue_cv, m_shutdown, sessions_,
          username, idle, uptime, current_lock_, handler, sweeper, request, worker, owner>>

Nobody == [pc |-> "none", id |-> 0, token |-> NoToken]

Unfinished == {id \in TaskId : Found(id) /\ m_task_map[id].state \notin Finished}

Rank(ids, id) == Cardinality({j \in ids : j <= id})

\* The i-th of some ids, in the order they were drawn.
Nth(ids, i) == CHOOSE id \in {j \in ids : Rank(ids, j) = i} : TRUE

\* Whose tasks are not finished, oldest first.
Owners == [i \in 1..Cardinality(Unfinished) |-> owner[Nth(Unfinished, i)]]

Access == INSTANCE Sessions WITH owners <- Owners

TypeOK ==
    /\ TaskerTypeOK /\ Access!TypeOK
    /\ request \in [pc: {"none", "getTask", "push", "removeTask"}, id: 0..MaxTasks,
                    token: Tokens \cup {NoToken}]
    /\ worker \in [pc: {"wait", "start", "await"}, id: 0..MaxTasks]
    /\ owner \in [TaskId -> Tokens \cup {NoToken}]
    /\ request.pc # "none" => handler = Access!NoRequest

Init ==
    /\ TaskerInit
    /\ request = Nobody /\ worker = [pc |-> "wait", id |-> 0]
    /\ owner = [id \in TaskId |-> NoToken]
    /\ Access!Init

-----------------------------------------------------------------------------
(* The server thread *)

Receive ==
    /\ request = Nobody
    /\ UNCHANGED <<taskerVars, request, worker, owner>>
    /\ Access!Receive

\* Mutant: handle_check_task without validate_hardware_lock.
MayPoll_NoLock == handler.cmd = "CHECK_TASK" /\ handler.pc = "has_lock"

\* handle_check_task is about to see that the token holds the lock.
MayPoll ==
    handler.cmd = "CHECK_TASK" /\ handler.pc = "has_lock" /\ current_lock_ = handler.token

\* The calls on SessionManager.  After the last one the reply is sent, unless a
\* task is asked for.
SessionCall ==
    /\ UNCHANGED <<taskerVars, worker, owner>>
    /\ \/ MayPoll /\ \E id \in TaskId : request' = [pc |-> "getTask", id |-> id, token |-> handler.token]
       \/ UNCHANGED request
    /\ \/ Access!TokenToUsername \/ Access!Login \/ Access!IsValidToken \/ Access!TouchSession
       \/ Access!HasLock \/ Access!ReleaseLock \/ Access!Logout \/ Access!AcquireLock

\* handle_check_task: the reply is made from a copy of the task.
GetTask ==
    /\ request.pc = "getTask"
    /\ request' = IF Found(request.id) /\ m_task_map[request.id].state \in Finished
                  THEN [request EXCEPT !.pc = "removeTask"] ELSE Nobody
    /\ UNCHANGED <<taskerVars, accessVars, worker, owner>>

RemoveTask ==
    /\ request.pc = "removeTask"
    /\ removeTask(request.id)
    /\ request' = Nobody
    /\ UNCHANGED <<accessVars, worker, owner>>

\* handle_robot_command: token, lock and connection were good.
AddTask ==
    /\ handler.pc = "addTask"
    /\ addTask_emplace
    /\ owner' = [owner EXCEPT ![m_next_task_counter] = handler.token]
    /\ request' = [pc |-> "push", id |-> m_next_task_counter, token |-> handler.token]
    /\ handler' = Access!NoRequest
    /\ UNCHANGED <<sessions_, username, idle, uptime, current_lock_, sweeper, worker>>

Push ==
    /\ request.pc = "push"
    /\ addTask_push(request.id)
    /\ request' = Nobody
    /\ UNCHANGED <<accessVars, worker, owner>>

ServerThread == SessionCall \/ GetTask \/ RemoveTask \/ AddTask \/ Push

-----------------------------------------------------------------------------
(* The other threads and the clock *)

WorkerPop ==
    /\ worker.pc = "wait"
    /\ wait_pop
    /\ worker' = [pc |-> "start", id |-> Head(m_task_queue)]
    /\ UNCHANGED <<accessVars, request, owner>>

WorkerStart ==
    /\ worker.pc = "start"
    /\ startTask(worker.id)
    /\ worker' = IF Found(worker.id) THEN [worker EXCEPT !.pc = "await"] ELSE [pc |-> "wait", id |-> 0]
    /\ UNCHANGED <<accessVars, request, owner>>

\* The robot has answered, cannot be reached or takes too long.
WorkerFinish ==
    /\ worker.pc = "await"
    /\ \/ completeTask(worker.id, "reply")
       \/ failTask(worker.id, "Robot error")
    /\ worker' = [pc |-> "wait", id |-> 0]
    /\ UNCHANGED <<accessVars, request, owner>>

WorkerThread == WorkerPop \/ WorkerStart \/ WorkerFinish

\* sweeper_loop_ looks at the sessions, then at the tasks.
SweeperThread ==
    /\ sweeper = "sleep"
    /\ UNCHANGED <<request, worker, owner>>
    /\ \/ UNCHANGED taskerVars /\ Access!Sweep
       \/ sweepExpiredTasks /\ UNCHANGED accessVars

Time ==
    /\ Tick
    /\ UNCHANGED <<request, worker, owner>>
    /\ Access!Tick

Next == Receive \/ ServerThread \/ WorkerThread \/ SweeperThread \/ Time

Spec == Init /\ [][Next]_vars

\* As in Server; neither clients nor sweeper nor clock need go on.
Fairness == WF_vars(ServerThread) /\ WF_vars(WorkerThread)

FairSpec == Spec /\ Fairness

-----------------------------------------------------------------------------
(* Properties *)

\* With the tokens of the unfinished tasks of the registry for its owners, this is
\* what Sessions says: tasks are accepted at its calls only and finished oldest
\* first, so that whatever Sessions guarantees holds of sessions and tasks together.
ImplementsSessions == Access!Spec

\* While a client holds the lock, a result of its tasks is not taken away from it
\* (handle_check_task asks for the lock, not for the owner): it leaves the registry
\* by the client's own poll, or after it has expired.
ResultKeptForHolder ==
    [][\A id \in TaskId :
          Found(id) /\ ~Found(id)' =>
             \/ request.pc = "removeTask" /\ request.token = owner[id]
             \/ current_lock_ # owner[id]
             \/ isExpired(m_task_map[id])]_vars

\* Polling ends: no task is asked for again and again without an answer.  Each one
\* is executed and its result given to the holder that asks, with no help of the
\* sweeper or the clock.
PollingEnds ==
    <>[](\A id \in TaskId : request.pc = "getTask" /\ request.id = id => ~Found(id))
=============================================================================
