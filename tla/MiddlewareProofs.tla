-------------------------- MODULE MiddlewareProofs --------------------------
(***************************************************************************)
(* Sessions and tasks together, for all users and tokens and any number of  *)
(* tasks: the composition keeps its types, does nothing that Sessions does  *)
(* not allow, and takes no result away from the holder of the lock.         *)
(***************************************************************************)
EXTENDS Middleware, TaskerProofs, FiniteSetTheorems, SequenceTheorems

\* What is proved of Sessions holds of the sessions here.
AccessProofs == INSTANCE SessionsProofs WITH owners <- Owners

-----------------------------------------------------------------------------
(* The inductive invariant *)

Pushing == IF request.pc = "push" THEN 1 ELSE 0
InHand == IF worker.pc = "wait" THEN 0 ELSE 1

\* Ids go through addTask, queue and worker without a gap: where the queue begins,
\* and where the tasks begin that are not finished.
FirstQueued == m_next_task_counter - Pushing - Len(m_task_queue)
Oldest == FirstQueued - InHand

Pipeline ==
    /\ Oldest \in Nat \ {0}
    /\ \A i \in 1..Len(m_task_queue) : m_task_queue[i] = FirstQueued + (i - 1)
    /\ worker.pc # "wait" => worker.id = Oldest
    /\ request.pc = "push" => request.id = m_next_task_counter - 1
    /\ Unfinished = Oldest..(m_next_task_counter - 1)

StateIs(id, state) == Found(id) /\ m_task_map[id].state = state

\* The worker has not started what is queued, nor finished what it has started.
Stages ==
    /\ \A id \in FirstQueued..(m_next_task_counter - 1) : StateIs(id, "PENDING")
    /\ worker.pc = "start" => StateIs(worker.id, "PENDING")
    /\ worker.pc = "await" => StateIs(worker.id, "IN_PROGRESS")

\* The lock was the client's when its poll began; the sweep may have freed it, but
\* nobody else has taken it.
Polling ==
    request.pc \in {"getTask", "removeTask"} =>
        /\ request.id \in TaskId /\ request.token \in Tokens
        /\ current_lock_ \in {request.token, NoToken}

Removing == request.pc = "removeTask" => request.id \notin Unfinished

Owned == \A id \in TaskId : Found(id) => owner[id] \in Tokens

Types ==
    /\ TaskerTypeOK
    /\ request \in [pc: {"none", "getTask", "push", "removeTask"}, id: 0..MaxTasks,
                    token: Tokens \cup {NoToken}]
    /\ worker \in [pc: {"wait", "start", "await"}, id: 0..MaxTasks]
    /\ owner \in [TaskId -> Tokens \cup {NoToken}]
    /\ request.pc # "none" => handler = Access!NoRequest

\* The part about tasks and polls, and the one that Sessions keeps.
TaskInv == Types /\ Pipeline /\ Stages /\ Polling /\ Removing /\ Owned

IInv == TaskInv /\ AccessProofs!IInv

-----------------------------------------------------------------------------
(* Two instances of one module *)

\* Access and AccessProofs name the same things.
LEMMA SameInit == Access!Init => AccessProofs!Init
  BY DEF Access!Init, AccessProofs!Init, Access!NoRequest, AccessProofs!NoRequest, Access!Age,
     AccessProofs!Age, Access!Longest, AccessProofs!Longest

LEMMA SameVars == UNCHANGED Access!vars <=> UNCHANGED AccessProofs!vars
  BY DEF Access!vars, AccessProofs!vars

LEMMA SameCalls ==
    /\ Access!TokenToUsername <=> AccessProofs!TokenToUsername
    /\ Access!Login <=> AccessProofs!Login
    /\ Access!IsValidToken <=> AccessProofs!IsValidToken
    /\ Access!TouchSession <=> AccessProofs!TouchSession
    /\ Access!HasLock <=> AccessProofs!HasLock
    /\ Access!ReleaseLock <=> AccessProofs!ReleaseLock
    /\ Access!Logout <=> AccessProofs!Logout
    /\ Access!AcquireLock <=> AccessProofs!AcquireLock
    /\ Access!AddTask <=> AccessProofs!AddTask
<1> USE DEF Access!Calling, AccessProofs!Calling, Access!Then, AccessProofs!Then, Access!Reply,
            AccessProofs!Reply, Access!NoRequest, AccessProofs!NoRequest, Access!managerVars,
            AccessProofs!managerVars
<1>1. Access!TokenToUsername <=> AccessProofs!TokenToUsername
  BY DEF Access!TokenToUsername, AccessProofs!TokenToUsername
<1>2. Access!Login <=> AccessProofs!Login
  BY DEF Access!Login, AccessProofs!Login, Access!SessionOf, AccessProofs!SessionOf,
     Access!NewSession, AccessProofs!NewSession
<1>3. Access!IsValidToken <=> AccessProofs!IsValidToken
  BY DEF Access!IsValidToken, AccessProofs!IsValidToken
<1>4. Access!TouchSession <=> AccessProofs!TouchSession
  BY DEF Access!TouchSession, AccessProofs!TouchSession
<1>5. Access!HasLock <=> AccessProofs!HasLock
  BY DEF Access!HasLock, AccessProofs!HasLock
<1>6. Access!ReleaseLock <=> AccessProofs!ReleaseLock
  BY DEF Access!ReleaseLock, AccessProofs!ReleaseLock
<1>7. Access!Logout <=> AccessProofs!Logout
  BY DEF Access!Logout, AccessProofs!Logout
<1>8. Access!AcquireLock <=> AccessProofs!AcquireLock
  BY DEF Access!AcquireLock, AccessProofs!AcquireLock
<1>9. Access!AddTask <=> AccessProofs!AddTask
  BY DEF Access!AddTask, AccessProofs!AddTask
<1> QED BY <1>1, <1>2, <1>3, <1>4, <1>5, <1>6, <1>7, <1>8, <1>9

LEMMA SameNext == Access!Next <=> AccessProofs!Next
<1>1. Access!Receive <=> AccessProofs!Receive
  BY DEF Access!Receive, AccessProofs!Receive, Access!managerVars, AccessProofs!managerVars,
     Access!Command, AccessProofs!Command
<1>2. Access!FinishTask <=> AccessProofs!FinishTask
  BY DEF Access!FinishTask, AccessProofs!FinishTask, Access!managerVars, AccessProofs!managerVars
<1>3. Access!Sweep <=> AccessProofs!Sweep
  BY DEF Access!Sweep, AccessProofs!Sweep, Access!Expired, AccessProofs!Expired
<1>4. Access!Tick <=> AccessProofs!Tick
  BY DEF Access!Tick, AccessProofs!Tick, Access!Older, AccessProofs!Older, Access!Longest,
     AccessProofs!Longest
<1> QED
  BY <1>1, <1>2, <1>3, <1>4, SameCalls
  DEF Access!Next, AccessProofs!Next, Access!HandlerNext, AccessProofs!HandlerNext

\* A step that Sessions allows keeps what is proved of Sessions.
LEMMA AccessKept ==
    ASSUME AccessProofs!IInv, [Access!Next]_(Access!vars)
    PROVE  AccessProofs!IInv'
<1>1. [AccessProofs!Next]_(AccessProofs!vars)
  BY SameNext, SameVars
<1> QED BY <1>1, AccessAssumption, MaxTasksAssumption, AccessProofs!InvNext

-----------------------------------------------------------------------------
(* The order of the unfinished tasks *)

LEMMA NthOfInterval ==
    ASSUME NEW lo \in Nat \ {0}, NEW hi \in Nat, lo <= hi
    PROVE  /\ Cardinality(lo..(hi - 1)) = hi - lo
           /\ \A i \in 1..(hi - lo) : Nth(lo..(hi - 1), i) = lo + i - 1
<1>1. Cardinality(lo..(hi - 1)) = hi - lo
  BY FS_Interval
<1>2. ASSUME NEW id \in lo..(hi - 1) PROVE Rank(lo..(hi - 1), id) = id - lo + 1
  <2>1. {j \in lo..(hi - 1) : j <= id} = lo..id
    OBVIOUS
  <2>2. id \in Int /\ lo \in Int /\ ~(lo > id)
    OBVIOUS
  <2>3. Cardinality(lo..id) = id - lo + 1
    BY <2>2, FS_Interval
  <2> QED BY <2>1, <2>3 DEF Rank
<1>3. ASSUME NEW i \in 1..(hi - lo) PROVE Nth(lo..(hi - 1), i) = lo + i - 1
  <2>1. lo + i - 1 \in lo..(hi - 1)
    OBVIOUS
  <2>2. \A j \in lo..(hi - 1) : Rank(lo..(hi - 1), j) = i <=> j = lo + i - 1
    BY <1>2
  <2>3. {j \in lo..(hi - 1) : Rank(lo..(hi - 1), j) = i} = {lo + i - 1}
    BY <2>1, <2>2
  <2> QED BY <2>3 DEF Nth
<1> QED BY <1>1, <1>3

\* Whose tasks are not finished, in terms of the pipeline.
LEMMA OwnersInOrder ==
    ASSUME NEW lo \in Nat \ {0}, NEW hi \in Nat, lo <= hi, Unfinished = lo..(hi - 1)
    PROVE  Owners = [i \in 1..(hi - lo) |-> owner[lo + i - 1]]
  BY NthOfInterval DEF Owners

LEMMA OwnersAfter ==
    ASSUME NEW lo \in Nat \ {0}, NEW hi \in Nat, lo <= hi, Unfinished' = lo..(hi - 1)
    PROVE  Owners' = [i \in 1..(hi - lo) |-> owner'[lo + i - 1]]
  BY NthOfInterval DEF Owners

LEMMA AppendedWindow ==
    ASSUME NEW S, NEW s \in Seq(S), NEW x \in S, NEW n \in Nat, Len(s) = n, NEW e,
           DOMAIN e = 1..(n + 1), e = [i \in 1..(n + 1) |-> e[i]],
           \A i \in 1..n : e[i] = s[i], e[n + 1] = x
    PROVE  e = Append(s, x)
<1>0. /\ Append(s, x) \in Seq(S) /\ Len(Append(s, x)) = n + 1
      /\ \A i \in 1..n : Append(s, x)[i] = s[i]
      /\ Append(s, x)[n + 1] = x
  BY AppendProperties
<1>1. Append(s, x) \in [1..(n + 1) -> S]
  BY <1>0, LenProperties
<1>2. \A i \in 1..(n + 1) : e[i] = Append(s, x)[i]
  <2>1. \A i \in 1..(n + 1) : i \in 1..n \/ i = n + 1
    OBVIOUS
  <2> QED BY <1>0, <2>1
<1> QED BY <1>1, <1>2

LEMMA DroppedWindow ==
    ASSUME NEW S, NEW s \in Seq(S), NEW n \in Nat, Len(s) = n + 1, NEW e,
           DOMAIN e = 1..n, e = [i \in 1..n |-> e[i]], \A i \in 1..n : e[i] = s[i + 1]
    PROVE  s # <<>> /\ e = Tail(s)
<1>1. s # <<>>
  BY EmptySeq
<1>2. Tail(s) \in Seq(S) /\ Len(Tail(s)) = n /\ \A i \in 1..n : Tail(s)[i] = s[i + 1]
  <2>1. (n + 1) - 1 = n
    OBVIOUS
  <2>2. /\ Tail(s) \in Seq(S) /\ Len(Tail(s)) = (n + 1) - 1
        /\ \A i \in 1..Len(Tail(s)) : Tail(s)[i] = s[i + 1]
    BY <1>1, HeadTailProperties
  <2> QED BY <2>1, <2>2
<1>3. Tail(s) \in [1..n -> S]
  BY <1>2, LenProperties
<1> QED BY <1>1, <1>2, <1>3

-----------------------------------------------------------------------------
(* Facts about the pipeline *)

LEMMA PipelineFacts ==
    ASSUME Types, Pipeline
    PROVE  /\ m_next_task_counter \in Nat \ {0} /\ m_next_task_counter - 1 \in 0..MaxTasks
           /\ Len(m_task_queue) \in Nat /\ Pushing \in {0, 1} /\ InHand \in {0, 1}
           /\ FirstQueued \in Nat \ {0} /\ FirstQueued <= m_next_task_counter
           /\ Oldest \in Nat \ {0} /\ Oldest <= FirstQueued
           /\ Owners = [i \in 1..(m_next_task_counter - Oldest) |-> owner[Oldest + i - 1]]
           /\ Unfinished \subseteq TaskId
           /\ \A id \in Unfinished : owner[id] \in Tokens \cup {NoToken}
<1>1. m_next_task_counter \in 1..(MaxTasks + 1) /\ MaxTasks \in Nat
  BY MaxTasksAssumption DEF Types, TaskerTypeOK
<1>2. Len(m_task_queue) \in Nat
  BY DEF Types, TaskerTypeOK
<1>3. Pushing \in {0, 1} /\ InHand \in {0, 1}
  BY DEF Pushing, InHand
<1>4. Oldest \in Nat \ {0} /\ FirstQueued = Oldest + InHand
  BY <1>1, <1>2, <1>3 DEF Pipeline, Oldest, FirstQueued
<1>5. FirstQueued \in Nat \ {0} /\ FirstQueued <= m_next_task_counter /\ Oldest <= FirstQueued
  BY <1>1, <1>2, <1>3, <1>4 DEF FirstQueued
<1>6. Owners = [i \in 1..(m_next_task_counter - Oldest) |-> owner[Oldest + i - 1]]
  <2>1. m_next_task_counter \in Nat /\ Oldest <= m_next_task_counter
    BY <1>1, <1>4, <1>5
  <2> QED BY <1>4, <2>1, OwnersInOrder DEF Pipeline
<1>7. Unfinished \subseteq TaskId /\ \A id \in Unfinished : owner[id] \in Tokens \cup {NoToken}
  BY DEF Unfinished, Types
<1> QED BY <1>1, <1>2, <1>3, <1>4, <1>5, <1>6, <1>7

\* Most steps leave the unfinished tasks alone, and what the worker and addTask have
\* in hand.
TasksKept ==
    /\ \A id \in Unfinished : m_task_map'[id] = m_task_map[id]
    /\ Unfinished' = Unfinished
    /\ \A id \in TaskId : Found(id)' => Found(id)
    /\ UNCHANGED <<m_next_task_counter, m_task_queue, worker, owner>>
    /\ UNCHANGED request \/ (request.pc # "push" /\ request'.pc # "push")

LEMMA KeptTasks ==
    ASSUME Types, Pipeline, Stages, Owned, TasksKept
    PROVE  Pipeline' /\ Stages' /\ Owned' /\ Owners' = Owners
<1>1. Pushing' = Pushing /\ InHand' = InHand
  BY DEF TasksKept, Pushing, InHand
<1>2. FirstQueued' = FirstQueued /\ Oldest' = Oldest
  BY <1>1 DEF TasksKept, FirstQueued, Oldest
<1>3. Pipeline'
  BY <1>2 DEF TasksKept, Pipeline
<1>4. Stages'
  <2>1. \A id \in FirstQueued..(m_next_task_counter - 1) : id \in Unfinished
    BY PipelineFacts DEF Pipeline
  <2>2. worker.pc # "wait" => worker.id \in Unfinished
    BY PipelineFacts DEF Pipeline, Oldest, InHand
  <2>3. \A id \in Unfinished : id \in TaskId /\ (StateIs(id, "PENDING")' <=> StateIs(id, "PENDING"))
                               /\ (StateIs(id, "IN_PROGRESS")' <=> StateIs(id, "IN_PROGRESS"))
    BY PipelineFacts DEF TasksKept, StateIs, Found
  <2>4. UNCHANGED <<worker, m_next_task_counter>>
    BY DEF TasksKept
  <2>5. \A id \in FirstQueued..(m_next_task_counter - 1) : StateIs(id, "PENDING")'
    BY <2>1, <2>3 DEF Stages
  <2>6. worker.pc = "start" => StateIs(worker.id, "PENDING")'
    BY <2>2, <2>4 DEF TasksKept, Stages, StateIs, Found
  <2>7. worker.pc = "await" => StateIs(worker.id, "IN_PROGRESS")'
    BY <2>2, <2>4 DEF TasksKept, Stages, StateIs, Found
  <2> QED BY <1>2, <2>4, <2>5, <2>6, <2>7 DEF Stages, StateIs, Found
<1>5. Owned'
  BY DEF TasksKept, Owned
<1>6. Owners' = Owners
  BY DEF TasksKept, Owners
<1> QED BY <1>3, <1>4, <1>5, <1>6

-----------------------------------------------------------------------------
(* The steps: each keeps its part of the invariant and is one that Sessions allows *)

AccessStep == [Access!Next]_(Access!vars)

LEMMA QuietAccess ==
    ASSUME UNCHANGED <<accessVars, Owners>>
    PROVE  AccessStep
  BY DEF accessVars, AccessStep, Access!vars

\* Requests that ask for no task.
LEMMA NobodyAsks ==
    /\ Nobody.pc = "none"
    /\ Nobody \in [pc: {"none", "getTask", "push", "removeTask"}, id: 0..MaxTasks,
                   token: Tokens \cup {NoToken}]
    /\ Access!NoRequest.pc = "idle"
  BY MaxTasksAssumption DEF Nobody, Access!NoRequest

LEMMA StepReceive == TaskInv /\ Receive => TaskInv' /\ AccessStep
<1> SUFFICES ASSUME TaskInv, Receive PROVE TaskInv' /\ AccessStep
  OBVIOUS
<1> USE DEF TaskInv
<1>1. UNCHANGED <<taskerVars, request, worker, owner>> /\ request.pc = "none" /\ Access!Receive
  BY NobodyAsks DEF Receive
<1>2. TasksKept
  BY <1>1 DEF TasksKept, taskerVars, Unfinished, Found
<1>3. Types'
  BY <1>1 DEF Types, TaskerTypeOK, taskerVars
<1>4. Polling' /\ Removing'
  BY <1>1 DEF Polling, Removing
<1> QED
  BY <1>1, <1>2, <1>3, <1>4, KeptTasks DEF AccessStep, Access!Next

LEMMA StepSessionCall == IInv /\ SessionCall => TaskInv' /\ AccessStep
<1> SUFFICES ASSUME IInv, SessionCall PROVE TaskInv' /\ AccessStep
  OBVIOUS
<1> USE DEF TaskInv, IInv
<1>1. UNCHANGED <<taskerVars, worker, owner>>
  BY DEF SessionCall
<1>2. Access!HandlerNext
  BY DEF SessionCall, Access!HandlerNext
<1>3. handler.pc # "idle"
  BY DEF SessionCall, Access!TokenToUsername, Access!Login, Access!IsValidToken,
     Access!TouchSession, Access!HasLock, Access!ReleaseLock, Access!Logout, Access!AcquireLock,
     Access!Calling
<1>4. request.pc = "none"
  BY <1>3, NobodyAsks DEF Types
<1>5. CASE UNCHANGED request
  <2>1. TasksKept
    BY <1>1, <1>5 DEF TasksKept, taskerVars, Unfinished, Found
  <2>2. Types'
    BY <1>1, <1>4, <1>5 DEF Types, TaskerTypeOK, taskerVars
  <2>3. Polling' /\ Removing'
    BY <1>4, <1>5 DEF Polling, Removing
  <2> QED
    BY <1>2, <2>1, <2>2, <2>3, KeptTasks DEF AccessStep, Access!Next
<1>6. CASE /\ MayPoll
           /\ \E id \in TaskId : request' = [pc |-> "getTask", id |-> id, token |-> handler.token]
  <2>1. PICK id \in TaskId : request' = [pc |-> "getTask", id |-> id, token |-> handler.token]
    BY <1>6
  <2>2. /\ handler.pc = "has_lock" /\ handler.cmd = "CHECK_TASK"
        /\ current_lock_ = handler.token /\ handler.token \in Tokens
    BY <1>6 DEF MayPoll, AccessProofs!IInv, AccessProofs!InFlight, AccessProofs!Tokenless
  <2>3. Access!HasLock
    BY <2>2 DEF SessionCall, Access!TokenToUsername, Access!Login, Access!IsValidToken,
       Access!TouchSession, Access!ReleaseLock, Access!Logout, Access!AcquireLock, Access!Calling
  <2>4. handler' = Access!NoRequest /\ current_lock_' = current_lock_
    BY <2>2, <2>3 DEF Access!HasLock, Access!Reply, Access!managerVars
  <2>5. TasksKept
    BY <1>1, <1>4, <2>1 DEF TasksKept, taskerVars, Unfinished, Found
  <2>6. Types'
    <3>1. id \in 0..MaxTasks
      BY MaxTasksAssumption DEF TaskId
    <3> QED BY <1>1, <2>1, <2>2, <2>4, <3>1 DEF Types, TaskerTypeOK, taskerVars
  <2>7. Polling' /\ Removing'
    BY <2>1, <2>2, <2>4 DEF Polling, Removing
  <2> QED
    BY <1>2, <2>5, <2>6, <2>7, KeptTasks DEF AccessStep, Access!Next
<1> QED BY <1>5, <1>6 DEF SessionCall

LEMMA StepGetTask == TaskInv /\ GetTask => TaskInv' /\ AccessStep
<1> SUFFICES ASSUME TaskInv, GetTask PROVE TaskInv' /\ AccessStep
  OBVIOUS
<1> USE DEF TaskInv
<1>1. UNCHANGED <<taskerVars, accessVars, worker, owner>> /\ request.pc = "getTask"
  BY DEF GetTask
<1>2. \/ request' = [request EXCEPT !.pc = "removeTask"] /\ request.id \notin Unfinished
      \/ request' = Nobody
  BY DEF GetTask, Unfinished
<1>3. TasksKept
  BY <1>1, <1>2, NobodyAsks DEF Types, TasksKept, taskerVars, Unfinished, Found
<1>4. Types'
  BY <1>1, <1>2, NobodyAsks DEF Types, TaskerTypeOK, taskerVars, accessVars
<1>5. Unfinished' = Unfinished
  BY <1>3 DEF TasksKept
<1>6. Polling' /\ Removing'
  BY <1>1, <1>2, <1>5, NobodyAsks DEF Types, Polling, Removing, accessVars
<1> QED
  BY <1>1, <1>3, <1>4, <1>6, KeptTasks, QuietAccess

LEMMA StepRemoveTask == TaskInv /\ RemoveTask => TaskInv' /\ AccessStep
<1> SUFFICES ASSUME TaskInv, RemoveTask PROVE TaskInv' /\ AccessStep
  OBVIOUS
<1> USE DEF TaskInv
<1>1. /\ UNCHANGED <<accessVars, worker, owner>> /\ request.pc = "removeTask" /\ request' = Nobody
      /\ removeTask(request.id) /\ request.id \in TaskId /\ request.id \notin Unfinished
  BY DEF RemoveTask, Polling, Removing
<1>2. /\ m_task_map' = [m_task_map EXCEPT ![request.id] = NoTask]
      /\ UNCHANGED <<m_next_task_counter, m_task_queue, m_queue_cv, m_shutdown>>
  BY <1>1 DEF removeTask, SetTask
<1>3. \A id \in TaskId : m_task_map'[id] = IF id = request.id THEN NoTask ELSE m_task_map[id]
  BY <1>1, <1>2 DEF Types, TaskerTypeOK
<1>4. Unfinished' = Unfinished
  BY <1>1, <1>3 DEF Unfinished, Found
<1>5. TasksKept
  BY <1>1, <1>2, <1>3, <1>4, NobodyAsks DEF TasksKept, Unfinished, Found
<1>6. Types'
  <2>1. TaskerTypeOK'
    BY <1>1, TaskerTypes DEF Types, Response
  <2> QED BY <1>1, <2>1, NobodyAsks DEF Types
<1>7. Polling' /\ Removing'
  BY <1>1, NobodyAsks DEF Polling, Removing
<1> QED
  BY <1>1, <1>5, <1>6, <1>7, KeptTasks, QuietAccess

LEMMA StepAddTask == IInv /\ AddTask => TaskInv' /\ AccessStep
<1> SUFFICES ASSUME IInv, AddTask PROVE TaskInv' /\ AccessStep
  OBVIOUS
<1> USE DEF TaskInv, IInv
<1> DEFINE new == m_next_task_counter
<1>1. /\ handler.pc = "addTask" /\ addTask_emplace /\ handler' = Access!NoRequest
      /\ owner' = [owner EXCEPT ![new] = handler.token]
      /\ request' = [pc |-> "push", id |-> new, token |-> handler.token]
      /\ UNCHANGED <<sessions_, username, idle, uptime, current_lock_, sweeper, worker>>
  BY DEF AddTask
<1>2. request.pc = "none" /\ handler.token \in Tokens
  BY <1>1, NobodyAsks
  DEF Types, AccessProofs!IInv, AccessProofs!InFlight, AccessProofs!Tokenless, AccessProofs!Call
<1>3. /\ new \in TaskId /\ m_next_task_counter' = new + 1
      /\ m_task_map' = [m_task_map EXCEPT ![new] = NewTask]
      /\ UNCHANGED <<m_task_queue, m_queue_cv, m_shutdown>>
  BY <1>1 DEF addTask_emplace
<1>4. \A id \in TaskId : m_task_map'[id] = IF id = new THEN NewTask ELSE m_task_map[id]
  BY <1>3 DEF Types, TaskerTypeOK
<1>5. NewTask # NoTask /\ NewTask.state = "PENDING"
  BY NewTaskIsTask, NoTaskAssumption DEF NewTask
<1>6. Pushing = 0 /\ Pushing' = 1 /\ InHand' = InHand
  BY <1>1, <1>2 DEF Pushing, InHand
<1>7. FirstQueued' = FirstQueued /\ Oldest' = Oldest
  BY <1>3, <1>6, PipelineFacts DEF FirstQueued, Oldest
<1>8. Unfinished' = Oldest..new
  <2>1. \A id \in TaskId : id \in Unfinished' <=> id = new \/ id \in Unfinished
    BY <1>4, <1>5 DEF Unfinished, Found, Finished
  <2>2. Unfinished' \subseteq TaskId
    BY DEF Unfinished
  <2>3. Unfinished = Oldest..(new - 1) /\ Unfinished \subseteq TaskId
    BY PipelineFacts DEF Pipeline
  <2>4. Unfinished' = Unfinished \cup {new}
    BY <1>3, <2>1, <2>2, <2>3
  <2>5. Oldest \in Nat /\ new \in Nat /\ Oldest <= new
    BY PipelineFacts
  <2> QED BY <2>3, <2>4, <2>5
<1>9. Types'
  <2>1. TaskerTypeOK'
    BY <1>1, <1>3, TaskerTypes DEF Types, Response
  <2>2. new \in 0..MaxTasks
    BY <1>3, MaxTasksAssumption DEF TaskId
  <2> QED BY <1>1, <1>2, <2>1, <2>2 DEF Types
<1>10. Pipeline'
  BY <1>1, <1>3, <1>7, <1>8, PipelineFacts DEF Pipeline
<1>11. Stages'
  <2>1. ASSUME NEW id \in FirstQueued..new PROVE StateIs(id, "PENDING")'
    <3>1. CASE id = new
      BY <1>3, <1>4, <1>5, <3>1 DEF StateIs, Found
    <3>2. CASE id # new
      <4>1. id \in FirstQueued..(new - 1)
        BY <3>2, PipelineFacts
      <4>2. id \in TaskId
        BY <4>1, PipelineFacts DEF Pipeline
      <4> QED BY <1>4, <3>2, <4>1, <4>2 DEF Stages, StateIs, Found
    <3> QED BY <3>1, <3>2
  <2>2. worker.pc # "wait" => worker.id \in TaskId /\ worker.id # new
    BY PipelineFacts DEF Pipeline, Oldest, InHand
  <2>3. worker.pc = "start" => StateIs(worker.id, "PENDING")'
    BY <1>1, <1>4, <2>2 DEF Stages, StateIs, Found
  <2>4. worker.pc = "await" => StateIs(worker.id, "IN_PROGRESS")'
    BY <1>1, <1>4, <2>2 DEF Stages, StateIs, Found
  <2>5. m_next_task_counter' - 1 = new
    BY <1>3, PipelineFacts
  <2> QED BY <1>1, <1>7, <2>1, <2>3, <2>4, <2>5 DEF Stages
<1>12. Polling' /\ Removing'
  BY <1>1 DEF Polling, Removing
<1>13. Owned'
  BY <1>1, <1>2, <1>3, <1>4 DEF Owned, Found, Types
<1>14. Access!AddTask
  <2>0. /\ Oldest \in Nat \ {0} /\ new \in Nat /\ Oldest <= new
        /\ Owners = [i \in 1..(new - Oldest) |-> owner[Oldest + i - 1]]
    BY PipelineFacts
  <2>1. new - Oldest \in Nat /\ new + 1 \in Nat /\ Oldest <= new + 1 /\ (new + 1) - 1 = new
    BY <2>0
  <2>2. Owners' = [i \in 1..((new + 1) - Oldest) |-> owner'[Oldest + i - 1]]
    <3> DEFINE hi == new + 1
    <3>0. hi = new + 1
      OBVIOUS
    <3>1. hi \in Nat /\ Oldest <= hi /\ Unfinished' = Oldest..(hi - 1)
      BY <1>8, <2>1
    <3> HIDE DEF hi
    <3>2. Owners' = [i \in 1..(hi - Oldest) |-> owner'[Oldest + i - 1]]
      BY <2>0, <3>1, OwnersAfter
    <3> QED BY <3>0, <3>2
  <2>3. Owners \in Seq(Tokens) /\ Len(Owners) = new - Oldest
    BY <2>0, <2>1 DEF AccessProofs!IInv, AccessProofs!TypeOK
  <2>4. (new + 1) - Oldest = (new - Oldest) + 1
    BY <2>0
  <2>5. \A i \in 1..(new - Oldest) : Owners'[i] = Owners[i]
    <3>1. ASSUME NEW i \in 1..(new - Oldest) PROVE Owners'[i] = Owners[i]
      <4>1. Oldest + i - 1 \in Unfinished /\ Oldest + i - 1 # new /\ i \in 1..((new + 1) - Oldest)
        BY <2>0 DEF Pipeline
      <4>2. owner'[Oldest + i - 1] = owner[Oldest + i - 1]
        BY <1>1, <4>1, PipelineFacts DEF Types
      <4> QED BY <2>0, <2>2, <4>1, <4>2
    <3> QED BY <3>1
  <2>6. Owners'[(new - Oldest) + 1] = handler.token
    <3>1. (new - Oldest) + 1 \in 1..((new + 1) - Oldest) /\ Oldest + ((new - Oldest) + 1) - 1 = new
      BY <2>0
    <3>2. owner'[new] = handler.token
      BY <1>1, <1>3 DEF Types
    <3> QED BY <2>2, <3>1, <3>2
  <2>7. Owners' = Append(Owners, handler.token)
    <3>1. /\ DOMAIN Owners' = 1..((new - Oldest) + 1)
          /\ Owners' = [i \in 1..((new - Oldest) + 1) |-> Owners'[i]]
      BY <2>2, <2>4
    <3> QED BY <1>2, <2>1, <2>3, <2>5, <2>6, <3>1, AppendedWindow
  <2>8. Len(Owners) < MaxTasks
    BY <1>3, <2>0, <2>3, MaxTasksAssumption DEF TaskId
  <2> QED BY <1>1, <2>7, <2>8 DEF Access!AddTask, Access!Reply, Access!managerVars
<1> QED
  BY <1>9, <1>10, <1>11, <1>12, <1>13, <1>14 DEF AccessStep, Access!Next, Access!HandlerNext

\* The id drawn last goes to the end of the queue.
LEMMA StepPush == TaskInv /\ Push => TaskInv' /\ AccessStep
<1> SUFFICES ASSUME TaskInv, Push PROVE TaskInv' /\ AccessStep
  OBVIOUS
<1> USE DEF TaskInv
<1>1. /\ UNCHANGED <<accessVars, worker, owner>> /\ request.pc = "push" /\ request' = Nobody
      /\ UNCHANGED <<m_next_task_counter, m_task_map, m_queue_cv, m_shutdown>>
      /\ m_task_queue' = Append(m_task_queue, request.id)
  BY DEF Push, addTask_push
<1>2. request.id = m_next_task_counter - 1 /\ request.id \in TaskId
  <2>1. request.id = m_next_task_counter - 1
    BY <1>1 DEF Pipeline
  <2>2. m_next_task_counter \in 1..(MaxTasks + 1) /\ FirstQueued + Len(m_task_queue) = request.id
    BY <1>1, <2>1, PipelineFacts DEF Types, TaskerTypeOK, FirstQueued, Pushing
  <2> QED BY <2>1, <2>2, MaxTasksAssumption, PipelineFacts DEF TaskId
<1>3. /\ Len(m_task_queue') = Len(m_task_queue) + 1
      /\ \A i \in 1..Len(m_task_queue) : m_task_queue'[i] = m_task_queue[i]
      /\ m_task_queue'[Len(m_task_queue) + 1] = request.id
  BY <1>1, <1>2, AppendProperties DEF Types, TaskerTypeOK
<1>4. Pushing = 1 /\ Pushing' = 0 /\ InHand' = InHand
  BY <1>1, NobodyAsks DEF Pushing, InHand
<1>5. FirstQueued' = FirstQueued /\ Oldest' = Oldest
  <2>1. m_next_task_counter \in Nat /\ Len(m_task_queue) \in Nat
    BY PipelineFacts
  <2>2. /\ FirstQueued = m_next_task_counter - Pushing - Len(m_task_queue)
        /\ FirstQueued' = m_next_task_counter - Pushing' - Len(m_task_queue')
        /\ Oldest = FirstQueued - InHand /\ Oldest' = FirstQueued' - InHand'
    BY <1>1 DEF FirstQueued, Oldest
  <2>3. FirstQueued' = FirstQueued
    BY <1>3, <1>4, <2>1, <2>2
  <2> QED BY <1>4, <2>2, <2>3
<1>6. Types'
  <2>1. addTask_push(request.id)
    BY DEF Push
  <2>2. TaskerTypeOK'
    BY <1>2, <2>1, TaskerTypes DEF Types, Response
  <2> QED BY <1>1, <2>2, NobodyAsks DEF Types, accessVars
<1>7. Unfinished' = Unfinished /\ Owners' = Owners
  BY <1>1 DEF Unfinished, Found, Owners
<1>8. Pipeline'
  <2>1. FirstQueued + ((Len(m_task_queue) + 1) - 1) = request.id
    BY <1>2, <1>4, PipelineFacts DEF FirstQueued
  <2>2. \A i \in 1..(Len(m_task_queue) + 1) : i \in 1..Len(m_task_queue) \/ i = Len(m_task_queue) + 1
    BY PipelineFacts
  <2>3. \A i \in 1..Len(m_task_queue') : m_task_queue'[i] = FirstQueued + (i - 1)
    BY <1>3, <2>1, <2>2 DEF Pipeline
  <2> QED BY <1>1, <1>5, <1>7, <2>3, NobodyAsks DEF Pipeline
<1>9. Stages'
  BY <1>1, <1>5 DEF Stages, StateIs, Found
<1>10. Owned' /\ Polling' /\ Removing'
  BY <1>1, NobodyAsks DEF Owned, Found, Polling, Removing
<1> QED
  BY <1>1, <1>6, <1>7, <1>8, <1>9, <1>10, QuietAccess

\* The worker takes the oldest queued task in hand.
LEMMA StepPop == TaskInv /\ WorkerPop => TaskInv' /\ AccessStep
<1> SUFFICES ASSUME TaskInv, WorkerPop PROVE TaskInv' /\ AccessStep
  OBVIOUS
<1> USE DEF TaskInv
<1>1. /\ UNCHANGED <<accessVars, request, owner>> /\ worker.pc = "wait"
      /\ worker' = [pc |-> "start", id |-> Head(m_task_queue)]
      /\ UNCHANGED <<m_next_task_counter, m_task_map, m_queue_cv, m_shutdown>>
      /\ m_task_queue # <<>> /\ m_task_queue' = Tail(m_task_queue)
  BY DEF WorkerPop, wait_pop
<1>2. /\ Len(m_task_queue) \in Nat \ {0} /\ Len(m_task_queue') = Len(m_task_queue) - 1
      /\ \A i \in 1..Len(m_task_queue') : m_task_queue'[i] = m_task_queue[i + 1]
      /\ Head(m_task_queue) = m_task_queue[1] /\ Head(m_task_queue) \in TaskId
  <2>1. m_task_queue \in Seq(TaskId)
    BY DEF Types, TaskerTypeOK
  <2>2. Len(m_task_queue) # 0
    BY <1>1, <2>1, EmptySeq
  <2> QED BY <1>1, <2>1, <2>2, HeadTailProperties
<1>3. Head(m_task_queue) = FirstQueued
  BY <1>2, PipelineFacts DEF Pipeline
<1>4. Pushing' = Pushing /\ InHand = 0 /\ InHand' = 1
  BY <1>1 DEF Pushing, InHand
<1>5. FirstQueued' = FirstQueued + 1 /\ Oldest' = Oldest /\ Oldest = FirstQueued
  <2>1. m_next_task_counter \in Nat /\ Len(m_task_queue) \in Nat
    BY PipelineFacts
  <2>2. /\ FirstQueued = m_next_task_counter - Pushing - Len(m_task_queue)
        /\ FirstQueued' = m_next_task_counter - Pushing' - Len(m_task_queue')
        /\ Oldest = FirstQueued - InHand /\ Oldest' = FirstQueued' - InHand'
    BY <1>1 DEF FirstQueued, Oldest
  <2>3. Pushing \in Int /\ FirstQueued \in Int
    BY PipelineFacts
  <2>4. FirstQueued' = FirstQueued + 1
    BY <1>2, <1>4, <2>1, <2>2, <2>3
  <2> QED BY <1>4, <2>2, <2>3, <2>4
<1>6. Types'
  <2>1. wait_pop
    BY DEF WorkerPop
  <2>2. TaskerTypeOK'
    BY <1>2, <2>1, TaskerTypes DEF Types, Response
  <2>3. Head(m_task_queue) \in 0..MaxTasks
    BY <1>2, MaxTasksAssumption DEF TaskId
  <2> QED BY <1>1, <2>2, <2>3 DEF Types, accessVars
<1>7. Unfinished' = Unfinished /\ Owners' = Owners
  BY <1>1 DEF Unfinished, Found, Owners
<1>8. Pipeline'
  <2>1. \A i \in 1..Len(m_task_queue') : m_task_queue'[i] = FirstQueued' + (i - 1)
    <3>1. ASSUME NEW i \in 1..Len(m_task_queue') PROVE m_task_queue'[i] = FirstQueued' + (i - 1)
      <4>1. i + 1 \in 1..Len(m_task_queue)
        BY <1>2
      <4>2. m_task_queue'[i] = FirstQueued + ((i + 1) - 1)
        BY <1>2, <4>1 DEF Pipeline
      <4> QED BY <1>5, <4>2, PipelineFacts
    <3> QED BY <3>1
  <2> QED BY <1>1, <1>3, <1>5, <1>7, <2>1 DEF Pipeline
<1>9. Stages'
  <2>1. \A id \in FirstQueued'..(m_next_task_counter - 1) : id \in FirstQueued..(m_next_task_counter - 1)
    BY <1>5, PipelineFacts
  <2>2. FirstQueued \in FirstQueued..(m_next_task_counter - 1)
    BY <1>2, PipelineFacts DEF FirstQueued
  <2> QED BY <1>1, <1>3, <2>1, <2>2 DEF Stages, StateIs, Found
<1>10. Owned' /\ Polling' /\ Removing'
  BY <1>1, <1>7 DEF Owned, Found, Polling, Removing, accessVars
<1> QED
  BY <1>1, <1>6, <1>7, <1>8, <1>9, <1>10, QuietAccess

\* The task the worker has in hand is the oldest unfinished one, and is still there.
LEMMA TaskInHand ==
    ASSUME Types, Pipeline, Stages, worker.pc # "wait"
    PROVE  /\ worker.id = Oldest /\ InHand = 1 /\ FirstQueued = Oldest + 1
           /\ worker.id \in TaskId /\ worker.id \in Unfinished /\ Found(worker.id)
           /\ m_task_map[worker.id] \in Task
           /\ \A id \in FirstQueued..(m_next_task_counter - 1) : id \in TaskId /\ id # worker.id
<1>1. worker.id = Oldest /\ InHand = 1 /\ FirstQueued = Oldest + 1
  BY PipelineFacts DEF Pipeline, Oldest, InHand
<1>2. Oldest \in Unfinished /\ Oldest \in TaskId /\ Found(worker.id)
  <2>1. Oldest \in Oldest..(m_next_task_counter - 1)
    BY <1>1, PipelineFacts
  <2> QED BY <1>1, <2>1, PipelineFacts DEF Pipeline, Unfinished
<1>3. m_task_map[worker.id] \in Task
  BY <1>1, <1>2 DEF Types, TaskerTypeOK, Found
<1>4. \A id \in FirstQueued..(m_next_task_counter - 1) : id \in TaskId /\ id # worker.id
  <2>1. Oldest \in Nat /\ m_next_task_counter \in Nat
    BY PipelineFacts
  <2>2. Oldest..(m_next_task_counter - 1) \subseteq TaskId
    BY PipelineFacts DEF Pipeline
  <2> QED BY <1>1, <2>1, <2>2
<1> QED BY <1>1, <1>2, <1>3, <1>4

LEMMA StepStart == TaskInv /\ WorkerStart => TaskInv' /\ AccessStep
<1> SUFFICES ASSUME TaskInv, WorkerStart PROVE TaskInv' /\ AccessStep
  OBVIOUS
<1> USE DEF TaskInv
<1>1. /\ UNCHANGED <<accessVars, request, owner>> /\ worker.pc = "start" /\ startTask(worker.id)
      /\ worker' = [worker EXCEPT !.pc = "await"]
      /\ m_task_map' = [m_task_map EXCEPT ![worker.id] = markStarted(m_task_map[worker.id])]
      /\ UNCHANGED <<m_next_task_counter, m_task_queue, m_queue_cv, m_shutdown>>
  BY TaskInHand DEF WorkerStart, startTask, SetTask
<1>2. /\ \A id \in TaskId : m_task_map'[id] = IF id = worker.id THEN markStarted(m_task_map[worker.id])
                                                               ELSE m_task_map[id]
      /\ markStarted(m_task_map[worker.id]).state = "IN_PROGRESS"
      /\ m_task_map[worker.id].state = "PENDING"
      /\ markStarted(m_task_map[worker.id]) # NoTask
  <2>1. "" \in Response /\ m_task_map[worker.id].state = "PENDING"
    BY <1>1 DEF Response, Stages, StateIs
  <2>2. markStarted(m_task_map[worker.id]) # NoTask
    BY <1>1, <2>1, TaskInHand, TaskOperations, NoTaskAssumption
  <2>3. markStarted(m_task_map[worker.id]).state = "IN_PROGRESS"
    BY <1>1, <2>1, TaskInHand, TaskStates
  <2> QED BY <1>1, <2>1, <2>2, <2>3 DEF Types, TaskerTypeOK
<1>3. FirstQueued' = FirstQueued /\ Oldest' = Oldest /\ worker'.id = worker.id
      /\ worker'.pc = "await"
  BY <1>1 DEF Types, Pushing, InHand, FirstQueued, Oldest
<1>4. Unfinished' = Unfinished
  BY <1>1, <1>2, TaskInHand DEF Unfinished, Found, Finished
<1>5. Owners' = Owners
  BY <1>1, <1>4 DEF Owners
<1>6. Types'
  <2>1. TaskerTypeOK'
    BY <1>1, TaskInHand, TaskerTypes DEF Types, Response
  <2> QED BY <1>1, <2>1 DEF Types, accessVars
<1>7. Pipeline'
  BY <1>1, <1>3, <1>4, TaskInHand DEF Pipeline
<1>8. Stages'
  <2>1. \A id \in FirstQueued..(m_next_task_counter - 1) : m_task_map'[id] = m_task_map[id]
    BY <1>1, <1>2, TaskInHand
  <2>2. StateIs(worker.id, "IN_PROGRESS")'
    BY <1>1, <1>2, <1>3, TaskInHand DEF StateIs, Found
  <2> QED BY <1>1, <1>3, <2>1, <2>2 DEF Stages, StateIs, Found
<1>9. Owned' /\ Polling' /\ Removing'
  BY <1>1, <1>2, <1>4, TaskInHand DEF Owned, Found, Polling, Removing, accessVars
<1> QED
  BY <1>1, <1>5, <1>6, <1>7, <1>8, <1>9, QuietAccess

\* The oldest unfinished task is finished, which is what Sessions lets happen.
LEMMA StepFinish == IInv /\ WorkerFinish => TaskInv' /\ AccessStep
<1> SUFFICES ASSUME IInv, WorkerFinish PROVE TaskInv' /\ AccessStep
  OBVIOUS
<1> USE DEF TaskInv, IInv
<1>1. PICK r \in Response :
        /\ UNCHANGED <<accessVars, request, owner>> /\ worker.pc = "await"
        /\ completeTask(worker.id, r) \/ failTask(worker.id, r)
        /\ worker' = [pc |-> "wait", id |-> 0]
  BY DEF WorkerFinish, Response
<1> DEFINE t == m_task_map[worker.id]
<1>2. PICK u \in {setResponse(markCompleted(t), r), setResponse(markFailed(t), r)} :
        /\ m_task_map' = [m_task_map EXCEPT ![worker.id] = u]
        /\ UNCHANGED <<m_next_task_counter, m_task_queue, m_queue_cv, m_shutdown>>
  BY <1>1, TaskInHand DEF completeTask, failTask, SetTask
<1>3. u \in Task /\ u.state \in Finished
  <2>1. t \in Task /\ t.state = "IN_PROGRESS"
    BY <1>1, TaskInHand DEF Stages, StateIs
  <2> HIDE DEF t
  <2> QED BY <2>1, TaskOperations, TaskStates DEF Finished
<1>4. \A id \in TaskId : m_task_map'[id] = IF id = worker.id THEN u ELSE m_task_map[id]
  BY <1>2 DEF Types, TaskerTypeOK
<1>5. FirstQueued' = FirstQueued /\ Oldest' = Oldest + 1 /\ Oldest' = FirstQueued'
  <2>1. UNCHANGED <<Pushing, m_next_task_counter, m_task_queue>> /\ InHand = 1 /\ InHand' = 0
    BY <1>1, <1>2 DEF Pushing, InHand
  <2>2. FirstQueued' = FirstQueued
    BY <2>1 DEF FirstQueued
  <2>3. Oldest = FirstQueued - InHand /\ Oldest' = FirstQueued' - InHand' /\ FirstQueued \in Int
    BY PipelineFacts DEF Oldest
  <2> QED BY <2>1, <2>2, <2>3
<1>6. Unfinished' = Unfinished \ {Oldest}
  <2>1. \A id \in TaskId : id \in Unfinished' <=> id \in Unfinished /\ id # worker.id
    BY <1>3, <1>4 DEF Unfinished, Found
  <2> QED BY <1>1, <2>1, TaskInHand DEF Unfinished
<1>7. Unfinished' = (Oldest + 1)..(m_next_task_counter - 1)
  BY <1>6, PipelineFacts DEF Pipeline
<1>8. Types'
  <2>1. TaskerTypeOK'
    BY <1>1, TaskInHand, TaskerTypes DEF Types
  <2> QED BY <1>1, <2>1, MaxTasksAssumption DEF Types, accessVars
<1>9. Pipeline'
  BY <1>1, <1>2, <1>5, <1>7, PipelineFacts DEF Pipeline
<1>10. Stages'
  <2>1. \A id \in FirstQueued..(m_next_task_counter - 1) : m_task_map'[id] = m_task_map[id]
    BY <1>1, <1>4, TaskInHand
  <2> QED BY <1>1, <1>2, <1>5, <2>1 DEF Stages, StateIs, Found
<1>11. Owned' /\ Polling' /\ Removing'
  BY <1>1, <1>4, <1>6, TaskInHand DEF Owned, Found, Polling, Removing, accessVars
<1>12. Access!FinishTask
  <2> DEFINE n == m_next_task_counter - (Oldest + 1)
  <2>1. /\ Oldest \in Nat \ {0} /\ m_next_task_counter \in Nat /\ Oldest + 1 <= m_next_task_counter
        /\ n \in Nat /\ m_next_task_counter - Oldest = n + 1
        /\ Owners = [i \in 1..(m_next_task_counter - Oldest) |-> owner[Oldest + i - 1]]
    BY <1>1, TaskInHand, PipelineFacts
  <2>2. Owners' = [i \in 1..n |-> owner'[(Oldest + 1) + i - 1]]
    <3> DEFINE lo == Oldest + 1
    <3>1. lo \in Nat \ {0} /\ lo <= m_next_task_counter /\ Unfinished' = lo..(m_next_task_counter - 1)
      BY <1>7, <2>1
    <3> HIDE DEF lo
    <3>2. Owners' = [i \in 1..(m_next_task_counter - lo) |-> owner'[lo + i - 1]]
      BY <2>1, <3>1, OwnersAfter
    <3> QED BY <3>2 DEF lo
  <2>3. Owners \in Seq(Tokens) /\ Len(Owners) = n + 1
    BY <2>1 DEF AccessProofs!IInv, AccessProofs!TypeOK
  <2> HIDE DEF n
  <2>4. \A i \in 1..n : Owners'[i] = Owners[i + 1]
    <3>1. ASSUME NEW i \in 1..n PROVE Owners'[i] = Owners[i + 1]
      <4>1. i + 1 \in 1..(m_next_task_counter - Oldest) /\ (Oldest + 1) + i - 1 = Oldest + (i + 1) - 1
        BY <2>1
      <4>2. Owners[i + 1] = owner[Oldest + (i + 1) - 1]
        BY <2>1, <4>1
      <4>3. Owners'[i] = owner'[(Oldest + 1) + i - 1]
        BY <2>2
      <4> QED BY <1>1, <4>1, <4>2, <4>3
    <3> QED BY <3>1
  <2>5. Owners # <<>> /\ Owners' = Tail(Owners)
    <3>1. DOMAIN Owners' = 1..n /\ Owners' = [i \in 1..n |-> Owners'[i]]
      BY <2>2
    <3>2. n \in Nat
      BY <2>1
    <3> QED BY <2>3, <2>4, <3>1, <3>2, DroppedWindow
  <2> QED BY <1>1, <2>5 DEF Access!FinishTask, Access!managerVars, accessVars
<1> QED
  BY <1>8, <1>9, <1>10, <1>11, <1>12 DEF AccessStep, Access!Next

\* Expired sessions lose the lock, expired tasks were finished.
LEMMA StepSweeper == TaskInv /\ SweeperThread => TaskInv' /\ AccessStep
<1> SUFFICES ASSUME TaskInv, SweeperThread PROVE TaskInv' /\ AccessStep
  OBVIOUS
<1> USE DEF TaskInv
<1>1. UNCHANGED <<request, worker, owner>>
  BY DEF SweeperThread
<1>2. CASE UNCHANGED taskerVars /\ Access!Sweep
  <2>1. TasksKept
    BY <1>1, <1>2 DEF TasksKept, taskerVars, Unfinished, Found
  <2>2. UNCHANGED handler /\ current_lock_' \in {current_lock_, NoToken}
    BY <1>2 DEF Access!Sweep
  <2>3. Types'
    BY <1>1, <1>2, <2>2 DEF Types, TaskerTypeOK, taskerVars
  <2>4. Polling' /\ Removing'
    BY <1>1, <2>1, <2>2 DEF Polling, Removing, TasksKept
  <2> QED
    BY <1>2, <2>1, <2>3, <2>4, KeptTasks DEF AccessStep, Access!Next
<1>3. CASE sweepExpiredTasks /\ UNCHANGED accessVars
  <2>1. \A id \in TaskId : m_task_map'[id] = IF Found(id) /\ isExpired(m_task_map[id])
                                             THEN NoTask ELSE m_task_map[id]
    BY <1>3 DEF sweepExpiredTasks
  <2>2. \A id \in Unfinished : m_task_map'[id] = m_task_map[id]
    BY <2>1 DEF Unfinished, isExpired
  <2>3. Unfinished' = Unfinished
    BY <2>1, <2>2 DEF Unfinished, Found
  <2>4. TasksKept
    BY <1>1, <1>3, <2>1, <2>2, <2>3 DEF TasksKept, Found, sweepExpiredTasks
  <2>5. Types'
    <3>1. TaskerTypeOK'
      <4>1. 1 \in TaskId /\ "" \in Response
        BY MaxTasksAssumption DEF TaskId, Response
      <4> QED BY <1>3, <4>1, TaskerTypes DEF Types
    <3> QED BY <1>1, <1>3, <3>1 DEF Types, accessVars
  <2>6. Polling' /\ Removing'
    BY <1>1, <1>3, <2>3 DEF Polling, Removing, accessVars
  <2> QED
    BY <1>3, <2>4, <2>5, <2>6, KeptTasks, QuietAccess
<1> QED BY <1>2, <1>3 DEF SweeperThread

\* Only finished tasks and open sessions grow older.
LEMMA StepTime == TaskInv /\ Time => TaskInv' /\ AccessStep
<1> SUFFICES ASSUME TaskInv, Time PROVE TaskInv' /\ AccessStep
  OBVIOUS
<1> USE DEF TaskInv
<1>1. UNCHANGED <<request, worker, owner>> /\ Tick /\ Access!Tick
  BY DEF Time
<1>2. \A id \in TaskId : m_task_map'[id] = Older(m_task_map[id])
  BY <1>1 DEF Tick
<1>3. \A id \in TaskId : Found(id)' <=> Found(id)
  <2>1. ASSUME NEW id \in TaskId PROVE Found(id)' <=> Found(id)
    <3>1. CASE m_task_map[id] = NoTask
      BY <1>2, <3>1 DEF Older, Found
    <3>2. CASE m_task_map[id] \in Task
      <4>1. "" \in Response
        BY DEF Response
      <4>2. Older(m_task_map[id]) \in Task
        BY <3>2, <4>1, TaskOperations
      <4> QED BY <1>2, <3>2, <4>2, NoTaskAssumption DEF Found
    <3> QED BY <3>1, <3>2 DEF Types, TaskerTypeOK
  <2> QED BY <2>1
<1>4. \A id \in Unfinished : m_task_map'[id] = m_task_map[id]
  BY <1>2 DEF Unfinished, Older
<1>5. Unfinished' = Unfinished
  <2>1. \A id \in TaskId : Found(id) => m_task_map'[id].state = m_task_map[id].state
    <3>1. ASSUME NEW id \in TaskId, Found(id) PROVE m_task_map'[id].state = m_task_map[id].state
      <4>1. m_task_map[id] \in Task /\ "" \in Response
        BY <3>1 DEF Types, TaskerTypeOK, Found, Response
      <4> QED BY <1>2, <4>1, TaskStates
    <3> QED BY <3>1
  <2> QED BY <1>3, <2>1 DEF Unfinished
<1>6. TasksKept
  BY <1>1, <1>3, <1>4, <1>5 DEF TasksKept, Tick
<1>7. UNCHANGED <<handler, current_lock_>>
  BY <1>1 DEF Access!Tick
<1>8. Types'
  <2>1. TaskerTypeOK'
    <3>1. 1 \in TaskId /\ "" \in Response
      BY MaxTasksAssumption DEF TaskId, Response
    <3> QED BY <1>1, <3>1, TaskerTypes DEF Types
  <2> QED BY <1>1, <1>7, <2>1 DEF Types
<1>9. Polling' /\ Removing'
  BY <1>1, <1>5, <1>7 DEF Polling, Removing
<1> QED
  BY <1>1, <1>6, <1>8, <1>9, KeptTasks DEF AccessStep, Access!Next

LEMMA StepNothing == TaskInv /\ UNCHANGED vars => TaskInv' /\ AccessStep
<1> SUFFICES ASSUME TaskInv, UNCHANGED vars PROVE TaskInv' /\ AccessStep
  OBVIOUS
<1> USE DEF TaskInv
<1>1. UNCHANGED <<taskerVars, accessVars, request, worker, owner>>
  BY DEF vars, taskerVars, accessVars
<1>2. TasksKept
  BY <1>1 DEF TasksKept, taskerVars, Unfinished, Found
<1>3. Types'
  BY <1>1 DEF Types, TaskerTypeOK, taskerVars, accessVars
<1>4. Polling' /\ Removing'
  BY <1>1, <1>2 DEF TasksKept, Polling, Removing, accessVars
<1> QED
  BY <1>1, <1>2, <1>3, <1>4, KeptTasks, QuietAccess

-----------------------------------------------------------------------------
(* The invariant is inductive *)

LEMMA InvInit == Init => IInv
<1> SUFFICES ASSUME Init PROVE IInv
  OBVIOUS
<1>1. AccessProofs!IInv
  BY SameInit, AccessAssumption, MaxTasksAssumption, AccessProofs!InvInit DEF Init
<1>2. TaskerTypeOK
  <2>1. m_next_task_counter \in 1..(MaxTasks + 1)
    BY MaxTasksAssumption DEF Init, TaskerInit
  <2>2. m_task_queue \in Seq(TaskId)
    BY EmptySeq DEF Init, TaskerInit
  <2>3. m_task_map \in [TaskId -> Task \cup {NoTask}]
    BY DEF Init, TaskerInit
  <2> QED BY <2>1, <2>2, <2>3 DEF Init, TaskerInit, TaskerTypeOK
<1>3. Types
  BY <1>2, NobodyAsks, MaxTasksAssumption DEF Init, Types
<1>4. Unfinished = {} /\ \A id \in TaskId : ~Found(id)
  BY DEF Init, TaskerInit, Unfinished, Found
<1>5. FirstQueued = 1 /\ Oldest = 1
  BY NobodyAsks DEF Init, TaskerInit, FirstQueued, Oldest, Pushing, InHand
<1>6. Pipeline
  <2>1. Unfinished = 1..0 /\ 1 \in Nat \ {0} /\ m_next_task_counter = 1 /\ Len(m_task_queue) = 0
    BY <1>4 DEF Init, TaskerInit
  <2>2. \A i \in 1..0 : m_task_queue[i] = FirstQueued + (i - 1)
    OBVIOUS
  <2>3. worker.pc = "wait" /\ request.pc = "none"
    BY NobodyAsks DEF Init
  <2> QED BY <1>5, <2>1, <2>2, <2>3 DEF Pipeline
<1>7. Stages /\ Owned /\ Polling /\ Removing
  BY <1>4, <1>5, NobodyAsks DEF Init, TaskerInit, Stages, Owned, Polling, Removing
<1> QED BY <1>1, <1>3, <1>6, <1>7 DEF IInv, TaskInv

LEMMA EveryStep == IInv /\ [Next]_vars => TaskInv' /\ AccessStep
  BY StepReceive, StepSessionCall, StepGetTask, StepRemoveTask, StepAddTask, StepPush, StepPop,
     StepStart, StepFinish, StepSweeper, StepTime, StepNothing
  DEF IInv, Next, ServerThread, WorkerThread

LEMMA InvNext == IInv /\ [Next]_vars => IInv'
  BY EveryStep, AccessKept DEF IInv, AccessStep

-----------------------------------------------------------------------------
(* The theorems *)

\* The inductive invariant holds of every execution.
THEOREM MiddlewareInvariant == Spec => []IInv
  BY InvInit, InvNext, PTL DEF Spec

\* Sessions, registry, request and worker keep their types; no request of a client
\* is worked on while the calls of the last one on the Tasker go on.
THEOREM MiddlewareTypeCorrect == Spec => []TypeOK
<1>1. IInv => TypeOK
  BY DEF IInv, TaskInv, Types, TypeOK, AccessProofs!IInv, AccessProofs!TypeOK, Access!TypeOK,
     AccessProofs!Request, Access!Request, AccessProofs!Call, Access!Call, AccessProofs!Command,
     Access!Command, AccessProofs!Age, Access!Age, AccessProofs!Longest, Access!Longest
<1> QED BY <1>1, MiddlewareInvariant, PTL

\* The sessions with the registry's own unfinished tasks behave as Sessions says:
\* addTask and the robot worker change the list of unfinished tasks at its two ends,
\* and every other step of registry, worker or sweeper leaves it alone.
THEOREM SessionsImplemented == Spec => ImplementsSessions
<1>1. Init => Access!Init
  BY DEF Init
<1> QED
  BY <1>1, EveryStep, MiddlewareInvariant, PTL
  DEF Spec, ImplementsSessions, Access!Spec, AccessStep

\* What Sessions guarantees therefore holds of sessions and tasks together: a user
\* has one session, no task is accepted while another token than its own holds the
\* lock, and only acquire_lock gives the lock to a token without a session.
THEOREM SessionsGuarantees ==
    Spec => /\ [](AccessProofs!OneSessionPerUser)
            /\ AccessProofs!AcceptedUnderLock
            /\ AccessProofs!LockOrphanedOnlyByAcquire
<1>1. ImplementsSessions => AccessProofs!Spec
  BY SameInit, SameNext, SameVars, PTL DEF ImplementsSessions, Access!Spec, AccessProofs!Spec
<1>2. AccessProofs!Spec => /\ [](AccessProofs!OneSessionPerUser)
                           /\ AccessProofs!AcceptedUnderLock
                           /\ AccessProofs!LockOrphanedOnlyByAcquire
  BY AccessAssumption, MaxTasksAssumption, AccessProofs!OneSession, AccessProofs!TasksUnderLock,
     AccessProofs!OrphanedOnlyByAcquire
<1> QED BY <1>1, <1>2, SessionsImplemented, PTL

\* While a client holds the lock its results stay in the registry, until its own
\* poll removes them or they have expired: handle_check_task asks for the lock only,
\* and that is enough.
THEOREM KeptForHolder == Spec => ResultKeptForHolder
<1> DEFINE Kept ==
        \A id \in TaskId :
          Found(id) /\ ~Found(id)' =>
             \/ request.pc = "removeTask" /\ request.token = owner[id]
             \/ current_lock_ # owner[id]
             \/ isExpired(m_task_map[id])
<1>1. IInv /\ [Next]_vars => [Kept]_vars
  <2> SUFFICES ASSUME IInv, Next, NEW id \in TaskId, Found(id), ~Found(id)'
               PROVE  \/ request.pc = "removeTask" /\ request.token = owner[id]
                      \/ current_lock_ # owner[id]
                      \/ isExpired(m_task_map[id])
    OBVIOUS
  <2> USE DEF IInv, TaskInv
  <2>1. m_task_map' # m_task_map
    BY DEF Found
  <2>2. CASE AddTask
    <3>1. m_task_map'[id] \in {m_task_map[id], NewTask}
      BY <2>2 DEF AddTask, addTask_emplace, Types, TaskerTypeOK
    <3> QED BY <3>1, NewTaskIsTask, NoTaskAssumption DEF Found
  <2>3. CASE RemoveTask
    <3>1. current_lock_ \in {request.token, NoToken} /\ request.pc = "removeTask"
      BY <2>3 DEF RemoveTask, Polling
    <3>2. owner[id] # NoToken
      BY AccessAssumption DEF Owned
    <3> QED BY <3>1, <3>2
  <2>4. CASE WorkerStart \/ WorkerFinish
    <3>1. worker.pc # "wait" /\ worker.id \in TaskId /\ m_task_map[worker.id] \in Task
      BY <2>4, TaskInHand DEF WorkerStart, WorkerFinish
    <3>2. PICK u \in Task : m_task_map' = [m_task_map EXCEPT ![worker.id] = u]
      <4>1. ASSUME NEW r \in Response
            PROVE  /\ markStarted(m_task_map[worker.id]) \in Task
                   /\ setResponse(markCompleted(m_task_map[worker.id]), r) \in Task
                   /\ setResponse(markFailed(m_task_map[worker.id]), r) \in Task
        BY <3>1, TaskOperations
      <4>2. "reply" \in Response /\ "Robot error" \in Response
        BY DEF Response
      <4> QED
        BY <2>1, <2>4, <4>1, <4>2
        DEF WorkerStart, WorkerFinish, startTask, completeTask, failTask, SetTask, taskerVars
    <3>3. m_task_map'[id] = m_task_map[id] \/ m_task_map'[id] \in Task
      BY <3>2 DEF Types, TaskerTypeOK
    <3> QED BY <3>3, NoTaskAssumption DEF Found
  <2>5. CASE SweeperThread
    BY <2>1, <2>5 DEF SweeperThread, sweepExpiredTasks, taskerVars, Found
  <2>6. CASE Time
    <3>1. m_task_map'[id] = Older(m_task_map[id]) /\ m_task_map[id] \in Task
      BY <2>6 DEF Time, Tick, Types, TaskerTypeOK, Found
    <3>2. "" \in Response
      BY DEF Response
    <3>3. Older(m_task_map[id]) \in Task
      BY <3>1, <3>2, TaskOperations
    <3> QED BY <3>1, <3>3, NoTaskAssumption DEF Found
  <2> QED
    BY <2>1, <2>2, <2>3, <2>4, <2>5, <2>6
    DEF Next, ServerThread, WorkerThread, Receive, SessionCall, GetTask, Push, addTask_push,
        WorkerPop, wait_pop, taskerVars
<1> QED
  BY <1>1, MiddlewareInvariant, PTL DEF Spec, ResultKeptForHolder
=============================================================================
