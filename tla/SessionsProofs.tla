---------------------------- MODULE SessionsProofs ----------------------------
(***************************************************************************)
(* What Sessions keeps for every set of users and tokens, every timeout and *)
(* whichever way the relocked mutex behaves.                                *)
(***************************************************************************)
EXTENDS Sessions, SequenceTheorems, TLAPS

-----------------------------------------------------------------------------
(* The inductive invariant *)

Tokenless == {"PING", "LOGIN"}

\* What the handler knows of its request by the call it is about to make.
InFlight ==
    /\ handler.pc \in Call \ {"idle", "token_to_username"} =>
           (handler.pc = "login" <=> handler.cmd \in Tokenless)
    /\ handler.pc = "login" => handler.cmd = "LOGIN"
    /\ handler.pc # "idle" /\ handler.cmd = "LOGIN" => handler.user \in Users
    /\ handler.pc # "idle" /\ handler.cmd \notin Tokenless => handler.token \in Tokens

\* A command whose check has passed: the sweep may have freed the lock since, but
\* nobody else has taken it.
CheckedForTask == handler.pc = "addTask" => current_lock_ \in {handler.token, NoToken}

\* logout gives the lock back before it erases the session.
LockGivenBack == handler.pc = "logout" => current_lock_ # handler.token

IInv == TypeOK /\ InFlight /\ OneSessionPerUser /\ CheckedForTask /\ LockGivenBack

-----------------------------------------------------------------------------
(* Facts about requests *)

LEMMA ReplyFacts ==
    ASSUME Reply
    PROVE  handler' \in Request /\ InFlight' /\ CheckedForTask' /\ LockGivenBack'
  BY DEF Reply, NoRequest, Request, Call, Command, InFlight, CheckedForTask, LockGivenBack

LEMMA ThenFacts ==
    ASSUME handler \in Request, NEW pc \in Call, Then(pc)
    PROVE  /\ handler' \in Request /\ handler'.pc = pc
           /\ handler'.cmd = handler.cmd /\ handler'.token = handler.token
           /\ handler'.user = handler.user
  BY DEF Then, Request

LEMMA InvInit == Init => IInv
<1> SUFFICES ASSUME Init PROVE IInv
  OBVIOUS
<1>1. NoRequest \in Request /\ NoRequest.pc = "idle"
  BY DEF NoRequest, Request, Call, Command
<1>2. 0 \in Age
  BY TimeoutAssumption DEF Age, Longest
<1>3. TypeOK
  BY <1>1, <1>2 DEF Init, TypeOK
<1>4. OneSessionPerUser
  BY DEF Init, OneSessionPerUser
<1> QED
  BY <1>1, <1>3, <1>4 DEF Init, IInv, InFlight, CheckedForTask, LockGivenBack, Call

-----------------------------------------------------------------------------
(* The steps *)

\* Steps of a handler that change nothing but the handler.
LEMMA InvHandlerOnly ==
    ASSUME IInv, UNCHANGED <<managerVars, uptime, sweeper, owners>>,
           handler' \in Request, InFlight', CheckedForTask', LockGivenBack'
    PROVE  IInv'
  BY DEF IInv, managerVars, TypeOK, OneSessionPerUser

LEMMA InvReceive == IInv /\ Receive => IInv'
<1> SUFFICES ASSUME IInv, Receive PROVE IInv'
  OBVIOUS
<1>1. PICK cmd \in Command :
        \E token \in IF cmd \in Tokenless THEN {NoToken} ELSE Tokens :
          \E user \in IF cmd = "LOGIN" THEN Users ELSE {NoUser} :
            handler' = [pc |-> IF cmd = "CHECK_TASK" THEN "is_valid_token"
                                                     ELSE "token_to_username",
                        cmd |-> cmd, token |-> token, user |-> user]
  BY DEF Receive, Tokenless
<1>2. PICK token \in IF cmd \in Tokenless THEN {NoToken} ELSE Tokens,
           user \in IF cmd = "LOGIN" THEN Users ELSE {NoUser} :
            handler' = [pc |-> IF cmd = "CHECK_TASK" THEN "is_valid_token"
                                                     ELSE "token_to_username",
                        cmd |-> cmd, token |-> token, user |-> user]
  BY <1>1
<1>3. handler' \in Request
  BY <1>2 DEF Request, Call, Tokenless
<1>4. InFlight' /\ CheckedForTask' /\ LockGivenBack'
  BY <1>2 DEF InFlight, CheckedForTask, LockGivenBack, Tokenless, Call
<1> QED
  BY <1>3, <1>4, InvHandlerOnly DEF Receive

LEMMA InvTokenToUsername == IInv /\ TokenToUsername => IInv'
<1> SUFFICES ASSUME IInv, TokenToUsername PROVE IInv'
  OBVIOUS
<1>1. handler \in Request /\ handler.pc = "token_to_username" /\ handler.cmd \in Command
  BY DEF TokenToUsername, Calling, IInv, TypeOK, Request
<1>2. CASE Reply
  BY <1>2, ReplyFacts, InvHandlerOnly DEF TokenToUsername
<1>3. CASE handler.cmd = "LOGIN" /\ Then("login")
  <2>1. /\ handler' \in Request /\ handler'.pc = "login" /\ handler'.cmd = "LOGIN"
        /\ handler'.user = handler.user
    BY <1>1, <1>3, ThenFacts DEF Call
  <2> QED
    BY <1>1, <1>3, <2>1, InvHandlerOnly DEF TokenToUsername, IInv, InFlight, CheckedForTask,
       LockGivenBack, Tokenless
<1>4. CASE handler.cmd \notin Tokenless /\ Then("is_valid_token")
  <2>1. /\ handler' \in Request /\ handler'.pc = "is_valid_token" /\ handler'.cmd = handler.cmd
        /\ handler'.token = handler.token
    BY <1>1, <1>4, ThenFacts DEF Call
  <2> QED
    BY <1>1, <1>4, <2>1, InvHandlerOnly DEF TokenToUsername, IInv, InFlight, CheckedForTask,
       LockGivenBack, Tokenless
<1> QED
  BY <1>1, <1>2, <1>3, <1>4 DEF TokenToUsername, Tokenless

LEMMA InvIsValidToken == IInv /\ IsValidToken => IInv'
<1> SUFFICES ASSUME IInv, IsValidToken PROVE IInv'
  OBVIOUS
<1>1. handler \in Request /\ handler.pc = "is_valid_token"
  BY DEF IsValidToken, Calling, IInv, TypeOK
<1>2. CASE Reply
  BY <1>2, ReplyFacts, InvHandlerOnly DEF IsValidToken
<1>3. CASE Then("touch_session")
  <2>1. /\ handler' \in Request /\ handler'.pc = "touch_session" /\ handler'.cmd = handler.cmd
        /\ handler'.token = handler.token
    BY <1>1, <1>3, ThenFacts DEF Call
  <2> QED
    BY <1>1, <2>1, InvHandlerOnly DEF IsValidToken, IInv, InFlight, CheckedForTask,
       LockGivenBack, Tokenless, Call
<1> QED
  BY <1>2, <1>3 DEF IsValidToken

LEMMA InvHasLock == IInv /\ HasLock => IInv'
<1> SUFFICES ASSUME IInv, HasLock PROVE IInv'
  OBVIOUS
<1>1. handler \in Request /\ handler.pc = "has_lock"
  BY DEF HasLock, Calling, IInv, TypeOK
<1>2. CASE Reply
  BY <1>2, ReplyFacts, InvHandlerOnly DEF HasLock
<1>3. ASSUME NEW pc \in {"release_lock", "addTask", "logout", "acquire_lock"}, Then(pc),
             pc = "addTask" => current_lock_ = handler.token,
             pc = "logout" => current_lock_ # handler.token
      PROVE  IInv'
  <2>1. /\ handler' \in Request /\ handler'.pc = pc /\ handler'.cmd = handler.cmd
        /\ handler'.token = handler.token
    BY <1>1, <1>3, ThenFacts DEF Call
  <2>2. InFlight'
    BY <1>1, <2>1 DEF IInv, InFlight, Tokenless, Call
  <2>3. CheckedForTask' /\ LockGivenBack'
    BY <1>3, <2>1 DEF HasLock, managerVars, CheckedForTask, LockGivenBack
  <2> QED
    BY <2>1, <2>2, <2>3, InvHandlerOnly DEF HasLock
<1>4. \/ Reply
      \/ Then("release_lock") \/ Then("acquire_lock")
      \/ Then("addTask") /\ current_lock_ = handler.token
      \/ Then("logout") /\ current_lock_ # handler.token
  BY DEF HasLock
<1> QED
  BY <1>2, <1>3, <1>4

\* touch_session and the clock change ages and nothing else that counts.
LEMMA InvAges ==
    ASSUME IInv, UNCHANGED <<sessions_, username, current_lock_, sweeper, owners>>,
           idle' \in [Tokens -> Age], uptime' \in Age,
           handler' \in Request, InFlight', CheckedForTask', LockGivenBack'
    PROVE  IInv'
  BY DEF IInv, TypeOK, OneSessionPerUser

LEMMA InvTouchSession == IInv /\ TouchSession => IInv'
<1> SUFFICES ASSUME IInv, TouchSession PROVE IInv'
  OBVIOUS
<1>1. handler \in Request /\ handler.pc = "touch_session" /\ Then("has_lock")
  BY DEF TouchSession, Calling, IInv, TypeOK
<1>2. /\ handler' \in Request /\ handler'.pc = "has_lock" /\ handler'.cmd = handler.cmd
      /\ handler'.token = handler.token
  BY <1>1, ThenFacts DEF Call
<1>3. InFlight' /\ CheckedForTask' /\ LockGivenBack'
  BY <1>1, <1>2 DEF IInv, InFlight, CheckedForTask, LockGivenBack, Tokenless, Call
<1>4. idle' \in [Tokens -> Age] /\ uptime' \in Age
  <2>1. 0 \in Age
    BY TimeoutAssumption DEF Age, Longest
  <2> QED
    BY <2>1 DEF TouchSession, IInv, TypeOK
<1> QED
  BY <1>2, <1>3, <1>4, InvAges DEF TouchSession

LEMMA InvTick == IInv /\ Tick => IInv'
<1> SUFFICES ASSUME IInv, Tick PROVE IInv'
  OBVIOUS
<1>1. \A age \in Age : Older(age) \in Age
  BY TimeoutAssumption DEF Age, Longest, Older
<1>2. idle' \in [Tokens -> Age] /\ uptime' \in Age
  BY <1>1 DEF Tick, IInv, TypeOK
<1>3. handler' \in Request /\ InFlight' /\ CheckedForTask' /\ LockGivenBack'
  BY DEF Tick, IInv, TypeOK, InFlight, CheckedForTask, LockGivenBack
<1> QED
  BY <1>2, <1>3, InvAges DEF Tick

LEMMA InvLogin == IInv /\ Login => IInv'
<1> SUFFICES ASSUME IInv, Login PROVE IInv'
  OBVIOUS
<1>1. /\ handler' \in Request /\ InFlight' /\ CheckedForTask' /\ LockGivenBack'
      /\ UNCHANGED <<uptime, current_lock_, sweeper, owners>>
  BY ReplyFacts DEF Login
<1>2. handler.user \in Users /\ handler.user # NoUser
  BY UsersAssumption DEF Login, Calling, IInv, InFlight
<1>3. CASE UNCHANGED <<sessions_, username, idle>>
  BY <1>1, <1>3 DEF IInv, TypeOK, OneSessionPerUser
<1>4. ASSUME SessionOf(handler.user) = {}, NEW token \in Tokens, username[token] = NoUser,
             NewSession(token, handler.user)
      PROVE  IInv'
  <2>1. /\ sessions_' = sessions_ \cup {token}
        /\ username' = [username EXCEPT ![token] = handler.user]
        /\ idle' = [idle EXCEPT ![token] = uptime]
    BY <1>4 DEF NewSession
  <2>2. \A t \in sessions_ : t \in Tokens /\ t # token /\ username'[t] = username[t]
    BY <1>4, <2>1 DEF IInv, TypeOK
  <2>3. username'[token] = handler.user /\ \A t \in sessions_ : username[t] # handler.user
    BY <1>4, <2>1 DEF IInv, TypeOK, SessionOf
  <2>4. OneSessionPerUser'
    BY <2>1, <2>2, <2>3 DEF IInv, OneSessionPerUser
  <2>5. sessions_' \subseteq {t \in Tokens : username'[t] # NoUser}
    BY <1>2, <2>1, <2>2, <2>3 DEF IInv, TypeOK
  <2>6. TypeOK'
    BY <1>1, <1>2, <2>1, <2>5 DEF IInv, TypeOK
  <2> QED
    BY <1>1, <2>4, <2>6 DEF IInv
<1> QED
  BY <1>3, <1>4 DEF Login

LEMMA InvLocking == IInv /\ (ReleaseLock \/ AcquireLock) => IInv'
<1> SUFFICES ASSUME IInv, ReleaseLock \/ AcquireLock PROVE IInv'
  OBVIOUS
<1>1. /\ UNCHANGED <<sessions_, username, idle, uptime, sweeper, owners>>
      /\ handler \in Request /\ handler.token \in Tokens /\ handler.cmd \notin Tokenless
      /\ handler.pc \in {"release_lock", "acquire_lock"}
  BY DEF ReleaseLock, AcquireLock, Calling, IInv, TypeOK, InFlight, Tokenless, Call
<1>2. current_lock_' \in Tokens \cup {NoToken}
  BY <1>1 DEF ReleaseLock, AcquireLock, IInv, TypeOK
<1>3. handler' \in Request /\ InFlight' /\ CheckedForTask' /\ LockGivenBack'
  <2>1. CASE Reply
    BY <2>1, ReplyFacts
  <2>2. CASE ReleaseLock /\ Then("logout")
    <3>1. /\ handler' \in Request /\ handler'.pc = "logout" /\ handler'.cmd = handler.cmd
          /\ handler'.token = handler.token
      BY <1>1, <2>2, ThenFacts DEF Call
    <3>2. current_lock_' # handler.token
      BY <1>1, <2>2, TokensAssumption DEF ReleaseLock
    <3> QED
      BY <1>1, <3>1, <3>2 DEF InFlight, CheckedForTask, LockGivenBack, Tokenless
  <2> QED
    BY <2>1, <2>2 DEF ReleaseLock, AcquireLock
<1> QED
  BY <1>1, <1>2, <1>3 DEF IInv, TypeOK, OneSessionPerUser

LEMMA InvLogout == IInv /\ Logout => IInv'
<1> SUFFICES ASSUME IInv, Logout PROVE IInv'
  OBVIOUS
<1>1. handler' \in Request /\ InFlight' /\ CheckedForTask' /\ LockGivenBack'
  BY ReplyFacts DEF Logout
<1> QED
  BY <1>1 DEF Logout, IInv, TypeOK, OneSessionPerUser

LEMMA InvTasks == IInv /\ (AddTask \/ FinishTask) => IInv'
<1> SUFFICES ASSUME IInv, AddTask \/ FinishTask PROVE IInv'
  OBVIOUS
<1>1. owners' \in Seq(Tokens)
  <2>1. owners \in Seq(Tokens)
    BY DEF IInv, TypeOK
  <2>2. CASE AddTask
    <3>1. handler.token \in Tokens
      BY <2>2 DEF AddTask, IInv, InFlight, Call
    <3> QED
      BY <2>1, <2>2, <3>1, AppendProperties DEF AddTask
  <2>3. CASE FinishTask
    BY <2>1, <2>3, HeadTailProperties DEF FinishTask
  <2> QED
    BY <2>2, <2>3
<1>2. handler' \in Request /\ InFlight' /\ CheckedForTask' /\ LockGivenBack'
  <2>1. CASE AddTask
    BY <2>1, ReplyFacts DEF AddTask
  <2>2. CASE FinishTask
    BY <2>2 DEF FinishTask, managerVars, IInv, TypeOK, InFlight, CheckedForTask, LockGivenBack
  <2> QED
    BY <2>1, <2>2
<1> QED
  BY <1>1, <1>2 DEF AddTask, FinishTask, managerVars, IInv, TypeOK, OneSessionPerUser

LEMMA InvSweep == IInv /\ Sweep => IInv'
<1> SUFFICES ASSUME IInv, Sweep PROVE IInv'
  OBVIOUS
<1>1. /\ sessions_' \subseteq sessions_ /\ sweeper' \in {"sleep", "hung"}
      /\ current_lock_' \in {current_lock_, NoToken}
      /\ UNCHANGED <<username, idle, uptime, handler, owners>>
  BY DEF Sweep, IInv, TypeOK
<1>2. handler.pc = "logout" => handler.token # NoToken
  BY TokensAssumption DEF IInv, InFlight, Call
<1>3. InFlight' /\ CheckedForTask' /\ LockGivenBack'
  BY <1>1, <1>2 DEF IInv, InFlight, CheckedForTask, LockGivenBack
<1> QED
  BY <1>1, <1>3 DEF IInv, TypeOK, OneSessionPerUser

LEMMA InvNext == IInv /\ [Next]_vars => IInv'
<1> SUFFICES ASSUME IInv, [Next]_vars PROVE IInv'
  OBVIOUS
<1>1. CASE UNCHANGED vars
  BY <1>1 DEF vars, IInv, TypeOK, InFlight, OneSessionPerUser, CheckedForTask, LockGivenBack
<1>2. CASE HandlerNext
  BY <1>2, InvTokenToUsername, InvLogin, InvIsValidToken, InvTouchSession, InvHasLock, InvLocking,
     InvLogout, InvTasks DEF HandlerNext
<1> QED
  BY <1>1, <1>2, InvReceive, InvTasks, InvSweep, InvTick DEF Next

-----------------------------------------------------------------------------
(* The theorems *)

\* The inductive invariant holds of every execution.
THEOREM SessionsInvariant == Spec => []IInv
  BY InvInit, InvNext, PTL DEF Spec

\* Sessions, lock and handler keep their types; a session always has its user.
THEOREM SessionsTypeCorrect == Spec => []TypeOK
  BY SessionsInvariant, PTL DEF IInv

\* However logins, logouts and sweeps follow each other, login never leaves a user
\* with two sessions.
THEOREM OneSession == Spec => []OneSessionPerUser
  BY SessionsInvariant, PTL DEF IInv

\* handle_robot_command adds no task while another token holds the lock, although
\* the sweep may run between its check of the lock and addTask.
THEOREM TasksUnderLock == Spec => AcceptedUnderLock
<1> DEFINE Accepted ==
        \A t \in Tokens : owners' = Append(owners, t) => current_lock_ \in {t, NoToken}
<1>1. IInv /\ [Next]_vars => [Accepted]_vars
  <2> SUFFICES ASSUME IInv, Next, NEW t \in Tokens, owners' = Append(owners, t)
               PROVE  current_lock_ \in {t, NoToken}
    OBVIOUS
  <2>1. owners \in Seq(Tokens)
    BY DEF IInv, TypeOK
  <2>2. CASE AddTask
    <3>1. owners' = Append(owners, handler.token) /\ handler.token \in Tokens
      BY <2>2 DEF AddTask, IInv, InFlight, Call
    <3>2. \A u \in Tokens : Append(owners, u)[Len(owners) + 1] = u
      BY <2>1, AppendProperties
    <3>3. Append(owners, t) = Append(owners, handler.token)
      BY <3>1
    <3>4. t = handler.token
      BY <3>1, <3>2, <3>3, Zenon
    <3> QED
      BY <2>2, <3>4 DEF AddTask, IInv, CheckedForTask
  <2>3. Len(Append(owners, t)) = Len(owners) + 1 /\ Len(owners) \in Nat
    BY <2>1, AppendProperties, LenProperties
  <2>4. CASE FinishTask
    <3>1. Len(Tail(owners)) = Len(owners) - 1
      BY <2>1, <2>4, HeadTailProperties DEF FinishTask
    <3> QED
      BY <2>3, <2>4, <3>1 DEF FinishTask
  <2>5. CASE owners' = owners
    BY <2>3, <2>5
  <2> QED
    BY <2>2, <2>4, <2>5 DEF Next, HandlerNext, Receive, TokenToUsername, Login, IsValidToken,
       TouchSession, HasLock, ReleaseLock, Logout, AcquireLock, Sweep, Tick
<1> QED
  BY <1>1, SessionsInvariant, PTL DEF Spec, AcceptedUnderLock

\* logout and the sweep free the lock of the session they erase; only acquire_lock
\* can give the lock to a token without a session.
THEOREM OrphanedOnlyByAcquire == Spec => LockOrphanedOnlyByAcquire
<1> DEFINE Orphaned ==
        \A t \in Tokens :
           current_lock_' = t /\ t \notin sessions_' =>
              \/ current_lock_ = t /\ t \notin sessions_
              \/ handler.pc = "acquire_lock" /\ handler.token = t
<1>1. IInv /\ [Next]_vars => [Orphaned]_vars
  <2> SUFFICES ASSUME IInv, Next, NEW t \in Tokens, current_lock_' = t, t \notin sessions_'
               PROVE  \/ current_lock_ = t /\ t \notin sessions_
                      \/ handler.pc = "acquire_lock" /\ handler.token = t
    OBVIOUS
  <2>1. t # NoToken
    BY TokensAssumption
  <2>2. CASE Logout
    BY <2>2 DEF Logout, Calling, IInv, LockGivenBack
  <2>3. CASE Sweep
    BY <2>1, <2>3 DEF Sweep
  <2>4. CASE ReleaseLock \/ AcquireLock
    BY <2>1, <2>4 DEF ReleaseLock, AcquireLock, Calling
  <2>5. CASE current_lock_' = current_lock_ /\ sessions_ \subseteq sessions_'
    BY <2>5
  <2> QED
    BY <2>2, <2>3, <2>4, <2>5 DEF Next, HandlerNext, Receive, TokenToUsername, Login, NewSession,
       IsValidToken, TouchSession, HasLock, AddTask, FinishTask, Tick, managerVars
<1> QED
  BY <1>1, SessionsInvariant, PTL DEF Spec, LockOrphanedOnlyByAcquire
=============================================================================
