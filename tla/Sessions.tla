------------------------------ MODULE Sessions ------------------------------
(***************************************************************************)
(* Who may command the robot: SessionManager (src/src/server/session.cpp)   *)
(* with its sessions and its single hardware lock, the handlers of          *)
(* RequestHandler (request_handler.cpp) that the server thread runs against *)
(* it, and the sweeper thread that expires sessions.                        *)
(*                                                                          *)
(* Every method of SessionManager is one step (it holds mutex_ throughout); *)
(* a handler is a sequence of such steps, and the sweeper may run between   *)
(* any two of them.  Tasks are reduced to the token they were accepted for. *)
(***************************************************************************)
EXTENDS Naturals, Sequences

CONSTANTS
    Users,          \* the users of the configuration file
    Tokens,         \* what generate_uuid can return
    NoUser,
    NoToken,        \* current_lock_ == std::nullopt
    SessionTimeout, \* ticks; 60 s in Server::sweeper_loop_
    MaxTasks,       \* bound on the tasks accepted and not yet finished
    RelockOutcomes  \* what locking mutex_ again in its owner may do: see Sweep

ASSUME UsersAssumption == NoUser \notin Users
ASSUME TokensAssumption == NoToken \notin Tokens
ASSUME TimeoutAssumption == SessionTimeout \in Nat
ASSUME SessionTasksAssumption == MaxTasks \in Nat
ASSUME RelockAssumption == RelockOutcomes \subseteq {"hang", "recurse"}

VARIABLES
    sessions_,      \* the tokens with an entry in SessionManager::sessions_
    username,       \* Session::username of every token handed out so far
    idle,           \* now - last_seen of every token, counted up to Longest
    uptime,         \* now - epoch of the steady clock, counted up to Longest
    current_lock_,  \* the token that holds the hardware lock
    handler,        \* the request the server thread is working on
    sweeper,        \* "hung" once it waits for the mutex_ it owns
    owners          \* the tokens of the accepted, unfinished tasks, oldest first

vars == <<sessions_, username, idle, uptime, current_lock_, handler, sweeper, owners>>
managerVars == <<sessions_, username, idle, current_lock_>>

\* Ages are told apart only up to the first one that counts as expired.
Longest == SessionTimeout + 1
Age == 0..Longest

\* Of the commands without a token, PING stands for UNKNOWN too; of those that
\* only check the token and the lock, CHECK_TASK stands for EXIT too.
Command == {"PING", "LOGIN", "LOGOUT", "ACQUIRE", "RELEASE", "CHECK_TASK", "ROBOT"}

\* The next call of the handler.
Call == {"idle", "token_to_username", "login", "is_valid_token", "touch_session", "has_lock",
         "release_lock", "logout", "acquire_lock", "addTask"}

Request == [pc: Call, cmd: Command, token: Tokens \cup {NoToken}, user: Users \cup {NoUser}]

TypeOK ==
    /\ sessions_ \subseteq {t \in Tokens : username[t] # NoUser}
    /\ username \in [Tokens -> Users \cup {NoUser}]
    /\ idle \in [Tokens -> Age]
    /\ uptime \in Age
    /\ current_lock_ \in Tokens \cup {NoToken}
    /\ handler \in Request
    /\ sweeper \in {"sleep", "hung"}
    /\ owners \in Seq(Tokens)

NoRequest == [pc |-> "idle", cmd |-> "PING", token |-> NoToken, user |-> NoUser]

\* The program may start at any time after the epoch of the steady clock (the
\* boot of the machine).
Init ==
    /\ sessions_ = {}
    /\ username = [t \in Tokens |-> NoUser]
    /\ idle = [t \in Tokens |-> 0]
    /\ uptime \in Age
    /\ current_lock_ = NoToken
    /\ handler = NoRequest
    /\ sweeper = "sleep"
    /\ owners = <<>>

-----------------------------------------------------------------------------
(* The handlers, one call at a time *)

\* Server::loop_ has received a request.
Receive ==
    /\ handler.pc = "idle"
    /\ \E cmd \in Command :
         \E token \in IF cmd \in {"PING", "LOGIN"} THEN {NoToken} ELSE Tokens :
           \E user \in IF cmd = "LOGIN" THEN Users ELSE {NoUser} :
             handler' = [pc |-> IF cmd = "CHECK_TASK" THEN "is_valid_token"
                                                      ELSE "token_to_username",
                         cmd |-> cmd, token |-> token, user |-> user]
    /\ UNCHANGED <<managerVars, uptime, sweeper, owners>>

\* A call of a SessionManager method, which needs mutex_.
Calling(method) == handler.pc = method /\ sweeper # "hung"

Then(pc) == handler' = [handler EXCEPT !.pc = pc]

Reply == handler' = NoRequest

\* handle() logs the user before the switch.
TokenToUsername ==
    /\ Calling("token_to_username")
    /\ CASE handler.cmd = "PING"  -> Reply
         [] handler.cmd = "LOGIN" -> Then("login")
         [] OTHER                 -> Then("is_valid_token")
    /\ UNCHANGED <<managerVars, uptime, sweeper, owners>>

SessionOf(user) == {t \in sessions_ : username[t] = user}

\* Mutant: a session without its username.
NewSession_NoUser(token, user) ==
    /\ sessions_' = sessions_ \cup {token}
    /\ idle' = [idle EXCEPT ![token] = uptime]
    /\ UNCHANGED username

\* A new session is {username}: its last_seen is the epoch of the clock.
NewSession(token, user) ==
    /\ sessions_' = sessions_ \cup {token}
    /\ username' = [username EXCEPT ![token] = user]
    /\ idle' = [idle EXCEPT ![token] = uptime]

\* Mutant: the sessions the user has are not looked for.
Login_Always ==
    /\ Calling("login")
    /\ \/ UNCHANGED <<sessions_, username, idle>>
       \/ \E token \in Tokens : username[token] = NoUser /\ NewSession(token, handler.user)
    /\ Reply
    /\ UNCHANGED <<uptime, current_lock_, sweeper, owners>>

\* login returns the token of the user's session if there is one, else opens a
\* session when the password matches.  A token is never handed out twice.
Login ==
    /\ Calling("login")
    /\ \/ UNCHANGED <<sessions_, username, idle>>   \* a session, or a wrong password
       \/ /\ SessionOf(handler.user) = {}
          /\ \E token \in Tokens :
                username[token] = NoUser /\ NewSession(token, handler.user)
    /\ Reply
    /\ UNCHANGED <<uptime, current_lock_, sweeper, owners>>

IsValidToken ==
    /\ Calling("is_valid_token")
    /\ IF handler.token \in sessions_ THEN Then("touch_session") ELSE Reply
    /\ UNCHANGED <<managerVars, uptime, sweeper, owners>>

\* touch_session looks the token up again; it may be gone by now.
TouchSession ==
    /\ Calling("touch_session")
    /\ idle' = IF handler.token \in sessions_ THEN [idle EXCEPT ![handler.token] = 0] ELSE idle
    /\ Then("has_lock")
    /\ UNCHANGED <<sessions_, username, uptime, current_lock_, sweeper, owners>>

\* Mutant: robot commands are not checked for the lock.
HasLock_NotForRobot ==
    /\ Calling("has_lock")
    /\ CASE handler.cmd = "ROBOT" -> Then("addTask") \/ Reply
         [] handler.cmd \in {"LOGOUT", "RELEASE"} /\ current_lock_ = handler.token ->
                Then("release_lock")
         [] handler.cmd = "LOGOUT" /\ current_lock_ # handler.token -> Then("logout")
         [] handler.cmd = "ACQUIRE" /\ current_lock_ # handler.token -> Then("acquire_lock")
         [] OTHER -> Reply
    /\ UNCHANGED <<managerVars, uptime, sweeper, owners>>

\* validate_hardware_lock.  CHECK_TASK goes on to the Tasker (module Server); a
\* robot command is still refused when the robot is not connected.
HasLock ==
    /\ Calling("has_lock")
    /\ IF current_lock_ = handler.token
       THEN CASE handler.cmd \in {"LOGOUT", "RELEASE"} -> Then("release_lock")
              [] handler.cmd = "ROBOT" -> Then("addTask") \/ Reply
              [] OTHER -> Reply
       ELSE CASE handler.cmd = "LOGOUT" -> Then("logout")
              [] handler.cmd = "ACQUIRE" -> Then("acquire_lock")
              [] OTHER -> Reply
    /\ UNCHANGED <<managerVars, uptime, sweeper, owners>>

\* Mutant: logout forgets the lock.
ReleaseLock_NotAtLogout ==
    /\ Calling("release_lock")
    /\ current_lock_' = IF handler.cmd = "RELEASE" THEN NoToken ELSE current_lock_
    /\ IF handler.cmd = "LOGOUT" THEN Then("logout") ELSE Reply
    /\ UNCHANGED <<sessions_, username, idle, uptime, sweeper, owners>>

ReleaseLock ==
    /\ Calling("release_lock")
    /\ current_lock_' = IF current_lock_ = handler.token THEN NoToken ELSE current_lock_
    /\ IF handler.cmd = "LOGOUT" THEN Then("logout") ELSE Reply
    /\ UNCHANGED <<sessions_, username, idle, uptime, sweeper, owners>>

Logout ==
    /\ Calling("logout") /\ Reply
    /\ sessions_' = sessions_ \ {handler.token}
    /\ UNCHANGED <<username, idle, uptime, current_lock_, sweeper, owners>>

AcquireLock ==
    /\ Calling("acquire_lock") /\ Reply
    /\ current_lock_' = IF current_lock_ = NoToken THEN handler.token ELSE current_lock_
    /\ UNCHANGED <<sessions_, username, idle, uptime, sweeper, owners>>

\* Tasker::addTask does not need mutex_.
AddTask ==
    /\ handler.pc = "addTask" /\ Reply
    /\ Len(owners) < MaxTasks
    /\ owners' = Append(owners, handler.token)
    /\ UNCHANGED <<managerVars, uptime, sweeper>>

\* The robot worker finishes the oldest task (module Server).
FinishTask ==
    /\ owners # <<>>
    /\ owners' = Tail(owners)
    /\ UNCHANGED <<managerVars, uptime, handler, sweeper>>

HandlerNext ==
    \/ TokenToUsername \/ Login \/ IsValidToken \/ TouchSession \/ HasLock
    \/ ReleaseLock \/ Logout \/ AcquireLock \/ AddTask

-----------------------------------------------------------------------------
(* The sweeper and the clock *)

\* Mutant: the session that holds the lock is spared.
Expired_NotHolder == {t \in sessions_ \ {current_lock_} : idle[t] > SessionTimeout}

Expired == {t \in sessions_ : idle[t] > SessionTimeout}

\* sweep_expired_sessions owns mutex_ when its loop calls release_lock, which
\* locks mutex_ again: undefined for a std::mutex.  The thread waits for itself
\* for ever (glibc), or goes on as if the mutex were recursive (MSVC).
Sweep ==
    /\ sweeper = "sleep"
    /\ Expired # {}
    /\ \/ /\ "hang" \in RelockOutcomes
          /\ sweeper' = "hung"
          /\ UNCHANGED <<sessions_, current_lock_>>
       \/ /\ "recurse" \in RelockOutcomes
          /\ sessions_' = sessions_ \ Expired
          /\ current_lock_' = IF current_lock_ \in Expired THEN NoToken ELSE current_lock_
          /\ UNCHANGED sweeper
    /\ UNCHANGED <<username, idle, uptime, handler, owners>>

Older(age) == IF age < Longest THEN age + 1 ELSE age

Tick ==
    /\ idle' = [t \in Tokens |-> IF t \in sessions_ THEN Older(idle[t]) ELSE idle[t]]
    /\ uptime' = Older(uptime)
    /\ UNCHANGED <<sessions_, username, current_lock_, handler, sweeper, owners>>

Next == Receive \/ HandlerNext \/ FinishTask \/ Sweep \/ Tick

Spec == Init /\ [][Next]_vars

\* The server thread goes on with a request, the sweeper wakes up every five
\* seconds and time passes.  Clients may fall silent and tasks may take for ever.
Fairness == WF_vars(HandlerNext) /\ WF_vars(Sweep) /\ WF_vars(Tick)

FairSpec == Spec /\ Fairness

-----------------------------------------------------------------------------
(* Properties *)

\* A user has one session at most: login looks for the user's session before it
\* opens another, in the same critical section.
OneSessionPerUser ==
    \A s, t \in sessions_ : username[s] = username[t] => s = t

\* A command is accepted while another token holds the lock never: between the
\* check of the lock and addTask the sweeper may free it, but nobody else can
\* take it.
AcceptedUnderLock ==
    [][\A t \in Tokens : owners' = Append(owners, t) => current_lock_ \in {t, NoToken}]_vars

\* Neither logout nor the sweep leaves the lock with a token whose session it
\* erases; the one step that can give the lock to a token without a session is
\* acquire_lock, for a request whose session was swept after its own check.
LockOrphanedOnlyByAcquire ==
    [][\A t \in Tokens :
          current_lock_' = t /\ t \notin sessions_' =>
             \/ current_lock_ = t /\ t \notin sessions_
             \/ handler.pc = "acquire_lock" /\ handler.token = t]_vars

Serving(t) == handler.pc # "idle" /\ handler.token = t

\* A client that falls silent does not keep the robot: the sweep takes the lock
\* or at least the session away from it, unless the sweeper hangs.
SilentHolderExpires ==
    \A t \in Tokens : <>[](~Serving(t)) =>
                      <>[](current_lock_ # t \/ t \notin sessions_ \/ sweeper = "hung")

-----------------------------------------------------------------------------
(* What the repository says and the code does not do *)

\* SessionManager is meant to be thread-safe: no request waits for ever for its
\* mutex_ (session.hpp: "mutable std::mutex mutex_; // thread-safe").
RequestAnswered == (handler.pc # "idle") ~> (handler.pc = "idle")

\* The sweep is meant to free the lock of a session it expires (session.cpp:
\* "try to release if the user has the service locked"): no token without a
\* session holds the lock.
LockHolderHasSession == current_lock_ # NoToken => current_lock_ \in sessions_

\* The lock "ensures that only one user at a time can control the robot"
\* (request_handler.hpp): while a user holds it, no task of another user is
\* still to be executed.
OneUserControls ==
    \A i \in 1..Len(owners) :
        current_lock_ # NoToken => username[owners[i]] = username[current_lock_]
=============================================================================
