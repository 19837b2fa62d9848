------------------------------ MODULE RobotLink ------------------------------
(***************************************************************************)
(* From the robot worker of the server to the moving robot: class Robot     *)
(* (src/src/robot/robot.cpp) with its thread, its queue of promises and its *)
(* socket; the part of Server::robot_worker_loop_ that waits for a promise; *)
(* the TCP connections in between; and the RAPID program of the controller  *)
(* (src/robert-rapid), which serves one connection and one command at a     *)
(* time.                                                                    *)
(*                                                                          *)
(* Requests are numbered in the order the worker issues them.  Connections  *)
(* are numbered in the order they are made; the controller accepts them in  *)
(* that order, since a connection succeeds as soon as it is in the backlog  *)
(* of the listening socket.                                                 *)
(*                                                                          *)
(* TCP keeps bytes, not messages: one recv or SocketReceive may return      *)
(* several messages at a stroke, or only the beginning of one, whose rest   *)
(* is then taken for a message of its own.                                  *)
(***************************************************************************)
EXTENDS Integers, Sequences

CONSTANTS
    MaxRequests,    \* bound on the requests the worker issues
    MaxConnections, \* bound on the connections made
    Timeout,        \* robot.timeout of the configuration file, in ms
    Shifts,         \* what may put the replies of a connection out of step
    MaxShifts       \* bound on how often that happens

ASSUME RequestsAssumption == MaxRequests \in Nat \ {0}
ASSUME ConnectionsAssumption == MaxConnections \in Nat \ {0}
ASSUME TimeoutAssumption == Timeout \in Int
ASSUME ShiftsAssumption == Shifts \subseteq {"answered twice", "reply cut", "request cut"}
ASSUME MaxShiftsAssumption == MaxShifts \in Nat

Requests == 1..MaxRequests
PINGR == 0                      \* the heartbeat, a command without a promise
Commands == Requests \cup {PINGR}
Idle == -1                      \* no command
Rest == -2                      \* what a cut request leaves: nobody's command
Items == Commands \cup {Rest}
Connections == 1..MaxConnections
INVALID_SOCKET_FD == 0

\* Mutant: the high half of the configured value.
socket_timeout_ms_High == Timeout \div 65536

\* RobotInfo::timeout has 16 bits.
socket_timeout_ms_ == Timeout % 65536

\* SO_RCVTIMEO of 0: recv never gives up.
TimesOut == socket_timeout_ms_ # 0

\* What the controller sends: the command it answers (on which connection) and
\* whether the text starts with NACK.  All else is an ACK to the worker, a report
\* and a part of a NACK too: less than four letters of its beginning, or its rest.
Reply == [of: Items, kind: {"ACK", "NACK"}, on: Connections]

\* The value of a promise: not set, an "ERR: ..." of the robot thread, a reply.
Unset == [kind |-> "unset"]
ERR == [kind |-> "ERR"]

VARIABLES
    worker,          \* robot_worker_loop_: pc and the request it is at
    verdict,         \* how the worker finished the task of each request
    running_,        \* Robot::running_
    connected_,      \* Robot::connected_
    socket_fd_,      \* the connection the robot thread has open
    request_queue_,
    robot,           \* Robot::worker_loop: pc and work_item
    promise,
    made,            \* number of connections made
    toRobot,         \* commands in transit on each connection
    toServer,        \* replies in transit on each connection
    accepted,        \* last connection the controller has taken, or lost
    client,          \* client_socket of the controller
    doing,           \* the command the controller executes
    executed,        \* the requests it has begun to execute, in order
    shifted,         \* history: the connections that got out of step
    shifts           \* how often that happened

workerVars == <<worker, verdict>>
robotVars == <<connected_, socket_fd_, robot, made>>
controllerVars == <<accepted, client, doing, executed>>
vars == <<worker, verdict, running_, connected_, socket_fd_, request_queue_, robot, promise,
          made, toRobot, toServer, accepted, client, doing, executed, shifted, shifts>>

TypeOK ==
    /\ worker \in [pc: {"task", "queue", "await", "threw"}, request: 1..(MaxRequests + 1)]
    /\ verdict \in [Requests -> {"none", "completed", "Robot error", "Robot disconnected"}]
    /\ running_ \in BOOLEAN /\ connected_ \in BOOLEAN
    /\ socket_fd_ \in Connections \cup {INVALID_SOCKET_FD}
    /\ request_queue_ \in Seq(Requests)
    /\ robot \in [pc: {"top", "wait", "send", "recv", "exited", "joined"},
                  item: Commands \cup {Idle}]
    /\ promise \in [Requests -> Reply \cup {Unset, ERR}]
    /\ made \in 0..MaxConnections
    /\ toRobot \in [Connections -> Seq(Items)]
    /\ toServer \in [Connections -> Seq(Reply)]
    /\ accepted \in 0..made
    /\ client \in Connections \cup {INVALID_SOCKET_FD}
    /\ doing \in Items \cup {Idle}
    /\ executed \in Seq(Requests)
    /\ shifted \subseteq Connections /\ shifts \in 0..MaxShifts

Init ==
    /\ worker = [pc |-> "task", request |-> 1]
    /\ verdict = [r \in Requests |-> "none"]
    /\ running_ = TRUE          \* Server::start has called start_session
    /\ connected_ = FALSE
    /\ socket_fd_ = INVALID_SOCKET_FD
    /\ request_queue_ = <<>>
    /\ robot = [pc |-> "top", item |-> Idle]
    /\ promise = [r \in Requests |-> Unset]
    /\ made = 0
    /\ toRobot = [c \in Connections |-> <<>>]
    /\ toServer = [c \in Connections |-> <<>>]
    /\ accepted = 0
    /\ client = INVALID_SOCKET_FD
    /\ doing = Idle
    /\ executed = <<>>
    /\ shifted = {} /\ shifts = 0

\* What is read of a stream: the first n messages, the rest stays there.
Without(n, stream) == SubSeq(stream, n + 1, Len(stream))

\* The replies of connection c do not answer its commands one by one any more,
\* which neither side can see.
OutOfStep(what, c) ==
    /\ what \in Shifts /\ shifts < MaxShifts
    /\ shifts' = shifts + 1 /\ shifted' = shifted \cup {c}

StillInStep == UNCHANGED <<shifted, shifts>>

-----------------------------------------------------------------------------
(* Server::robot_worker_loop_, from is_connected on *)

\* failTask or completeTask, then the next task.
Judge(result) ==
    /\ verdict' = [verdict EXCEPT ![worker.request] = result]
    /\ worker' = [pc |-> "task", request |-> worker.request + 1]

OtherThanWorker == <<running_, robotVars, promise, toRobot, toServer, controllerVars, shifted, shifts>>

\* The worker has started a task and looks at is_connected().
WorkerTask ==
    /\ worker.pc = "task" /\ worker.request \in Requests
    /\ \/ connected_ /\ worker' = [worker EXCEPT !.pc = "queue"] /\ UNCHANGED verdict
       \/ ~connected_ /\ Judge("Robot disconnected")
    /\ UNCHANGED <<request_queue_, OtherThanWorker>>

\* queue_request throws when the session was stopped meanwhile, and nothing in
\* robot_worker_loop_ catches it.
queue_request ==
    /\ worker.pc = "queue"
    /\ IF running_ THEN /\ request_queue_' = Append(request_queue_, worker.request)
                        /\ worker' = [worker EXCEPT !.pc = "await"]
                   ELSE /\ worker' = [worker EXCEPT !.pc = "threw"]
                        /\ UNCHANGED request_queue_
    /\ UNCHANGED <<verdict, OtherThanWorker>>

\* Mutant: only NACK counts as a failure.
WorkerAwait_NackOnly ==
    /\ worker.pc = "await"
    /\ LET value == promise[worker.request]
       IN  \/ value = Unset /\ Judge("Robot disconnected")
           \/ value.kind \in {"ACK", "ERR"} /\ Judge("completed")
           \/ value.kind = "NACK" /\ Judge("Robot error")
    /\ UNCHANGED <<request_queue_, OtherThanWorker>>

\* Mutant: future_ack.wait() without a time limit.
WorkerAwait_NoTimeout ==
    /\ worker.pc = "await"
    /\ LET value == promise[worker.request]
       IN  \/ value.kind = "ACK" /\ Judge("completed")
           \/ value.kind \in {"NACK", "ERR"} /\ Judge("Robot error")
    /\ UNCHANGED <<request_queue_, OtherThanWorker>>

\* future_ack.wait_for(90 s).  The request stays wherever it is when time runs
\* out.
WorkerAwait ==
    /\ worker.pc = "await"
    /\ LET value == promise[worker.request]
       IN  \/ value = Unset /\ Judge("Robot disconnected")
           \/ value.kind = "ACK" /\ Judge("completed")
           \/ value.kind \in {"NACK", "ERR"} /\ Judge("Robot error")
    /\ UNCHANGED <<request_queue_, OtherThanWorker>>

-----------------------------------------------------------------------------
(* Robot::worker_loop *)

OtherThanRobot == <<workerVars, running_, controllerVars, shifted, shifts>>

RobotAt(here, next) == robot.pc = here /\ robot' = [robot EXCEPT !.pc = next]

NextIteration == robot' = [pc |-> "top", item |-> Idle]

\* The loop test.  attempt_connection answers true when there is a socket
\* already, without a look at connected_.
RobotTop ==
    /\ \/ ~running_ /\ RobotAt("top", "exited")
       \/ running_ /\ (connected_ \/ socket_fd_ # INVALID_SOCKET_FD) /\ RobotAt("top", "wait")
    /\ UNCHANGED <<connected_, socket_fd_, request_queue_, promise, made, toRobot, toServer,
                   OtherThanRobot>>

\* attempt_connection succeeds.  When it fails the loop waits and tries again.
Connect ==
    /\ running_ /\ ~connected_ /\ socket_fd_ = INVALID_SOCKET_FD
    /\ made < MaxConnections
    /\ RobotAt("top", "wait")
    /\ made' = made + 1
    /\ socket_fd_' = made + 1
    /\ connected_' = TRUE
    /\ UNCHANGED <<request_queue_, promise, toRobot, toServer, OtherThanRobot>>

\* Mutant: nothing is sent when there is no request.
RobotWait_NoHeartbeat ==
    /\ robot.pc = "wait"
    /\ CASE ~running_ ->
              robot' = [robot EXCEPT !.pc = "exited"] /\ UNCHANGED request_queue_
         [] running_ /\ request_queue_ # <<>> ->
              /\ robot' = [pc |-> "send", item |-> Head(request_queue_)]
              /\ request_queue_' = Tail(request_queue_)
         [] OTHER -> NextIteration /\ UNCHANGED request_queue_
    /\ UNCHANGED <<connected_, socket_fd_, promise, made, toRobot, toServer, OtherThanRobot>>

\* Mutant: wait without a time limit and without !running_ in its predicate.
RobotWait_OnlyWork ==
    /\ robot.pc = "wait" /\ request_queue_ # <<>>
    /\ robot' = [pc |-> "send", item |-> Head(request_queue_)]
    /\ request_queue_' = Tail(request_queue_)
    /\ UNCHANGED <<connected_, socket_fd_, promise, made, toRobot, toServer, OtherThanRobot>>

\* queue_cv_.wait_for(2 s): the session was stopped, there is a request, or it is
\* time for a heartbeat.
RobotWait ==
    /\ robot.pc = "wait"
    /\ CASE ~running_ ->
              robot' = [robot EXCEPT !.pc = "exited"] /\ UNCHANGED request_queue_
         [] running_ /\ request_queue_ # <<>> ->
              /\ robot' = [pc |-> "send", item |-> Head(request_queue_)]
              /\ request_queue_' = Tail(request_queue_)
         [] OTHER ->
              robot' = [pc |-> "send", item |-> PINGR] /\ UNCHANGED request_queue_
    /\ UNCHANGED <<connected_, socket_fd_, promise, made, toRobot, toServer, OtherThanRobot>>

\* The controller still knows connection c.
Alive(c) == c > accepted \/ c = client

\* What is sent on a connection the controller has lost goes nowhere.
AfterSend(item) == IF Alive(socket_fd_) THEN [toRobot EXCEPT ![socket_fd_] = Append(@, item)]
                                   ELSE toRobot

send_request ==
    /\ socket_fd_ # INVALID_SOCKET_FD
    /\ RobotAt("send", "recv")
    /\ toRobot' = AfterSend(robot.item)
    /\ UNCHANGED <<connected_, socket_fd_, request_queue_, promise, made, toServer,
                   OtherThanRobot>>

SetPromise(value) ==
    promise' = IF robot.item = PINGR THEN promise ELSE [promise EXCEPT ![robot.item] = value]

\* Mutant: a recv of no bytes is taken for a response.
receive_buffer_Empty ==
    /\ robot.pc = "recv"
    /\ SetPromise([kind |-> "empty"])
    /\ NextIteration
    /\ UNCHANGED <<connected_, socket_fd_, request_queue_, made, toRobot, toServer,
                   OtherThanRobot>>

\* One recv returns what has arrived: whole replies, of which the worker looks at
\* the beginning of the first only, ...
ReadWhole(replies) ==
    /\ \E n \in 1..Len(replies) :
          toServer' = [toServer EXCEPT ![socket_fd_] = Without(n, replies)]
    /\ SetPromise(Head(replies))
    /\ StillInStep

\* ... and perhaps the beginning of one more, whose rest the next recv will find.
ReadCut(replies) ==
    /\ \E n \in 0..(Len(replies) - 1) :
          /\ toServer' = [toServer EXCEPT ![socket_fd_] =
                               [Without(n, replies) EXCEPT ![1].kind = "ACK"]]
          /\ \E kind \in {Head(replies).kind} \cup (IF n = 0 THEN {"ACK"} ELSE {}) :
                SetPromise([Head(replies) EXCEPT !.kind = kind])
    /\ OutOfStep("reply cut", socket_fd_)

receive_buffer ==
    /\ robot.pc = "recv"
    /\ ReadWhole(toServer[socket_fd_]) \/ ReadCut(toServer[socket_fd_])
    /\ NextIteration
    /\ UNCHANGED <<connected_, socket_fd_, request_queue_, made, toRobot, workerVars, running_,
                   controllerVars>>

\* A send that fails may have sent a part of the command before, or all of it.
SentBeforeError ==
    toRobot' \in {toRobot} \cup IF robot.pc = "send" /\ socket_fd_ # INVALID_SOCKET_FD
                               THEN {AfterSend(robot.item)} ELSE {}

\* Mutant: a command that failed is put back to be tried again.
LinkError_Requeue ==
    /\ robot.pc \in {"send", "recv"}
    /\ socket_fd_' = INVALID_SOCKET_FD
    /\ connected_' = FALSE
    /\ request_queue_' = IF robot.item = PINGR THEN request_queue_
                                              ELSE <<robot.item>> \o request_queue_
    /\ NextIteration
    /\ SentBeforeError
    /\ UNCHANGED <<promise, made, toServer, OtherThanRobot>>

\* Mutant: the connection is kept after an error.
LinkError_Stays ==
    /\ robot.pc \in {"send", "recv"}
    /\ SetPromise(ERR)
    /\ NextIteration
    /\ SentBeforeError
    /\ UNCHANGED <<connected_, socket_fd_, request_queue_, made, toServer, OtherThanRobot>>

\* Mutant: the socket is not reset.
LinkError_KeepsSocket ==
    /\ robot.pc \in {"send", "recv"}
    /\ connected_' = FALSE
    /\ SetPromise(ERR)
    /\ NextIteration
    /\ SentBeforeError
    /\ UNCHANGED <<socket_fd_, request_queue_, made, toServer, OtherThanRobot>>

\* send_and_receive throws (no socket, send failed, recv timed out or found the
\* connection closed): the catch block closes the socket.
LinkError ==
    /\ robot.pc \in {"send", "recv"}
    /\ socket_fd_' = INVALID_SOCKET_FD
    /\ connected_' = FALSE
    /\ SetPromise(ERR)
    /\ NextIteration
    /\ SentBeforeError
    /\ UNCHANGED <<request_queue_, made, toServer, OtherThanRobot>>

\* Robot::stop_session, called once by Server::stop.
StopSession ==
    /\ running_ /\ running_' = FALSE
    /\ UNCHANGED <<workerVars, robotVars, request_queue_, promise, toRobot, toServer,
                   controllerVars, shifted, shifts>>

\* The rest of it, after worker_thread_.join().
CloseSession ==
    /\ RobotAt("exited", "joined")
    /\ socket_fd_' = INVALID_SOCKET_FD
    /\ connected_' = FALSE
    /\ UNCHANGED <<request_queue_, promise, made, toRobot, toServer, OtherThanRobot>>

-----------------------------------------------------------------------------
(* The controller *)

OtherThanController == <<workerVars, running_, robotVars, request_queue_, promise>>

\* SocketAccept in SocketServerTask.
SocketAccept ==
    /\ client = INVALID_SOCKET_FD /\ accepted < made
    /\ accepted' = accepted + 1 /\ client' = accepted + 1
    /\ UNCHANGED <<doing, executed, shifted, shifts, toRobot, toServer, OtherThanController>>

\* The loop of HandleClient is at SocketReceive, and something has arrived.
Receiving == client # INVALID_SOCKET_FD /\ doing = Idle /\ toRobot[client] # <<>>

\* SocketReceive returns whole commands and perhaps the beginning of one more, whose
\* rest the next one will find.
Reads ==
    \/ \E n \in 1..Len(toRobot[client]) :
          toRobot' = [toRobot EXCEPT ![client] = Without(n, @)] /\ StillInStep
    \/ \E n \in 0..(Len(toRobot[client]) - 1) :
          /\ toRobot' = [toRobot EXCEPT ![client] = [Without(n, @) EXCEPT ![1] = Rest]]
          /\ OutOfStep("request cut", client)

\* The buffer does not begin with a whole command: its first one is cut now, or
\* was before.
Fragment == Head(toRobot[client]) = Rest \/ Len(toRobot'[client]) = Len(toRobot[client])

\* parse_message looks at the first command of the buffer only, and ExecuteAction
\* begins.  A fragment may be enough for a call or be passed over (minimum).
SocketReceive ==
    /\ Receiving /\ Reads
    /\ doing' = Head(toRobot[client]) \/ (Fragment /\ doing' = Idle)
    /\ executed' = IF doing' \in Requests THEN Append(executed, doing') ELSE executed
    /\ UNCHANGED <<accepted, client, toServer, OtherThanController>>

\* UnpackRawBytes fails on a fragment, and HandleClient ends.
ParseError ==
    /\ Receiving
    /\ IF Head(toRobot[client]) = Rest THEN StillInStep ELSE OutOfStep("request cut", client)
    /\ client' = INVALID_SOCKET_FD
    /\ toRobot' = [toRobot EXCEPT ![client] = <<>>]
    /\ UNCHANGED <<accepted, doing, executed, toServer, OtherThanController>>

\* A reply is lost when the server has closed the connection.
Send(replies) ==
    toServer' = IF socket_fd_ = client THEN [toServer EXCEPT ![client] = @ \o replies]
                                       ELSE toServer

ReplyWith(kind) == [of |-> doing, kind |-> kind, on |-> client]

\* ExecuteAction ends with one reply; a heartbeat is always acknowledged.
ExecuteAction ==
    /\ doing # Idle
    /\ doing' = Idle
    /\ \E kind \in IF doing = PINGR THEN {"ACK"} ELSE {"ACK", "NACK"} : Send(<<ReplyWith(kind)>>)
    /\ UNCHANGED <<accepted, client, executed, shifted, shifts, toRobot, OtherThanController>>

\* The error handler of ExecuteAction: after ERR_ROBLIMIT it sends a first NACK
\* and goes on to send the general one.
ExecuteActionLimit ==
    /\ doing \notin {Idle, PINGR}
    /\ doing' = Idle
    /\ Send(<<ReplyWith("NACK"), ReplyWith("NACK")>>)
    /\ OutOfStep("answered twice", client)
    /\ UNCHANGED <<accepted, client, executed, toRobot, OtherThanController>>

\* HandleClient ends when the server has closed the connection: after the
\* commands that are still there, or, if the connection was reset, without them.
ClientGone ==
    /\ client # INVALID_SOCKET_FD /\ doing = Idle /\ socket_fd_ # client
    /\ client' = INVALID_SOCKET_FD
    /\ toRobot' = [toRobot EXCEPT ![client] = <<>>]
    /\ UNCHANGED <<accepted, doing, executed, shifted, shifts, toServer, OtherThanController>>

\* The controller is restarted: it loses its connections and what it was doing.
Restart ==
    /\ client # INVALID_SOCKET_FD \/ accepted < made
    /\ accepted' = made /\ client' = INVALID_SOCKET_FD
    /\ doing' = Idle
    /\ toRobot' = [c \in Connections |-> <<>>]
    /\ UNCHANGED <<executed, shifted, shifts, toServer, OtherThanController>>

-----------------------------------------------------------------------------
WorkerStep == queue_request \/ WorkerAwait
RobotStep == RobotTop \/ RobotWait \/ send_request \/ receive_buffer \/ LinkError \/ CloseSession

\* Those that the thread takes by itself: recv fails in time only if it has a limit.
RobotGoesOn == RobotStep /\ (robot.pc = "recv" /\ toServer[socket_fd_] = <<>> => TimesOut)

Controller == SocketAccept \/ SocketReceive \/ ParseError \/ ExecuteAction \/ ExecuteActionLimit
              \/ ClientGone \/ Restart

\* An exception that leaves a thread's function ends the process, and with it
\* what this module describes.
Terminated == worker.pc = "threw"

Next ==
    /\ ~Terminated
    /\ WorkerTask \/ WorkerStep \/ Connect \/ RobotStep \/ StopSession \/ Controller

Spec == Init /\ [][Next]_vars

\* The worker and the robot thread take the steps they can take, because their
\* waits have time limits, that of recv from the configuration.  Nothing is assumed
\* of the network, of the controller or of the clients; in particular no connection
\* need succeed.
Fairness == WF_vars(~Terminated /\ WorkerStep) /\ WF_vars(~Terminated /\ RobotGoesOn)

FairSpec == Spec /\ Fairness

-----------------------------------------------------------------------------
(* Properties *)

\* The robot never executes one request twice, and never out of the order of the
\* requests, whatever connections are lost and made in between.  What the
\* controller makes of the rest of a cut request is nobody's command (Rest).
ExecutedOnceInOrder ==
    \A i, j \in 1..Len(executed) : i < j => executed[i] < executed[j]

\* The answer to r came on a connection that something had put out of step.
Shifted(r) == promise[r] \in Reply /\ promise[r].on \in shifted

\* One recv per command: a request is resolved with the reply to that request, as
\* long as no command of the connection was answered twice, no recv returned a part
\* of a reply and no SocketReceive a part of a request.  A late reply, to a request
\* given up or sent on a lost connection, is not a fourth reason, and a new
\* connection starts in step again.
ReplyBelongsToRequest ==
    \A r \in Requests : promise[r] \notin {Unset, ERR} => promise[r].of = r \/ Shifted(r)

\* A task reported as completed is one whose command the robot has begun to
\* execute, unless a reply shifted in one of those three ways says so.
CompletedWasExecuted ==
    \A r \in Requests : verdict[r] = "completed" =>
        (\E i \in 1..Len(executed) : executed[i] = r) \/ Shifted(r)

\* A task reported as completed is over: the controller neither executes it nor
\* will, so that what is submitted next really comes after it.  Again with the
\* exception of a shifted reply, which may complete a task before its time.
CompletedIsOver ==
    \A r \in Requests : verdict[r] = "completed" =>
        \/ doing # r /\ \A c \in Connections : r \notin {toRobot[c][i] : i \in DOMAIN toRobot[c]}
        \/ Shifted(r)

\* connected_ and socket_fd_ change together, which attempt_connection relies on:
\* with a socket and connected_ false the thread would never be connected again.
ConnectedHasSocket == connected_ <=> socket_fd_ # INVALID_SOCKET_FD

\* The worker is never blocked for good by a request, not even when the robot
\* cannot be reached any more or the session is stopped with the request queued:
\* it leaves future_ack with a verdict.
EveryRequestJudged == []<>(worker.pc # "await")

\* A connection that the controller has lost is noticed even if no client sends
\* a command: the heartbeats find out.
DeadLinkNoticed == []<>(socket_fd_ = INVALID_SOCKET_FD \/ Alive(socket_fd_) \/ Terminated)

\* stop_session returns: the robot thread ends whatever it is doing, unless the
\* exception of queue_request ends the process first.
StopReturns == []<>(running_ \/ robot.pc = "joined" \/ Terminated)

-----------------------------------------------------------------------------
(* What the repository says and the code does not do *)

\* queue_request "returns a future that will be resolved when the response is
\* received" (robot.hpp): the response is the one to this request.
ResolvedByOwnReply ==
    \A r \in Requests : promise[r] \notin {Unset, ERR} => promise[r].of = r
=============================================================================
