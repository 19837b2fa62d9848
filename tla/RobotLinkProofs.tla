--------------------------- MODULE RobotLinkProofs ---------------------------
(***************************************************************************)
(* What RobotLink keeps for any number of requests and connections and any  *)
(* configured timeout: a request is executed once and in order, and its     *)
(* promise gets its own reply.                                              *)
(***************************************************************************)
EXTENDS RobotLink, SequenceTheorems, TLAPS

-----------------------------------------------------------------------------
(* Sequences *)

LEMMA AppendFacts ==
    ASSUME NEW S, NEW s \in Seq(S), NEW x \in S
    PROVE  /\ Append(s, x) \in Seq(S) /\ Len(Append(s, x)) = Len(s) + 1
           /\ \A i \in 1..Len(s) : Append(s, x)[i] = s[i]
           /\ Append(s, x)[Len(s) + 1] = x
  BY AppendProperties

LEMMA AppendIndex ==
    ASSUME NEW l \in Nat
    PROVE  1..(l + 1) = 1..l \cup {l + 1}
  OBVIOUS

LEMMA ShiftIndex ==
    ASSUME NEW l \in Nat, NEW n \in Nat, NEW i \in 1..(l - n)
    PROVE  i \in Int /\ i + n \in Int /\ i + n \in 1..l
  OBVIOUS

LEMMA DropFacts ==
    ASSUME NEW S, NEW s \in Seq(S), NEW n \in 0..Len(s)
    PROVE  /\ SubSeq(s, n + 1, Len(s)) \in Seq(S)
           /\ Len(SubSeq(s, n + 1, Len(s))) = Len(s) - n
           /\ \A i \in 1..(Len(s) - n) : SubSeq(s, n + 1, Len(s))[i] = s[i + n]
<1> DEFINE t == SubSeq(s, n + 1, Len(s))
<1>1. Len(s) \in Nat /\ \A i \in 1..Len(s) : s[i] \in S
  OBVIOUS
<1>2. Len(t) = Len(s) - n /\ \A i \in 1..(Len(s) - n) : t[i] = s[n + 1 + i - 1]
  BY <1>1, SubSeqProperties
<1>3. t \in Seq(S)
  BY <1>1, SubSeqProperties
<1> QED
  BY <1>1, <1>2, <1>3

LEMMA ConcatFacts ==
    ASSUME NEW S, NEW s \in Seq(S), NEW t \in Seq(S)
    PROVE  /\ s \o t \in Seq(S) /\ Len(s \o t) = Len(s) + Len(t)
           /\ \A i \in 1..(Len(s) + Len(t)) :
                 (s \o t)[i] = IF i <= Len(s) THEN s[i] ELSE t[i - Len(s)]
  BY ConcatProperties

LEMMA HeadFacts ==
    ASSUME NEW S, NEW s \in Seq(S), s # <<>>
    PROVE  /\ Len(s) \in Nat \ {0} /\ Head(s) = s[1] /\ Head(s) \in S
           /\ Tail(s) \in Seq(S) /\ Len(Tail(s)) = Len(s) - 1
           /\ \A i \in 1..(Len(s) - 1) : Tail(s)[i] = s[i + 1]
  BY HeadTailProperties, EmptySeq

-----------------------------------------------------------------------------
(* Types *)

WorkerType ==
    /\ worker \in [pc: {"task", "queue", "await", "threw"}, request: 1..(MaxRequests + 1)]
    /\ verdict \in [Requests -> {"none", "completed", "Robot error", "Robot disconnected"}]
    /\ worker.pc \in {"queue", "await"} => worker.request \in Requests

QueueType == request_queue_ \in Seq(Requests)

PromiseType == promise \in [Requests -> Reply \cup {Unset, ERR}]

\* The open connection is the last that was made, and there is one while the
\* thread is in recv.
RobotType ==
    /\ running_ \in BOOLEAN /\ connected_ \in BOOLEAN
    /\ made \in 0..MaxConnections
    /\ socket_fd_ \in (Connections \cap {made}) \cup {INVALID_SOCKET_FD}
    /\ robot \in [pc: {"top", "wait", "send", "recv", "exited", "joined"},
                  item: Commands \cup {Idle}]
    /\ robot.pc \in {"send", "recv"} => robot.item \in Commands
    /\ robot.pc = "recv" => socket_fd_ # INVALID_SOCKET_FD
    /\ ConnectedHasSocket

LinkType ==
    /\ toRobot \in [Connections -> Seq(Items)]
    /\ toServer \in [Connections -> Seq(Reply)]

\* The controller executes a command for the connection it serves.
ControllerType ==
    /\ accepted \in 0..made
    /\ client \in Connections \cup {INVALID_SOCKET_FD} /\ client <= accepted
    /\ doing \in Items \cup {Idle}
    /\ executed \in Seq(Requests)
    /\ doing # Idle => client # INVALID_SOCKET_FD

ShiftType == shifted \subseteq Connections /\ shifts \in 0..MaxShifts

TInv == /\ WorkerType /\ QueueType /\ PromiseType /\ RobotType /\ LinkType /\ ControllerType
        /\ ShiftType

LEMMA ConstantFacts ==
    /\ MaxRequests \in Nat \ {0} /\ MaxConnections \in Nat \ {0} /\ MaxShifts \in Nat
    /\ PINGR \notin Requests /\ Idle \notin Items /\ Rest \notin Commands
    /\ Rest \notin Requests
    /\ Items = Requests \cup {PINGR, Rest} /\ Commands \subseteq Items
    /\ INVALID_SOCKET_FD \notin Connections
  BY RequestsAssumption, ConnectionsAssumption, MaxShiftsAssumption
  DEF Requests, Connections, PINGR, Idle, Rest, Items, Commands, INVALID_SOCKET_FD

LEMMA TypeInit == Init => TInv
<1> SUFFICES ASSUME Init PROVE TInv
  OBVIOUS
<1> USE ConstantFacts DEF Init
<1>1. WorkerType
  BY DEF WorkerType
<1>2. QueueType /\ PromiseType
  BY DEF QueueType, PromiseType
<1>3. RobotType
  <2>1. /\ running_ \in BOOLEAN /\ made \in 0..MaxConnections
        /\ robot = [pc |-> "top", item |-> Idle]
    OBVIOUS
  <2>2. connected_ = FALSE /\ socket_fd_ = INVALID_SOCKET_FD
    OBVIOUS
  <2> QED BY ONLY <2>1, <2>2 DEF RobotType, ConnectedHasSocket
<1>4. LinkType
  BY DEF LinkType
<1>5. ControllerType
  BY DEF ControllerType, INVALID_SOCKET_FD
<1>6. ShiftType
  BY DEF ShiftType
<1> QED BY <1>1, <1>2, <1>3, <1>4, <1>5, <1>6 DEF TInv

\* The actions that keep the replies of all connections as they are, or put one out.
LEMMA ShiftTypes ==
    ASSUME ShiftType, StillInStep \/ \E what \in Shifts, c \in Connections : OutOfStep(what, c)
    PROVE  ShiftType'
  BY ConstantFacts DEF ShiftType, StillInStep, OutOfStep

LEMMA NextRequest == \A r \in Requests : r + 1 \in 1..(MaxRequests + 1)
  BY RequestsAssumption DEF Requests

\* WorkerTask and WorkerAwait.
LEMMA JudgeFacts ==
    ASSUME WorkerType, worker.request \in Requests,
           NEW result \in {"completed", "Robot error", "Robot disconnected"}, Judge(result)
    PROVE  /\ WorkerType'
           /\ worker'.pc = "task" /\ worker'.request = worker.request + 1
           /\ verdict'[worker.request] = result
           /\ \A r \in Requests \ {worker.request} : verdict'[r] = verdict[r]
<1>1. worker' = [pc |-> "task", request |-> worker.request + 1]
  BY DEF Judge
<1>2. worker.request + 1 \in 1..(MaxRequests + 1)
  BY NextRequest
<1>3. verdict' = [verdict EXCEPT ![worker.request] = result]
  BY DEF Judge
<1> QED BY <1>1, <1>2, <1>3 DEF WorkerType

LEMMA WorkerTypes ==
    ASSUME TInv, WorkerTask \/ queue_request \/ WorkerAwait
    PROVE  TInv'
<1> USE DEF TInv
<1>1. UNCHANGED OtherThanWorker
  BY DEF WorkerTask, queue_request, WorkerAwait
<1>2. WorkerType' /\ QueueType'
  <2>1. CASE WorkerTask
    <3>1. WorkerType'
      <4>1. CASE connected_
        BY <2>1, <4>1 DEF WorkerTask, WorkerType
      <4>2. CASE ~connected_
        BY <2>1, <4>2, JudgeFacts DEF WorkerTask
      <4> QED BY <4>1, <4>2
    <3> QED BY <2>1, <3>1 DEF WorkerTask, QueueType
  <2>2. CASE queue_request
    <3>1. QueueType'
      <4>1. worker.request \in Requests
        BY <2>2 DEF queue_request, WorkerType
      <4> QED
        BY <2>2, <4>1, AppendFacts DEF queue_request, QueueType
    <3>2. WorkerType'
      BY <2>2 DEF queue_request, WorkerType
    <3> QED BY <3>1, <3>2
  <2>3. CASE WorkerAwait
    <3>1. worker.request \in Requests
      BY <2>3 DEF WorkerAwait, WorkerType
    <3>2. WorkerType'
      BY <2>3, <3>1, JudgeFacts DEF WorkerAwait
    <3> QED BY <2>3, <3>2 DEF WorkerAwait, QueueType
  <2> QED BY <2>1, <2>2, <2>3
<1>3. PromiseType' /\ RobotType' /\ LinkType' /\ ControllerType' /\ ShiftType'
  BY <1>1 DEF PromiseType, RobotType, LinkType, ControllerType, OtherThanWorker, robotVars,
     controllerVars, ConnectedHasSocket, ShiftType
<1> QED BY <1>2, <1>3

LEMMA SetPromiseFacts ==
    ASSUME PromiseType, robot.item \in Commands, NEW value \in Reply \cup {ERR}, SetPromise(value)
    PROVE  /\ PromiseType'
           /\ \A r \in Requests : promise'[r] = IF r = robot.item THEN value ELSE promise[r]
<1>1. CASE robot.item = PINGR
  BY <1>1, ConstantFacts DEF SetPromise, PromiseType
<1>2. CASE robot.item # PINGR
  BY <1>2 DEF SetPromise, PromiseType, Commands
<1> QED BY <1>1, <1>2

\* What is left of a stream when the beginning of it, u being the rest, was read and
\* the next message was cut.
LEMMA CutFacts ==
    ASSUME NEW S, NEW u \in Seq(S), NEW l \in Nat \ {0}, Len(u) = l, NEW x \in S,
           NEW t, t = [u EXCEPT ![1] = x]
    PROVE  /\ t \in Seq(S) /\ Len(t) = l /\ t[1] = x
           /\ \A i \in 2..l : t[i] = u[i]
<1>1. 1 \in 1..Len(u)
  OBVIOUS
<1>2. /\ t \in Seq(S) /\ Len(t) = Len(u) /\ t[1] = x
      /\ \A i \in 2..Len(u) : t[i] = u[i]
  BY <1>1, ExceptSeq
<1> QED BY <1>2

LEMMA KindFacts ==
    ASSUME NEW reply \in Reply, NEW kind \in {"ACK", "NACK"}
    PROVE  /\ [reply EXCEPT !.kind = kind] \in Reply
           /\ [reply EXCEPT !.kind = kind].of = reply.of
           /\ [reply EXCEPT !.kind = kind].on = reply.on
  BY DEF Reply

\* One recv: the beginning of the first reply, and of the later ones some are left,
\* all as they were, or the first of them cut.
LEMMA ReceiveFacts ==
    ASSUME LinkType, PromiseType, receive_buffer, socket_fd_ \in Connections
    PROVE  \E n \in 0..Len(toServer[socket_fd_]), value \in Reply :
              /\ toServer[socket_fd_] # <<>>
              /\ SetPromise(value)
              /\ value.of = toServer[socket_fd_][1].of /\ value.on = toServer[socket_fd_][1].on
              /\ toServer' \in [Connections -> Seq(Reply)]
              /\ \A d \in Connections \ {socket_fd_} : toServer'[d] = toServer[d]
              /\ Len(toServer'[socket_fd_]) = Len(toServer[socket_fd_]) - n
              /\ \A i \in 1..(Len(toServer[socket_fd_]) - n) :
                    /\ toServer'[socket_fd_][i].of = toServer[socket_fd_][i + n].of
                    /\ toServer'[socket_fd_][i].on = toServer[socket_fd_][i + n].on
              /\ \/ StillInStep /\ n # 0
                 \/ shifted' = shifted \cup {socket_fd_}
<1>1. PICK c \in Connections : c = socket_fd_
  OBVIOUS
<1>2. PICK replies \in Seq(Reply) : replies = toServer[c]
  BY DEF LinkType
<1>3. Len(replies) \in Nat /\ \A i \in 1..Len(replies) : replies[i] \in Reply
  OBVIOUS
<1>4. CASE ReadWhole(replies)
  <2>1. PICK n \in 1..Len(replies) : toServer' = [toServer EXCEPT ![c] = Without(n, replies)]
    BY <1>1, <1>4 DEF ReadWhole
  <2>2. n \in 0..Len(replies) /\ replies # <<>> /\ n # 0
    BY <1>3, <2>1
  <2>3. /\ Without(n, replies) \in Seq(Reply) /\ Len(Without(n, replies)) = Len(replies) - n
        /\ \A i \in 1..(Len(replies) - n) : Without(n, replies)[i] = replies[i + n]
    BY <2>2, DropFacts DEF Without
  <2>4. /\ toServer' \in [Connections -> Seq(Reply)] /\ toServer'[c] = Without(n, replies)
        /\ \A d \in Connections \ {c} : toServer'[d] = toServer[d]
    BY <2>1, <2>3 DEF LinkType
  <2>5. Head(replies) = replies[1] /\ Head(replies) \in Reply
    BY <2>2, HeadFacts
  <2>6. SetPromise(Head(replies)) /\ StillInStep
    BY <1>4 DEF ReadWhole
  <2> QED BY <1>1, <1>2, <2>2, <2>3, <2>4, <2>5, <2>6
<1>5. CASE ReadCut(replies)
  <2>1. PICK n \in 0..(Len(replies) - 1), kind \in {"ACK", "NACK"} :
           /\ toServer' = [toServer EXCEPT ![c] = [Without(n, replies) EXCEPT ![1].kind = "ACK"]]
           /\ SetPromise([Head(replies) EXCEPT !.kind = kind])
    <3>1. PICK n \in 0..(Len(replies) - 1) :
             /\ toServer' = [toServer EXCEPT ![c] = [Without(n, replies) EXCEPT ![1].kind = "ACK"]]
             /\ \E kind \in {Head(replies).kind} \cup (IF n = 0 THEN {"ACK"} ELSE {}) :
                   SetPromise([Head(replies) EXCEPT !.kind = kind])
      BY <1>1, <1>5 DEF ReadCut
    <3>2. Head(replies) \in Reply
      BY <1>3, <3>1, HeadFacts
    <3> QED BY <3>1, <3>2 DEF Reply
  <2>2. n \in 0..Len(replies) /\ replies # <<>> /\ n + 1 \in 1..Len(replies)
    BY <1>3, <2>1
  <2>3. Without(n, replies)[1] = replies[n + 1]
    BY <1>3, <2>1, <2>2, DropFacts DEF Without
  <2>4. PICK x \in Reply : /\ x = [replies[n + 1] EXCEPT !.kind = "ACK"]
                           /\ x.of = replies[n + 1].of /\ x.on = replies[n + 1].on
    BY <1>3, <2>2, KindFacts
  <2>5. [Without(n, replies) EXCEPT ![1].kind = "ACK"] = [Without(n, replies) EXCEPT ![1] = x]
    BY <2>3, <2>4
  <2>t. PICK t : t = [Without(n, replies) EXCEPT ![1] = x]
    OBVIOUS
  <2>6. /\ t \in Seq(Reply) /\ Len(t) = Len(replies) - n /\ t[1] = x
        /\ \A i \in 2..(Len(replies) - n) : t[i] = replies[i + n]
    <3>1. PICK u : u = Without(n, replies)
      OBVIOUS
    <3>2. n \in 0..Len(replies) /\ Len(replies) - n \in Nat \ {0}
      BY <1>3, <2>1, <2>4
    <3>3. /\ u \in Seq(Reply) /\ Len(u) = Len(replies) - n
          /\ \A i \in 1..(Len(replies) - n) : u[i] = replies[i + n]
      BY <3>1, <3>2, DropFacts DEF Without
    <3>4. PICK l \in Nat \ {0} : l = Len(replies) - n
      BY <3>2
    <3>5. t = [u EXCEPT ![1] = x] /\ x \in Reply
      BY <2>t, <3>1, <1>3, <2>1, <2>4
    <3>6. /\ t \in Seq(Reply) /\ Len(t) = l /\ t[1] = x
          /\ \A i \in 2..l : t[i] = u[i]
      BY <3>3, <3>4, <3>5, CutFacts
    <3> QED BY <3>3, <3>4, <3>6
  <2>7. \A i \in 1..(Len(replies) - n) : t[i].of = replies[i + n].of /\ t[i].on = replies[i + n].on
    <3> SUFFICES ASSUME NEW i \in 1..(Len(replies) - n)
                 PROVE  t[i].of = replies[i + n].of /\ t[i].on = replies[i + n].on
      OBVIOUS
    <3>1. CASE i = 1
      <4>1. i + n = n + 1
        BY <1>3, <2>1, <3>1
      <4> QED BY <2>4, <2>6, <3>1, <4>1
    <3>2. CASE i # 1
      <4>1. i \in 2..(Len(replies) - n)
        BY <1>3, <2>1, <3>2
      <4> QED BY <2>6, <4>1
    <3> QED BY <3>1, <3>2
  <2>8. /\ toServer' \in [Connections -> Seq(Reply)] /\ toServer'[c] = t
        /\ \A d \in Connections \ {c} : toServer'[d] = toServer[d]
    BY <2>1, <2>5, <2>t, <2>6 DEF LinkType
  <2>9. Head(replies) = replies[1] /\ Head(replies) \in Reply
    BY <2>2, HeadFacts
  <2>10. PICK value \in Reply : /\ value = [Head(replies) EXCEPT !.kind = kind]
                                /\ value.of = replies[1].of /\ value.on = replies[1].on
    BY <2>1, <2>9, KindFacts
  <2>11. SetPromise(value) /\ shifted' = shifted \cup {c}
    BY <1>1, <1>5, <2>1, <2>10 DEF ReadCut, OutOfStep
  <2>12. \A i \in 1..(Len(replies) - n) : toServer'[c][i].of = replies[i + n].of
                                          /\ toServer'[c][i].on = replies[i + n].on
    BY <2>7, <2>8
  <2>13. Len(toServer'[c]) = Len(replies) - n
    BY <2>6, <2>8
  <2> QED BY <1>1, <1>2, <2>2, <2>8, <2>10, <2>11, <2>12, <2>13
<1> QED
  BY <1>1, <1>2, <1>4, <1>5 DEF receive_buffer

\* send_request and the command that a failing send may have sent.
LEMMA AfterSendFacts ==
    ASSUME TInv, robot.pc = "send", socket_fd_ # INVALID_SOCKET_FD
    PROVE  AfterSend(robot.item) \in [Connections -> Seq(Items)]
<1>1. robot.item \in Items /\ socket_fd_ \in Connections
  BY ConstantFacts DEF TInv, RobotType
<1> QED
  BY <1>1, AppendFacts DEF TInv, LinkType, AfterSend

LEMMA RobotTypes ==
    ASSUME TInv, RobotStep \/ Connect \/ StopSession
    PROVE  TInv'
<1> USE DEF TInv
<1>1. WorkerType' /\ ShiftType' /\ (UNCHANGED controllerVars)
  <2>1. UNCHANGED <<workerVars, controllerVars>>
    BY DEF RobotStep, RobotTop, RobotWait, send_request, receive_buffer, LinkError, CloseSession,
       Connect, StopSession, OtherThanRobot
  <2>2. StillInStep \/ (receive_buffer /\ ReadCut(toServer[socket_fd_]))
    BY DEF RobotStep, RobotTop, RobotWait, send_request, receive_buffer, LinkError, CloseSession,
       Connect, StopSession, OtherThanRobot, StillInStep, ReadWhole
  <2>3. ASSUME receive_buffer, ReadCut(toServer[socket_fd_]) PROVE ShiftType'
    <3>1. socket_fd_ \in Connections
      BY <2>3 DEF receive_buffer, RobotType
    <3>2. OutOfStep("reply cut", socket_fd_) /\ "reply cut" \in Shifts
      BY <2>3 DEF ReadCut, OutOfStep
    <3> QED BY <3>1, <3>2, ShiftTypes
  <2> QED BY <2>1, <2>2, <2>3, ShiftTypes DEF workerVars, WorkerType
<1>2. ControllerType'
  <2>1. made' \in Nat /\ made <= made'
    BY DEF RobotStep, RobotTop, RobotWait, send_request, receive_buffer, LinkError, CloseSession,
       Connect, StopSession, robotVars, RobotType
  <2> QED
    BY <1>1, <2>1 DEF controllerVars, ControllerType, RobotType
<1>3. CASE RobotTop
  BY <1>1, <1>2, <1>3 DEF RobotTop, OtherThanRobot, RobotAt, RobotType, QueueType, PromiseType, LinkType,
     ConnectedHasSocket
<1>4. CASE Connect
  <2>1. RobotType'
    <3>1. made + 1 \in Connections /\ made + 1 \in 0..MaxConnections /\ made + 1 # INVALID_SOCKET_FD
      BY <1>4, ConnectionsAssumption DEF Connect, RobotType, Connections, INVALID_SOCKET_FD
    <3> QED
      BY <1>4, <3>1 DEF Connect, RobotType, OtherThanRobot, RobotAt, ConnectedHasSocket
  <2> QED
    BY <1>1, <1>2, <1>4, <2>1 DEF Connect, QueueType, PromiseType, LinkType
<1>5. CASE RobotWait
  <2>1. RobotType' /\ QueueType'
    <3>1. CASE ~running_
      BY <1>5, <3>1 DEF RobotWait, RobotType, QueueType, OtherThanRobot, ConnectedHasSocket
    <3>2. CASE running_ /\ request_queue_ # <<>>
      <4>1. Head(request_queue_) \in Commands /\ Tail(request_queue_) \in Seq(Requests)
        BY <3>2, HeadFacts DEF QueueType, Commands
      <4>2. /\ robot' = [pc |-> "send", item |-> Head(request_queue_)]
            /\ request_queue_' = Tail(request_queue_)
            /\ UNCHANGED <<connected_, socket_fd_, made, running_>>
        BY <1>5, <3>2 DEF RobotWait, OtherThanRobot
      <4> QED
        BY <4>1, <4>2 DEF RobotType, QueueType, ConnectedHasSocket
    <3>3. CASE running_ /\ request_queue_ = <<>>
      <4>1. /\ robot' = [pc |-> "send", item |-> PINGR]
            /\ UNCHANGED <<request_queue_, connected_, socket_fd_, made, running_>>
        BY <1>5, <3>3 DEF RobotWait, OtherThanRobot
      <4> QED
        BY <4>1 DEF RobotType, QueueType, ConnectedHasSocket, Commands
    <3> QED BY <3>1, <3>2, <3>3 DEF RobotType
  <2> QED
    BY <1>1, <1>2, <1>5, <2>1 DEF RobotWait, PromiseType, LinkType
<1>6. CASE send_request
  <2>1. robot.item \in Commands /\ socket_fd_ \in Connections
    BY <1>6 DEF send_request, RobotAt, RobotType
  <2>2. LinkType'
    BY <1>6, AfterSendFacts DEF send_request, LinkType, RobotAt
  <2>3. RobotType'
    BY <1>6, <2>1 DEF send_request, RobotAt, RobotType, OtherThanRobot, ConnectedHasSocket
  <2> QED
    BY <1>1, <1>2, <1>6, <2>2, <2>3 DEF send_request, QueueType, PromiseType
<1>7. CASE receive_buffer
  <2>1. robot.item \in Commands /\ socket_fd_ \in Connections
    BY <1>7 DEF receive_buffer, RobotType
  <2>2. toServer[socket_fd_] \in Seq(Reply)
    BY <2>1 DEF LinkType
  <2>3. PICK n \in 0..Len(toServer[socket_fd_]), value \in Reply :
           /\ SetPromise(value)
           /\ toServer' \in [Connections -> Seq(Reply)]
    BY <1>7, <2>1, ReceiveFacts
  <2>4. LinkType'
    BY <1>7, <2>3 DEF receive_buffer, LinkType
  <2>5. PromiseType'
    BY <2>1, <2>3, SetPromiseFacts
  <2>6. RobotType'
    BY <1>7 DEF receive_buffer, NextIteration, RobotType, OtherThanRobot, ConnectedHasSocket
  <2> QED
    BY <1>1, <1>2, <1>7, <2>4, <2>5, <2>6 DEF receive_buffer, QueueType
<1>8. CASE LinkError
  <2>1. robot.item \in Commands
    BY <1>8 DEF LinkError, RobotType
  <2>2. PromiseType'
    BY <1>8, <2>1, SetPromiseFacts DEF LinkError
  <2>4. LinkType'
    BY <1>8, AfterSendFacts DEF LinkError, SentBeforeError, LinkType
  <2>3. RobotType'
    BY <1>8 DEF LinkError, NextIteration, RobotType, OtherThanRobot, ConnectedHasSocket
  <2> QED
    BY <1>1, <1>2, <1>8, <2>2, <2>3, <2>4 DEF LinkError, QueueType
<1>9. CASE CloseSession
  BY <1>1, <1>2, <1>9 DEF CloseSession, RobotAt, RobotType, OtherThanRobot, ConnectedHasSocket,
     QueueType, PromiseType, LinkType
<1>10. CASE StopSession
  BY <1>1, <1>2, <1>10 DEF StopSession, robotVars, RobotType, ConnectedHasSocket, QueueType,
     PromiseType, LinkType
<1> QED
  BY <1>3, <1>4, <1>5, <1>6, <1>7, <1>8, <1>9, <1>10 DEF RobotStep

\* SocketReceive takes something from the beginning of the stream: of what is left
\* the requests are as they were, behind the first, and unless a command was cut
\* that was at least one of them.
LEMMA ReadsFacts ==
    ASSUME LinkType, NEW c \in Connections, c = client, toRobot[c] # <<>>, Reads
    PROVE  \E n \in 0..Len(toRobot[c]) :
              /\ toRobot' \in [Connections -> Seq(Items)]
              /\ Len(toRobot'[c]) = Len(toRobot[c]) - n
              /\ \A i \in 1..(Len(toRobot[c]) - n) : toRobot'[c][i] # Rest =>
                    toRobot'[c][i] = toRobot[c][i + n] /\ 1 < i + n
              /\ \A d \in Connections \ {c} : toRobot'[d] = toRobot[d]
              /\ \/ StillInStep /\ n # 0
                 \/ shifted' = shifted \cup {c}
<1>1. PICK s \in Seq(Items) : s = toRobot[c]
  BY DEF LinkType
<1>2. Len(s) \in Nat /\ Rest \in Items
  BY ConstantFacts
<1>3. ASSUME NEW n \in 1..Len(s), toRobot' = [toRobot EXCEPT ![c] = Without(n, @)], StillInStep
      PROVE  \E m \in 0..Len(s) :
                /\ toRobot' \in [Connections -> Seq(Items)]
                /\ Len(toRobot'[c]) = Len(s) - m
                /\ \A i \in 1..(Len(s) - m) : toRobot'[c][i] # Rest =>
                      toRobot'[c][i] = s[i + m] /\ 1 < i + m
                /\ \A d \in Connections \ {c} : toRobot'[d] = toRobot[d]
                /\ StillInStep /\ m # 0
  <2>1. n \in 0..Len(s) /\ n # 0 /\ n \in Nat
    BY <1>2
  <2>2. /\ Without(n, s) \in Seq(Items) /\ Len(Without(n, s)) = Len(s) - n
        /\ \A i \in 1..(Len(s) - n) : Without(n, s)[i] = s[i + n]
    BY <2>1, DropFacts DEF Without
  <2>3. /\ toRobot' \in [Connections -> Seq(Items)] /\ toRobot'[c] = Without(n, s)
        /\ \A d \in Connections \ {c} : toRobot'[d] = toRobot[d]
    BY <1>1, <1>3, <2>2 DEF LinkType
  <2>4. \A i \in 1..(Len(s) - n) : 1 < i + n
    BY <1>2
  <2> QED BY <1>3, <2>1, <2>2, <2>3, <2>4
<1>4. ASSUME NEW n \in 0..(Len(s) - 1),
             toRobot' = [toRobot EXCEPT ![c] = [Without(n, @) EXCEPT ![1] = Rest]]
      PROVE  /\ n \in 0..Len(s)
             /\ toRobot' \in [Connections -> Seq(Items)]
             /\ Len(toRobot'[c]) = Len(s) - n
             /\ \A i \in 1..(Len(s) - n) : toRobot'[c][i] # Rest =>
                   toRobot'[c][i] = s[i + n] /\ 1 < i + n
             /\ \A d \in Connections \ {c} : toRobot'[d] = toRobot[d]
  <2>t. PICK t : t = [Without(n, s) EXCEPT ![1] = Rest]
    OBVIOUS
  <2>1. /\ t \in Seq(Items) /\ Len(t) = Len(s) - n /\ t[1] = Rest
        /\ \A i \in 2..(Len(s) - n) : t[i] = s[i + n]
    <3>1. PICK u : u = Without(n, s)
      OBVIOUS
    <3>2. n \in 0..Len(s) /\ Len(s) - n \in Nat \ {0}
      BY <1>2, <1>4
    <3>3. /\ u \in Seq(Items) /\ Len(u) = Len(s) - n
          /\ \A i \in 1..(Len(s) - n) : u[i] = s[i + n]
      BY <3>1, <3>2, DropFacts DEF Without
    <3>4. PICK l \in Nat \ {0} : l = Len(s) - n
      BY <3>2
    <3>5. t = [u EXCEPT ![1] = Rest] /\ Rest \in Items
      BY <2>t, <3>1, <1>2, <1>4
    <3>6. /\ t \in Seq(Items) /\ Len(t) = l /\ t[1] = Rest
          /\ \A i \in 2..l : t[i] = u[i]
      BY <3>3, <3>4, <3>5, CutFacts
    <3> QED BY <3>3, <3>4, <3>6
  <2>2. /\ toRobot' \in [Connections -> Seq(Items)] /\ toRobot'[c] = t
        /\ \A d \in Connections \ {c} : toRobot'[d] = toRobot[d]
    BY <1>1, <1>4, <2>t, <2>1 DEF LinkType
  <2>3. \A i \in 1..(Len(s) - n) : i # 1 => i \in 2..(Len(s) - n) /\ 1 < i + n
    BY <1>2
  <2>4. \A i \in 1..(Len(s) - n) : toRobot'[c][i] # Rest =>
           toRobot'[c][i] = s[i + n] /\ 1 < i + n
    BY <2>1, <2>2, <2>3
  <2> QED BY <1>2, <2>1, <2>2, <2>4
<1>5. CASE \E n \in 1..Len(s) : toRobot' = [toRobot EXCEPT ![c] = Without(n, @)] /\ StillInStep
  BY <1>1, <1>3, <1>5
<1>6. CASE /\ \E n \in 0..(Len(s) - 1) :
                 toRobot' = [toRobot EXCEPT ![c] = [Without(n, @) EXCEPT ![1] = Rest]]
           /\ OutOfStep("request cut", c)
  <2>1. shifted' = shifted \cup {c}
    BY <1>6 DEF OutOfStep
  <2> QED BY <1>1, <1>4, <1>6, <2>1
<1> QED BY <1>1, <1>5, <1>6 DEF Reads

LEMMA ControllerTypes ==
    ASSUME TInv, Controller
    PROVE  TInv'
<1> USE DEF TInv
<1>1. UNCHANGED OtherThanController
  BY DEF Controller, SocketAccept, SocketReceive, ParseError, ExecuteAction, ExecuteActionLimit,
     ClientGone, Restart
<1>s. ShiftType'
  <2>1. \/ StillInStep
        \/ client # INVALID_SOCKET_FD /\ \E what \in Shifts : OutOfStep(what, client)
    <3>1. ASSUME OutOfStep("request cut", client) \/ OutOfStep("answered twice", client)
          PROVE  \E what \in Shifts : OutOfStep(what, client)
      BY <3>1 DEF OutOfStep
    <3>2. CASE SocketAccept \/ ExecuteAction \/ ClientGone \/ Restart
      BY <3>2 DEF SocketAccept, ExecuteAction, ClientGone, Restart, StillInStep
    <3>3. CASE SocketReceive \/ ParseError
      BY <3>1, <3>3 DEF SocketReceive, ParseError, Receiving, Reads
    <3>4. CASE ExecuteActionLimit
      BY <3>1, <3>4 DEF ExecuteActionLimit, ControllerType
    <3> QED BY <3>2, <3>3, <3>4 DEF Controller
  <2>2. client # INVALID_SOCKET_FD => client \in Connections
    BY DEF ControllerType
  <2> QED BY <2>1, <2>2, ShiftTypes
<1>2. WorkerType' /\ QueueType' /\ PromiseType' /\ RobotType'
  BY <1>1 DEF OtherThanController, workerVars, robotVars, WorkerType, QueueType, PromiseType,
     RobotType, ConnectedHasSocket
<1>3. made' = made
  BY <1>1 DEF OtherThanController, robotVars
<1>4. CASE SocketAccept
  <2>1. accepted + 1 \in Connections /\ accepted + 1 \in 0..made
    BY <1>4, ConnectionsAssumption DEF SocketAccept, ControllerType, RobotType, Connections
  <2> QED
    BY <1>s, <1>2, <1>3, <1>4, <2>1 DEF SocketAccept, ControllerType, LinkType
<1>5. CASE SocketReceive
  <2>1. client \in Connections /\ toRobot[client] \in Seq(Items) /\ toRobot[client] # <<>>
    BY <1>5 DEF SocketReceive, Receiving, ControllerType, LinkType
  <2>2. doing' \in Items \cup {Idle}
    BY <1>5, <2>1, HeadFacts DEF SocketReceive
  <2>3. executed' \in Seq(Requests)
    BY <1>5, <2>2, AppendFacts DEF SocketReceive, ControllerType
  <2>4. LinkType'
    BY <1>5, <2>1, ReadsFacts DEF SocketReceive, LinkType
  <2>5. ControllerType'
    BY <1>3, <1>5, <2>1, <2>2, <2>3, ConstantFacts DEF SocketReceive, ControllerType
  <2> QED BY <1>s, <1>2, <2>4, <2>5
<1>5a. CASE ParseError
  <2>1. /\ client' = INVALID_SOCKET_FD /\ toRobot' = [toRobot EXCEPT ![client] = <<>>]
        /\ UNCHANGED <<accepted, doing, executed, toServer>> /\ doing = Idle
    BY <1>5a DEF ParseError, Receiving
  <2>2. toRobot' \in [Connections -> Seq(Items)]
    <3>1. <<>> \in Seq(Items)
      OBVIOUS
    <3>2. toRobot \in [Connections -> Seq(Items)]
      BY DEF LinkType
    <3> QED BY <2>1, <3>1, <3>2
  <2>3. 0 <= accepted
    BY DEF ControllerType, RobotType
  <2> QED BY <1>s, <1>2, <1>3, <2>1, <2>2, <2>3 DEF ControllerType, LinkType, INVALID_SOCKET_FD
<1>6. ASSUME doing # Idle, NEW replies \in Seq(Reply), Send(replies) PROVE toServer' \in [Connections -> Seq(Reply)]
  BY <1>6, ConcatFacts, ConstantFacts DEF Send, LinkType, ControllerType
<1>7. ASSUME doing # Idle, NEW kind \in {"ACK", "NACK"}
      PROVE  ReplyWith(kind) \in Reply
  BY <1>7 DEF ReplyWith, Reply, ControllerType
<1>8. CASE ExecuteAction
  <2>1. PICK kind \in {"ACK", "NACK"} : Send(<<ReplyWith(kind)>>)
    BY <1>8 DEF ExecuteAction
  <2>2. <<ReplyWith(kind)>> \in Seq(Reply)
    BY <1>7, <1>8 DEF ExecuteAction
  <2>3. LinkType'
    BY <1>6, <1>8, <2>1, <2>2 DEF ExecuteAction, LinkType
  <2> QED
    BY <1>s, <1>2, <1>3, <1>8, <2>3 DEF ExecuteAction, ControllerType
<1>9. CASE ExecuteActionLimit
  <2>1. doing # Idle
    BY <1>9 DEF ExecuteActionLimit
  <2>2. <<ReplyWith("NACK"), ReplyWith("NACK")>> \in Seq(Reply)
    BY <1>7, <2>1
  <2>3. LinkType'
    BY <1>6, <1>9, <2>1, <2>2 DEF ExecuteActionLimit, LinkType
  <2> QED
    BY <1>s, <1>2, <1>3, <1>9, <2>1, <2>3 DEF ExecuteActionLimit, ControllerType
<1>10. CASE ClientGone
  BY <1>s, <1>2, <1>3, <1>10, ConstantFacts DEF ClientGone, ControllerType, LinkType, INVALID_SOCKET_FD
<1>11. CASE Restart
  BY <1>s, <1>2, <1>3, <1>11, ConstantFacts DEF Restart, ControllerType, RobotType, LinkType, INVALID_SOCKET_FD
<1> QED
  BY <1>4, <1>5, <1>5a, <1>8, <1>9, <1>10, <1>11 DEF Controller

LEMMA TypeStep == TInv /\ [Next]_vars => TInv'
<1> SUFFICES ASSUME TInv, [Next]_vars PROVE TInv'
  OBVIOUS
<1>1. CASE UNCHANGED vars
  <2>1. WorkerType' /\ QueueType' /\ PromiseType'
    BY <1>1 DEF vars, TInv, WorkerType, QueueType, PromiseType
  <2>2. RobotType'
    BY <1>1 DEF vars, TInv, RobotType, ConnectedHasSocket
  <2>3. LinkType' /\ ControllerType'
    BY <1>1 DEF vars, TInv, LinkType, ControllerType
  <2>4. ShiftType'
    BY <1>1 DEF vars, TInv, ShiftType
  <2> QED BY <2>1, <2>2, <2>3, <2>4 DEF TInv
<1> QED
  BY <1>1, WorkerTypes, RobotTypes, ControllerTypes DEF Next, WorkerStep

LEMMA TypeImplied == TInv => TypeOK /\ ConnectedHasSocket
  BY DEF TInv, TypeOK, WorkerType, QueueType, PromiseType, RobotType, LinkType, ControllerType,
     ShiftType

\* Every variable keeps to its values: no recv without a connection, no reply of a
\* controller that serves nobody.
THEOREM LinkTypeCorrect == Spec => []TypeOK
  BY TypeInit, TypeStep, TypeImplied, PTL DEF Spec

\* The socket and connected_ are set and reset together (attempt_connection and the
\* catch block of worker_loop).
THEOREM SocketIfConnected == Spec => []ConnectedHasSocket
  BY TypeInit, TypeStep, TypeImplied, PTL DEF Spec

-----------------------------------------------------------------------------
(* The order of requests *)

Entries(s) == {s[i] : i \in 1..Len(s)}

LEMMA OneMoreEntry ==
    ASSUME NEW s, NEW t, Len(s) \in Nat, Len(t) = Len(s) + 1, \A i \in 1..Len(s) : t[i] = s[i]
    PROVE  Entries(t) = Entries(s) \cup {t[Len(s) + 1]}
<1>1. 1..Len(t) = 1..Len(s) \cup {Len(s) + 1}
  BY AppendIndex
<1> QED BY <1>1 DEF Entries

\* The heartbeats and rests left out.
Increasing(s) ==
    \A i, j \in 1..Len(s) : i < j /\ s[i] \in Requests /\ s[j] \in Requests => s[i] < s[j]

Before(S, T) == \A s \in S : \A t \in T : s < t

\* The requests at each stage of their way, the last one first.
Executed == Entries(executed)
OnWire(c) == Entries(toRobot[c]) \cap Requests
Sent == Executed \cup UNION {OnWire(c) : c \in Connections}
InHand == IF robot.pc = "send" THEN {robot.item} \cap Requests ELSE {}
Waiting == Entries(request_queue_)

\* The first request that is not queued yet.
Issued == IF worker.pc = "await" THEN worker.request + 1 ELSE worker.request

Stages ==
    /\ Before(Sent, InHand)
    /\ Before(Sent \cup InHand, Waiting)
    /\ Before(Sent \cup InHand \cup Waiting, {Issued})

\* What is in transit comes after what is executed, and on a later connection
\* after what is in transit on an earlier one.
WireOrder ==
    /\ Increasing(executed)
    /\ \A c \in Connections : Increasing(toRobot[c]) /\ Before(Executed, OnWire(c))
    /\ \A c, d \in Connections : c < d => Before(OnWire(c), OnWire(d))

\* Nothing is in transit on a connection that the controller has lost or that does
\* not exist yet.
WireAlive == \A c \in Connections : ~Alive(c) \/ c > made => toRobot[c] = <<>>

QueueOrder == Increasing(request_queue_)

OInv == TInv /\ Stages /\ WireOrder /\ WireAlive /\ QueueOrder

LEMMA StageTypes ==
    ASSUME TInv
    PROVE  /\ Executed \subseteq Requests /\ Waiting \subseteq Requests
           /\ InHand \subseteq Requests
           /\ \A c \in Connections : OnWire(c) \subseteq Requests
           /\ Sent \subseteq Requests
           /\ Issued \in Int
<1>1. Executed \subseteq Requests /\ Waiting \subseteq Requests
  BY DEF TInv, ControllerType, QueueType, Executed, Waiting, Entries
<1>2. InHand \subseteq Requests
  BY DEF TInv, RobotType, InHand, Commands
<1>3. ASSUME NEW c \in Connections PROVE OnWire(c) \subseteq Requests
  <2>1. toRobot[c] \in Seq(Items)
    BY DEF TInv, LinkType
  <2> QED BY <2>1 DEF OnWire, Entries, Commands
<1>4. Issued \in Int
  <2>1. worker.request \in 1..(MaxRequests + 1)
    BY DEF TInv, WorkerType
  <2>2. worker.request \in Int
    BY <2>1
  <2> QED BY <2>2 DEF Issued
<1> QED BY <1>1, <1>2, <1>3, <1>4 DEF Sent

LEMMA IssuedNext ==
    ASSUME TInv'
    PROVE  Issued' \in Int
<1>1. worker'.request \in 1..(MaxRequests + 1)
  BY DEF TInv, WorkerType
<1>2. worker'.request \in Int
  BY <1>1
<1> QED BY <1>2 DEF Issued

LEMMA RequestsAreNumbers == Requests \subseteq Int
  BY DEF Requests

LEMMA OrderInit == Init => OInv
<1> SUFFICES ASSUME Init PROVE OInv
  OBVIOUS
<1>1. TInv
  BY TypeInit
<1>2. executed = <<>> /\ request_queue_ = <<>> /\ \A c \in Connections : toRobot[c] = <<>>
  BY DEF Init
<1>3. Executed = {} /\ Waiting = {} /\ (\A c \in Connections : OnWire(c) = {}) /\ InHand = {}
  <2>1. Entries(<<>>) = {}
    BY DEF Entries
  <2>2. robot.pc # "send"
    BY DEF Init
  <2> QED BY <1>2, <2>1, <2>2 DEF Executed, Waiting, OnWire, InHand
<1>4. Sent = {}
  BY <1>3 DEF Sent
<1>5. Increasing(<<>>)
  BY DEF Increasing
<1>6. Stages
  BY <1>3, <1>4 DEF Stages, Before
<1>7. WireOrder
  BY <1>2, <1>3, <1>5 DEF WireOrder, Before
<1>8. WireAlive /\ QueueOrder
  BY <1>2, <1>5 DEF WireAlive, QueueOrder
<1> QED BY <1>1, <1>6, <1>7, <1>8 DEF OInv

\* Requests that go on to the next stage or vanish change nothing.
LEMMA StagesShrink ==
    ASSUME TInv, TInv', Stages, Sent' \subseteq Sent, InHand' \subseteq InHand,
           Waiting' \subseteq Waiting, Issued <= Issued'
    PROVE  Stages'
<1>1. Before(Sent', InHand') /\ Before(Sent' \cup InHand', Waiting')
  BY DEF Stages, Before
<1>2. Before(Sent' \cup InHand' \cup Waiting', {Issued'})
  <2> SUFFICES ASSUME NEW r \in Sent \cup InHand \cup Waiting PROVE r < Issued'
    BY DEF Before
  <2>1. r < Issued
    BY DEF Stages, Before
  <2>2. r \in Int /\ Issued \in Int
    BY StageTypes, RequestsAreNumbers
  <2>3. Issued' \in Int
    BY IssuedNext
  <2> QED BY <2>1, <2>2, <2>3
<1> QED BY <1>1, <1>2 DEF Stages

\* The steps that leave executed and toRobot alone.
LEMMA WireQuiet ==
    ASSUME OInv, UNCHANGED <<executed, toRobot>>
    PROVE  Sent' = Sent /\ WireOrder'
  BY DEF OInv, Sent, Executed, OnWire, WireOrder, Before, Increasing, Entries

\* The worker queues the next request, or it does not.
LEMMA WorkerIssues ==
    ASSUME TInv, WorkerTask \/ queue_request \/ WorkerAwait
    PROVE  \/ request_queue_' = request_queue_ /\ Waiting' = Waiting /\ Issued <= Issued'
           \/ /\ request_queue_' = Append(request_queue_, Issued) /\ Issued \in Requests
              /\ Waiting' = Waiting \cup {Issued} /\ Issued' = Issued + 1
<1>0. worker \in [pc: {"task", "queue", "await", "threw"}, request: 1..(MaxRequests + 1)]
  BY DEF TInv, WorkerType
<1>1. CASE WorkerTask \/ WorkerAwait
  <2>1. request_queue_' = request_queue_
    BY <1>1 DEF WorkerTask, WorkerAwait
  <2>2. worker.request \in Requests
    BY <1>1 DEF WorkerTask, WorkerAwait, TInv, WorkerType
  <2>3. worker.request \in Int
    BY <2>2, RequestsAreNumbers
  <2>4. \/ worker' = [worker EXCEPT !.pc = "queue"] /\ worker.pc = "task"
        \/ worker' = [pc |-> "task", request |-> worker.request + 1]
    BY <1>1 DEF WorkerTask, WorkerAwait, Judge
  <2>5. CASE worker' = [worker EXCEPT !.pc = "queue"] /\ worker.pc = "task"
    <3>1. Issued = worker.request /\ Issued' = worker.request
      BY <1>0, <2>5 DEF Issued
    <3> QED BY <2>1, <2>3, <3>1 DEF Waiting, Entries
  <2>6. CASE worker' = [pc |-> "task", request |-> worker.request + 1]
    <3>1. Issued' = worker.request + 1 /\ Issued \in {worker.request, worker.request + 1}
      BY <2>6 DEF Issued
    <3> QED BY <2>1, <2>3, <3>1 DEF Waiting, Entries
  <2> QED BY <2>4, <2>5, <2>6
<1>2. CASE queue_request
  <2>1. worker.request \in Requests /\ Issued = worker.request
    BY <1>2 DEF queue_request, TInv, WorkerType, Issued
  <2>2. worker.request \in Int
    BY <2>1, RequestsAreNumbers
  <2>3. CASE running_
    <3>1. request_queue_' = Append(request_queue_, Issued) /\ Issued' = Issued + 1
      BY <1>0, <1>2, <2>1, <2>3 DEF queue_request, Issued
    <3>2. request_queue_ \in Seq(Requests)
      BY DEF TInv, QueueType
    <3>3. Waiting' = Waiting \cup {Issued}
      BY <2>1, <3>1, <3>2, AppendFacts DEF Waiting, Entries
    <3> QED BY <2>1, <3>1, <3>3
  <2>4. CASE ~running_
    <3>1. request_queue_' = request_queue_ /\ Issued' = Issued
      BY <1>0, <1>2, <2>1, <2>4 DEF queue_request, Issued
    <3> QED BY <2>1, <2>2, <3>1 DEF Waiting, Entries
  <2> QED BY <2>3, <2>4
<1> QED BY <1>1, <1>2

LEMMA OrderWorker ==
    ASSUME OInv, TInv', WorkerTask \/ queue_request \/ WorkerAwait
    PROVE  OInv'
<1> USE DEF OInv
<1>1. UNCHANGED OtherThanWorker
  BY DEF WorkerTask, queue_request, WorkerAwait
<1>2. Sent' = Sent /\ WireOrder'
  BY <1>1, WireQuiet DEF OtherThanWorker, controllerVars
<1>3. InHand' = InHand
  BY <1>1 DEF OtherThanWorker, robotVars, InHand
<1>4. WireAlive'
  BY <1>1 DEF OtherThanWorker, robotVars, controllerVars, WireAlive, Alive
<1>5. CASE request_queue_' = request_queue_ /\ Waiting' = Waiting /\ Issued <= Issued'
  <2>1. QueueOrder'
    BY <1>5 DEF QueueOrder, Increasing
  <2>2. Stages'
    BY <1>2, <1>3, <1>5, StagesShrink
  <2> QED BY <1>2, <1>4, <2>1, <2>2
<1>6. CASE /\ request_queue_' = Append(request_queue_, Issued) /\ Issued \in Requests
           /\ Waiting' = Waiting \cup {Issued} /\ Issued' = Issued + 1
  <2>1. request_queue_ \in Seq(Requests)
    BY DEF TInv, QueueType
  <2>2. /\ Len(request_queue_') = Len(request_queue_) + 1
        /\ \A i \in 1..Len(request_queue_) : request_queue_'[i] = request_queue_[i]
        /\ request_queue_'[Len(request_queue_) + 1] = Issued
    BY <1>6, <2>1, AppendFacts
  <2>3. \A r \in Sent \cup InHand \cup Waiting : r < Issued
    BY DEF Stages, Before
  <2>4. QueueOrder'
    BY <2>1, <2>2, <2>3 DEF QueueOrder, Increasing, Waiting, Entries
  <2>5. Before(Sent', InHand') /\ Before(Sent' \cup InHand', Waiting')
    BY <1>2, <1>3, <1>6, <2>3 DEF Stages, Before
  <2>6. \A r \in Sent \cup InHand \cup Waiting \cup {Issued} : r < Issued + 1
    <3> SUFFICES ASSUME NEW r \in Sent \cup InHand \cup Waiting \cup {Issued}
                 PROVE  r < Issued + 1
      OBVIOUS
    <3>1. r \in Int /\ Issued \in Int
      BY StageTypes, RequestsAreNumbers
    <3>2. r < Issued \/ r = Issued
      BY <2>3
    <3> QED BY <3>1, <3>2
  <2>7. Before(Sent' \cup InHand' \cup Waiting', {Issued'})
    BY <1>2, <1>3, <1>6, <2>6 DEF Before
  <2> QED BY <1>2, <1>4, <2>4, <2>5, <2>7 DEF Stages
<1> QED BY <1>5, <1>6, WorkerIssues

LEMMA OrderRobot ==
    ASSUME OInv, TInv', RobotStep \/ Connect \/ StopSession
    PROVE  OInv'
<1> USE DEF OInv
<1>1. UNCHANGED <<worker, accepted, client, executed>> /\ made <= made'
  BY DEF RobotStep, RobotTop, RobotWait, send_request, receive_buffer, LinkError, CloseSession,
     Connect, StopSession, OtherThanRobot, workerVars, controllerVars, robotVars, TInv, RobotType
<1>2. Issued' = Issued /\ Issued <= Issued'
  BY <1>1, StageTypes DEF Issued
<1>3. CASE UNCHANGED <<toRobot, request_queue_>> /\ (robot'.pc # "send" \/ robot' = robot)
  <2>1. Sent' = Sent /\ WireOrder'
    BY <1>1, <1>3, WireQuiet
  <2>2. WireAlive'
    <3>1. \A c \in Connections : c > made' => c > made
      BY <1>1 DEF TInv, RobotType, Connections
    <3> QED BY <1>1, <1>3, <3>1 DEF WireAlive, Alive
  <2>3. QueueOrder' /\ Waiting' = Waiting
    BY <1>3 DEF QueueOrder, Waiting, Increasing, Entries
  <2>4. InHand' \subseteq InHand
    BY <1>3 DEF InHand
  <2>5. Stages'
    BY <1>2, <2>1, <2>3, <2>4, StagesShrink
  <2> QED BY <2>1, <2>2, <2>3, <2>5
<1>4. CASE RobotTop \/ Connect \/ receive_buffer \/ CloseSession \/ StopSession
  <2>1. UNCHANGED <<toRobot, request_queue_>>
    BY <1>4 DEF RobotTop, receive_buffer, CloseSession, Connect, StopSession
  <2>2. robot'.pc # "send" \/ robot' = robot
    BY <1>4 DEF RobotTop, receive_buffer, CloseSession, Connect, StopSession, RobotAt,
       NextIteration, robotVars, TInv, RobotType
  <2> QED BY <1>3, <2>1, <2>2
<1>5. CASE RobotWait
  <2>1. UNCHANGED <<toRobot, made>>
    BY <1>5 DEF RobotWait
  <2>2. Sent' = Sent /\ WireOrder' /\ WireAlive'
    BY <1>1, <2>1, WireQuiet DEF WireAlive, Alive
  <2>3. InHand = {}
    BY <1>5 DEF RobotWait, InHand
  <2>4. CASE running_ /\ request_queue_ # <<>>
    <3>1. request_queue_ \in Seq(Requests)
      BY DEF TInv, QueueType
    <3>2. /\ robot' = [pc |-> "send", item |-> Head(request_queue_)]
          /\ request_queue_' = Tail(request_queue_)
      BY <1>5, <2>4 DEF RobotWait
    <3>3. /\ Len(request_queue_) \in Nat \ {0} /\ robot'.item = request_queue_[1]
          /\ robot'.pc = "send"
          /\ Len(request_queue_') = Len(request_queue_) - 1
          /\ \A i \in 1..(Len(request_queue_) - 1) : request_queue_'[i] = request_queue_[i + 1]
          /\ robot'.item \in Requests
      BY <2>4, <3>1, <3>2, HeadFacts, ConstantFacts
    <3>4. QueueOrder'
      BY <3>1, <3>3 DEF QueueOrder, Increasing
    <3>5. InHand' = {robot'.item} /\ robot'.item \in Waiting
      BY <3>3 DEF InHand, Waiting, Entries
    <3>6. Waiting' \subseteq Waiting
      BY <3>1, <3>3 DEF Waiting, Entries
    <3>7. Before(InHand', Waiting')
      <4> SUFFICES ASSUME NEW i \in 1..Len(request_queue_') PROVE robot'.item < request_queue_'[i]
        BY <3>5 DEF Waiting, Entries, Before
      <4>1. i + 1 \in 1..Len(request_queue_) /\ 1 \in 1..Len(request_queue_) /\ 1 < i + 1
        BY <3>3
      <4>2. request_queue_[i + 1] \in Requests /\ request_queue_[1] \in Requests
        BY <3>1, <4>1
      <4>3. request_queue_[1] < request_queue_[i + 1]
        BY <3>3, <4>1, <4>2 DEF QueueOrder, Increasing
      <4> QED BY <3>3, <4>1, <4>3
    <3>8. Stages'
      BY <1>2, <2>2, <3>5, <3>6, <3>7 DEF Stages, Before
    <3> QED BY <2>2, <3>4, <3>8
  <2>5. CASE ~(running_ /\ request_queue_ # <<>>)
    <3>1. request_queue_' = request_queue_ /\ (robot'.pc = "exited" \/ robot'.item = PINGR)
      BY <1>5, <2>5 DEF RobotWait, TInv, RobotType
    <3>2. InHand' = {}
      BY <3>1, ConstantFacts DEF InHand
    <3>3. QueueOrder' /\ Waiting' = Waiting
      BY <3>1 DEF QueueOrder, Waiting, Increasing, Entries
    <3>4. Stages'
      BY <1>2, <2>2, <3>2, <3>3, StagesShrink
    <3> QED BY <2>2, <3>3, <3>4
  <2> QED BY <2>4, <2>5
<1>6. CASE /\ robot.pc = "send" /\ robot'.pc # "send" /\ socket_fd_ # INVALID_SOCKET_FD
           /\ toRobot' = AfterSend(robot.item) /\ UNCHANGED <<made, request_queue_>>
  <2>1. CASE ~Alive(socket_fd_)
    BY <1>3, <1>6, <2>1 DEF AfterSend
  <2>2. CASE Alive(socket_fd_)
    <3>1. PICK c \in Connections :
             c = socket_fd_ /\ c = made /\ robot.item \in Items /\ toRobot[c] \in Seq(Items)
      BY <1>6, ConstantFacts DEF TInv, RobotType, LinkType
    <3>2. toRobot' = [toRobot EXCEPT ![c] = Append(@, robot.item)]
      BY <1>6, <2>2, <3>1 DEF AfterSend
    <3>3. /\ Len(toRobot'[c]) = Len(toRobot[c]) + 1
          /\ \A i \in 1..Len(toRobot[c]) : toRobot'[c][i] = toRobot[c][i]
          /\ toRobot'[c][Len(toRobot[c]) + 1] = robot.item
          /\ \A d \in Connections \ {c} : toRobot'[d] = toRobot[d]
      BY <3>1, <3>2, AppendFacts DEF TInv, LinkType
    <3>4. InHand = {robot.item} \cap Requests /\ InHand' = {}
      BY <1>6 DEF InHand
    <3>5. OnWire(c)' = OnWire(c) \cup InHand /\ \A d \in Connections \ {c} : OnWire(d)' = OnWire(d)
      <4>1. Entries(toRobot'[c]) = Entries(toRobot[c]) \cup {robot.item}
        <5>1. PICK s : s = toRobot[c]
          OBVIOUS
        <5>2. PICK t : t = toRobot'[c]
          OBVIOUS
        <5>3. Len(s) \in Nat
          BY <3>1, <5>1
        <5>4. /\ Len(t) = Len(s) + 1 /\ \A i \in 1..Len(s) : t[i] = s[i]
              /\ t[Len(s) + 1] = robot.item
          BY <3>3, <5>1, <5>2
        <5>5. Entries(t) = Entries(s) \cup {robot.item}
          BY <5>3, <5>4, OneMoreEntry
        <5> QED BY <5>1, <5>2, <5>5
      <4> QED BY <3>3, <3>4, <4>1 DEF OnWire, Entries
    <3>6. Executed' = Executed
      BY <1>1 DEF Executed, Entries
    <3>7. Sent' = Sent \cup InHand
      BY <3>1, <3>5, <3>6 DEF Sent
    <3>8. Waiting' = Waiting /\ QueueOrder'
      BY <1>6 DEF Waiting, QueueOrder, Increasing, Entries
    <3>9. Stages'
      BY <1>2, <3>4, <3>7, <3>8 DEF Stages, Before
    <3>10. WireOrder'
      <4>1. Increasing(executed)'
        BY <1>1 DEF WireOrder, Increasing
      <4>2. \A r \in Sent : \A q \in InHand : r < q
        BY DEF Stages, Before
      <4>3. Increasing(toRobot[c])'
        <5> SUFFICES ASSUME NEW i \in 1..Len(toRobot'[c]), NEW j \in 1..Len(toRobot'[c]), i < j,
                            toRobot'[c][i] \in Requests, toRobot'[c][j] \in Requests
                     PROVE  toRobot'[c][i] < toRobot'[c][j]
          BY DEF Increasing
        <5>1. i \in 1..Len(toRobot[c]) /\ toRobot'[c][i] = toRobot[c][i]
          BY <3>1, <3>3
        <5>2. CASE j \in 1..Len(toRobot[c])
          BY <3>1, <3>3, <5>1, <5>2 DEF WireOrder, Increasing
        <5>3. CASE j = Len(toRobot[c]) + 1
          <6>1. toRobot[c][i] \in OnWire(c) /\ robot.item \in InHand /\ toRobot'[c][j] = robot.item
            BY <3>3, <3>4, <5>1, <5>3 DEF OnWire, Entries
          <6>2. toRobot[c][i] \in Sent
            BY <3>1, <6>1 DEF Sent
          <6> QED BY <4>2, <5>1, <6>1, <6>2
        <5> QED BY <3>1, <3>3, <5>2, <5>3
      <4>4. \A d \in Connections \ {c} : Increasing(toRobot[d])'
        BY <3>3 DEF WireOrder, Increasing
      <4>5. \A d \in Connections : Before(Executed, OnWire(d))'
        <5>1. Executed \subseteq Sent
          BY DEF Sent
        <5> QED
          BY <3>1, <3>5, <3>6, <4>2, <5>1 DEF WireOrder, Before
      <4>6. ASSUME NEW d \in Connections, NEW e \in Connections, d < e
            PROVE  Before(OnWire(d), OnWire(e))'
        <5>1. CASE e = c
          <6>1. d # c /\ OnWire(d)' = OnWire(d) /\ OnWire(d) \subseteq Sent
            BY <3>5, <4>6, <5>1 DEF Sent, Connections
          <6> QED
            BY <3>5, <4>2, <4>6, <5>1, <6>1 DEF WireOrder, Before
        <5>2. CASE d = c
          <6>1. e > made /\ e # c
            BY <3>1, <4>6, <5>2 DEF Connections
          <6>2. toRobot[e] = <<>> /\ OnWire(e)' = OnWire(e)
            BY <3>5, <6>1 DEF WireAlive
          <6>3. OnWire(e) = {}
            BY <6>2 DEF OnWire, Entries
          <6> QED
            BY <6>2, <6>3 DEF Before
        <5>3. CASE d # c /\ e # c
          BY <3>5, <4>6, <5>3 DEF WireOrder, Before
        <5> QED BY <5>1, <5>2, <5>3
      <4> QED BY <3>1, <4>1, <4>3, <4>4, <4>5, <4>6 DEF WireOrder
    <3>11. WireAlive'
      <4>1. made' = made
        BY <1>6
      <4> QED
        BY <1>1, <2>2, <3>1, <3>3, <4>1 DEF WireAlive, Alive, Connections
    <3> QED BY <3>8, <3>9, <3>10, <3>11
  <2> QED BY <2>1, <2>2
<1>7. CASE send_request
  <2>1. robot.pc = "send" /\ robot'.pc = "recv"
    BY <1>7 DEF send_request, RobotAt, TInv, RobotType
  <2> QED BY <1>6, <1>7, <2>1 DEF send_request
<1>8. CASE LinkError
  <2>1. robot'.pc # "send" /\ UNCHANGED <<made, request_queue_>>
    BY <1>8 DEF LinkError, NextIteration
  <2>2. CASE toRobot' = toRobot
    BY <1>3, <2>1, <2>2
  <2>3. CASE toRobot' # toRobot
    BY <1>6, <1>8, <2>1, <2>3 DEF LinkError, SentBeforeError
  <2> QED BY <2>2, <2>3
<1> QED BY <1>4, <1>5, <1>7, <1>8 DEF RobotStep

LEMMA OrderController ==
    ASSUME OInv, TInv', Controller
    PROVE  OInv'
<1> USE DEF OInv
<1>1. UNCHANGED <<worker, robot, made, request_queue_>>
  BY DEF Controller, SocketAccept, SocketReceive, ParseError, ExecuteAction, ExecuteActionLimit,
     ClientGone, Restart, OtherThanController, workerVars, robotVars
<1>2. Issued' = Issued /\ Issued <= Issued' /\ InHand' = InHand /\ Waiting' = Waiting /\ QueueOrder'
  BY <1>1, StageTypes DEF Issued, InHand, Waiting, QueueOrder, Increasing, Entries
<1>3. CASE SocketAccept
  <2>1. UNCHANGED <<executed, toRobot>>
    BY <1>3 DEF SocketAccept
  <2>2. WireAlive'
    BY <1>1, <1>3, <2>1 DEF SocketAccept, WireAlive, Alive, TInv, ControllerType, RobotType, Connections,
       INVALID_SOCKET_FD
  <2>3. Sent' = Sent /\ WireOrder'
    BY <2>1, WireQuiet
  <2> QED BY <1>2, <2>2, <2>3, StagesShrink
<1>4. CASE ExecuteAction \/ ExecuteActionLimit
  <2>1. UNCHANGED <<executed, toRobot, accepted, client>>
    BY <1>4 DEF ExecuteAction, ExecuteActionLimit
  <2>2. WireAlive'
    BY <1>1, <2>1 DEF WireAlive, Alive
  <2>3. Sent' = Sent /\ WireOrder'
    BY <2>1, WireQuiet
  <2> QED BY <1>2, <2>2, <2>3, StagesShrink
<1>5. CASE ClientGone \/ ParseError \/ Restart
  <2>1. executed' = executed /\ \A c \in Connections : toRobot'[c] \in {toRobot[c], <<>>}
    BY <1>5 DEF ClientGone, ParseError, Restart, TInv, LinkType
  <2>2. Executed' = Executed /\ \A c \in Connections : OnWire(c)' \subseteq OnWire(c)
    BY <2>1 DEF Executed, OnWire, Entries
  <2>3. Sent' \subseteq Sent
    BY <2>2 DEF Sent
  <2>4. WireOrder'
    <3>1. \A c \in Connections : Increasing(toRobot[c])'
      BY <2>1 DEF WireOrder, Increasing
    <3> QED
      BY <2>1, <2>2, <3>1 DEF WireOrder, Before, Increasing
  <2>5. WireAlive'
    <3>1. CASE ClientGone \/ ParseError
      BY <1>1, <3>1 DEF ClientGone, ParseError, WireAlive, Alive, TInv, LinkType
    <3>2. CASE Restart
      BY <3>2 DEF Restart, WireAlive
    <3> QED BY <1>5, <3>1, <3>2
  <2> QED BY <1>2, <2>3, <2>4, <2>5, StagesShrink
<1>6. CASE SocketReceive
  <2>1. PICK c \in Connections : c = client /\ toRobot[c] \in Seq(Items) /\ toRobot[c] # <<>>
    BY <1>6 DEF SocketReceive, Receiving, TInv, ControllerType, LinkType
  <2>2. PICK n \in 0..Len(toRobot[c]) :
        /\ toRobot' \in [Connections -> Seq(Items)]
        /\ Len(toRobot'[c]) = Len(toRobot[c]) - n
        /\ \A i \in 1..(Len(toRobot[c]) - n) : toRobot'[c][i] # Rest =>
              toRobot'[c][i] = toRobot[c][i + n] /\ 1 < i + n
        /\ \A d \in Connections \ {c} : toRobot'[d] = toRobot[d]
    BY <1>6, <2>1, ReadsFacts DEF SocketReceive, TInv
  <2>3. /\ Len(toRobot[c]) \in Nat \ {0} /\ n \in Nat
        /\ \A i \in 1..Len(toRobot'[c]) : toRobot'[c][i] \in Requests =>
              i + n \in 1..Len(toRobot[c]) /\ 1 < i + n /\ toRobot'[c][i] = toRobot[c][i + n]
    <3>1. Len(toRobot[c]) \in Nat \ {0} /\ n \in Nat
      BY <2>1, HeadFacts
    <3>2. \A i \in 1..(Len(toRobot[c]) - n) : i + n \in 1..Len(toRobot[c])
      BY <3>1, ShiftIndex
    <3> QED BY <2>2, <3>1, <3>2, ConstantFacts
  <2>4. doing' = toRobot[c][1] \/ doing' = Idle
    BY <1>6, <2>1, HeadFacts DEF SocketReceive
  <2>5. \A d \in Connections : OnWire(d)' \subseteq OnWire(d)
    <3>1. OnWire(c)' \subseteq OnWire(c)
      BY <2>3 DEF OnWire, Entries
    <3> QED BY <2>2, <3>1 DEF OnWire
  <2>6. Executed' = Executed \cup ({doing'} \cap Requests)
    <3>1. executed \in Seq(Requests)
      BY DEF TInv, ControllerType
    <3>2. CASE doing' \notin Requests
      BY <1>6, <3>2 DEF SocketReceive, Executed, Entries
    <3>3. CASE doing' \in Requests
      <4>1. executed' = Append(executed, doing') /\ doing' \in Requests
        BY <1>6, <3>3 DEF SocketReceive
      <4>2. /\ Len(executed') = Len(executed) + 1
            /\ \A i \in 1..Len(executed) : executed'[i] = executed[i]
            /\ executed'[Len(executed) + 1] = doing'
        BY <3>1, <4>1, AppendFacts
      <4> QED BY <3>1, <3>3, <4>2 DEF Executed, Entries
    <3> QED BY <3>2, <3>3
  <2>7. {doing'} \cap Requests \subseteq OnWire(c)
    BY <2>3, <2>4, ConstantFacts DEF OnWire, Entries
  <2>8. Sent' \subseteq Sent
    BY <2>1, <2>5, <2>6, <2>7 DEF Sent
  <2>9. Stages'
    BY <1>2, <2>8, StagesShrink
  <2>10. WireAlive'
    <3>1. UNCHANGED <<accepted, client>>
      BY <1>6 DEF SocketReceive
    <3>2. Alive(c) /\ ~(c > made)
      BY <2>1 DEF WireAlive
    <3> QED BY <1>1, <2>1, <2>2, <3>1, <3>2 DEF WireAlive, Alive
  <2>11. \A d \in Connections : d < c => OnWire(d) = {}
    <3>1. ASSUME NEW d \in Connections, d < c PROVE ~Alive(d)
      BY <2>1, <3>1 DEF Alive, TInv, ControllerType, RobotType, Connections
    <3>2. \A d \in Connections : d < c => toRobot[d] = <<>>
      BY <3>1 DEF WireAlive
    <3> QED BY <3>2 DEF OnWire, Entries
  <2>12. \A r \in OnWire(c)' : doing' \in Requests => doing' < r
    <3> SUFFICES ASSUME NEW i \in 1..Len(toRobot'[c]), toRobot'[c][i] \in Requests,
                        doing' \in Requests
                 PROVE  doing' < toRobot'[c][i]
      BY DEF OnWire, Entries
    <3>1. i + n \in 1..Len(toRobot[c]) /\ 1 < i + n /\ 1 \in 1..Len(toRobot[c])
          /\ toRobot'[c][i] = toRobot[c][i + n]
      BY <2>3
    <3>2. doing' = toRobot[c][1]
      BY <2>4, ConstantFacts
    <3> QED BY <3>1, <3>2 DEF WireOrder, Increasing
  <2>13. ASSUME NEW d \in Connections, d # c PROVE \A r \in OnWire(d)' : doing' \in Requests => doing' < r
    <3>1. d \in Int /\ c \in Int
      BY DEF Connections
    <3>2. CASE d < c
      BY <2>5, <2>11, <3>2
    <3>3. CASE c < d
      BY <2>5, <2>7, <3>3 DEF WireOrder, Before
    <3> QED BY <2>13, <3>1, <3>2, <3>3
  <2>14. \A d \in Connections : Before(Executed, OnWire(d))'
    BY <2>5, <2>6, <2>12, <2>13 DEF WireOrder, Before
  <2>15. \A d, e \in Connections : d < e => Before(OnWire(d), OnWire(e))'
    BY <2>5 DEF WireOrder, Before
  <2>16. Increasing(executed)'
    <3>1. executed \in Seq(Requests)
      BY DEF TInv, ControllerType
    <3>2. CASE doing' \notin Requests
      BY <1>6, <3>2 DEF SocketReceive, WireOrder, Increasing
    <3>3. CASE doing' \in Requests
      <4>1. executed' = Append(executed, doing') /\ doing' \in Requests
        BY <1>6, <3>3 DEF SocketReceive
      <4>2. /\ Len(executed') = Len(executed) + 1
            /\ \A i \in 1..Len(executed) : executed'[i] = executed[i]
            /\ executed'[Len(executed) + 1] = doing'
        BY <3>1, <4>1, AppendFacts
      <4>3. \A i \in 1..Len(executed) : executed[i] < doing'
        BY <2>7, <3>3 DEF WireOrder, Before, Executed, Entries
      <4> SUFFICES ASSUME NEW i \in 1..Len(executed'), NEW j \in 1..Len(executed'), i < j,
                          executed'[i] \in Requests, executed'[j] \in Requests
                   PROVE  executed'[i] < executed'[j]
        BY DEF Increasing
      <4>4. i \in 1..Len(executed) /\ executed'[i] = executed[i]
        BY <3>1, <4>2
      <4>5. CASE j \in 1..Len(executed)
        BY <4>2, <4>4, <4>5 DEF WireOrder, Increasing
      <4>6. CASE j = Len(executed) + 1
        BY <4>2, <4>3, <4>4, <4>6
      <4> QED BY <3>1, <4>2, <4>5, <4>6
    <3> QED BY <3>2, <3>3
  <2>17. \A d \in Connections : Increasing(toRobot[d])'
    <3>1. Increasing(toRobot[c])'
      <4> SUFFICES ASSUME NEW i \in 1..Len(toRobot'[c]), NEW j \in 1..Len(toRobot'[c]), i < j,
                          toRobot'[c][i] \in Requests, toRobot'[c][j] \in Requests
                   PROVE  toRobot'[c][i] < toRobot'[c][j]
        BY DEF Increasing
      <4>1. /\ i + n \in 1..Len(toRobot[c]) /\ j + n \in 1..Len(toRobot[c])
            /\ toRobot'[c][i] = toRobot[c][i + n] /\ toRobot'[c][j] = toRobot[c][j + n]
        BY <2>3
      <4>2. i \in Int /\ j \in Int /\ n \in Int
        BY <2>2, <2>3
      <4>3. i + n < j + n
        BY <4>2
      <4> QED BY <4>1, <4>3 DEF WireOrder, Increasing
    <3>2. \A d \in Connections \ {c} : Increasing(toRobot[d])'
      BY <2>2 DEF WireOrder, Increasing
    <3> QED BY <3>1, <3>2
  <2>18. WireOrder'
    BY <2>14, <2>15, <2>16, <2>17 DEF WireOrder
  <2> QED BY <1>2, <2>9, <2>10, <2>18
<1> QED BY <1>3, <1>4, <1>5, <1>6 DEF Controller

LEMMA OrderStep == OInv /\ [Next]_vars => OInv'
<1> SUFFICES ASSUME OInv, [Next]_vars PROVE OInv'
  OBVIOUS
<1>1. TInv'
  BY TypeStep DEF OInv
<1>2. CASE UNCHANGED vars
  <2>1. Sent' = Sent /\ WireOrder'
    BY <1>2, WireQuiet DEF vars
  <2>2. InHand' = InHand /\ Waiting' = Waiting /\ Issued' = Issued /\ QueueOrder'
    BY <1>2 DEF vars, OInv, InHand, Waiting, Issued, QueueOrder, Increasing, Entries
  <2>3. WireAlive'
    BY <1>2 DEF vars, OInv, WireAlive, Alive
  <2>4. Issued <= Issued'
    BY <2>2, StageTypes DEF OInv
  <2>5. Stages'
    BY <1>1, <2>1, <2>2, <2>4, StagesShrink DEF OInv
  <2> QED BY <1>1, <2>1, <2>2, <2>3, <2>5 DEF OInv
<1> QED
  BY <1>1, <1>2, OrderWorker, OrderRobot, OrderController DEF Next, WorkerStep

LEMMA OrderImplied == OInv => ExecutedOnceInOrder
  BY ConstantFacts DEF OInv, TInv, ControllerType, WireOrder, Increasing, ExecutedOnceInOrder

\* The controller begins to execute each request at most once and never out of order,
\* whatever connections are lost and made in between (worker_loop and HandleClient).
\* What it makes of the rest of a cut request is counted as nobody's command.
THEOREM OnceInOrder == Spec => []ExecutedOnceInOrder
  BY OrderInit, OrderStep, OrderImplied, PTL DEF Spec
-----------------------------------------------------------------------------
(* Replies and promises *)

\* A promise is set once: that of a request whose turn is still to come is not.
Promised ==
    /\ \A r \in Requests : promise[r] # Unset =>
           r < Issued /\ r \notin Waiting /\ (robot.pc \in {"send", "recv"} => robot.item # r)
    /\ robot.pc = "recv" /\ robot.item # PINGR => Before({robot.item}, Waiting \cup {Issued})

\* Nothing of an earlier command is left on connection c.
Empty(c) == toRobot[c] = <<>> /\ toServer[c] = <<>> /\ (client = c => doing = Idle)

\* The command that the robot thread is at has one trace on the connection at most:
\* in transit, executed or answered.
OneTrace(c) ==
    \/ Empty(c)
    \/ toRobot[c] = <<robot.item>> /\ toServer[c] = <<>> /\ (client = c => doing = Idle)
    \/ toRobot[c] = <<>> /\ toServer[c] = <<>> /\ client = c /\ doing = robot.item
    \/ /\ toRobot[c] = <<>> /\ Len(toServer[c]) = 1 /\ toServer[c][1].of = robot.item
       /\ client = c => doing = Idle

InStep ==
    /\ \A c \in Connections : c = socket_fd_ /\ c \notin shifted =>
           OneTrace(c) /\ (robot.pc # "recv" => Empty(c))
    /\ \A c \in Connections : c > made => toServer[c] = <<>>
    /\ \A c \in Connections : \A i \in 1..Len(toServer[c]) : toServer[c][i].on = c

\* Heartbeats and rests, which are no requests.
Others == {PINGR, Rest}

\* Only what was executed is answered.
Answered ==
    /\ doing \in Executed \cup Others \cup {Idle}
    /\ \A c \in Connections : \A i \in 1..Len(toServer[c]) : toServer[c][i].of \in Executed \cup Others
    /\ \A r \in Requests : promise[r] \in Reply => promise[r].of \in Executed \cup Others

CompletedByReply == \A r \in Requests : verdict[r] = "completed" => promise[r] \in Reply

\* The command that the robot thread awaits is nowhere but on its connection.
SentHere ==
    robot.pc = "recv" /\ robot.item # PINGR =>
        /\ \A c \in Connections : c # socket_fd_ => robot.item \notin OnWire(c)
        /\ client # socket_fd_ => doing # robot.item

\* A request that got its reply is over.
RepliedIsOver ==
    \A r \in Requests : promise[r] \in Reply =>
        promise[r].on \in shifted \/ (doing # r /\ \A c \in Connections : r \notin OnWire(c))

RInv == /\ OInv /\ Promised /\ InStep /\ ReplyBelongsToRequest /\ Answered /\ CompletedByReply
        /\ SentHere /\ RepliedIsOver
LEMMA ReplyInit == Init => RInv
<1> SUFFICES ASSUME Init PROVE RInv
  OBVIOUS
<1>1. OInv /\ TInv
  BY OrderInit DEF OInv
<1>2. /\ \A r \in Requests : promise[r] = Unset /\ verdict[r] = "none"
      /\ \A c \in Connections : toRobot[c] = <<>> /\ toServer[c] = <<>>
      /\ socket_fd_ = INVALID_SOCKET_FD /\ client = INVALID_SOCKET_FD /\ doing = Idle
      /\ robot.pc = "top"
  BY DEF Init
<1>3. Promised /\ CompletedByReply /\ SentHere
  BY <1>2 DEF Promised, CompletedByReply, SentHere
<1>4. InStep
  BY <1>2, ConstantFacts DEF InStep
<1>5. ReplyBelongsToRequest
  BY <1>2 DEF ReplyBelongsToRequest
<1>6. Unset \notin Reply
  BY DEF Unset, Reply
<1>7. Answered /\ RepliedIsOver
  BY <1>2, <1>6 DEF Answered, RepliedIsOver
<1> QED BY <1>1, <1>3, <1>4, <1>5, <1>7 DEF RInv

LEMMA ReplyWorker ==
    ASSUME RInv, OInv', WorkerTask \/ queue_request \/ WorkerAwait
    PROVE  RInv'
<1> USE DEF RInv
<1>1. UNCHANGED <<robot, socket_fd_, made, promise, toRobot, toServer, client, doing, executed, shifted>>
  BY DEF WorkerTask, queue_request, WorkerAwait, OtherThanWorker, robotVars, controllerVars
<1>2. TInv
  BY DEF OInv
<1>3. Executed' = Executed /\ \A c \in Connections : OnWire(c)' = OnWire(c)
  BY <1>1 DEF Executed, OnWire, Entries
<1>4. Promised'
  <2>1. Issued \in Int /\ Waiting \subseteq Int
    BY <1>2, StageTypes, RequestsAreNumbers
  <2>2. Waiting' \subseteq Waiting \cup {Issued} /\ Issued <= Issued' /\ Issued' \in Int
    BY <1>2, <2>1, WorkerIssues, IssuedNext DEF OInv
  <2>3. \A r \in Requests : promise[r] # Unset => r < Issued' /\ r \notin Waiting'
    BY <2>1, <2>2, RequestsAreNumbers DEF Promised
  <2>4. ASSUME robot.pc = "recv", robot.item # PINGR PROVE Before({robot.item}, Waiting \cup {Issued})'
    <3>1. robot.item \in Requests /\ robot.item \in Int
      BY <1>2, <2>4, RequestsAreNumbers DEF TInv, RobotType, Commands
    <3>2. robot.item < Issued /\ \A w \in Waiting : robot.item < w
      BY <2>4 DEF Promised, Before
    <3>3. robot.item < Issued'
      BY <2>1, <2>2, <3>1, <3>2
    <3>4. \A w \in Waiting' : robot.item < w
      BY <2>2, <3>2
    <3> QED BY <1>1, <3>3, <3>4 DEF Before
  <2> QED BY <1>1, <2>3, <2>4 DEF Promised
<1>5. InStep' /\ ReplyBelongsToRequest'
  BY <1>1 DEF InStep, OneTrace, Empty, ReplyBelongsToRequest, Shifted
<1>6. Answered' /\ SentHere' /\ RepliedIsOver'
  BY <1>1, <1>3 DEF Answered, SentHere, RepliedIsOver
<1>7. CompletedByReply'
  <2>1. CASE WorkerTask \/ queue_request
    <3>1. \A r \in Requests : verdict'[r] = verdict[r] \/ verdict'[r] = "Robot disconnected"
      BY <1>2, <2>1 DEF WorkerTask, queue_request, Judge, TInv, WorkerType
    <3> QED BY <1>1, <3>1 DEF CompletedByReply
  <2>2. CASE WorkerAwait
    <3>1. worker.request \in Requests
      BY <1>2, <2>2 DEF WorkerAwait, TInv, WorkerType
    <3>2. promise[worker.request] \in Reply \cup {Unset, ERR}
      BY <1>2, <3>1 DEF TInv, PromiseType
    <3>3. promise[worker.request].kind = "ACK" => promise[worker.request] \in Reply
      BY <3>2 DEF Unset, ERR
    <3>4. PICK result \in {"completed", "Robot error", "Robot disconnected"} :
             Judge(result) /\ (result = "completed" => promise[worker.request].kind = "ACK")
      BY <2>2 DEF WorkerAwait
    <3>5. \A r \in Requests : verdict'[r] = IF r = worker.request THEN result ELSE verdict[r]
      BY <1>2, <3>1, <3>4 DEF Judge, TInv, WorkerType
    <3> QED BY <1>1, <3>3, <3>4, <3>5 DEF CompletedByReply
  <2> QED BY <2>1, <2>2
<1> QED BY <1>4, <1>5, <1>6, <1>7
\* What the robot thread is at comes before all that waits.
LEMMA ItemIsNext ==
    ASSUME RInv, robot.pc \in {"send", "recv"}, robot.item # PINGR
    PROVE  /\ robot.item \in Requests /\ promise[robot.item] = Unset
           /\ Before({robot.item}, Waiting \cup {Issued})
           /\ robot.item \notin Waiting
<1>1. TInv
  BY DEF RInv, OInv
<1>2. robot.item \in Requests
  BY <1>1 DEF TInv, RobotType, Commands
<1>3. Before({robot.item}, Waiting \cup {Issued})
  <2>1. CASE robot.pc = "send"
    <3>1. InHand = {robot.item}
      BY <1>2, <2>1 DEF InHand
    <3> QED BY <3>1 DEF RInv, OInv, Stages, Before
  <2>2. CASE robot.pc = "recv"
    BY <2>2 DEF RInv, Promised
  <2> QED BY <2>1, <2>2
<1>4. robot.item \notin Waiting
  <2>1. robot.item \in Int
    BY <1>2, RequestsAreNumbers
  <2>2. ~(robot.item < robot.item)
    BY <2>1
  <2> QED BY <1>3, <2>2 DEF Before
<1>5. promise[robot.item] = Unset
  BY <1>2 DEF RInv, Promised
<1> QED BY <1>2, <1>3, <1>4, <1>5

\* receive_buffer and LinkError: the promise of the command is set.
LEMMA PromiseSet ==
    ASSUME RInv, robot.pc \in {"send", "recv"}, NEW value \in Reply \cup {ERR}, SetPromise(value),
           NextIteration, UNCHANGED <<worker, verdict, request_queue_>>
    PROVE  /\ \A r \in Requests : promise'[r] = IF r = robot.item THEN value ELSE promise[r]
           /\ Promised' /\ CompletedByReply' /\ SentHere'
<1>1. TInv
  BY DEF RInv, OInv
<1>2. \A r \in Requests : promise'[r] = IF r = robot.item THEN value ELSE promise[r]
  BY <1>1, SetPromiseFacts DEF TInv, RobotType
<1>3. robot'.pc = "top"
  BY DEF NextIteration
<1>4. Promised'
  <2>1. Waiting' = Waiting /\ Issued' = Issued
    BY DEF Waiting, Issued, Entries
  <2>2. ASSUME NEW r \in Requests, promise'[r] # Unset PROVE r < Issued /\ r \notin Waiting
    <3>1. CASE r = robot.item
      BY <3>1, ItemIsNext, ConstantFacts DEF Before
    <3>2. CASE r # robot.item
      BY <1>2, <2>2, <3>2 DEF RInv, Promised
    <3> QED BY <3>1, <3>2
  <2> QED BY <1>3, <2>1, <2>2 DEF Promised
<1>5. CompletedByReply'
  <2>1. Unset \notin Reply
    BY DEF Unset, Reply
  <2> QED BY <1>2, <2>1, ItemIsNext, ConstantFacts DEF RInv, CompletedByReply
<1> QED BY <1>2, <1>3, <1>4, <1>5 DEF SentHere

\* A connection never gets back in step.
LEMMA MoreShifted ==
    ASSUME Connect \/ RobotStep \/ StopSession \/ Controller
    PROVE  shifted \subseteq shifted'
  BY DEF Connect, RobotStep, RobotTop,
     RobotWait, send_request, receive_buffer, ReadWhole, ReadCut, LinkError, CloseSession,
     StopSession, Controller, SocketAccept, SocketReceive, Reads, ParseError, ExecuteAction,
     ExecuteActionLimit, ClientGone, Restart, OtherThanRobot, OutOfStep, StillInStep

\* What is sent is the command that the robot thread is at.
LEMMA SentWires ==
    ASSUME TInv, robot.pc = "send", socket_fd_ # INVALID_SOCKET_FD,
           toRobot' = AfterSend(robot.item)
    PROVE  /\ \A d \in Connections : OnWire(d)' \subseteq OnWire(d) \cup {robot.item}
           /\ \A d \in Connections \ {socket_fd_} : toRobot'[d] = toRobot[d]
           /\ toRobot'[socket_fd_] \in {toRobot[socket_fd_], Append(toRobot[socket_fd_], robot.item)}
<1>1. PICK c \in Connections : c = socket_fd_ /\ toRobot[c] \in Seq(Items) /\ robot.item \in Items
  BY ConstantFacts DEF TInv, RobotType, LinkType
<1>2. /\ \A d \in Connections \ {c} : toRobot'[d] = toRobot[d]
      /\ toRobot'[c] \in {toRobot[c], Append(toRobot[c], robot.item)}
  BY <1>1 DEF AfterSend, TInv, LinkType
<1>3. Entries(toRobot'[c]) \subseteq Entries(toRobot[c]) \cup {robot.item}
  <2>1. CASE toRobot'[c] = toRobot[c]
    BY <2>1
  <2>2. CASE toRobot'[c] = Append(toRobot[c], robot.item)
    BY <1>1, <2>2, AppendFacts DEF Entries
  <2> QED BY <1>2, <2>1, <2>2
<1> QED BY <1>1, <1>2, <1>3 DEF OnWire

LEMMA ReplyRobot ==
    ASSUME RInv, OInv', RobotStep \/ Connect \/ StopSession
    PROVE  RInv'
<1> USE DEF RInv
<1>0. TInv
  BY DEF OInv
<1>1. UNCHANGED <<worker, verdict, accepted, client, doing, executed>>
      /\ (receive_buffer \/ shifted' = shifted)
  BY DEF RobotStep, RobotTop, RobotWait, send_request, receive_buffer, LinkError, CloseSession,
     Connect, StopSession, OtherThanRobot, workerVars, controllerVars
<1>2. Executed' = Executed /\ Issued' = Issued
  BY <1>1 DEF Executed, Issued, Entries
<1>3. ASSUME UNCHANGED toRobot PROVE \A c \in Connections : OnWire(c)' = OnWire(c)
  BY <1>3 DEF OnWire
<1>4. ASSUME UNCHANGED promise PROVE ReplyBelongsToRequest' /\ CompletedByReply'
  BY <1>1, <1>4, MoreShifted DEF ReplyBelongsToRequest, Shifted, CompletedByReply
<1>5. ASSUME UNCHANGED <<promise, toServer>> PROVE Answered'
  BY <1>1, <1>2, <1>5 DEF Answered
<1>6. ASSUME UNCHANGED <<promise, toRobot>> PROVE RepliedIsOver'
  BY <1>1, <1>3, <1>6, MoreShifted DEF RepliedIsOver
<1>7. CASE RobotTop \/ CloseSession \/ StopSession
  <2>1. UNCHANGED <<promise, toRobot, toServer, request_queue_, made>>
        /\ (robot' = robot \/ (robot.pc # "recv" /\ robot'.pc \notin {"send", "recv"}))
        /\ socket_fd_' \in {socket_fd_, INVALID_SOCKET_FD}
        /\ (socket_fd_' = socket_fd_ \/ robot'.pc = "joined")
    BY <1>0, <1>7 DEF RobotTop, CloseSession, StopSession, RobotAt, robotVars, TInv, RobotType
  <2>2. Promised'
    <3>1. Waiting' = Waiting
      BY <2>1 DEF Waiting, Entries
    <3> QED BY <1>2, <2>1, <3>1 DEF Promised
  <2>3. InStep'
    BY <1>1, <2>1, MoreShifted, ConstantFacts DEF InStep, OneTrace, Empty
  <2>4. SentHere'
    BY <1>1, <1>3, <2>1 DEF SentHere
  <2> QED BY <1>4, <1>5, <1>6, <2>1, <2>2, <2>3, <2>4
<1>8. CASE Connect
  <2>1. UNCHANGED <<promise, toRobot, toServer, request_queue_>> /\ robot'.pc = "wait"
        /\ socket_fd_' = made + 1 /\ made' = made + 1
    BY <1>0, <1>8 DEF Connect, RobotAt, TInv, RobotType
  <2>2. Promised'
    <3>1. Waiting' = Waiting
      BY <2>1 DEF Waiting, Entries
    <3> QED BY <1>2, <2>1, <3>1 DEF Promised
  <2>3. made \in Nat /\ client \in Int /\ client <= made
    BY <1>0 DEF TInv, RobotType, ControllerType, Connections, INVALID_SOCKET_FD
  <2>4. \A c \in Connections : c = made + 1 => Empty(c)'
    <3> SUFFICES ASSUME NEW c \in Connections, c = made + 1 PROVE Empty(c)'
      OBVIOUS
    <3>1. c > made /\ client # c
      BY <2>3
    <3> QED BY <1>1, <2>1, <3>1 DEF InStep, OInv, WireAlive, Empty
  <2>5. \A c \in Connections : c > made + 1 => c > made
    BY <2>3 DEF Connections
  <2>6. InStep'
    BY <2>1, <2>4, <2>5 DEF InStep, OneTrace
  <2>7. SentHere'
    BY <2>1 DEF SentHere
  <2> QED BY <1>4, <1>5, <1>6, <2>1, <2>2, <2>6, <2>7
<1>9. CASE RobotWait
  <2>1. UNCHANGED <<promise, toRobot, toServer, made, socket_fd_>> /\ robot.pc = "wait"
        /\ robot'.pc # "recv"
    BY <1>0, <1>9 DEF RobotWait, TInv, RobotType
  <2>2. Promised'
    <3>1. CASE running_ /\ request_queue_ # <<>>
      <4>1. request_queue_ \in Seq(Requests)
        BY <1>0 DEF TInv, QueueType
      <4>2. /\ robot'.item = request_queue_[1] /\ Len(request_queue_) \in Nat \ {0}
            /\ Len(request_queue_') = Len(request_queue_) - 1
            /\ \A i \in 1..(Len(request_queue_) - 1) : request_queue_'[i] = request_queue_[i + 1]
        BY <1>9, <3>1, <4>1, HeadFacts DEF RobotWait
      <4>3. robot'.item \in Waiting /\ Waiting' \subseteq Waiting
        BY <4>1, <4>2 DEF Waiting, Entries
      <4> QED BY <1>2, <2>1, <4>3 DEF Promised
    <3>2. CASE ~(running_ /\ request_queue_ # <<>>)
      <4>1. request_queue_' = request_queue_ /\ (robot'.pc = "exited" \/ robot'.item = PINGR)
        BY <1>0, <1>9, <3>2 DEF RobotWait, TInv, RobotType
      <4>2. Waiting' = Waiting
        BY <4>1 DEF Waiting, Entries
      <4> QED BY <1>2, <2>1, <4>1, <4>2, ConstantFacts DEF Promised
    <3> QED BY <3>1, <3>2
  <2>3. InStep'
    BY <1>1, <2>1, MoreShifted DEF InStep, OneTrace, Empty
  <2>4. SentHere'
    BY <2>1 DEF SentHere
  <2> QED BY <1>4, <1>5, <1>6, <2>1, <2>2, <2>3, <2>4
<1>10. CASE LinkError
  <2>1. UNCHANGED <<toServer, made, request_queue_>> /\ socket_fd_' = INVALID_SOCKET_FD
        /\ robot.pc \in {"send", "recv"} /\ SetPromise(ERR) /\ NextIteration
        /\ shifted' = shifted
    BY <1>10 DEF LinkError, OtherThanRobot
  <2>2. /\ \A r \in Requests : promise'[r] = IF r = robot.item THEN ERR ELSE promise[r]
        /\ Promised' /\ CompletedByReply' /\ SentHere'
    BY <1>1, <2>1, PromiseSet
  <2>3. InStep'
    BY <2>1, ConstantFacts DEF InStep
  <2>3a. \A d \in Connections : OnWire(d)' \subseteq OnWire(d) \cup {robot.item}
    <3>1. CASE toRobot' = toRobot
      BY <1>3, <3>1
    <3>2. CASE /\ robot.pc = "send" /\ socket_fd_ # INVALID_SOCKET_FD
               /\ toRobot' = AfterSend(robot.item)
      BY <1>0, <2>1, <3>2, SentWires
    <3> QED BY <1>10, <3>1, <3>2 DEF LinkError, SentBeforeError
  <2>4. ERR \notin Reply
    BY DEF ERR, Reply
  <2>5. ReplyBelongsToRequest'
    BY <2>1, <2>2 DEF ReplyBelongsToRequest, Shifted
  <2>6. Answered'
    BY <1>1, <1>2, <2>1, <2>2, <2>4 DEF Answered
  <2>7. RepliedIsOver'
    BY <1>1, <2>1, <2>2, <2>3a, <2>4 DEF RepliedIsOver
  <2> QED BY <2>2, <2>3, <2>5, <2>6, <2>7
<1>11. CASE send_request
  <2>1. PICK c \in Connections : c = socket_fd_ /\ c = made /\ toRobot[c] \in Seq(Items)
    BY <1>0, <1>11 DEF send_request, TInv, RobotType, LinkType
  <2>2. /\ UNCHANGED <<promise, toServer, made, socket_fd_, request_queue_, shifted>>
        /\ robot.pc = "send" /\ robot' = [robot EXCEPT !.pc = "recv"]
        /\ robot'.pc = "recv" /\ robot'.item = robot.item /\ robot.item \in Commands
    BY <1>0, <1>11 DEF send_request, RobotAt, TInv, RobotType, OtherThanRobot
  <2>3. /\ \A d \in Connections \ {c} : toRobot'[d] = toRobot[d]
        /\ toRobot'[c] \in {toRobot[c], Append(toRobot[c], robot.item)}
        /\ \A d \in Connections : OnWire(d)' \subseteq OnWire(d) \cup {robot.item}
    BY <1>0, <1>11, <2>1, <2>2, SentWires DEF send_request
  <2>5. Promised'
    <3>1. Waiting' = Waiting
      BY <2>2 DEF Waiting, Entries
    <3> QED BY <1>2, <2>2, <3>1, ItemIsNext DEF Promised
  <2>6. InStep'
    <3>1. c \notin shifted => OneTrace(c)'
      <4> SUFFICES ASSUME c \notin shifted PROVE OneTrace(c)'
        OBVIOUS
      <4>1. Empty(c)
        BY <2>1, <2>2 DEF InStep
      <4>2. toRobot'[c] = <<>> \/ toRobot'[c] = <<robot.item>>
        BY <2>3, <4>1 DEF Empty
      <4> QED BY <1>1, <2>2, <4>1, <4>2 DEF OneTrace, Empty
    <3> QED BY <1>1, <2>1, <2>2, <3>1 DEF InStep
  <2>7. SentHere'
    <3> SUFFICES ASSUME robot.item # PINGR
                 PROVE  /\ \A d \in Connections : d # c => robot.item \notin OnWire(d)
                        /\ doing # robot.item
      <4>1. \A d \in Connections \ {c} : OnWire(d)' = OnWire(d)
        BY <2>3 DEF OnWire
      <4> QED BY <1>1, <2>1, <2>2, <4>1 DEF SentHere
    <3>1. InHand = {robot.item} /\ robot.item \in Requests
      BY <2>2 DEF InHand, Commands
    <3>2. robot.item \notin Sent
      <4>1. robot.item \in Int
        BY <1>0, <3>1, StageTypes, RequestsAreNumbers
      <4>2. ~(robot.item < robot.item)
        BY <4>1
      <4> QED BY <3>1, <4>2 DEF OInv, Stages, Before
    <3> QED
      BY <2>2, <3>1, <3>2, ConstantFacts DEF Answered, Others, Sent
  <2>8. RepliedIsOver'
    <3>1. Unset \notin Reply
      BY DEF Unset, Reply
    <3>2. \A r \in Requests : promise[r] \in Reply => r # robot.item
      BY <2>2, <3>1, ItemIsNext, ConstantFacts
    <3> QED BY <1>1, <2>2, <2>3, <3>2 DEF RepliedIsOver
  <2> QED BY <1>4, <1>5, <2>2, <2>5, <2>6, <2>7, <2>8
<1>12. CASE receive_buffer
  <2>1. PICK c \in Connections : c = socket_fd_ /\ c = made /\ toServer[c] \in Seq(Reply)
    BY <1>0, <1>12 DEF receive_buffer, TInv, RobotType, LinkType
  <2>2. PICK n \in 0..Len(toServer[c]), value \in Reply :
           /\ toServer[c] # <<>>
           /\ SetPromise(value)
           /\ value.of = toServer[c][1].of /\ value.on = toServer[c][1].on
           /\ \A d \in Connections \ {c} : toServer'[d] = toServer[d]
           /\ toServer'[c] \in Seq(Reply)
           /\ Len(toServer'[c]) = Len(toServer[c]) - n
           /\ \A i \in 1..(Len(toServer[c]) - n) :
                 /\ toServer'[c][i].of = toServer[c][i + n].of
                 /\ toServer'[c][i].on = toServer[c][i + n].on
           /\ \/ shifted' = shifted /\ n # 0
              \/ shifted' = shifted \cup {c}
    BY <1>0, <1>12, <2>1, ReceiveFacts DEF TInv, StillInStep
  <2>3. Len(toServer[c]) \in Nat /\ 1 \in 1..Len(toServer[c])
    BY <2>1, <2>2, HeadFacts
  <2>5. /\ robot.pc = "recv" /\ NextIteration
        /\ UNCHANGED <<toRobot, made, socket_fd_, request_queue_>>
    BY <1>12 DEF receive_buffer
  <2>6. /\ \A r \in Requests : promise'[r] = IF r = robot.item THEN value ELSE promise[r]
        /\ Promised' /\ CompletedByReply' /\ SentHere'
    BY <1>1, <2>2, <2>5, PromiseSet
  <2>7. \A d \in Connections : \A i \in 1..Len(toServer'[d]) : \E k \in 1..Len(toServer[d]) :
           toServer'[d][i].of = toServer[d][k].of /\ toServer'[d][i].on = toServer[d][k].on
    <3> SUFFICES ASSUME NEW i \in 1..Len(toServer'[c])
                 PROVE  \E k \in 1..Len(toServer[c]) :
                           /\ toServer'[c][i].of = toServer[c][k].of
                           /\ toServer'[c][i].on = toServer[c][k].on
      <4> TAKE d \in Connections
      <4> TAKE i \in 1..Len(toServer'[d])
      <4>1. CASE d = c
        BY <4>1
      <4>2. CASE d # c
        <5>1. toServer'[d] = toServer[d]
          BY <2>2, <4>2
        <5> QED BY <5>1
      <4> QED BY <4>1, <4>2
    <3>1. n \in Nat
      BY <2>3
    <3>2. i \in 1..(Len(toServer[c]) - n)
      BY <2>2
    <3>3. i + n \in 1..Len(toServer[c])
      BY <2>3, <3>1, <3>2, ShiftIndex
    <3> QED BY <2>2, <3>2, <3>3
  <2>8. value.on = c
    BY <2>2, <2>3 DEF InStep
  <2>9. c \notin shifted' =>
           /\ value.of = robot.item /\ toRobot[c] = <<>> /\ Len(toServer[c]) = 1 /\ n # 0
           /\ client = c => doing = Idle
    BY <2>1, <2>2 DEF InStep, OneTrace, Empty
  <2>10. InStep'
    <3>1. c \notin shifted' => Empty(c)'
      <4> SUFFICES ASSUME c \notin shifted' PROVE Empty(c)'
        OBVIOUS
      <4>1. Len(toServer'[c]) = 0
        <5>1. Len(toServer[c]) = 1 /\ n # 0
          BY <2>9
        <5>2. n = 1
          BY <5>1
        <5> QED BY <2>2, <5>1, <5>2
      <4>2. toServer'[c] = <<>>
        BY <2>2, <4>1, EmptySeq
      <4> QED BY <1>1, <2>5, <2>9, <4>2 DEF Empty
    <3>2. robot'.pc = "top"
      BY <2>5 DEF NextIteration
    <3>3. \A d \in Connections : d > made => d # c
      BY <2>1 DEF Connections
    <3>4. \A d \in Connections : \A i \in 1..Len(toServer'[d]) : toServer'[d][i].on = d
      BY <2>7 DEF InStep
    <3>5. \A d \in Connections : d = socket_fd_' /\ d \notin shifted' => OneTrace(d)' /\ Empty(d)'
      BY <1>1, <2>1, <2>5, <3>1 DEF OneTrace
    <3>6. \A d \in Connections : d > made' => toServer'[d] = <<>>
      BY <2>2, <2>5, <3>3 DEF InStep
    <3> QED BY <3>4, <3>5, <3>6 DEF InStep
  <2>11. ReplyBelongsToRequest'
    BY <2>2, <2>6, <2>8, <2>9 DEF ReplyBelongsToRequest, Shifted
  <2>12. Answered'
    <3>1. \A d \in Connections : \A i \in 1..Len(toServer'[d]) :
             toServer'[d][i].of \in Executed \cup Others
      BY <2>7 DEF Answered
    <3>2. value.of \in Executed \cup Others
      BY <2>2, <2>3 DEF Answered
    <3> QED
      BY <1>1, <1>2, <2>6, <3>1, <3>2 DEF Answered
  <2>13. RepliedIsOver'
    <3>1. ASSUME NEW r \in Requests, r = robot.item, c \notin shifted'
          PROVE  doing # r /\ \A d \in Connections : r \notin OnWire(d)
      <4>1. OnWire(c) = {}
        BY <2>9, <3>1 DEF OnWire, Entries
      <4>2. r # PINGR /\ r # Idle
        BY ConstantFacts
      <4>3. \A d \in Connections : r \notin OnWire(d)
        BY <2>1, <2>5, <3>1, <4>1, <4>2 DEF SentHere
      <4>4. doing # r
        BY <2>1, <2>5, <2>9, <3>1, <4>2 DEF SentHere
      <4> QED BY <4>3, <4>4
    <3> QED
      BY <1>1, <1>3, <2>2, <2>5, <2>6, <2>8, <3>1 DEF RepliedIsOver
  <2> QED BY <2>6, <2>10, <2>11, <2>12, <2>13
<1> QED
  BY <1>7, <1>8, <1>9, <1>10, <1>11, <1>12 DEF RobotStep
\* ExecuteAction and ExecuteActionLimit: one reply or two to the command that ends.
LEMMA ReplySent ==
    ASSUME RInv, doing # Idle, NEW replies \in Seq(Reply), Send(replies), Len(replies) \in {1, 2},
           \A i \in 1..Len(replies) : replies[i].of = doing /\ replies[i].on = client,
           doing' = Idle, shifted' \in {shifted, shifted \cup {client}},
           Len(replies) = 1 \/ shifted' = shifted \cup {client},
           UNCHANGED <<accepted, client, executed, toRobot, OtherThanController>>
    PROVE  InStep' /\ Answered' /\ SentHere' /\ RepliedIsOver'
<1> USE DEF RInv
<1>1. TInv
  BY DEF OInv
<1>2. PICK c \in Connections : c = client /\ c <= made /\ toServer[c] \in Seq(Reply)
  <2>1. client \in Connections /\ client <= accepted /\ accepted \in 0..made
    BY <1>1 DEF TInv, ControllerType
  <2>2. client \in Int /\ made \in Int
    BY <1>1, <2>1 DEF Connections, TInv, RobotType
  <2>3. client <= made
    BY <2>1, <2>2
  <2>4. toServer[client] \in Seq(Reply)
    BY <1>1, <2>1 DEF TInv, LinkType
  <2> QED BY <2>1, <2>3, <2>4
<1>3. UNCHANGED <<robot, socket_fd_, made, promise, client, toRobot>>
  BY DEF OtherThanController, robotVars
<1>4. Executed' = Executed /\ \A d \in Connections : OnWire(d)' = OnWire(d)
  BY DEF Executed, OnWire, Entries
<1>5. /\ \A d \in Connections \ {c} : toServer'[d] = toServer[d]
      /\ toServer'[c] = IF socket_fd_ = c THEN toServer[c] \o replies ELSE toServer[c]
  BY <1>1, <1>2 DEF Send, TInv, LinkType
<1>6. ASSUME NEW i \in 1..Len(toServer'[c])
      PROVE  \/ \E j \in 1..Len(toServer[c]) : toServer'[c][i] = toServer[c][j]
             \/ \E j \in 1..Len(replies) : toServer'[c][i] = replies[j]
  <2>1. CASE socket_fd_ = c
    <3>1. /\ toServer'[c] = toServer[c] \o replies
          /\ Len(toServer'[c]) = Len(toServer[c]) + Len(replies)
          /\ toServer'[c][i] = IF i <= Len(toServer[c]) THEN toServer[c][i]
                                                        ELSE replies[i - Len(toServer[c])]
      BY <1>2, <1>5, <1>6, <2>1, ConcatFacts
    <3>2. Len(toServer[c]) \in Nat /\ Len(replies) \in Nat
      BY <1>2
    <3>3. i \in 1..Len(toServer[c]) \/ i - Len(toServer[c]) \in 1..Len(replies)
      BY <1>6, <3>1, <3>2
    <3> QED BY <3>1, <3>2, <3>3
  <2>2. CASE socket_fd_ # c
    BY <1>5, <1>6, <2>2
  <2> QED BY <2>1, <2>2
<1>7. InStep'
  <2>1. ASSUME NEW d \in Connections, d = socket_fd_, d \notin shifted'
        PROVE  OneTrace(d)' /\ (robot.pc # "recv" => Empty(d)')
    <3>1. OneTrace(d) /\ (robot.pc # "recv" => Empty(d))
      BY <2>1 DEF InStep
    <3>2. CASE d = c
      <4>1. robot.pc = "recv" /\ toRobot[d] = <<>> /\ toServer[d] = <<>> /\ doing = robot.item
        BY <1>2, <3>1, <3>2 DEF OneTrace, Empty
      <4>2. Len(replies) = 1
        BY <1>2, <2>1, <3>2
      <4>3. toServer'[d] = replies
        BY <1>2, <1>5, <2>1, <3>2, <4>1
      <4>4. replies[1].of = doing
        BY <4>2
      <4> QED BY <1>3, <4>1, <4>2, <4>3, <4>4 DEF OneTrace
    <3>3. CASE d # c
      BY <1>2, <1>3, <1>5, <3>1, <3>3 DEF OneTrace, Empty
    <3> QED BY <3>2, <3>3
  <2>2. \A d \in Connections : d > made => toServer'[d] = <<>>
    <3>1. \A d \in Connections : d > made => d # c
      BY <1>1, <1>2 DEF Connections, TInv, RobotType
    <3> QED BY <1>5, <3>1 DEF InStep
  <2>3. \A d \in Connections : \A i \in 1..Len(toServer'[d]) : toServer'[d][i].on = d
    <3>1. ASSUME NEW i \in 1..Len(toServer'[c]) PROVE toServer'[c][i].on = c
      <4>1. \A j \in 1..Len(toServer[c]) : toServer[c][j].on = c
        BY DEF InStep
      <4>2. \A j \in 1..Len(replies) : replies[j].on = c
        BY <1>2
      <4>3. CASE \E j \in 1..Len(toServer[c]) : toServer'[c][i] = toServer[c][j]
        BY <4>1, <4>3
      <4>4. CASE \E j \in 1..Len(replies) : toServer'[c][i] = replies[j]
        BY <4>2, <4>4
      <4> QED BY <1>6, <4>3, <4>4
    <3> QED BY <1>5, <3>1 DEF InStep
  <2> QED BY <1>3, <2>1, <2>2, <2>3 DEF InStep
<1>8. Answered'
  <2>1. doing \in Executed \cup Others
    BY DEF Answered
  <2>2. ASSUME NEW i \in 1..Len(toServer'[c]) PROVE toServer'[c][i].of \in Executed \cup Others
    <3>1. CASE \E j \in 1..Len(toServer[c]) : toServer'[c][i] = toServer[c][j]
      BY <3>1 DEF Answered
    <3>2. CASE \E j \in 1..Len(replies) : toServer'[c][i] = replies[j]
      BY <2>1, <3>2
    <3> QED BY <1>6, <2>2, <3>1, <3>2
  <2>3. \A d \in Connections \ {c} : \A i \in 1..Len(toServer'[d]) :
           toServer'[d][i].of \in Executed \cup Others
    BY <1>5 DEF Answered
  <2> QED BY <1>3, <1>4, <2>2, <2>3 DEF Answered
<1>9. SentHere' /\ RepliedIsOver'
  <2>1. \A r \in Requests : r # Idle
    BY ConstantFacts
  <2>2. RepliedIsOver'
    BY <1>3, <1>4, <2>1 DEF RepliedIsOver
  <2>3. SentHere'
    <3> SUFFICES ASSUME robot.pc = "recv", robot.item # PINGR
                 PROVE  /\ \A d \in Connections : d # socket_fd_ => robot.item \notin OnWire(d)
                        /\ robot.item # Idle
      BY <1>3, <1>4 DEF SentHere
    <3>1. robot.item # Idle
      BY <1>1, ConstantFacts DEF TInv, RobotType
    <3> QED BY <3>1 DEF SentHere
  <2> QED BY <2>2, <2>3
<1> QED BY <1>7, <1>8, <1>9

LEMMA ReplyController ==
    ASSUME RInv, OInv', Controller
    PROVE  RInv'
<1> USE DEF RInv
<1>0. TInv
  BY DEF OInv
<1>1. UNCHANGED OtherThanController
  BY DEF Controller, SocketAccept, SocketReceive, ParseError, ExecuteAction, ExecuteActionLimit,
     ClientGone, Restart
<1>2. UNCHANGED <<worker, verdict, robot, socket_fd_, made, request_queue_, promise>>
  BY <1>1 DEF OtherThanController, workerVars, robotVars
<1>3. shifted \subseteq shifted'
  BY MoreShifted
<1>4. Promised' /\ CompletedByReply'
  <2>1. Waiting' = Waiting /\ Issued' = Issued
    BY <1>2 DEF Waiting, Issued, Entries
  <2> QED BY <1>2, <2>1 DEF Promised, CompletedByReply
<1>5. ReplyBelongsToRequest'
  BY <1>2, <1>3 DEF ReplyBelongsToRequest, Shifted
<1>6. SUFFICES InStep' /\ Answered' /\ SentHere' /\ RepliedIsOver'
  BY <1>4, <1>5
<1>7. Idle # PINGR /\ INVALID_SOCKET_FD \notin Connections
      /\ (robot.pc = "recv" => robot.item # Idle) /\ \A r \in Requests : r # Idle
  BY <1>0, ConstantFacts DEF TInv, RobotType
<1>8. CASE SocketAccept
  <2>1. UNCHANGED <<doing, executed, shifted, toRobot, toServer>> /\ client = INVALID_SOCKET_FD
        /\ doing = Idle
    BY <1>0, <1>8 DEF SocketAccept, TInv, ControllerType
  <2>2. Executed' = Executed /\ \A d \in Connections : OnWire(d)' = OnWire(d)
    BY <2>1 DEF Executed, OnWire
  <2>3. InStep'
    BY <1>2, <1>7, <2>1 DEF InStep, OneTrace, Empty
  <2>4. Answered' /\ RepliedIsOver'
    BY <1>2, <2>1, <2>2 DEF Answered, RepliedIsOver
  <2>5. SentHere'
    BY <1>2, <1>7, <2>1, <2>2 DEF SentHere
  <2> QED BY <2>3, <2>4, <2>5
<1>9. CASE ClientGone \/ ParseError \/ Restart
  <2>1. UNCHANGED <<executed, toServer>> /\ client' = INVALID_SOCKET_FD /\ doing' = Idle
    BY <1>9 DEF ClientGone, ParseError, Receiving, Restart
  <2>2. \A d \in Connections : toRobot'[d] \in {toRobot[d], <<>>}
    BY <1>0, <1>9 DEF ClientGone, ParseError, Restart, TInv, LinkType
  <2>3. Executed' = Executed /\ \A d \in Connections : OnWire(d)' \subseteq OnWire(d)
    BY <2>1, <2>2 DEF Executed, OnWire, Entries
  <2>4. InStep'
    <3>1. ASSUME NEW d \in Connections, d = socket_fd_, d \notin shifted'
          PROVE  OneTrace(d)' /\ (robot.pc # "recv" => Empty(d)')
      <4>1. OneTrace(d) /\ (robot.pc # "recv" => Empty(d))
        BY <1>3, <3>1 DEF InStep
      <4>2. CASE toRobot'[d] = <<>>
        BY <1>2, <1>7, <2>1, <4>1, <4>2 DEF OneTrace, Empty
      <4>3. CASE toRobot'[d] = toRobot[d] /\ toRobot[d] # <<>>
        BY <1>2, <1>7, <2>1, <4>1, <4>3 DEF OneTrace, Empty
      <4> QED BY <2>2, <4>2, <4>3
    <3> QED BY <1>2, <2>1, <3>1 DEF InStep
  <2>5. Answered' /\ RepliedIsOver'
    BY <1>2, <1>3, <1>7, <2>1, <2>3 DEF Answered, RepliedIsOver
  <2>6. SentHere'
    BY <1>2, <1>7, <2>1, <2>3 DEF SentHere
  <2> QED BY <2>4, <2>5, <2>6
<1>10. CASE ExecuteAction
  <2>1. PICK kind \in {"ACK", "NACK"} : Send(<<ReplyWith(kind)>>)
    BY <1>10 DEF ExecuteAction
  <2>2. doing # Idle
    BY <1>10 DEF ExecuteAction
  <2>3. ReplyWith(kind) \in Reply /\ ReplyWith(kind).of = doing /\ ReplyWith(kind).on = client
    BY <1>0, <2>2 DEF ReplyWith, Reply, TInv, ControllerType
  <2> DEFINE replies == <<ReplyWith(kind)>>
  <2>4. replies \in Seq(Reply) /\ Len(replies) = 1 /\ replies[1] = ReplyWith(kind)
    BY <2>3
  <2>5. doing' = Idle /\ shifted' = shifted
        /\ UNCHANGED <<accepted, client, executed, toRobot, OtherThanController>>
    BY <1>10 DEF ExecuteAction
  <2>6. \A i \in 1..Len(replies) : replies[i].of = doing /\ replies[i].on = client
    BY <2>3, <2>4
  <2> HIDE DEF replies
  <2> QED BY <2>1, <2>2, <2>4, <2>5, <2>6, ReplySent DEF replies
<1>11. CASE ExecuteActionLimit
  <2>1. doing # Idle /\ Send(<<ReplyWith("NACK"), ReplyWith("NACK")>>)
    BY <1>11 DEF ExecuteActionLimit
  <2>2. ReplyWith("NACK") \in Reply /\ ReplyWith("NACK").of = doing /\ ReplyWith("NACK").on = client
    BY <1>0, <2>1 DEF ReplyWith, Reply, TInv, ControllerType
  <2> DEFINE replies == <<ReplyWith("NACK"), ReplyWith("NACK")>>
  <2>3. replies \in Seq(Reply) /\ Len(replies) = 2
        /\ replies[1] = ReplyWith("NACK") /\ replies[2] = ReplyWith("NACK")
    BY <2>2
  <2>4. doing' = Idle /\ shifted' = shifted \cup {client}
        /\ UNCHANGED <<accepted, client, executed, toRobot, OtherThanController>>
    BY <1>11 DEF ExecuteActionLimit, OutOfStep
  <2>5. \A i \in 1..Len(replies) : replies[i].of = doing /\ replies[i].on = client
    BY <2>2, <2>3
  <2> HIDE DEF replies
  <2> QED BY <2>1, <2>3, <2>4, <2>5, ReplySent DEF replies
<1>12. CASE SocketReceive
  <2>1. PICK c \in Connections : c = client /\ toRobot[c] \in Seq(Items) /\ toRobot[c] # <<>>
    BY <1>0, <1>12 DEF SocketReceive, Receiving, TInv, ControllerType, LinkType
  <2>2. PICK n \in 0..Len(toRobot[c]) :
        /\ toRobot' \in [Connections -> Seq(Items)]
        /\ Len(toRobot'[c]) = Len(toRobot[c]) - n
        /\ \A i \in 1..(Len(toRobot[c]) - n) : toRobot'[c][i] # Rest =>
              toRobot'[c][i] = toRobot[c][i + n] /\ 1 < i + n
        /\ \A d \in Connections \ {c} : toRobot'[d] = toRobot[d]
        /\ \/ shifted' = shifted /\ n # 0
           \/ shifted' = shifted \cup {c}
    BY <1>0, <1>12, <2>1, ReadsFacts DEF SocketReceive, TInv, StillInStep
  <2>3. /\ Len(toRobot[c]) \in Nat \ {0} /\ n \in Nat
        /\ \A i \in 1..Len(toRobot'[c]) : toRobot'[c][i] \in Requests =>
              i + n \in 1..Len(toRobot[c]) /\ toRobot'[c][i] = toRobot[c][i + n]
    <3>1. Len(toRobot[c]) \in Nat \ {0} /\ n \in Nat
      BY <2>1, HeadFacts
    <3>2. \A i \in 1..(Len(toRobot[c]) - n) : i + n \in 1..Len(toRobot[c])
      BY <3>1, ShiftIndex
    <3> QED BY <2>2, <3>1, <3>2, ConstantFacts
  <2>4. /\ doing' = toRobot[c][1] \/ (doing' = Idle /\ Fragment)
        /\ toRobot[c][1] \in Items
        /\ UNCHANGED <<client, toServer>> /\ doing = Idle
        /\ executed' = IF doing' \in Requests THEN Append(executed, doing') ELSE executed
    BY <1>12, <2>1, HeadFacts DEF SocketReceive, Receiving
  <2>5. \A d \in Connections : OnWire(d)' \subseteq OnWire(d)
    <3>1. OnWire(c)' \subseteq OnWire(c)
      BY <2>3 DEF OnWire, Entries
    <3> QED BY <2>2, <3>1 DEF OnWire
  <2>6. Executed \subseteq Executed' /\ doing' \in Executed' \cup Others \cup {Idle}
    <3>1. CASE doing' \notin Requests
      BY <2>4, <3>1, ConstantFacts DEF Executed, Entries, Others
    <3>2. CASE doing' \in Requests
      <4>1. executed \in Seq(Requests)
        BY <1>0 DEF TInv, ControllerType
      <4> QED BY <2>4, <3>2, <4>1, AppendFacts DEF Executed, Entries
    <3> QED BY <3>1, <3>2
  <2>7. doing' \in Requests => doing' \in OnWire(c)
    BY <2>3, <2>4, ConstantFacts DEF OnWire, Entries
  <2>8. InStep'
    <3>1. ASSUME NEW d \in Connections, d = socket_fd_, d \notin shifted'
          PROVE  OneTrace(d)' /\ (robot.pc # "recv" => Empty(d)')
      <4>1. OneTrace(d) /\ (robot.pc # "recv" => Empty(d))
        BY <1>3, <3>1 DEF InStep
      <4>2. CASE d = c
        <5>1. robot.pc = "recv" /\ toRobot[c] = <<robot.item>> /\ toServer[c] = <<>>
          BY <2>1, <4>1, <4>2 DEF OneTrace, Empty
        <5>2. Len(toRobot[c]) = 1 /\ toRobot[c][1] = robot.item /\ n # 0
          BY <2>2, <3>1, <4>2, <5>1
        <5>3. n = 1
          BY <5>2
        <5>4. Len(toRobot'[c]) = 0
          BY <2>2, <5>2, <5>3
        <5>5. toRobot'[c] = <<>>
          BY <2>2, <5>4, EmptySeq
        <5>6. ~Fragment
          <6>1. robot.item # Rest
            BY <1>0, ConstantFacts, <5>1, <2>1, <5>2 DEF TInv, RobotType
          <6>2. Head(toRobot[c]) = robot.item
            BY <2>1, <5>2, HeadFacts
          <6> QED BY <2>1, <5>2, <5>4, <6>1, <6>2 DEF Fragment
        <5> QED BY <1>2, <2>1, <2>4, <4>2, <5>1, <5>2, <5>5, <5>6 DEF OneTrace
      <4>3. CASE d # c
        BY <1>2, <2>1, <2>2, <2>4, <4>1, <4>3 DEF OneTrace, Empty
      <4> QED BY <4>2, <4>3
    <3> QED BY <1>2, <2>4, <3>1 DEF InStep
  <2>9. Answered'
    BY <1>2, <2>4, <2>6 DEF Answered
  <2>10. SentHere'
    <3>1. robot.pc = "recv" /\ robot.item # PINGR => robot.item \in Requests
      BY <1>0 DEF TInv, RobotType, Commands
    <3> QED BY <1>2, <2>1, <2>4, <2>5, <2>7, <3>1 DEF SentHere
  <2>11. RepliedIsOver'
    BY <1>2, <1>3, <2>1, <2>5, <2>7 DEF RepliedIsOver
  <2> QED BY <2>8, <2>9, <2>10, <2>11
<1> QED BY <1>8, <1>9, <1>10, <1>11, <1>12 DEF Controller

LEMMA ReplyStep == RInv /\ [Next]_vars => RInv'
<1> SUFFICES ASSUME RInv, [Next]_vars PROVE RInv'
  OBVIOUS
<1>1. OInv'
  BY OrderStep DEF RInv
<1>2. CASE UNCHANGED vars
  <2>1. Waiting' = Waiting /\ Issued' = Issued /\ Executed' = Executed
        /\ \A c \in Connections : OnWire(c)' = OnWire(c)
    BY <1>2 DEF vars, Waiting, Issued, Executed, OnWire, Entries
  <2>2. Promised' /\ CompletedByReply' /\ ReplyBelongsToRequest'
    BY <1>2, <2>1 DEF vars, RInv, Promised, CompletedByReply, ReplyBelongsToRequest,
       Shifted
  <2>3. InStep'
    BY <1>2 DEF vars, RInv, InStep, OneTrace, Empty
  <2>4. Answered' /\ SentHere' /\ RepliedIsOver'
    BY <1>2, <2>1 DEF vars, RInv, Answered, SentHere, RepliedIsOver
  <2> QED BY <1>1, <2>2, <2>3, <2>4 DEF RInv
<1> QED
  BY <1>1, <1>2, ReplyWorker, ReplyRobot, ReplyController DEF Next, WorkerStep

LEMMA ReplyImplied == RInv => ReplyBelongsToRequest /\ CompletedWasExecuted /\ CompletedIsOver
<1> SUFFICES ASSUME RInv
             PROVE  ReplyBelongsToRequest /\ CompletedWasExecuted /\ CompletedIsOver
  OBVIOUS
<1> USE DEF RInv
<1>1. ASSUME NEW r \in Requests, verdict[r] = "completed"
      PROVE  /\ promise[r] \in Reply
             /\ promise[r].of = r \/ promise[r].on \in shifted
             /\ promise[r].of \in Executed \cup Others
             /\ promise[r].on \in shifted \/ (doing # r /\ \A c \in Connections : r \notin OnWire(c))
  <2>1. promise[r] \in Reply
    BY <1>1 DEF CompletedByReply
  <2>2. promise[r] \notin {Unset, ERR}
    BY <2>1 DEF Reply, Unset, ERR
  <2> QED
    BY <2>1, <2>2 DEF ReplyBelongsToRequest, Shifted, Answered, RepliedIsOver
<1>2. CompletedWasExecuted
  BY <1>1, ConstantFacts DEF CompletedWasExecuted, Shifted, Executed, Entries, Others
<1>3. CompletedIsOver
  <2>1. ASSUME NEW r \in Requests, NEW c \in Connections, r \notin OnWire(c)
        PROVE  r \notin {toRobot[c][i] : i \in DOMAIN toRobot[c]}
    <3>1. toRobot[c] \in Seq(Items)
      BY DEF OInv, TInv, LinkType
    <3> QED BY <2>1, <3>1, ConstantFacts DEF OnWire, Entries
  <2> QED BY <1>1, <2>1 DEF CompletedIsOver, Shifted
<1> QED BY <1>2, <1>3

\* A request is resolved by the reply to it unless a command of the connection was
\* answered twice, or a recv or a SocketReceive of it got a part of a message (one
\* recv per command in worker_loop).
THEOREM OwnReply == Spec => []ReplyBelongsToRequest
  BY ReplyInit, ReplyStep, ReplyImplied, PTL DEF Spec

\* completeTask is called only for a request that the robot has begun to execute, or
\* for a reply on a connection that got out of step before (robot_worker_loop_).
THEOREM NothingMadeUp == Spec => []CompletedWasExecuted
  BY ReplyInit, ReplyStep, ReplyImplied, PTL DEF Spec

\* A task reported as completed is not executed any more, nor will be, on a
\* connection in step: robot_worker_loop_ goes on to the next one.
THEOREM NothingLeftBehind == Spec => []CompletedIsOver
  BY ReplyInit, ReplyStep, ReplyImplied, PTL DEF Spec
=============================================================================
