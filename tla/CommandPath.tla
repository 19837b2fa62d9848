----------------------------- MODULE CommandPath -----------------------------
(***************************************************************************)
(* What becomes of a robot command: from the client's request through       *)
(* create_rapid_request and the connection, which may deliver it in pieces, *)
(* to parse_message, ExecuteAction and the motion of the robot; and what    *)
(* the replies say of the controller's speed, its zone and the robot's      *)
(* position.                                                                *)
(*                                                                          *)
(* The connection slips when a command is answered twice, or a reply or a   *)
(* request arrives in two pieces.  Its replies may then belong to other     *)
(* commands than the client takes them for.  Neither side can see it: the   *)
(* middleware goes on to send commands, the controller to answer them, and  *)
(* the client to believe the answers, until the connection is lost.         *)
(*                                                                          *)
(* Module RobotLink says which request is resolved by which reply and what  *)
(* the threads make of failures.  Positions are numbers: one coordinate     *)
(* stands for them all.                                                     *)
(***************************************************************************)
EXTENDS Codec

CONSTANTS
    Places,        \* the positions and joint values that clients ask for
    Offsets,       \* and those of the offset commands
    Speeds,        \* in halves of mm/s
    ProtoZones,    \* zones of the protocol, one unknown to Decoder among them
    MaxRobSpeed,   \* of the controller, mm/s
    CornerMin, CornerMax,   \* the workspace, as set in MainModule
    ZeroPlace,     \* where the robot is when all joints are 0
    Cuts,          \* the bytes of a request that may be sent alone or arrive late
    ReplyCuts,     \* where a status report may be cut
    MaxSlips,      \* bound on how often one connection slips
    ZoneNumber,    \* the numbers of protocol::Zone, which is not in the repository
    None           \* no command

ASSUME PlacesAssumption == Places \subseteq Int /\ Offsets \subseteq Int /\ ZeroPlace \in Int
ASSUME SpeedsAssumption == Speeds \subseteq Int /\ MaxRobSpeed \in Int /\ 100 <= MaxRobSpeed
ASSUME WorkspaceAssumption == CornerMin \in Int /\ CornerMax \in Int
ASSUME CutsAssumption == Cuts \subseteq 1..(RequestSize - 1)
ASSUME ReplyCutsAssumption == ReplyCuts \subseteq 1..(StatusSize - 1)
ASSUME MaxSlipsAssumption == MaxSlips \in Nat
ASSUME ZoneNumberAssumption == ZoneNumber \in [Zones -> Int]

VARIABLES
    pc,          \* of the middleware: no command, in recv, or without connection
    asked,       \* the client's request
    toRobot,     \* in transit to the controller: requests, parts and rests of them
    client_connected,   \* HandleClient serves the connection
    doing,       \* the command that ExecuteAction is at
    replies,     \* in transit to the middleware
    move_speed, move_zone,
    at,          \* the position of the robot
    goal,        \* where the last motion ends,
    motion,      \* and whether it was given as a position or as joint values
    slips,       \* history: how often this connection has slipped
    known        \* history: what the replies say, those on a slipped connection aside

serverVars == <<pc, asked>>
connectionVars == <<toRobot, client_connected, slips>>
robotVars == <<at, goal, motion>>
vars == <<serverVars, connectionVars, doing, replies, move_speed, move_zone, robotVars, known>>

NothingKnown == [speed |-> {}, zone |-> {}, goal |-> {}, at |-> {}, report |-> {}]

Init ==
    /\ pc = "idle" /\ asked = None
    /\ toRobot = <<>> /\ client_connected = TRUE /\ slips = 0
    /\ doing = None /\ replies = <<>>
    /\ move_speed = 100 /\ move_zone = "fine"   \* v100, as MainModule declares them
    /\ at = ZeroPlace /\ goal = ZeroPlace /\ motion = "joints"
    /\ known = NothingKnown

\* The replies of the connection may not answer its commands one by one any more.
Slip == slips < MaxSlips /\ slips' = slips + 1

\* What is read of a stream: the first n items, the rest stays there.
Without(n, stream) == SubSeq(stream, n + 1, Len(stream))

-----------------------------------------------------------------------------
(* The middleware: Decoder, create_rapid_request, send and recv *)

Cartesian == {"MOVEL", "MOVEJ", "MOVEC"}
ByOffset == {"MOVEL_OFFS", "MOVEJ_OFFS"}
Motions == Cartesian \cup ByOffset \cup {"MOVEABSJ", "ZERO"}

\* DecodedRequest.  Optional members are sets of one value or none.
Plain == [cmd |-> "PINGR", target |-> {}, extra_target |-> {}, joint_target |-> {}, speed |-> 0,
          zone |-> "FINE"]

\* The complete requests and, of each command, the one without arguments.  The
\* heartbeats of the robot thread are PINGR too.
Requests ==
    {[Plain EXCEPT !.cmd = c] : c \in DOMAIN proto_cmd_enum2rapid_cmd_enum \ {"SETZONE"}}
    \cup [cmd : {"MOVEL", "MOVEJ"}, target : {{p} : p \in Places}, extra_target : {{}},
          joint_target : {{}}, speed : {0}, zone : {"FINE"}]
    \cup [cmd : {"MOVEC"}, target : {{p} : p \in Places}, extra_target : {{p} : p \in Places} \cup {{}},
          joint_target : {{}}, speed : {0}, zone : {"FINE"}]
    \cup [cmd : ByOffset, target : {{d} : d \in Offsets}, extra_target : {{}},
          joint_target : {{}}, speed : {0}, zone : {"FINE"}]
    \cup {[Plain EXCEPT !.cmd = "MOVEABSJ", !.joint_target = {p}] : p \in Places}
    \cup {[Plain EXCEPT !.cmd = "SETSPEED", !.speed = s] : s \in Speeds}
    \cup {[Plain EXCEPT !.cmd = "SETZONE", !.zone = z] : z \in ProtoZones}

\* create_rapid_request throws: the client gets an error, nothing is sent.
Throws(req) ==
    \/ req.cmd \in Cartesian \cup ByOffset /\ req.target = {}
    \/ req.cmd = "MOVEC" /\ req.extra_target = {}
    \/ req.cmd = "MOVEABSJ" /\ req.joint_target = {}

\* The members that the command does not use are zero.
create_rapid_request(req, speed) ==
    [command_id   |-> RapidCommandType[proto_cmd_enum2rapid_cmd_enum[req.cmd]],
     zone         |-> IF req.cmd = "SETZONE" THEN proto_zone_enum2rapid_zone_enum(req.zone) ELSE 0,
     speed        |-> IF req.cmd = "SETSPEED" THEN speed ELSE 0,
     target       |-> IF req.cmd \in Cartesian \cup ByOffset THEN req.target ELSE {0},
     extra_target |-> IF req.cmd = "MOVEC" THEN req.extra_target ELSE {0},
     joint_target |-> IF req.cmd = "MOVEABSJ" THEN req.joint_target ELSE {0}]

\* The values that its members can have: bytes, 16 bits for the speed, and floats.
RapidRequests ==
    [command_id : 0..17, zone : 0..6, speed : 0..UINT16_MAX,
     target : SUBSET Int, extra_target : SUBSET Int, joint_target : SUBSET Int]

\* In transit: n bytes from the first on of a client's request, or the n last ones.
Part(req, msg, n) == [of |-> req, msg |-> msg, bytes |-> n]
Rest(n) == Part(None, None, n)

OtherThanServer == <<client_connected, doing, move_speed, move_zone, robotVars>>

\* What is known when a command may have been executed, or may yet be, or not.
Doubted(cmd) ==
    [speed  |-> IF cmd = "SETSPEED" THEN {} ELSE known.speed,
     zone   |-> IF cmd = "SETZONE" THEN {} ELSE known.zone,
     goal   |-> IF cmd \in Motions THEN {} ELSE known.goal,
     at     |-> IF cmd \in Motions THEN {} ELSE known.at,
     report |-> {}]

Known == IF pc = "recv" THEN Doubted(asked.cmd) ELSE known

\* A client's command is encoded and handed to the connection, the whole of it
\* unless send fails half-way, and whatever is left there of earlier commands.
\* What is sent to a controller that has left the connection is lost.
send_request ==
    /\ pc = "idle"
    /\ \E req \in Requests, sent \in Cuts \cup {0, RequestSize} : \E speed \in uint16(req.speed) :
          /\ ~Throws(req) /\ asked' = req
          /\ toRobot' = IF client_connected /\ sent # 0
                        THEN Append(toRobot, Part(req, create_rapid_request(req, speed), sent))
                        ELSE toRobot
          /\ IF sent = RequestSize
             THEN pc' = "recv" /\ known' = [known EXCEPT !.report = {}] /\ UNCHANGED replies
             ELSE pc' = "down" /\ known' = Doubted(req.cmd) /\ replies' = <<>>
    /\ UNCHANGED <<OtherThanServer, slips>>

\* Where the client's motion ends.
GoalAsked ==
    CASE asked.cmd \in Cartesian  -> asked.target
      [] asked.cmd = "MOVEABSJ"   -> asked.joint_target
      [] asked.cmd = "ZERO"       -> {ZeroPlace}
      [] asked.cmd \in ByOffset   -> {p + d : p \in known.at, d \in asked.target}
      [] OTHER                    -> {}

\* After the acknowledgement of a motion the robot is at its end if that is a stop
\* point, and else on its way there.
PlaceAsked == IF known.zone = {"FINE"} THEN GoalAsked ELSE {}

\* The values of a report that commands change.
Speed == Field("current_speed", "", 4)
Zone == Field("current_zone", "", 4)
X == Field("current_target", "x", 4)

\* The zone that the number in a report is cast to, if it is one.
ZoneReported(number) == {z \in Zones : ZoneNumber[z] = number}

\* unpack_robot_status, of the first n bytes: the fields with the values that were
\* packed in their places.  One that lies behind them reads as nothing here.
unpack_robot_status(values, n) ==
    IF n < StatusMinimum THEN {}
    ELSE {[f \in DOMAIN values |->
              LET read == {values[g] : g \in ReadFrom(f, n) \cap DOMAIN values}
              IN  IF f = Zone THEN UNION {ZoneReported(number) : number \in read} ELSE read]}

\* What follows from the reply to the command, of which n bytes have been received.
Learn(reply, n) ==
    CASE asked.cmd = "SETSPEED" /\ reply.kind = "ACK" -> [known EXCEPT !.speed = {asked.speed}]
      [] asked.cmd = "SETZONE" /\ reply.kind = "ACK"  -> [known EXCEPT !.zone = {asked.zone}]
      [] asked.cmd \in Motions /\ reply.kind = "ACK"  ->
            [known EXCEPT !.goal = GoalAsked, !.at = PlaceAsked]
      [] asked.cmd \in Motions /\ reply.kind # "ACK"  -> [known EXCEPT !.goal = {}, !.at = {}]
      [] asked.cmd = "GETSTATUS" /\ reply.kind = "report" ->
            [known EXCEPT !.report = unpack_robot_status(reply.values, n)]
      [] OTHER -> known

\* The reply is taken for the one to the client's command, which it is if the
\* connection has not slipped before and the controller is still there.
Conclude(reply, n) ==
    known' = IF slips = 0 /\ client_connected THEN Learn(reply, n) ELSE Doubted(asked.cmd)

\* What is left of a reply that was cut; also its beginning, when that is too short
\* to tell what it was.  Both count as success.
Fragment == [kind |-> "fragment"]

\* One recv returns what has arrived: whole replies, of which the middleware looks at
\* the beginning of the first only, and perhaps a part of one more.
receive_buffer ==
    /\ pc = "recv" /\ replies # <<>>
    /\ \/ /\ \E n \in 1..Len(replies) : replies' = Without(n, replies)
          /\ Conclude(Head(replies), StatusSize)
          /\ UNCHANGED slips
       \/ /\ \E n \in 0..(Len(replies) - 1) :
                /\ replies' = [Without(n, replies) EXCEPT ![1] = Fragment]
                /\ \/ \E bytes \in IF n = 0 THEN ReplyCuts ELSE {StatusSize} :
                         Conclude(Head(replies), bytes)
                   \/ known' = Doubted(asked.cmd)
          /\ Slip
    /\ pc' = "idle" /\ asked' = None
    /\ UNCHANGED <<OtherThanServer, toRobot>>

\* No reply in time, or the connection is found broken.  The command may yet be
\* executed.
LinkError ==
    /\ pc = "recv" /\ pc' = "down"
    /\ replies' = <<>>
    /\ known' = Known
    /\ UNCHANGED <<OtherThanServer, asked, toRobot, slips>>

\* The controller takes a new connection once it has left the former one, and what
\* is sent there before waits until then.
attempt_connection ==
    /\ pc = "down" /\ ~client_connected
    /\ pc' = "idle" /\ asked' = None
    /\ client_connected' = TRUE /\ slips' = 0
    /\ UNCHANGED <<toRobot, doing, replies, move_speed, move_zone, robotVars, known>>

-----------------------------------------------------------------------------
(* The controller: HandleClient and parse_message *)

\* A call of ExecuteAction, parsed from a client's request, or (None) from what is
\* left of one.
Call(req, cmd, target, extra, joint, speed, zone) ==
    [of |-> req, cmd |-> cmd, target |-> target, extra |-> extra, joint |-> joint,
     speed |-> speed, zone |-> zone, moving |-> FALSE]

\* The calls that there are; command_to_string has one answer for all numbers that
\* are no command's.
Calls ==
    [of : Requests \cup {None}, cmd : {command_to_string(id) : id \in 0..18},
     target : SUBSET Int, extra : SUBSET Int, joint : SUBSET Int, speed : SUBSET (0..UINT16_MAX),
     zone : SUBSET (0..6), moving : BOOLEAN]

\* parse_message of a request; a member that is not where it is unpacked from is
\* missing.
parse_message(part) ==
    LET msg == part.msg
    IN  Call(part.of, command_to_string(CHOOSE id \in {msg[p] : p \in CommandRead} : TRUE),
             UNION {msg[p] : p \in TargetRead}, UNION {msg[p] : p \in ExtraTargetRead},
             UNION {msg[p] : p \in JointTargetRead}, {msg[p] : p \in SpeedRead},
             {msg[p] : p \in ZoneRead})

ASSUME NoneAssumption == None \notin Requests \cup RapidRequests \cup Calls

JointMotions == {"MoveAbsJ", "ZERO"}
MoveCommands == JointMotions \cup {"MoveL", "MoveJ", "MoveC", "MoveLOffs", "MoveJOffs"}

\* What the middle of a request may be taken for.  (To a zone beyond 7 value_to_zone
\* has no answer: the program stops, see Restart.)
Misread ==
    {Call(None, cmd, {p}, {p}, {p}, {}, {}) : cmd \in MoveCommands, p \in Places}
    \cup {Call(None, "SetSpeed", {}, {}, {}, {s}, {}) : s \in UNION {uint16(q) : q \in Speeds}}
    \cup {Call(None, "SetZone", {}, {}, {}, {}, {proto_zone_enum2rapid_zone_enum(z)}) : z \in ProtoZones}
    \cup {Call(None, cmd, {}, {}, {}, {}, {}) : cmd \in {"PINGR", "GETSTATUS", "UNKNOWN"}}

\* Of those, the ones for which n bytes are enough.
StrayCalls(n) == {c \in Misread : BytesRead(c.cmd) <= n}

\* How many bytes are in transit.
Size(parts) ==
    LET upTo[i \in 0..Len(parts)] == IF i = 0 THEN 0 ELSE upTo[i - 1] + parts[i].bytes
    IN  upTo[Len(parts)]

\* SocketReceive returns what has arrived: whole requests, ...
WholeRead == {Without(n, toRobot) : n \in 1..Len(toRobot)}

\* ... and perhaps a part of one more.  Both are given by what they leave behind.
CutRead ==
    UNION {{[Without(n, toRobot) EXCEPT ![1] = Rest(late)] :
              late \in {c \in Cuts : c < toRobot[n + 1].bytes}} : n \in 0..(Len(toRobot) - 1)}

Reads(left) ==
    \/ left \in WholeRead /\ UNCHANGED slips
    \/ left \in CutRead /\ Slip

Receiving == client_connected /\ doing = None /\ toRobot # <<>>

OtherThanController == <<pc, asked>>

\* Of what was received, n bytes, only the first is looked at.  Less than four are no
\* command.
SocketReceive ==
    /\ Receiving
    /\ \E left \in WholeRead \cup CutRead :
        LET n == Size(toRobot) - Size(left)
            first == Head(toRobot)
        IN  /\ Reads(left) /\ toRobot' = left
            /\ \/ n < 4 /\ UNCHANGED <<doing, known>>
               \/ /\ n >= 4 /\ first.of # None /\ BytesRead(parse_message(first).cmd) <= n
                  /\ doing' = parse_message(first) /\ UNCHANGED known
               \/ /\ n >= 4 /\ first.of = None
                  /\ doing' \in StrayCalls(n) /\ known' = NothingKnown
    /\ UNCHANGED <<client_connected, replies, move_speed, move_zone, robotVars, OtherThanController>>

\* HandleClient ends: with it, the connection.
LeaveConnection == client_connected' = FALSE /\ toRobot' = <<>>

\* To unpack more than has been received is an error, on which it ends.
ParseError ==
    /\ Receiving
    /\ \E left \in WholeRead \cup CutRead :
        LET n == Size(toRobot) - Size(left)
            first == Head(toRobot)
        IN  /\ Reads(left)
            /\ n >= 4
            /\ n < IF first.of # None THEN BytesRead(parse_message(first).cmd) ELSE RequestSize
    /\ LeaveConnection
    /\ UNCHANGED <<doing, replies, move_speed, move_zone, robotVars, known, OtherThanController>>

\* HandleClient finds that the middleware has closed the connection.
ClientGone ==
    /\ client_connected /\ doing = None /\ pc = "down"
    /\ LeaveConnection
    /\ UNCHANGED <<doing, replies, move_speed, move_zone, robotVars, slips, known, OtherThanController>>

\* The program is started again: speed and zone have their initial values, and
\* main moves the robot to ZERO before it serves anyone.
Restart ==
    /\ client_connected /\ LeaveConnection
    /\ doing' = None
    /\ move_speed' = 100 /\ move_zone' = "fine"
    /\ at' = ZeroPlace /\ goal' = ZeroPlace /\ motion' = "joints"
    /\ known' = NothingKnown
    /\ UNCHANGED <<replies, slips, OtherThanController>>

-----------------------------------------------------------------------------
(* ExecuteAction *)

OtherThanAction == <<OtherThanController, toRobot, client_connected, known>>

\* The last thing an action does.  A reply to a closed connection is lost.
SendResponse(sent) ==
    /\ doing' = None
    /\ replies' = IF pc = "down" THEN replies ELSE replies \o sent

ACK == [kind |-> "ACK"]
NACK == [kind |-> "NACK"]

IsInWorkspace(p) == CornerMin + 1 < p /\ p <= CornerMax - 1

\* Mutant: the offsets are taken for a position.
Destination_NoOffs(call) ==
    CASE call.cmd = "ZERO"     -> {ZeroPlace}
      [] call.cmd = "MoveAbsJ" -> call.joint
      [] OTHER                 -> call.target

\* Where the motion ends; Offs is relative to where the robot is, moving or not.
Destination(call) ==
    CASE call.cmd = "ZERO"     -> {ZeroPlace}
      [] call.cmd = "MoveAbsJ" -> call.joint
      [] call.cmd \in {"MoveLOffs", "MoveJOffs"} -> {at + d : d \in call.target}
      [] OTHER                 -> call.target

\* Mutant: MoveJOffs without IsSafeTarget.
BeginMotion_OffsUnchecked ==
    /\ doing # None /\ doing.cmd \in MoveCommands /\ ~doing.moving
    /\ \E p \in Destination(doing) :
          /\ doing.cmd \notin JointMotions \cup {"MoveJOffs"} => IsInWorkspace(p)
          /\ doing.cmd = "MoveC" => \A q \in doing.extra : IsInWorkspace(q)
          /\ goal' = p
    /\ motion' = IF doing.cmd \in JointMotions THEN "joints" ELSE "position"
    /\ doing' = [doing EXCEPT !.moving = TRUE]
    /\ UNCHANGED <<replies, move_speed, move_zone, at, slips, OtherThanAction>>

\* IsSafeTarget checks positions against the workspace, joint values against nothing.
BeginMotion ==
    /\ doing # None /\ doing.cmd \in MoveCommands /\ ~doing.moving
    /\ \E p \in Destination(doing) :
          /\ doing.cmd \notin JointMotions => IsInWorkspace(p)
          /\ doing.cmd = "MoveC" => \A q \in doing.extra : IsInWorkspace(q)
          /\ goal' = p
    /\ motion' = IF doing.cmd \in JointMotions THEN "joints" ELSE "position"
    /\ doing' = [doing EXCEPT !.moving = TRUE]
    /\ UNCHANGED <<replies, move_speed, move_zone, at, slips, OtherThanAction>>

\* The robot is on its way, during the instruction or, towards a fly-by point,
\* after it.
Glide ==
    /\ at # goal
    /\ at' = IF at < goal THEN at + 1 ELSE at - 1
    /\ UNCHANGED <<doing, replies, move_speed, move_zone, goal, motion, slips, OtherThanAction>>

\* The instruction returns at a stop point when the robot is there, at a fly-by
\* point before.
MotionDone ==
    /\ doing # None /\ doing.moving
    /\ move_zone = "fine" => at = goal
    /\ SendResponse(<<ACK>>)
    /\ UNCHANGED <<move_speed, move_zone, robotVars, slips, OtherThanAction>>

\* The error handler: ClearPath, the robot stays where it is; after ERR_ROBLIMIT
\* there are two replies.
MotionFails ==
    /\ doing # None /\ doing.moving
    /\ goal' = at /\ motion' = "stopped"
    /\ \/ SendResponse(<<NACK>>) /\ UNCHANGED slips
       \/ SendResponse(<<NACK, NACK>>) /\ Slip
    /\ UNCHANGED <<move_speed, move_zone, at, OtherThanAction>>

\* A target outside of the workspace or unreachable, and a command that is not the
\* controller's (PING and Exit too).
Refuse ==
    /\ doing # None /\ ~doing.moving
    /\ doing.cmd \in (MoveCommands \ {"ZERO"}) \cup {"UNKNOWN"}
    /\ SendResponse(<<NACK>>)
    /\ UNCHANGED <<move_speed, move_zone, robotVars, slips, OtherThanAction>>

\* Mutant: the speed is not compared with the limits.
SetSpeed_NoLimits ==
    /\ doing # None /\ doing.cmd = "SetSpeed"
    /\ \E speed \in doing.speed : SendResponse(<<ACK>>) /\ move_speed' = speed
    /\ UNCHANGED <<move_zone, robotVars, slips, OtherThanAction>>

SetSpeed ==
    /\ doing # None /\ doing.cmd = "SetSpeed"
    /\ \E speed \in doing.speed :
          IF speed < 5 \/ speed > MaxRobSpeed
          THEN SendResponse(<<NACK>>) /\ UNCHANGED move_speed
          ELSE SendResponse(<<ACK>>) /\ move_speed' = speed
    /\ UNCHANGED <<move_zone, robotVars, slips, OtherThanAction>>

SetZone ==
    /\ doing # None /\ doing.cmd = "SetZone"
    /\ \E value \in doing.zone : move_zone' = value_to_zone(value)
    /\ SendResponse(<<ACK>>)
    /\ UNCHANGED <<move_speed, robotVars, slips, OtherThanAction>>

PINGR ==
    /\ doing # None /\ doing.cmd = "PINGR"
    /\ SendResponse(<<ACK>>)
    /\ UNCHANGED <<move_speed, move_zone, robotVars, slips, OtherThanAction>>

\* HandleGetState.
GetState ==
    /\ doing # None /\ doing.cmd = "GETSTATUS"
    /\ LET Value(f) == CASE f = Speed -> move_speed
                         [] f = Zone  -> zone_to_value(move_zone)
                         [] f = X     -> at
       IN  SendResponse(<<[kind |-> "report", values |-> [f \in {Speed, Zone, X} |-> Value(f)]]>>)
    /\ UNCHANGED <<move_speed, move_zone, robotVars, slips, OtherThanAction>>

ExecuteAction ==
    \/ BeginMotion \/ MotionDone \/ MotionFails \/ Refuse \/ SetSpeed \/ SetZone \/ PINGR \/ GetState

-----------------------------------------------------------------------------
Next ==
    \/ send_request \/ receive_buffer \/ LinkError \/ attempt_connection
    \/ SocketReceive \/ ParseError \/ ClientGone \/ Restart \/ ExecuteAction \/ Glide

Spec == Init /\ [][Next]_vars

-----------------------------------------------------------------------------
(* Properties *)

TypeOK ==
    /\ pc \in {"idle", "recv", "down"}
    /\ asked = None \/ (asked \in Requests /\ ~Throws(asked))
    /\ asked = None <=> pc = "idle"
    /\ toRobot \in Seq([of : Requests \cup {None}, msg : RapidRequests \cup {None},
                       bytes : 1..RequestSize])
    /\ client_connected \in BOOLEAN /\ slips \in 0..MaxSlips
    /\ doing = None \/ doing \in Calls
    /\ \A i \in DOMAIN replies : replies[i].kind \in {"ACK", "NACK", "report", "fragment"}
    /\ move_speed \in 5..MaxRobSpeed
    /\ \E i \in DOMAIN ZoneData : move_zone = ZoneData[i]
    /\ at \in Int /\ goal \in Int /\ motion \in {"position", "joints", "stopped"}
    /\ known.speed \subseteq Speeds \cup {0} /\ known.zone \subseteq ProtoZones

\* What each command means on the robot.
Meaning ==
    [MOVEL |-> "MoveL", MOVEJ |-> "MoveJ", MOVEC |-> "MoveC", MOVEABSJ |-> "MoveAbsJ",
     SETSPEED |-> "SetSpeed", SETZONE |-> "SetZone", PINGR |-> "PINGR", ZERO |-> "ZERO",
     GETSTATUS |-> "GETSTATUS", MOVEL_OFFS |-> "MoveLOffs", MOVEJ_OFFS |-> "MoveJOffs"]

\* The controller executes what a client asked for, with the client's values, also on
\* a connection that has slipped: two tables of numbers and two descriptions of one
\* layout agree (commands.cpp and ParsingModule).  Only the rest of a request that
\* came in pieces is read as something else, whatever that is.
ExecutedAsAsked ==
    doing # None /\ doing.of # None =>
        LET req == doing.of
        IN  /\ doing.cmd = Meaning[req.cmd]
            /\ req.cmd \in Cartesian \cup ByOffset => doing.target = req.target
            /\ req.cmd = "MOVEC" => doing.extra = req.extra_target
            /\ req.cmd = "MOVEABSJ" => doing.joint = req.joint_target
            /\ req.cmd = "SETSPEED" => doing.speed \subseteq uint16(req.speed)

(* Of the next four: what is known was concluded from a reply on a connection that  *)
(* had not slipped.  It stays known on one that has, until a command of its kind is *)
(* sent there, and through lost connections, until the rest of a request is taken   *)
(* for a command or the controller is started again.                                *)

\* Where the zone is known the robot makes stop points if and only if the client
\* asked for them, and fly-by points no larger than it asked for: the two tables of
\* zones disagree (commands.hpp has no z0), and they do so on the safe side.
ZoneNeverCoarser ==
    \A z \in Known.zone :
        LET zone == IF z \in Zones THEN z ELSE "FINE"
            asFar == [FINE |-> 0, Z1 |-> 2, Z5 |-> 3, Z10 |-> 4, Z15 |-> 5, Z20 |-> 6, Z30 |-> 7]
        IN  /\ (move_zone = "fine") = (zone = "FINE")
            /\ zone_to_value(move_zone) <= asFar[zone]

\* A known speed is in force, without its fraction, if it fits the 16 bits of the
\* request; an answer to any other speed means nothing.
SpeedAsAcknowledged ==
    \A s \in Known.speed : s \div 2 \in 0..UINT16_MAX => move_speed = s \div 2

\* No motion to a position ends outside of the workspace, not even one that was
\* read from the middle of a request, or relative to a robot that is moving or
\* that joint values have taken outside.
PositionsStayInside == motion = "position" => IsInWorkspace(goal)

\* The robot is, or is on its way, where the acknowledged motions lead: to the end of
\* the last one in any zone, and it is there if that is a stop point.  Offsets add up
\* from stop point to stop point; after a fly-by point, where the offset is relative
\* to a point on the way, an acknowledgement says nothing of where the motion ends.
PlaceAsTold == Known.goal \subseteq {goal} /\ Known.at \subseteq {at}

\* A report that is received as the reply to GETSTATUS and accepted, entire or not,
\* says of speed, zone and position what is known of them: packing, unpacking, and
\* both tables of zones taken together, if protocol::Zone has the numbers of RapidZone.
ReportAgrees ==
    \A s \in known.report :
        /\ \A v \in known.speed : v \div 2 \in 0..UINT16_MAX => s[Speed] = {v \div 2}
        /\ ZoneNumber = RapidZone =>
              \A z \in known.zone : s[Zone] = {IF z \in Zones THEN z ELSE "FINE"}
        /\ \A p \in known.at : s[X] = {p}
=============================================================================
