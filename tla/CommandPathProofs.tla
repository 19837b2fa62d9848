-------------------------- MODULE CommandPathProofs --------------------------
(***************************************************************************)
(* The robot stays inside of its workspace; it executes what it was asked,  *)
(* also on a connection that has slipped; and what is known from the        *)
(* replies, those on a slipped connection aside, is true of the             *)
(* controller's speed and zone, the robot's position and the reports.  For  *)
(* every workspace, all targets, offsets, speeds and zones, every number of *)
(* slips and every way a request or a report may be cut.                    *)
(***************************************************************************)
EXTENDS CommandPath, CodecProofs

\* SpeedsAssumption and WorkspaceAssumption hold the least that the proofs need of
\* the constants.

\* No motion to a position ends outside of the workspace (IsSafeTarget in
\* OperationModule), not even one read from the middle of a request or relative to
\* a robot that is moving.
THEOREM StaysInside == Spec => []PositionsStayInside
<1>1. Init => PositionsStayInside
  BY DEF Init, PositionsStayInside
<1>2. PositionsStayInside /\ [Next]_vars => PositionsStayInside'
  <2> SUFFICES ASSUME PositionsStayInside, [Next]_vars PROVE PositionsStayInside'
    OBVIOUS
  <2> USE DEF PositionsStayInside, IsInWorkspace
  <2>1. CASE BeginMotion
    <3>1. PICK p \in Destination(doing) :
             (doing.cmd \notin JointMotions => IsInWorkspace(p)) /\ goal' = p
      BY <2>1 DEF BeginMotion
    <3>2. motion' = (IF doing.cmd \in JointMotions THEN "joints" ELSE "position")
      BY <2>1 DEF BeginMotion
    <3>3. CASE doing.cmd \in JointMotions
      BY <3>2, <3>3
    <3>4. CASE doing.cmd \notin JointMotions
      BY <3>1, <3>4
    <3> QED BY <3>3, <3>4
  <2>2. CASE MotionFails
    BY <2>2 DEF MotionFails
  <2>3. CASE Restart
    BY <2>3 DEF Restart
  <2>4. CASE UNCHANGED <<goal, motion>>
    BY <2>4
  <2>5. send_request => UNCHANGED <<goal, motion>>
    BY DEF send_request, OtherThanServer, robotVars
  <2>6. receive_buffer => UNCHANGED <<goal, motion>>
    BY DEF receive_buffer, OtherThanServer, robotVars
  <2>7. LinkError => UNCHANGED <<goal, motion>>
    BY DEF LinkError, OtherThanServer, robotVars
  <2>8. attempt_connection => UNCHANGED <<goal, motion>>
    BY DEF attempt_connection, robotVars
  <2>9. SocketReceive \/ ParseError \/ ClientGone => UNCHANGED <<goal, motion>>
    BY DEF SocketReceive, ParseError, ClientGone, robotVars
  <2>10. MotionDone \/ Refuse \/ SetSpeed \/ SetZone \/ PINGR \/ GetState
           => UNCHANGED <<goal, motion>>
    BY DEF MotionDone, Refuse, SetSpeed, SetZone, PINGR, GetState, robotVars
  <2>11. Glide => UNCHANGED <<goal, motion>>
    BY DEF Glide
  <2>12. UNCHANGED vars => UNCHANGED <<goal, motion>>
    BY DEF vars, robotVars
  <2> QED
    BY <2>1, <2>2, <2>3, <2>4, <2>5, <2>6, <2>7, <2>8, <2>9, <2>10, <2>11, <2>12
    DEF Next, ExecuteAction
<1> QED BY <1>1, <1>2, PTL DEF Spec

-----------------------------------------------------------------------------
(* Zones, numbers and commands *)

LEMMA ZoneNumbers == \A z : proto_zone_enum2rapid_zone_enum(z) \in 0..6
<1>1. \A z \in Zones : RapidZone[z] \in 0..6
  BY DEF Zones, RapidZone
<1>2. "FINE" \in Zones
  BY DEF Zones
<1> QED BY <1>1, <1>2 DEF proto_zone_enum2rapid_zone_enum

LEMMA ZoneOfValue == \A v \in 0..7 : value_to_zone(v) \in {ZoneData[i] : i \in 1..8}
<1> TAKE v \in 0..7
<1>1. v + 1 \in 1..8
  OBVIOUS
<1>2. ZoneData[v + 1] \in {ZoneData[i] : i \in 1..8}
  BY <1>1
<1> QED BY <1>2 DEF value_to_zone

LEMMA ZoneValues ==
    /\ \A v \in 0..7 :
          /\ value_to_zone(v) \in {ZoneData[i] : i \in 1..8}
          /\ zone_to_value(value_to_zone(v)) = v
          /\ value_to_zone(v) = "fine" <=> v = 0
    /\ \A zone \in {ZoneData[i] : i \in 1..8} : zone_to_value(zone) \in 0..7
<1>1. \A i, j \in 1..8 : ZoneData[i] = ZoneData[j] => i = j
  BY DEF ZoneData
<1>2. \A i \in 1..8 : ZoneData[i] = "fine" <=> i = 1
  BY DEF ZoneData
<1>3. ASSUME NEW i \in 1..8 PROVE zone_to_value(ZoneData[i]) = i - 1
  <2> DEFINE j == CHOOSE k \in 1..8 : ZoneData[k] = ZoneData[i]
  <2>1. j \in 1..8 /\ ZoneData[j] = ZoneData[i]
    OBVIOUS
  <2> HIDE DEF j
  <2>2. j = i
    BY <1>1, <2>1
  <2> QED BY <2>2 DEF zone_to_value, j
<1>4. ASSUME NEW v \in 0..7
      PROVE  /\ value_to_zone(v) \in {ZoneData[i] : i \in 1..8}
             /\ zone_to_value(value_to_zone(v)) = v
             /\ value_to_zone(v) = "fine" <=> v = 0
  <2>1. v + 1 \in 1..8 /\ (v + 1) - 1 = v /\ (v + 1 = 1 <=> v = 0)
    OBVIOUS
  <2>2. value_to_zone(v) = ZoneData[v + 1]
    BY DEF value_to_zone
  <2>3. zone_to_value(ZoneData[v + 1]) = (v + 1) - 1
    BY <1>3, <2>1
  <2> QED BY <1>2, <2>1, <2>2, <2>3
<1>5. \A i \in 1..8 : zone_to_value(ZoneData[i]) \in 0..7
  BY <1>3
<1> QED BY <1>4, <1>5

\* The cast of a speed that fits keeps its whole part.
LEMMA CastOfSpeed ==
    ASSUME NEW speed \in Int
    PROVE  /\ uint16(speed) \subseteq 0..UINT16_MAX
           /\ speed \div 2 \in 0..UINT16_MAX => uint16(speed) = {speed \div 2}
<1>1. UINT16_MAX \in Nat
  BY DEF UINT16_MAX
<1>2. PICK whole \in Int : whole = speed \div 2
  OBVIOUS
<1>3. whole % (UINT16_MAX + 1) \in 0..UINT16_MAX
  BY <1>1
<1>4. whole \in 0..UINT16_MAX => uint16(speed) = {whole}
  BY <1>2 DEF uint16
<1>5. whole \notin 0..UINT16_MAX => uint16(speed) = {whole % (UINT16_MAX + 1), 0, UINT16_MAX}
  BY <1>2 DEF uint16
<1>6. uint16(speed) \subseteq 0..UINT16_MAX
  BY <1>1, <1>3, <1>4, <1>5
<1> QED BY <1>2, <1>4, <1>6

\* The two tables of numbers, of the protocol and of the controller, name the same
\* commands.
LEMMA CommandNumbers ==
    ASSUME NEW c \in DOMAIN proto_cmd_enum2rapid_cmd_enum
    PROVE  /\ RapidCommandType[proto_cmd_enum2rapid_cmd_enum[c]] \in 0..17
           /\ command_to_string(RapidCommandType[proto_cmd_enum2rapid_cmd_enum[c]]) = Meaning[c]
<1> DEFINE id == RapidCommandType[proto_cmd_enum2rapid_cmd_enum[c]]
           Same(n, name) == id = n /\ Meaning[c] = name
<1>1. c \in {"MOVEL", "MOVEJ", "MOVEC", "MOVEABSJ", "SETSPEED", "SETZONE", "PINGR", "ZERO",
             "GETSTATUS", "MOVEL_OFFS", "MOVEJ_OFFS"}
  BY DEF proto_cmd_enum2rapid_cmd_enum
<1>2. /\ c = "MOVEL" => Same(0, "MoveL")
      /\ c = "MOVEJ" => Same(1, "MoveJ")
      /\ c = "MOVEC" => Same(2, "MoveC")
      /\ c = "MOVEABSJ" => Same(3, "MoveAbsJ")
      /\ c = "SETSPEED" => Same(4, "SetSpeed")
      /\ c = "SETZONE" => Same(5, "SetZone")
      /\ c = "PINGR" => Same(8, "PINGR")
      /\ c = "ZERO" => Same(9, "ZERO")
      /\ c = "GETSTATUS" => Same(10, "GETSTATUS")
      /\ c = "MOVEL_OFFS" => Same(16, "MoveLOffs")
      /\ c = "MOVEJ_OFFS" => Same(17, "MoveJOffs")
  BY DEF proto_cmd_enum2rapid_cmd_enum, RapidCommandType, Meaning
<1> HIDE DEF id
<1>3. /\ command_to_string(0) = "MoveL" /\ command_to_string(1) = "MoveJ"
      /\ command_to_string(2) = "MoveC" /\ command_to_string(3) = "MoveAbsJ"
      /\ command_to_string(4) = "SetSpeed" /\ command_to_string(5) = "SetZone"
      /\ command_to_string(8) = "PINGR" /\ command_to_string(9) = "ZERO"
      /\ command_to_string(10) = "GETSTATUS" /\ command_to_string(16) = "MoveLOffs"
      /\ command_to_string(17) = "MoveJOffs"
  BY DEF command_to_string
<1>4. id \in 0..17 /\ command_to_string(id) = Meaning[c]
  BY <1>1, <1>2, <1>3
<1> QED BY <1>4 DEF id

-----------------------------------------------------------------------------
(* Requests *)

\* What a request that a client can send is made of.
LEMMA RequestMembers ==
    ASSUME NEW req \in Requests
    PROVE  /\ req.cmd \in DOMAIN proto_cmd_enum2rapid_cmd_enum
           /\ req.target \in {{}} \cup {{p} : p \in Int}
           /\ req.extra_target \in {{}} \cup {{p} : p \in Int}
           /\ req.joint_target \in {{}} \cup {{p} : p \in Int}
           /\ req.speed \in Speeds \cup {0} /\ req.speed \in Int
           /\ req.cmd = "SETZONE" => req.zone \in ProtoZones
<1>1. Places \subseteq Int /\ Offsets \subseteq Int /\ Speeds \subseteq Int
  BY PlacesAssumption, SpeedsAssumption
<1> DEFINE
      Bare == {[Plain EXCEPT !.cmd = c] : c \in DOMAIN proto_cmd_enum2rapid_cmd_enum \ {"SETZONE"}}
      Straight == [cmd : {"MOVEL", "MOVEJ"}, target : {{p} : p \in Places}, extra_target : {{}},
                   joint_target : {{}}, speed : {0}, zone : {"FINE"}]
      Round == [cmd : {"MOVEC"}, target : {{p} : p \in Places},
                extra_target : {{p} : p \in Places} \cup {{}},
                joint_target : {{}}, speed : {0}, zone : {"FINE"}]
      Relative == [cmd : ByOffset, target : {{d} : d \in Offsets}, extra_target : {{}},
                   joint_target : {{}}, speed : {0}, zone : {"FINE"}]
      Joints == {[Plain EXCEPT !.cmd = "MOVEABSJ", !.joint_target = {p}] : p \in Places}
      Paces == {[Plain EXCEPT !.cmd = "SETSPEED", !.speed = s] : s \in Speeds}
      Corners == {[Plain EXCEPT !.cmd = "SETZONE", !.zone = z] : z \in ProtoZones}
<1>2. Requests = Bare \cup Straight \cup Round \cup Relative \cup Joints \cup Paces \cup Corners
  BY Zenon DEF Requests
<1>3. CASE req \in Bare
  BY <1>3 DEF Plain, proto_cmd_enum2rapid_cmd_enum
<1>4. CASE req \in Straight
  BY <1>1, <1>4 DEF proto_cmd_enum2rapid_cmd_enum
<1>5. CASE req \in Round
  BY <1>1, <1>5 DEF proto_cmd_enum2rapid_cmd_enum
<1>6. CASE req \in Relative
  BY <1>1, <1>6 DEF proto_cmd_enum2rapid_cmd_enum, ByOffset
<1>7. CASE req \in Joints
  <2>1. PICK p \in Places : req = [Plain EXCEPT !.cmd = "MOVEABSJ", !.joint_target = {p}]
    BY <1>7
  <2>2. /\ req.cmd = "MOVEABSJ" /\ req.target = {} /\ req.extra_target = {}
        /\ req.joint_target = {p} /\ req.speed = 0
    BY <2>1 DEF Plain
  <2>3. p \in Int /\ "MOVEABSJ" \in DOMAIN proto_cmd_enum2rapid_cmd_enum
    BY <1>1 DEF proto_cmd_enum2rapid_cmd_enum
  <2> QED BY <2>2, <2>3
<1>8. CASE req \in Paces
  BY <1>1, <1>8 DEF Plain, proto_cmd_enum2rapid_cmd_enum
<1>9. CASE req \in Corners
  <2>1. PICK z \in ProtoZones : req = [Plain EXCEPT !.cmd = "SETZONE", !.zone = z]
    BY <1>9
  <2>2. /\ req.cmd = "SETZONE" /\ req.target = {} /\ req.extra_target = {}
        /\ req.joint_target = {} /\ req.speed = 0 /\ req.zone = z
    BY <2>1 DEF Plain
  <2>3. "SETZONE" \in DOMAIN proto_cmd_enum2rapid_cmd_enum
    BY DEF proto_cmd_enum2rapid_cmd_enum
  <2> QED BY <2>2, <2>3
<1> HIDE DEF Bare, Straight, Round, Relative, Joints, Paces, Corners
<1>10. \/ req \in Bare \/ req \in Straight \/ req \in Round \/ req \in Relative
       \/ req \in Joints \/ req \in Paces \/ req \in Corners
  BY <1>2
<1> QED BY <1>3, <1>4, <1>5, <1>6, <1>7, <1>8, <1>9, <1>10

LEMMA EncodedRequest ==
    ASSUME NEW req \in Requests, NEW speed \in uint16(req.speed)
    PROVE  create_rapid_request(req, speed) \in RapidRequests
<1> DEFINE m == create_rapid_request(req, speed)
<1>1. req.cmd \in DOMAIN proto_cmd_enum2rapid_cmd_enum /\ req.speed \in Int
  BY RequestMembers
<1>2. req.target \subseteq Int /\ req.extra_target \subseteq Int /\ req.joint_target \subseteq Int
  BY RequestMembers
<1>3. RapidCommandType[proto_cmd_enum2rapid_cmd_enum[req.cmd]] \in 0..17
  BY <1>1, CommandNumbers
<1>4. speed \in 0..UINT16_MAX /\ 0 \in 0..UINT16_MAX
  <2>1. speed \in 0..UINT16_MAX
    BY <1>1, CastOfSpeed
  <2>2. 0 \in 0..UINT16_MAX
    BY DEF UINT16_MAX
  <2> QED BY <2>1, <2>2
<1>5. proto_zone_enum2rapid_zone_enum(req.zone) \in 0..6 /\ 0 \in 0..6 /\ 0 \in Int
  BY ZoneNumbers
<1> QED BY <1>2, <1>3, <1>4, <1>5 DEF create_rapid_request, RapidRequests

\* What is in transit to the controller: what a request is begun with is made of it.
Items == [of : Requests \cup {None}, msg : RapidRequests \cup {None}, bytes : 1..RequestSize]

EncodedParts ==
    {part \in Items : part.of # None =>
        \E speed \in uint16(part.of.speed) : part.msg = create_rapid_request(part.of, speed)}

\* What is read of a request whose beginning is received.
LEMMA ParsedRequest ==
    ASSUME NEW part \in EncodedParts, part.of # None
    PROVE  /\ parse_message(part) \in Calls
           /\ parse_message(part).of = part.of /\ ~parse_message(part).moving
           /\ parse_message(part).cmd = Meaning[part.of.cmd]
           /\ part.of.cmd \in Cartesian \cup ByOffset =>
                 parse_message(part).target = part.of.target
           /\ part.of.cmd = "MOVEC" => parse_message(part).extra = part.of.extra_target
           /\ part.of.cmd = "MOVEABSJ" => parse_message(part).joint = part.of.joint_target
           /\ part.of.cmd = "SETSPEED" => parse_message(part).speed \subseteq uint16(part.of.speed)
           /\ part.of.cmd = "SETZONE" =>
                 parse_message(part).zone = {proto_zone_enum2rapid_zone_enum(part.of.zone)}
<1>0. PICK req \in Requests : req = part.of
  BY DEF EncodedParts, Items
<1>1. PICK speed \in uint16(req.speed) : part.msg = create_rapid_request(req, speed)
  BY <1>0 DEF EncodedParts
<1> DEFINE msg == part.msg
<1>2. msg \in RapidRequests /\ msg = create_rapid_request(req, speed)
  BY <1>1, EncodedRequest
<1>3. /\ {msg[p] : p \in CommandRead} = {msg.command_id}
      /\ {msg[p] : p \in ZoneRead} = {msg.zone}
      /\ {msg[p] : p \in SpeedRead} = {msg.speed}
  BY <1>2, RequestReadAsPacked
<1>4. /\ UNION {msg[p] : p \in TargetRead} = msg.target
      /\ UNION {msg[p] : p \in ExtraTargetRead} = msg.extra_target
      /\ UNION {msg[p] : p \in JointTargetRead} = msg.joint_target
  BY <1>2, RequestReadAsPacked
<1>5. (CHOOSE id \in {msg[p] : p \in CommandRead} : TRUE) = msg.command_id
  BY <1>3
<1>6. parse_message(part) =
        Call(req, command_to_string(msg.command_id), msg.target, msg.extra_target,
             msg.joint_target, {msg.speed}, {msg.zone})
  BY <1>0, <1>3, <1>4, <1>5 DEF parse_message
<1> HIDE DEF msg
<1>7. parse_message(part) =
        [of |-> req, cmd |-> command_to_string(msg.command_id), target |-> msg.target,
         extra |-> msg.extra_target, joint |-> msg.joint_target, speed |-> {msg.speed},
         zone |-> {msg.zone}, moving |-> FALSE]
  BY <1>6 DEF Call
<1>8. parse_message(part) \in Calls
  <2>1. msg.command_id \in 0..18
    BY <1>2 DEF RapidRequests
  <2>2. command_to_string(msg.command_id) \in {command_to_string(id) : id \in 0..18}
    BY <2>1
  <2>3. /\ msg.target \subseteq Int /\ msg.extra_target \subseteq Int
        /\ msg.joint_target \subseteq Int
        /\ msg.speed \in 0..UINT16_MAX /\ msg.zone \in 0..6
    BY <1>2 DEF RapidRequests
  <2> QED BY <1>7, <2>2, <2>3 DEF Calls
<1>9. /\ msg.command_id = RapidCommandType[proto_cmd_enum2rapid_cmd_enum[req.cmd]]
      /\ req.cmd = "SETZONE" => msg.zone = proto_zone_enum2rapid_zone_enum(req.zone)
      /\ req.cmd = "SETSPEED" => msg.speed = speed
      /\ req.cmd \in Cartesian \cup ByOffset => msg.target = req.target
      /\ req.cmd = "MOVEC" => msg.extra_target = req.extra_target
      /\ req.cmd = "MOVEABSJ" => msg.joint_target = req.joint_target
  BY <1>2 DEF create_rapid_request
<1>10. command_to_string(msg.command_id) = Meaning[req.cmd]
  BY <1>9, RequestMembers, CommandNumbers
<1>11. PICK call : call = parse_message(part)
  OBVIOUS
<1>12. /\ call.of = req /\ ~call.moving /\ call.cmd = Meaning[req.cmd]
       /\ req.cmd \in Cartesian \cup ByOffset => call.target = req.target
       /\ req.cmd = "MOVEC" => call.extra = req.extra_target
       /\ req.cmd = "MOVEABSJ" => call.joint = req.joint_target
       /\ req.cmd = "SETSPEED" => call.speed \subseteq uint16(req.speed)
       /\ req.cmd = "SETZONE" => call.zone = {proto_zone_enum2rapid_zone_enum(req.zone)}
  BY <1>1, <1>7, <1>9, <1>10, <1>11
<1> QED BY <1>0, <1>8, <1>11, <1>12

-----------------------------------------------------------------------------
(* The invariant *)

Replies ==
    [kind : {"ACK", "NACK", "fragment"}]
    \cup [kind : {"report"}, values : [{Speed, Zone, X} -> Int]]

Knowledge ==
    [speed : SUBSET (Speeds \cup {0}), zone : SUBSET ProtoZones, goal : SUBSET Int,
     at : SUBSET Int, report : SUBSET [{Speed, Zone, X} -> SUBSET (Int \cup Zones)]]

Types ==
    /\ pc \in {"idle", "recv", "down"}
    /\ asked = None \/ (asked \in Requests /\ ~Throws(asked))
    /\ toRobot \in Seq(EncodedParts)
    /\ client_connected \in BOOLEAN /\ slips \in 0..MaxSlips
    /\ doing = None \/ doing \in Calls
    /\ replies \in Seq(Replies)
    /\ move_speed \in 5..MaxRobSpeed
    /\ move_zone \in {ZoneData[i] : i \in 1..8}
    /\ at \in Int /\ goal \in Int /\ motion \in {"position", "joints", "stopped"}
    /\ known \in Knowledge

\* The replies of the connection still answer its commands one by one.
Clean == slips = 0 /\ client_connected

\* Then the client's command, the call and the reply are never there together.
Alone ==
    /\ toRobot # <<>> => /\ Len(toRobot) = 1 /\ toRobot[1].of = asked
                         /\ doing = None /\ replies = <<>>
    /\ doing # None => doing.of = asked /\ replies = <<>>
    /\ Len(replies) <= 1

\* Where commands, what is left of them and their replies can be at the same time:
\* anywhere, on a connection that has slipped.
OneAtATime ==
    /\ asked = None <=> pc = "idle"
    /\ pc = "down" => replies = <<>>
    /\ ~client_connected => toRobot = <<>> /\ doing = None
    /\ slips = 0 => /\ \A i \in 1..Len(toRobot) : toRobot[i].of # None
                    /\ doing # None => doing.of # None
    /\ Clean /\ pc = "idle" => toRobot = <<>> /\ doing = None /\ replies = <<>>
    /\ Clean /\ pc = "recv" => Alone

\* ExecutedAsAsked and, for the zone, the same; only motions move.
Executed ==
    /\ ExecutedAsAsked
    /\ doing # None /\ doing.of # None /\ doing.of.cmd = "SETZONE" =>
          doing.zone = {proto_zone_enum2rapid_zone_enum(doing.of.zone)}
    /\ doing # None /\ doing.moving => doing.cmd \in MoveCommands

\* Nothing is known that the request may change (k: of what is known), or ...
Lost(k, req) ==
    /\ req.cmd = "SETSPEED" => k.speed = {}
    /\ req.cmd = "SETZONE" => k.zone = {}
    /\ req.cmd \in Motions => k.goal = {} /\ k.at = {}

\* ... what is read of the middle of one.  This is so of everything that may yet be
\* executed, long after the client was told something else.
Doubts ==
    /\ \A i \in 1..Len(toRobot) : toRobot[i].of # None => Lost(Known, toRobot[i].of)
    /\ doing # None /\ doing.of # None => Lost(Known, doing.of)
    /\ doing # None /\ doing.of = None =>
          Known.speed = {} /\ Known.zone = {} /\ Known.goal = {} /\ Known.at = {}

\* The client's command has not been answered, or it has been.
Pending == pc = "recv" /\ Clean /\ replies = <<>>
Answered == pc = "recv" /\ Clean /\ replies # <<>>
Reply == Head(replies)

SpeedIs(speeds) == \A s \in speeds : s \div 2 \in 0..UINT16_MAX => move_speed = s \div 2

SpeedHeld ==
    /\ SpeedIs(Known.speed)
    /\ Pending => SpeedIs(known.speed)
    /\ Answered /\ asked.cmd = "SETSPEED" =>
          IF Reply.kind = "ACK" THEN move_speed \in uint16(asked.speed) ELSE SpeedIs(known.speed)

ZoneIs(zones) == \A z \in zones : move_zone = value_to_zone(proto_zone_enum2rapid_zone_enum(z))

ZoneHeld ==
    /\ ZoneIs(Known.zone)
    /\ Pending => ZoneIs(known.zone)
    /\ Answered /\ asked.cmd = "SETZONE" =>
          IF Reply.kind = "ACK"
          THEN move_zone = value_to_zone(proto_zone_enum2rapid_zone_enum(asked.zone))
          ELSE ZoneIs(known.zone)

\* The last motion ends there, and the robot stands there.
PlaceIs(goals, places) == goals \subseteq {goal} /\ (places # {} => at = goal /\ places = {at})

Moving == doing # None /\ doing.moving

PlaceHeld ==
    /\ PlaceIs(Known.goal, Known.at)
    /\ Pending /\ ~Moving => PlaceIs(known.goal, known.at)
    /\ Pending /\ Moving => GoalAsked \subseteq {goal}
    /\ Answered /\ asked.cmd \in Motions /\ Reply.kind = "ACK" =>
          GoalAsked \subseteq {goal} /\ (known.zone = {"FINE"} => at = goal)

\* Values of the controller are what is known of them.
Agree(speed, zone, x) ==
    /\ \A v \in known.speed : v \div 2 \in 0..UINT16_MAX => speed = v \div 2
    /\ \A z \in known.zone : zone = proto_zone_enum2rapid_zone_enum(z)
    /\ \A p \in known.at : x = p

ReportHeld ==
    /\ ReportAgrees
    /\ pc = "recv" => known.report = {}
    /\ Answered /\ Reply.kind = "report" =>
          Agree(Reply.values[Speed], Reply.values[Zone], Reply.values[X])

IInv ==
    /\ Types /\ OneAtATime /\ Executed /\ Doubts
    /\ SpeedHeld /\ ZoneHeld /\ PlaceHeld /\ ReportHeld

-----------------------------------------------------------------------------
(* Sequences *)

LEMMA DropFacts ==
    ASSUME NEW S, NEW s \in Seq(S), NEW n \in 0..Len(s)
    PROVE  /\ Without(n, s) \in Seq(S) /\ Len(Without(n, s)) = Len(s) - n
           /\ \A i \in 1..(Len(s) - n) : Without(n, s)[i] = s[i + n]
<1>1. Len(s) \in Nat /\ \A i \in 1..Len(s) : s[i] \in S
  OBVIOUS
<1>2. PICK t : t = SubSeq(s, n + 1, Len(s))
  OBVIOUS
<1>3. Len(t) = Len(s) - n /\ \A i \in 1..(Len(s) - n) : t[i] = s[n + 1 + i - 1]
  BY <1>1, <1>2, SubSeqProperties
<1>4. t \in Seq(S)
  BY <1>1, <1>2, SubSeqProperties
<1>5. Without(n, s) = t
  BY <1>2 DEF Without
<1> QED BY <1>1, <1>3, <1>4, <1>5

LEMMA CutFacts ==
    ASSUME NEW S, NEW u \in Seq(S), NEW l \in Nat \ {0}, Len(u) = l, NEW x \in S,
           NEW t, t = [u EXCEPT ![1] = x]
    PROVE  /\ t \in Seq(S) /\ Len(t) = l /\ t[1] = x
           /\ \A i \in 2..l : t[i] = u[i]
<1>1. 1 \in 1..Len(u)
  OBVIOUS
<1>2. /\ t \in Seq(S) /\ Len(t) = Len(u) /\ t[1] = x
      /\ \A i \in 2..Len(u) : t[i] = u[i]
  BY <1>1, ExceptSeq
<1> QED BY <1>2

LEMMA AddFacts ==
    ASSUME NEW S, NEW s \in Seq(S), NEW x \in S
    PROVE  /\ Append(s, x) \in Seq(S) /\ Len(Append(s, x)) = Len(s) + 1
           /\ Append(s, x)[Len(s) + 1] = x
           /\ \A i \in 1..Len(s) : Append(s, x)[i] = s[i]
BY AppendProperties

LEMMA AnswerFacts ==
    ASSUME NEW S, NEW s \in Seq(S), NEW t \in Seq(S), t # <<>>
    PROVE  /\ s \o t \in Seq(S) /\ s \o t # <<>>
           /\ s = <<>> => s \o t = t
<1>1. Join(s, t) \in Seq(S) /\ Len(Join(s, t)) = Len(s) + Len(t)
  BY Joined
<1>2. Len(s) \in Nat /\ Len(t) \in Nat \ {0}
  BY LenProperties, EmptySeq
<1>3. Len(Join(s, t)) # 0
  BY <1>1, <1>2
<1>4. Len(<<>>) = 0 /\ Join(<<>>, t) = t
  BY EmptySeq, ConcatEmptySeq DEF Join
<1> QED BY <1>1, <1>3, <1>4 DEF Join

-----------------------------------------------------------------------------
(* Replies *)

LEMMA OneReply ==
    ASSUME NEW S, NEW s \in Seq(S), Len(s) = 1
    PROVE  Head(s) \in S /\ s = <<Head(s)>>
<1>1. s[1] \in S
  BY ElementOfSeq
<1>2. Head(s) = s[1]
  OBVIOUS
<1>3. <<s[1]>> \in Seq(S) /\ Len(<<s[1]>>) = 1 /\ \A i \in 1..1 : s[i] = <<s[1]>>[i]
  BY <1>1
<1>4. s = <<s[1]>>
  BY <1>3, SeqEqual
<1> QED BY <1>1, <1>2, <1>4

LEMMA CallMembers ==
    ASSUME Types, doing # None
    PROVE  /\ doing.of \in Requests \cup {None}
           /\ doing.target \subseteq Int /\ doing.joint \subseteq Int
           /\ doing.speed \subseteq 0..UINT16_MAX /\ doing.zone \subseteq 0..6
           /\ doing.moving \in BOOLEAN
<1>1. doing \in Calls
  BY DEF Types
<1> QED BY <1>1 DEF Calls

LEMMA FieldsDiffer == Speed # Zone /\ Speed # X /\ Zone # X
<1>1. Speed.part = "current_speed" /\ Zone.part = "current_zone" /\ X.part = "current_target"
  BY DEF Speed, Zone, X, Field
<1>2. Speed.part # Zone.part /\ Speed.part # X.part /\ Zone.part # X.part
  BY <1>1
<1> QED BY <1>2

\* The report of GETSTATUS.
Values ==
    [f \in {Speed, Zone, X} |->
        CASE f = Speed -> move_speed
          [] f = Zone  -> zone_to_value(move_zone)
          [] f = X     -> at]

Report == [kind |-> "report", values |-> Values]

LEMMA ReportMembers ==
    ASSUME Types
    PROVE  /\ Report \in Replies /\ Report.kind = "report"
           /\ Report.values[Speed] = move_speed
           /\ Report.values[Zone] = zone_to_value(move_zone)
           /\ Report.values[X] = at
<1>1. /\ Values[Speed] = move_speed /\ Values[Zone] = zone_to_value(move_zone)
      /\ Values[X] = at /\ Values = [f \in {Speed, Zone, X} |-> Values[f]]
  BY FieldsDiffer DEF Values
<1>2. move_speed \in Int /\ zone_to_value(move_zone) \in Int /\ at \in Int
  <2>1. move_speed \in 5..MaxRobSpeed /\ move_zone \in {ZoneData[i] : i \in 1..8} /\ at \in Int
    BY DEF Types
  <2>2. zone_to_value(move_zone) \in 0..7
    BY <2>1, ZoneValues
  <2> QED BY <2>1, <2>2
<1>3. \A f \in {Speed, Zone, X} : Values[f] \in Int
  BY <1>1, <1>2
<1>4. Values \in [{Speed, Zone, X} -> Int]
  BY <1>1, <1>3
<1>5. Report = [kind |-> "report", values |-> Values]
  BY DEF Report
<1> QED BY <1>1, <1>4, <1>5 DEF Replies

\* The end of a call: only the reply differs, and what the command sets.
ActionEnds ==
    MotionDone \/ MotionFails \/ Refuse \/ SetSpeed \/ SetZone \/ PINGR \/ GetState

\* What a reply says that is the only one.
Outcome(r) ==
    \/ r.kind = "ACK" /\ MotionDone
    \/ r.kind = "NACK" /\ MotionFails
    \/ r.kind = "NACK" /\ Refuse
    \/ r.kind = "ACK" /\ SetSpeed /\ move_speed' \in doing.speed
    \/ r.kind = "NACK" /\ SetSpeed /\ move_speed' = move_speed
    \/ r.kind = "ACK" /\ SetZone
    \/ r.kind = "ACK" /\ PINGR
    \/ r = Report /\ r.kind = "report" /\ GetState

LEMMA FewReplies ==
    ASSUME NEW S, NEW a \in S
    PROVE  /\ \E t \in Seq(S) : t = <<a>> /\ t # <<>>
           /\ \E t \in Seq(S) : t = <<a, a>> /\ t # <<>>
<1>1. <<a>> \in Seq(S) /\ <<a, a>> \in Seq(S) /\ <<a>> # <<>> /\ <<a, a>> # <<>>
  OBVIOUS
<1> QED BY <1>1

\* What a call sends and what it does with its connection.
LEMMA Responds ==
    ASSUME Types, OneAtATime, ActionEnds
    PROVE  \E sent \in Seq(Replies) :
              /\ SendResponse(sent) /\ sent # <<>>
              /\ slips' \in 0..MaxSlips /\ (slips' = 0 => slips = 0)
              /\ slips' = 0 => \E a \in Replies : sent = <<a>> /\ Outcome(a)
<1>1. /\ slips \in 0..MaxSlips /\ MaxSlips \in Nat
  BY MaxSlipsAssumption DEF Types
<1>2. ACK \in Replies /\ ACK.kind = "ACK" /\ NACK \in Replies /\ NACK.kind = "NACK"
  BY DEF ACK, NACK, Replies
<1>3. Report \in Replies /\ Report.kind = "report"
  BY ReportMembers
<1>4. ASSUME NEW a \in Replies, SendResponse(<<a>>), Outcome(a), slips' = slips
      PROVE  \E sent \in Seq(Replies) :
                /\ SendResponse(sent) /\ sent # <<>>
                /\ slips' \in 0..MaxSlips /\ (slips' = 0 => slips = 0)
                /\ slips' = 0 => \E b \in Replies : sent = <<b>> /\ Outcome(b)
  <2>1. PICK sent \in Seq(Replies) : sent = <<a>> /\ sent # <<>>
    BY FewReplies
  <2>2. SendResponse(sent)
    BY <1>4, <2>1
  <2> QED BY <1>1, <1>4, <2>1, <2>2
<1>5. CASE MotionFails /\ SendResponse(<<NACK, NACK>>) /\ Slip
  <2>1. slips' \in 0..MaxSlips /\ slips' # 0
    BY <1>1, <1>5 DEF Slip
  <2>2. PICK sent \in Seq(Replies) : sent = <<NACK, NACK>> /\ sent # <<>>
    BY <1>2, FewReplies
  <2>3. SendResponse(sent)
    BY <1>5, <2>2
  <2> QED BY <1>1, <2>1, <2>2, <2>3
<1>6. CASE MotionDone
  BY <1>2, <1>4, <1>6 DEF MotionDone, Outcome
<1>7. CASE MotionFails /\ SendResponse(<<NACK>>) /\ UNCHANGED slips
  BY <1>2, <1>4, <1>7 DEF Outcome
<1>8. CASE Refuse
  BY <1>2, <1>4, <1>8 DEF Refuse, Outcome
<1>9. CASE SetSpeed
  <2>1. \/ SendResponse(<<NACK>>) /\ move_speed' = move_speed /\ slips' = slips
        \/ SendResponse(<<ACK>>) /\ move_speed' \in doing.speed /\ slips' = slips
    BY <1>9 DEF SetSpeed
  <2> QED BY <1>2, <1>4, <1>9, <2>1 DEF Outcome
<1>10. CASE SetZone
  BY <1>2, <1>4, <1>10 DEF SetZone, Outcome
<1>11. CASE PINGR
  BY <1>2, <1>4, <1>11 DEF PINGR, Outcome
<1>12. CASE GetState
  <2>1. SendResponse(<<Report>>) /\ slips' = slips
    BY <1>12 DEF GetState, Report, Values
  <2> QED BY <1>3, <1>4, <1>12, <2>1 DEF Outcome
<1>13. MotionFails => \/ SendResponse(<<NACK>>) /\ UNCHANGED slips
                      \/ SendResponse(<<NACK, NACK>>) /\ Slip
  BY DEF MotionFails
<1> QED BY <1>5, <1>6, <1>7, <1>8, <1>9, <1>10, <1>11, <1>12, <1>13 DEF ActionEnds

LEMMA ReplyOfAction ==
    ASSUME Types, OneAtATime, ActionEnds
    PROVE  /\ doing # None /\ doing' = None /\ replies' \in Seq(Replies)
           /\ pc = "down" => replies' = <<>>
           /\ pc # "down" => replies' # <<>>
           /\ slips' \in 0..MaxSlips /\ (slips' = 0 => slips = 0)
           /\ UNCHANGED <<pc, asked, toRobot, client_connected, known>>
           /\ pc = "recv" /\ Clean' =>
                 /\ Pending /\ doing.of = asked /\ Len(replies') = 1
                 /\ Reply' \in Replies /\ Outcome(Reply')
           /\ ~(pc = "idle" /\ Clean')
<1>1. doing # None /\ UNCHANGED <<pc, asked, toRobot, client_connected, known>>
  BY DEF ActionEnds, MotionDone, MotionFails, Refuse, SetSpeed, SetZone, PINGR, GetState,
         OtherThanAction, OtherThanController
<1>2. PICK sent \in Seq(Replies) :
        /\ SendResponse(sent) /\ sent # <<>>
        /\ slips' \in 0..MaxSlips /\ (slips' = 0 => slips = 0)
        /\ slips' = 0 => \E a \in Replies : sent = <<a>> /\ Outcome(a)
  BY Responds
<1>3. doing' = None /\ replies' = IF pc = "down" THEN replies ELSE replies \o sent
  BY <1>2 DEF SendResponse
<1>4. replies \in Seq(Replies) /\ (pc = "down" => replies = <<>>)
  BY DEF Types, OneAtATime
<1>5. /\ replies \o sent \in Seq(Replies) /\ replies \o sent # <<>>
      /\ replies = <<>> => replies \o sent = sent
  BY <1>2, <1>4, AnswerFacts
<1>6. Clean' => slips' = 0 /\ Clean
  BY <1>1, <1>2 DEF Clean
<1>7. ~(pc = "idle" /\ Clean')
  BY <1>1, <1>6 DEF OneAtATime
<1>8. ASSUME pc = "recv", Clean'
      PROVE  /\ Pending /\ doing.of = asked /\ Len(replies') = 1
             /\ Reply' \in Replies /\ Outcome(Reply')
  <2>1. replies = <<>> /\ doing.of = asked
    BY <1>1, <1>6, <1>8 DEF OneAtATime, Alone
  <2>2. PICK a \in Replies : sent = <<a>> /\ Outcome(a)
    BY <1>2, <1>6, <1>8
  <2>3. replies' = <<a>>
    BY <1>3, <1>5, <1>8, <2>1, <2>2
  <2>4. Len(replies') = 1 /\ Head(replies') = a
    BY <2>3
  <2>5. Reply' = a
    BY <2>4 DEF Reply
  <2> QED BY <1>6, <1>8, <2>1, <2>2, <2>4, <2>5 DEF Pending
<1> QED BY <1>1, <1>2, <1>3, <1>4, <1>5, <1>7, <1>8

-----------------------------------------------------------------------------
(* The report *)

LEMMA Pair == ASSUME NEW a, NEW b PROVE <<a, b>>[1] = a /\ <<a, b>>[2] = b
OBVIOUS

\* Where unpack_robot_status reads the speed, the zone and the position,
LEMMA ReportReads ==
    ASSUME NEW r \in StatusReads
    PROVE  /\ r[1] = Speed => r[2] = 5
           /\ r[1] = Zone => r[2] = 9
           /\ r[1] = X => r[2] = 13
<1> DEFINE Is(part, index) == r[1].part = part /\ r[2] = index
<1>1. /\ Speed.part = "current_speed" /\ Zone.part = "current_zone"
      /\ X.part = "current_target" /\ X.name = "x"
  BY DEF Speed, Zone, X, Field
<1>2. CASE r \in {<<Field("op_mode", "", 1), 0>>, <<Field("speed_override", "", 4), 1>>,
                  <<Field("current_speed", "", 4), 5>>, <<Field("current_zone", "", 4), 9>>,
                  <<Field("robot_time", "", 8), 129>>, <<Field("robot_date", "", 10), 161>>}
  <2>1. ASSUME NEW part, NEW size, NEW index, r = <<Field(part, "", size), index>>
        PROVE  r[1].part = part /\ r[2] = index
    <3>1. r[1] = Field(part, "", size) /\ r[2] = index
      BY <2>1, Zenon, Pair
    <3>2. r[1].part = part
      BY <3>1, FieldPart
    <3> QED BY <3>1, <3>2
  <2>2. CASE r = <<Field("current_speed", "", 4), 5>>
    <3>1. r[1].part = "current_speed" /\ r[2] = 5
      BY <2>1, <2>2, Zenon
    <3> QED BY <1>1, <3>1
  <2>3. CASE r = <<Field("current_zone", "", 4), 9>>
    <3>1. r[1].part = "current_zone" /\ r[2] = 9
      BY <2>1, <2>3, Zenon
    <3> QED BY <1>1, <3>1
  <2>4. ASSUME NEW f, \/ r = <<f, 0>> \/ r = <<f, 1>> \/ r = <<f, 129>> \/ r = <<f, 161>>
        PROVE  r[1] = f
    BY <2>4
  <2>5. ASSUME NEW part, part \notin {"current_speed", "current_zone", "current_target"},
               NEW size, r[1] = Field(part, "", size)
        PROVE  r[1] # Speed /\ r[1] # Zone /\ r[1] # X
    <3>1. r[1].part = part
      BY <2>5, FieldPart
    <3> QED BY <1>1, <2>5, <3>1
  <2>6. CASE r = <<Field("op_mode", "", 1), 0>>
    <3>1. r[1] = Field("op_mode", "", 1)
      BY <2>4, <2>6, Zenon
    <3> QED BY <2>5, <3>1, Zenon
  <2>7. CASE r = <<Field("speed_override", "", 4), 1>>
    <3>1. r[1] = Field("speed_override", "", 4)
      BY <2>4, <2>7, Zenon
    <3> QED BY <2>5, <3>1, Zenon
  <2>8. CASE r = <<Field("robot_time", "", 8), 129>>
    <3>1. r[1] = Field("robot_time", "", 8)
      BY <2>4, <2>8, Zenon
    <3> QED BY <2>5, <3>1, Zenon
  <2>9. CASE r = <<Field("robot_date", "", 10), 161>>
    <3>1. r[1] = Field("robot_date", "", 10)
      BY <2>4, <2>9, Zenon
    <3> QED BY <2>5, <3>1, Zenon
  <2> QED BY <1>2, <2>2, <2>3, <2>6, <2>7, <2>8, <2>9
<1>3. CASE r \in WordsFrom(13, "current_target", RobTarget)
  <2>1. PICK i \in 1..17 : r = <<Field("current_target", RobTarget[i], 4), 13 + 4 * (i - 1)>>
    BY <1>3, NamesOfWords DEF WordsFrom
  <2>2. r[1].part = "current_target" /\ r[1].name = RobTarget[i] /\ r[2] = 13 + 4 * (i - 1)
    BY <2>1 DEF Field
  <2>3. r[1] = X => i = 1
    BY <1>1, <2>2, NamesOfWords
  <2> QED BY <1>1, <2>2, <2>3
<1>4. CASE r \in WordsFrom(81, "current_joint_target", JointTarget)
  <2>1. r[1].part = "current_joint_target"
    BY <1>4 DEF WordsFrom, Field
  <2> QED BY <1>1, <2>1
<1> QED BY <1>2, <1>3, <1>4 DEF StatusReads

\* and what HandleGetState has packed there.
LEMMA ReportPacked ==
    ASSUME NEW v \in HandleGetState
    PROVE  /\ v[2] = 6 => v[1] = Speed
           /\ v[2] = 10 => v[1] = Zone
           /\ v[2] = 14 => v[1] = X
<1>1. CASE v \in {<<Field("op_mode", "", 1), 1>>, <<Field("speed_override", "", 4), 2>>,
     <<Field("current_speed", "", 4), 6>>, <<Field("current_zone", "", 4), 10>>,
     <<Field("robot_time", "", 8), 130>>, <<Field("robot_date", "", 10), 162>>}
  <2>1. ASSUME NEW f, \/ v = <<f, 1>> \/ v = <<f, 2>> \/ v = <<f, 130>> \/ v = <<f, 162>>
        PROVE  v[2] # 6 /\ v[2] # 10 /\ v[2] # 14
    BY <2>1
  <2>2. ASSUME NEW f, NEW index, v = <<f, index>> PROVE v[1] = f /\ v[2] = index
    BY <2>2, Pair
  <2>3. CASE v = <<Field("op_mode", "", 1), 1>>
    BY <2>1, <2>3, Zenon
  <2>4. CASE v = <<Field("speed_override", "", 4), 2>>
    BY <2>1, <2>4, Zenon
  <2>5. CASE v = <<Field("robot_time", "", 8), 130>>
    <3>1. PICK f : v = <<f, 130>>
      BY <2>5, Zenon
    <3> QED BY <3>1
  <2>6. CASE v = <<Field("robot_date", "", 10), 162>>
    <3>1. PICK f : v = <<f, 162>>
      BY <2>6, Zenon
    <3> QED BY <3>1
  <2>7. CASE v = <<Field("current_speed", "", 4), 6>>
    <3>1. v[1] = Speed /\ v[2] = 6
      BY <2>2, <2>7, Zenon DEF Speed
    <3> QED BY <3>1
  <2>8. CASE v = <<Field("current_zone", "", 4), 10>>
    <3>1. v[1] = Zone /\ v[2] = 10
      BY <2>2, <2>8, Zenon DEF Zone
    <3> QED BY <3>1
  <2> QED BY <1>1, <2>3, <2>4, <2>5, <2>6, <2>7, <2>8
<1>2. CASE v \in WordsFrom(14, "current_target", RobTarget)
  <2>1. PICK i \in 1..17 : v = <<Field("current_target", RobTarget[i], 4), 14 + 4 * (i - 1)>>
    BY <1>2, NamesOfWords DEF WordsFrom
  <2>2. v[1] = Field("current_target", RobTarget[i], 4) /\ v[2] = 14 + 4 * (i - 1)
    BY <2>1
  <2>3. v[2] # 6 /\ v[2] # 10 /\ (v[2] = 14 => i = 1)
    BY <2>2
  <2>4. RobTarget[1] = "x"
    BY DEF RobTarget
  <2> QED BY <2>2, <2>3, <2>4 DEF X
<1>3. CASE v \in WordsFrom(82, "current_joint_target", JointTarget)
  <2>1. PICK i \in 1..12 : v = <<Field("current_joint_target", JointTarget[i], 4), 82 + 4 * (i - 1)>>
    BY <1>3, NamesOfWords DEF WordsFrom
  <2>2. v[2] = 82 + 4 * (i - 1)
    BY <2>1
  <2> QED BY <2>2
<1> QED BY <1>1, <1>2, <1>3 DEF HandleGetState

LEMMA ReportPlaces ==
    /\ <<Speed, 6>> \in HandleGetState /\ <<Speed, 5>> \in StatusReads
    /\ <<Zone, 10>> \in HandleGetState /\ <<Zone, 9>> \in StatusReads
    /\ <<X, 14>> \in HandleGetState /\ <<X, 13>> \in StatusReads
<1>1. /\ <<Speed, 6>> \in HandleGetState /\ <<Speed, 5>> \in StatusReads
      /\ <<Zone, 10>> \in HandleGetState /\ <<Zone, 9>> \in StatusReads
  BY DEF Speed, Zone, HandleGetState, StatusReads
<1>2. X = Field("current_target", RobTarget[1], 4)
  BY DEF X, RobTarget
<1>3. 1 \in DOMAIN RobTarget /\ 14 + 4 * (1 - 1) = 14 /\ 13 + 4 * (1 - 1) = 13
  BY NamesOfWords
<1>4. <<X, 14>> \in WordsFrom(14, "current_target", RobTarget)
  BY <1>2, <1>3 DEF WordsFrom
<1>5. <<X, 13>> \in WordsFrom(13, "current_target", RobTarget)
  BY <1>2, <1>3 DEF WordsFrom
<1> QED BY <1>1, <1>4, <1>5 DEF HandleGetState, StatusReads

\* A number that is packed at one index and read there is read as what it is, once
\* the report is as long as unpack_robot_status wants it.
LEMMA NumberReported ==
    ASSUME NEW field \in {Speed, Zone, X}, NEW n \in Int, StatusMinimum <= n
    PROVE  ReadFrom(field, n) = {field}
<1> DEFINE Offset == IF field = Speed THEN 5 ELSE IF field = Zone THEN 9 ELSE 13
<1>1. Speed.size = 4 /\ Zone.size = 4 /\ X.size = 4
  BY DEF Speed, Zone, X, Field
<1>2. field.size = 4 /\ Offset + field.size <= n /\ Offset \in Int
  BY <1>1 DEF StatusMinimum
<1>3. \A r \in StatusReads : r[1] = field => r[2] = Offset
  BY ReportReads
<1>4. \A v \in HandleGetState : v[2] = Offset + 1 => v[1] = field
  BY ReportPacked
<1>5. <<field, Offset + 1>> \in HandleGetState /\ <<field, Offset>> \in StatusReads
  BY ReportPlaces
<1> HIDE DEF Offset
<1>6. ASSUME NEW g \in ReadFrom(field, n) PROVE g = field
  <2>1. PICK v \in HandleGetState :
          g = v[1] /\ \E r \in StatusReads : r[1] = field /\ v[2] = r[2] + 1
    BY DEF ReadFrom
  <2> QED BY <1>3, <1>4, <2>1
<1>7. field \in ReadFrom(field, n)
  <2>1. PICK v : v = <<field, Offset + 1>>
    OBVIOUS
  <2>2. PICK r : r = <<field, Offset>>
    OBVIOUS
  <2>3. /\ v \in HandleGetState /\ v[1] = field /\ v[2] = Offset + 1
        /\ r \in StatusReads /\ r[1] = field /\ r[2] = Offset
    BY <1>5, <2>1, <2>2
  <2>4. \E s \in StatusReads : /\ s[1] = field /\ v[2] = s[2] + 1 /\ v[1].size = field.size
                               /\ s[2] + field.size <= n
    BY <1>2, <2>3
  <2> QED BY <2>3, <2>4 DEF ReadFrom
<1> QED BY <1>6, <1>7

-----------------------------------------------------------------------------
(* What is known *)

LEMMA KnowledgeKept ==
    ASSUME Types
    PROVE  /\ NothingKnown \in Knowledge
           /\ \A c : Doubted(c) \in Knowledge
           /\ Known \in Knowledge
           /\ [known EXCEPT !.report = {}] \in Knowledge
<1>1. known \in Knowledge
  BY DEF Types
<1>2. \A c : Doubted(c) \in Knowledge
  BY <1>1 DEF Knowledge, Doubted
<1>3. NothingKnown \in Knowledge
  BY DEF NothingKnown, Knowledge
<1>4. [known EXCEPT !.report = {}] \in Knowledge
  BY <1>1 DEF Knowledge
<1> QED BY <1>1, <1>2, <1>3, <1>4 DEF Known

LEMMA DoubtsOf ==
    ASSUME NEW c
    PROVE  /\ Doubted(c).speed = IF c = "SETSPEED" THEN {} ELSE known.speed
           /\ Doubted(c).zone = IF c = "SETZONE" THEN {} ELSE known.zone
           /\ Doubted(c).goal = IF c \in Motions THEN {} ELSE known.goal
           /\ Doubted(c).at = IF c \in Motions THEN {} ELSE known.at
           /\ Doubted(c).report = {}
BY DEF Doubted

LEMMA NothingIsKnown ==
    /\ NothingKnown.speed = {} /\ NothingKnown.zone = {} /\ NothingKnown.goal = {}
    /\ NothingKnown.at = {} /\ NothingKnown.report = {}
BY DEF NothingKnown

LEMMA PlacesKnown ==
    ASSUME Types, asked # None
    PROVE  GoalAsked \subseteq Int /\ PlaceAsked \subseteq Int
<1>1. /\ asked.target \subseteq Int /\ asked.joint_target \subseteq Int
      /\ known.at \subseteq Int
  BY RequestMembers DEF Types, Knowledge
<1>2. {p + d : p \in known.at, d \in asked.target} \subseteq Int
  BY <1>1
<1>3. ZeroPlace \in Int
  BY PlacesAssumption
<1>4. GoalAsked \subseteq Int
  BY <1>1, <1>2, <1>3 DEF GoalAsked
<1> QED BY <1>4 DEF PlaceAsked

LEMMA Unpacked ==
    ASSUME NEW values \in [{Speed, Zone, X} -> Int], NEW n \in Int,
           NEW s \in unpack_robot_status(values, n)
    PROVE  /\ s \in [{Speed, Zone, X} -> SUBSET (Int \cup Zones)]
           /\ s[Speed] = {values[Speed]} /\ s[Zone] = ZoneReported(values[Zone])
           /\ s[X] = {values[X]}
<1> DEFINE Read(f) == {values[g] : g \in ReadFrom(f, n) \cap DOMAIN values}
<1>1. /\ StatusMinimum <= n
      /\ s = [f \in DOMAIN values |->
                IF f = Zone THEN UNION {ZoneReported(number) : number \in Read(f)} ELSE Read(f)]
  BY DEF unpack_robot_status, StatusMinimum
<1>2. DOMAIN values = {Speed, Zone, X}
  OBVIOUS
<1>3. ASSUME NEW f \in {Speed, Zone, X} PROVE Read(f) = {values[f]}
  <2>1. ReadFrom(f, n) \cap DOMAIN values = {f}
    BY <1>1, NumberReported
  <2> QED BY <2>1
<1> HIDE DEF Read
<1>4. s[Speed] = {values[Speed]} /\ s[X] = {values[X]}
  BY <1>1, <1>2, <1>3, FieldsDiffer
<1>5. s[Zone] = ZoneReported(values[Zone])
  <2>1. s[Zone] = UNION {ZoneReported(number) : number \in {values[Zone]}}
    BY <1>1, <1>2, <1>3
  <2> QED BY <2>1
<1>6. ZoneReported(values[Zone]) \subseteq Zones
  BY DEF ZoneReported
<1>7. \A f \in {Speed, Zone, X} : s[f] \in SUBSET (Int \cup Zones)
  BY <1>4, <1>5, <1>6
<1>8. s = [f \in {Speed, Zone, X} |-> s[f]]
  BY <1>1, <1>2
<1>9. s \in [{Speed, Zone, X} -> SUBSET (Int \cup Zones)]
  BY <1>7, <1>8
<1> QED BY <1>4, <1>5, <1>9

LEMMA Learnt ==
    ASSUME Types, asked # None, NEW reply \in Replies, NEW n \in Int
    PROVE  /\ Learn(reply, n) \in Knowledge
           /\ Learn(reply, n).speed =
                 IF asked.cmd = "SETSPEED" /\ reply.kind = "ACK" THEN {asked.speed} ELSE known.speed
           /\ Learn(reply, n).zone =
                 IF asked.cmd = "SETZONE" /\ reply.kind = "ACK" THEN {asked.zone} ELSE known.zone
           /\ Learn(reply, n).goal =
                 IF asked.cmd \notin Motions THEN known.goal
                 ELSE IF reply.kind = "ACK" THEN GoalAsked ELSE {}
           /\ Learn(reply, n).at =
                 IF asked.cmd \notin Motions THEN known.at
                 ELSE IF reply.kind = "ACK" THEN PlaceAsked ELSE {}
           /\ Learn(reply, n).report =
                 IF asked.cmd = "GETSTATUS" /\ reply.kind = "report"
                 THEN unpack_robot_status(reply.values, n) ELSE known.report
<1> DEFINE L == Learn(reply, n)
           AsSaid == /\ L \in Knowledge
                     /\ L.speed = IF asked.cmd = "SETSPEED" /\ reply.kind = "ACK"
                                  THEN {asked.speed} ELSE known.speed
                     /\ L.zone = IF asked.cmd = "SETZONE" /\ reply.kind = "ACK"
                                 THEN {asked.zone} ELSE known.zone
                     /\ L.goal = IF asked.cmd \notin Motions THEN known.goal
                                 ELSE IF reply.kind = "ACK" THEN GoalAsked ELSE {}
                     /\ L.at = IF asked.cmd \notin Motions THEN known.at
                               ELSE IF reply.kind = "ACK" THEN PlaceAsked ELSE {}
                     /\ L.report = IF asked.cmd = "GETSTATUS" /\ reply.kind = "report"
                                   THEN unpack_robot_status(reply.values, n) ELSE known.report
<1>1. known \in Knowledge
  BY DEF Types
<1>2. /\ asked.speed \in Speeds \cup {0}
      /\ asked.cmd = "SETZONE" => asked.zone \in ProtoZones
  BY RequestMembers DEF Types
<1>3. GoalAsked \subseteq Int /\ PlaceAsked \subseteq Int
  BY PlacesKnown
<1>4. "SETSPEED" \notin Motions /\ "SETZONE" \notin Motions /\ "GETSTATUS" \notin Motions
  BY DEF Motions, Cartesian, ByOffset
<1>5. CASE asked.cmd = "SETSPEED" /\ reply.kind = "ACK"
  <2>1. L = [known EXCEPT !.speed = {asked.speed}]
    BY <1>4, <1>5 DEF Learn
  <2>2. PICK speeds \in SUBSET (Speeds \cup {0}) : speeds = {asked.speed}
    BY <1>2
  <2>3. L = [known EXCEPT !.speed = speeds]
    BY <2>1, <2>2
  <2>4. /\ L \in Knowledge /\ L.speed = speeds /\ L.zone = known.zone /\ L.goal = known.goal
        /\ L.at = known.at /\ L.report = known.report
    BY <1>1, <2>3 DEF Knowledge
  <2>5. asked.cmd # "SETZONE" /\ asked.cmd \notin Motions /\ asked.cmd # "GETSTATUS"
    BY <1>4, <1>5
  <2> QED BY <1>5, <2>2, <2>4, <2>5
<1>6. CASE asked.cmd = "SETZONE" /\ reply.kind = "ACK"
  <2>1. L = [known EXCEPT !.zone = {asked.zone}]
    BY <1>4, <1>6 DEF Learn
  <2>2. PICK zones \in SUBSET ProtoZones : zones = {asked.zone}
    BY <1>2, <1>6
  <2>3. L = [known EXCEPT !.zone = zones]
    BY <2>1, <2>2
  <2>4. /\ L \in Knowledge /\ L.zone = zones /\ L.speed = known.speed /\ L.goal = known.goal
        /\ L.at = known.at /\ L.report = known.report
    BY <1>1, <2>3 DEF Knowledge
  <2>5. asked.cmd # "SETSPEED" /\ asked.cmd \notin Motions /\ asked.cmd # "GETSTATUS"
    BY <1>4, <1>6
  <2> QED BY <1>6, <2>2, <2>4, <2>5
<1>7. CASE asked.cmd \in Motions /\ reply.kind = "ACK"
  <2>1. L = [known EXCEPT !.goal = GoalAsked, !.at = PlaceAsked]
    BY <1>4, <1>7 DEF Learn
  <2> QED BY <1>1, <1>3, <1>4, <1>7, <2>1 DEF Knowledge
<1>8. CASE asked.cmd \in Motions /\ reply.kind # "ACK"
  <2>1. L = [known EXCEPT !.goal = {}, !.at = {}]
    BY <1>4, <1>8 DEF Learn
  <2> QED BY <1>1, <1>4, <1>8, <2>1 DEF Knowledge
<1>9. CASE asked.cmd = "GETSTATUS" /\ reply.kind = "report"
  <2>1. L = [known EXCEPT !.report = unpack_robot_status(reply.values, n)]
    BY <1>4, <1>9 DEF Learn
  <2>2. unpack_robot_status(reply.values, n) \subseteq [{Speed, Zone, X} -> SUBSET (Int \cup Zones)]
    <3>1. reply.values \in [{Speed, Zone, X} -> Int]
      BY <1>9 DEF Replies
    <3> QED BY <3>1, Unpacked
  <2> QED BY <1>1, <1>4, <1>9, <2>1, <2>2 DEF Knowledge
<1>10. CASE /\ ~(asked.cmd = "SETSPEED" /\ reply.kind = "ACK")
            /\ ~(asked.cmd = "SETZONE" /\ reply.kind = "ACK")
            /\ asked.cmd \notin Motions
            /\ ~(asked.cmd = "GETSTATUS" /\ reply.kind = "report")
  <2>1. L = known
    BY <1>10 DEF Learn
  <2> QED BY <1>1, <1>10, <2>1 DEF Knowledge
<1>11. AsSaid
  BY <1>5, <1>6, <1>7, <1>8, <1>9, <1>10
<1> QED BY <1>11

-----------------------------------------------------------------------------
(* Calls *)

LEMMA CommandNames ==
    \A cmd \in MoveCommands \cup {"SetSpeed", "SetZone", "PINGR", "GETSTATUS", "UNKNOWN"} :
        cmd \in {command_to_string(id) : id \in 0..18}
<1> DEFINE CommandWords == {command_to_string(id) : id \in 0..18}
<1>1. /\ command_to_string(0) = "MoveL" /\ command_to_string(1) = "MoveJ"
      /\ command_to_string(2) = "MoveC" /\ command_to_string(3) = "MoveAbsJ"
      /\ command_to_string(4) = "SetSpeed" /\ command_to_string(5) = "SetZone"
      /\ command_to_string(8) = "PINGR" /\ command_to_string(9) = "ZERO"
      /\ command_to_string(10) = "GETSTATUS" /\ command_to_string(16) = "MoveLOffs"
      /\ command_to_string(17) = "MoveJOffs" /\ command_to_string(18) = "UNKNOWN"
  BY DEF command_to_string
<1>2. \A id \in 0..18 : command_to_string(id) \in CommandWords
  OBVIOUS
<1> HIDE DEF CommandWords
<1>3. /\ "MoveL" \in CommandWords /\ "MoveJ" \in CommandWords /\ "MoveC" \in CommandWords /\ "MoveAbsJ" \in CommandWords
      /\ "SetSpeed" \in CommandWords /\ "SetZone" \in CommandWords /\ "PINGR" \in CommandWords /\ "ZERO" \in CommandWords
      /\ "GETSTATUS" \in CommandWords /\ "MoveLOffs" \in CommandWords /\ "MoveJOffs" \in CommandWords
      /\ "UNKNOWN" \in CommandWords
  <2>1. \A id \in {0, 1, 2, 3, 4, 5, 8, 9, 10, 16, 17, 18} : command_to_string(id) \in CommandWords
    BY <1>2
  <2> QED BY <1>1, <2>1
<1>4. \A cmd \in MoveCommands \cup {"SetSpeed", "SetZone", "PINGR", "GETSTATUS", "UNKNOWN"} :
          cmd \in CommandWords
  BY <1>3 DEF MoveCommands, JointMotions
<1> QED BY <1>4 DEF CommandWords

LEMMA CallIsCall ==
    ASSUME NEW cmd, cmd \in {command_to_string(id) : id \in 0..18},
           NEW target, target \subseteq Int, NEW extra, extra \subseteq Int,
           NEW joint, joint \subseteq Int,
           NEW speed, speed \subseteq 0..UINT16_MAX, NEW zone, zone \subseteq 0..6
    PROVE  /\ Call(None, cmd, target, extra, joint, speed, zone) \in Calls
           /\ Call(None, cmd, target, extra, joint, speed, zone).of = None
           /\ Call(None, cmd, target, extra, joint, speed, zone).moving = FALSE
<1> DEFINE CommandWords == {command_to_string(id) : id \in 0..18}
           Word == 0..UINT16_MAX
           call == Call(None, cmd, target, extra, joint, speed, zone)
<1>1. cmd \in CommandWords /\ speed \in SUBSET Word
  OBVIOUS
<1>2. Calls = [of : Requests \cup {None}, cmd : CommandWords, target : SUBSET Int,
               extra : SUBSET Int, joint : SUBSET Int, speed : SUBSET Word,
               zone : SUBSET (0..6), moving : BOOLEAN]
  BY DEF Calls
<1>3. call = [of |-> None, cmd |-> cmd, target |-> target, extra |-> extra, joint |-> joint,
              speed |-> speed, zone |-> zone, moving |-> FALSE]
  BY DEF Call
<1> HIDE DEF CommandWords, Word, call
<1>4. call \in Calls /\ call.of = None /\ call.moving = FALSE
  BY <1>1, <1>2, <1>3
<1> QED BY <1>4 DEF call

\* Whatever the middle of a request is taken for.
LEMMA StrayCallsAreCalls ==
    ASSUME NEW n, NEW c \in StrayCalls(n)
    PROVE  c \in Calls /\ c.of = None /\ c.moving = FALSE
<1>0. PICK d \in Misread : c = d
  BY DEF StrayCalls
<1> DEFINE Numbers == UNION {uint16(q) : q \in Speeds}
           A == {Call(None, cmd, {p}, {p}, {p}, {}, {}) : cmd \in MoveCommands, p \in Places}
           B == {Call(None, "SetSpeed", {}, {}, {}, {s}, {}) : s \in Numbers}
           C == {Call(None, "SetZone", {}, {}, {}, {}, {proto_zone_enum2rapid_zone_enum(z)}) :
                    z \in ProtoZones}
           D == {Call(None, cmd, {}, {}, {}, {}, {}) : cmd \in {"PINGR", "GETSTATUS", "UNKNOWN"}}
<1>1. PICK nothing : nothing = {}
  OBVIOUS
<1>2. nothing \subseteq Int /\ nothing \subseteq 0..UINT16_MAX /\ nothing \subseteq 0..6
  BY <1>1
<1>3. Numbers \subseteq 0..UINT16_MAX
  <2>1. \A q \in Speeds : uint16(q) \subseteq 0..UINT16_MAX
    BY CastOfSpeed, SpeedsAssumption
  <2> QED BY <2>1
<1>4. d \in A \/ d \in B \/ d \in C \/ d \in D
  <2>1. Misread = A \cup B \cup C \cup D
    BY DEF Misread
  <2> HIDE DEF A, B, C, D
  <2> QED BY <2>1
<1> HIDE DEF Numbers, A, B, C, D
<1>5. d \in A => d \in Calls /\ d.of = None /\ d.moving = FALSE
  <2>0. SUFFICES ASSUME d \in A PROVE d \in Calls /\ d.of = None /\ d.moving = FALSE
    OBVIOUS
  <2> USE DEF A
  <2>1. PICK cmd \in MoveCommands : \E p \in Places : d = Call(None, cmd, {p}, {p}, {p}, {}, {})
    BY <2>0
  <2>2. PICK p \in Places : d = Call(None, cmd, {p}, {p}, {p}, {}, {})
    BY <2>1
  <2>3. PICK place : place = {p}
    OBVIOUS
  <2>4. place \subseteq Int /\ cmd \in {command_to_string(id) : id \in 0..18}
    BY <2>3, CommandNames, PlacesAssumption
  <2>5. d = Call(None, cmd, place, place, place, nothing, nothing)
    BY <1>1, <2>2, <2>3
  <2> QED BY <1>2, <2>4, <2>5, CallIsCall
<1>6. d \in B => d \in Calls /\ d.of = None /\ d.moving = FALSE
  <2>0. SUFFICES ASSUME d \in B PROVE d \in Calls /\ d.of = None /\ d.moving = FALSE
    OBVIOUS
  <2> USE DEF B
  <2>1. PICK s \in Numbers : d = Call(None, "SetSpeed", {}, {}, {}, {s}, {})
    BY <2>0
  <2>2. PICK cmd : cmd = "SetSpeed"
    OBVIOUS
  <2>3. PICK speed : speed = {s}
    OBVIOUS
  <2>4. speed \subseteq 0..UINT16_MAX /\ cmd \in {command_to_string(id) : id \in 0..18}
    BY <1>3, <2>2, <2>3, CommandNames
  <2>5. d = Call(None, cmd, nothing, nothing, nothing, speed, nothing)
    BY <1>1, <2>1, <2>2, <2>3
  <2> QED BY <1>2, <2>4, <2>5, CallIsCall
<1>7. d \in C => d \in Calls /\ d.of = None /\ d.moving = FALSE
  <2>0. SUFFICES ASSUME d \in C PROVE d \in Calls /\ d.of = None /\ d.moving = FALSE
    OBVIOUS
  <2> USE DEF C
  <2>1. PICK z \in ProtoZones :
          d = Call(None, "SetZone", {}, {}, {}, {}, {proto_zone_enum2rapid_zone_enum(z)})
    BY <2>0
  <2>2. PICK cmd : cmd = "SetZone"
    OBVIOUS
  <2>3. PICK zone : zone = {proto_zone_enum2rapid_zone_enum(z)}
    OBVIOUS
  <2>4. zone \subseteq 0..6
    BY <2>3, ZoneNumbers
  <2>5. cmd \in {command_to_string(id) : id \in 0..18}
    BY <2>2, CommandNames
  <2>6. d = Call(None, cmd, nothing, nothing, nothing, nothing, zone)
    BY <1>1, <2>1, <2>2, <2>3
  <2> QED BY <1>2, <2>4, <2>5, <2>6, CallIsCall
<1>8. d \in D => d \in Calls /\ d.of = None /\ d.moving = FALSE
  <2>0. SUFFICES ASSUME d \in D PROVE d \in Calls /\ d.of = None /\ d.moving = FALSE
    OBVIOUS
  <2> USE DEF D
  <2>1. PICK cmd \in {"PINGR", "GETSTATUS", "UNKNOWN"} : d = Call(None, cmd, {}, {}, {}, {}, {})
    BY <2>0
  <2>2. cmd \in {command_to_string(id) : id \in 0..18}
    BY CommandNames
  <2>3. d = Call(None, cmd, nothing, nothing, nothing, nothing, nothing)
    BY <1>1, <2>1
  <2> QED BY <1>2, <2>2, <2>3, CallIsCall
<1>9. d \in Calls /\ d.of = None /\ d.moving = FALSE
  BY <1>4, <1>5, <1>6, <1>7, <1>8
<1> QED BY <1>0, <1>9

-----------------------------------------------------------------------------
(* What is left in transit *)

LEMMA LeftBehind ==
    ASSUME Types, NEW left \in WholeRead \cup CutRead
    PROVE  /\ left \in Seq(EncodedParts) /\ toRobot # <<>>
           /\ Head(toRobot) \in EncodedParts /\ Head(toRobot) = toRobot[1]
           /\ 1 \in 1..Len(toRobot)
           /\ \A i \in 1..Len(left) :
                 left[i].of # None => \E j \in 1..Len(toRobot) : left[i] = toRobot[j]
           /\ left \in WholeRead =>
                 /\ \A i \in 1..Len(left) : \E j \in 1..Len(toRobot) : left[i] = toRobot[j]
                 /\ Len(toRobot) = 1 => left = <<>>
<1>0. toRobot \in Seq(EncodedParts) /\ Len(toRobot) \in Nat
  BY LenProperties DEF Types
<1>1. CASE left \in WholeRead
  <2>1. PICK n \in 1..Len(toRobot) : left = Without(n, toRobot)
    BY <1>1 DEF WholeRead
  <2>2. n \in 0..Len(toRobot) /\ Len(toRobot) # 0
    BY <1>0, <2>1
  <2>3. /\ left \in Seq(EncodedParts) /\ Len(left) = Len(toRobot) - n
        /\ \A i \in 1..(Len(toRobot) - n) : left[i] = toRobot[i + n]
    BY <1>0, <2>1, <2>2, DropFacts
  <2>4. \A i \in 1..Len(left) : i + n \in 1..Len(toRobot)
    BY <1>0, <2>2, <2>3
  <2>5. \A i \in 1..Len(left) : \E j \in 1..Len(toRobot) : left[i] = toRobot[j]
    BY <2>3, <2>4
  <2>6. Len(toRobot) = 1 => left = <<>>
    <3>1. Len(toRobot) = 1 => Len(left) = 0
      BY <2>1, <2>3
    <3> QED BY <2>3, <3>1, EmptySeq
  <2>7. toRobot # <<>>
    BY <1>0, <2>2, EmptySeq
  <2>8. Head(toRobot) = toRobot[1] /\ 1 \in 1..Len(toRobot)
    BY <1>0, <2>2, <2>7, HeadTailProperties
  <2>9. Head(toRobot) \in EncodedParts
    BY <1>0, <2>8, ElementOfSeq
  <2> QED BY <2>3, <2>5, <2>6, <2>7, <2>8, <2>9
<1>2. CASE left \in CutRead /\ left \notin WholeRead
  <2>1. PICK n \in 0..(Len(toRobot) - 1) :
          \E late \in {c \in Cuts : c < toRobot[n + 1].bytes} :
             left = [Without(n, toRobot) EXCEPT ![1] = Rest(late)]
    BY <1>2 DEF CutRead
  <2>2. PICK late \in Cuts : left = [Without(n, toRobot) EXCEPT ![1] = Rest(late)]
    BY <2>1
  <2>3. n \in 0..Len(toRobot) /\ Len(toRobot) # 0 /\ Len(toRobot) - n \in Nat \ {0}
    BY <1>0, <2>1
  <2>4. /\ Without(n, toRobot) \in Seq(EncodedParts)
        /\ Len(Without(n, toRobot)) = Len(toRobot) - n
        /\ \A i \in 1..(Len(toRobot) - n) : Without(n, toRobot)[i] = toRobot[i + n]
    BY <1>0, <2>3, DropFacts
  <2>5. Rest(late) \in EncodedParts /\ Rest(late).of = None
    <3>1. late \in 1..RequestSize
      <4>1. RequestSize = 188
        BY EndsClosed
      <4> QED BY <2>2, <4>1, CutsAssumption
    <3>2. Rest(late) = [of |-> None, msg |-> None, bytes |-> late]
      BY DEF Rest, Part
    <3> QED BY <3>1, <3>2 DEF EncodedParts, Items
  <2>6. PICK u \in Seq(EncodedParts) : u = Without(n, toRobot)
    BY <2>4
  <2>7. PICK x \in EncodedParts : x = Rest(late)
    BY <2>5
  <2>8. PICK l \in Nat \ {0} : l = Len(toRobot) - n
    BY <2>3
  <2>9. Len(u) = l /\ left = [u EXCEPT ![1] = x]
    BY <2>2, <2>4, <2>6, <2>7, <2>8
  <2>10. /\ left \in Seq(EncodedParts) /\ Len(left) = l /\ left[1] = x
         /\ \A i \in 2..l : left[i] = u[i]
    BY <2>9, CutFacts
  <2>11. ASSUME NEW i \in 1..Len(left), left[i].of # None
         PROVE  \E j \in 1..Len(toRobot) : left[i] = toRobot[j]
    <3>1. i # 1
      BY <2>5, <2>7, <2>10, <2>11
    <3>2. i \in 2..l
      BY <2>10, <3>1
    <3>3. left[i] = toRobot[i + n]
      BY <2>4, <2>6, <2>8, <2>10, <3>2
    <3>4. i + n \in 1..Len(toRobot)
      BY <1>0, <2>3, <2>8, <3>2
    <3> QED BY <3>3, <3>4
  <2>12. toRobot # <<>>
    BY <1>0, <2>3, EmptySeq
  <2>13. Head(toRobot) = toRobot[1] /\ 1 \in 1..Len(toRobot)
    BY <1>0, <2>3, <2>12, HeadTailProperties
  <2>14. Head(toRobot) \in EncodedParts
    BY <1>0, <2>13, ElementOfSeq
  <2> QED BY <1>2, <2>10, <2>11, <2>12, <2>13, <2>14
<1> QED BY <1>1, <1>2

-----------------------------------------------------------------------------
(* What the steps do *)

LEMMA Sent ==
    ASSUME Types, OneAtATime, send_request
    PROVE  /\ pc = "idle" /\ asked = None
           /\ asked' \in Requests /\ ~Throws(asked') /\ asked' # None
           /\ \/ toRobot' = toRobot
              \/ /\ client_connected
                 /\ \E part \in EncodedParts :
                       part.of = asked' /\ toRobot' = Append(toRobot, part)
           /\ \/ pc' = "recv" /\ known' = [known EXCEPT !.report = {}] /\ replies' = replies
              \/ pc' = "down" /\ known' = Doubted(asked'.cmd) /\ replies' = <<>>
           /\ UNCHANGED <<client_connected, slips, doing, move_speed, move_zone, at, goal, motion>>
<1>1. PICK req \in Requests, sent \in Cuts \cup {0, RequestSize} :
        \E speed \in uint16(req.speed) :
          /\ ~Throws(req) /\ asked' = req
          /\ toRobot' = IF client_connected /\ sent # 0
                        THEN Append(toRobot, Part(req, create_rapid_request(req, speed), sent))
                        ELSE toRobot
          /\ IF sent = RequestSize
             THEN pc' = "recv" /\ known' = [known EXCEPT !.report = {}] /\ UNCHANGED replies
             ELSE pc' = "down" /\ known' = Doubted(req.cmd) /\ replies' = <<>>
  BY DEF send_request
<1>2. PICK speed \in uint16(req.speed) :
          /\ ~Throws(req) /\ asked' = req
          /\ toRobot' = IF client_connected /\ sent # 0
                        THEN Append(toRobot, Part(req, create_rapid_request(req, speed), sent))
                        ELSE toRobot
          /\ IF sent = RequestSize
             THEN pc' = "recv" /\ known' = [known EXCEPT !.report = {}] /\ UNCHANGED replies
             ELSE pc' = "down" /\ known' = Doubted(req.cmd) /\ replies' = <<>>
  BY <1>1
<1>3. /\ pc = "idle" /\ asked = None
      /\ UNCHANGED <<client_connected, slips, doing, move_speed, move_zone, at, goal, motion>>
  BY DEF send_request, OtherThanServer, robotVars, OneAtATime
<1>4. asked' \in Requests /\ ~Throws(asked') /\ asked' # None
  BY <1>2, NoneAssumption
<1>5. ASSUME client_connected, sent # 0
      PROVE  \E part \in EncodedParts : part.of = asked' /\ toRobot' = Append(toRobot, part)
  <2>1. sent \in 1..RequestSize
    <3>1. RequestSize = 188
      BY EndsClosed
    <3> QED BY <1>5, <3>1, CutsAssumption
  <2>2. PICK msg \in RapidRequests : msg = create_rapid_request(req, speed)
    BY EncodedRequest
  <2>3. PICK part : part = Part(req, msg, sent)
    OBVIOUS
  <2>4. part = [of |-> req, msg |-> msg, bytes |-> sent]
    BY <2>3 DEF Part
  <2>5. part \in Items /\ part.of = req /\ part.msg = msg
    BY <2>1, <2>4 DEF Items
  <2>6. part \in EncodedParts
    BY <2>2, <2>5 DEF EncodedParts
  <2>7. toRobot' = Append(toRobot, part)
    BY <1>2, <1>5, <2>2, <2>3
  <2> QED BY <1>2, <2>5, <2>6, <2>7
<1>6. \/ toRobot' = toRobot
      \/ /\ client_connected
         /\ \E part \in EncodedParts : part.of = asked' /\ toRobot' = Append(toRobot, part)
  <2>1. CASE client_connected /\ sent # 0
    BY <1>5, <2>1
  <2>2. CASE ~(client_connected /\ sent # 0)
    BY <1>2, <2>2
  <2> QED BY <2>1, <2>2
<1>7. \/ pc' = "recv" /\ known' = [known EXCEPT !.report = {}] /\ replies' = replies
      \/ pc' = "down" /\ known' = Doubted(asked'.cmd) /\ replies' = <<>>
  BY <1>2
<1> QED BY <1>3, <1>4, <1>6, <1>7

LEMMA Received ==
    ASSUME Types, OneAtATime, receive_buffer
    PROVE  /\ pc = "recv" /\ asked # None /\ replies # <<>>
           /\ pc' = "idle" /\ asked' = None /\ replies' \in Seq(Replies)
           /\ slips' \in 0..MaxSlips /\ (slips' = 0 => slips = 0)
           /\ Clean => toRobot = <<>> /\ doing = None
           /\ Clean' => replies' = <<>>
           /\ \/ known' = Doubted(asked.cmd)
              \/ Answered /\ Reply \in Replies /\ \E n \in Int : known' = Learn(Reply, n)
           /\ UNCHANGED <<toRobot, client_connected, doing, move_speed, move_zone, at, goal, motion>>
<1>1. /\ pc = "recv" /\ replies # <<>> /\ pc' = "idle" /\ asked' = None
      /\ UNCHANGED <<toRobot, client_connected, doing, move_speed, move_zone, at, goal, motion>>
  BY DEF receive_buffer, OtherThanServer, robotVars
<1>2. /\ asked # None
      /\ Clean => Alone
  BY <1>1 DEF OneAtATime
<1>3. Clean => toRobot = <<>> /\ doing = None /\ Len(replies) <= 1
  BY <1>1, <1>2 DEF Alone
<1>4. replies \in Seq(Replies) /\ slips \in 0..MaxSlips /\ MaxSlips \in Nat
  BY MaxSlipsAssumption DEF Types
<1>5. Len(replies) \in Nat \ {0} /\ Head(replies) \in Replies
  BY <1>1, <1>4, LenProperties, EmptySeq, HeadTailProperties
<1>6. ASSUME NEW n \in Int, Conclude(Head(replies), n)
      PROVE  \/ known' = Doubted(asked.cmd)
             \/ Answered /\ Reply \in Replies /\ \E m \in Int : known' = Learn(Reply, m)
  BY <1>1, <1>5, <1>6 DEF Conclude, Answered, Clean, Reply
<1>7. StatusSize \in Int /\ ReplyCuts \subseteq Int
  BY ReplyCutsAssumption DEF StatusSize
<1>8. CASE /\ \E n \in 1..Len(replies) : replies' = Without(n, replies)
           /\ Conclude(Head(replies), StatusSize)
           /\ UNCHANGED slips
  <2>1. PICK n \in 1..Len(replies) : replies' = Without(n, replies)
    BY <1>8
  <2>2. n \in 0..Len(replies)
    BY <1>5
  <2>3. replies' \in Seq(Replies) /\ Len(replies') = Len(replies) - n
    BY <1>4, <2>1, <2>2, DropFacts
  <2>4. Clean' => Clean
    BY <1>1, <1>8 DEF Clean
  <2>5. Clean' => Len(replies') = 0
    BY <1>3, <1>5, <2>1, <2>3, <2>4
  <2>6. Clean' => replies' = <<>>
    BY <2>3, <2>5, EmptySeq
  <2> QED BY <1>1, <1>2, <1>3, <1>4, <1>6, <1>7, <1>8, <2>3, <2>6
<1>9. CASE /\ \E n \in 0..(Len(replies) - 1) :
                /\ replies' = [Without(n, replies) EXCEPT ![1] = Fragment]
                /\ \/ \E bytes \in IF n = 0 THEN ReplyCuts ELSE {StatusSize} :
                         Conclude(Head(replies), bytes)
                   \/ known' = Doubted(asked.cmd)
           /\ Slip
  <2>1. PICK n \in 0..(Len(replies) - 1) :
                /\ replies' = [Without(n, replies) EXCEPT ![1] = Fragment]
                /\ \/ \E bytes \in IF n = 0 THEN ReplyCuts ELSE {StatusSize} :
                         Conclude(Head(replies), bytes)
                   \/ known' = Doubted(asked.cmd)
    BY <1>9
  <2>2. n \in 0..Len(replies) /\ Len(replies) - n \in Nat \ {0}
    BY <1>5
  <2>3. Without(n, replies) \in Seq(Replies) /\ Len(Without(n, replies)) = Len(replies) - n
    BY <1>4, <2>2, DropFacts
  <2>4. PICK u \in Seq(Replies) : u = Without(n, replies)
    BY <2>3
  <2>5. PICK l \in Nat \ {0} : l = Len(replies) - n
    BY <2>2
  <2>6. PICK x \in Replies : x = Fragment
    BY DEF Fragment, Replies
  <2>7. Len(u) = l /\ replies' = [u EXCEPT ![1] = x]
    BY <2>1, <2>3, <2>4, <2>5, <2>6
  <2>8. replies' \in Seq(Replies)
    BY <2>7, CutFacts
  <2>9. slips' \in 0..MaxSlips /\ slips' # 0 /\ ~Clean'
    BY <1>4, <1>9 DEF Slip, Clean
  <2>10. \/ \E bytes \in Int : Conclude(Head(replies), bytes)
         \/ known' = Doubted(asked.cmd)
    <3>1. (IF n = 0 THEN ReplyCuts ELSE {StatusSize}) \subseteq Int
      BY <1>7
    <3> QED BY <2>1, <3>1
  <2>11. \/ known' = Doubted(asked.cmd)
         \/ Answered /\ Reply \in Replies /\ \E m \in Int : known' = Learn(Reply, m)
    BY <1>6, <2>10
  <2> QED BY <1>1, <1>2, <1>3, <2>8, <2>9, <2>11
<1>10. \/ /\ \E n \in 1..Len(replies) : replies' = Without(n, replies)
          /\ Conclude(Head(replies), StatusSize)
          /\ UNCHANGED slips
       \/ /\ \E n \in 0..(Len(replies) - 1) :
                /\ replies' = [Without(n, replies) EXCEPT ![1] = Fragment]
                /\ \/ \E bytes \in IF n = 0 THEN ReplyCuts ELSE {StatusSize} :
                         Conclude(Head(replies), bytes)
                   \/ known' = Doubted(asked.cmd)
          /\ Slip
  BY DEF receive_buffer
<1> QED BY <1>8, <1>9, <1>10

LEMMA Failed ==
    ASSUME LinkError
    PROVE  /\ pc = "recv" /\ pc' = "down" /\ replies' = <<>> /\ known' = Known
           /\ UNCHANGED <<asked, toRobot, client_connected, slips, doing, move_speed,
                          move_zone, at, goal, motion>>
BY DEF LinkError, OtherThanServer, robotVars

LEMMA Connected ==
    ASSUME OneAtATime, attempt_connection
    PROVE  /\ pc = "down" /\ toRobot = <<>> /\ doing = None /\ replies = <<>>
           /\ pc' = "idle" /\ asked' = None /\ client_connected' = TRUE /\ slips' = 0
           /\ UNCHANGED <<toRobot, doing, replies, move_speed, move_zone, at, goal, motion, known>>
BY DEF attempt_connection, robotVars, OneAtATime

\* A call that begins is of a request, or nothing is known any more.
LEMMA Arrived ==
    ASSUME Types, OneAtATime, SocketReceive
    PROVE  /\ client_connected /\ doing = None /\ toRobot # <<>>
           /\ toRobot' \in WholeRead \cup CutRead
           /\ slips' \in 0..MaxSlips
           /\ slips' = 0 => slips = 0 /\ toRobot' \in WholeRead
           /\ \/ doing' = None /\ known' = known
              \/ /\ Head(toRobot).of # None /\ doing' = parse_message(Head(toRobot))
                 /\ known' = known
              \/ /\ Head(toRobot).of = None /\ (\E n : doing' \in StrayCalls(n))
                 /\ known' = NothingKnown
           /\ UNCHANGED <<pc, asked, client_connected, replies, move_speed, move_zone, at, goal,
                          motion>>
<1>1. /\ client_connected /\ doing = None /\ toRobot # <<>>
      /\ UNCHANGED <<pc, asked, client_connected, replies, move_speed, move_zone, at, goal, motion>>
  BY DEF SocketReceive, Receiving, robotVars, OtherThanController
<1>2. PICK left \in WholeRead \cup CutRead :
        LET n == Size(toRobot) - Size(left)
            first == Head(toRobot)
        IN  /\ Reads(left) /\ toRobot' = left
            /\ \/ n < 4 /\ UNCHANGED <<doing, known>>
               \/ /\ n >= 4 /\ first.of # None /\ BytesRead(parse_message(first).cmd) <= n
                  /\ doing' = parse_message(first) /\ UNCHANGED known
               \/ /\ n >= 4 /\ first.of = None
                  /\ doing' \in StrayCalls(n) /\ known' = NothingKnown
  BY DEF SocketReceive
<1>3. slips \in 0..MaxSlips /\ MaxSlips \in Nat
  BY MaxSlipsAssumption DEF Types
<1>4. /\ slips' \in 0..MaxSlips
      /\ slips' = 0 => slips = 0 /\ left \in WholeRead
  BY <1>2, <1>3 DEF Reads, Slip
<1>5. \/ doing' = None /\ known' = known
      \/ Head(toRobot).of # None /\ doing' = parse_message(Head(toRobot)) /\ known' = known
      \/ Head(toRobot).of = None /\ (\E n : doing' \in StrayCalls(n)) /\ known' = NothingKnown
  BY <1>1, <1>2
<1> QED BY <1>1, <1>2, <1>4, <1>5

\* The controller leaves the connection.
LEMMA Left ==
    ASSUME Types, ParseError \/ ClientGone \/ Restart
    PROVE  /\ client_connected' = FALSE /\ toRobot' = <<>> /\ doing' = None
           /\ slips' \in 0..MaxSlips /\ (slips' = 0 => slips = 0)
           /\ \/ known' = NothingKnown
              \/ UNCHANGED <<known, move_speed, move_zone, at, goal>>
           /\ UNCHANGED <<pc, asked, replies>>
<1>1. slips \in 0..MaxSlips /\ MaxSlips \in Nat
  BY MaxSlipsAssumption DEF Types
<1>2. CASE ParseError
  <2>1. \E left : Reads(left)
    BY <1>2 DEF ParseError
  <2>2. slips' \in 0..MaxSlips /\ (slips' = 0 => slips = 0)
    BY <1>1, <2>1 DEF Reads, Slip
  <2> QED BY <1>2, <2>2 DEF ParseError, Receiving, LeaveConnection, robotVars, OtherThanController
<1>3. CASE ClientGone
  BY <1>1, <1>3 DEF ClientGone, LeaveConnection, robotVars, OtherThanController
<1>4. CASE Restart
  BY <1>1, <1>4 DEF Restart, LeaveConnection, OtherThanController
<1> QED BY <1>2, <1>3, <1>4

LEMMA Begun ==
    ASSUME Types, BeginMotion
    PROVE  /\ doing # None /\ doing' # None /\ ~doing.moving /\ doing.cmd \in MoveCommands
           /\ doing' \in Calls /\ doing'.moving
           /\ doing'.of = doing.of /\ doing'.cmd = doing.cmd
           /\ doing'.target = doing.target /\ doing'.extra = doing.extra
           /\ doing'.joint = doing.joint /\ doing'.speed = doing.speed /\ doing'.zone = doing.zone
           /\ goal' \in Destination(doing)
           /\ UNCHANGED <<pc, asked, toRobot, client_connected, slips, known, replies,
                          move_speed, move_zone, at>>
<1>1. /\ doing # None /\ ~doing.moving /\ doing.cmd \in MoveCommands
      /\ doing' = [doing EXCEPT !.moving = TRUE] /\ goal' \in Destination(doing)
  BY DEF BeginMotion
<1>2. UNCHANGED <<pc, asked, toRobot, client_connected, slips, known, replies,
                  move_speed, move_zone, at>>
  BY DEF BeginMotion, OtherThanAction, OtherThanController
<1>3. doing \in Calls
  BY <1>1 DEF Types
<1>4. doing' \in Calls
  BY <1>1, <1>3 DEF Calls
<1>5. doing' # None
  BY <1>4, NoneAssumption
<1>6. /\ doing'.moving /\ doing'.of = doing.of /\ doing'.cmd = doing.cmd
      /\ doing'.target = doing.target /\ doing'.extra = doing.extra
      /\ doing'.joint = doing.joint /\ doing'.speed = doing.speed /\ doing'.zone = doing.zone
  BY <1>1, <1>3 DEF Calls
<1> QED BY <1>1, <1>2, <1>4, <1>5, <1>6

LEMMA Glided ==
    ASSUME Glide
    PROVE  /\ at # goal
           /\ UNCHANGED <<pc, asked, toRobot, client_connected, slips, known, replies,
                          doing, move_speed, move_zone, goal, motion>>
BY DEF Glide, OtherThanAction, OtherThanController

LEMMA NothingHappened ==
    ASSUME UNCHANGED vars
    PROVE  UNCHANGED <<pc, asked, toRobot, client_connected, slips, known, replies,
                       doing, move_speed, move_zone, at, goal, motion>>
BY DEF vars, serverVars, connectionVars, robotVars

LEMMA Steps ==
    ASSUME [Next]_vars
    PROVE  \/ send_request \/ receive_buffer \/ LinkError \/ attempt_connection \/ SocketReceive
           \/ (ParseError \/ ClientGone \/ Restart) \/ BeginMotion \/ Glide \/ ActionEnds
           \/ UNCHANGED vars
BY DEF Next, ExecuteAction, ActionEnds

-----------------------------------------------------------------------------
(* Types *)

LEMMA TypesInit == Init => Types
<1> SUFFICES ASSUME Init PROVE Types
  OBVIOUS
<1>1. NothingKnown \in Knowledge
  BY DEF NothingKnown, Knowledge
<1>2. "fine" \in {ZoneData[i] : i \in 1..8}
  BY DEF ZoneData
<1>3. 100 \in 5..MaxRobSpeed /\ ZeroPlace \in Int /\ 0 \in 0..MaxSlips
  BY SpeedsAssumption, PlacesAssumption, MaxSlipsAssumption
<1>4. <<>> \in Seq(Replies) /\ <<>> \in Seq(EncodedParts)
  BY EmptySeq
<1> QED BY <1>1, <1>2, <1>3, <1>4 DEF Init, Types

LEMMA TypesStep == Types /\ OneAtATime /\ [Next]_vars => Types'
<1> SUFFICES ASSUME Types, OneAtATime, [Next]_vars PROVE Types'
  OBVIOUS
<1>0. <<>> \in Seq(Replies) /\ <<>> \in Seq(EncodedParts) /\ 0 \in 0..MaxSlips
  BY EmptySeq, MaxSlipsAssumption
<1>1. CASE send_request
  <2>1. toRobot' \in Seq(EncodedParts)
    <3>1. toRobot \in Seq(EncodedParts)
      BY DEF Types
    <3>2. toRobot' = toRobot \/ \E part \in EncodedParts : toRobot' = Append(toRobot, part)
      BY <1>1, Sent
    <3> QED BY <3>1, <3>2, AddFacts
  <2>2. known' \in Knowledge
    <3>1. known' = [known EXCEPT !.report = {}] \/ known' = Doubted(asked'.cmd)
      BY <1>1, Sent
    <3> QED BY <3>1, KnowledgeKept
  <2>3. replies' \in Seq(Replies) /\ pc' \in {"idle", "recv", "down"}
    <3>1. (pc' = "recv" /\ replies' = replies) \/ (pc' = "down" /\ replies' = <<>>)
      BY <1>1, Sent
    <3> QED BY <1>0, <3>1 DEF Types
  <2>4. /\ asked' \in Requests /\ ~Throws(asked')
        /\ UNCHANGED <<client_connected, slips, doing, move_speed, move_zone, at, goal, motion>>
    BY <1>1, Sent
  <2> QED BY <2>1, <2>2, <2>3, <2>4 DEF Types
<1>2. CASE receive_buffer
  <2>1. known' \in Knowledge
    <3>1. \/ known' = Doubted(asked.cmd)
          \/ Reply \in Replies /\ \E n \in Int : known' = Learn(Reply, n)
      BY <1>2, Received
    <3>2. asked # None
      BY <1>2, Received
    <3> QED BY <3>1, <3>2, KnowledgeKept, Learnt
  <2>2. /\ pc' = "idle" /\ asked' = None /\ replies' \in Seq(Replies) /\ slips' \in 0..MaxSlips
        /\ UNCHANGED <<toRobot, client_connected, doing, move_speed, move_zone, at, goal, motion>>
    BY <1>2, Received
  <2> QED BY <2>1, <2>2 DEF Types
<1>3. CASE LinkError
  <2>1. /\ pc' = "down" /\ replies' = <<>> /\ known' = Known
        /\ UNCHANGED <<asked, toRobot, client_connected, slips, doing, move_speed,
                       move_zone, at, goal, motion>>
    BY <1>3, Failed
  <2>2. Known \in Knowledge
    BY KnowledgeKept
  <2> QED BY <1>0, <2>1, <2>2 DEF Types
<1>4. CASE attempt_connection
  <2>1. /\ pc' = "idle" /\ asked' = None /\ client_connected' = TRUE /\ slips' = 0
        /\ UNCHANGED <<toRobot, doing, replies, move_speed, move_zone, at, goal, motion, known>>
    BY <1>4, Connected
  <2> QED BY <1>0, <2>1 DEF Types
<1>5. CASE SocketReceive
  <2>1. toRobot' \in WholeRead \cup CutRead /\ slips' \in 0..MaxSlips
    BY <1>5, Arrived
  <2>2. toRobot' \in Seq(EncodedParts) /\ Head(toRobot) \in EncodedParts
    BY <2>1, LeftBehind
  <2>3. known' = known \/ known' = NothingKnown
    BY <1>5, Arrived
  <2>4. known' \in Knowledge
    BY <2>3, KnowledgeKept DEF Types
  <2>5. doing' = None \/ doing' \in Calls
    <3>1. \/ doing' = None
          \/ Head(toRobot).of # None /\ doing' = parse_message(Head(toRobot))
          \/ \E n : doing' \in StrayCalls(n)
      BY <1>5, Arrived
    <3> QED BY <2>2, <3>1, ParsedRequest, StrayCallsAreCalls
  <2>6. UNCHANGED <<pc, asked, client_connected, replies, move_speed, move_zone, at, goal, motion>>
    BY <1>5, Arrived
  <2> QED BY <2>1, <2>2, <2>4, <2>5, <2>6 DEF Types
<1>6. CASE ParseError \/ ClientGone
  <2>1. /\ client_connected' = FALSE /\ toRobot' = <<>> /\ doing' = None
        /\ slips' \in 0..MaxSlips /\ UNCHANGED <<pc, asked, replies>>
    BY <1>6, Left
  <2>2. UNCHANGED <<known, move_speed, move_zone, at, goal, motion>>
    BY <1>6 DEF ParseError, ClientGone, robotVars
  <2> QED BY <1>0, <2>1, <2>2 DEF Types
<1>7. CASE Restart
  <2>1. /\ client_connected' = FALSE /\ toRobot' = <<>> /\ doing' = None
        /\ slips' \in 0..MaxSlips /\ UNCHANGED <<pc, asked, replies>>
    BY <1>7, Left
  <2>2. 100 \in 5..MaxRobSpeed /\ "fine" \in {ZoneData[i] : i \in 1..8} /\ ZeroPlace \in Int
    BY SpeedsAssumption, PlacesAssumption DEF ZoneData
  <2>3. /\ move_speed' = 100 /\ move_zone' = "fine"
        /\ at' = ZeroPlace /\ goal' = ZeroPlace /\ motion' = "joints" /\ known' = NothingKnown
    BY <1>7 DEF Restart
  <2>4. NothingKnown \in Knowledge
    BY KnowledgeKept
  <2> QED BY <1>0, <2>1, <2>2, <2>3, <2>4 DEF Types
<1>8. CASE BeginMotion
  <2>1. goal' \in Destination(doing) /\ doing # None /\ doing' \in Calls
    BY <1>8, Begun
  <2>2. goal' \in Int
    <3>1. doing.target \subseteq Int /\ doing.joint \subseteq Int /\ ZeroPlace \in Int /\ at \in Int
      BY <2>1, CallMembers, PlacesAssumption DEF Types
    <3>2. {at + d : d \in doing.target} \subseteq Int
      BY <3>1
    <3> QED BY <2>1, <3>1, <3>2 DEF Destination
  <2>3. motion' \in {"position", "joints"}
    BY <1>8 DEF BeginMotion
  <2>4. UNCHANGED <<pc, asked, toRobot, client_connected, slips, known, replies,
                    move_speed, move_zone, at>>
    BY <1>8, Begun
  <2> QED BY <2>1, <2>2, <2>3, <2>4 DEF Types
<1>9. CASE Glide
  <2>1. at' \in Int
    BY <1>9 DEF Glide, Types
  <2>2. UNCHANGED <<pc, asked, toRobot, client_connected, slips, known, replies,
                    doing, move_speed, move_zone, goal, motion>>
    BY <1>9, Glided
  <2> QED BY <2>1, <2>2 DEF Types
<1>10. CASE ActionEnds
  <2>1. /\ doing # None /\ doing' = None /\ replies' \in Seq(Replies) /\ slips' \in 0..MaxSlips
        /\ UNCHANGED <<pc, asked, toRobot, client_connected, known>>
    BY <1>10, ReplyOfAction
  <2>2. /\ move_speed' \in 5..MaxRobSpeed
        /\ move_zone' \in {ZoneData[i] : i \in 1..8}
        /\ at' \in Int /\ goal' \in Int /\ motion' \in {"position", "joints", "stopped"}
    <3>1. CASE SetSpeed
      <4>1. PICK speed \in doing.speed :
              \/ move_speed' = move_speed
              \/ ~(speed < 5 \/ speed > MaxRobSpeed) /\ move_speed' = speed
        BY <3>1 DEF SetSpeed
      <4>2. speed \in Int
        <5>1. doing.speed \subseteq 0..UINT16_MAX
          BY <2>1, CallMembers
        <5>2. UINT16_MAX \in Int
          BY DEF UINT16_MAX
        <5> QED BY <5>1, <5>2
      <4>3. UNCHANGED <<move_zone, at, goal, motion>>
        BY <3>1 DEF SetSpeed, robotVars
      <4> QED BY <4>1, <4>2, <4>3, SpeedsAssumption DEF Types
    <3>2. CASE SetZone
      <4>1. PICK value \in doing.zone : move_zone' = value_to_zone(value)
        BY <3>2 DEF SetZone
      <4>2. value \in 0..7
        <5>1. doing.zone \subseteq 0..6
          BY <2>1, CallMembers
        <5> QED BY <5>1
      <4>3. move_zone' \in {ZoneData[i] : i \in 1..8}
        <5>1. value_to_zone(value) \in {ZoneData[i] : i \in 1..8}
          BY <4>2, ZoneOfValue
        <5> QED BY <4>1, <4>2, <5>1
      <4>4. UNCHANGED <<move_speed, at, goal, motion>>
        BY <3>2 DEF SetZone, robotVars
      <4> QED BY <4>3, <4>4 DEF Types
    <3>3. CASE MotionFails
      BY <3>3 DEF MotionFails, Types
    <3>4. CASE MotionDone \/ Refuse \/ PINGR \/ GetState
      <4>1. UNCHANGED <<move_speed, move_zone, at, goal, motion>>
        BY <3>4 DEF MotionDone, Refuse, PINGR, GetState, robotVars
      <4> QED BY <4>1 DEF Types
    <3> QED BY <1>10, <3>1, <3>2, <3>3, <3>4 DEF ActionEnds
  <2> QED BY <2>1, <2>2 DEF Types
<1>11. CASE UNCHANGED vars
  BY <1>11 DEF vars, serverVars, connectionVars, robotVars, Types
<1> QED BY <1>1, <1>2, <1>3, <1>4, <1>5, <1>6, <1>7, <1>8, <1>9, <1>10, <1>11, Steps

-----------------------------------------------------------------------------
(* One command at a time, executed as asked *)

LEMMA OneAtATimeStep == Types /\ OneAtATime /\ [Next]_vars => OneAtATime'
<1> SUFFICES ASSUME Types, OneAtATime, [Next]_vars PROVE OneAtATime'
  OBVIOUS
<1>0. Len(<<>>) = 0 /\ ~(1 <= 0) /\ \A i : i \notin 1..0
  OBVIOUS
<1>1. CASE send_request
  <2>1. /\ pc = "idle" /\ asked' # None
        /\ UNCHANGED <<client_connected, slips, doing>>
        /\ (pc' = "recv" /\ replies' = replies) \/ (pc' = "down" /\ replies' = <<>>)
    BY <1>1, Sent
  <2>2. Clean' => Clean /\ toRobot = <<>> /\ doing = None /\ replies = <<>>
    BY <2>1 DEF OneAtATime, Clean
  <2>3. CASE toRobot' = toRobot
    <3>1. Clean' => Alone'
      BY <1>0, <2>1, <2>2, <2>3 DEF Alone
    <3> QED BY <2>1, <2>3, <3>1 DEF OneAtATime
  <2>4. CASE client_connected /\ \E part \in EncodedParts :
                part.of = asked' /\ toRobot' = Append(toRobot, part)
    <3>1. PICK part \in EncodedParts : part.of = asked' /\ toRobot' = Append(toRobot, part)
      BY <2>4
    <3>2. toRobot \in Seq(EncodedParts) /\ Len(toRobot) \in Nat
      BY LenProperties DEF Types
    <3>3. /\ Len(toRobot') = Len(toRobot) + 1 /\ toRobot'[Len(toRobot) + 1] = part
          /\ \A i \in 1..Len(toRobot) : toRobot'[i] = toRobot[i]
      BY <3>1, <3>2, AddFacts
    <3>4. slips = 0 => \A i \in 1..Len(toRobot') : toRobot'[i].of # None
      <4>1. \A i \in 1..Len(toRobot') : i \in 1..Len(toRobot) \/ i = Len(toRobot) + 1
        BY <3>2, <3>3
      <4> QED BY <2>1, <3>1, <3>3, <4>1 DEF OneAtATime
    <3>5. Clean' => Len(toRobot') = 1 /\ toRobot'[1].of = asked'
      <4>1. Clean' => Len(toRobot) = 0
        BY <1>0, <2>2
      <4> QED BY <3>1, <3>3, <4>1
    <3>6. Clean' /\ pc' = "recv" => Alone'
      BY <1>0, <2>1, <2>2, <3>5 DEF Alone
    <3> QED BY <2>1, <2>4, <3>4, <3>6 DEF OneAtATime
  <2> QED BY <1>1, <2>3, <2>4, Sent
<1>2. CASE receive_buffer
  <2>1. /\ pc' = "idle" /\ asked' = None /\ (slips' = 0 => slips = 0)
        /\ Clean => toRobot = <<>> /\ doing = None
        /\ Clean' => replies' = <<>>
        /\ UNCHANGED <<toRobot, client_connected, doing>>
    BY <1>2, Received
  <2>2. Clean' => Clean
    BY <2>1 DEF Clean
  <2> QED BY <2>1, <2>2 DEF OneAtATime
<1>3. CASE LinkError
  BY <1>3, Failed DEF OneAtATime
<1>4. CASE attempt_connection
  BY <1>0, <1>4, Connected DEF OneAtATime
<1>5. CASE SocketReceive
  <2>1. /\ client_connected /\ toRobot # <<>> /\ doing = None
        /\ toRobot' \in WholeRead \cup CutRead
        /\ slips' = 0 => slips = 0 /\ toRobot' \in WholeRead
        /\ UNCHANGED <<pc, asked, client_connected, replies>>
    BY <1>5, Arrived
  <2>2. PICK left \in WholeRead \cup CutRead : toRobot' = left
    BY <2>1
  <2>3. /\ 1 \in 1..Len(toRobot) /\ Head(toRobot) = toRobot[1]
        /\ left \in WholeRead =>
              /\ \A i \in 1..Len(left) : \E j \in 1..Len(toRobot) : left[i] = toRobot[j]
              /\ Len(toRobot) = 1 => left = <<>>
    BY LeftBehind
  <2>4. Clean' => Clean
    BY <2>1 DEF Clean
  <2>5. slips' = 0 => \A i \in 1..Len(left) : left[i].of # None
    BY <2>1, <2>2, <2>3 DEF OneAtATime
  <2>6. slips' = 0 => slips = 0 /\ (doing' # None => doing'.of = toRobot[1].of)
    <3>1. ASSUME slips' = 0, doing' # None PROVE doing'.of = toRobot[1].of
      <4>1. Head(toRobot).of # None
        BY <2>1, <2>3, <3>1 DEF OneAtATime
      <4>2. doing' = parse_message(Head(toRobot))
        BY <1>5, <3>1, <4>1, Arrived
      <4>3. Head(toRobot) \in EncodedParts
        BY LeftBehind
      <4>4. parse_message(Head(toRobot)).of = Head(toRobot).of
        BY <4>1, <4>3, ParsedRequest
      <4> QED BY <2>3, <4>2, <4>4
    <3> QED BY <2>1, <3>1
  <2>7. slips' = 0 /\ doing' # None => doing'.of # None
    BY <2>3, <2>6 DEF OneAtATime
  <2>8. Clean' => pc # "idle"
    BY <2>1, <2>4 DEF OneAtATime
  <2>9. Clean' /\ pc = "recv" => Alone'
    <3>1. SUFFICES ASSUME Clean', pc = "recv" PROVE Alone'
      OBVIOUS
    <3>2. Len(toRobot) = 1 /\ toRobot[1].of = asked /\ replies = <<>>
      BY <2>1, <2>4, <3>1 DEF OneAtATime, Alone
    <3>3. toRobot' = <<>> /\ slips' = 0
      BY <2>1, <2>2, <2>3, <3>1, <3>2 DEF Clean
    <3> QED BY <1>0, <2>1, <2>6, <3>2, <3>3 DEF Alone
  <2> QED BY <2>1, <2>2, <2>5, <2>7, <2>8, <2>9 DEF OneAtATime
<1>6. CASE ParseError \/ ClientGone \/ Restart
  <2>1. /\ client_connected' = FALSE /\ toRobot' = <<>> /\ doing' = None
        /\ UNCHANGED <<pc, asked, replies>>
    BY <1>6, Left
  <2>2. ~Clean'
    BY <2>1 DEF Clean
  <2> QED BY <1>0, <2>1, <2>2 DEF OneAtATime
<1>7. CASE BeginMotion
  <2>1. /\ doing # None /\ doing' # None /\ doing'.of = doing.of
        /\ UNCHANGED <<pc, asked, toRobot, client_connected, slips, replies>>
    BY <1>7, Begun
  <2> QED BY <2>1 DEF OneAtATime, Alone, Clean
<1>8. CASE Glide
  BY <1>8, Glided DEF OneAtATime, Alone, Clean
<1>9. CASE ActionEnds
  <2>1. /\ doing' = None /\ doing # None
        /\ pc = "down" => replies' = <<>>
        /\ slips' = 0 => slips = 0
        /\ UNCHANGED <<pc, asked, toRobot, client_connected>>
        /\ pc = "recv" /\ Clean' => Pending /\ Len(replies') = 1
        /\ ~(pc = "idle" /\ Clean')
    BY <1>9, ReplyOfAction
  <2>2. Clean' /\ pc = "recv" => toRobot = <<>>
    BY <2>1 DEF OneAtATime, Alone, Pending
  <2>3. Clean' /\ pc = "recv" => Alone'
    BY <2>1, <2>2 DEF Alone
  <2> QED BY <2>1, <2>3 DEF OneAtATime
<1>10. CASE UNCHANGED vars
  BY <1>10, NothingHappened DEF OneAtATime, Alone, Clean
<1> QED BY <1>1, <1>2, <1>3, <1>4, <1>5, <1>6, <1>7, <1>8, <1>9, <1>10, Steps

LEMMA ExecutedStep == Types /\ OneAtATime /\ Executed /\ [Next]_vars => Executed'
<1> SUFFICES ASSUME Types, OneAtATime, Executed, [Next]_vars PROVE Executed'
  OBVIOUS
<1>1. CASE doing' = None
  BY <1>1 DEF Executed, ExecutedAsAsked
<1>2. CASE doing' = doing
  BY <1>2 DEF Executed, ExecutedAsAsked
<1>3. CASE SocketReceive
  <2>1. PICK part \in EncodedParts : part = Head(toRobot)
    <3>1. toRobot' \in WholeRead \cup CutRead
      BY <1>3, Arrived
    <3> QED BY <3>1, LeftBehind
  <2>2. CASE part.of # None /\ doing' = parse_message(part)
    <3>1. PICK call : call = parse_message(part)
      OBVIOUS
    <3>2. /\ call.of = part.of /\ ~call.moving
          /\ call.cmd = Meaning[part.of.cmd]
          /\ part.of.cmd \in Cartesian \cup ByOffset => call.target = part.of.target
          /\ part.of.cmd = "MOVEC" => call.extra = part.of.extra_target
          /\ part.of.cmd = "MOVEABSJ" => call.joint = part.of.joint_target
          /\ part.of.cmd = "SETSPEED" => call.speed \subseteq uint16(part.of.speed)
          /\ part.of.cmd = "SETZONE" =>
                call.zone = {proto_zone_enum2rapid_zone_enum(part.of.zone)}
      BY <2>2, <3>1, ParsedRequest
    <3> QED BY <2>2, <3>1, <3>2 DEF Executed, ExecutedAsAsked
  <2>3. CASE \E n : doing' \in StrayCalls(n)
    <3>1. doing'.of = None /\ ~doing'.moving
      BY <2>3, StrayCallsAreCalls
    <3> QED BY <3>1 DEF Executed, ExecutedAsAsked
  <2> QED BY <1>1, <1>3, <2>1, <2>2, <2>3, Arrived
<1>4. CASE BeginMotion
  BY <1>4, Begun DEF Executed, ExecutedAsAsked
<1>5. send_request \/ receive_buffer \/ LinkError \/ attempt_connection => doing' = doing
  BY Sent, Received, Failed, Connected
<1>6. ParseError \/ ClientGone \/ Restart \/ ActionEnds => doing' = None
  BY Left, ReplyOfAction
<1>7. Glide \/ UNCHANGED vars => doing' = doing
  BY Glided, NothingHappened
<1> QED BY <1>1, <1>2, <1>3, <1>4, <1>5, <1>6, <1>7, Steps

-----------------------------------------------------------------------------
(* What may yet be executed, and what is forgotten *)

LEMMA MeaningOf ==
    ASSUME NEW c \in DOMAIN proto_cmd_enum2rapid_cmd_enum
    PROVE  /\ Meaning[c] = "SetSpeed" <=> c = "SETSPEED"
           /\ Meaning[c] = "SetZone" <=> c = "SETZONE"
           /\ Meaning[c] = "GETSTATUS" <=> c = "GETSTATUS"
           /\ Meaning[c] \in MoveCommands <=> c \in Motions
           /\ Meaning[c] = "ZERO" <=> c = "ZERO"
           /\ Meaning[c] = "MoveAbsJ" <=> c = "MOVEABSJ"
           /\ Meaning[c] \in {"MoveLOffs", "MoveJOffs"} <=> c \in ByOffset
<1> DEFINE Means(name) == Meaning[c] = name
<1>1. c \in {"MOVEL", "MOVEJ", "MOVEC", "MOVEABSJ", "SETSPEED", "SETZONE", "PINGR", "ZERO",
             "GETSTATUS", "MOVEL_OFFS", "MOVEJ_OFFS"}
  BY DEF proto_cmd_enum2rapid_cmd_enum
<1>2. /\ c = "MOVEL" => Means("MoveL")
      /\ c = "MOVEJ" => Means("MoveJ")
      /\ c = "MOVEC" => Means("MoveC")
      /\ c = "MOVEABSJ" => Means("MoveAbsJ")
      /\ c = "SETSPEED" => Means("SetSpeed")
      /\ c = "SETZONE" => Means("SetZone")
      /\ c = "PINGR" => Means("PINGR")
      /\ c = "ZERO" => Means("ZERO")
      /\ c = "GETSTATUS" => Means("GETSTATUS")
      /\ c = "MOVEL_OFFS" => Means("MoveLOffs")
      /\ c = "MOVEJ_OFFS" => Means("MoveJOffs")
  BY DEF Meaning
<1>3. PICK name : name = Meaning[c]
  OBVIOUS
<1> QED BY <1>1, <1>2, <1>3 DEF MoveCommands, JointMotions, Motions, Cartesian, ByOffset

\* A call that was parsed from a client's request.
LEMMA OwnCommand ==
    ASSUME Types, Executed, doing # None, doing.of # None
    PROVE  /\ doing.of \in Requests
           /\ doing.of.cmd \in DOMAIN proto_cmd_enum2rapid_cmd_enum
           /\ doing.cmd = Meaning[doing.of.cmd]
           /\ doing.cmd = "SetSpeed" <=> doing.of.cmd = "SETSPEED"
           /\ doing.cmd = "SetZone" <=> doing.of.cmd = "SETZONE"
           /\ doing.cmd = "GETSTATUS" <=> doing.of.cmd = "GETSTATUS"
           /\ doing.cmd \in MoveCommands <=> doing.of.cmd \in Motions
<1>1. doing.of \in Requests
  BY CallMembers
<1>2. doing.cmd = Meaning[doing.of.cmd]
  BY DEF Executed, ExecutedAsAsked
<1>3. doing.of.cmd \in DOMAIN proto_cmd_enum2rapid_cmd_enum
  BY <1>1, RequestMembers
<1> QED BY <1>1, <1>2, <1>3, MeaningOf

\* Nobody relies on what a call may change.
LEMMA Forgotten ==
    ASSUME Types, Executed, Doubts, doing # None
    PROVE  /\ doing.cmd = "SetSpeed" => Known.speed = {}
           /\ doing.cmd = "SetZone" => Known.zone = {}
           /\ doing.cmd \in MoveCommands => Known.goal = {} /\ Known.at = {}
<1>1. CASE doing.of = None
  BY <1>1 DEF Doubts
<1>2. CASE doing.of # None
  <2>1. Lost(Known, doing.of)
    BY <1>2 DEF Doubts
  <2> QED BY <1>2, <2>1, OwnCommand DEF Lost
<1> QED BY <1>1, <1>2

\* Less is known after the step, or as much.
Fewer ==
    /\ Known'.speed \subseteq Known.speed /\ Known'.zone \subseteq Known.zone
    /\ Known'.goal \subseteq Known.goal
    /\ Known'.at = Known.at \/ Known'.at = {}

LEMMA LearnsNothing ==
    ASSUME Types,
           \/ known' = Known /\ pc' # "recv"
           \/ known' = known /\ pc' = pc /\ asked' = asked
           \/ known' = NothingKnown
    PROVE  Fewer
<1>1. CASE known' = Known /\ pc' # "recv"
  <2>1. Known' = Known
    BY <1>1 DEF Known
  <2> QED BY <2>1 DEF Fewer
<1>2. CASE known' = known /\ pc' = pc /\ asked' = asked
  <2>1. Known' = Known
    BY <1>2 DEF Known, Doubted
  <2> QED BY <2>1 DEF Fewer
<1>3. CASE known' = NothingKnown
  <2>1. Known'.speed = {} /\ Known'.zone = {} /\ Known'.goal = {} /\ Known'.at = {}
    BY <1>3 DEF Known, Doubted, NothingKnown
  <2> QED BY <2>1 DEF Fewer
<1> QED BY <1>1, <1>2, <1>3

\* Something is learnt from the one reply of a connection that has not slipped.
Learns == \E n \in Int : known' = Learn(Reply, n)

LEMMA KnownNext ==
    ASSUME Types, OneAtATime, [Next]_vars
    PROVE  \/ Fewer
           \/ receive_buffer /\ Answered /\ Reply \in Replies /\ Learns
<1>1. CASE send_request
  <2>1. Known = known
    BY <1>1, Sent DEF Known
  <2>2. \/ pc' = "recv" /\ known' = [known EXCEPT !.report = {}]
        \/ pc' = "down" /\ known' = Doubted(asked'.cmd)
    BY <1>1, Sent
  <2>3. CASE pc' = "recv" /\ known' = [known EXCEPT !.report = {}]
    <3>1. known \in Knowledge
      BY DEF Types
    <3>2. /\ known'.speed = known.speed /\ known'.zone = known.zone
          /\ known'.goal = known.goal /\ known'.at = known.at
      BY <2>3, <3>1 DEF Knowledge
    <3>3. /\ Known'.speed \in {known'.speed, {}} /\ Known'.zone \in {known'.zone, {}}
          /\ Known'.goal \in {known'.goal, {}} /\ Known'.at \in {known'.at, {}}
      BY DEF Known, Doubted
    <3> QED BY <2>1, <3>2, <3>3 DEF Fewer
  <2>4. CASE pc' = "down" /\ known' = Doubted(asked'.cmd)
    <3>1. Known' = Doubted(asked'.cmd)
      BY <2>4 DEF Known
    <3> QED BY <2>1, <3>1, DoubtsOf DEF Fewer
  <2> QED BY <2>2, <2>3, <2>4
<1>2. CASE receive_buffer
  <2>1. \/ known' = Doubted(asked.cmd)
        \/ Answered /\ Reply \in Replies /\ \E n \in Int : known' = Learn(Reply, n)
    BY <1>2, Received
  <2>2. CASE known' = Doubted(asked.cmd)
    <3>1. pc = "recv" /\ pc' = "idle"
      BY <1>2, Received
    <3>2. known' = Known /\ pc' # "recv"
      BY <2>2, <3>1 DEF Known
    <3> QED BY <3>2, LearnsNothing
  <2> QED BY <1>2, <2>1, <2>2 DEF Learns
<1>3. CASE LinkError
  BY <1>3, Failed, LearnsNothing
<1>4. CASE attempt_connection
  <2>1. pc = "down" /\ pc' = "idle" /\ known' = known
    BY <1>4, Connected
  <2>2. known' = Known /\ pc' # "recv"
    BY <2>1 DEF Known
  <2> QED BY <2>2, LearnsNothing
<1>5. SocketReceive =>
        pc' = pc /\ asked' = asked /\ (known' = known \/ known' = NothingKnown)
  BY Arrived
<1>6. ParseError \/ ClientGone \/ Restart =>
        pc' = pc /\ asked' = asked /\ (known' = known \/ known' = NothingKnown)
  BY Left
<1>7. BeginMotion \/ Glide \/ ActionEnds \/ UNCHANGED vars =>
        pc' = pc /\ asked' = asked /\ known' = known
  BY Begun, Glided, ReplyOfAction, NothingHappened
<1> QED BY <1>1, <1>2, <1>3, <1>4, <1>5, <1>6, <1>7, LearnsNothing, Steps

LEMMA ForgetsNext ==
    ASSUME Fewer, NEW req, Lost(Known, req)
    PROVE  Lost(Known', req)
BY DEF Fewer, Lost

LEMMA DoubtsStep == Types /\ OneAtATime /\ Doubts /\ [Next]_vars => Doubts'
<1> SUFFICES ASSUME Types, OneAtATime, Doubts, [Next]_vars PROVE Doubts'
  OBVIOUS
<1>1. CASE receive_buffer /\ Answered
  <2>1. toRobot' = <<>> /\ doing' = None
    <3>1. Clean
      BY <1>1 DEF Answered
    <3> QED BY <1>1, <3>1, Received
  <2>2. \A i : i \notin 1..Len(<<>>)
    OBVIOUS
  <2> QED BY <2>1, <2>2 DEF Doubts
<1>2. CASE Fewer
  <2>0. /\ doing # None /\ doing.of = None => /\ Known'.speed = {} /\ Known'.zone = {}
                                             /\ Known'.goal = {} /\ Known'.at = {}
        /\ doing # None /\ doing.of # None => Lost(Known', doing.of)
    BY <1>2, ForgetsNext DEF Doubts, Fewer
  <2>1. CASE send_request
    <3>1. doing' = doing
      BY <2>1, Sent
    <3>2. Lost(Known', asked')
      <4>1. \/ pc' = "recv"
            \/ pc' = "down" /\ known' = Doubted(asked'.cmd)
        BY <2>1, Sent
      <4>2. CASE pc' = "recv"
        BY <4>2 DEF Known, Doubted, Lost
      <4>3. CASE pc' = "down" /\ known' = Doubted(asked'.cmd)
        <5>1. Known' = Doubted(asked'.cmd)
          BY <4>3 DEF Known
        <5> QED BY <5>1, DoubtsOf DEF Lost
      <4> QED BY <4>1, <4>2, <4>3
    <3>3. \A i \in 1..Len(toRobot') : toRobot'[i].of # None => Lost(Known', toRobot'[i].of)
      <4>1. CASE toRobot' = toRobot
        BY <1>2, <4>1, ForgetsNext DEF Doubts
      <4>2. CASE \E part \in EncodedParts : part.of = asked' /\ toRobot' = Append(toRobot, part)
        <5>1. PICK part \in EncodedParts : part.of = asked' /\ toRobot' = Append(toRobot, part)
          BY <4>2
        <5>2. toRobot \in Seq(EncodedParts) /\ Len(toRobot) \in Nat
          BY LenProperties DEF Types
        <5>3. /\ Len(toRobot') = Len(toRobot) + 1 /\ toRobot'[Len(toRobot) + 1] = part
              /\ \A i \in 1..Len(toRobot) : toRobot'[i] = toRobot[i]
          BY <5>1, <5>2, AddFacts
        <5>4. TAKE i \in 1..Len(toRobot')
        <5>5. i \in 1..Len(toRobot) \/ i = Len(toRobot) + 1
          BY <5>2, <5>3
        <5>6. CASE i \in 1..Len(toRobot)
          <6>1. toRobot'[i] = toRobot[i]
            BY <5>3, <5>6
          <6>2. toRobot[i].of # None => Lost(Known, toRobot[i].of)
            BY <5>6 DEF Doubts
          <6> QED BY <1>2, <6>1, <6>2, ForgetsNext
        <5>7. CASE i = Len(toRobot) + 1
          <6>1. toRobot'[i].of = asked'
            BY <5>1, <5>3, <5>7
          <6> QED BY <3>2, <6>1
        <5> QED BY <5>5, <5>6, <5>7
      <4> QED BY <2>1, <4>1, <4>2, Sent
    <3> QED BY <2>0, <3>1, <3>3 DEF Doubts
  <2>2. CASE SocketReceive
    <3>1. PICK left \in WholeRead \cup CutRead : toRobot' = left
      BY <2>2, Arrived
    <3>2. /\ Head(toRobot) \in EncodedParts /\ Head(toRobot) = toRobot[1]
          /\ 1 \in 1..Len(toRobot)
          /\ \A i \in 1..Len(left) :
                left[i].of # None => \E j \in 1..Len(toRobot) : left[i] = toRobot[j]
      BY LeftBehind
    <3>3. \A j \in 1..Len(toRobot) : toRobot[j].of # None => Lost(Known', toRobot[j].of)
      BY <1>2, ForgetsNext DEF Doubts
    <3>4. \A i \in 1..Len(toRobot') : toRobot'[i].of # None => Lost(Known', toRobot'[i].of)
      <4>1. TAKE i \in 1..Len(toRobot')
      <4>2. HAVE toRobot'[i].of # None
      <4>3. PICK j \in 1..Len(toRobot) : toRobot'[i] = toRobot[j]
        BY <3>1, <3>2, <4>2
      <4> QED BY <3>3, <4>2, <4>3
    <3>5. CASE doing' = None
      BY <3>4, <3>5 DEF Doubts
    <3>6. CASE Head(toRobot).of # None /\ doing' = parse_message(Head(toRobot))
      <4>1. doing'.of = Head(toRobot).of /\ doing'.of # None
        BY <3>2, <3>6, ParsedRequest
      <4>2. Lost(Known', doing'.of)
        BY <3>2, <3>3, <4>1
      <4> QED BY <3>4, <4>1, <4>2 DEF Doubts
    <3>7. CASE (\E n : doing' \in StrayCalls(n)) /\ known' = NothingKnown
      <4>1. doing'.of = None
        BY <3>7, StrayCallsAreCalls
      <4>2. Known'.speed = {} /\ Known'.zone = {} /\ Known'.goal = {} /\ Known'.at = {}
        BY <3>7 DEF Known, Doubted, NothingKnown
      <4> QED BY <3>4, <4>1, <4>2 DEF Doubts
    <3> QED BY <2>2, <3>5, <3>6, <3>7, Arrived
  <2>3. CASE toRobot' = toRobot /\ doing' = doing
    <3>1. \A i \in 1..Len(toRobot) : toRobot[i].of # None => Lost(Known', toRobot[i].of)
      BY <1>2, ForgetsNext DEF Doubts
    <3> QED BY <2>0, <2>3, <3>1 DEF Doubts
  <2>4. CASE toRobot' = <<>> /\ doing' = None
    <3>1. \A i : i \notin 1..Len(<<>>)
      OBVIOUS
    <3> QED BY <2>4, <3>1 DEF Doubts
  <2>5. CASE BeginMotion
    <3>1. doing # None /\ doing'.of = doing.of /\ toRobot' = toRobot
      BY <2>5, Begun
    <3>2. \A i \in 1..Len(toRobot) : toRobot[i].of # None => Lost(Known', toRobot[i].of)
      BY <1>2, ForgetsNext DEF Doubts
    <3> QED BY <2>0, <3>1, <3>2 DEF Doubts
  <2>6. CASE toRobot' = toRobot /\ doing' = None
    <3>1. \A i \in 1..Len(toRobot) : toRobot[i].of # None => Lost(Known', toRobot[i].of)
      BY <1>2, ForgetsNext DEF Doubts
    <3> QED BY <2>6, <3>1 DEF Doubts
  <2>7. receive_buffer \/ LinkError \/ attempt_connection \/ Glide \/ UNCHANGED vars =>
          toRobot' = toRobot /\ doing' = doing
    BY Received, Failed, Connected, Glided, NothingHappened
  <2>8. ParseError \/ ClientGone \/ Restart => toRobot' = <<>> /\ doing' = None
    BY Left
  <2>9. ActionEnds => toRobot' = toRobot /\ doing' = None
    BY ReplyOfAction
  <2> QED BY <2>1, <2>2, <2>3, <2>4, <2>5, <2>6, <2>7, <2>8, <2>9, Steps
<1> QED BY <1>1, <1>2, KnownNext

-----------------------------------------------------------------------------
(* Who changes what, and while what *)

LEMMA WhoChanges ==
    ASSUME Types, OneAtATime, [Next]_vars
    PROVE  /\ move_speed' = move_speed \/ SetSpeed \/ known' = NothingKnown
           /\ move_zone' = move_zone \/ SetZone \/ known' = NothingKnown
           /\ UNCHANGED <<at, goal>> \/ BeginMotion \/ MotionFails \/ Glide \/ known' = NothingKnown
<1>1. ASSUME ActionEnds
      PROVE  /\ move_speed' = move_speed \/ SetSpeed
             /\ move_zone' = move_zone \/ SetZone
             /\ UNCHANGED <<at, goal>> \/ MotionFails
  <2>1. MotionDone \/ Refuse \/ PINGR \/ GetState => UNCHANGED <<move_speed, move_zone, at, goal>>
    BY DEF MotionDone, Refuse, PINGR, GetState, robotVars
  <2>2. MotionFails => UNCHANGED <<move_speed, move_zone>>
    BY DEF MotionFails
  <2>3. SetSpeed => UNCHANGED <<move_zone, at, goal>>
    BY DEF SetSpeed, robotVars
  <2>4. SetZone => UNCHANGED <<move_speed, at, goal>>
    BY DEF SetZone, robotVars
  <2> QED BY <1>1, <2>1, <2>2, <2>3, <2>4 DEF ActionEnds
<1>2. send_request \/ receive_buffer \/ LinkError \/ attempt_connection \/ SocketReceive =>
        UNCHANGED <<move_speed, move_zone, at, goal>>
  BY Sent, Received, Failed, Connected, Arrived
<1>3. ParseError \/ ClientGone \/ Restart =>
        known' = NothingKnown \/ UNCHANGED <<move_speed, move_zone, at, goal>>
  BY Left
<1>4. BeginMotion \/ Glide => UNCHANGED <<move_speed, move_zone>>
  BY Begun, Glided
<1>5. UNCHANGED vars => UNCHANGED <<move_speed, move_zone, at, goal>>
  BY NothingHappened
<1> QED BY <1>1, <1>2, <1>3, <1>4, <1>5, Steps

\* Of the values, not of the report.
SameKnown ==
    /\ known'.speed = known.speed /\ known'.zone = known.zone
    /\ known'.goal = known.goal /\ known'.at = known.at

\* A command that is pending after a step was so before, or nothing had been asked.
LEMMA PendingNext ==
    ASSUME Types, OneAtATime, [Next]_vars, Pending'
    PROVE  /\ SameKnown
           /\ UNCHANGED <<move_speed, move_zone>>
           /\ \/ send_request /\ Known = known /\ doing' = None /\ UNCHANGED <<at, goal>>
              \/ /\ Pending /\ asked' = asked /\ known' = known
                 /\ \/ doing = None /\ UNCHANGED <<at, goal>>
                       /\ (doing' = None \/ ~doing'.moving)
                    \/ doing' = doing /\ (UNCHANGED <<at, goal>> \/ Glide)
                    \/ BeginMotion
<1>1. pc' = "recv" /\ slips' = 0 /\ client_connected' /\ replies' = <<>>
  BY DEF Pending, Clean
<1>2. CASE send_request
  <2>1. /\ pc = "idle" /\ slips = 0 /\ client_connected
        /\ known' = [known EXCEPT !.report = {}] /\ doing' = doing
        /\ UNCHANGED <<move_speed, move_zone, at, goal>>
    BY <1>1, <1>2, Sent
  <2>2. known \in Knowledge
    BY DEF Types
  <2>3. SameKnown
    BY <2>1, <2>2 DEF SameKnown, Knowledge
  <2>4. doing = None
    BY <2>1 DEF OneAtATime, Clean
  <2> QED BY <1>2, <2>1, <2>3, <2>4 DEF Known
<1>3. CASE SocketReceive
  <2>1. /\ doing = None /\ toRobot # <<>> /\ client_connected /\ toRobot' \in WholeRead \cup CutRead
        /\ slips' = 0 => slips = 0
        /\ UNCHANGED <<pc, asked, client_connected, replies, move_speed, move_zone, at, goal>>
    BY <1>3, Arrived
  <2>2. /\ Head(toRobot) = toRobot[1] /\ 1 \in 1..Len(toRobot) /\ Head(toRobot) \in EncodedParts
    BY <2>1, LeftBehind
  <2>3. Head(toRobot).of # None
    BY <1>1, <2>1, <2>2 DEF OneAtATime
  <2>4. known' = known /\ (doing' = None \/ doing' = parse_message(Head(toRobot)))
    BY <1>3, <2>3, Arrived
  <2>5. ~parse_message(Head(toRobot)).moving
    BY <2>2, <2>3, ParsedRequest
  <2> QED BY <1>1, <2>1, <2>4, <2>5 DEF Pending, Clean, SameKnown
<1>4. ~receive_buffer /\ ~LinkError /\ ~attempt_connection
  BY <1>1, Received, Failed, Connected
<1>5. ~(ParseError \/ ClientGone \/ Restart)
  BY <1>1, Left
<1>6. ~ActionEnds
  <2>1. ASSUME ActionEnds PROVE FALSE
    <3>1. pc = "recv" /\ replies' # <<>>
      BY <1>1, <2>1, ReplyOfAction
    <3> QED BY <1>1, <3>1
  <2> QED BY <2>1
<1>7. CASE BeginMotion
  <2>1. UNCHANGED <<pc, asked, client_connected, slips, known, replies, move_speed, move_zone>>
    BY <1>7, Begun
  <2> QED BY <1>1, <1>7, <2>1 DEF Pending, Clean, SameKnown
<1>8. CASE Glide
  <2>1. UNCHANGED <<pc, asked, client_connected, slips, known, replies, doing, move_speed, move_zone>>
    BY <1>8, Glided
  <2> QED BY <1>1, <1>8, <2>1 DEF Pending, Clean, SameKnown
<1>9. CASE UNCHANGED vars
  <2>1. UNCHANGED <<pc, asked, client_connected, slips, known, replies, doing, move_speed,
                    move_zone, at, goal>>
    BY <1>9, NothingHappened
  <2> QED BY <1>1, <2>1 DEF Pending, Clean, SameKnown
<1> QED BY <1>2, <1>3, <1>4, <1>5, <1>6, <1>7, <1>8, <1>9, Steps

\* A reply that waits alone after a step did so before, or this step has sent it.
LEMMA AnsweredNext ==
    ASSUME Types, OneAtATime, [Next]_vars, Answered'
    PROVE  /\ known' = known /\ asked' = asked /\ asked # None
           /\ \/ /\ Answered /\ Reply' = Reply /\ UNCHANGED <<move_speed, move_zone, goal>>
                 /\ Glide \/ at' = at
              \/ /\ Pending /\ ActionEnds /\ doing # None /\ doing.of = asked
                 /\ Reply' \in Replies /\ Outcome(Reply')
<1>1. pc' = "recv" /\ slips' = 0 /\ client_connected' /\ replies' # <<>>
  BY DEF Answered, Clean
<1>2. ~send_request
  <2>1. ASSUME send_request PROVE FALSE
    <3>1. pc = "idle" /\ slips = 0 /\ client_connected /\ replies' = replies
      BY <1>1, <2>1, Sent
    <3> QED BY <1>1, <3>1 DEF OneAtATime, Clean
  <2> QED BY <2>1
<1>3. ~receive_buffer /\ ~LinkError /\ ~attempt_connection
  BY <1>1, Received, Failed, Connected
<1>4. ~(ParseError \/ ClientGone \/ Restart)
  BY <1>1, Left
<1>5. ~SocketReceive
  <2>1. ASSUME SocketReceive PROVE FALSE
    <3>1. /\ pc = "recv" /\ client_connected /\ slips = 0 /\ replies # <<>> /\ toRobot # <<>>
      BY <1>1, <2>1, Arrived
    <3> QED BY <3>1 DEF OneAtATime, Clean, Alone
  <2> QED BY <2>1
<1>6. ~BeginMotion
  <2>1. ASSUME BeginMotion PROVE FALSE
    <3>1. pc = "recv" /\ client_connected /\ slips = 0 /\ replies # <<>> /\ doing # None
      BY <1>1, <2>1, Begun
    <3> QED BY <3>1 DEF OneAtATime, Clean, Alone
  <2> QED BY <2>1
<1>7. CASE Glide \/ UNCHANGED vars
  <2>1. /\ UNCHANGED <<pc, asked, client_connected, slips, known, replies, move_speed, move_zone, goal>>
        /\ Glide \/ at' = at
    BY <1>7, Glided, NothingHappened
  <2> QED BY <1>1, <2>1 DEF Answered, Clean, Reply, OneAtATime
<1>8. CASE ActionEnds
  <2>1. /\ doing # None /\ UNCHANGED <<pc, asked, known>>
        /\ pc = "recv" /\ Clean' => /\ Pending /\ doing.of = asked
                                    /\ Reply' \in Replies /\ Outcome(Reply')
    BY <1>8, ReplyOfAction
  <2>2. Clean'
    BY <1>1 DEF Clean
  <2> QED BY <1>1, <1>8, <2>1, <2>2 DEF OneAtATime
<1> QED BY <1>2, <1>3, <1>4, <1>5, <1>6, <1>7, <1>8, Steps

-----------------------------------------------------------------------------
(* The speed and the zone *)

LEMMA SpeedStep ==
    IInv /\ [Next]_vars => SpeedHeld'
<1> SUFFICES ASSUME IInv, [Next]_vars PROVE SpeedHeld'
  OBVIOUS
<1>0. Types /\ OneAtATime /\ Executed /\ Doubts /\ SpeedHeld
  BY DEF IInv
<1>1. SpeedIs(Known.speed)'
  <2>1. CASE receive_buffer /\ Answered /\ Reply \in Replies /\ Learns
    <3>1. Known' = known' /\ move_speed' = move_speed /\ pc = "recv" /\ asked # None
      BY <1>0, <2>1, Received DEF Known
    <3>2. PICK n \in Int : known' = Learn(Reply, n)
      BY <2>1 DEF Learns
    <3>3. known'.speed =
            IF asked.cmd = "SETSPEED" /\ Reply.kind = "ACK" THEN {asked.speed} ELSE known.speed
      BY <1>0, <2>1, <3>1, <3>2, Learnt
    <3>4. CASE asked.cmd = "SETSPEED" /\ Reply.kind = "ACK"
      <4>1. move_speed \in uint16(asked.speed)
        BY <1>0, <2>1, <3>4 DEF SpeedHeld
      <4>2. asked.speed \in Int
        BY <1>0, <3>1, RequestMembers DEF Types
      <4>3. asked.speed \div 2 \in 0..UINT16_MAX => move_speed = asked.speed \div 2
        BY <4>1, <4>2, CastOfSpeed
      <4> QED BY <3>1, <3>3, <3>4, <4>3 DEF SpeedIs
    <3>5. CASE asked.cmd = "SETSPEED" /\ Reply.kind # "ACK"
      <4>1. SpeedIs(known.speed)
        BY <1>0, <2>1, <3>5 DEF SpeedHeld
      <4> QED BY <3>1, <3>3, <3>5, <4>1 DEF SpeedIs
    <3>6. CASE asked.cmd # "SETSPEED"
      <4>1. Known.speed = known.speed
        BY <3>1, <3>6, DoubtsOf DEF Known
      <4>2. SpeedIs(known.speed)
        BY <1>0, <4>1 DEF SpeedHeld
      <4> QED BY <3>1, <3>3, <3>6, <4>2 DEF SpeedIs
    <3> QED BY <3>4, <3>5, <3>6
  <2>2. CASE Fewer
    <3>1. Known'.speed \subseteq Known.speed
      BY <2>2 DEF Fewer
    <3>2. CASE move_speed' = move_speed
      BY <1>0, <3>1, <3>2 DEF SpeedHeld, SpeedIs
    <3>3. CASE SetSpeed
      <4>1. Known.speed = {}
        BY <1>0, <3>3, Forgotten DEF SetSpeed
      <4> QED BY <3>1, <4>1 DEF SpeedIs
    <3>4. CASE known' = NothingKnown
      <4>1. Known'.speed = {}
        BY <3>4 DEF Known, Doubted, NothingKnown
      <4> QED BY <4>1 DEF SpeedIs
    <3> QED BY <1>0, <3>2, <3>3, <3>4, WhoChanges
  <2> QED BY <1>0, <2>1, <2>2, KnownNext
<1>2. ASSUME Pending' PROVE SpeedIs(known.speed)'
  <2>1. /\ known'.speed = known.speed /\ move_speed' = move_speed
        /\ Pending \/ Known = known
    BY <1>0, <1>2, PendingNext DEF SameKnown
  <2>2. SpeedIs(known.speed)
    BY <1>0, <2>1 DEF SpeedHeld
  <2> QED BY <2>1, <2>2 DEF SpeedIs
<1>3. ASSUME Answered', asked'.cmd = "SETSPEED"
      PROVE  IF Reply'.kind = "ACK" THEN move_speed' \in uint16(asked'.speed)
             ELSE SpeedIs(known.speed)'
  <2>1. known' = known /\ asked' = asked
    BY <1>0, <1>3, AnsweredNext
  <2>2. CASE Answered /\ Reply' = Reply /\ move_speed' = move_speed
    <3>1. IF Reply.kind = "ACK" THEN move_speed \in uint16(asked.speed) ELSE SpeedIs(known.speed)
      BY <1>0, <1>3, <2>1, <2>2 DEF SpeedHeld
    <3> QED BY <2>1, <2>2, <3>1 DEF SpeedIs
  <2>3. CASE Pending /\ ActionEnds /\ doing # None /\ doing.of = asked /\ Outcome(Reply')
    <3>0. doing.of # None
      BY <1>0, <2>3 DEF OneAtATime, Pending, Clean
    <3>1. doing.cmd = "SetSpeed" /\ ~doing.moving
      <4>1. doing.cmd = "SetSpeed" /\ doing # None
        BY <1>0, <1>3, <2>1, <2>3, <3>0, OwnCommand
      <4>2. doing.cmd \notin MoveCommands
        BY <4>1 DEF MoveCommands, JointMotions
      <4> QED BY <1>0, <4>1, <4>2 DEF Executed
    <3>2. PICK reply : reply = Reply'
      OBVIOUS
    <3>3. \/ reply.kind = "ACK" /\ move_speed' \in doing.speed
          \/ reply.kind = "NACK" /\ move_speed' = move_speed
      BY <2>3, <3>1, <3>2
      DEF Outcome, MotionDone, MotionFails, Refuse, SetZone, PINGR, GetState, MoveCommands, JointMotions
    <3>4. doing.speed \subseteq uint16(asked.speed)
      BY <1>0, <1>3, <2>1, <2>3, <3>0 DEF Executed, ExecutedAsAsked
    <3>5. SpeedIs(known.speed)
      BY <1>0, <2>3 DEF SpeedHeld
    <3>6. CASE reply.kind = "ACK" /\ move_speed' \in doing.speed
      BY <2>1, <3>2, <3>4, <3>6
    <3>7. CASE reply.kind = "NACK" /\ move_speed' = move_speed
      BY <2>1, <3>2, <3>5, <3>7 DEF SpeedIs
    <3> QED BY <3>3, <3>6, <3>7
  <2> QED BY <1>0, <1>3, <2>2, <2>3, AnsweredNext
<1> QED BY <1>1, <1>2, <1>3 DEF SpeedHeld

LEMMA ZoneStep ==
    IInv /\ [Next]_vars => ZoneHeld'
<1> SUFFICES ASSUME IInv, [Next]_vars PROVE ZoneHeld'
  OBVIOUS
<1>0. Types /\ OneAtATime /\ Executed /\ Doubts /\ ZoneHeld
  BY DEF IInv
<1>1. ZoneIs(Known.zone)'
  <2>1. CASE receive_buffer /\ Answered /\ Reply \in Replies /\ Learns
    <3>1. Known' = known' /\ move_zone' = move_zone /\ pc = "recv" /\ asked # None
      BY <1>0, <2>1, Received DEF Known
    <3>2. PICK n \in Int : known' = Learn(Reply, n)
      BY <2>1 DEF Learns
    <3>3. known'.zone =
            IF asked.cmd = "SETZONE" /\ Reply.kind = "ACK" THEN {asked.zone} ELSE known.zone
      BY <1>0, <2>1, <3>1, <3>2, Learnt
    <3>4. CASE asked.cmd = "SETZONE" /\ Reply.kind = "ACK"
      <4>1. move_zone = value_to_zone(proto_zone_enum2rapid_zone_enum(asked.zone))
        BY <1>0, <2>1, <3>4 DEF ZoneHeld
      <4> QED BY <3>1, <3>3, <3>4, <4>1 DEF ZoneIs
    <3>5. CASE asked.cmd = "SETZONE" /\ Reply.kind # "ACK"
      <4>1. ZoneIs(known.zone)
        BY <1>0, <2>1, <3>5 DEF ZoneHeld
      <4> QED BY <3>1, <3>3, <3>5, <4>1 DEF ZoneIs
    <3>6. CASE asked.cmd # "SETZONE"
      <4>1. Known.zone = known.zone
        BY <3>1, <3>6, DoubtsOf DEF Known
      <4>2. ZoneIs(known.zone)
        BY <1>0, <4>1 DEF ZoneHeld
      <4> QED BY <3>1, <3>3, <3>6, <4>2 DEF ZoneIs
    <3> QED BY <3>4, <3>5, <3>6
  <2>2. CASE Fewer
    <3>1. Known'.zone \subseteq Known.zone
      BY <2>2 DEF Fewer
    <3>2. CASE move_zone' = move_zone
      BY <1>0, <3>1, <3>2 DEF ZoneHeld, ZoneIs
    <3>3. CASE SetZone
      <4>1. Known.zone = {}
        BY <1>0, <3>3, Forgotten DEF SetZone
      <4> QED BY <3>1, <4>1 DEF ZoneIs
    <3>4. CASE known' = NothingKnown
      <4>1. Known'.zone = {}
        BY <3>4 DEF Known, Doubted, NothingKnown
      <4> QED BY <4>1 DEF ZoneIs
    <3> QED BY <1>0, <3>2, <3>3, <3>4, WhoChanges
  <2> QED BY <1>0, <2>1, <2>2, KnownNext
<1>2. ASSUME Pending' PROVE ZoneIs(known.zone)'
  <2>1. /\ known'.zone = known.zone /\ move_zone' = move_zone
        /\ Pending \/ Known = known
    BY <1>0, <1>2, PendingNext DEF SameKnown
  <2>2. ZoneIs(known.zone)
    BY <1>0, <2>1 DEF ZoneHeld
  <2> QED BY <2>1, <2>2 DEF ZoneIs
<1>3. ASSUME Answered', asked'.cmd = "SETZONE"
      PROVE  IF Reply'.kind = "ACK"
             THEN move_zone' = value_to_zone(proto_zone_enum2rapid_zone_enum(asked'.zone))
             ELSE ZoneIs(known.zone)'
  <2>1. known' = known /\ asked' = asked
    BY <1>0, <1>3, AnsweredNext
  <2>2. CASE Answered /\ Reply' = Reply /\ move_zone' = move_zone
    <3>1. IF Reply.kind = "ACK"
          THEN move_zone = value_to_zone(proto_zone_enum2rapid_zone_enum(asked.zone))
          ELSE ZoneIs(known.zone)
      BY <1>0, <1>3, <2>1, <2>2 DEF ZoneHeld
    <3> QED BY <2>1, <2>2, <3>1 DEF ZoneIs
  <2>3. CASE Pending /\ ActionEnds /\ doing # None /\ doing.of = asked /\ Outcome(Reply')
    <3>0. doing.of # None
      BY <1>0, <2>3 DEF OneAtATime, Pending, Clean
    <3>1. doing.cmd = "SetZone" /\ ~doing.moving
      <4>1. doing.cmd = "SetZone" /\ doing # None
        BY <1>0, <1>3, <2>1, <2>3, <3>0, OwnCommand
      <4>2. doing.cmd \notin MoveCommands
        BY <4>1 DEF MoveCommands, JointMotions
      <4> QED BY <1>0, <4>1, <4>2 DEF Executed
    <3>2. PICK reply : reply = Reply'
      OBVIOUS
    <3>3. reply.kind = "ACK" /\ SetZone
      BY <2>3, <3>1, <3>2
      DEF Outcome, MotionDone, MotionFails, Refuse, SetSpeed, PINGR, GetState, MoveCommands, JointMotions
    <3>4. doing.zone = {proto_zone_enum2rapid_zone_enum(asked.zone)}
      BY <1>0, <1>3, <2>1, <2>3, <3>0 DEF Executed
    <3>5. \E value \in doing.zone : move_zone' = value_to_zone(value)
      BY <3>3 DEF SetZone
    <3>6. move_zone' = value_to_zone(proto_zone_enum2rapid_zone_enum(asked.zone))
      BY <3>4, <3>5
    <3> QED BY <2>1, <3>2, <3>3, <3>6
  <2> QED BY <1>0, <1>3, <2>2, <2>3, AnsweredNext
<1> QED BY <1>1, <1>2, <1>3 DEF ZoneHeld

-----------------------------------------------------------------------------
(* The place *)

\* A motion of the client's own leads where the client expects it, if the robot
\* stands where it is known to stand.
LEMMA OwnMotion ==
    ASSUME Types, OneAtATime, Executed, asked # None, doing # None, doing.of = asked,
           doing.cmd \in MoveCommands, PlaceIs(known.goal, known.at), NEW p \in Destination(doing)
    PROVE  GoalAsked \subseteq {p}
<1>1. /\ asked \in Requests /\ doing.cmd = Meaning[asked.cmd]
      /\ asked.cmd \in DOMAIN proto_cmd_enum2rapid_cmd_enum
      /\ asked.cmd \in Motions
  BY OwnCommand
<1>2. /\ asked.cmd \in Cartesian \cup ByOffset => doing.target = asked.target
      /\ asked.cmd = "MOVEABSJ" => doing.joint = asked.joint_target
  BY DEF Executed, ExecutedAsAsked
<1>3. /\ asked.target \in {{}} \cup {{q} : q \in Int}
      /\ asked.joint_target \in {{}} \cup {{q} : q \in Int}
  BY <1>1, RequestMembers
<1>4. /\ doing.cmd = "ZERO" <=> asked.cmd = "ZERO"
      /\ doing.cmd = "MoveAbsJ" <=> asked.cmd = "MOVEABSJ"
      /\ doing.cmd \in {"MoveLOffs", "MoveJOffs"} <=> asked.cmd \in ByOffset
  BY <1>1, MeaningOf
<1>5. CASE asked.cmd = "ZERO"
  <2>1. p = ZeroPlace
    BY <1>4, <1>5 DEF Destination
  <2>2. GoalAsked = {ZeroPlace}
    BY <1>5 DEF GoalAsked, Cartesian, ByOffset
  <2> QED BY <2>1, <2>2
<1>6. CASE asked.cmd = "MOVEABSJ"
  <2>1. doing.cmd # "ZERO" /\ doing.cmd = "MoveAbsJ"
    BY <1>4, <1>6
  <2>2. p \in asked.joint_target
    BY <1>2, <1>6, <2>1 DEF Destination
  <2>3. GoalAsked = asked.joint_target
    BY <1>6 DEF GoalAsked, Cartesian, ByOffset
  <2> QED BY <1>3, <2>2, <2>3
<1>7. CASE asked.cmd \in Cartesian
  <2>1. asked.cmd # "ZERO" /\ asked.cmd # "MOVEABSJ" /\ asked.cmd \notin ByOffset
    BY <1>7 DEF Cartesian, ByOffset
  <2>2. p \in asked.target
    BY <1>2, <1>4, <1>7, <2>1 DEF Destination
  <2>3. GoalAsked = asked.target
    BY <1>7, <2>1 DEF GoalAsked
  <2> QED BY <1>3, <2>2, <2>3
<1>8. CASE asked.cmd \in ByOffset
  <2>1. asked.cmd # "ZERO" /\ asked.cmd # "MOVEABSJ" /\ asked.cmd \notin Cartesian
    BY <1>8 DEF Cartesian, ByOffset
  <2>2. p \in {at + d : d \in asked.target}
    BY <1>2, <1>4, <1>8, <2>1 DEF Destination
  <2>3. PICK d : d \in asked.target /\ p = at + d
    BY <2>2
  <2>4. asked.target = {d}
    BY <1>3, <2>3
  <2>5. GoalAsked = {r + e : r \in known.at, e \in asked.target}
    BY <1>8, <2>1 DEF GoalAsked
  <2>6. \A q \in GoalAsked : \E r \in known.at : \E e \in asked.target : q = r + e
    BY <2>5
  <2>7. \A r \in known.at : r = at
    BY DEF PlaceIs
  <2>8. ASSUME NEW q \in GoalAsked PROVE q = p
    BY <2>3, <2>4, <2>6, <2>7
  <2> QED BY <2>8
<1> QED BY <1>1, <1>5, <1>6, <1>7, <1>8 DEF Motions

LEMMA PlaceStep ==
    IInv /\ [Next]_vars => PlaceHeld'
<1> SUFFICES ASSUME IInv, [Next]_vars PROVE PlaceHeld'
  OBVIOUS
<1>0. Types /\ OneAtATime /\ Executed /\ Doubts /\ ZoneHeld /\ PlaceHeld
  BY DEF IInv
<1>1. PlaceIs(Known.goal, Known.at)'
  <2>1. CASE receive_buffer /\ Answered /\ Reply \in Replies /\ Learns
    <3>1. Known' = known' /\ at' = at /\ goal' = goal /\ pc = "recv" /\ asked # None
      BY <1>0, <2>1, Received DEF Known
    <3>2. PICK n \in Int : known' = Learn(Reply, n)
      BY <2>1 DEF Learns
    <3>3. /\ known'.goal = IF asked.cmd \notin Motions THEN known.goal
                           ELSE IF Reply.kind = "ACK" THEN GoalAsked ELSE {}
          /\ known'.at = IF asked.cmd \notin Motions THEN known.at
                         ELSE IF Reply.kind = "ACK" THEN PlaceAsked ELSE {}
      BY <1>0, <2>1, <3>1, <3>2, Learnt
    <3>4. CASE asked.cmd \in Motions /\ Reply.kind = "ACK"
      <4>1. GoalAsked \subseteq {goal} /\ (known.zone = {"FINE"} => at = goal)
        BY <1>0, <2>1, <3>4 DEF PlaceHeld
      <4>2. PlaceIs(GoalAsked, PlaceAsked)
        BY <4>1 DEF PlaceAsked, PlaceIs
      <4> QED BY <3>1, <3>3, <3>4, <4>2 DEF PlaceIs
    <3>5. CASE asked.cmd \in Motions /\ Reply.kind # "ACK"
      BY <3>1, <3>3, <3>5 DEF PlaceIs
    <3>6. CASE asked.cmd \notin Motions
      <4>1. Known.goal = known.goal /\ Known.at = known.at
        BY <3>1, <3>6, DoubtsOf DEF Known
      <4>2. PlaceIs(known.goal, known.at)
        BY <1>0, <4>1 DEF PlaceHeld
      <4> QED BY <3>1, <3>3, <3>6, <4>2 DEF PlaceIs
    <3> QED BY <3>4, <3>5, <3>6
  <2>2. CASE Fewer
    <3>1. Known'.goal \subseteq Known.goal /\ (Known'.at = Known.at \/ Known'.at = {})
      BY <2>2 DEF Fewer
    <3>2. CASE UNCHANGED <<at, goal>>
      BY <1>0, <3>1, <3>2 DEF PlaceHeld, PlaceIs
    <3>3. CASE BeginMotion \/ MotionFails
      <4>1. doing # None /\ doing.cmd \in MoveCommands
        BY <1>0, <3>3 DEF BeginMotion, MotionFails, Executed
      <4>2. Known.goal = {} /\ Known.at = {}
        BY <1>0, <4>1, Forgotten
      <4> QED BY <3>1, <4>2 DEF PlaceIs
    <3>4. CASE Glide
      <4>1. Known.at = {} /\ goal' = goal
        BY <1>0, <3>4, Glided DEF PlaceHeld, PlaceIs
      <4>2. Known.goal \subseteq {goal}
        BY <1>0 DEF PlaceHeld, PlaceIs
      <4> QED BY <3>1, <4>1, <4>2 DEF PlaceIs
    <3>5. CASE known' = NothingKnown
      <4>1. Known'.goal = {} /\ Known'.at = {}
        BY <3>5 DEF Known, Doubted, NothingKnown
      <4> QED BY <4>1 DEF PlaceIs
    <3> QED BY <1>0, <3>2, <3>3, <3>4, <3>5, WhoChanges
  <2> QED BY <1>0, <2>1, <2>2, KnownNext
<1>2. ASSUME Pending', ~Moving' PROVE PlaceIs(known.goal, known.at)'
  <2>1. known'.goal = known.goal /\ known'.at = known.at
    BY <1>0, <1>2, PendingNext DEF SameKnown
  <2>2. ~BeginMotion
    BY <1>0, <1>2, Begun DEF Moving
  <2>3. \/ Known = known /\ UNCHANGED <<at, goal>>
        \/ Pending /\ doing = None /\ UNCHANGED <<at, goal>>
        \/ Pending /\ doing' = doing /\ (UNCHANGED <<at, goal>> \/ Glide)
    BY <1>0, <1>2, <2>2, PendingNext
  <2>4. PlaceIs(known.goal, known.at)
    BY <1>0, <1>2, <2>3 DEF PlaceHeld, Moving
  <2>5. CASE UNCHANGED <<at, goal>>
    BY <2>1, <2>4, <2>5 DEF PlaceIs
  <2>6. CASE Glide
    <3>1. known.at = {} /\ goal' = goal
      BY <2>4, <2>6, Glided DEF PlaceIs
    <3> QED BY <2>1, <2>4, <3>1 DEF PlaceIs
  <2> QED BY <2>3, <2>5, <2>6
<1>3. ASSUME Pending', Moving' PROVE (GoalAsked \subseteq {goal})'
  <2>1. doing' # None /\ doing'.moving
    BY <1>3 DEF Moving
  <2>2. /\ Pending /\ asked' = asked /\ known' = known
        /\ \/ doing' = doing /\ (UNCHANGED <<at, goal>> \/ Glide)
           \/ BeginMotion
    BY <1>0, <1>3, <2>1, PendingNext
  <2>3. GoalAsked' = GoalAsked
    BY <2>2 DEF GoalAsked
  <2>4. CASE BeginMotion
    <3>1. /\ doing # None /\ ~doing.moving /\ doing.cmd \in MoveCommands
          /\ goal' \in Destination(doing)
      BY <1>0, <2>4, Begun
    <3>2. asked # None /\ doing.of = asked
      BY <1>0, <2>2, <3>1 DEF OneAtATime, Alone, Pending
    <3>3. PlaceIs(known.goal, known.at)
      BY <1>0, <2>2, <3>1 DEF PlaceHeld, Moving
    <3>4. GoalAsked \subseteq {goal'}
      BY <1>0, <3>1, <3>2, <3>3, OwnMotion
    <3> QED BY <2>3, <3>4
  <2>5. CASE doing' = doing /\ goal' = goal
    <3>1. GoalAsked \subseteq {goal}
      BY <1>0, <2>1, <2>2, <2>5 DEF PlaceHeld, Moving
    <3> QED BY <2>3, <2>5, <3>1
  <2> QED BY <2>2, <2>4, <2>5, Glided
<1>4. ASSUME Answered', asked'.cmd \in Motions, Reply'.kind = "ACK"
      PROVE  (GoalAsked \subseteq {goal} /\ (known.zone = {"FINE"} => at = goal))'
  <2>1. known' = known /\ asked' = asked /\ asked # None
    BY <1>0, <1>4, AnsweredNext
  <2>2. GoalAsked' = GoalAsked
    BY <2>1 DEF GoalAsked
  <2>3. CASE Answered /\ Reply' = Reply /\ goal' = goal /\ (Glide \/ at' = at)
    <3>1. GoalAsked \subseteq {goal} /\ (known.zone = {"FINE"} => at = goal)
      BY <1>0, <1>4, <2>1, <2>3 DEF PlaceHeld
    <3>2. Glide => at # goal
      BY Glided
    <3> QED BY <2>1, <2>2, <2>3, <3>1, <3>2
  <2>4. CASE Pending /\ ActionEnds /\ doing # None /\ doing.of = asked /\ Outcome(Reply')
    <3>0. PICK reply : reply = Reply'
      OBVIOUS
    <3>1. doing.cmd \in MoveCommands
      BY <1>0, <1>4, <2>1, <2>4, OwnCommand
    <3>2. MotionDone
      BY <1>4, <2>4, <3>0, <3>1 DEF Outcome, SetSpeed, SetZone, PINGR, MoveCommands, JointMotions
    <3>3. /\ doing # None /\ doing.moving /\ (move_zone = "fine" => at = goal)
          /\ at' = at /\ goal' = goal
      BY <3>2 DEF MotionDone, robotVars
    <3>4. GoalAsked \subseteq {goal}
      BY <1>0, <2>4, <3>3 DEF PlaceHeld, Moving
    <3>5. known.zone = {"FINE"} => move_zone = "fine"
      <4>1. ZoneIs(known.zone)
        BY <1>0, <2>4 DEF ZoneHeld
      <4>2. proto_zone_enum2rapid_zone_enum("FINE") = 0
        BY DEF proto_zone_enum2rapid_zone_enum, RapidZone, Zones
      <4>3. value_to_zone(0) = "fine"
        BY DEF value_to_zone, ZoneData
      <4>4. known.zone = {"FINE"} =>
              move_zone = value_to_zone(proto_zone_enum2rapid_zone_enum("FINE"))
        BY <4>1, Zenon DEF ZoneIs
      <4> QED BY <4>2, <4>3, <4>4
    <3> QED BY <2>1, <2>2, <3>3, <3>4, <3>5
  <2> QED BY <1>0, <1>4, <2>3, <2>4, AnsweredNext
<1> QED BY <1>1, <1>2, <1>3, <1>4 DEF PlaceHeld

-----------------------------------------------------------------------------
(* The report is read as it was packed *)

\* The zone that was sent is the one that is reported, if the numbers are the same.
LEMMA ZoneReads ==
    ASSUME NEW z, ZoneNumber = RapidZone
    PROVE  ZoneReported(proto_zone_enum2rapid_zone_enum(z)) = {IF z \in Zones THEN z ELSE "FINE"}
<1> DEFINE zone == IF z \in Zones THEN z ELSE "FINE"
<1>1. zone \in Zones /\ proto_zone_enum2rapid_zone_enum(z) = RapidZone[zone]
  BY DEF Zones, proto_zone_enum2rapid_zone_enum
<1> HIDE DEF zone
<1>2. \A y \in Zones : RapidZone[y] = RapidZone[zone] => y = zone
  BY <1>1 DEF Zones, RapidZone
<1>3. ZoneReported(RapidZone[zone]) = {zone}
  BY <1>1, <1>2 DEF ZoneReported
<1> QED BY <1>1, <1>3 DEF zone

LEMMA ReportStep == IInv /\ [Next]_vars => ReportHeld'
<1> SUFFICES ASSUME IInv, [Next]_vars PROVE ReportHeld'
  OBVIOUS
<1>0. /\ Types /\ OneAtATime /\ Executed /\ Doubts
      /\ SpeedHeld /\ ZoneHeld /\ PlaceHeld /\ ReportHeld
  BY DEF IInv
<1>1. /\ ReportAgrees'
      /\ pc' = "recv" => known'.report = {}
  <2>1. CASE known'.report = {}
    BY <2>1 DEF ReportAgrees
  <2>2. CASE known' = known /\ (pc' = "recv" => pc = "recv")
    BY <1>0, <2>2 DEF ReportHeld, ReportAgrees
  <2>3. CASE receive_buffer
    <3>1. pc = "recv" /\ asked # None /\ pc' = "idle" /\ known.report = {}
      BY <1>0, <2>3, Received DEF ReportHeld
    <3>2. CASE known' = Doubted(asked.cmd)
      BY <2>1, <3>2, DoubtsOf
    <3>3. CASE Answered /\ Reply \in Replies /\ \E n \in Int : known' = Learn(Reply, n)
      <4>1. PICK n \in Int : known' = Learn(Reply, n)
        BY <3>3
      <4>2. CASE ~(asked.cmd = "GETSTATUS" /\ Reply.kind = "report")
        <5>1. known'.report = {}
          BY <1>0, <3>1, <3>3, <4>1, <4>2, Learnt
        <5> QED BY <2>1, <5>1
      <4>3. CASE asked.cmd = "GETSTATUS" /\ Reply.kind = "report"
        <5>1. asked.cmd \notin Motions
          BY <4>3 DEF Motions, Cartesian, ByOffset
        <5>2. /\ known'.speed = known.speed /\ known'.zone = known.zone /\ known'.at = known.at
              /\ known'.report = unpack_robot_status(Reply.values, n)
          BY <1>0, <3>1, <3>3, <4>1, <4>3, <5>1, Learnt
        <5>3. Reply.values \in [{Speed, Zone, X} -> Int]
          BY <3>3, <4>3 DEF Replies
        <5>4. Agree(Reply.values[Speed], Reply.values[Zone], Reply.values[X])
          BY <1>0, <3>3, <4>3 DEF ReportHeld
        <5>5. ASSUME NEW s \in known'.report
              PROVE  /\ \A v \in known'.speed : v \div 2 \in 0..UINT16_MAX => s[Speed] = {v \div 2}
                     /\ ZoneNumber = RapidZone =>
                           \A z \in known'.zone : s[Zone] = {IF z \in Zones THEN z ELSE "FINE"}
                     /\ \A p \in known'.at : s[X] = {p}
          <6>1. /\ s[Speed] = {Reply.values[Speed]} /\ s[Zone] = ZoneReported(Reply.values[Zone])
                /\ s[X] = {Reply.values[X]}
            BY <5>2, <5>3, <5>5, Unpacked
          <6>2. /\ \A v \in known'.speed : v \div 2 \in 0..UINT16_MAX => s[Speed] = {v \div 2}
                /\ \A p \in known'.at : s[X] = {p}
            BY <5>2, <5>4, <6>1 DEF Agree
          <6>3. ASSUME ZoneNumber = RapidZone, NEW z \in known'.zone
                PROVE  s[Zone] = {IF z \in Zones THEN z ELSE "FINE"}
            <7>1. Reply.values[Zone] = proto_zone_enum2rapid_zone_enum(z)
              BY <5>2, <5>4, <6>3 DEF Agree
            <7> QED BY <6>1, <6>3, <7>1, ZoneReads
          <6> QED BY <6>2, <6>3
        <5> QED BY <3>1, <5>5 DEF ReportAgrees
      <4> QED BY <4>2, <4>3
    <3> QED BY <1>0, <2>3, <3>2, <3>3, Received
  <2>4. CASE send_request
    <3>1. known \in Knowledge
      BY <1>0 DEF Types
    <3>2. [known EXCEPT !.report = {}].report = {}
      BY <3>1 DEF Knowledge
    <3>3. known'.report = {}
      BY <1>0, <2>4, <3>2, Sent, DoubtsOf
    <3> QED BY <2>1, <3>3
  <2>5. CASE LinkError
    <3>1. known' = Doubted(asked.cmd)
      BY <2>5, Failed DEF Known
    <3> QED BY <2>1, <3>1, DoubtsOf
  <2>6. attempt_connection => known' = known /\ pc' = "idle"
    BY <1>0, Connected
  <2>7. SocketReceive \/ ParseError \/ ClientGone \/ Restart =>
          pc' = pc /\ (known' = known \/ known' = NothingKnown)
    BY <1>0, Arrived, Left
  <2>8. BeginMotion \/ Glide \/ ActionEnds \/ UNCHANGED vars => pc' = pc /\ known' = known
    BY <1>0, Begun, Glided, ReplyOfAction, NothingHappened
  <2>9. known' = NothingKnown => known'.report = {}
    BY NothingIsKnown
  <2> QED BY <2>1, <2>2, <2>3, <2>4, <2>5, <2>6, <2>7, <2>8, <2>9, Steps
<1>2. ASSUME Answered', Reply'.kind = "report"
      PROVE  Agree(Reply.values[Speed], Reply.values[Zone], Reply.values[X])'
  <2>1. known' = known /\ asked' = asked /\ asked # None
    BY <1>0, <1>2, AnsweredNext
  <2>2. PICK reply : reply = Reply'
    OBVIOUS
  <2>3. SUFFICES Agree(reply.values[Speed], reply.values[Zone], reply.values[X])
    BY <2>1, <2>2 DEF Agree, Speed, Zone, X, Field
  <2>4. CASE Answered /\ Reply' = Reply
    BY <1>0, <1>2, <2>2, <2>4 DEF ReportHeld
  <2>5. CASE Pending /\ ActionEnds /\ doing # None /\ doing.of = asked /\ Outcome(reply)
    <3>1. reply = Report /\ GetState
      BY <1>2, <2>2, <2>5 DEF Outcome
    <3>2. doing # None /\ doing.cmd = "GETSTATUS"
      BY <3>1 DEF GetState
    <3>3. asked.cmd = "GETSTATUS"
      BY <1>0, <2>1, <2>5, <3>2, OwnCommand
    <3>4. Known.speed = known.speed /\ Known.zone = known.zone /\ Known.at = known.at
      <4>1. "GETSTATUS" \notin Motions
        BY DEF Motions, Cartesian, ByOffset
      <4> QED BY <2>5, <3>3, <4>1, DoubtsOf DEF Known
    <3>5. /\ reply.values[Speed] = move_speed
          /\ reply.values[Zone] = zone_to_value(move_zone)
          /\ reply.values[X] = at
      BY <1>0, <3>1, ReportMembers
    <3>6. \A v \in known.speed : v \div 2 \in 0..UINT16_MAX => reply.values[Speed] = v \div 2
      BY <1>0, <3>4, <3>5 DEF SpeedHeld, SpeedIs
    <3>7. ASSUME NEW z \in known.zone
          PROVE  reply.values[Zone] = proto_zone_enum2rapid_zone_enum(z)
      <4>1. move_zone = value_to_zone(proto_zone_enum2rapid_zone_enum(z))
        BY <1>0, <3>4 DEF ZoneHeld, ZoneIs
      <4>2. PICK number \in 0..7 : number = proto_zone_enum2rapid_zone_enum(z)
        BY ZoneNumbers
      <4>3. zone_to_value(value_to_zone(number)) = number
        BY <4>2, Zenon, ZoneValues
      <4> QED BY <3>5, <4>1, <4>2, <4>3
    <3>8. \A p \in known.at : reply.values[X] = p
      BY <1>0, <3>4, <3>5 DEF PlaceHeld, PlaceIs
    <3> QED BY <3>6, <3>7, <3>8 DEF Agree
  <2> QED BY <1>0, <1>2, <2>2, <2>4, <2>5, AnsweredNext
<1> QED BY <1>1, <1>2 DEF ReportHeld

-----------------------------------------------------------------------------
(* The theorems *)

LEMMA InvariantInit == Init => IInv
<1> SUFFICES ASSUME Init PROVE IInv
  OBVIOUS
<1>1. /\ pc = "idle" /\ asked = None /\ toRobot = <<>> /\ doing = None /\ replies = <<>>
      /\ client_connected = TRUE /\ known = NothingKnown
  BY DEF Init
<1>2. /\ Known.speed = {} /\ Known.zone = {} /\ Known.goal = {} /\ Known.at = {}
      /\ known.report = {}
  BY <1>1, NothingIsKnown DEF Known
<1>3. ~Pending /\ ~Answered /\ \A i : i \notin 1..Len(<<>>)
  BY <1>1 DEF Pending, Answered
<1>4. OneAtATime
  BY <1>1, <1>3 DEF OneAtATime
<1>5. Executed /\ Doubts
  BY <1>1, <1>3 DEF Executed, ExecutedAsAsked, Doubts
<1>6. SpeedHeld
  BY <1>2, <1>3 DEF SpeedHeld, SpeedIs
<1>7. ZoneHeld
  BY <1>2, <1>3 DEF ZoneHeld, ZoneIs
<1>8. PlaceHeld
  BY <1>2, <1>3 DEF PlaceHeld, PlaceIs
<1>9. ReportHeld
  BY <1>2, <1>3 DEF ReportHeld, ReportAgrees
<1> QED BY TypesInit, <1>4, <1>5, <1>6, <1>7, <1>8, <1>9 DEF IInv

LEMMA InvariantStep == IInv /\ [Next]_vars => IInv'
<1> SUFFICES ASSUME IInv, [Next]_vars PROVE IInv'
  OBVIOUS
<1>1. Types /\ OneAtATime /\ Executed /\ Doubts
  BY DEF IInv
<1>2. Types' /\ OneAtATime' /\ Executed' /\ Doubts'
  BY <1>1, TypesStep, OneAtATimeStep, ExecutedStep, DoubtsStep
<1>3. SpeedHeld' /\ ZoneHeld' /\ PlaceHeld' /\ ReportHeld'
  BY SpeedStep, ZoneStep, PlaceStep, ReportStep
<1> QED BY <1>2, <1>3 DEF IInv

\* The command path's inductive invariant, on connections that have slipped and on
\* those that have not: where a command and its replies can be (OneAtATime, which
\* says next to nothing once a connection has slipped); what a call is of (Executed);
\* that nothing is known which a command that is still under way may change, whoever
\* believes that it is over (Doubts); and what follows from a reply on a connection
\* that has not slipped (SpeedHeld, ZoneHeld, PlaceHeld, ReportHeld).
THEOREM CommandPathInvariant == Spec => []IInv
<1>1. Init => IInv
  BY InvariantInit
<1>2. IInv /\ [Next]_vars => IInv'
  BY InvariantStep
<1> QED BY <1>1, <1>2, PTL DEF Spec

\* Every value on the way from create_rapid_request to ExecuteAction and back has
\* its type; the controller's speed stays between 5 mm/s and its limit (SetSpeed),
\* also when it is read from the middle of a request.
THEOREM CommandPathTypeCorrect == Spec => []TypeOK
<1>1. IInv => TypeOK
  <2> SUFFICES ASSUME IInv PROVE TypeOK
    OBVIOUS
  <2>1. Types /\ OneAtATime
    BY DEF IInv
  <2>2. \A i \in DOMAIN replies : replies[i].kind \in {"ACK", "NACK", "report", "fragment"}
    <3>1. replies \in Seq(Replies)
      BY <2>1 DEF Types
    <3>2. \A i \in DOMAIN replies : replies[i] \in Replies
      BY <3>1, ElementOfSeq, LenProperties
    <3>3. \A reply \in Replies : reply.kind \in {"ACK", "NACK", "report", "fragment"}
      BY DEF Replies
    <3> QED BY <3>2, <3>3
  <2>3. \E i \in DOMAIN ZoneData : move_zone = ZoneData[i]
    <3>1. DOMAIN ZoneData = 1..8
      BY DEF ZoneData
    <3>2. move_zone \in {ZoneData[i] : i \in 1..8}
      BY <2>1 DEF Types
    <3> QED BY <3>1, <3>2
  <2>4. known.speed \subseteq Speeds \cup {0} /\ known.zone \subseteq ProtoZones
    BY <2>1 DEF Types, Knowledge
  <2>5. toRobot \in Seq([of : Requests \cup {None}, msg : RapidRequests \cup {None},
                         bytes : 1..RequestSize])
    <3>1. EncodedParts \subseteq Items
      BY DEF EncodedParts
    <3>2. toRobot \in Seq(EncodedParts)
      BY <2>1 DEF Types
    <3>3. toRobot \in Seq(Items)
      BY <3>1, <3>2
    <3> QED BY <3>3 DEF Items
  <2>6. asked = None <=> pc = "idle"
    BY <2>1 DEF OneAtATime
  <2> QED BY <2>1, <2>2, <2>3, <2>4, <2>5, <2>6 DEF Types, TypeOK
<1> QED BY <1>1, CommandPathInvariant, PTL

\* The controller executes a client's command with that client's values or does not
\* execute it (commands.cpp and ParsingModule), for all targets, offsets, speeds and
\* zones, wherever a request is cut, and on connections that have slipped too.  Only
\* the rest of a request that came in pieces is taken for something else.
THEOREM CommandsExecutedAsAsked == Spec => []ExecutedAsAsked
<1>1. IInv => ExecutedAsAsked
  BY DEF IInv, Executed
<1> QED BY <1>1, CommandPathInvariant, PTL

\* A speed that was acknowledged on a connection that had not slipped is in force,
\* without its fraction, until another SETSPEED is sent, the controller starts again
\* or executes the rest of a request (SetSpeed, and the cast to uint16_t in
\* create_rapid_request): whatever else is sent, lost, cut or answered out of step
\* in between.
THEOREM SpeedInForce == Spec => []SpeedAsAcknowledged
<1>1. IInv => SpeedAsAcknowledged
  BY DEF IInv, SpeedHeld, SpeedIs, SpeedAsAcknowledged
<1> QED BY <1>1, CommandPathInvariant, PTL

\* While a zone is known in the same way the robot makes stop points if and only if
\* they were asked for, and fly-by points no larger than asked for (the tables of
\* zones in commands.hpp and ValueModule), for every set of zones of the protocol.
THEOREM ZonesOnTheSafeSide == Spec => []ZoneNeverCoarser
<1>1. IInv => ZoneNeverCoarser
  <2> SUFFICES ASSUME IInv, NEW z \in Known.zone
               PROVE  LET zone == IF z \in Zones THEN z ELSE "FINE"
                          asFar == [FINE |-> 0, Z1 |-> 2, Z5 |-> 3, Z10 |-> 4, Z15 |-> 5,
                                    Z20 |-> 6, Z30 |-> 7]
                      IN  /\ (move_zone = "fine") = (zone = "FINE")
                          /\ zone_to_value(move_zone) <= asFar[zone]
    BY DEF ZoneNeverCoarser
  <2> DEFINE zone == IF z \in Zones THEN z ELSE "FINE"
             asFar == [FINE |-> 0, Z1 |-> 2, Z5 |-> 3, Z10 |-> 4, Z15 |-> 5, Z20 |-> 6, Z30 |-> 7]
  <2>1. zone \in Zones
    BY DEF Zones
  <2>2. move_zone = value_to_zone(RapidZone[zone])
    BY DEF IInv, ZoneHeld, ZoneIs, proto_zone_enum2rapid_zone_enum
  <2> HIDE DEF zone
  <2>3. /\ RapidZone[zone] \in 0..7 /\ RapidZone[zone] <= asFar[zone]
        /\ RapidZone[zone] = 0 <=> zone = "FINE"
    BY <2>1 DEF Zones, RapidZone
  <2>4. PICK number \in 0..7 : number = RapidZone[zone]
    BY <2>3
  <2>5. zone_to_value(value_to_zone(number)) = number /\ (value_to_zone(number) = "fine" <=> number = 0)
    BY <2>4, Zenon, ZoneValues
  <2>6. (move_zone = "fine") = (zone = "FINE") /\ zone_to_value(move_zone) <= asFar[zone]
    BY <2>2, <2>3, <2>4, <2>5
  <2> QED BY <2>6 DEF zone
<1> QED BY <1>1, CommandPathInvariant, PTL

\* The end of the last motion is known from its acknowledgement on a connection that
\* had not slipped, in any zone; and at stop points the robot stands there, so that
\* offsets add up (OperationModule).  It is no longer known once another motion is
\* sent, and not known of an offset to a robot on its way.
THEOREM PlaceKnown == Spec => []PlaceAsTold
<1>1. IInv => PlaceAsTold
  BY DEF IInv, PlaceHeld, PlaceIs, PlaceAsTold
<1> QED BY <1>1, CommandPathInvariant, PTL

\* A report that is accepted, as the reply to GETSTATUS on a connection that had not
\* slipped, says of speed, zone and position what is known of them, wherever the
\* report was cut (HandleGetState, unpack_robot_status).
THEOREM ReportsAgree == Spec => []ReportAgrees
<1>1. IInv => ReportAgrees
  BY DEF IInv, ReportHeld
<1> QED BY <1>1, CommandPathInvariant, PTL
=============================================================================
