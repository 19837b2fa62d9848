-------------------------------- MODULE Codec --------------------------------
(***************************************************************************)
(* What a command looks like on its way from the client's protobuf request  *)
(* to the RAPID program and what a status report looks like on its way      *)
(* back: class Decoder and create_rapid_request (src/src/commands), the     *)
(* packed structures of src/src/core/data, and ParsingModule, ValueModule   *)
(* and TelemetryModule of src/robert-rapid.                                 *)
(*                                                                          *)
(* Bytes are not written out.  A structure is the list of its fields with   *)
(* their sizes, and what the other side unpacks at an index is the field    *)
(* that begins there and has the size it asks for, or nothing at all.       *)
(* Indexes are RAPID's: they count from 1.                                  *)
(***************************************************************************)
EXTENDS Integers, Sequences

-----------------------------------------------------------------------------
(* Names and numbers *)

\* The commands of the protocol that RequestHandler passes on to the robot.
proto_cmd_enum2rapid_cmd_enum ==
    [MOVEL |-> "MOVE_L", MOVEJ |-> "MOVE_J", MOVEC |-> "MOVE_C", MOVEABSJ |-> "MOVE_ABS_J",
     SETSPEED |-> "SET_SPEED", SETZONE |-> "SET_ZONE", PINGR |-> "PINGR", ZERO |-> "ZERO",
     GETSTATUS |-> "GETSTATUS", MOVEL_OFFS |-> "MOVE_L_OFFS", MOVEJ_OFFS |-> "MOVE_J_OFFS"]

RapidCommandType ==
    [MOVE_L |-> 0, MOVE_J |-> 1, MOVE_C |-> 2, MOVE_ABS_J |-> 3, SET_SPEED |-> 4, SET_ZONE |-> 5,
     PINGR |-> 8, ZERO |-> 9, GETSTATUS |-> 10, MOVE_L_OFFS |-> 16, MOVE_J_OFFS |-> 17]

command_to_string(id) ==
    CASE id \in 0..10 -> <<"MoveL", "MoveJ", "MoveC", "MoveAbsJ", "SetSpeed", "SetZone", "Exit",
                           "PING", "PINGR", "ZERO", "GETSTATUS">>[id + 1]
      [] id = 16 -> "MoveLOffs"
      [] id = 17 -> "MoveJOffs"
      [] OTHER   -> "UNKNOWN"

Zones == {"FINE", "Z1", "Z5", "Z10", "Z15", "Z20", "Z30"}

\* Mutant: the zones count from 1.
RapidZone_FromOne ==
    [FINE |-> 1, Z1 |-> 2, Z5 |-> 3, Z10 |-> 4, Z15 |-> 5, Z20 |-> 6, Z30 |-> 7]

RapidZone == [FINE |-> 0, Z1 |-> 1, Z5 |-> 2, Z10 |-> 3, Z15 |-> 4, Z20 |-> 5, Z30 |-> 6]

\* A zone that Decoder does not know is FINE.
proto_zone_enum2rapid_zone_enum(zone) == RapidZone[IF zone \in Zones THEN zone ELSE "FINE"]

\* The controller's zones, each larger than the one before.
ZoneData == <<"fine", "z0", "z1", "z5", "z10", "z15", "z20", "z30">>

value_to_zone(value) == ZoneData[value + 1]

zone_to_value(zone) == (CHOOSE i \in 1..8 : ZoneData[i] = zone) - 1

\* Mutant: a field of one byte.
uint16_OneByte(speed) == {(speed \div 2) % 256}

UINT16_MAX == 65535

\* static_cast<uint16_t> of a float, which is written here in halves: the fraction
\* is cut off.  The cast is undefined where the result does not fit; compilers
\* wrap around or saturate.
uint16(speed) ==
    LET whole == speed \div 2
    IN  IF whole \in 0..UINT16_MAX THEN {whole}
        ELSE {whole % (UINT16_MAX + 1), 0, UINT16_MAX}

-----------------------------------------------------------------------------
(* struct RapidRequest *)

RobTarget == <<"x", "y", "z", "q1", "q2", "q3", "q4", "cf1", "cf4", "cf6", "cfx",
               "eax_a", "eax_b", "eax_c", "eax_d", "eax_e", "eax_f">>

JointTarget == <<"rax_1", "rax_2", "rax_3", "rax_4", "rax_5", "rax_6",
                 "eax_a", "eax_b", "eax_c", "eax_d", "eax_e", "eax_f">>

Field(part, name, size) == [part |-> part, name |-> name, size |-> size]

\* A structure whose members have four bytes each.
Words(part, names) == [i \in DOMAIN names |-> Field(part, names[i], 4)]

Targets == Words("target", RobTarget) \o Words("extra_target", RobTarget)
           \o Words("joint_target", JointTarget)

\* Mutant: speed is a float, as in DecodedRequest.
RapidRequest_FloatSpeed ==
    <<Field("command_id", "", 1), Field("zone", "", 1), Field("speed", "", 4)>> \o Targets

RapidRequest ==
    <<Field("command_id", "", 1), Field("zone", "", 1), Field("speed", "", 2)>> \o Targets

Parts == {RapidRequest[i].part : i \in DOMAIN RapidRequest}

\* The last byte of each field: the structure is packed.
Ends == LET end[i \in 0..Len(RapidRequest)] ==
              IF i = 0 THEN 0 ELSE end[i - 1] + RapidRequest[i].size
        IN  end

RequestSize == Ends[Len(RapidRequest)]

\* UnpackRawBytes finds this field, entire and nothing else, at index.
Holds(index, field) ==
    \E i \in DOMAIN RapidRequest : RapidRequest[i] = field /\ Ends[i] = index + field.size - 1

\* The part of the request that is unpacked as one number, or as a structure of
\* words, from index on: a set of one part, or empty if they do not fit.
NumberAt(index, size) == {p \in Parts : Holds(index, Field(p, "", size))}

WordsAt(index, names) ==
    {p \in Parts : \A i \in DOMAIN names : Holds(index + 4 * (i - 1), Field(p, names[i], 4))}

CommandRead == NumberAt(1, 1)
ZoneRead == NumberAt(2, 1)
SpeedRead == NumberAt(3, 2)
TargetRead == WordsAt(5, RobTarget)
ExtraTargetRead == WordsAt(73, RobTarget)
JointTargetRead == WordsAt(141, JointTarget)

\* The last byte that parse_message unpacks for a command.
BytesRead(cmd) ==
    CASE cmd = "SetZone"  -> 2
      [] cmd = "SetSpeed" -> 4
      [] cmd \in {"MoveL", "MoveJ", "MoveLOffs", "MoveJOffs"} -> 72
      [] cmd = "MoveC"    -> 140
      [] cmd = "MoveAbsJ" -> 188
      [] OTHER            -> 1

-----------------------------------------------------------------------------
(* The status report *)

\* The fields of the report that have four bytes each, the first one at index.
WordsFrom(index, part, names) ==
    {<<Field(part, names[i], 4), index + 4 * (i - 1)>> : i \in DOMAIN names}

\* What HandleGetState packs, and at which index; the bytes between are zero.
HandleGetState ==
    {<<Field("op_mode", "", 1), 1>>, <<Field("speed_override", "", 4), 2>>,
     <<Field("current_speed", "", 4), 6>>, <<Field("current_zone", "", 4), 10>>,
     <<Field("robot_time", "", 8), 130>>, <<Field("robot_date", "", 10), 162>>}
    \cup WordsFrom(14, "current_target", RobTarget)
    \cup WordsFrom(82, "current_joint_target", JointTarget)

StatusSize == 171

\* Mutant: a report is refused only if it is empty.
StatusMinimum_One == 1

\* The size from which unpack_robot_status accepts a report.
StatusMinimum == 162

\* What unpack_robot_status reads, at which offset, counting from 0.
StatusReads ==
    {<<Field("op_mode", "", 1), 0>>, <<Field("speed_override", "", 4), 1>>,
     <<Field("current_speed", "", 4), 5>>, <<Field("current_zone", "", 4), 9>>,
     <<Field("robot_time", "", 8), 129>>, <<Field("robot_date", "", 10), 161>>}
    \cup WordsFrom(13, "current_target", RobTarget)
    \cup WordsFrom(81, "current_joint_target", JointTarget)

\* The packed fields (one, or none) that a field of the status is read from when n
\* bytes have been received: it may lie elsewhere or, in part, behind them.
ReadFrom(field, n) ==
    {w[1] : w \in {v \in HandleGetState :
        \E r \in StatusReads : /\ r[1] = field /\ v[2] = r[2] + 1 /\ v[1].size = field.size
                               /\ r[2] + field.size <= n}}
=============================================================================
