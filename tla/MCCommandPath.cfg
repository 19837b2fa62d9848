SPECIFICATION Spec
CONSTANTS
    Places = {2}
    Offsets <- MCOffsets
    Speeds <- MCSpeeds
    ProtoZones = {"FINE", "Z5", "OTHER"}
    MaxRobSpeed = 400
    CornerMin = 0
    CornerMax = 4
    ZeroPlace = 1
    Cuts = {88, 186}
    ReplyCuts = {12, 165}
    MaxSlips = 1
    ZoneNumber <- MCZoneNumber
    None = None
INVARIANTS
    TypeOK
    ExecutedAsAsked
    ZoneNeverCoarser
    SpeedAsAcknowledged
    PositionsStayInside
    PlaceAsTold
    ReportAgrees
CHECK_DEADLOCK FALSE
