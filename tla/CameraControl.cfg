SPECIFICATION FairSpec
CONSTANTS
    Actors = {c1}
    FaultKinds <- AllFaults
    MaxFaults = 2
    MaxMotions = 4
INVARIANTS
    TypeOK
    Watched
    OneReportPerMotion
    LatestMotionRecorded
PROPERTIES
    Resolved
    LastSeenMonotone
