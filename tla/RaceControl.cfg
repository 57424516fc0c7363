SPECIFICATION FairSpec
CONSTANTS
    Actors = {r1}
    FaultKinds <- AllFaults
    MaxFaults = 2
    MaxRaces = 2
INVARIANTS
    TypeOK
    Watched
    FinishedIsDisarmed
    OneReportPerStart
    NoMixedRaces
    QuiescentAccuracy
PROPERTIES
    Resolved
    ImplementsWatchdog
