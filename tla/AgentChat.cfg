SPECIFICATION FairSpec
CONSTANTS
    Sessions = {s1, s2}
    NoSession = none
    MaxMessages = 2
    MaxFaults = 2
INVARIANTS
    WholeAgents
    StopLeavesEarlierSessions
    AloneNeverStale
PROPERTIES
    HandlersEnd
