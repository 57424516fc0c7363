SPECIFICATION VmSpec
CONSTANTS
    Machines <- MCMachines
    NoZone = NoZone
    MaxAzFailures = 1
INVARIANTS
    AlignedClaimHolds
