SPECIFICATION VmSpec
CONSTANTS
    Machines <- MCMachines
    NoZone = NoZone
    MaxAzFailures = 2
INVARIANTS
    PassedIsChecked
    GoodPasses
