SPECIFICATION Spec
CONSTANTS
    Hosts <- MCHosts
    Drives = {"C", "D", "E", "F"}
    Instances = {"i1", "i2"}
    Exe <- MCExe
    MemoryArgs = {0, 1024}
    MaxFailures = 2
    MaxRuns = 2
INVARIANTS
    FixesVerified
