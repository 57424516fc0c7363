SPECIFICATION FairSpec
CONSTANTS
    MaxVersion = 2
    MaxRuns = 4
    MaxFaults = 2
INVARIANTS
    BackupKept
    RestoredIsBackup
PROPERTIES
    RunsEnd
