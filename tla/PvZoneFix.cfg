SPECIFICATION Spec
CONSTANTS
    Volumes = {v1, v2}
    Zones <- MCZones
    NoZone <- MCNoZone
    Objects <- MCObjects
    SortStrings <- MCSortStrings
    Absent = Absent
INVARIANTS
    SchedulableAnywhere
    ZonesPreserved
    RefusedOnlyAfterBypass
