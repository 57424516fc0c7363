SPECIFICATION FairSpec
CONSTANTS
  Field = {"name", "mail"}
  Replace = {"name"}
  Value = {"", "v", "w"}
  Empty = ""
  Required = {"name"}
  Accepted <- MCAccepted
  Remote = {"name", "mail"}
  Rides <- MCRides
  NoData = NoData
  Loaded = {"name"}
  MaxEdits = 2
  MaxChanges = 2
INVARIANTS InSync SubmittedIsValid MessagesTruthful
PROPERTIES RefusalExplained SubmitResolved
