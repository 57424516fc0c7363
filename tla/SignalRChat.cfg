SPECIFICATION FairSpec
CONSTANTS
  Client = {"c1"}
  Server = {"s1", "s2"}
  Retries = 2
  MaxFaults = 3
INVARIANT RosterAddsUp
PROPERTY KeepsTalking
