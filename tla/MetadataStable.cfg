CONSTANTS
  Job = {"stable"}
  First = 3
  Last = 5
  FaultKind = {"page", "die"}
  MaxCommits = 1
  MaxFaults = 2
SPECIFICATION FairSpec
INVARIANT TypeOK
PROPERTIES
  NoDowngrade
  UpToDateUnlessBlocked
