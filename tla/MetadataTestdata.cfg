CONSTANTS
  Job = {"testdata"}
  First = 3
  Last = 4
  FaultKind = {"page"}
  MaxCommits = 1
  MaxFaults = 1
SPECIFICATION FairSpec
PROPERTY UpToDate
