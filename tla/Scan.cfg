CONSTANTS
  PR = {1, 2, 3, 4, 5}
  PageSize = 2
  Orgs = 2
  Failing = {3}
  Hanging = {2}
  MaxChurn = 2
  MaxFaults = 1
SPECIFICATION FairSpec
INVARIANTS
  TypeOK
  NoneMissed
  NoneTwice
PROPERTY EveryoneHandled
