CONSTANTS
  Submission <- MCSubmission
  ReleaseIn <- MCReleaseIn
  WellFormed = {"v1.30/acme", "v1.30/other", "v1.29/acme", "v1.28/acme"}
  Latest = 30
  LatestPatch = 0
  TestsOf <- MCTestsOf
  Paths = 1
SPECIFICATION Spec
INVARIANT TypeIsChecked
CHECK_DEADLOCK FALSE
