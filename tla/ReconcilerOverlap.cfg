CONSTANTS
  Bot = {b1, b2}
  Title <- MCSubmissionTitle
  SubmissionTitle <- MCSubmissionTitle
  Commit = {"good", "bad"}
  Site = {"html"}
  Text <- MCText
  Label <- MCLabel
  TemplateLabel <- MCTemplateLabel
  Release <- MCRelease
  ReleaseOf <- MCReleaseOf
  Supported <- MCSupported
  WithMetadata <- MCWithMetadata
  SuiteVerdict <- MCSuiteVerdict
  Garbled <- MCGarbled
  Listings = 1
  AuthorOwns = TRUE
  HumanLabel = {"lgtm", "needs-release-notes"}
  HumanText = {"hi"}
  CheckState = {"success"}
  MaxEdits = 1
  MaxFaults = 1
SPECIFICATION FairSpec
INVARIANTS
  LabelsReconciled
  ThreadBounded
PROPERTIES
  LastWordStays
  KeepsPromises
  LabelsConverge
  CommentConverges
  StatusSettles
  RunsFallSilent
