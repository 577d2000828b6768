CONSTANTS
  Bot = {b1}
  Title <- MCTitle
  SubmissionTitle <- MCSubmissionTitle
  Commit = {"good", "bad"}
  Site = {"html"}
  Text <- MCText
  Label <- MCLabel
  TemplateLabel <- MCTemplateLabel
  Release <- MCRelease
  ReleaseOf <- MCReleaseOf
  Supported <- MCSupported
  WithMetadata <- MCWithMetadata
  SuiteVerdict <- MCSuiteVerdict
  Garbled <- MCGarbled
  Listings = 1
  AuthorOwns = TRUE
  HumanLabel = {"lgtm", "needs-release-notes"}
  HumanText = {"hi"}
  CheckState = {"success"}
  MaxEdits = 1
  MaxFaults = 0
SPECIFICATION FairSpec
PROPERTY StatusReconciled
