CONSTANTS
  Bot = {b1}
  Title <- MCTitle
  SubmissionTitle <- MCSubmissionTitle
  Commit = {"good", "bad", "old", "soon"}
  Site = {"html", "other"}
  Text <- MCText
  Label <- MCLabel
  TemplateLabel <- MCTemplateLabel
  Release <- MCRelease
  ReleaseOf <- MCReleaseOf
  Supported <- MCSupported
  WithMetadata <- MCWithMetadata
  SuiteVerdict <- MCSuiteVerdict
  Garbled <- MCGarbled
  Listings = 1
  AuthorOwns = FALSE
  HumanLabel = {"lgtm", "needs-release-notes"}
  HumanText = {"hi"}
  CheckState = {"success", "failure"}
  MaxEdits = 2
  MaxFaults = 2
SPECIFICATION FairSpec
INVARIANT TypeOK
PROPERTIES
  NoEcho
  KeepsPromises
  LabelsConverge
  CommentConverges
  StatusSettles
  RunsFallSilent
