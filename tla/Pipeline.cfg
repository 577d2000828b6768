CONSTANTS
  Bot = {b1}
  Title <- MCTitle
  SubmissionTitle <- MCSubmissionTitle
  Commit = {"good", "bare", "torn", "soon"}
  Site = {"html", "plain"}
  Text <- MCText
  Label <- MCLabel
  TemplateLabel <- MCTemplateLabel
  Release <- MCRelease
  ReleaseOf <- MCReleaseOf
  Supported <- SupportedBySuite
  WithMetadata <- ReleasesWithTests
  SuiteVerdict <- VerdictOfSuite
  Garbled <- MCGarbled
  Listings = 2
  AuthorOwns = TRUE
  HumanLabel = {"release-documents-checked"}
  HumanText = {}
  CheckState = {}
  MaxEdits = 2
  MaxFaults = 1
  Minor <- MCMinor
  TitleRelease <- MCTitleRelease
  Contents <- MCContents
  CommitsOf <- MCCommitsOf
  LinksAt <- MCLinksAt
  ReleaseIn <- MCReleaseIn
  WellFormed = {"v1.30/acme", "v1.31/acme"}
  Latest = 31
  LatestPatch = 1
  TestsOf <- MCTestsOf
  MetadataOf <- MCMetadataOf
  LabelName <- MCLabelName
  CommentOf <- Word
SPECIFICATION FairSpec
PROPERTIES
  CheckedIffAcceptable
  NothingWithheld
  AcceptableTurnsGreen
  MetadataAwaited
