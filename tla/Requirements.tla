----------------------------- MODULE Requirements -----------------------------
(***************************************************************************)
(* A submission, and what becomes of it by what it is alone: the           *)
(* requirements of kodata/features/verify-conformance.feature as far as    *)
(* internal/suite/suite.go enforces them, and the state and the labels     *)
(* they lead to.  Suite gets there step by step; Reconciler publishes it.  *)
(*                                                                         *)
(* A release is its minor version: 30 is v1.30, and 0 is no release.       *)
(***************************************************************************)
EXTENDS Naturals, Sequences, FiniteSets

CONSTANTS
  sub,           \* the submission, see IsSubmission of Suite for its fields
  release,       \* KubernetesReleaseVersion
  metadata,      \* the conformance.yaml of the release: good, garbled or unreadable
  ReleaseIn(_),  \* the release that a folder names, 0 if it names none
  WellFormed,    \* folders like [KubernetesReleaseVersion]/[ProductName]
  Latest,        \* KubernetesReleaseVersionLatest: the release of stable.txt
  LatestPatch,   \* ... and its patch
  TestsOf        \* TestsOf[v]: tests in the conformance.yaml of v, each with the
                 \* sequence of the releases that it lists

-----------------------------------------------------------------------------
(* The examples of the feature *)

RequiredFiles  == <<"README.md", "PRODUCT.yaml", "e2e.log", "junit_01.xml">>
RequiredFields == <<"vendor", "name", "version", "type", "description",
                    "website_url", "documentation_url", "contact_email_address">>
AddressFields  == <<"website_url", "repo_url", "documentation_url",
                    "product_logo_url", "contact_email_address">>
LinkFields     == <<"website_url", "repo_url", "documentation_url">>

Elems(s) == {s[i] : i \in DOMAIN s}

-----------------------------------------------------------------------------
(* The submission *)

\* Base names of the files, up to case and as the feature spells them, and the
\* folders they are in.  A file is found by its name up to case, and files of one
\* name are read through the first of them; sub.miscased has the names that a
\* file spells otherwise than the feature does (readme.md).
Files   == DOMAIN sub.folders
Folders == UNION {sub.folders[f] : f \in Files}

\* conformance tests of junit_01.xml that were not skipped, by outcome
Ran(outcomes) == {t.test : t \in {u \in sub.junit : u.outcome \in outcomes}}

lastSupportingVersions == 2

\* the latest release and the two before it; a negative minor version is parsed
\* as no version, and then no release is supported
IsSupported(v) == Latest >= lastSupportingVersions /\ v >= Latest - lastSupportingVersions

\* The releases of a test are read up to the first that is not after release.
\* All but the first of them start with a blank and are not parsed as releases.
Misread(t) == Len(t.since) > 1 /\ Head(t.since) > release

NoRequiredTests ==
  metadata # "good" \/ \E t \in TestsOf[release] : Misread(t)

Required == {t.codename : t \in {u \in TestsOf[release] : Head(u.since) <= release}}

\* determineSuccessfulTestsv125AndAbove counts an error as a failure,
\* GetJunitSubmittedConformanceTests does not.
Successful == Ran({"passed"})
Submitted  == Ran({"passed", "errored"})

\* The metadata of the latest release, as long as it has no patch, or of a later
\* one may not be there yet: the report is not read, and the labels of the steps
\* are dropped.
Newest == release > Latest \/ (release = Latest /\ LatestPatch = 0)

Pending == Newest /\ metadata = "unreadable"

PendingLabels == {<<"conformance-product-submission">>, <<"unable-to-process">>}

-----------------------------------------------------------------------------
(* The requirements *)

\* What the requirements of the feature ask of a submission, as far as the code
\* enforces them: it takes any type, and a required field that is there and empty
\* (TypeIsChecked and FieldsAreFilled of Suite say what the feature asks).
Meets ==
  /\ Files = Elems(RequiredFiles) /\ sub.miscased = {}
  /\ \E d \in WellFormed : ReleaseIn(d) = release /\ \A f \in Files : sub.folders[f] = {d}
  /\ sub.blank = {} /\ sub.unreadable = {}
  /\ \A f \in Elems(RequiredFields) : sub.field[f] # "absent"
  /\ \A f \in Elems(AddressFields) : sub.field[f] # "malformed"
  /\ \A f \in Elems(LinkFields) : sub.link[f] \in {"none", "text/html"}
  /\ sub.titleRelease = release
  /\ ~NoRequiredTests
  /\ \A t \in Required : [test |-> t, outcome |-> "passed"] \in sub.junit
  /\ \A t \in sub.junit : t.outcome \in {"passed", "skipped"}
  /\ sub.commits = 1

Given(condition, labelSet) == IF condition THEN labelSet ELSE {}

EvidenceLabels ==
  LET read      == "junit_01.xml" \in Files \ sub.unreadable
      known     == read /\ ~NoRequiredTests
      unfailed  == Ran({"failed", "errored"}) = {}
      submitted == Required \subseteq Submitted
  IN  Given(read  /\ unfailed,   {<<"no-failed-tests", release>>})
      \union Given(read  /\ ~unfailed,  {<<"evidence-missing">>})
      \union Given(known /\ submitted,  {<<"tests-verified", release>>})
      \union Given(known /\ ~submitted, {<<"required-tests-missing">>})

\* the state that the suite comes to, and the labels
Outcome ==
  IF Pending THEN [state |-> "pending", labels |-> PendingLabels]
  ELSE [ state  |-> IF Meets THEN "success" ELSE "failure",
         labels |-> {<<"conformance-product-submission">>, <<"release", release>>,
                     IF Meets THEN <<"release-documents-checked">> ELSE <<"not-verifiable">>}
                    \union ({"missing-file"} \X (Elems(RequiredFiles) \ Files))
                    \union EvidenceLabels ]

=============================================================================
