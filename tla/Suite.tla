-------------------------------- MODULE Suite --------------------------------
(***************************************************************************)
(* The feature suite on one submission (internal/suite/suite.go and        *)
(* kodata/features/verify-conformance.feature): godog runs the steps of    *)
(* every scenario, the steps leave labels behind, and the report of the    *)
(* run is then summarised into a comment, labels and a state.              *)
(*                                                                         *)
(* handle starts the suite only for a title that names a submission, and   *)
(* for a supported release whose conformance.yaml exists; so steps on the  *)
(* emptiness of title, files and release, and on support, pass here.       *)
(***************************************************************************)
EXTENDS Naturals, Sequences, FiniteSets

CONSTANTS
  Submission,    \* the submissions to check, see IsSubmission for their fields
  ReleaseIn(_),  \* the release that a folder names, 0 if it names none
  WellFormed,    \* folders like [KubernetesReleaseVersion]/[ProductName]
  Latest,        \* KubernetesReleaseVersionLatest: the release of stable.txt
  LatestPatch,   \* ... and its patch
  TestsOf,       \* TestsOf[v]: tests in the conformance.yaml of v, each with the
                 \* sequence of the releases that it lists
  Paths          \* how many directories of features godog is given

VARIABLES
  sub,      \* the submission
  release,  \* KubernetesReleaseVersion
  metadata, \* the conformance.yaml of the release: good, garbled or unreadable
  row,      \* element of the feature that runs, or is summarised, next
  step,     \* step of that element that runs next
  labels,   \* PRSuite.Labels
  report,   \* what broke each element: nothing, an undefined step or a hint
  names,    \* names of the scenarios summarised
  prepared, \* resultPrepares: scenarios that failed, with their hints
  verdict   \* what GetLabelsAndCommentsFromSuiteResultsBuffer returned

\* the submission and what it leads to, for the variables sub, release, metadata
INSTANCE Requirements

\* A submission has files, each in a folder or more, under names up to case; of
\* what is in them it holds what the steps read.  Only two of the files are parsed.
IsSubmission(s) ==
  /\ \A f \in DOMAIN s.folders : s.folders[f] # {} /\ IsFiniteSet(s.folders[f])
  /\ IsFiniteSet(DOMAIN s.folders)
  /\ s.miscased \subseteq DOMAIN s.folders
  /\ s.blank \subseteq DOMAIN s.folders
  /\ s.unreadable \subseteq DOMAIN s.folders \intersect {"PRODUCT.yaml", "junit_01.xml"}
  /\ \A f \in Elems(RequiredFields) \union Elems(AddressFields) :
       s.field[f] \in {"absent", "empty", "good", "malformed"}
  /\ \A t \in s.junit : /\ t = [test |-> t.test, outcome |-> t.outcome]
                        /\ t.outcome \in {"passed", "failed", "errored", "skipped"}
  /\ s.commits \in Nat

ASSUME SubmissionAssumption == \A s \in Submission : IsSubmission(s)
ASSUME ReleaseAssumption    == \A d \in WellFormed : ReleaseIn(d) \in Nat \ {0}
ASSUME PathsAssumption      == Paths \in Nat \ {0}

vars == <<sub, release, metadata, row, step, labels, report, names, prepared, verdict>>

-----------------------------------------------------------------------------
(* The feature *)

Do(what)        == [does |-> what, with |-> "none"]
DoOn(what, arg) == [does |-> what, with |-> arg]

\* A scenario is an element of the report; an outline is one for each example,
\* all of the same name and description.
Scenario(name, about, steps) == <<[name |-> name, about |-> about, steps |-> steps]>>
Outline(name, about, examples, Steps(_)) ==
  [i \in DOMAIN examples |-> [name |-> name, about |-> about, steps |-> Steps(examples[i])]]

TitleNotEmpty == Scenario("title-is-not-empty", "no-title",
  <<Do("a-PR-title"), Do("the-PR-title-is-not-empty")>>)
AllRequiredFiles == Outline("all-required-files", "files-missing", RequiredFiles,
  LAMBDA f : <<DoOn("is-included", f), DoOn("is-not-empty", f), DoOn("is-valid", f)>>)
OnlyRequiredFiles == Scenario("only-required-files", "undescribed",
  <<Do("the-files-in-the-PR"), Do("the-files-are-only")>>)
FileStructure == Scenario("file-structure", "folder-does-not-match",
  <<Do("the-files-in-the-PR"), Do("folder-structure")>>)
OneProduct == Scenario("one-product", "several-products",
  <<Do("the-files-in-the-PR"), Do("only-one-path")>>)
ReleaseInTitle == Scenario("release-in-title", "title-does-not-match-folder",
  <<Do("the-files-in-the-PR"), Do("the-title"), Do("release-in-title")>>)
AllRequiredFields == Outline("all-required-fields", "fields-missing", RequiredFields,
  LAMBDA f : <<DoOn("a-file", "PRODUCT.yaml"), DoOn("contains-field", f)>>)
ValidAddresses == Outline("addresses-are-valid", "fields-not-correctly-formatted", AddressFields,
  LAMBDA f : <<DoOn("a-file", "PRODUCT.yaml"), DoOn("valid-address", f)>>)
LinksResolve == Outline("URLs-resolve", "URLs-of-a-wrong-data-type", LinkFields,
  LAMBDA f : <<DoOn("a-file", "PRODUCT.yaml"), DoOn("resolves-to-text/html", f)>>)
ValidType == Scenario("type-is-valid", "type-does-not-match",
  <<DoOn("a-file", "PRODUCT.yaml"), Do("type-is-one-of")>>)
TitleHasRelease == Scenario("title-has-release-and-product", "title-lacks-them",
  <<Do("the-title"), Do("title-matches")>>)
SupportedRelease == Scenario("supported-release", "release-does-not-qualify",
  <<Do("the-release-version"), Do("the-files-in-the-PR"), Do("supported-release")>>)
TestsPresent == Scenario("required-tests-present", "tests-missing",
  <<DoOn("a-file", "junit_01.xml"), Do("required-tests-in-junit")>>)
TestsPass == Scenario("all-tests-pass", "tests-failed",
  <<DoOn("a-file", "junit_01.xml"), Do("tests-pass"), Do("required-tests-passed")>>)
OneCommit == Scenario("one-commit", "not-exactly-one-commit",
  <<Do("a-list-of-commits"), Do("only-one-commit")>>)

Feature ==
  TitleNotEmpty \o AllRequiredFiles \o OnlyRequiredFiles \o FileStructure \o OneProduct
  \o ReleaseInTitle \o AllRequiredFields \o ValidAddresses \o LinksResolve \o ValidType
  \o TitleHasRelease \o SupportedRelease \o TestsPresent \o TestsPass \o OneCommit

\* what the report lists: the feature once for each directory it was found in
Rows == [i \in 1 .. Paths * Len(Feature) |-> Feature[((i - 1) % Len(Feature)) + 1]]

-----------------------------------------------------------------------------
(* Steps *)

Passed    == <<"passed">>
Undefined == <<"undefined">>
Hint(text, arg) == <<"failed", text, arg>>

\* A step passes unless it has something to say.
Unless(bad, text, arg) == IF bad THEN Hint(text, arg) ELSE Passed

Readable(f, otherwise) ==
  IF f \in sub.unreadable THEN Hint("unable-to-read", f) ELSE otherwise

\* steps on the files and folders of the submission; all find a file by its name
\* up to case, but one asks for the very names that the feature lists
FileResult(s) ==
  CASE s.does = "the-files-in-the-PR" -> Unless(Files = {}, "no-files", "none")
    [] s.does = "is-included"  -> Unless(s.with \notin Files, "missing-file", s.with)
    [] s.does = "is-not-empty" -> Unless(s.with \in sub.blank, "is-empty", s.with)
    [] s.does = "a-file"       -> Unless(s.with \notin Files, "missing-required-file", s.with)
    [] s.does = "the-files-are-only" ->
         Unless(~ Files \subseteq Elems(RequiredFiles) \/ sub.miscased # {},
                "non-required-files", "none")
    [] s.does = "folder-structure" ->
         Unless(~ Folders \subseteq WellFormed, "file-not-allowed", "none")
    [] s.does = "only-one-path" -> Unless(Cardinality(Folders) # 1, "single-set-of-products", "none")

\* only the YAML is parsed for validity
IsValid(f) == Unless(f = "PRODUCT.yaml" /\ f \in sub.unreadable, "failed-to-parse", f)

\* steps on the fields of PRODUCT.yaml; the values that the feature lists for
\* the type are not quoted as the expression wants them: that step is undefined
ProductResult(s) ==
  CASE s.does = "contains-field" ->
         Readable("PRODUCT.yaml", Unless(sub.field[s.with] = "absent", "missing-or-empty", s.with))
    [] s.does = "valid-address" ->
         Readable("PRODUCT.yaml", Unless(sub.field[s.with] = "malformed", "not-valid", s.with))
    [] s.does = "resolves-to-text/html" ->
         Unless(sub.link[s.with] \notin {"none", "text/html"}, "content-type", s.with)
    [] s.does = "type-is-one-of" -> Undefined

\* steps on the title and the release; the title of a submission is not empty,
\* and its release is one that handle found and found supported
ReleaseResult(s) ==
  CASE s.does = "title-matches" -> Unless(sub.titleRelease = 0, "title-must-be-formatted", "none")
    [] s.does = "release-in-title" ->
         Unless(sub.titleRelease # release, "title-and-folder-differ", "none")
    [] s.does = "supported-release" ->
         Unless(~IsSupported(release), "older-than-the-last-supported-release", "none")
    [] s.does \in {"a-PR-title", "the-PR-title-is-not-empty", "the-title",
                   "the-release-version"} -> Passed

WithRequired(otherwise) ==
  IF NoRequiredTests THEN Hint("no-required-tests", "none") ELSE otherwise

\* steps on the conformance tests of junit_01.xml
TestResult(s) ==
  CASE s.does = "required-tests-in-junit" ->
         WithRequired(Readable("junit_01.xml",
           Unless(~ Required \subseteq Submitted, "missing-or-failed", "none")))
    [] s.does = "tests-pass" ->
         Readable("junit_01.xml", Unless(Ran({"failed", "errored"}) # {}, "failures", "none"))
    [] s.does = "required-tests-passed" ->
         Readable("junit_01.xml", WithRequired(
           Unless(~ Required \subseteq Successful, "tests-missing", "none")))

CommitResult(s) ==
  CASE s.does = "a-list-of-commits" -> Unless(sub.commits = 0, "no-commits", "none")
    [] s.does = "only-one-commit"   -> Unless(sub.commits > 1, "more-than-one-commit", "none")

FileSteps    == {"the-files-in-the-PR", "is-included", "is-not-empty", "a-file",
                 "the-files-are-only", "folder-structure", "only-one-path"}
ProductSteps == {"contains-field", "valid-address", "resolves-to-text/html", "type-is-one-of"}
TestSteps    == {"required-tests-in-junit", "tests-pass", "required-tests-passed"}
CommitSteps  == {"a-list-of-commits", "only-one-commit"}

Result(s) ==
  CASE s.does \in FileSteps    -> FileResult(s)
    [] s.does = "is-valid"     -> IsValid(s.with)
    [] s.does \in ProductSteps -> ProductResult(s)
    [] s.does \in TestSteps    -> TestResult(s)
    [] s.does \in CommitSteps  -> CommitResult(s)
    [] OTHER                   -> ReleaseResult(s)

\* the label that tells whether a test failed
EvidenceSwapped(passes) ==
  IF passes THEN {<<"evidence-missing">>} ELSE {<<"no-failed-tests", release>>}

Evidence(passes) ==
  IF passes THEN {<<"no-failed-tests", release>>} ELSE {<<"evidence-missing">>}

\* the labels a step leaves behind
LabelsOfNameless(s) ==
  IF s.does = "is-included" /\ Result(s) # Passed THEN {<<"missing-file", "none">>} ELSE {}

LabelsOf(s) ==
  LET passes   == Result(s) = Passed
      readable == "junit_01.xml" \notin sub.unreadable
  IN  CASE s.does = "is-included" /\ ~passes -> {<<"missing-file", s.with>>}
        [] s.does = "required-tests-in-junit" /\ readable /\ ~NoRequiredTests ->
             IF passes THEN {<<"tests-verified", release>>} ELSE {<<"required-tests-missing">>}
        [] s.does = "tests-pass" /\ readable -> Evidence(passes)
        [] OTHER -> {}

-----------------------------------------------------------------------------
Running == row <= Len(Rows) /\ Len(report) < Len(Rows)
NoVerdict == [state |-> "none", passed |-> 0, of |-> 0]

\* SetSubmissionMetadatafromFolderStructure: the release of one of the files
Init ==
  /\ sub \in Submission
  /\ release \in {ReleaseIn(d) : d \in Folders \intersect WellFormed}
  /\ IsSupported(release) /\ release \in DOMAIN TestsOf
  /\ metadata \in {"good", "garbled", "unreadable"}
  /\ row = 1 /\ step = 1
  /\ labels = {<<"conformance-product-submission">>}
  /\ report = <<>>
  /\ names = {} /\ prepared = <<>>
  /\ verdict = NoVerdict

\* One step of the element.  The first one that does not pass decides on the
\* element, and the steps after it are skipped.
RunStep ==
  LET s      == Rows[row].steps[step]
      result == Result(s)
      over   == result # Passed \/ step = Len(Rows[row].steps)
  IN /\ Running
     /\ labels' = labels \union LabelsOf(s)
     /\ \/ /\ over
           /\ report' = Append(report, result)
           /\ row' = IF row = Len(Rows) THEN 1 ELSE row + 1
           /\ step' = 1
        \/ /\ ~over
           /\ step' = step + 1
           /\ UNCHANGED <<report, row>>
     /\ UNCHANGED <<sub, release, metadata, names, prepared, verdict>>

FailedIfNotPassed(i) == report[i] # Passed

Failed(i) == report[i][1] = "failed"

\* The scenario has an entry among the first k.
EntryNever(about, k) == FALSE
Entry(about, k) == \E j \in 1 .. k : prepared[j].about = about

\* Every entry from the one of this scenario on takes the hint, once: the flag
\* that found the entry stays up for the entries after it.
FiledTwice(hint, about) ==
  [k \in DOMAIN prepared |->
     IF Entry(about, k) THEN [prepared[k] EXCEPT !.hints = Append(@, hint)] ELSE prepared[k]]

Filed(hint, about) ==
  [k \in DOMAIN prepared |->
     IF Entry(about, k) /\ hint \notin Elems(prepared[k].hints)
     THEN [prepared[k] EXCEPT !.hints = Append(@, hint)]
     ELSE prepared[k]]

Postpone ==
  /\ ~Running /\ verdict = NoVerdict
  /\ Pending
  /\ labels' = PendingLabels
  /\ verdict' = [state |-> "pending", passed |-> 0, of |-> 0]
  /\ UNCHANGED <<sub, release, metadata, row, step, report, names, prepared>>

\* One element of the report.  Only failed steps count: an undefined one does
\* not fail its scenario.
Summarise ==
  LET about == Rows[row].about
      known == Entry(about, Len(prepared))
  IN /\ ~Running /\ row <= Len(Rows)
     /\ ~Pending
     /\ names' = names \union {Rows[row].name}
     /\ prepared' = IF ~Failed(row) THEN prepared
                    ELSE IF known THEN Filed(report[row], about)
                    ELSE Append(prepared, [about |-> about, hints |-> <<report[row]>>])
     /\ row' = row + 1
     /\ UNCHANGED <<sub, release, metadata, step, labels, report, verdict>>

Conclude ==
  LET failing == prepared # <<>>
  IN /\ ~Running /\ row > Len(Rows) /\ verdict = NoVerdict
     /\ ~Pending
     /\ labels' = labels \union {<<"release", release>>,
                    IF failing THEN <<"not-verifiable">> ELSE <<"release-documents-checked">>}
     /\ verdict' = [state  |-> IF failing THEN "failure" ELSE "success",
                    passed |-> Cardinality(names) - Len(prepared),
                    of     |-> Cardinality(names)]
     /\ UNCHANGED <<sub, release, metadata, row, step, report, names, prepared>>

Next == RunStep \/ Summarise \/ Conclude \/ Postpone

Spec == Init /\ [][Next]_vars

Done == verdict # NoVerdict

-----------------------------------------------------------------------------
(* Properties *)

TypeOK ==
  /\ IsSubmission(sub)
  /\ release \in DOMAIN TestsOf
  /\ metadata \in {"good", "garbled", "unreadable"}
  /\ row \in 1 .. Len(Rows) + 1 /\ step \in 1 .. 3
  /\ Len(report) <= Len(Rows)
  /\ labels \subseteq
       {<<l>> : l \in {"conformance-product-submission", "required-tests-missing",
                       "evidence-missing", "not-verifiable", "release-documents-checked",
                       "unable-to-process"}}
       \union ({"missing-file"} \X Elems(RequiredFiles))
       \union ({"tests-verified", "no-failed-tests", "release"} \X DOMAIN TestsOf)
  /\ names \subseteq {Rows[i].name : i \in DOMAIN Rows}
  /\ verdict.state \in {"none", "success", "failure", "pending"}

\* The suite implements Requirements: through 31 elements, skipped steps and the
\* summary of the report it says success exactly for the submissions that meet
\* the requirements as far as the code enforces them.  Which labels an element
\* leaves does not depend on what the elements before it said, nor is a label
\* lost or left over on the way.
OutcomeIsRight ==
  Done => verdict.state = Outcome.state /\ labels = Outcome.labels

LabelNamed(family) == \E l \in labels : l[1] = family

\* The labels of one run agree with each other although a dozen steps of as
\* many scenarios leave them: a submission is called checked exactly when it is
\* not called not-verifiable, and then with both pieces of evidence and with
\* nothing found missing.
LabelsAgree ==
  Done /\ ~Pending =>
    /\ LabelNamed("release-documents-checked") <=> ~LabelNamed("not-verifiable")
    /\ LabelNamed("release-documents-checked") =>
         /\ LabelNamed("tests-verified") /\ LabelNamed("no-failed-tests")
         /\ ~LabelNamed("missing-file")
         /\ ~LabelNamed("required-tests-missing") /\ ~LabelNamed("evidence-missing")

\* "N of M requirements have passed": N counts the scenarios none of whose
\* elements failed, although failures are grouped by description and passes by
\* name.
CountIsRight ==
  Done /\ ~Pending => LET failing == {Rows[i].name : i \in {k \in DOMAIN report : Failed(k)}}
          IN  verdict.passed = Cardinality(names \ failing)

\* The comment is complete and in place: a scenario is listed with exactly the
\* hints of its own elements that failed, each of them once.
HintsInPlace ==
  Done => \A k \in DOMAIN prepared :
            /\ Elems(prepared[k].hints) =
                 {report[i] : i \in {j \in DOMAIN report :
                                       Failed(j) /\ Rows[j].about = prepared[k].about}}
            /\ Len(prepared[k].hints) = Cardinality(Elems(prepared[k].hints))

\* The feature: "the field "type" matches one of the following values:
\* distribution, hosted platform, installer".
TypeIsChecked == Done /\ verdict.state = "success" => sub.field["type"] # "malformed"

\* The feature: "the yaml file "PRODUCT.yaml" contains the required and non-empty
\* <field>".
FieldsAreFilled ==
  Done /\ verdict.state = "success" =>
    \A f \in Elems(RequiredFields) : sub.field[f] \notin {"absent", "empty"}

=============================================================================
