---------------------------- MODULE MCReconciler ----------------------------
(* Small pull requests for TLC: what the constants of Reconciler stand for.  *)
EXTENDS Reconciler

Submission == "Conformance results for v1.30/Acme"
Typo       == "Results for v1.30/Acme"

MCTitle           == {Submission, Typo}
MCSubmissionTitle == {Submission}

MCSite == {"html", "other"}

\* labels of a passing and of a failing submission, and two that people use:
\* one of no concern to the bot and one it takes for its own by its text, as it
\* does with release-documents-checked
Passing == {"conformance-product-submission", "release-documents-checked", "release-v1.30"}
Failing == {"conformance-product-submission", "not-verifiable"}

MCTemplateLabel == {"release-v1.30", "release-documents-checked", "needs-release-notes"}
MCLabel         == ManagedPRLabels \union MCTemplateLabel \union {"lgtm"}

Passed      == "All requirements have passed"
TestMissing == "Tests are missing"
WrongSite   == "URLs do not resolve"

NoCommits   == "no commits were found"

MCText == {NotASubmission, NotSupported, PleaseWait,
           Passed, TestMissing, WrongSite, NoCommits, "hi"}

MCRelease   == {"v1.20", "v1.30", "v1.99"}
MCReleaseOf == [c \in Commit |-> CASE c = "old"  -> "v1.20"
                                  [] c = "soon" -> "v1.99"
                                  [] OTHER      -> "v1.30"]
MCSupported    == {"v1.30", "v1.99"}
MCWithMetadata == {"v1.20", "v1.30"}

\* commit "good" passes, every other commit lacks tests, and a site of another
\* data type fails its scenario; an event comes without commits
MCSuiteVerdict(t, listed, files, s) ==
  CASE listed = NoHead -> [labels |-> Failing, comment |-> NoCommits, state |-> "failure"]
    [] listed # NoHead /\ files # "good" ->
         [labels |-> Failing, comment |-> TestMissing, state |-> "failure"]
    [] listed # NoHead /\ files = "good" /\ s # "html" ->
         [labels |-> Failing, comment |-> WrongSite, state |-> "failure"]
    [] OTHER -> [labels |-> Passing, comment |-> Passed, state |-> "success"]

\* with a page of an error in the place of a file, tests are missing
MCGarbled == [c \in Commit |-> {"bad"} \ {c}]

=============================================================================
