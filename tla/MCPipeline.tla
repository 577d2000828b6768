----------------------------- MODULE MCPipeline -----------------------------
(* Four commits for TLC, one of them for a release without metadata: for the *)
(* suite that is a release with no required tests.                           *)
EXTENDS Pipeline, Sequences, TLC

RequiredFiles  == {"README.md", "PRODUCT.yaml", "e2e.log", "junit_01.xml"}
RequiredFields == {"vendor", "name", "version", "type", "description",
                   "website_url", "documentation_url", "contact_email_address"}
LinkFields     == {"website_url", "repo_url", "documentation_url"}

Submission == "Conformance results for v1.30/Acme"
Typo       == "Results for v1.30/Acme"

MCTitle           == {Submission, Typo}
MCSubmissionTitle == {Submission}
MCTitleRelease    == Submission :> 30 @@ Typo :> 0

MCRelease   == {"", "v1.30", "v1.31"}
MCMinor     == "" :> 0 @@ "v1.30" :> 30 @@ "v1.31" :> 31
MCReleaseOf == [c \in Commit |-> IF c = "soon" THEN "v1.31" ELSE "v1.30"]
MCReleaseIn(d) == IF d = "v1.31/acme" THEN 31 ELSE 30
MCMetadataOf == 30 :> "good"
Listed(t)    == [codename |-> t, since |-> <<9>>]
MCTestsOf    == 30 :> {Listed("t1"), Listed("t2")}

Passing(t)   == [test |-> t, outcome |-> "passed"]
In(folder)   == [f \in RequiredFiles |-> {folder}]

Perfect(folder) ==
  [titleRelease |-> 0, folders |-> In(folder), miscased |-> {}, blank |-> {}, unreadable |-> {},
   field |-> [f \in RequiredFields \union LinkFields \union {"product_logo_url"} |-> "good"],
   link  |-> [f \in LinkFields |-> "none"],
   junit |-> {Passing("t1"), Passing("t2")}, commits |-> 0]

\* "bare" lacks a file and a test; "torn" is "good" with a page of an error in the
\* place of PRODUCT.yaml
MCContents ==
  [c \in Commit |->
     CASE c = "bare" -> [Perfect("v1.30/acme") EXCEPT
            !.folders = [f \in RequiredFiles \ {"e2e.log"} |-> {"v1.30/acme"}],
            !.junit = {Passing("t1")}]
       [] c = "torn" -> [Perfect("v1.30/acme") EXCEPT
            !.unreadable = {"PRODUCT.yaml"}, !.field = [f \in DOMAIN @ |-> "absent"]]
       [] c = "soon" -> Perfect("v1.31/acme")
       [] OTHER      -> Perfect("v1.30/acme")]

MCGarbled   == [c \in Commit |-> IF c = "good" THEN {"torn"} ELSE {}]
MCCommitsOf == [c \in Commit |-> 1]
MCLinksAt   == [s \in Site |-> [f \in LinkFields |-> IF s = "html" THEN "text/html" ELSE "text/plain"]]

MCLabelName(l) ==
  CASE Len(l) = 1             -> l[1]
    [] l[1] = "missing-file"  -> "missing-file-" \o l[2]
    [] OTHER                  -> l[1] \o (IF l[2] = 31 THEN "-v1.31" ELSE "-v1.30")

Word(o) == IF o.state = "success" THEN "All requirements have passed"
           ELSE IF <<"required-tests-missing">> \in o.labels THEN "Tests are missing"
           ELSE "Not all requirements have passed"

MCText == {NotASubmission, NotSupported, PleaseWait, "All requirements have passed",
           "Tests are missing", "Not all requirements have passed", "hi"}

\* release-documents-checked has the text of "release-%v", too
MCTemplateLabel ==
  {"missing-file-" \o f : f \in RequiredFiles} \union {"release-documents-checked"}
  \union {l \o r : l \in {"release-", "tests-verified-", "no-failed-tests-"}, r \in {"v1.30", "v1.31"}}
MCLabel == ManagedPRLabels \union MCTemplateLabel \union {"lgtm"}

=============================================================================
