------------------------------- MODULE Pipeline -------------------------------
(***************************************************************************)
(* The reconciler together with the feature suite that it runs: a commit   *)
(* holds a submission, a run puts together what the suite checks from the  *)
(* search, the files and the product sites, the suite decides as           *)
(* Requirements says (module Suite implements that), and the run publishes *)
(* the verdict: SuiteVerdict, Supported and WithMetadata of Reconciler are *)
(* the definitions below.                                                  *)
(***************************************************************************)
EXTENDS Reconciler

CONSTANTS
  Minor,         \* Minor[r]: the minor version of a release, 0 for none
  TitleRelease,  \* TitleRelease[t]: the release that a title names, 0 for none
  Contents,      \* Contents[c]: the submission in the files of a commit
  CommitsOf,     \* CommitsOf[c]: commits of the pull request when c is its head
  LinksAt,       \* LinksAt[s]: data types of the product URLs by the sites
  ReleaseIn(_), WellFormed, Latest, LatestPatch, TestsOf,  \* as in Requirements
  MetadataOf,    \* MetadataOf[v]: the conformance.yaml of v, good or garbled
  LabelName(_),  \* the name of a label of Requirements
  CommentOf(_)   \* what an outcome says, as far as comments are told apart

Checked(sub, release, metadata) == INSTANCE Requirements

\* what NewPRSuiteForPR puts together for the suite
SubmissionOf(t, listed, files, s) ==
  LET c == Contents[files]
  IN [c EXCEPT !.titleRelease = TitleRelease[t],
               !.commits = IF listed = NoHead THEN 0 ELSE CommitsOf[listed],
               !.link = IF "PRODUCT.yaml" \in DOMAIN c.folders \ (c.unreadable \union c.miscased)
                        THEN LinksAt[s] ELSE [f \in DOMAIN c.link |-> "none"]]

MinorOf(files) == Minor[ReleaseOf[files]]

SuiteOn(t, listed, files, s) ==
  LET v   == MinorOf(files)
      m   == IF v \in DOMAIN MetadataOf THEN MetadataOf[v] ELSE "unreadable"
      sub == SubmissionOf(t, listed, files, s)
      o   == Checked(sub, v, m)!Outcome
  IN  [meets   |-> Checked(sub, v, m)!Meets,
       verdict |-> [labels  |-> {LabelName(l) : l \in o.labels},
                    comment |-> CommentOf(o),
                    state   |-> o.state]]

\* a table, which TLC computes once
SuiteTable ==
  [t \in Title, listed \in Commit \union {NoHead}, files \in Commit, s \in Site |->
     SuiteOn(t, listed, files, s)]

\* for Reconciler: SuiteVerdict, Supported, WithMetadata
VerdictOfSuite(t, listed, files, s) == SuiteTable[t, listed, files, s].verdict

SupportedBySuite == {r \in Release : Minor[r] # 0 /\ Checked({}, 0, "good")!IsSupported(Minor[r])}

ReleasesWithTests == {r \in Release : Minor[r] \in DOMAIN TestsOf}

-----------------------------------------------------------------------------
(* Properties *)

\* what the requirements say of the pull request as it is now
Acceptable ==
  /\ isConformancePR(title)
  /\ ReleaseOf[head] \in Supported \intersect WithMetadata
  /\ SuiteTable[title, head, head, site].meets

\* handle: whatever people label by hand, push or retitle, and whatever fails on
\* the way, in the end exactly the submissions that meet the requirements are
\* called checked.
CheckedIffAcceptable ==
  <>[]("release-documents-checked" \in prLabels <=> Acceptable)

\* updateLabels adds only labels that it takes for its own: all that the suite
\* and handle come up with are, so that in the end none is withheld.
NothingWithheld == <>[](Current.labels \subseteq prLabels)

\* updateStatus: an acceptable submission turns green in the end, other checks
\* permitting.
AcceptableTurnsGreen ==
  <>[](Acceptable => own[head] = "success" \/ Combined(head) = "success")

=============================================================================
