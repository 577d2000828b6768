----------------------------- MODULE SuiteProofs -----------------------------
(***************************************************************************)
(* Proofs about Suite, for every set of submissions and releases and any   *)
(* number of directories of features.                                      *)
(*                                                                         *)
(* What an element comes to, and what it leaves, depends on the submission *)
(* alone (StepProofs).  So it is enough that the run loses none of it: the *)
(* invariants below say what labels, report, names and prepared hold at    *)
(* every moment of the run in terms of the elements that are over.         *)
(***************************************************************************)
EXTENDS StepProofs

-----------------------------------------------------------------------------
(* The inductive invariant *)

Reporting == Len(report) < Len(Rows)

\* steps of the i-th element
StepsAt(i) == Rows[i].steps

\* what Init says of the submission stays true of it
InputInv ==
  /\ sub \in Submission
  /\ \E d \in Folders \intersect WellFormed : release = ReleaseIn(d)
  /\ IsSupported(release) /\ release \in DOMAIN TestsOf
  /\ metadata \in {"good", "garbled", "unreadable"}

\* The report holds, for each element that is over, the step that decided on it;
\* the element that runs has passed up to its step.
ReportInv ==
  /\ IsSeq(report) /\ Len(report) <= Len(Rows)
  /\ \A i \in 1 .. Len(report) : Decides(StepsAt(i), report[i])
  /\ Reporting => /\ row = Len(report) + 1
                  /\ step \in 1 .. Len(StepsAt(row))
                  /\ Reached(StepsAt(row), step)
                  /\ names = {} /\ prepared = <<>> /\ ~Done
  /\ ~Reporting => row \in 1 .. Len(Rows) + 1 /\ step = 1

\* No label is lost or left over.
LabelsInv ==
  ~Done =>
    \A l : l \in labels <=>
      \/ l = <<"conformance-product-submission">>
      \/ \E i \in 1 .. Len(report) : l \in Left(StepsAt(i))
      \/ Reporting /\ \E j \in 1 .. step - 1 : l \in LabelsOf(StepsAt(row)[j])

\* Every scenario with a failed element among those summarised has one entry.
SummaryInv ==
  ~Reporting =>
    /\ names = {Rows[i].name : i \in 1 .. row - 1}
    /\ IsSeq(prepared)
    /\ \A k \in 1 .. Len(prepared) :
         prepared[k] = [about |-> prepared[k].about, hints |-> prepared[k].hints]
    /\ \A k \in 1 .. Len(prepared) :
         \E i \in 1 .. row - 1 : Failed(i) /\ Rows[i].about = prepared[k].about
    /\ \A i \in 1 .. row - 1 : Failed(i) =>
         \E k \in 1 .. Len(prepared) : prepared[k].about = Rows[i].about
    /\ \A k, m \in 1 .. Len(prepared) : prepared[k].about = prepared[m].about => k = m

\* what Postpone and Conclude leave
VerdictInv ==
  Done => IF Pending
          THEN labels = PendingLabels /\ verdict.state = "pending"
          ELSE /\ row = Len(Rows) + 1
               /\ labels = {<<"conformance-product-submission">>, <<"release", release>>,
                            IF prepared = <<>> THEN <<"release-documents-checked">>
                                               ELSE <<"not-verifiable">>}
                           \union LeftBy(StepsOf(Feature))
               /\ verdict.state = IF prepared = <<>> THEN "success" ELSE "failure"
               /\ verdict.passed = Cardinality(names) - Len(prepared)

SuiteInv == InputInv /\ ReportInv /\ LabelsInv /\ SummaryInv /\ VerdictInv

\* s lists the members of S, each once.
Lists(s, S) ==
  /\ IsSeq(s) /\ Elems(s) = S
  /\ \A m, n \in 1 .. Len(s) : s[m] = s[n] => m = n

\* hints of the elements with description a among the first n of the report
HintsOf(a, n) == {report[i] : i \in {j \in 1 .. n : Failed(j) /\ Rows[j].about = a}}

\* An entry has the hints of its elements; but for the last entry, the elements
\* of its scenario are all summarised.
HintsInv ==
  /\ Pending => prepared = <<>>
  /\ ~Reporting =>
       /\ \A k \in 1 .. Len(prepared) :
            Lists(prepared[k].hints, HintsOf(prepared[k].about, row - 1))
       /\ \A k \in 1 .. Len(prepared) - 1 : \A i \in row .. Len(Rows) :
            Rows[i].about # prepared[k].about

-----------------------------------------------------------------------------
(* The requirements: nothing fails exactly if they are met *)

\* The four required files.
LEMMA FilesRequired ==
  Elems(RequiredFiles) = {"README.md", "PRODUCT.yaml", "e2e.log", "junit_01.xml"}
<1>1. RequiredFiles = <<"README.md", "PRODUCT.yaml", "e2e.log", "junit_01.xml">>
      /\ DOMAIN RequiredFiles = {1, 2, 3, 4}
  BY DEF RequiredFiles
<1>2. /\ RequiredFiles[1] = "README.md" /\ RequiredFiles[2] = "PRODUCT.yaml"
      /\ RequiredFiles[3] = "e2e.log" /\ RequiredFiles[4] = "junit_01.xml"
  BY <1>1
<1> QED
  BY <1>1, <1>2 DEF Elems

\* The folders of a submission can be counted.
LEMMA FoldersFinite ==
  ASSUME IsSubmission(sub)
  PROVE  IsFiniteSet(Folders)
<1> DEFINE U  == {sub.folders[f] : f \in Files}
           fn == [f \in Files |-> sub.folders[f]]
<1>1. IsFiniteSet(Files) /\ \A d \in U : IsFiniteSet(d)
  BY DEF IsSubmission, Files
<1>2. fn \in Surjection(Files, U)
  BY DEF Surjection
<1>3. IsFiniteSet(U)
  BY <1>1, <1>2, FS_Surjection
<1> QED
  BY <1>1, <1>3, FS_UNION DEF Folders

\* All files are in one folder, the one that names the release.
LEMMA OneFolder ==
  ASSUME IsSubmission(sub), Files # {},
         \E d \in Folders \intersect WellFormed : release = ReleaseIn(d)
  PROVE  (Folders \subseteq WellFormed /\ Cardinality(Folders) = 1)
           <=> \E d \in WellFormed : ReleaseIn(d) = release /\ \A f \in Files : sub.folders[f] = {d}
<1>1. IsFiniteSet(Folders)
  BY FoldersFinite
<1>2. \A f \in Files : sub.folders[f] # {} /\ sub.folders[f] \subseteq Folders
  BY DEF IsSubmission, Files, Folders
<1>3. ASSUME Folders \subseteq WellFormed, Cardinality(Folders) = 1
      PROVE  \E d \in WellFormed : ReleaseIn(d) = release /\ \A f \in Files : sub.folders[f] = {d}
  <2>1. PICK d : Folders = {d}
    BY <1>1, <1>3, FS_Singleton
  <2>2. d \in WellFormed /\ ReleaseIn(d) = release
    BY <1>3, <2>1
  <2>3. \A f \in Files : sub.folders[f] = {d}
    BY <1>2, <2>1
  <2> QED
    BY <2>2, <2>3
<1>4. ASSUME NEW d \in WellFormed, \A f \in Files : sub.folders[f] = {d}
      PROVE  Folders \subseteq WellFormed /\ Cardinality(Folders) = 1
  <2>1. Folders = {d}
    BY <1>4 DEF Folders
  <2> QED
    BY <2>1, FS_Singleton
<1> QED
  BY <1>3, <1>4

\* Tests that are counted as successful are those that passed and nothing else.
LEMMA TestsMeet ==
  ASSUME IsSubmission(sub)
  PROVE  /\ Required \subseteq Successful
              <=> \A t \in Required : [test |-> t, outcome |-> "passed"] \in sub.junit
         /\ Ran({"failed", "errored"}) = {}
              <=> \A t \in sub.junit : t.outcome \in {"passed", "skipped"}
         /\ Successful \subseteq Submitted
<1>1. \A t \in sub.junit : /\ t = [test |-> t.test, outcome |-> t.outcome]
                           /\ t.outcome \in {"passed", "failed", "errored", "skipped"}
  BY DEF IsSubmission
<1>2. \A t : t \in Successful <=> [test |-> t, outcome |-> "passed"] \in sub.junit
  <2> SUFFICES ASSUME NEW t
               PROVE  t \in Successful <=> [test |-> t, outcome |-> "passed"] \in sub.junit
    OBVIOUS
  <2>1. t \in Successful <=> \E u \in sub.junit : u.outcome = "passed" /\ u.test = t
    BY DEF Successful, Ran
  <2>2. [test |-> t, outcome |-> "passed"].outcome = "passed" /\ [test |-> t, outcome |-> "passed"].test = t
    OBVIOUS
  <2> QED
    BY <1>1, <2>1, <2>2
<1>3. Required \subseteq Successful
        <=> \A t \in Required : [test |-> t, outcome |-> "passed"] \in sub.junit
  BY <1>2
<1>4. Ran({"failed", "errored"}) = {} <=> \A t \in sub.junit : t.outcome \in {"passed", "skipped"}
  <2>1. Ran({"failed", "errored"}) = {} <=> \A t \in sub.junit : t.outcome \notin {"failed", "errored"}
    BY DEF Ran
  <2> QED
    BY <1>1, <2>1
<1>5. Successful \subseteq Submitted
  BY DEF Successful, Submitted, Ran
<1> QED
  BY <1>3, <1>4, <1>5

\* The conditions of the steps together are the requirements.
LEMMA FlawlessIsMeets ==
  ASSUME InputInv
  PROVE  Flawless <=> Meets
<1>1. IsSubmission(sub)
  BY SubmissionAssumption DEF InputInv
<1>2. /\ sub.blank \subseteq Files
      /\ sub.unreadable \subseteq Files \intersect {"PRODUCT.yaml", "junit_01.xml"}
      /\ sub.commits \in Nat
  BY <1>1 DEF IsSubmission, Files
<1>3. release \in Nat \ {0} /\ IsSupported(release)
      /\ \E d \in Folders \intersect WellFormed : release = ReleaseIn(d)
  BY ReleaseAssumption DEF InputInv
<1>4. Elems(RequiredFiles) = {"README.md", "PRODUCT.yaml", "e2e.log", "junit_01.xml"}
  BY FilesRequired
<1>5. Files # {} => (Folders \subseteq WellFormed /\ Cardinality(Folders) = 1
        <=> \E d \in WellFormed : ReleaseIn(d) = release /\ \A f \in Files : sub.folders[f] = {d})
  BY <1>1, <1>3, OneFolder
<1>6. /\ Required \subseteq Successful
           <=> \A t \in Required : [test |-> t, outcome |-> "passed"] \in sub.junit
      /\ Ran({"failed", "errored"}) = {}
           <=> \A t \in sub.junit : t.outcome \in {"passed", "skipped"}
      /\ Required \subseteq Successful => Required \subseteq Submitted
  BY <1>1, TestsMeet
<1>7. ASSUME Flawless PROVE Meets
  <2>1. Files = Elems(RequiredFiles) /\ sub.miscased = {}
    BY <1>7 DEF Flawless
  <2>2. sub.blank = {} /\ sub.unreadable = {}
    BY <1>2, <1>4, <1>7, <2>1 DEF Flawless
  <2>3. sub.commits = 1
    BY <1>2, <1>7 DEF Flawless
  <2>4. \E d \in WellFormed : ReleaseIn(d) = release /\ \A f \in Files : sub.folders[f] = {d}
    BY <1>5, <1>7 DEF Flawless
  <2>5. /\ \A f \in Elems(RequiredFields) : sub.field[f] # "absent"
        /\ \A f \in Elems(AddressFields) : sub.field[f] # "malformed"
        /\ \A f \in Elems(LinkFields) : sub.link[f] \in {"none", "text/html"}
        /\ sub.titleRelease = release /\ ~NoRequiredTests
    BY <1>7 DEF Flawless
  <2>6. /\ \A t \in Required : [test |-> t, outcome |-> "passed"] \in sub.junit
        /\ \A t \in sub.junit : t.outcome \in {"passed", "skipped"}
    BY <1>6, <1>7 DEF Flawless
  <2> QED
    BY <2>1, <2>2, <2>3, <2>4, <2>5, <2>6 DEF Meets
<1>8. ASSUME Meets PROVE Flawless
  <2>1. /\ Files = Elems(RequiredFiles) /\ sub.miscased = {} /\ Files # {}
        /\ "PRODUCT.yaml" \in Files \ sub.unreadable /\ "junit_01.xml" \in Files \ sub.unreadable
        /\ \A f \in Elems(RequiredFiles) : f \in Files /\ f \notin sub.blank /\ f \notin sub.unreadable
    BY <1>4, <1>8 DEF Meets
  <2>2. Folders \subseteq WellFormed /\ Cardinality(Folders) = 1
    BY <1>5, <1>8, <2>1 DEF Meets
  <2>3. sub.titleRelease = release /\ sub.titleRelease # 0 /\ ~NoRequiredTests
        /\ sub.commits # 0 /\ ~(sub.commits > 1)
    BY <1>3, <1>8 DEF Meets
  <2>4. /\ Ran({"failed", "errored"}) = {}
        /\ Required \subseteq Successful /\ Required \subseteq Submitted
    BY <1>6, <1>8 DEF Meets
  <2>5. /\ \A f \in Elems(RequiredFields) : sub.field[f] # "absent"
        /\ \A f \in Elems(AddressFields) : sub.field[f] # "malformed"
        /\ \A f \in Elems(LinkFields) : sub.link[f] \in {"none", "text/html"}
    BY <1>8 DEF Meets
  <2> QED
    BY <1>3, <2>1, <2>2, <2>3, <2>4, <2>5 DEF Flawless
<1> QED
  BY <1>7, <1>8

-----------------------------------------------------------------------------
(* Sequences and elements *)

\* A sequence with one element more.
LEMMA Appended ==
  ASSUME NEW s, IsSeq(s), NEW e
  PROVE  /\ IsSeq(Append(s, e)) /\ Len(Append(s, e)) = Len(s) + 1
         /\ \A i \in 1 .. Len(s) : Append(s, e)[i] = s[i]
         /\ Append(s, e)[Len(s) + 1] = e
         /\ Elems(Append(s, e)) = Elems(s) \union {e}
<1> DEFINE S == Elems(s) \union {e}
           t == Append(s, e)
<1>1. Len(s) \in Nat /\ DOMAIN s = 1 .. Len(s)
  BY SeqFacts
<1>2. s \in Seq(S)
  <2>1. s \in [1 .. Len(s) -> Elems(s)]
    BY LenProperties DEF IsSeq
  <2>2. s \in [1 .. Len(s) -> S]
    BY <2>1
  <2> QED
    BY <1>1, <2>2, SeqDef
<1> HIDE DEF S
<1>3. e \in S
  BY DEF S
<1>4. /\ t \in Seq(S) /\ Len(t) = Len(s) + 1
      /\ \A i \in 1 .. Len(s) : t[i] = s[i]
      /\ t[Len(s) + 1] = e
  BY <1>2, <1>3, AppendProperties
<1> HIDE DEF t
<1>5. DOMAIN t = 1 .. Len(s) + 1
  BY <1>4, LenProperties
<1>6. \A x : x \in Elems(t) <=> x \in Elems(s) \/ x = e
  BY <1>1, <1>4, <1>5 DEF Elems
<1>7. Elems(t) = S
  BY <1>6 DEF S
<1> QED
  BY <1>4, <1>7 DEF t, IsSeq, S

\* The empty sequence.
LEMMA EmptyFacts == IsSeq(<<>>) /\ Len(<<>>) = 0 /\ Elems(<<>>) = {}
  BY EmptySeq DEF IsSeq, Elems

\* only the empty sequence has no elements
LEMMA NonEmpty ==
  ASSUME NEW s, IsSeq(s)
  PROVE  s = <<>> <=> Len(s) = 0
<1>1. s \in Seq(Elems(s))
  BY DEF IsSeq
<1> QED
  BY <1>1, EmptySeq, LenProperties

\* steps of a row
LEMMA RowSteps ==
  ASSUME NEW i \in 1 .. Len(Rows)
  PROVE  /\ StepsAt(i) \in StepsOf(Feature)
         /\ Len(StepsAt(i)) \in 1 .. 3
<1>1. Rows[i] \in Elems(Feature)
  BY RowsFacts
<1>2. StepsAt(i) \in StepsOf(Feature)
  BY <1>1 DEF StepsAt, StepsOf
<1> QED
  BY <1>2, StepCount

\* every element of the feature is a row
LEMMA RowsCover ==
  ASSUME NEW q \in StepsOf(Feature)
  PROVE  \E i \in 1 .. Len(Rows) : StepsAt(i) = q
<1>1. PICK e \in Elems(Feature) : e.steps = q
  BY DEF StepsOf
<1> QED
  BY <1>1, RowsFacts DEF StepsAt

\* The steps up to the one that decides are those that run.
LEMMA LeftUpTo ==
  ASSUME NEW q, Len(q) \in Nat, NEW k \in 1 .. Len(q), Reached(q, k),
         Result(q[k]) # Passed \/ k = Len(q)
  PROVE  \A l : l \in Left(q) <=> \E j \in 1 .. k : l \in LabelsOf(q[j])
<1>1. \A j \in 1 .. k : Reached(q, j)
  <2> SUFFICES ASSUME NEW j \in 1 .. k, NEW m \in 1 .. j - 1
               PROVE  Result(q[m]) = Passed
    BY DEF Reached
  <2>1. m \in 1 .. k - 1
    OBVIOUS
  <2> QED
    BY <2>1 DEF Reached
<1>2. \A j \in 1 .. Len(q) : Reached(q, j) => j <= k
  <2> SUFFICES ASSUME NEW j \in 1 .. Len(q), Reached(q, j), j > k
               PROVE  FALSE
    OBVIOUS
  <2>1. k \in 1 .. j - 1
    OBVIOUS
  <2> QED
    BY <2>1 DEF Reached
<1>3. {j \in 1 .. Len(q) : Reached(q, j)} = 1 .. k
  BY <1>1, <1>2
<1> QED
  BY <1>3 DEF Left

-----------------------------------------------------------------------------
(* No step touches the submission, so the steps mean the same ever after *)

\* What steps say depends on the submission, its release and metadata alone.
LEMMA Frozen ==
  ASSUME UNCHANGED <<sub, release, metadata>>
  PROVE  /\ \A s : Result(s)' = Result(s) /\ LabelsOf(s)' = LabelsOf(s)
         /\ \A q : Left(q)' = Left(q)
         /\ LeftBy(StepsOf(Feature))' = LeftBy(StepsOf(Feature))
         /\ Pending' = Pending /\ InputInv' = InputInv
<1>1. /\ Files' = Files /\ Folders' = Folders /\ Required' = Required
      /\ NoRequiredTests' = NoRequiredTests /\ Pending' = Pending
      /\ \A o : Ran(o)' = Ran(o)
  BY DEF Files, Folders, Required, NoRequiredTests, Misread, Pending, Newest, Ran
<1>2. Successful' = Successful /\ Submitted' = Submitted
  BY <1>1 DEF Successful, Submitted
<1>3. IsSupported(release)' = IsSupported(release)
  BY DEF IsSupported
<1>4. ASSUME NEW s PROVE Result(s)' = Result(s)
  BY <1>1, <1>2, <1>3
     DEF Result, FileResult, IsValid, ProductResult, TestResult, CommitResult, ReleaseResult,
         Readable, WithRequired
<1>5. ASSUME NEW s PROVE LabelsOf(s)' = LabelsOf(s)
  BY <1>1, <1>2, <1>4 DEF LabelsOf, Evidence
<1>6. InputInv' = InputInv
  BY <1>1, <1>3 DEF InputInv
<1>7. \A q, k : Reached(q, k)' = Reached(q, k)
  BY <1>4 DEF Reached
<1>8. \A q : Left(q)' = Left(q)
  BY <1>5, <1>7 DEF Left
<1>9. LeftBy(StepsOf(Feature))' = LeftBy(StepsOf(Feature))
  BY <1>8 DEF LeftBy
<1> QED
  BY <1>1, <1>4, <1>5, <1>6, <1>8, <1>9

-----------------------------------------------------------------------------
(* The invariant is inductive *)

\* SuiteInv at the start: nothing has run.
LEMMA InitSuite == Init => SuiteInv
<1> SUFFICES ASSUME Init PROVE SuiteInv
  OBVIOUS
<1>1. InputInv
  BY DEF Init, InputInv
<1>2. IsSeq(report) /\ Len(report) = 0 /\ Reporting /\ ~Done
  BY EmptyFacts, RowsFacts DEF Init, Reporting, Done
<1>3. ReportInv
  <2>1. row \in 1 .. Len(Rows) /\ row = 1 /\ step = 1
    BY RowsFacts DEF Init
  <2>2. Len(StepsAt(row)) \in 1 .. 3
    BY <2>1, RowSteps
  <2>3. Reached(StepsAt(row), step)
    BY <2>1 DEF Reached
  <2>4. Len(report) <= Len(Rows) /\ \A i \in 1 .. Len(report) : Decides(StepsAt(i), report[i])
    BY <1>2, RowsFacts
  <2>5. names = {} /\ prepared = <<>>
    BY DEF Init
  <2>6. step \in 1 .. Len(StepsAt(row)) /\ row = Len(report) + 1
    BY <1>2, <2>1, <2>2
  <2> QED
    BY <1>2, <2>3, <2>4, <2>5, <2>6 DEF ReportInv
<1>4. LabelsInv
  BY <1>2 DEF Init, LabelsInv
<1>5. SummaryInv /\ VerdictInv
  BY <1>2 DEF SummaryInv, VerdictInv
<1> QED
  BY <1>1, <1>3, <1>4, <1>5 DEF SuiteInv

\* SuiteInv, for a step of the feature: the label it leaves is that of its element.
LEMMA RunStepSuite ==
  ASSUME SuiteInv, RunStep
  PROVE  SuiteInv'
<1> DEFINE N == Len(Rows)
           n == Len(report)
           q == StepsAt(row)
           r == Result(q[step])
<1>1. UNCHANGED <<sub, release, metadata, names, prepared, verdict>>
      /\ labels' = labels \union LabelsOf(q[step])
  BY DEF RunStep, StepsAt
<1>2. /\ Reporting /\ ~Done /\ ~Done' /\ IsSeq(report) /\ n \in Nat /\ N \in Nat /\ n < N
      /\ row = n + 1 /\ row \in 1 .. N
      /\ step \in 1 .. Len(q) /\ Reached(q, step) /\ Len(q) \in 1 .. 3
      /\ names = {} /\ prepared = <<>>
  <2>1. Reporting /\ IsSeq(report) /\ N \in Nat
    BY RowsFacts DEF RunStep, Running, Reporting, SuiteInv, ReportInv
  <2>2. n \in Nat /\ n < N /\ row = n + 1
    BY <2>1, SeqFacts DEF SuiteInv, ReportInv, Reporting
  <2>3. row \in 1 .. N
    BY <2>1, <2>2
  <2> QED
    BY <1>1, <2>1, <2>2, <2>3, RowSteps DEF SuiteInv, ReportInv, Done
<1>3. /\ \A s : Result(s)' = Result(s) /\ LabelsOf(s)' = LabelsOf(s)
      /\ \A p : Left(p)' = Left(p)
      /\ InputInv'
  BY <1>1, Frozen DEF SuiteInv
<1>4. \A i \in 1 .. n : Decides(StepsAt(i), report[i])
  BY DEF SuiteInv, ReportInv
<1>5. \A l : l \in labels <=>
        \/ l = <<"conformance-product-submission">>
        \/ \E i \in 1 .. n : l \in Left(StepsAt(i))
        \/ \E j \in 1 .. step - 1 : l \in LabelsOf(q[j])
  BY <1>2 DEF SuiteInv, LabelsInv
<1>6. CASE /\ r # Passed \/ step = Len(q)
           /\ report' = Append(report, r)
           /\ row' = IF row = N THEN 1 ELSE row + 1
           /\ step' = 1
  <2>1. /\ IsSeq(report') /\ Len(report') = n + 1
        /\ \A i \in 1 .. n : report'[i] = report[i]
        /\ report'[n + 1] = r
    BY <1>2, <1>6, Appended
  <2>2. Decides(q, r)
    BY <1>2, <1>6 DEF Decides
  <2>3. \A i \in 1 .. n + 1 : Decides(StepsAt(i), report'[i])
    BY <1>2, <1>4, <2>1, <2>2
  <2>4. \A l : l \in labels' <=>
          \/ l = <<"conformance-product-submission">>
          \/ \E i \in 1 .. n + 1 : l \in Left(StepsAt(i))
    <3>1. \A l : l \in Left(q) <=> \E j \in 1 .. step : l \in LabelsOf(q[j])
      BY <1>2, <1>6, LeftUpTo
    <3>2. \A l : l \in labels' <=>
            \/ l = <<"conformance-product-submission">>
            \/ \E i \in 1 .. n : l \in Left(StepsAt(i))
            \/ l \in Left(q)
      BY <1>1, <1>2, <1>5, <3>1
    <3> QED
      BY <1>2, <3>2
  <2>5. ReportInv'
    <3>1. \A i \in 1 .. n + 1 : Decides(StepsAt(i), report[i])'
      BY <1>3, <2>3 DEF Decides, Reached
    <3>2. ASSUME Reporting'
          PROVE  /\ row' = n + 2 /\ row' \in 1 .. N
                 /\ (step \in 1 .. Len(StepsAt(row)) /\ Reached(StepsAt(row), step))'
      <4>1. row' = n + 2 /\ row' \in 1 .. N
        BY <1>2, <1>6, <2>1, <3>2 DEF Reporting
      <4>2. Len(StepsAt(row')) \in 1 .. 3
        BY <4>1, RowSteps
      <4>3. Reached(StepsAt(row), step)'
        <5>1. \A j \in 1 .. step' - 1 : FALSE
          BY <1>6
        <5> QED
          BY <5>1 DEF Reached
      <4>4. (step \in 1 .. Len(StepsAt(row)))'
        <5>1. step' = 1
          BY <1>6
        <5>2. \A m : m \in 1 .. 3 => 1 \in 1 .. m
          OBVIOUS
        <5>3. 1 \in 1 .. Len(StepsAt(row'))
          BY <4>2, <5>2
        <5> QED
          BY <5>1, <5>3 DEF StepsAt
      <4> QED
        BY <4>1, <4>3, <4>4
    <3>3. ASSUME ~Reporting' PROVE row' \in 1 .. N + 1 /\ step' = 1
      BY <1>2, <1>6
    <3> QED
      BY <1>1, <1>2, <2>1, <3>1, <3>2, <3>3 DEF ReportInv
  <2>6. LabelsInv'
    BY <1>3, <1>6, <2>1, <2>4 DEF LabelsInv
  <2>7. SummaryInv'
    <3>1. ASSUME ~Reporting' PROVE row' = 1
      BY <1>2, <1>6, <2>1, <3>1 DEF Reporting
    <3> QED
      BY <1>1, <1>2, <3>1, EmptyFacts DEF SummaryInv
  <2> QED
    BY <1>2, <1>3, <2>5, <2>6, <2>7 DEF SuiteInv, VerdictInv
<1>7. CASE ~(r # Passed \/ step = Len(q)) /\ step' = step + 1 /\ UNCHANGED <<report, row>>
  <2>1. Reporting' /\ step' \in 1 .. Len(q)
    BY <1>2, <1>7 DEF Reporting
  <2>2. Reached(q, step + 1)
    BY <1>2, <1>7 DEF Reached
  <2>3. ReportInv'
    <3>1. \A i \in 1 .. n : Decides(StepsAt(i), report[i])'
      BY <1>3, <1>4, <1>7 DEF Decides, Reached
    <3>2. Reached(StepsAt(row), step)'
      BY <1>3, <1>7, <2>2 DEF Reached, StepsAt
    <3> QED
      BY <1>1, <1>2, <1>7, <2>1, <3>1, <3>2 DEF ReportInv, StepsAt, Reporting
  <2>4. \A l : l \in labels' <=>
          \/ l = <<"conformance-product-submission">>
          \/ \E i \in 1 .. n : l \in Left(StepsAt(i))
          \/ \E j \in 1 .. step : l \in LabelsOf(q[j])
    BY <1>1, <1>2, <1>5
  <2>5. LabelsInv'
    <3>1. step' - 1 = step /\ row' = row /\ report' = report
      BY <1>2, <1>7
    <3> QED
      BY <1>3, <2>1, <2>4, <3>1 DEF LabelsInv, StepsAt
  <2> QED
    BY <1>2, <1>3, <2>1, <2>3, <2>5 DEF SuiteInv, SummaryInv, VerdictInv
<1>8. \/ /\ r # Passed \/ step = Len(q)
         /\ report' = Append(report, r)
         /\ row' = IF row = N THEN 1 ELSE row + 1
         /\ step' = 1
      \/ ~(r # Passed \/ step = Len(q)) /\ step' = step + 1 /\ UNCHANGED <<report, row>>
  BY DEF RunStep, StepsAt
<1> QED
  BY <1>6, <1>7, <1>8

\* a hint filed changes nothing but the hints
LEMMA FiledFacts ==
  ASSUME IsSeq(prepared), NEW h, NEW a,
         \A k \in 1 .. Len(prepared) :
           prepared[k] = [about |-> prepared[k].about, hints |-> prepared[k].hints]
  PROVE  /\ IsSeq(Filed(h, a)) /\ Len(Filed(h, a)) = Len(prepared)
         /\ \A k \in 1 .. Len(prepared) :
              Filed(h, a)[k] =
                [about |-> prepared[k].about,
                 hints |-> IF Entry(a, k) /\ h \notin Elems(prepared[k].hints)
                           THEN Append(prepared[k].hints, h) ELSE prepared[k].hints]
<1> DEFINE t == Filed(h, a)
<1>1. DOMAIN prepared = 1 .. Len(prepared) /\ Len(prepared) \in Nat
  BY SeqFacts
<1>2. t = [k \in 1 .. Len(prepared) |->
             IF Entry(a, k) /\ h \notin Elems(prepared[k].hints)
             THEN [prepared[k] EXCEPT !.hints = Append(@, h)] ELSE prepared[k]]
  BY <1>1 DEF Filed
<1> HIDE DEF t
<1>3. IsSeq(t) /\ Len(t) = Len(prepared)
  <2>1. t = [k \in 1 .. Len(prepared) |-> t[k]]
    BY <1>2
  <2> QED
    BY <1>1, <2>1, TableIsSeq
<1>4. ASSUME NEW k \in 1 .. Len(prepared)
      PROVE  t[k] = [about |-> prepared[k].about,
                     hints |-> IF Entry(a, k) /\ h \notin Elems(prepared[k].hints)
                               THEN Append(prepared[k].hints, h) ELSE prepared[k].hints]
  <2>1. prepared[k] = [about |-> prepared[k].about, hints |-> prepared[k].hints]
    OBVIOUS
  <2>2. t[k] = IF Entry(a, k) /\ h \notin Elems(prepared[k].hints)
               THEN [prepared[k] EXCEPT !.hints = Append(@, h)] ELSE prepared[k]
    BY <1>2
  <2>3. \A x : [prepared[k] EXCEPT !.hints = x] = [about |-> prepared[k].about, hints |-> x]
    BY <2>1
  <2>4. CASE Entry(a, k) /\ h \notin Elems(prepared[k].hints)
    BY <2>2, <2>3, <2>4
  <2>5. CASE ~(Entry(a, k) /\ h \notin Elems(prepared[k].hints))
    BY <2>1, <2>2, <2>5
  <2> QED
    BY <2>4, <2>5
<1> QED
  BY <1>3, <1>4 DEF t

\* while the report is summarised
LEMMA SummarisingFacts ==
  ASSUME SuiteInv, Summarise
  PROVE  /\ ~Reporting /\ ~Done /\ ~Done' /\ row \in 1 .. Len(Rows) /\ row \in Nat /\ row' = row + 1
         /\ UNCHANGED <<sub, release, metadata, step, labels, report, verdict>>
         /\ Len(report) = Len(Rows) /\ IsSeq(report)
         /\ ~Reporting'
<1>1. UNCHANGED <<sub, release, metadata, step, labels, report, verdict>> /\ row' = row + 1
  BY DEF Summarise
<1>2. ~Reporting /\ ~Pending /\ row <= Len(Rows)
  BY DEF Summarise, Running, Reporting
<1>3. /\ row \in 1 .. Len(Rows) + 1 /\ IsSeq(report) /\ Len(report) <= Len(Rows)
      /\ Done => row = Len(Rows) + 1
  BY <1>2 DEF SuiteInv, ReportInv, VerdictInv
<1>4. Len(Rows) \in Nat /\ Len(report) \in Nat
  BY <1>3, RowsFacts, SeqFacts
<1>5. row \in 1 .. Len(Rows) /\ ~Done /\ row \in Nat
  BY <1>2, <1>3, <1>4
<1>6. Len(report) = Len(Rows)
  BY <1>2, <1>3, <1>4 DEF Reporting
<1>7. ~Done' /\ ~Reporting'
  BY <1>1, <1>2, <1>5 DEF Done, Reporting
<1> QED
  BY <1>1, <1>2, <1>3, <1>5, <1>6, <1>7

\* A round of the summary lists the scenario of a failed element, once.
LEMMA SummariseSummary ==
  ASSUME SuiteInv, Summarise
  PROVE  SummaryInv'
<1> DEFINE a == Rows[row].about
           h == report[row]
<1>1. /\ ~Reporting /\ row \in Nat \ {0} /\ row' = row + 1 /\ report' = report
      /\ row' - 1 = row /\ 1 .. row = (1 .. row - 1) \union {row}
  BY SummarisingFacts
<1>2. /\ names = {Rows[i].name : i \in 1 .. row - 1}
      /\ IsSeq(prepared)
      /\ \A k \in 1 .. Len(prepared) :
           prepared[k] = [about |-> prepared[k].about, hints |-> prepared[k].hints]
      /\ \A k \in 1 .. Len(prepared) :
           \E i \in 1 .. row - 1 : Failed(i) /\ Rows[i].about = prepared[k].about
      /\ \A i \in 1 .. row - 1 : Failed(i) =>
           \E k \in 1 .. Len(prepared) : prepared[k].about = Rows[i].about
      /\ \A k, m \in 1 .. Len(prepared) : prepared[k].about = prepared[m].about => k = m
  BY <1>1 DEF SuiteInv, SummaryInv
<1>3. names' = {Rows[i].name : i \in 1 .. row}
  <2>1. names' = names \union {Rows[row].name}
    BY DEF Summarise
  <2> QED
    BY <1>1, <1>2, <2>1
<1>4. \A i : Failed(i)' = Failed(i)
  BY <1>1 DEF Failed
<1>5. Len(prepared) \in Nat
  BY <1>2, SeqFacts
<1>6. /\ IsSeq(prepared')
      /\ \A k \in 1 .. Len(prepared') :
           prepared'[k] = [about |-> prepared'[k].about, hints |-> prepared'[k].hints]
      /\ \A k \in 1 .. Len(prepared') :
           \E i \in 1 .. row : Failed(i) /\ Rows[i].about = prepared'[k].about
      /\ \A i \in 1 .. row : Failed(i) =>
           \E k \in 1 .. Len(prepared') : prepared'[k].about = Rows[i].about
      /\ \A k, m \in 1 .. Len(prepared') : prepared'[k].about = prepared'[m].about => k = m
  <2>1. CASE ~Failed(row)
    <3>1. prepared' = prepared
      BY <2>1 DEF Summarise
    <3> QED
      BY <1>1, <1>2, <2>1, <3>1
  <2>2. CASE Failed(row) /\ Entry(a, Len(prepared))
    <3>1. prepared' = Filed(h, a)
      BY <2>2 DEF Summarise
    <3>2. /\ IsSeq(prepared') /\ Len(prepared') = Len(prepared)
          /\ \A k \in 1 .. Len(prepared) :
               prepared'[k] =
                 [about |-> prepared[k].about,
                  hints |-> IF Entry(a, k) /\ h \notin Elems(prepared[k].hints)
                            THEN Append(prepared[k].hints, h) ELSE prepared[k].hints]
      <4> DEFINE t == Filed(h, a)
      <4> HIDE DEF h, a
      <4>1. \A k \in 1 .. Len(prepared) :
              prepared[k] = [about |-> prepared[k].about, hints |-> prepared[k].hints]
        BY <1>2
      <4>2. /\ IsSeq(t) /\ Len(t) = Len(prepared)
            /\ \A k \in 1 .. Len(prepared) :
                 t[k] = [about |-> prepared[k].about,
                         hints |-> IF Entry(a, k) /\ h \notin Elems(prepared[k].hints)
                                   THEN Append(prepared[k].hints, h) ELSE prepared[k].hints]
        <5>1. IsSeq(prepared)
          BY <1>2
        <5> QED
          BY <4>1, <5>1, FiledFacts
      <4>3. prepared' = t
        BY <3>1
      <4> HIDE DEF t
      <4> QED
        BY <4>2, <4>3
    <3>3. \A k \in 1 .. Len(prepared) :
            /\ prepared'[k].about = prepared[k].about
            /\ prepared'[k] = [about |-> prepared'[k].about, hints |-> prepared'[k].hints]
      <4> SUFFICES ASSUME NEW k \in 1 .. Len(prepared)
                   PROVE  /\ prepared'[k].about = prepared[k].about
                          /\ prepared'[k] = [about |-> prepared'[k].about, hints |-> prepared'[k].hints]
        OBVIOUS
      <4>1. PICK H : prepared'[k] = [about |-> prepared[k].about, hints |-> H]
        BY <3>2
      <4> QED
        BY <4>1
    <3>4. \E k \in 1 .. Len(prepared) : prepared[k].about = a
      BY <2>2 DEF Entry
    <3>5. Len(prepared') = Len(prepared) /\ IsSeq(prepared')
      BY <3>2
    <3>6. \A k \in 1 .. Len(prepared') :
            \E i \in 1 .. row : Failed(i) /\ Rows[i].about = prepared'[k].about
      <4>1. \A k \in 1 .. Len(prepared) :
              \E i \in 1 .. row : Failed(i) /\ Rows[i].about = prepared[k].about
        BY <1>1, <1>2
      <4> QED
        BY <3>3, <3>5, <4>1
    <3>7. \A i \in 1 .. row : Failed(i) =>
            \E k \in 1 .. Len(prepared') : prepared'[k].about = Rows[i].about
      <4>1. \A i \in 1 .. row : Failed(i) =>
              \E k \in 1 .. Len(prepared) : prepared[k].about = Rows[i].about
        BY <1>1, <1>2, <3>4
      <4> QED
        BY <3>3, <3>5, <4>1
    <3>8. \A k, m \in 1 .. Len(prepared') : prepared'[k].about = prepared'[m].about => k = m
      BY <1>2, <3>3, <3>5
    <3> QED
      BY <3>3, <3>5, <3>6, <3>7, <3>8
  <2>3. CASE Failed(row) /\ ~Entry(a, Len(prepared))
    <3> DEFINE e == [about |-> a, hints |-> <<h>>]
    <3>1. prepared' = Append(prepared, e)
      BY <2>3 DEF Summarise
    <3>2. e = [about |-> e.about, hints |-> e.hints] /\ e.about = a
      OBVIOUS
    <3> HIDE DEF e
    <3>3. /\ IsSeq(prepared') /\ Len(prepared') = Len(prepared) + 1
          /\ \A k \in 1 .. Len(prepared) : prepared'[k] = prepared[k]
          /\ prepared'[Len(prepared) + 1] = e
      BY <1>2, <3>1, Appended
    <3>4. \A k \in 1 .. Len(prepared) : prepared[k].about # a
      BY <2>3 DEF Entry
    <3>5. 1 .. Len(prepared') = (1 .. Len(prepared)) \union {Len(prepared) + 1}
      BY <1>5, <3>3
    <3>6. Len(prepared) + 1 \notin 1 .. Len(prepared)
      BY <1>5
    <3>7. \A k \in 1 .. Len(prepared') :
            prepared'[k] = [about |-> prepared'[k].about, hints |-> prepared'[k].hints]
      <4>1. \A k \in 1 .. Len(prepared) :
              prepared[k] = [about |-> prepared[k].about, hints |-> prepared[k].hints]
        BY <1>2
      <4> SUFFICES ASSUME NEW k \in 1 .. Len(prepared')
                   PROVE  prepared'[k] = [about |-> prepared'[k].about, hints |-> prepared'[k].hints]
        OBVIOUS
      <4>2. CASE k \in 1 .. Len(prepared)
        BY <3>3, <4>1, <4>2
      <4>3. CASE k = Len(prepared) + 1
        BY <3>2, <3>3, <4>3
      <4> QED
        BY <3>5, <4>2, <4>3
    <3>8. \A k \in 1 .. Len(prepared') :
            \E i \in 1 .. row : Failed(i) /\ Rows[i].about = prepared'[k].about
      <4>1. \A k \in 1 .. Len(prepared) :
              \E i \in 1 .. row : Failed(i) /\ Rows[i].about = prepared[k].about
        BY <1>1, <1>2
      <4>2. Failed(row) /\ Rows[row].about = e.about /\ row \in 1 .. row
        BY <1>1, <2>3, <3>2
      <4> QED
        BY <3>3, <3>5, <4>1, <4>2
    <3>9. \A i \in 1 .. row : Failed(i) =>
            \E k \in 1 .. Len(prepared') : prepared'[k].about = Rows[i].about
      <4>1. \A i \in 1 .. row - 1 : Failed(i) =>
              \E k \in 1 .. Len(prepared) : prepared[k].about = Rows[i].about
        BY <1>2
      <4>2. \A i \in 1 .. row - 1 : Failed(i) =>
              \E k \in 1 .. Len(prepared) : prepared'[k].about = Rows[i].about
        BY <3>3, <4>1
      <4>3. /\ Len(prepared) + 1 \in 1 .. Len(prepared')
            /\ prepared'[Len(prepared) + 1].about = Rows[row].about
        BY <3>2, <3>3, <3>5
      <4> QED
        BY <1>1, <3>5, <4>2, <4>3
    <3>10. \A k, m \in 1 .. Len(prepared') : prepared'[k].about = prepared'[m].about => k = m
      <4>1. \A k \in 1 .. Len(prepared') :
              \/ k \in 1 .. Len(prepared) /\ prepared'[k].about = prepared[k].about
                 /\ prepared'[k].about # a
              \/ k = Len(prepared) + 1 /\ prepared'[k].about = a
        BY <3>2, <3>3, <3>4, <3>5
      <4> HIDE DEF a
      <4> QED
        BY <1>2, <4>1
    <3> QED
      BY <3>3, <3>7, <3>8, <3>9, <3>10
  <2> QED
    BY <2>1, <2>2, <2>3
<1> QED
  BY <1>1, <1>3, <1>4, <1>6 DEF SummaryInv

\* SuiteInv, for a round of the summary.
LEMMA SummariseSuite ==
  ASSUME SuiteInv, Summarise
  PROVE  SuiteInv'
<1>1. /\ ~Reporting /\ ~Done /\ ~Done' /\ row \in 1 .. Len(Rows) /\ row' = row + 1
      /\ UNCHANGED <<sub, release, metadata, step, labels, report, verdict>>
      /\ ~Reporting'
  BY SummarisingFacts
<1>2. /\ \A s : Result(s)' = Result(s) /\ \A q : Left(q)' = Left(q)
      /\ InputInv'
  BY <1>1, Frozen DEF SuiteInv
<1>3. ReportInv'
  <2>1. /\ IsSeq(report) /\ Len(report) <= Len(Rows) /\ step = 1
        /\ \A i \in 1 .. Len(report) : Decides(StepsAt(i), report[i])
    BY <1>1 DEF SuiteInv, ReportInv
  <2>2. \A i \in 1 .. Len(report) : Decides(StepsAt(i), report[i])'
    BY <1>1, <1>2, <2>1 DEF Decides, Reached
  <2>3. row' \in 1 .. Len(Rows) + 1
    BY <1>1, RowsFacts
  <2> QED
    BY <1>1, <2>1, <2>2, <2>3 DEF ReportInv
<1>4. LabelsInv'
  <2>1. \A l : l \in labels <=>
          \/ l = <<"conformance-product-submission">>
          \/ \E i \in 1 .. Len(report) : l \in Left(StepsAt(i))
    BY <1>1 DEF SuiteInv, LabelsInv
  <2> QED
    BY <1>1, <1>2, <2>1 DEF LabelsInv
<1>5. SummaryInv'
  BY SummariseSummary
<1> QED
  BY <1>1, <1>2, <1>3, <1>4, <1>5 DEF SuiteInv, VerdictInv

\* SuiteInv, for the early return when metadata is missing.
LEMMA PostponeSuite ==
  ASSUME SuiteInv, Postpone
  PROVE  SuiteInv'
<1>1. /\ Pending /\ ~Reporting /\ Done'
      /\ labels' = PendingLabels /\ verdict'.state = "pending"
      /\ UNCHANGED <<sub, release, metadata, row, step, report, names, prepared>>
  <2>1. ~Reporting
    <3>1. row <= Len(Rows) \/ ~Reporting
      BY RowsFacts, SeqFacts DEF SuiteInv, ReportInv, Reporting
    <3> QED
      BY <3>1 DEF Postpone, Running, Reporting
  <2>2. verdict' = [state |-> "pending", passed |-> 0, of |-> 0] /\ verdict'.state = "pending"
    BY DEF Postpone
  <2>3. verdict' # NoVerdict
    BY <2>2 DEF NoVerdict
  <2> QED
    BY <2>1, <2>2, <2>3 DEF Postpone, Done
<1>2. /\ \A s : Result(s)' = Result(s)
      /\ InputInv' /\ Pending'
  BY <1>1, Frozen DEF SuiteInv
<1>3. ReportInv'
  <2>1. /\ IsSeq(report) /\ Len(report) <= Len(Rows) /\ step = 1 /\ row \in 1 .. Len(Rows) + 1
        /\ \A i \in 1 .. Len(report) : Decides(StepsAt(i), report[i])
    BY <1>1 DEF SuiteInv, ReportInv
  <2>2. \A i \in 1 .. Len(report) : Decides(StepsAt(i), report[i])'
    BY <1>1, <1>2, <2>1 DEF Decides, Reached
  <2> QED
    BY <1>1, <2>1, <2>2 DEF ReportInv, Reporting
<1>4. SummaryInv'
  BY <1>1 DEF SuiteInv, SummaryInv, Reporting, Failed
<1>5. LabelsInv' /\ VerdictInv'
  BY <1>1, <1>2 DEF LabelsInv, VerdictInv
<1> QED
  BY <1>2, <1>3, <1>4, <1>5 DEF SuiteInv

\* All elements are over: the labels are those that the feature leaves.
LEMMA LabelsAtEnd ==
  ASSUME SuiteInv, ~Done, ~Reporting
  PROVE  labels = {<<"conformance-product-submission">>} \union LeftBy(StepsOf(Feature))
<1>1. Len(report) = Len(Rows)
  <2>1. IsSeq(report) /\ Len(report) <= Len(Rows) /\ ~(Len(report) < Len(Rows))
    BY DEF SuiteInv, ReportInv, Reporting
  <2> QED
    BY <2>1, SeqFacts, RowsFacts
<1>2. \A l : l \in labels <=>
        \/ l = <<"conformance-product-submission">>
        \/ \E i \in 1 .. Len(Rows) : l \in Left(StepsAt(i))
  BY <1>1 DEF SuiteInv, LabelsInv
<1>3. \A l : l \in LeftBy(StepsOf(Feature)) <=> \E i \in 1 .. Len(Rows) : l \in Left(StepsAt(i))
  <2>1. \A l : l \in LeftBy(StepsOf(Feature)) <=> \E q \in StepsOf(Feature) : l \in Left(q)
    BY LeftByFacts
  <2> QED
    BY <2>1, RowSteps, RowsCover
<1> QED
  BY <1>2, <1>3

\* SuiteInv, for the end of the summary.
LEMMA ConcludeSuite ==
  ASSUME SuiteInv, Conclude
  PROVE  SuiteInv'
<1>1. /\ ~Pending /\ ~Reporting /\ ~Done /\ row = Len(Rows) + 1
      /\ UNCHANGED <<sub, release, metadata, row, step, report, names, prepared>>
  <2>1. ~Reporting
    <3>1. row <= Len(Rows) \/ ~Reporting
      BY RowsFacts, SeqFacts DEF SuiteInv, ReportInv, Reporting
    <3> QED
      BY <3>1 DEF Conclude, Running, Reporting
  <2>2. row \in 1 .. Len(Rows) + 1 /\ row > Len(Rows)
    BY <2>1 DEF SuiteInv, ReportInv, Conclude
  <2>3. row = Len(Rows) + 1
    BY <2>2, RowsFacts
  <2> QED
    BY <2>1, <2>3 DEF Conclude, Done
<1>2. /\ \A s : Result(s)' = Result(s)
      /\ InputInv' /\ ~Pending' /\ LeftBy(StepsOf(Feature))' = LeftBy(StepsOf(Feature))
  BY <1>1, Frozen DEF SuiteInv
<1>3. ReportInv'
  <2>1. /\ IsSeq(report) /\ Len(report) <= Len(Rows) /\ step = 1 /\ row \in 1 .. Len(Rows) + 1
        /\ \A i \in 1 .. Len(report) : Decides(StepsAt(i), report[i])
    BY <1>1 DEF SuiteInv, ReportInv
  <2>2. \A i \in 1 .. Len(report) : Decides(StepsAt(i), report[i])'
    BY <1>1, <1>2, <2>1 DEF Decides, Reached
  <2> QED
    BY <1>1, <2>1, <2>2 DEF ReportInv, Reporting
<1>4. SummaryInv'
  BY <1>1 DEF SuiteInv, SummaryInv, Reporting, Failed
<1>5. /\ verdict'.state = IF prepared = <<>> THEN "success" ELSE "failure"
      /\ verdict'.passed = Cardinality(names) - Len(prepared)
      /\ Done'
  <2> DEFINE state == IF prepared # <<>> THEN "failure" ELSE "success"
             passed == Cardinality(names) - Len(prepared)
  <2>1. verdict' = [state |-> state, passed |-> passed, of |-> Cardinality(names)]
    BY DEF Conclude
  <2>2. state # "none" /\ state = IF prepared = <<>> THEN "success" ELSE "failure"
    OBVIOUS
  <2> HIDE DEF state, passed
  <2>3. verdict'.state = state /\ verdict'.passed = passed
    BY <2>1
  <2>4. verdict' # NoVerdict
    BY <2>2, <2>3 DEF NoVerdict
  <2> QED
    BY <2>2, <2>3, <2>4 DEF Done, passed
<1>6. labels' = {<<"conformance-product-submission">>, <<"release", release>>,
                 IF prepared = <<>> THEN <<"release-documents-checked">>
                                    ELSE <<"not-verifiable">>}
                \union LeftBy(StepsOf(Feature))
  <2>1. labels = {<<"conformance-product-submission">>} \union LeftBy(StepsOf(Feature))
    BY <1>1, LabelsAtEnd
  <2>2. labels' = labels \union {<<"release", release>>,
                     IF prepared # <<>> THEN <<"not-verifiable">> ELSE <<"release-documents-checked">>}
    BY DEF Conclude
  <2> QED
    BY <2>1, <2>2
<1>7. VerdictInv'
  BY <1>1, <1>2, <1>5, <1>6 DEF VerdictInv
<1> QED
  BY <1>2, <1>3, <1>4, <1>5, <1>7 DEF SuiteInv, LabelsInv

\* SuiteInv, when nothing happens.
LEMMA StutterSuite ==
  ASSUME SuiteInv, UNCHANGED vars
  PROVE  SuiteInv'
<1>1. UNCHANGED <<sub, release, metadata, row, step, labels, report, names, prepared, verdict>>
  BY DEF vars
<1>2. /\ \A s : Result(s)' = Result(s) /\ LabelsOf(s)' = LabelsOf(s)
      /\ \A q : Left(q)' = Left(q)
      /\ LeftBy(StepsOf(Feature))' = LeftBy(StepsOf(Feature))
      /\ InputInv' /\ Pending' = Pending
  BY <1>1, Frozen DEF SuiteInv
<1>3. ReportInv'
  BY <1>1, <1>2 DEF SuiteInv, ReportInv, Reporting, Done, Decides, Reached
<1>4. LabelsInv'
  BY <1>1, <1>2 DEF SuiteInv, LabelsInv, Reporting, Done
<1>5. SummaryInv'
  BY <1>1 DEF SuiteInv, SummaryInv, Reporting, Failed
<1>6. VerdictInv'
  BY <1>1, <1>2 DEF SuiteInv, VerdictInv, Done
<1> QED
  BY <1>2, <1>3, <1>4, <1>5, <1>6 DEF SuiteInv

\* At every moment the labels, the report and the summary are those of the
\* elements that are over.
THEOREM SuiteInvariant == Spec => []SuiteInv
<1>1. SuiteInv /\ [Next]_vars => SuiteInv'
  BY RunStepSuite, SummariseSuite, PostponeSuite, ConcludeSuite, StutterSuite DEF Next
<1> QED
  BY InitSuite, <1>1, PTL DEF Spec

-----------------------------------------------------------------------------
(* What the run comes to *)

\* At the verdict all elements have run, and each failed if one of its steps did.
LEMMA AtEnd ==
  ASSUME SuiteInv, Done, ~Pending
  PROVE  /\ ~Reporting /\ row = Len(Rows) + 1 /\ IsSeq(report) /\ Len(report) = Len(Rows)
         /\ DOMAIN report = 1 .. Len(Rows) /\ Len(Rows) \in Nat \ {0}
         /\ \A i \in 1 .. Len(Rows) : Failed(i) <=> Fails(StepsAt(i))
<1>1. ~Reporting /\ row = Len(Rows) + 1 /\ IsSeq(report) /\ Len(report) <= Len(Rows)
      /\ \A i \in 1 .. Len(report) : Decides(StepsAt(i), report[i])
  BY DEF SuiteInv, ReportInv, VerdictInv
<1>2. Len(report) = Len(Rows) /\ DOMAIN report = 1 .. Len(report) /\ Len(Rows) \in Nat \ {0}
  BY <1>1, SeqFacts, RowsFacts DEF Reporting
<1>3. ASSUME NEW i \in 1 .. Len(Rows) PROVE Failed(i) <=> Fails(StepsAt(i))
  <2>1. Decides(StepsAt(i), report[i]) /\ Len(StepsAt(i)) \in Nat
    BY <1>1, <1>2, RowSteps
  <2>2. IsFailure(report[i]) <=> Fails(StepsAt(i))
    BY <2>1, DecidedOnce
  <2> QED
    BY <2>2 DEF Failed, IsFailure
<1> QED
  BY <1>1, <1>2, <1>3

\* The comment lists a scenario exactly if a requirement is not met.
LEMMA NothingListed ==
  ASSUME SuiteInv, Done, ~Pending
  PROVE  prepared = <<>> <=> Meets
<1>1. /\ ~Reporting /\ row - 1 = Len(Rows)
      /\ \A i \in 1 .. Len(Rows) : Failed(i) <=> Fails(StepsAt(i))
  BY AtEnd
<1>2. /\ IsSeq(prepared)
      /\ \A k \in 1 .. Len(prepared) :
           \E i \in 1 .. Len(Rows) : Failed(i) /\ Rows[i].about = prepared[k].about
      /\ \A i \in 1 .. Len(Rows) : Failed(i) =>
           \E k \in 1 .. Len(prepared) : prepared[k].about = Rows[i].about
  BY <1>1 DEF SuiteInv, SummaryInv
<1>3. prepared = <<>> <=> Len(prepared) = 0 /\ Len(prepared) \in Nat
  BY <1>2, NonEmpty, SeqFacts
<1>4. Len(prepared) \in Nat
  BY <1>2, SeqFacts
<1>5. prepared = <<>> <=> \A i \in 1 .. Len(Rows) : ~Failed(i)
  <2>1. ASSUME prepared = <<>>, NEW i \in 1 .. Len(Rows) PROVE ~Failed(i)
    BY <1>2, <1>3, <2>1
  <2>2. ASSUME \A i \in 1 .. Len(Rows) : ~Failed(i) PROVE prepared = <<>>
    <3>1. \A k \in 1 .. Len(prepared) : FALSE
      BY <1>2, <2>2
    <3>2. Len(prepared) = 0
      BY <1>4, <3>1
    <3> QED
      BY <1>3, <3>2
  <2> QED
    BY <2>1, <2>2
<1>6. (\A i \in 1 .. Len(Rows) : ~Failed(i)) <=> \A q \in StepsOf(Feature) : ~Fails(q)
  BY <1>1, RowSteps, RowsCover
<1>7. InputInv
  BY DEF SuiteInv
<1> QED
  BY <1>5, <1>6, <1>7, NoneFails, FlawlessIsMeets

\* What SuiteInv says of the verdict: the outcome of Requirements, ...
LEMMA OutcomeReached == ASSUME SuiteInv PROVE OutcomeIsRight
<1> SUFFICES ASSUME Done
             PROVE  verdict.state = Outcome.state /\ labels = Outcome.labels
  BY DEF OutcomeIsRight
<1>1. CASE Pending
  <2>1. labels = PendingLabels /\ verdict.state = "pending"
    BY <1>1 DEF SuiteInv, VerdictInv
  <2>2. Outcome = [state |-> "pending", labels |-> PendingLabels]
    BY <1>1 DEF Outcome
  <2> QED
    BY <2>1, <2>2
<1>2. CASE ~Pending
  <2> DEFINE st == IF Meets THEN "success" ELSE "failure"
             ls == {<<"conformance-product-submission">>, <<"release", release>>,
                    IF Meets THEN <<"release-documents-checked">> ELSE <<"not-verifiable">>}
                   \union ({"missing-file"} \X (Elems(RequiredFiles) \ Files))
                   \union EvidenceLabels
  <2>1. Outcome = [state |-> st, labels |-> ls]
    BY <1>2 DEF Outcome
  <2>2. prepared = <<>> <=> Meets
    BY <1>2, NothingListed
  <2>3. /\ labels = {<<"conformance-product-submission">>, <<"release", release>>,
                     IF prepared = <<>> THEN <<"release-documents-checked">>
                                        ELSE <<"not-verifiable">>}
                    \union LeftBy(StepsOf(Feature))
        /\ verdict.state = IF prepared = <<>> THEN "success" ELSE "failure"
    BY <1>2 DEF SuiteInv, VerdictInv
  <2>4. verdict.state = st
    BY <2>2, <2>3
  <2>5. labels = ls
    <3>1. LeftBy(StepsOf(Feature)) =
            ({"missing-file"} \X (Elems(RequiredFiles) \ Files)) \union EvidenceLabels
      BY LeftByFeature
    <3>2. CASE Meets
      BY <2>2, <2>3, <3>1, <3>2
    <3>3. CASE ~Meets
      BY <2>2, <2>3, <3>1, <3>3
    <3> QED
      BY <3>2, <3>3
  <2> HIDE DEF st, ls
  <2> QED
    BY <2>1, <2>4, <2>5
<1> QED
  BY <1>1, <1>2

\* Whatever the 31 elements say and in whatever order they file it, what comes
\* out of the run is what the submission alone calls for: Suite implements
\* Requirements (GetLabelsAndCommentsFromSuiteResultsBuffer).
THEOREM Outcomes == Spec => []OutcomeIsRight
<1>1. SuiteInv => OutcomeIsRight
  BY OutcomeReached
<1> QED
  BY SuiteInvariant, <1>1, PTL

-----------------------------------------------------------------------------
(* The labels *)

\* which pieces of evidence are found, case by case
LEMMA EvidenceNames ==
  /\ \A l \in EvidenceLabels :
       l \in {<<"evidence-missing">>, <<"required-tests-missing">>,
              <<"no-failed-tests", release>>, <<"tests-verified", release>>}
  /\ InputInv /\ Meets =>
       EvidenceLabels = {<<"no-failed-tests", release>>, <<"tests-verified", release>>}
<1>1. \A l \in EvidenceLabels :
       l \in {<<"evidence-missing">>, <<"required-tests-missing">>,
              <<"no-failed-tests", release>>, <<"tests-verified", release>>}
  BY DEF EvidenceLabels, Given
<1>2. ASSUME InputInv, Meets
      PROVE  EvidenceLabels = {<<"no-failed-tests", release>>, <<"tests-verified", release>>}
  <2>1. Flawless
    BY <1>2, FlawlessIsMeets
  <2>2. /\ "junit_01.xml" \in Files \ sub.unreadable /\ ~NoRequiredTests
        /\ Ran({"failed", "errored"}) = {} /\ Required \subseteq Submitted
    BY <2>1 DEF Flawless
  <2> QED
    BY <2>2 DEF EvidenceLabels, Given
<1> QED
  BY <1>1, <1>2

\* ... labels that agree with it, ...
LEMMA LabelsReached == ASSUME SuiteInv PROVE LabelsAgree
<1> SUFFICES ASSUME Done, ~Pending
             PROVE  /\ LabelNamed("release-documents-checked") <=> ~LabelNamed("not-verifiable")
                    /\ LabelNamed("release-documents-checked") =>
                         /\ LabelNamed("tests-verified") /\ LabelNamed("no-failed-tests")
                         /\ ~LabelNamed("missing-file")
                         /\ ~LabelNamed("required-tests-missing") /\ ~LabelNamed("evidence-missing")
  BY DEF LabelsAgree
<1> DEFINE Missing == {"missing-file"} \X (Elems(RequiredFiles) \ Files)
           checked == IF Meets THEN <<"release-documents-checked">> ELSE <<"not-verifiable">>
<1>1. labels = {<<"conformance-product-submission">>, <<"release", release>>, checked}
               \union Missing \union EvidenceLabels
  <2>1. labels = Outcome.labels
    BY OutcomeReached DEF OutcomeIsRight
  <2> QED
    BY <2>1 DEF Outcome
<1>2. \A l \in Missing : l[1] = "missing-file"
  OBVIOUS
<1>3. \A l \in EvidenceLabels :
        l[1] \in {"evidence-missing", "required-tests-missing", "no-failed-tests", "tests-verified"}
  BY EvidenceNames
<1> HIDE DEF Missing
<1>4. CASE Meets
  <2>1. EvidenceLabels = {<<"no-failed-tests", release>>, <<"tests-verified", release>>}
    BY <1>4, EvidenceNames DEF SuiteInv
  <2>2. Missing = {}
    BY <1>4 DEF Meets, Missing
  <2>3. labels = {<<"conformance-product-submission">>, <<"release", release>>,
                  <<"release-documents-checked">>,
                  <<"no-failed-tests", release>>, <<"tests-verified", release>>}
    BY <1>1, <1>4, <2>1, <2>2
  <2>4. /\ LabelNamed("release-documents-checked") /\ LabelNamed("tests-verified")
        /\ LabelNamed("no-failed-tests")
    BY <2>3 DEF LabelNamed
  <2>5. /\ ~LabelNamed("not-verifiable") /\ ~LabelNamed("missing-file")
        /\ ~LabelNamed("required-tests-missing") /\ ~LabelNamed("evidence-missing")
    BY <2>3 DEF LabelNamed
  <2> QED
    BY <2>4, <2>5
<1>5. CASE ~Meets
  <2>1. checked = <<"not-verifiable">>
    BY <1>5
  <2>2. LabelNamed("not-verifiable")
    <3>1. <<"not-verifiable">> \in labels /\ <<"not-verifiable">>[1] = "not-verifiable"
      BY <1>1, <2>1
    <3> QED
      BY <3>1 DEF LabelNamed
  <2>3. ~LabelNamed("release-documents-checked")
    <3>1. \A l \in labels : \/ l = <<"conformance-product-submission">>
                            \/ l = <<"release", release>>
                            \/ l = <<"not-verifiable">>
                            \/ l \in Missing \/ l \in EvidenceLabels
      BY <1>1, <2>1
    <3>2. \A l \in labels : l[1] # "release-documents-checked"
      BY <1>2, <1>3, <3>1
    <3> QED
      BY <3>2 DEF LabelNamed
  <2> QED
    BY <2>2, <2>3
<1> QED
  BY <1>4, <1>5

\* A submission is labelled checked exactly if it is not labelled
\* not-verifiable, and then with all of the evidence and nothing missing.
THEOREM Labels == Spec => []LabelsAgree
<1>1. SuiteInv => LabelsAgree
  BY LabelsReached
<1> QED
  BY SuiteInvariant, <1>1, PTL

\* the labels of elements that are over, or of the one that runs
LEMMA LabelsOnTheWay ==
  ASSUME SuiteInv, ~Done
  PROVE  labels \subseteq {<<"conformance-product-submission">>} \union LeftBy(StepsOf(Feature))
<1> SUFFICES ASSUME NEW l \in labels, l # <<"conformance-product-submission">>
             PROVE  \E q \in StepsOf(Feature) : l \in Left(q)
  BY LeftByFacts
<1>1. \/ \E i \in 1 .. Len(report) : l \in Left(StepsAt(i))
      \/ Reporting /\ \E j \in 1 .. step - 1 : l \in LabelsOf(StepsAt(row)[j])
  BY DEF SuiteInv, LabelsInv
<1>2. /\ IsSeq(report) /\ Len(report) <= Len(Rows)
      /\ Reporting => /\ row = Len(report) + 1 /\ step \in 1 .. Len(StepsAt(row))
                      /\ Reached(StepsAt(row), step)
  BY DEF SuiteInv, ReportInv
<1>3. Len(report) \in Nat /\ Len(Rows) \in Nat
  BY <1>2, SeqFacts, RowsFacts
<1>4. CASE \E i \in 1 .. Len(report) : l \in Left(StepsAt(i))
  <2>1. PICK i \in 1 .. Len(report) : l \in Left(StepsAt(i))
    BY <1>4
  <2>2. i \in 1 .. Len(Rows)
    BY <1>2, <1>3
  <2> QED
    BY <2>1, <2>2, RowSteps
<1>5. CASE Reporting /\ \E j \in 1 .. step - 1 : l \in LabelsOf(StepsAt(row)[j])
  <2>1. PICK j \in 1 .. step - 1 : l \in LabelsOf(StepsAt(row)[j])
    BY <1>5
  <2>2. row \in 1 .. Len(Rows)
    BY <1>2, <1>3, <1>5 DEF Reporting
  <2>3. StepsAt(row) \in StepsOf(Feature) /\ Len(StepsAt(row)) \in 1 .. 3
    BY <2>2, RowSteps
  <2>4. j \in 1 .. Len(StepsAt(row)) /\ \A m \in 1 .. j - 1 : m \in 1 .. step - 1
    BY <1>2, <1>5, <2>3
  <2>5. Reached(StepsAt(row), j)
    BY <1>2, <1>5, <2>4 DEF Reached
  <2>6. l \in Left(StepsAt(row))
    BY <2>1, <2>4, <2>5 DEF Left
  <2> QED
    BY <2>3, <2>6
<1> QED
  BY <1>1, <1>4, <1>5

\* ... their types, ...
LEMMA TypingReached == ASSUME SuiteInv PROVE TypeOK
<1> DEFINE Alone  == {<<l>> : l \in {"conformance-product-submission", "required-tests-missing",
                       "evidence-missing", "not-verifiable", "release-documents-checked",
                       "unable-to-process"}}
           Filed1 == {"missing-file"} \X Elems(RequiredFiles)
           Dated  == {"tests-verified", "no-failed-tests", "release"} \X DOMAIN TestsOf
           All    == Alone \union Filed1 \union Dated
<1>1. IsSubmission(sub) /\ release \in DOMAIN TestsOf /\ metadata \in {"good", "garbled", "unreadable"}
  BY SubmissionAssumption DEF SuiteInv, InputInv
<1>2. /\ IsSeq(report) /\ Len(report) <= Len(Rows) /\ Len(report) \in Nat
      /\ Len(Rows) \in Nat \ {0} /\ DOMAIN Rows = 1 .. Len(Rows)
  BY RowsFacts, SeqFacts DEF SuiteInv, ReportInv
<1>3. row \in 1 .. Len(Rows) + 1 /\ step \in 1 .. 3
  <2>1. CASE Reporting
    <3>1. row = Len(report) + 1 /\ step \in 1 .. Len(StepsAt(row))
      BY <2>1 DEF SuiteInv, ReportInv
    <3>2. row \in 1 .. Len(Rows)
      BY <1>2, <2>1, <3>1 DEF Reporting
    <3>3. Len(StepsAt(row)) \in 1 .. 3
      BY <3>2, RowSteps
    <3>4. \A m \in 1 .. 3 : 1 .. m \subseteq 1 .. 3
      OBVIOUS
    <3>5. step \in 1 .. 3
      BY <3>1, <3>3, <3>4
    <3> QED
      BY <1>2, <3>2, <3>5
  <2>2. CASE ~Reporting
    BY <2>2 DEF SuiteInv, ReportInv
  <2> QED
    BY <2>1, <2>2
<1>4. labels \subseteq All
  <2>1. /\ <<"conformance-product-submission">> \in Alone /\ <<"required-tests-missing">> \in Alone
        /\ <<"evidence-missing">> \in Alone /\ <<"not-verifiable">> \in Alone
        /\ <<"release-documents-checked">> \in Alone /\ <<"unable-to-process">> \in Alone
    OBVIOUS
  <2>2. /\ <<"tests-verified", release>> \in Dated /\ <<"no-failed-tests", release>> \in Dated
        /\ <<"release", release>> \in Dated
    BY <1>1
  <2>3. {"missing-file"} \X (Elems(RequiredFiles) \ Files) \subseteq Filed1
    OBVIOUS
  <2> HIDE DEF Alone, Filed1, Dated
  <2>4. LeftBy(StepsOf(Feature)) \subseteq All
    <3>1. EvidenceLabels \subseteq All
      BY <2>1, <2>2, EvidenceNames
    <3> QED
      BY <2>3, <3>1, LeftByFeature
  <2>5. CASE ~Done
    BY <2>1, <2>4, <2>5, LabelsOnTheWay
  <2>6. CASE Done /\ Pending
    BY <2>1, <2>6 DEF SuiteInv, VerdictInv, PendingLabels
  <2>7. CASE Done /\ ~Pending
    <3>1. labels = {<<"conformance-product-submission">>, <<"release", release>>,
                    IF prepared = <<>> THEN <<"release-documents-checked">>
                                       ELSE <<"not-verifiable">>}
                   \union LeftBy(StepsOf(Feature))
      BY <2>7 DEF SuiteInv, VerdictInv
    <3> QED
      BY <2>1, <2>2, <2>4, <3>1
  <2> QED
    BY <2>5, <2>6, <2>7
<1>5. names \subseteq {Rows[i].name : i \in DOMAIN Rows}
  <2>1. CASE Reporting
    BY <2>1 DEF SuiteInv, ReportInv
  <2>2. CASE ~Reporting
    <3>1. names = {Rows[i].name : i \in 1 .. row - 1}
      BY <2>2 DEF SuiteInv, SummaryInv
    <3>2. 1 .. row - 1 \subseteq DOMAIN Rows
      BY <1>2, <1>3
    <3> QED
      BY <3>1, <3>2
  <2> QED
    BY <2>1, <2>2
<1>6. verdict.state \in {"none", "success", "failure", "pending"}
  <2>1. CASE ~Done
    BY <2>1 DEF Done, NoVerdict
  <2>2. CASE Done
    BY <2>2 DEF SuiteInv, VerdictInv
  <2> QED
    BY <2>1, <2>2
<1> QED
  BY <1>1, <1>2, <1>3, <1>4, <1>5, <1>6 DEF TypeOK

\* Rows, steps and labels stay what they are throughout the run; no label other
\* than those of the submission's release is ever left.
THEOREM Typing == Spec => []TypeOK
<1>1. SuiteInv => TypeOK
  BY TypingReached
<1> QED
  BY SuiteInvariant, <1>1, PTL

-----------------------------------------------------------------------------
(* The count of the comment *)

\* Every entry has a failing name of its own: entries are told apart by their
\* descriptions, and descriptions agree with names.
LEMMA EntriesCount ==
  ASSUME SuiteInv, Done, ~Pending
  PROVE  LET failing == {Rows[i].name : i \in {k \in DOMAIN report : Failed(k)}}
         IN  /\ IsFiniteSet(names) /\ failing \subseteq names
             /\ Cardinality(failing) = Len(prepared)
<1> DEFINE N == Len(Rows)
           P == Len(prepared)
           failing == {Rows[i].name : i \in {k \in DOMAIN report : Failed(k)}}
<1>1. ~Reporting /\ row - 1 = N /\ DOMAIN report = 1 .. N /\ N \in Nat
  BY AtEnd
<1>2. /\ names = {Rows[i].name : i \in 1 .. N}
      /\ IsSeq(prepared)
      /\ \A k \in 1 .. P : \E i \in 1 .. N : Failed(i) /\ Rows[i].about = prepared[k].about
      /\ \A i \in 1 .. N : Failed(i) => \E k \in 1 .. P : prepared[k].about = Rows[i].about
      /\ \A k, m \in 1 .. P : prepared[k].about = prepared[m].about => k = m
  BY <1>1 DEF SuiteInv, SummaryInv
<1>3. P \in Nat
  BY <1>2, SeqFacts
<1>4. \A i, j \in 1 .. N : Rows[i].name = Rows[j].name <=> Rows[i].about = Rows[j].about
  BY RowsFacts, NamesAgree
<1>5. failing = {Rows[i].name : i \in {k \in 1 .. N : Failed(k)}}
  BY <1>1
<1> HIDE DEF failing, N, P
<1>6. IsFiniteSet(names)
  <2> DEFINE fn == [i \in 1 .. N |-> Rows[i].name]
  <2>1. fn \in Surjection(1 .. N, names)
    BY <1>2 DEF Surjection
  <2>2. IsFiniteSet(1 .. N)
    BY <1>1, FS_Interval
  <2> QED
    BY <2>1, <2>2, FS_Surjection
<1>7. failing \subseteq names
  BY <1>2, <1>5
<1>8. Cardinality(failing) = P
  <2> DEFINE at(k) == CHOOSE i \in 1 .. N : Failed(i) /\ Rows[i].about = prepared[k].about
             own   == [k \in 1 .. P |-> Rows[at(k)].name]
  <2>1. \A k \in 1 .. P : at(k) \in 1 .. N /\ Failed(at(k)) /\ Rows[at(k)].about = prepared[k].about
    BY <1>2
  <2> HIDE DEF at
  <2>2. \A k \in 1 .. P : Rows[at(k)].name \in failing
    BY <1>5, <2>1
  <2>3. \A k, m \in 1 .. P : Rows[at(k)].name = Rows[at(m)].name => k = m
    BY <1>2, <1>4, <2>1
  <2>4. \A n \in failing : \E k \in 1 .. P : Rows[at(k)].name = n
    <3> SUFFICES ASSUME NEW i \in 1 .. N, Failed(i)
                 PROVE  \E k \in 1 .. P : Rows[at(k)].name = Rows[i].name
      BY <1>5
    <3>1. PICK k \in 1 .. P : prepared[k].about = Rows[i].about
      BY <1>2
    <3> QED
      BY <1>4, <2>1, <3>1
  <2>5. /\ own \in [1 .. P -> failing]
        /\ \A k \in 1 .. P : own[k] = Rows[at(k)].name
    BY <2>2
  <2> HIDE DEF own
  <2>6. own \in Bijection(1 .. P, failing)
    <3>1. own \in Injection(1 .. P, failing)
      <4>1. \A k, m \in 1 .. P : own[k] = own[m] => k = m
        BY <2>3, <2>5
      <4> QED
        BY <2>5, <4>1 DEF Injection, IsInjective
    <3>2. own \in Surjection(1 .. P, failing)
      <4>1. \A n \in failing : \E k \in 1 .. P : own[k] = n
        BY <2>4, <2>5
      <4> QED
        BY <2>5, <4>1 DEF Surjection
    <3> QED
      BY <3>1, <3>2 DEF Bijection
  <2>7. IsFiniteSet(1 .. P) /\ Cardinality(1 .. P) = P
    BY <1>3, FS_Interval
  <2>8. ExistsBijection(1 .. P, failing)
    BY <2>6 DEF ExistsBijection
  <2> QED
    BY <2>7, <2>8, FS_Bijection
<1> QED
  BY <1>6, <1>7, <1>8 DEF failing, P

\* ... and a count that is right.
LEMMA CountReached == ASSUME SuiteInv PROVE CountIsRight
<1> DEFINE failing == {Rows[i].name : i \in {k \in DOMAIN report : Failed(k)}}
<1> SUFFICES ASSUME Done, ~Pending
             PROVE  verdict.passed = Cardinality(names \ failing)
  BY DEF CountIsRight
<1>1. IsFiniteSet(names) /\ failing \subseteq names /\ Cardinality(failing) = Len(prepared)
  BY EntriesCount
<1>2. verdict.passed = Cardinality(names) - Len(prepared)
  BY DEF SuiteInv, VerdictInv
<1> HIDE DEF failing
<1>3. names \intersect failing = failing
  BY <1>1
<1>4. Cardinality(names \ failing) = Cardinality(names) - Cardinality(failing)
  <2>1. Cardinality(names \ failing) = Cardinality(names) - Cardinality(names \intersect failing)
    BY <1>1, FS_Difference
  <2> QED
    BY <1>3, <2>1
<1>5. Cardinality(names) - Cardinality(failing) = Cardinality(names) - Len(prepared)
  BY <1>1
<1> QED
  BY <1>2, <1>4, <1>5

\* The number of requirements passed in the comment counts the scenarios none of
\* whose elements failed, in however many directories the feature is found.
THEOREM Count == Spec => []CountIsRight
<1>1. SuiteInv => CountIsRight
  BY CountReached
<1> QED
  BY SuiteInvariant, <1>1, PTL

-----------------------------------------------------------------------------
(* The hints of the comment *)

\* Entry(a, k) finds the entry of a from that entry on.
LEMMA EntryIsLast ==
  ASSUME SuiteInv, Summarise, HintsInv, Entry(Rows[row].about, Len(prepared))
  PROVE  /\ Len(prepared) \in Nat \ {0}
         /\ prepared[Len(prepared)].about = Rows[row].about
         /\ \A k \in 1 .. Len(prepared) : Entry(Rows[row].about, k) <=> k = Len(prepared)
<1> DEFINE a == Rows[row].about
           P == Len(prepared)
<1>1. ~Reporting /\ row \in row .. Len(Rows)
  <2>1. ~Reporting /\ row \in 1 .. Len(Rows) /\ row \in Nat /\ Len(Rows) \in Nat
    BY SummarisingFacts, RowsFacts
  <2> QED
    BY <2>1
<1>2. P \in Nat
  BY <1>1, SeqFacts DEF SuiteInv, SummaryInv
<1>3. \A k \in 1 .. P - 1 : prepared[k].about # a
  BY <1>1 DEF HintsInv
<1>4. PICK j \in 1 .. P : prepared[j].about = a
  BY DEF Entry
<1> HIDE DEF a, P
<1>5. j = P /\ P > 0
  BY <1>2, <1>3, <1>4
<1>6. \A k \in 1 .. P : Entry(a, k) <=> k = P
  <2> SUFFICES ASSUME NEW k \in 1 .. P PROVE Entry(a, k) <=> k = P
    OBVIOUS
  <2>1. CASE k = P
    BY <1>4, <2>1 DEF Entry
  <2>2. CASE k # P
    <3>1. \A m \in 1 .. k : m \in 1 .. P - 1
      BY <1>2, <2>2
    <3>2. \A m \in 1 .. k : prepared[m].about # a
      BY <1>3, <3>1
    <3>3. ~Entry(a, k)
      BY <3>2 DEF Entry
    <3> QED
      BY <2>2, <3>3
  <2> QED
    BY <2>1, <2>2
<1> QED
  BY <1>2, <1>4, <1>5, <1>6 DEF a, P

\* A list with one hint more, and each still once.
LEMMA ListOneMore ==
  ASSUME NEW s, NEW S, NEW h, Lists(s, S), h \notin S
  PROVE  Lists(Append(s, h), S \union {h})
<1> DEFINE t == Append(s, h)
<1>1. /\ IsSeq(t) /\ Len(t) = Len(s) + 1 /\ Len(s) \in Nat
      /\ \A i \in 1 .. Len(s) : t[i] = s[i] /\ s[i] \in S
      /\ t[Len(s) + 1] = h
      /\ Elems(t) = S \union {h}
  BY Appended, SeqFacts DEF Lists
<1> HIDE DEF t
<1>2. 1 .. Len(t) = (1 .. Len(s)) \union {Len(s) + 1}
  BY <1>1
<1>3. ASSUME NEW m \in 1 .. Len(t), NEW n \in 1 .. Len(t), t[m] = t[n] PROVE m = n
  <2>1. \A i, j \in 1 .. Len(s) : s[i] = s[j] => i = j
    BY DEF Lists
  <2>2. CASE m \in 1 .. Len(s) /\ n \in 1 .. Len(s)
    BY <1>1, <1>3, <2>1, <2>2
  <2>3. CASE m \in 1 .. Len(s) /\ n = Len(s) + 1
    <3>1. t[m] \in S /\ t[n] = h
      BY <1>1, <2>3
    <3> QED
      BY <1>3, <3>1
  <2>4. CASE m = Len(s) + 1 /\ n \in 1 .. Len(s)
    <3>1. t[n] \in S /\ t[m] = h
      BY <1>1, <2>4
    <3> QED
      BY <1>3, <3>1
  <2> QED
    BY <1>2, <2>2, <2>3, <2>4
<1> QED
  BY <1>1, <1>3 DEF Lists, t

\* A list of one hint.
LEMMA ListOne == ASSUME NEW h PROVE Lists(<<h>>, {h})
<1>1. Lists(<<>>, {})
  BY EmptyFacts DEF Lists
<1>2. Append(<<>>, h) = <<h>>
  OBVIOUS
<1>3. Lists(Append(<<>>, h), {} \union {h})
  BY <1>1, ListOneMore
<1> QED
  BY <1>2, <1>3

\* HintsInv, for a round of the summary, when scenarios come in groups.
LEMMA SummariseHints ==
  ASSUME SuiteInv, Summarise, HintsInv, Grouped(Rows)
  PROVE  HintsInv'
<1> DEFINE a == Rows[row].about
           h == report[row]
           P == Len(prepared)
           Q == Len(prepared')
<1>1. /\ ~Reporting /\ row \in Nat \ {0} /\ row \in 1 .. Len(Rows) /\ row' = row + 1
      /\ report' = report /\ row' - 1 = row
      /\ 1 .. row = (1 .. row - 1) \union {row} /\ row \notin 1 .. row - 1
      /\ Len(Rows) \in Nat
  BY SummarisingFacts, RowsFacts
<1>2. /\ IsSeq(prepared)
      /\ \A k \in 1 .. P :
           prepared[k] = [about |-> prepared[k].about, hints |-> prepared[k].hints]
      /\ \A k \in 1 .. P :
           \E i \in 1 .. row - 1 : Failed(i) /\ Rows[i].about = prepared[k].about
      /\ \A i \in 1 .. row - 1 : Failed(i) =>
           \E k \in 1 .. P : prepared[k].about = Rows[i].about
  BY <1>1 DEF SuiteInv, SummaryInv
<1>3. /\ \A k \in 1 .. P : Lists(prepared[k].hints, HintsOf(prepared[k].about, row - 1))
      /\ \A k \in 1 .. P - 1 : \A i \in row .. Len(Rows) : Rows[i].about # prepared[k].about
  BY <1>1 DEF HintsInv
<1>4. P \in Nat
  BY <1>2, SeqFacts
<1>5. /\ Failed(row) => HintsOf(a, row) = HintsOf(a, row - 1) \union {h}
      /\ ~Failed(row) => \A b : HintsOf(b, row) = HintsOf(b, row - 1)
      /\ \A b : b # a => HintsOf(b, row) = HintsOf(b, row - 1)
  BY <1>1 DEF HintsOf
<1>6. ASSUME \A k \in 1 .. Q : Lists(prepared'[k].hints, HintsOf(prepared'[k].about, row)),
             \A k \in 1 .. Q - 1 : \A i \in row + 1 .. Len(Rows) : Rows[i].about # prepared'[k].about
      PROVE  HintsInv'
  <2> DEFINE H(b) == {report'[i] : i \in {j \in 1 .. row' - 1 : report'[j][1] = "failed" /\ Rows[j].about = b}}
  <2>1. \A b : HintsOf(b, row) = H(b)
    BY <1>1 DEF HintsOf, Failed
  <2>2. \A b : HintsOf(b, row - 1)' = H(b)
    BY DEF HintsOf, Failed
  <2> HIDE DEF H
  <2>3. \A k \in 1 .. Q : Lists(prepared'[k].hints, H(prepared'[k].about))
    BY <1>6, <2>1
  <2>4. \A k \in 1 .. Q - 1 : \A i \in row' .. Len(Rows) : Rows[i].about # prepared'[k].about
    BY <1>1, <1>6
  <2>5. ~Pending'
    BY SummarisingFacts, Frozen DEF Summarise
  <2> QED
    BY <2>3, <2>4, <2>5 DEF HintsInv, H, HintsOf, Failed
<1>7. CASE ~Failed(row)
  <2>1. prepared' = prepared
    BY <1>7 DEF Summarise
  <2>2. ASSUME NEW k \in 1 .. P
        PROVE  Lists(prepared[k].hints, HintsOf(prepared[k].about, row))
    <3>1. HintsOf(prepared[k].about, row) = HintsOf(prepared[k].about, row - 1)
      BY <1>5, <1>7
    <3> QED
      BY <1>3, <3>1
  <2>3. \A k \in 1 .. P - 1 : \A i \in row + 1 .. Len(Rows) : Rows[i].about # prepared[k].about
    BY <1>1, <1>3
  <2>4. \A k \in 1 .. Q : Lists(prepared'[k].hints, HintsOf(prepared'[k].about, row))
    BY <2>1, <2>2
  <2>5. \A k \in 1 .. Q - 1 :
          \A i \in row + 1 .. Len(Rows) : Rows[i].about # prepared'[k].about
    BY <2>1, <2>3
  <2> QED
    BY <1>6, <2>4, <2>5
<1>8. CASE Failed(row) /\ Entry(a, P)
  <2>1. prepared' = Filed(h, a)
    BY <1>8 DEF Summarise
  <2>2. /\ P # 0 /\ prepared[P].about = a
        /\ \A k \in 1 .. P : Entry(a, k) <=> k = P
    BY <1>8, EntryIsLast
  <2>3. /\ Q = P
        /\ \A k \in 1 .. P :
             prepared'[k] =
               [about |-> prepared[k].about,
                hints |-> IF Entry(a, k) /\ h \notin Elems(prepared[k].hints)
                          THEN Append(prepared[k].hints, h) ELSE prepared[k].hints]
    <3> HIDE DEF a, h
    <3>1. IsSeq(prepared) /\ \A k \in 1 .. Len(prepared) :
            prepared[k] = [about |-> prepared[k].about, hints |-> prepared[k].hints]
      BY <1>2
    <3>2. /\ Len(Filed(h, a)) = Len(prepared)
          /\ \A k \in 1 .. Len(prepared) :
               Filed(h, a)[k] =
                 [about |-> prepared[k].about,
                  hints |-> IF Entry(a, k) /\ h \notin Elems(prepared[k].hints)
                            THEN Append(prepared[k].hints, h) ELSE prepared[k].hints]
      BY <3>1, FiledFacts
    <3> QED
      BY <2>1, <3>2
  <2>4. \A k \in 1 .. P :
          /\ prepared'[k].about = prepared[k].about
          /\ k # P \/ h \in Elems(prepared[k].hints) => prepared'[k].hints = prepared[k].hints
          /\ k = P /\ h \notin Elems(prepared[k].hints) =>
               prepared'[k].hints = Append(prepared[k].hints, h)
    <3> HIDE DEF a, h, P
    <3> QED
      BY <2>2, <2>3
  <2>5. ASSUME NEW k \in 1 .. P
        PROVE  Lists(prepared'[k].hints, HintsOf(prepared'[k].about, row))
    <3> HIDE DEF a, h, P
    <3>1. Lists(prepared[k].hints, HintsOf(prepared[k].about, row - 1))
      BY <1>3
    <3>2. CASE k # P
      <4>1. prepared[k].about # a
        <5>1. k \in 1 .. P - 1 /\ row \in row .. Len(Rows)
          BY <1>1, <1>4, <3>2
        <5> QED
          BY <1>3, <5>1 DEF a
      <4> QED
        BY <1>5, <2>4, <3>1, <3>2, <4>1
    <3>3. CASE k = P /\ h \in Elems(prepared[k].hints)
      <4>1. h \in HintsOf(a, row - 1)
        BY <2>2, <3>1, <3>3 DEF Lists
      <4>2. HintsOf(a, row) = HintsOf(a, row - 1)
        BY <1>5, <1>8, <4>1
      <4> QED
        BY <2>2, <2>4, <3>1, <3>3, <4>2
    <3>4. CASE k = P /\ h \notin Elems(prepared[k].hints)
      <4>1. h \notin HintsOf(a, row - 1)
        BY <2>2, <3>1, <3>4 DEF Lists
      <4>2. Lists(Append(prepared[k].hints, h), HintsOf(a, row - 1) \union {h})
        BY <2>2, <3>1, <3>4, <4>1, ListOneMore
      <4> QED
        BY <1>5, <1>8, <2>2, <2>4, <3>4, <4>2
    <3> QED
      BY <3>2, <3>3, <3>4
  <2>6. ASSUME NEW k \in 1 .. P - 1, NEW i \in row + 1 .. Len(Rows)
        PROVE  Rows[i].about # prepared'[k].about
    <3>1. k \in 1 .. P /\ i \in row .. Len(Rows)
      BY <1>1, <1>4
    <3> QED
      BY <1>3, <2>4, <3>1
  <2>7. /\ \A k \in 1 .. Q : Lists(prepared'[k].hints, HintsOf(prepared'[k].about, row))
        /\ \A k \in 1 .. Q - 1 : \A i \in row + 1 .. Len(Rows) : Rows[i].about # prepared'[k].about
    BY <2>3, <2>5, <2>6
  <2> QED
    BY <1>6, <2>7
<1>9. CASE Failed(row) /\ ~Entry(a, P)
  <2> DEFINE e == [about |-> a, hints |-> <<h>>]
  <2>1. prepared' = Append(prepared, e)
    BY <1>9 DEF Summarise
  <2>2. e.about = a /\ e.hints = <<h>>
    OBVIOUS
  <2> HIDE DEF e
  <2>3. /\ Q = P + 1
        /\ \A k \in 1 .. P : prepared'[k] = prepared[k]
        /\ prepared'[P + 1] = e
    BY <1>2, <2>1, Appended
  <2>4. \A k \in 1 .. P : prepared[k].about # a
    BY <1>9 DEF Entry
  <2>5. HintsOf(a, row) = {h}
    <3>1. \A i \in 1 .. row - 1 : ~(Failed(i) /\ Rows[i].about = a)
      BY <1>2, <2>4
    <3>2. HintsOf(a, row - 1) = {}
      BY <3>1 DEF HintsOf
    <3> QED
      BY <1>5, <1>9, <3>2
  <2>6. \A k \in 1 .. P : Lists(prepared'[k].hints, HintsOf(prepared'[k].about, row))
    BY <1>3, <1>5, <2>3, <2>4
  <2>7. Lists(prepared'[P + 1].hints, HintsOf(prepared'[P + 1].about, row))
    <3> HIDE DEF a, h
    <3> QED
      BY <2>2, <2>3, <2>5, ListOne
  <2>8. ASSUME NEW k \in 1 .. P, NEW i \in row + 1 .. Len(Rows)
        PROVE  Rows[i].about # prepared'[k].about
    <3>1. PICK m \in 1 .. row - 1 : Rows[m].about = prepared[k].about
      BY <1>2
    <3>2. m \in DOMAIN Rows /\ row \in DOMAIN Rows /\ i \in DOMAIN Rows /\ m <= row /\ row <= i
      BY <1>1, RowsFacts
    <3>3. Rows[m].about = Rows[i].about => Rows[row].about = Rows[m].about
      BY <3>2 DEF Grouped
    <3> QED
      BY <2>3, <2>4, <3>1, <3>3
  <2>9. /\ \A k \in 1 .. Q : Lists(prepared'[k].hints, HintsOf(prepared'[k].about, row))
        /\ \A k \in 1 .. Q - 1 : \A i \in row + 1 .. Len(Rows) : Rows[i].about # prepared'[k].about
    <3>1. 1 .. Q = (1 .. P) \union {P + 1} /\ Q - 1 = P
      BY <1>4, <2>3
    <3> HIDE DEF Q
    <3> QED
      BY <2>6, <2>7, <2>8, <3>1
  <2> QED
    BY <1>6, <2>9
<1> QED
  BY <1>7, <1>8, <1>9

\* HintsInv, for the other steps: they file nothing.
LEMMA OthersKeepHints ==
  ASSUME SuiteInv, HintsInv, RunStep \/ Postpone \/ Conclude \/ UNCHANGED vars
  PROVE  HintsInv'
<1>1. CASE RunStep
  <2>1. prepared' = <<>>
    <3>1. Reporting /\ prepared' = prepared
      BY <1>1 DEF RunStep, Running, Reporting
    <3> QED
      BY <3>1 DEF SuiteInv, ReportInv
  <2>2. /\ \A k \in 1 .. Len(prepared') : FALSE
        /\ \A k \in 1 .. Len(prepared') - 1 : FALSE
    BY <2>1, EmptyFacts
  <2> QED
    BY <2>1, <2>2 DEF HintsInv
<1>2. CASE Postpone \/ Conclude \/ UNCHANGED vars
  <2>1. UNCHANGED <<sub, release, metadata, row, report, prepared>>
    BY <1>2 DEF Postpone, Conclude, vars
  <2>2. Pending' = Pending
    BY <2>1, Frozen
  <2>3. Reporting' = Reporting
    BY <2>1 DEF Reporting
  <2> DEFINE H(b) == {report[i] : i \in {j \in 1 .. row - 1 : report[j][1] = "failed" /\ Rows[j].about = b}}
  <2>4. \A b : HintsOf(b, row - 1) = H(b)
    BY DEF HintsOf, Failed
  <2>5. \A b : HintsOf(b, row - 1)' = H(b)
    BY <2>1 DEF HintsOf, Failed
  <2> HIDE DEF H
  <2>6. ~Reporting =>
          /\ \A k \in 1 .. Len(prepared) : Lists(prepared[k].hints, H(prepared[k].about))
          /\ \A k \in 1 .. Len(prepared) - 1 : \A i \in row .. Len(Rows) :
               Rows[i].about # prepared[k].about
    BY <2>4 DEF HintsInv
  <2>7. ~Reporting' =>
          /\ \A k \in 1 .. Len(prepared') : Lists(prepared'[k].hints, HintsOf(prepared[k].about, row - 1)')
          /\ \A k \in 1 .. Len(prepared') - 1 : \A i \in row' .. Len(Rows) :
               Rows[i].about # prepared'[k].about
    BY <2>1, <2>3, <2>5, <2>6
  <2>8. Pending' => prepared' = <<>>
    BY <2>1, <2>2 DEF HintsInv
  <2> QED
    BY <2>7, <2>8 DEF HintsInv
<1> QED
  BY <1>1, <1>2

\* At the verdict each entry lists the hints of its own scenario.
LEMMA HintsReached ==
  ASSUME SuiteInv, HintsInv
  PROVE  HintsInPlace
<1> SUFFICES ASSUME Done, NEW k \in DOMAIN prepared
             PROVE  /\ Elems(prepared[k].hints) =
                         {report[i] : i \in {j \in DOMAIN report :
                                               Failed(j) /\ Rows[j].about = prepared[k].about}}
                    /\ Len(prepared[k].hints) = Cardinality(Elems(prepared[k].hints))
  BY DEF HintsInPlace
<1>1. ~Pending
  <2>1. DOMAIN <<>> = {}
    OBVIOUS
  <2> QED
    BY <2>1 DEF HintsInv
<1>2. ~Reporting /\ row - 1 = Len(Rows) /\ DOMAIN report = 1 .. Len(Rows)
  BY <1>1, AtEnd
<1>3. k \in 1 .. Len(prepared)
  BY <1>2, SeqFacts DEF SuiteInv, SummaryInv
<1>4. Lists(prepared[k].hints, HintsOf(prepared[k].about, Len(Rows)))
  BY <1>2, <1>3 DEF HintsInv
<1>5. Elems(prepared[k].hints) = HintsOf(prepared[k].about, Len(Rows))
  BY <1>4 DEF Lists
<1>6. Len(prepared[k].hints) = Cardinality(Elems(prepared[k].hints))
  <2> DEFINE s  == prepared[k].hints
             n  == Len(s)
             fn == [m \in 1 .. n |-> s[m]]
  <2>1. /\ IsSeq(s) /\ n \in Nat
        /\ \A m \in 1 .. n : s[m] \in Elems(s)
        /\ \A e \in Elems(s) : \E m \in 1 .. n : e = s[m]
        /\ \A m, j \in 1 .. n : s[m] = s[j] => m = j
    BY <1>4, SeqFacts DEF Lists
  <2> HIDE DEF s, n
  <2>2. fn \in [1 .. n -> Elems(s)] /\ \A m \in 1 .. n : fn[m] = s[m]
    BY <2>1
  <2> HIDE DEF fn
  <2>3. \A m, j \in 1 .. n : fn[m] = fn[j] => m = j
    BY <2>1, <2>2
  <2>4. \A e \in Elems(s) : \E m \in 1 .. n : fn[m] = e
    BY <2>1, <2>2
  <2>5. fn \in Injection(1 .. n, Elems(s))
    BY <2>2, <2>3 DEF Injection, IsInjective
  <2>6. fn \in Surjection(1 .. n, Elems(s))
    BY <2>2, <2>4 DEF Surjection
  <2>7. ExistsBijection(1 .. n, Elems(s))
    BY <2>5, <2>6 DEF Bijection, ExistsBijection
  <2>8. IsFiniteSet(1 .. n) /\ Cardinality(1 .. n) = n
    BY <2>1, FS_Interval
  <2>9. Cardinality(Elems(s)) = n
    BY <2>7, <2>8, FS_Bijection
  <2> QED
    BY <2>9 DEF s, n
<1> QED
  BY <1>2, <1>5, <1>6 DEF HintsOf

\* With the feature in one directory, the comment lists a scenario with exactly
\* the hints of its own elements that failed, each of them once.  With more of
\* them a scenario comes again, and the entries after its own take its hints too.
THEOREM Hints == ASSUME Paths = 1 PROVE Spec => []HintsInPlace
<1>1. Grouped(Rows)
  BY RowsFacts
<1>2. Init => HintsInv
  <2> SUFFICES ASSUME Init PROVE HintsInv
    OBVIOUS
  <2>1. prepared = <<>> /\ Reporting
    BY EmptyFacts, RowsFacts DEF Init, Reporting
  <2> QED
    BY <2>1 DEF HintsInv
<1>3. SuiteInv /\ HintsInv /\ [Next]_vars => HintsInv'
  BY <1>1, SummariseHints, OthersKeepHints DEF Next
<1>4. SuiteInv /\ HintsInv => HintsInPlace
  BY HintsReached
<1> QED
  BY SuiteInvariant, <1>2, <1>3, <1>4, PTL DEF Spec

=============================================================================
