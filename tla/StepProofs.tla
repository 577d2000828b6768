------------------------------ MODULE StepProofs ------------------------------
(***************************************************************************)
(* What the steps of Suite say of a submission: which elements of the      *)
(* report fail, and the labels they leave behind, whenever they run.       *)
(***************************************************************************)
EXTENDS FeatureProofs, FiniteSetTheorems

-----------------------------------------------------------------------------
(* What an element comes to, apart from when it runs: q is its sequence of   *)
(* steps.                                                                    *)

Reached(q, k) == \A j \in 1 .. k - 1 : Result(q[j]) = Passed

\* r is the result of the step that decides on the element
Decides(q, r) ==
  \E k \in 1 .. Len(q) :
    Reached(q, k) /\ r = Result(q[k]) /\ (r # Passed \/ k = Len(q))

IsFailure(r) == r[1] = "failed"

Fails(q) == \E k \in 1 .. Len(q) : Reached(q, k) /\ IsFailure(Result(q[k]))

\* the labels it leaves
Left(q) == UNION {LabelsOf(q[k]) : k \in {j \in 1 .. Len(q) : Reached(q, j)}}

\* Passed, undefined and failed are three different results.
LEMMA Verdicts ==
  /\ ~IsFailure(Passed) /\ ~IsFailure(Undefined) /\ Undefined # Passed
  /\ \A t, a : IsFailure(Hint(t, a)) /\ Hint(t, a) # Passed
  BY DEF IsFailure, Passed, Undefined, Hint

\* A step fails exactly if it has something to say.
LEMMA UnlessFacts ==
  ASSUME NEW bad \in BOOLEAN, NEW t, NEW a
  PROVE  /\ IsFailure(Unless(bad, t, a)) <=> bad
         /\ Unless(bad, t, a) = Passed <=> ~bad
  BY Verdicts DEF Unless

\* The result that decides on an element is a failure exactly if some step fails.
LEMMA DecidedOnce ==
  ASSUME NEW q, Len(q) \in Nat, NEW r, Decides(q, r)
  PROVE  IsFailure(r) <=> Fails(q)
<1>1. PICK k \in 1 .. Len(q) : Reached(q, k) /\ r = Result(q[k]) /\ (r # Passed \/ k = Len(q))
  BY DEF Decides
<1>2. ASSUME IsFailure(r) PROVE Fails(q)
  BY <1>1, <1>2 DEF Fails
<1>3. ASSUME Fails(q) PROVE IsFailure(r)
  <2>1. PICK m \in 1 .. Len(q) : Reached(q, m) /\ IsFailure(Result(q[m]))
    BY <1>3 DEF Fails
  <2>2. CASE m < k
    <3>1. m \in 1 .. k - 1
      BY <2>2
    <3>2. Result(q[m]) = Passed
      BY <1>1, <3>1 DEF Reached
    <3> QED
      BY <2>1, <3>2, Verdicts
  <2>3. CASE k < m
    <3>1. k \in 1 .. m - 1
      BY <2>3
    <3>2. Result(q[k]) = Passed
      BY <2>1, <3>1 DEF Reached
    <3> QED
      BY <1>1, <2>3, <3>2
  <2>4. CASE m = k
    BY <1>1, <2>1, <2>4
  <2> QED
    BY <2>2, <2>3, <2>4
<1> QED
  BY <1>2, <1>3

\* What two steps come to: the second one runs if the first one passes.
LEMMA TwoSteps ==
  ASSUME NEW a, NEW b
  PROVE  /\ Fails(<<a, b>>) <=> \/ IsFailure(Result(a))
                                \/ Result(a) = Passed /\ IsFailure(Result(b))
         /\ Result(a) # Passed \/ LabelsOf(b) = {} => Left(<<a, b>>) = LabelsOf(a)
         /\ Result(a) = Passed /\ LabelsOf(a) = {} => Left(<<a, b>>) = LabelsOf(b)
<1> DEFINE q == <<a, b>>
<1>1. Len(q) = 2 /\ q[1] = a /\ q[2] = b /\ 1 .. 2 = {1, 2}
  OBVIOUS
<1> HIDE DEF q
<1>2. Reached(q, 1)
  BY DEF Reached
<1>3. Reached(q, 2) <=> Result(a) = Passed
  BY <1>1 DEF Reached
<1>4. Fails(q) <=> IsFailure(Result(a)) \/ (Result(a) = Passed /\ IsFailure(Result(b)))
  BY <1>1, <1>2, <1>3 DEF Fails
<1>5. Left(q) = LabelsOf(a) \union (IF Result(a) = Passed THEN LabelsOf(b) ELSE {})
  <2>1. CASE Result(a) = Passed
    <3>1. {j \in 1 .. Len(q) : Reached(q, j)} = {1, 2}
      BY <1>1, <1>2, <1>3, <2>1
    <3>2. Left(q) = LabelsOf(a) \union LabelsOf(b)
      BY <1>1, <3>1 DEF Left
    <3> QED
      BY <2>1, <3>2
  <2>2. CASE Result(a) # Passed
    <3>1. {j \in 1 .. Len(q) : Reached(q, j)} = {1}
      BY <1>1, <1>2, <1>3, <2>2
    <3>2. Left(q) = LabelsOf(a)
      BY <1>1, <3>1 DEF Left
    <3> QED
      BY <2>2, <3>2
  <2> QED
    BY <2>1, <2>2
<1>6. Result(a) # Passed \/ LabelsOf(b) = {} => Left(q) = LabelsOf(a)
  BY <1>5
<1>7. Result(a) = Passed /\ LabelsOf(a) = {} => Left(q) = LabelsOf(b)
  BY <1>5
<1> QED
  BY <1>4, <1>6, <1>7 DEF q

\* What three steps come to.
LEMMA ThreeSteps ==
  ASSUME NEW a, NEW b, NEW c
  PROVE  /\ Fails(<<a, b, c>>) <=>
              \/ IsFailure(Result(a))
              \/ Result(a) = Passed /\ IsFailure(Result(b))
              \/ Result(a) = Passed /\ Result(b) = Passed /\ IsFailure(Result(c))
         /\ LabelsOf(c) = {} =>
              /\ Result(a) # Passed \/ LabelsOf(b) = {} => Left(<<a, b, c>>) = LabelsOf(a)
              /\ Result(a) = Passed /\ LabelsOf(a) = {} => Left(<<a, b, c>>) = LabelsOf(b)
<1> DEFINE q == <<a, b, c>>
<1>1. Len(q) = 3 /\ q[1] = a /\ q[2] = b /\ q[3] = c /\ 1 .. 3 = {1, 2, 3}
  OBVIOUS
<1> HIDE DEF q
<1>2. Reached(q, 1)
  BY DEF Reached
<1>3. Reached(q, 2) <=> Result(a) = Passed
  BY <1>1 DEF Reached
<1>4. Reached(q, 3) <=> Result(a) = Passed /\ Result(b) = Passed
  <2>1. 1 .. 3 - 1 = {1, 2}
    OBVIOUS
  <2> QED
    BY <1>1, <2>1 DEF Reached
<1>5. Fails(q) <=> \/ IsFailure(Result(a))
                   \/ Result(a) = Passed /\ IsFailure(Result(b))
                   \/ Result(a) = Passed /\ Result(b) = Passed /\ IsFailure(Result(c))
  BY <1>1, <1>2, <1>3, <1>4 DEF Fails
<1>6. ASSUME LabelsOf(c) = {}
      PROVE  Left(q) = LabelsOf(a) \union (IF Result(a) = Passed THEN LabelsOf(b) ELSE {})
  <2>1. CASE Result(a) = Passed /\ Result(b) = Passed
    <3>1. {j \in 1 .. Len(q) : Reached(q, j)} = {1, 2, 3}
      BY <1>1, <1>2, <1>3, <1>4, <2>1
    <3>2. Left(q) = LabelsOf(a) \union LabelsOf(b)
      BY <1>1, <1>6, <3>1 DEF Left
    <3> QED
      BY <2>1, <3>2
  <2>2. CASE Result(a) = Passed /\ Result(b) # Passed
    <3>1. {j \in 1 .. Len(q) : Reached(q, j)} = {1, 2}
      BY <1>1, <1>2, <1>3, <1>4, <2>2
    <3>2. Left(q) = LabelsOf(a) \union LabelsOf(b)
      BY <1>1, <3>1 DEF Left
    <3> QED
      BY <2>2, <3>2
  <2>3. CASE Result(a) # Passed
    <3>1. {j \in 1 .. Len(q) : Reached(q, j)} = {1}
      BY <1>1, <1>2, <1>3, <1>4, <2>3
    <3>2. Left(q) = LabelsOf(a)
      BY <1>1, <3>1 DEF Left
    <3> QED
      BY <2>3, <3>2
  <2> QED
    BY <2>1, <2>2, <2>3
<1>7. ASSUME LabelsOf(c) = {}, Result(a) # Passed \/ LabelsOf(b) = {} PROVE Left(q) = LabelsOf(a)
  BY <1>6, <1>7
<1>8. ASSUME LabelsOf(c) = {}, Result(a) = Passed, LabelsOf(a) = {} PROVE Left(q) = LabelsOf(b)
  BY <1>6, <1>8
<1> QED
  BY <1>5, <1>7, <1>8 DEF q

-----------------------------------------------------------------------------
(* What each step says *)

\* s fails if bad, and passes otherwise
Says(s, bad) == (IsFailure(Result(s)) <=> bad) /\ (Result(s) = Passed <=> ~bad)

\* When the steps on files and folders fail.
LEMMA FileSays ==
  ASSUME NEW f
  PROVE  /\ Says(Do("the-files-in-the-PR"), Files = {})
         /\ Says(DoOn("is-included", f), f \notin Files)
         /\ Says(DoOn("is-not-empty", f), f \in sub.blank)
         /\ Says(DoOn("a-file", f), f \notin Files)
         /\ Says(Do("the-files-are-only"),
                 ~ Files \subseteq Elems(RequiredFiles) \/ sub.miscased # {})
         /\ Says(Do("folder-structure"), ~ Folders \subseteq WellFormed)
         /\ Says(Do("only-one-path"), Cardinality(Folders) # 1)
<1>1. Says(Do("the-files-in-the-PR"), Files = {})
  <2> DEFINE s == Do("the-files-in-the-PR")
  <2>1. s.does = "the-files-in-the-PR"
    BY DEF Do
  <2> HIDE DEF s
  <2>2. Result(s) = FileResult(s)
    BY <2>1 DEF Result, FileSteps, ProductSteps, TestSteps, CommitSteps
  <2>3. /\ Files = {} => IsFailure(FileResult(s))
        /\ ~(Files = {}) => FileResult(s) = Passed
    BY <2>1, Verdicts DEF FileResult, Unless
  <2> QED
    BY <2>1, <2>2, <2>3, Verdicts DEF Says, s
<1>2. Says(DoOn("is-included", f), f \notin Files)
  <2> DEFINE s == DoOn("is-included", f)
  <2>1. s.does = "is-included" /\ s.with = f
    BY DEF DoOn
  <2> HIDE DEF s
  <2>2. Result(s) = FileResult(s)
    BY <2>1 DEF Result, FileSteps, ProductSteps, TestSteps, CommitSteps
  <2>3. /\ s.with \notin Files => IsFailure(FileResult(s))
        /\ ~(s.with \notin Files) => FileResult(s) = Passed
    BY <2>1, Verdicts DEF FileResult, Unless
  <2> QED
    BY <2>1, <2>2, <2>3, Verdicts DEF Says, s
<1>3. Says(DoOn("is-not-empty", f), f \in sub.blank)
  <2> DEFINE s == DoOn("is-not-empty", f)
  <2>1. s.does = "is-not-empty" /\ s.with = f
    BY DEF DoOn
  <2> HIDE DEF s
  <2>2. Result(s) = FileResult(s)
    BY <2>1 DEF Result, FileSteps, ProductSteps, TestSteps, CommitSteps
  <2>3. /\ s.with \in sub.blank => IsFailure(FileResult(s))
        /\ ~(s.with \in sub.blank) => FileResult(s) = Passed
    BY <2>1, Verdicts DEF FileResult, Unless
  <2> QED
    BY <2>1, <2>2, <2>3, Verdicts DEF Says, s
<1>4. Says(DoOn("a-file", f), f \notin Files)
  <2> DEFINE s == DoOn("a-file", f)
  <2>1. s.does = "a-file" /\ s.with = f
    BY DEF DoOn
  <2> HIDE DEF s
  <2>2. Result(s) = FileResult(s)
    BY <2>1 DEF Result, FileSteps, ProductSteps, TestSteps, CommitSteps
  <2>3. /\ s.with \notin Files => IsFailure(FileResult(s))
        /\ ~(s.with \notin Files) => FileResult(s) = Passed
    BY <2>1, Verdicts DEF FileResult, Unless
  <2> QED
    BY <2>1, <2>2, <2>3, Verdicts DEF Says, s
<1>5. Says(Do("the-files-are-only"), ~ Files \subseteq Elems(RequiredFiles) \/ sub.miscased # {})
  <2> DEFINE s == Do("the-files-are-only")
  <2>1. s.does = "the-files-are-only"
    BY DEF Do
  <2> HIDE DEF s
  <2>2. Result(s) = FileResult(s)
    BY <2>1 DEF Result, FileSteps, ProductSteps, TestSteps, CommitSteps
  <2>3. /\ ~ Files \subseteq Elems(RequiredFiles) \/ sub.miscased # {} => IsFailure(FileResult(s))
        /\ ~(~ Files \subseteq Elems(RequiredFiles) \/ sub.miscased # {}) => FileResult(s) = Passed
    BY <2>1, Verdicts DEF FileResult, Unless
  <2> QED
    BY <2>1, <2>2, <2>3, Verdicts DEF Says, s
<1>6. Says(Do("folder-structure"), ~ Folders \subseteq WellFormed)
  <2> DEFINE s == Do("folder-structure")
  <2>1. s.does = "folder-structure"
    BY DEF Do
  <2> HIDE DEF s
  <2>2. Result(s) = FileResult(s)
    BY <2>1 DEF Result, FileSteps, ProductSteps, TestSteps, CommitSteps
  <2>3. /\ ~ Folders \subseteq WellFormed => IsFailure(FileResult(s))
        /\ ~(~ Folders \subseteq WellFormed) => FileResult(s) = Passed
    BY <2>1, Verdicts DEF FileResult, Unless
  <2> QED
    BY <2>1, <2>2, <2>3, Verdicts DEF Says, s
<1>7. Says(Do("only-one-path"), Cardinality(Folders) # 1)
  <2> DEFINE s == Do("only-one-path")
  <2>1. s.does = "only-one-path"
    BY DEF Do
  <2> HIDE DEF s
  <2>2. Result(s) = FileResult(s)
    BY <2>1 DEF Result, FileSteps, ProductSteps, TestSteps, CommitSteps
  <2>3. /\ Cardinality(Folders) # 1 => IsFailure(FileResult(s))
        /\ ~(Cardinality(Folders) # 1) => FileResult(s) = Passed
    BY <2>1, Verdicts DEF FileResult, Unless
  <2> QED
    BY <2>1, <2>2, <2>3, Verdicts DEF Says, s
<1> QED
  BY <1>1, <1>2, <1>3, <1>4, <1>5, <1>6, <1>7

\* When the steps on the fields of PRODUCT.yaml fail.
LEMMA ProductSays ==
  ASSUME NEW f
  PROVE  /\ Says(DoOn("contains-field", f), "PRODUCT.yaml" \in sub.unreadable \/ sub.field[f] = "absent")
         /\ Says(DoOn("valid-address", f), "PRODUCT.yaml" \in sub.unreadable \/ sub.field[f] = "malformed")
         /\ Says(DoOn("resolves-to-text/html", f), sub.link[f] \notin {"none", "text/html"})
<1>1. Says(DoOn("contains-field", f), "PRODUCT.yaml" \in sub.unreadable \/ sub.field[f] = "absent")
  <2> DEFINE s == DoOn("contains-field", f)
  <2>1. s.does = "contains-field" /\ s.with = f
    BY DEF DoOn
  <2> HIDE DEF s
  <2>2. Result(s) = ProductResult(s)
    BY <2>1 DEF Result, FileSteps, ProductSteps, TestSteps, CommitSteps
  <2>3. /\ "PRODUCT.yaml" \in sub.unreadable \/ sub.field[s.with] = "absent" => IsFailure(ProductResult(s))
        /\ ~("PRODUCT.yaml" \in sub.unreadable \/ sub.field[s.with] = "absent") => ProductResult(s) = Passed
    BY <2>1, Verdicts DEF ProductResult, Unless, Readable
  <2> QED
    BY <2>1, <2>2, <2>3, Verdicts DEF Says, s
<1>2. Says(DoOn("valid-address", f), "PRODUCT.yaml" \in sub.unreadable \/ sub.field[f] = "malformed")
  <2> DEFINE s == DoOn("valid-address", f)
  <2>1. s.does = "valid-address" /\ s.with = f
    BY DEF DoOn
  <2> HIDE DEF s
  <2>2. Result(s) = ProductResult(s)
    BY <2>1 DEF Result, FileSteps, ProductSteps, TestSteps, CommitSteps
  <2>3. /\ "PRODUCT.yaml" \in sub.unreadable \/ sub.field[s.with] = "malformed" => IsFailure(ProductResult(s))
        /\ ~("PRODUCT.yaml" \in sub.unreadable \/ sub.field[s.with] = "malformed") => ProductResult(s) = Passed
    BY <2>1, Verdicts DEF ProductResult, Unless, Readable
  <2> QED
    BY <2>1, <2>2, <2>3, Verdicts DEF Says, s
<1>3. Says(DoOn("resolves-to-text/html", f), sub.link[f] \notin {"none", "text/html"})
  <2> DEFINE s == DoOn("resolves-to-text/html", f)
  <2>1. s.does = "resolves-to-text/html" /\ s.with = f
    BY DEF DoOn
  <2> HIDE DEF s
  <2>2. Result(s) = ProductResult(s)
    BY <2>1 DEF Result, FileSteps, ProductSteps, TestSteps, CommitSteps
  <2>3. /\ sub.link[s.with] \notin {"none", "text/html"} => IsFailure(ProductResult(s))
        /\ ~(sub.link[s.with] \notin {"none", "text/html"}) => ProductResult(s) = Passed
    BY <2>1, Verdicts DEF ProductResult, Unless, Readable
  <2> QED
    BY <2>1, <2>2, <2>3, Verdicts DEF Says, s
<1> QED
  BY <1>1, <1>2, <1>3

\* When the steps on the title and the release fail; four of them never do.
LEMMA ReleaseSays ==
  /\ Says(Do("title-matches"), sub.titleRelease = 0)
  /\ Says(Do("release-in-title"), sub.titleRelease # release)
  /\ Says(Do("supported-release"), ~IsSupported(release))
  /\ Says(Do("a-PR-title"), FALSE)
  /\ Says(Do("the-PR-title-is-not-empty"), FALSE)
  /\ Says(Do("the-title"), FALSE)
  /\ Says(Do("the-release-version"), FALSE)
<1>1. Says(Do("title-matches"), sub.titleRelease = 0)
  <2> DEFINE s == Do("title-matches")
  <2>1. s.does = "title-matches"
    BY DEF Do
  <2> HIDE DEF s
  <2>2. Result(s) = ReleaseResult(s)
    BY <2>1 DEF Result, FileSteps, ProductSteps, TestSteps, CommitSteps
  <2>3. /\ sub.titleRelease = 0 => IsFailure(ReleaseResult(s))
        /\ ~(sub.titleRelease = 0) => ReleaseResult(s) = Passed
    BY <2>1, Verdicts DEF ReleaseResult, Unless
  <2> QED
    BY <2>1, <2>2, <2>3, Verdicts DEF Says, s
<1>2. Says(Do("release-in-title"), sub.titleRelease # release)
  <2> DEFINE s == Do("release-in-title")
  <2>1. s.does = "release-in-title"
    BY DEF Do
  <2> HIDE DEF s
  <2>2. Result(s) = ReleaseResult(s)
    BY <2>1 DEF Result, FileSteps, ProductSteps, TestSteps, CommitSteps
  <2>3. /\ sub.titleRelease # release => IsFailure(ReleaseResult(s))
        /\ ~(sub.titleRelease # release) => ReleaseResult(s) = Passed
    BY <2>1, Verdicts DEF ReleaseResult, Unless
  <2> QED
    BY <2>1, <2>2, <2>3, Verdicts DEF Says, s
<1>3. Says(Do("supported-release"), ~IsSupported(release))
  <2> DEFINE s == Do("supported-release")
  <2>1. s.does = "supported-release"
    BY DEF Do
  <2> HIDE DEF s
  <2>2. Result(s) = ReleaseResult(s)
    BY <2>1 DEF Result, FileSteps, ProductSteps, TestSteps, CommitSteps
  <2>3. /\ ~IsSupported(release) => IsFailure(ReleaseResult(s))
        /\ ~(~IsSupported(release)) => ReleaseResult(s) = Passed
    BY <2>1, Verdicts DEF ReleaseResult, Unless
  <2> QED
    BY <2>1, <2>2, <2>3, Verdicts DEF Says, s
<1>4. Says(Do("a-PR-title"), FALSE)
  <2> DEFINE s == Do("a-PR-title")
  <2>1. s.does = "a-PR-title"
    BY DEF Do
  <2> HIDE DEF s
  <2>2. Result(s) = ReleaseResult(s)
    BY <2>1 DEF Result, FileSteps, ProductSteps, TestSteps, CommitSteps
  <2>3. ReleaseResult(s) = Passed
    BY <2>1 DEF ReleaseResult
  <2> QED
    BY <2>1, <2>2, <2>3, Verdicts DEF Says, s
<1>5. Says(Do("the-PR-title-is-not-empty"), FALSE)
  <2> DEFINE s == Do("the-PR-title-is-not-empty")
  <2>1. s.does = "the-PR-title-is-not-empty"
    BY DEF Do
  <2> HIDE DEF s
  <2>2. Result(s) = ReleaseResult(s)
    BY <2>1 DEF Result, FileSteps, ProductSteps, TestSteps, CommitSteps
  <2>3. ReleaseResult(s) = Passed
    BY <2>1 DEF ReleaseResult
  <2> QED
    BY <2>1, <2>2, <2>3, Verdicts DEF Says, s
<1>6. Says(Do("the-title"), FALSE)
  <2> DEFINE s == Do("the-title")
  <2>1. s.does = "the-title"
    BY DEF Do
  <2> HIDE DEF s
  <2>2. Result(s) = ReleaseResult(s)
    BY <2>1 DEF Result, FileSteps, ProductSteps, TestSteps, CommitSteps
  <2>3. ReleaseResult(s) = Passed
    BY <2>1 DEF ReleaseResult
  <2> QED
    BY <2>1, <2>2, <2>3, Verdicts DEF Says, s
<1>7. Says(Do("the-release-version"), FALSE)
  <2> DEFINE s == Do("the-release-version")
  <2>1. s.does = "the-release-version"
    BY DEF Do
  <2> HIDE DEF s
  <2>2. Result(s) = ReleaseResult(s)
    BY <2>1 DEF Result, FileSteps, ProductSteps, TestSteps, CommitSteps
  <2>3. ReleaseResult(s) = Passed
    BY <2>1 DEF ReleaseResult
  <2> QED
    BY <2>1, <2>2, <2>3, Verdicts DEF Says, s
<1> QED
  BY <1>1, <1>2, <1>3, <1>4, <1>5, <1>6, <1>7

\* When the steps on the tests of junit_01.xml fail.
LEMMA TestSays ==
  /\ Says(Do("required-tests-in-junit"),
       NoRequiredTests \/ "junit_01.xml" \in sub.unreadable \/ ~ Required \subseteq Submitted)
  /\ Says(Do("tests-pass"), "junit_01.xml" \in sub.unreadable \/ Ran({"failed", "errored"}) # {})
  /\ Says(Do("required-tests-passed"),
       "junit_01.xml" \in sub.unreadable \/ NoRequiredTests \/ ~ Required \subseteq Successful)
<1>1. Says(Do("required-tests-in-junit"),
        NoRequiredTests \/ "junit_01.xml" \in sub.unreadable \/ ~ Required \subseteq Submitted)
  <2> DEFINE s == Do("required-tests-in-junit")
  <2>1. s.does = "required-tests-in-junit"
    BY DEF Do
  <2> HIDE DEF s
  <2>2. Result(s) = TestResult(s)
    BY <2>1 DEF Result, FileSteps, ProductSteps, TestSteps, CommitSteps
  <2>3. /\ NoRequiredTests \/ "junit_01.xml" \in sub.unreadable \/ ~ Required \subseteq Submitted
             => IsFailure(TestResult(s))
        /\ ~(NoRequiredTests \/ "junit_01.xml" \in sub.unreadable \/ ~ Required \subseteq Submitted) => TestResult(s) = Passed
    BY <2>1, Verdicts DEF TestResult, Unless, Readable, WithRequired
  <2> QED
    BY <2>1, <2>2, <2>3, Verdicts DEF Says, s
<1>2. Says(Do("tests-pass"), "junit_01.xml" \in sub.unreadable \/ Ran({"failed", "errored"}) # {})
  <2> DEFINE s == Do("tests-pass")
  <2>1. s.does = "tests-pass"
    BY DEF Do
  <2> HIDE DEF s
  <2>2. Result(s) = TestResult(s)
    BY <2>1 DEF Result, FileSteps, ProductSteps, TestSteps, CommitSteps
  <2>3. /\ "junit_01.xml" \in sub.unreadable \/ Ran({"failed", "errored"}) # {} => IsFailure(TestResult(s))
        /\ ~("junit_01.xml" \in sub.unreadable \/ Ran({"failed", "errored"}) # {}) => TestResult(s) = Passed
    BY <2>1, Verdicts DEF TestResult, Unless, Readable, WithRequired
  <2> QED
    BY <2>1, <2>2, <2>3, Verdicts DEF Says, s
<1>3. Says(Do("required-tests-passed"),
        "junit_01.xml" \in sub.unreadable \/ NoRequiredTests \/ ~ Required \subseteq Successful)
  <2> DEFINE s == Do("required-tests-passed")
  <2>1. s.does = "required-tests-passed"
    BY DEF Do
  <2> HIDE DEF s
  <2>2. Result(s) = TestResult(s)
    BY <2>1 DEF Result, FileSteps, ProductSteps, TestSteps, CommitSteps
  <2>3. /\ "junit_01.xml" \in sub.unreadable \/ NoRequiredTests \/ ~ Required \subseteq Successful
             => IsFailure(TestResult(s))
        /\ ~("junit_01.xml" \in sub.unreadable \/ NoRequiredTests \/ ~ Required \subseteq Successful) => TestResult(s) = Passed
    BY <2>1, Verdicts DEF TestResult, Unless, Readable, WithRequired
  <2> QED
    BY <2>1, <2>2, <2>3, Verdicts DEF Says, s
<1> QED
  BY <1>1, <1>2, <1>3

\* When the steps on commits fail.
LEMMA CommitSays ==
  /\ Says(Do("a-list-of-commits"), sub.commits = 0)
  /\ Says(Do("only-one-commit"), sub.commits > 1)
<1>1. Says(Do("a-list-of-commits"), sub.commits = 0)
  <2> DEFINE s == Do("a-list-of-commits")
  <2>1. s.does = "a-list-of-commits"
    BY DEF Do
  <2> HIDE DEF s
  <2>2. Result(s) = CommitResult(s)
    BY <2>1 DEF Result, FileSteps, ProductSteps, TestSteps, CommitSteps
  <2>3. /\ sub.commits = 0 => IsFailure(CommitResult(s))
        /\ ~(sub.commits = 0) => CommitResult(s) = Passed
    BY <2>1, Verdicts DEF CommitResult, Unless
  <2> QED
    BY <2>1, <2>2, <2>3, Verdicts DEF Says, s
<1>2. Says(Do("only-one-commit"), sub.commits > 1)
  <2> DEFINE s == Do("only-one-commit")
  <2>1. s.does = "only-one-commit"
    BY DEF Do
  <2> HIDE DEF s
  <2>2. Result(s) = CommitResult(s)
    BY <2>1 DEF Result, FileSteps, ProductSteps, TestSteps, CommitSteps
  <2>3. /\ sub.commits > 1 => IsFailure(CommitResult(s))
        /\ ~(sub.commits > 1) => CommitResult(s) = Passed
    BY <2>1, Verdicts DEF CommitResult, Unless
  <2> QED
    BY <2>1, <2>2, <2>3, Verdicts DEF Says, s
<1> QED
  BY <1>1, <1>2

\* the two steps left
LEMMA OthersSay ==
  /\ \A f : Says(DoOn("is-valid", f), f = "PRODUCT.yaml" /\ f \in sub.unreadable)
  /\ Result(Do("type-is-one-of")) = Undefined
<1>1. ASSUME NEW f PROVE Says(DoOn("is-valid", f), f = "PRODUCT.yaml" /\ f \in sub.unreadable)
  <2> DEFINE s == DoOn("is-valid", f)
  <2>1. s.does = "is-valid" /\ s.with = f
    BY DEF DoOn
  <2> HIDE DEF s
  <2>2. Result(s) = IsValid(f)
    BY <2>1 DEF Result, FileSteps, ProductSteps, TestSteps, CommitSteps
  <2> QED
    BY <2>2, Verdicts DEF Says, IsValid, Unless, s
<1>2. Result(Do("type-is-one-of")) = Undefined
  <2> DEFINE s == Do("type-is-one-of")
  <2>1. s.does = "type-is-one-of"
    BY DEF Do
  <2> HIDE DEF s
  <2>2. Result(s) = ProductResult(s)
    BY <2>1 DEF Result, FileSteps, ProductSteps, TestSteps, CommitSteps
  <2> QED
    BY <2>1, <2>2 DEF ProductResult, s
<1> QED
  BY <1>1, <1>2

\* Only three steps leave labels.
LEMMA StepLabels ==
  /\ \A f : LabelsOf(DoOn("is-included", f)) =
              IF f \notin Files THEN {<<"missing-file", f>>} ELSE {}
  /\ \A s : s.does \notin {"is-included", "required-tests-in-junit", "tests-pass"}
              => LabelsOf(s) = {}
  /\ LabelsOf(Do("required-tests-in-junit")) =
       IF "junit_01.xml" \in sub.unreadable \/ NoRequiredTests THEN {}
       ELSE IF Required \subseteq Submitted THEN {<<"tests-verified", release>>}
       ELSE {<<"required-tests-missing">>}
  /\ LabelsOf(Do("tests-pass")) =
       IF "junit_01.xml" \in sub.unreadable THEN {}
       ELSE IF Ran({"failed", "errored"}) = {} THEN {<<"no-failed-tests", release>>}
       ELSE {<<"evidence-missing">>}
<1>1. ASSUME NEW f
      PROVE  LabelsOf(DoOn("is-included", f)) =
               IF f \notin Files THEN {<<"missing-file", f>>} ELSE {}
  <2> DEFINE s == DoOn("is-included", f)
  <2>1. s.does = "is-included" /\ s.with = f
    BY DEF DoOn
  <2>2. Result(s) = Passed <=> f \in Files
    BY FileSays DEF Says
  <2> HIDE DEF s
  <2> QED
    BY <2>1, <2>2 DEF LabelsOf, s
<1>2. ASSUME NEW s, s.does \notin {"is-included", "required-tests-in-junit", "tests-pass"}
      PROVE  LabelsOf(s) = {}
  BY <1>2 DEF LabelsOf
<1>3. LabelsOf(Do("required-tests-in-junit")) =
        IF "junit_01.xml" \in sub.unreadable \/ NoRequiredTests THEN {}
        ELSE IF Required \subseteq Submitted THEN {<<"tests-verified", release>>}
        ELSE {<<"required-tests-missing">>}
  <2> DEFINE s == Do("required-tests-in-junit")
  <2>1. s.does = "required-tests-in-junit"
    BY DEF Do
  <2>2. Result(s) = Passed
          <=> ~("junit_01.xml" \in sub.unreadable \/ NoRequiredTests) /\ Required \subseteq Submitted
    BY TestSays DEF Says
  <2> HIDE DEF s
  <2>3. CASE "junit_01.xml" \in sub.unreadable \/ NoRequiredTests
    BY <2>1, <2>3 DEF LabelsOf, s
  <2>4. CASE ~("junit_01.xml" \in sub.unreadable \/ NoRequiredTests)
    BY <2>1, <2>2, <2>4 DEF LabelsOf, s
  <2> QED
    BY <2>3, <2>4
<1>4. LabelsOf(Do("tests-pass")) =
        IF "junit_01.xml" \in sub.unreadable THEN {}
        ELSE IF Ran({"failed", "errored"}) = {} THEN {<<"no-failed-tests", release>>}
        ELSE {<<"evidence-missing">>}
  <2> DEFINE s == Do("tests-pass")
  <2>1. s.does = "tests-pass"
    BY DEF Do
  <2>2. Result(s) = Passed
          <=> "junit_01.xml" \notin sub.unreadable /\ Ran({"failed", "errored"}) = {}
    BY TestSays DEF Says
  <2> HIDE DEF s
  <2> QED
    BY <2>1, <2>2 DEF LabelsOf, Evidence, s
<1> QED
  BY <1>1, <1>2, <1>3, <1>4

-----------------------------------------------------------------------------
(* What each scenario comes to: when its elements fail, and their labels *)

\* When each scenario fails, and which labels it leaves: the title never fails,
LEMMA TitleNotEmptyComes ==
  ASSUME NEW q \in StepsOf(TitleNotEmpty)
  PROVE  /\ Fails(q) <=> FALSE
         /\ Left(q) = {}
<1>1. q = <<Do("a-PR-title"), Do("the-PR-title-is-not-empty")>>
  BY TitleNotEmptySteps
<1>2. /\ LabelsOf(Do("a-PR-title")) = {}
      /\ LabelsOf(Do("the-PR-title-is-not-empty")) = {}
  BY StepLabels DEF Do, DoOn
<1> QED
  BY <1>1, <1>2, TwoSteps, StepLabels, ReleaseSays DEF Says

\* a required file if it is missing, empty or does not parse,
LEMMA AllRequiredFilesComes ==
  ASSUME NEW q, NEW f, q = <<DoOn("is-included", f), DoOn("is-not-empty", f), DoOn("is-valid", f)>>
  PROVE  /\ Fails(q) <=> f \notin Files \/ f \in sub.blank \/ (f = "PRODUCT.yaml" /\ f \in sub.unreadable)
         /\ Left(q) = IF f \notin Files THEN {<<"missing-file", f>>} ELSE {}
<1> DEFINE a == DoOn("is-included", f)
           b == DoOn("is-not-empty", f)
           c == DoOn("is-valid", f)
<1>1. q = <<a, b, c>>
  OBVIOUS
<1>2. /\ Says(a, f \notin Files)
      /\ Says(b, f \in sub.blank)
      /\ Says(c, f = "PRODUCT.yaml" /\ f \in sub.unreadable)
  BY FileSays, OthersSay
<1>3. /\ LabelsOf(a) = IF f \notin Files THEN {<<"missing-file", f>>} ELSE {}
      /\ LabelsOf(b) = {}
      /\ LabelsOf(c) = {}
  BY StepLabels DEF Do, DoOn
<1> HIDE DEF a, b, c
<1>4. /\ Fails(q) <=> \/ IsFailure(Result(a))
                      \/ Result(a) = Passed /\ IsFailure(Result(b))
                      \/ Result(a) = Passed /\ Result(b) = Passed /\ IsFailure(Result(c))
      /\ Result(a) # Passed \/ LabelsOf(b) = {} => Left(q) = LabelsOf(a)
      /\ Result(a) = Passed /\ LabelsOf(a) = {} => Left(q) = LabelsOf(b)
  <2>1. LabelsOf(c) = {}
    BY <1>3
  <2>2. /\ Fails(<<a, b, c>>) <=> \/ IsFailure(Result(a))
                                  \/ Result(a) = Passed /\ IsFailure(Result(b))
                                  \/ Result(a) = Passed /\ Result(b) = Passed /\ IsFailure(Result(c))
        /\ Result(a) # Passed \/ LabelsOf(b) = {} => Left(<<a, b, c>>) = LabelsOf(a)
        /\ Result(a) = Passed /\ LabelsOf(a) = {} => Left(<<a, b, c>>) = LabelsOf(b)
    BY <2>1, ThreeSteps
  <2> QED
    BY <1>1, <2>2
<1>5. Fails(q) <=> f \notin Files \/ f \in sub.blank \/ (f = "PRODUCT.yaml" /\ f \in sub.unreadable)
  BY <1>2, <1>4 DEF Says
<1>6. CASE f \in Files
  <2>1. Result(a) = Passed
    BY <1>2, <1>6 DEF Says
  <2> QED
    BY <1>3, <1>4, <1>5, <1>6, <2>1
<1>7. CASE ~(f \in Files)
  <2>1. Result(a) # Passed
    BY <1>2, <1>7 DEF Says
  <2> QED
    BY <1>3, <1>4, <1>5, <1>7, <2>1
<1> QED
  BY <1>6, <1>7

\* the files if one is not required,
LEMMA OnlyRequiredFilesComes ==
  ASSUME NEW q \in StepsOf(OnlyRequiredFiles)
  PROVE  /\ Fails(q) <=> \/ Files = {} \/ ~ Files \subseteq Elems(RequiredFiles)
                         \/ sub.miscased # {}
         /\ Left(q) = {}
<1>1. q = <<Do("the-files-in-the-PR"), Do("the-files-are-only")>>
  BY OnlyRequiredFilesSteps
<1>2. /\ LabelsOf(Do("the-files-in-the-PR")) = {}
      /\ LabelsOf(Do("the-files-are-only")) = {}
  BY StepLabels DEF Do, DoOn
<1> QED
  BY <1>1, <1>2, TwoSteps, StepLabels, FileSays DEF Says

\* the folders if one is not well-formed,
LEMMA FileStructureComes ==
  ASSUME NEW q \in StepsOf(FileStructure)
  PROVE  /\ Fails(q) <=> Files = {} \/ ~ Folders \subseteq WellFormed
         /\ Left(q) = {}
<1>1. q = <<Do("the-files-in-the-PR"), Do("folder-structure")>>
  BY FileStructureSteps
<1>2. /\ LabelsOf(Do("the-files-in-the-PR")) = {}
      /\ LabelsOf(Do("folder-structure")) = {}
  BY StepLabels DEF Do, DoOn
<1> QED
  BY <1>1, <1>2, TwoSteps, StepLabels, FileSays DEF Says

\* or if there are several,
LEMMA OneProductComes ==
  ASSUME NEW q \in StepsOf(OneProduct)
  PROVE  /\ Fails(q) <=> Files = {} \/ Cardinality(Folders) # 1
         /\ Left(q) = {}
<1>1. q = <<Do("the-files-in-the-PR"), Do("only-one-path")>>
  BY OneProductSteps
<1>2. /\ LabelsOf(Do("the-files-in-the-PR")) = {}
      /\ LabelsOf(Do("only-one-path")) = {}
  BY StepLabels DEF Do, DoOn
<1> QED
  BY <1>1, <1>2, TwoSteps, StepLabels, FileSays DEF Says

\* the title if it names another release than the folder,
LEMMA ReleaseInTitleComes ==
  ASSUME NEW q \in StepsOf(ReleaseInTitle)
  PROVE  /\ Fails(q) <=> Files = {} \/ sub.titleRelease # release
         /\ Left(q) = {}
<1>1. q = <<Do("the-files-in-the-PR"), Do("the-title"), Do("release-in-title")>>
  BY ReleaseInTitleSteps
<1>2. /\ LabelsOf(Do("the-files-in-the-PR")) = {}
      /\ LabelsOf(Do("the-title")) = {}
      /\ LabelsOf(Do("release-in-title")) = {}
  BY StepLabels DEF Do, DoOn
<1> QED
  BY <1>1, <1>2, ThreeSteps, StepLabels, FileSays, ReleaseSays DEF Says

\* a field if it is absent, even if it may be empty,
LEMMA AllRequiredFieldsComes ==
  ASSUME NEW q, NEW f, q = <<DoOn("a-file", "PRODUCT.yaml"), DoOn("contains-field", f)>>
  PROVE  /\ Fails(q) <=> "PRODUCT.yaml" \notin Files \/ "PRODUCT.yaml" \in sub.unreadable \/ sub.field[f] = "absent"
         /\ Left(q) = {}
<1>1. q = <<DoOn("a-file", "PRODUCT.yaml"), DoOn("contains-field", f)>>
  OBVIOUS
<1>2. /\ LabelsOf(DoOn("a-file", "PRODUCT.yaml")) = {}
      /\ LabelsOf(DoOn("contains-field", f)) = {}
  BY StepLabels DEF Do, DoOn
<1> QED
  BY <1>1, <1>2, TwoSteps, StepLabels, FileSays, ProductSays DEF Says

\* an address if it is malformed,
LEMMA ValidAddressesComes ==
  ASSUME NEW q, NEW f, q = <<DoOn("a-file", "PRODUCT.yaml"), DoOn("valid-address", f)>>
  PROVE  /\ Fails(q) <=> "PRODUCT.yaml" \notin Files \/ "PRODUCT.yaml" \in sub.unreadable \/ sub.field[f] = "malformed"
         /\ Left(q) = {}
<1>1. q = <<DoOn("a-file", "PRODUCT.yaml"), DoOn("valid-address", f)>>
  OBVIOUS
<1>2. /\ LabelsOf(DoOn("a-file", "PRODUCT.yaml")) = {}
      /\ LabelsOf(DoOn("valid-address", f)) = {}
  BY StepLabels DEF Do, DoOn
<1> QED
  BY <1>1, <1>2, TwoSteps, StepLabels, FileSays, ProductSays DEF Says

\* a link if it answers with something else than a page,
LEMMA LinksResolveComes ==
  ASSUME NEW q, NEW f, q = <<DoOn("a-file", "PRODUCT.yaml"), DoOn("resolves-to-text/html", f)>>
  PROVE  /\ Fails(q) <=> "PRODUCT.yaml" \notin Files \/ sub.link[f] \notin {"none", "text/html"}
         /\ Left(q) = {}
<1>1. q = <<DoOn("a-file", "PRODUCT.yaml"), DoOn("resolves-to-text/html", f)>>
  OBVIOUS
<1>2. /\ LabelsOf(DoOn("a-file", "PRODUCT.yaml")) = {}
      /\ LabelsOf(DoOn("resolves-to-text/html", f)) = {}
  BY StepLabels DEF Do, DoOn
<1> QED
  BY <1>1, <1>2, TwoSteps, StepLabels, FileSays, ProductSays DEF Says

\* the type only if there is no PRODUCT.yaml, as its step is undefined,
LEMMA ValidTypeComes ==
  ASSUME NEW q \in StepsOf(ValidType)
  PROVE  /\ Fails(q) <=> "PRODUCT.yaml" \notin Files
         /\ Left(q) = {}
<1>1. q = <<DoOn("a-file", "PRODUCT.yaml"), Do("type-is-one-of")>>
  BY ValidTypeSteps
<1>2. /\ LabelsOf(DoOn("a-file", "PRODUCT.yaml")) = {}
      /\ LabelsOf(Do("type-is-one-of")) = {}
  BY StepLabels DEF Do, DoOn
<1> QED
  BY <1>1, <1>2, TwoSteps, StepLabels, FileSays, OthersSay, Verdicts DEF Says

\* the title if it names no release,
LEMMA TitleHasReleaseComes ==
  ASSUME NEW q \in StepsOf(TitleHasRelease)
  PROVE  /\ Fails(q) <=> sub.titleRelease = 0
         /\ Left(q) = {}
<1>1. q = <<Do("the-title"), Do("title-matches")>>
  BY TitleHasReleaseSteps
<1>2. /\ LabelsOf(Do("the-title")) = {}
      /\ LabelsOf(Do("title-matches")) = {}
  BY StepLabels DEF Do, DoOn
<1> QED
  BY <1>1, <1>2, TwoSteps, StepLabels, ReleaseSays DEF Says

\* the release if it is too old,
LEMMA SupportedReleaseComes ==
  ASSUME NEW q \in StepsOf(SupportedRelease)
  PROVE  /\ Fails(q) <=> Files = {} \/ ~IsSupported(release)
         /\ Left(q) = {}
<1>1. q = <<Do("the-release-version"), Do("the-files-in-the-PR"), Do("supported-release")>>
  BY SupportedReleaseSteps
<1>2. /\ LabelsOf(Do("the-release-version")) = {}
      /\ LabelsOf(Do("the-files-in-the-PR")) = {}
      /\ LabelsOf(Do("supported-release")) = {}
  BY StepLabels DEF Do, DoOn
<1> QED
  BY <1>1, <1>2, ThreeSteps, StepLabels, FileSays, ReleaseSays DEF Says

\* the required tests if they are unknown or one was not run,
LEMMA TestsPresentComes ==
  ASSUME NEW q \in StepsOf(TestsPresent)
  PROVE  /\ Fails(q) <=> "junit_01.xml" \notin Files \/ NoRequiredTests \/ "junit_01.xml" \in sub.unreadable \/ ~ Required \subseteq Submitted
         /\ Left(q) = IF "junit_01.xml" \notin Files \/ "junit_01.xml" \in sub.unreadable \/ NoRequiredTests THEN {}
                     ELSE IF Required \subseteq Submitted THEN {<<"tests-verified", release>>}
                     ELSE {<<"required-tests-missing">>}
<1> DEFINE a == DoOn("a-file", "junit_01.xml")
           b == Do("required-tests-in-junit")
<1>1. q = <<a, b>>
  BY TestsPresentSteps
<1>2. /\ Says(a, "junit_01.xml" \notin Files)
      /\ Says(b, NoRequiredTests \/ "junit_01.xml" \in sub.unreadable \/ ~ Required \subseteq Submitted)
  BY FileSays, TestSays
<1>3. /\ LabelsOf(a) = {}
      /\ LabelsOf(b) =
           IF "junit_01.xml" \in sub.unreadable \/ NoRequiredTests THEN {}
           ELSE IF Required \subseteq Submitted THEN {<<"tests-verified", release>>}
           ELSE {<<"required-tests-missing">>}
  BY StepLabels DEF Do, DoOn
<1> HIDE DEF a, b
<1>4. /\ Fails(q) <=> \/ IsFailure(Result(a))
                      \/ Result(a) = Passed /\ IsFailure(Result(b))
      /\ Result(a) # Passed \/ LabelsOf(b) = {} => Left(q) = LabelsOf(a)
      /\ Result(a) = Passed /\ LabelsOf(a) = {} => Left(q) = LabelsOf(b)
  BY <1>1, <1>3, TwoSteps
<1>5. Fails(q) <=> "junit_01.xml" \notin Files \/ NoRequiredTests \/ "junit_01.xml" \in sub.unreadable \/ ~ Required \subseteq Submitted
  BY <1>2, <1>4 DEF Says
<1>6. CASE "junit_01.xml" \in Files
  <2>1. Result(a) = Passed
    BY <1>2, <1>6 DEF Says
  <2> QED
    BY <1>3, <1>4, <1>5, <1>6, <2>1
<1>7. CASE ~("junit_01.xml" \in Files)
  <2>1. Result(a) # Passed
    BY <1>2, <1>7 DEF Says
  <2> QED
    BY <1>3, <1>4, <1>5, <1>7, <2>1
<1> QED
  BY <1>6, <1>7

\* or if one did not pass, or any test failed,
LEMMA TestsPassComes ==
  ASSUME NEW q \in StepsOf(TestsPass)
  PROVE  /\ Fails(q) <=> "junit_01.xml" \notin Files \/ "junit_01.xml" \in sub.unreadable \/ Ran({"failed", "errored"}) # {} \/ NoRequiredTests
                     \/ ~ Required \subseteq Successful
         /\ Left(q) = IF "junit_01.xml" \notin Files \/ "junit_01.xml" \in sub.unreadable THEN {}
                     ELSE IF Ran({"failed", "errored"}) = {} THEN {<<"no-failed-tests", release>>}
                     ELSE {<<"evidence-missing">>}
<1> DEFINE a == DoOn("a-file", "junit_01.xml")
           b == Do("tests-pass")
           c == Do("required-tests-passed")
<1>1. q = <<a, b, c>>
  BY TestsPassSteps
<1>2. /\ Says(a, "junit_01.xml" \notin Files)
      /\ Says(b, "junit_01.xml" \in sub.unreadable \/ Ran({"failed", "errored"}) # {})
      /\ Says(c, "junit_01.xml" \in sub.unreadable \/ NoRequiredTests \/ ~ Required \subseteq Successful)
  BY FileSays, TestSays
<1>3. /\ LabelsOf(a) = {}
      /\ LabelsOf(b) =
           IF "junit_01.xml" \in sub.unreadable THEN {}
           ELSE IF Ran({"failed", "errored"}) = {} THEN {<<"no-failed-tests", release>>}
           ELSE {<<"evidence-missing">>}
      /\ LabelsOf(c) = {}
  BY StepLabels DEF Do, DoOn
<1> HIDE DEF a, b, c
<1>4. /\ Fails(q) <=> \/ IsFailure(Result(a))
                      \/ Result(a) = Passed /\ IsFailure(Result(b))
                      \/ Result(a) = Passed /\ Result(b) = Passed /\ IsFailure(Result(c))
      /\ Result(a) # Passed \/ LabelsOf(b) = {} => Left(q) = LabelsOf(a)
      /\ Result(a) = Passed /\ LabelsOf(a) = {} => Left(q) = LabelsOf(b)
  BY <1>1, <1>3, ThreeSteps
<1>5. Fails(q) <=> "junit_01.xml" \notin Files \/ "junit_01.xml" \in sub.unreadable \/ Ran({"failed", "errored"}) # {} \/ NoRequiredTests
               \/ ~ Required \subseteq Successful
  BY <1>2, <1>4 DEF Says
<1>6. CASE "junit_01.xml" \in Files
  <2>1. Result(a) = Passed
    BY <1>2, <1>6 DEF Says
  <2> QED
    BY <1>3, <1>4, <1>5, <1>6, <2>1
<1>7. CASE ~("junit_01.xml" \in Files)
  <2>1. Result(a) # Passed
    BY <1>2, <1>7 DEF Says
  <2> QED
    BY <1>3, <1>4, <1>5, <1>7, <2>1
<1> QED
  BY <1>6, <1>7

\* and the commits unless there is one.
LEMMA OneCommitComes ==
  ASSUME NEW q \in StepsOf(OneCommit)
  PROVE  /\ Fails(q) <=> sub.commits = 0 \/ sub.commits > 1
         /\ Left(q) = {}
<1>1. q = <<Do("a-list-of-commits"), Do("only-one-commit")>>
  BY OneCommitSteps
<1>2. /\ LabelsOf(Do("a-list-of-commits")) = {}
      /\ LabelsOf(Do("only-one-commit")) = {}
  BY StepLabels DEF Do, DoOn
<1> QED
  BY <1>1, <1>2, TwoSteps, StepLabels, CommitSays DEF Says

-----------------------------------------------------------------------------
(* What the feature comes to *)

\* What is to be said of a submission for no element to fail.
Flawless ==
  /\ \A f \in Elems(RequiredFiles) :
       /\ f \in Files /\ f \notin sub.blank
       /\ f = "PRODUCT.yaml" => f \notin sub.unreadable
  /\ Files # {} /\ Files \subseteq Elems(RequiredFiles) /\ sub.miscased = {}
  /\ Files # {} /\ Folders \subseteq WellFormed
  /\ Files # {} /\ Cardinality(Folders) = 1
  /\ Files # {} /\ sub.titleRelease = release
  /\ \A f \in Elems(RequiredFields) :
       "PRODUCT.yaml" \in Files \ sub.unreadable /\ sub.field[f] # "absent"
  /\ \A f \in Elems(AddressFields) :
       "PRODUCT.yaml" \in Files \ sub.unreadable /\ sub.field[f] # "malformed"
  /\ \A f \in Elems(LinkFields) :
       "PRODUCT.yaml" \in Files /\ sub.link[f] \in {"none", "text/html"}
  /\ "PRODUCT.yaml" \in Files
  /\ sub.titleRelease # 0
  /\ Files # {} /\ IsSupported(release)
  /\ "junit_01.xml" \in Files \ sub.unreadable /\ ~NoRequiredTests /\ Required \subseteq Submitted
  /\ "junit_01.xml" \in Files \ sub.unreadable /\ ~NoRequiredTests
     /\ Ran({"failed", "errored"}) = {} /\ Required \subseteq Successful
  /\ sub.commits # 0 /\ ~(sub.commits > 1)

\* No element fails exactly if the submission is flawless.
LEMMA NoneFails == (\A q \in StepsOf(Feature) : ~Fails(q)) <=> Flawless
<1>1. (\A q \in StepsOf(TitleNotEmpty) : ~Fails(q)) <=>
         (TRUE)
  BY TitleNotEmptyComes, TitleNotEmptySteps
<1>2. (\A q \in StepsOf(AllRequiredFiles) : ~Fails(q)) <=>
         (\A f \in Elems(RequiredFiles) :
            /\ f \in Files /\ f \notin sub.blank
            /\ f = "PRODUCT.yaml" => f \notin sub.unreadable)
  <2>1. \A f \in Elems(RequiredFiles) :
          Fails(<<DoOn("is-included", f), DoOn("is-not-empty", f), DoOn("is-valid", f)>>)
            <=> f \notin Files \/ f \in sub.blank \/ (f = "PRODUCT.yaml" /\ f \in sub.unreadable)
    BY AllRequiredFilesComes
  <2> QED
    BY <2>1, AllRequiredFilesSteps
<1>3. (\A q \in StepsOf(OnlyRequiredFiles) : ~Fails(q)) <=>
         (Files # {} /\ Files \subseteq Elems(RequiredFiles) /\ sub.miscased = {})
  BY OnlyRequiredFilesComes, OnlyRequiredFilesSteps
<1>4. (\A q \in StepsOf(FileStructure) : ~Fails(q)) <=>
         (Files # {} /\ Folders \subseteq WellFormed)
  BY FileStructureComes, FileStructureSteps
<1>5. (\A q \in StepsOf(OneProduct) : ~Fails(q)) <=>
         (Files # {} /\ Cardinality(Folders) = 1)
  BY OneProductComes, OneProductSteps
<1>6. (\A q \in StepsOf(ReleaseInTitle) : ~Fails(q)) <=>
         (Files # {} /\ sub.titleRelease = release)
  BY ReleaseInTitleComes, ReleaseInTitleSteps
<1>7. (\A q \in StepsOf(AllRequiredFields) : ~Fails(q)) <=>
         (\A f \in Elems(RequiredFields) :
            "PRODUCT.yaml" \in Files \ sub.unreadable /\ sub.field[f] # "absent")
  <2>1. \A f \in Elems(RequiredFields) :
          Fails(<<DoOn("a-file", "PRODUCT.yaml"), DoOn("contains-field", f)>>)
            <=> "PRODUCT.yaml" \notin Files \/ "PRODUCT.yaml" \in sub.unreadable \/ sub.field[f] = "absent"
    BY AllRequiredFieldsComes
  <2> QED
    BY <2>1, AllRequiredFieldsSteps
<1>8. (\A q \in StepsOf(ValidAddresses) : ~Fails(q)) <=>
         (\A f \in Elems(AddressFields) :
            "PRODUCT.yaml" \in Files \ sub.unreadable /\ sub.field[f] # "malformed")
  <2>1. \A f \in Elems(AddressFields) :
          Fails(<<DoOn("a-file", "PRODUCT.yaml"), DoOn("valid-address", f)>>)
            <=> "PRODUCT.yaml" \notin Files \/ "PRODUCT.yaml" \in sub.unreadable \/ sub.field[f] = "malformed"
    BY ValidAddressesComes
  <2> QED
    BY <2>1, ValidAddressesSteps
<1>9. (\A q \in StepsOf(LinksResolve) : ~Fails(q)) <=>
         (\A f \in Elems(LinkFields) :
            "PRODUCT.yaml" \in Files /\ sub.link[f] \in {"none", "text/html"})
  <2>1. \A f \in Elems(LinkFields) :
          Fails(<<DoOn("a-file", "PRODUCT.yaml"), DoOn("resolves-to-text/html", f)>>)
            <=> "PRODUCT.yaml" \notin Files \/ sub.link[f] \notin {"none", "text/html"}
    BY LinksResolveComes
  <2> QED
    BY <2>1, LinksResolveSteps
<1>10. (\A q \in StepsOf(ValidType) : ~Fails(q)) <=>
         ("PRODUCT.yaml" \in Files)
  BY ValidTypeComes, ValidTypeSteps
<1>11. (\A q \in StepsOf(TitleHasRelease) : ~Fails(q)) <=>
         (sub.titleRelease # 0)
  BY TitleHasReleaseComes, TitleHasReleaseSteps
<1>12. (\A q \in StepsOf(SupportedRelease) : ~Fails(q)) <=>
         (Files # {} /\ IsSupported(release))
  BY SupportedReleaseComes, SupportedReleaseSteps
<1>13. (\A q \in StepsOf(TestsPresent) : ~Fails(q)) <=>
         ("junit_01.xml" \in Files \ sub.unreadable /\ ~NoRequiredTests /\ Required \subseteq Submitted)
  BY TestsPresentComes, TestsPresentSteps
<1>14. (\A q \in StepsOf(TestsPass) : ~Fails(q)) <=>
         ("junit_01.xml" \in Files \ sub.unreadable /\ ~NoRequiredTests
          /\ Ran({"failed", "errored"}) = {} /\ Required \subseteq Successful)
  BY TestsPassComes, TestsPassSteps
<1>15. (\A q \in StepsOf(OneCommit) : ~Fails(q)) <=>
         (sub.commits # 0 /\ ~(sub.commits > 1))
  BY OneCommitComes, OneCommitSteps
<1>16. (\A q \in StepsOf(Feature) : ~Fails(q)) <=>
         /\ \A q \in StepsOf(TitleNotEmpty) : ~Fails(q)
         /\ \A q \in StepsOf(AllRequiredFiles) : ~Fails(q)
         /\ \A q \in StepsOf(OnlyRequiredFiles) : ~Fails(q)
         /\ \A q \in StepsOf(FileStructure) : ~Fails(q)
         /\ \A q \in StepsOf(OneProduct) : ~Fails(q)
         /\ \A q \in StepsOf(ReleaseInTitle) : ~Fails(q)
         /\ \A q \in StepsOf(AllRequiredFields) : ~Fails(q)
         /\ \A q \in StepsOf(ValidAddresses) : ~Fails(q)
         /\ \A q \in StepsOf(LinksResolve) : ~Fails(q)
         /\ \A q \in StepsOf(ValidType) : ~Fails(q)
         /\ \A q \in StepsOf(TitleHasRelease) : ~Fails(q)
         /\ \A q \in StepsOf(SupportedRelease) : ~Fails(q)
         /\ \A q \in StepsOf(TestsPresent) : ~Fails(q)
         /\ \A q \in StepsOf(TestsPass) : ~Fails(q)
         /\ \A q \in StepsOf(OneCommit) : ~Fails(q)
  BY FeatureSteps
<1> QED
  BY <1>1, <1>2, <1>3, <1>4, <1>5, <1>6, <1>7, <1>8, <1>9, <1>10, <1>11, <1>12, <1>13, <1>14,
    <1>15, <1>16 DEF Flawless

\* the labels that elements with these sequences of steps leave
LeftBy(S) == UNION {Left(q) : q \in S}

\* A label is left by elements if one of them leaves it.
LEMMA LeftByFacts ==
  ASSUME NEW S
  PROVE  \A l : l \in LeftBy(S) <=> \E q \in S : l \in Left(q)
  BY DEF LeftBy

\* The labels that the feature leaves are those that Requirements gives.
LEMMA LeftByFeature ==
  LeftBy(StepsOf(Feature)) =
    ({"missing-file"} \X (Elems(RequiredFiles) \ Files)) \union EvidenceLabels
<1> DEFINE Missing == {"missing-file"} \X (Elems(RequiredFiles) \ Files)
           Tests   == LeftBy(StepsOf(TestsPresent))
           Passing == LeftBy(StepsOf(TestsPass))
<1>1. \A q \in StepsOf(TitleNotEmpty) : Left(q) = {}
  BY TitleNotEmptyComes
<1>2. \A q \in StepsOf(OnlyRequiredFiles) : Left(q) = {}
  BY OnlyRequiredFilesComes
<1>3. \A q \in StepsOf(FileStructure) : Left(q) = {}
  BY FileStructureComes
<1>4. \A q \in StepsOf(OneProduct) : Left(q) = {}
  BY OneProductComes
<1>5. \A q \in StepsOf(ReleaseInTitle) : Left(q) = {}
  BY ReleaseInTitleComes
<1>6. \A q \in StepsOf(AllRequiredFields) : Left(q) = {}
  <2>1. \A f \in Elems(RequiredFields) :
          Left(<<DoOn("a-file", "PRODUCT.yaml"), DoOn("contains-field", f)>>) = {}
    BY AllRequiredFieldsComes
  <2> QED
    BY <2>1, AllRequiredFieldsSteps
<1>7. \A q \in StepsOf(ValidAddresses) : Left(q) = {}
  <2>1. \A f \in Elems(AddressFields) : Left(<<DoOn("a-file", "PRODUCT.yaml"), DoOn("valid-address", f)>>) = {}
    BY ValidAddressesComes
  <2> QED
    BY <2>1, ValidAddressesSteps
<1>8. \A q \in StepsOf(LinksResolve) : Left(q) = {}
  <2>1. \A f \in Elems(LinkFields) :
          Left(<<DoOn("a-file", "PRODUCT.yaml"), DoOn("resolves-to-text/html", f)>>) = {}
    BY LinksResolveComes
  <2> QED
    BY <2>1, LinksResolveSteps
<1>9. \A q \in StepsOf(ValidType) : Left(q) = {}
  BY ValidTypeComes
<1>10. \A q \in StepsOf(TitleHasRelease) : Left(q) = {}
  BY TitleHasReleaseComes
<1>11. \A q \in StepsOf(SupportedRelease) : Left(q) = {}
  BY SupportedReleaseComes
<1>12. \A q \in StepsOf(OneCommit) : Left(q) = {}
  BY OneCommitComes
<1>13. LeftBy(StepsOf(AllRequiredFiles)) = Missing
  <2>1. \A f \in Elems(RequiredFiles) :
          Left(<<DoOn("is-included", f), DoOn("is-not-empty", f), DoOn("is-valid", f)>>) =
            IF f \notin Files THEN {<<"missing-file", f>>} ELSE {}
    BY AllRequiredFilesComes
  <2>2. \A l : l \in Missing <=> \E f \in Elems(RequiredFiles) : f \notin Files /\ l = <<"missing-file", f>>
    OBVIOUS
  <2> HIDE DEF Missing
  <2> DEFINE st(f) == <<DoOn("is-included", f), DoOn("is-not-empty", f), DoOn("is-valid", f)>>
  <2>3. StepsOf(AllRequiredFiles) = {st(f) : f \in Elems(RequiredFiles)}
    BY AllRequiredFilesSteps
  <2>4. \A f : Left(st(f)) = Left(<<DoOn("is-included", f), DoOn("is-not-empty", f), DoOn("is-valid", f)>>)
    OBVIOUS
  <2> HIDE DEF st
  <2>5. \A l : l \in LeftBy(StepsOf(AllRequiredFiles)) <=> \E f \in Elems(RequiredFiles) : l \in Left(st(f))
    BY <2>3 DEF LeftBy
  <2>6. \A l : l \in LeftBy(StepsOf(AllRequiredFiles))
               <=> \E f \in Elems(RequiredFiles) :
                 l \in Left(<<DoOn("is-included", f), DoOn("is-not-empty", f), DoOn("is-valid", f)>>)
    BY <2>4, <2>5
  <2> DEFINE L(f) == Left(<<DoOn("is-included", f), DoOn("is-not-empty", f), DoOn("is-valid", f)>>)
  <2>7. /\ \A f \in Elems(RequiredFiles) : L(f) = IF f \notin Files THEN {<<"missing-file", f>>} ELSE {}
        /\ \A l : l \in LeftBy(StepsOf(AllRequiredFiles))
                 <=> \E f \in Elems(RequiredFiles) : l \in L(f)
    BY <2>1, <2>6
  <2> HIDE DEF L
  <2>8. \A f \in Elems(RequiredFiles) : \A l : l \in L(f) <=> f \notin Files /\ l = <<"missing-file", f>>
    BY <2>7
  <2>9. \A l : l \in LeftBy(StepsOf(AllRequiredFiles)) <=> l \in Missing
    BY <2>2, <2>7, <2>8
  <2> QED
    BY <2>9
<1>14. /\ Tests = IF "junit_01.xml" \notin Files \/ "junit_01.xml" \in sub.unreadable \/ NoRequiredTests THEN {}
                 ELSE IF Required \subseteq Submitted THEN {<<"tests-verified", release>>}
                 ELSE {<<"required-tests-missing">>}
      /\ Passing = IF "junit_01.xml" \notin Files \/ "junit_01.xml" \in sub.unreadable THEN {}
                   ELSE IF Ran({"failed", "errored"}) = {} THEN {<<"no-failed-tests", release>>}
                   ELSE {<<"evidence-missing">>}
  BY TestsPresentSteps, TestsPresentComes, TestsPassSteps, TestsPassComes DEF LeftBy
<1>15. Tests \union Passing = EvidenceLabels
  <2> DEFINE junit == "junit_01.xml"
  <2>1. CASE junit \notin Files \ sub.unreadable
    BY <1>14, <2>1 DEF EvidenceLabels, Given
  <2>2. CASE junit \in Files \ sub.unreadable /\ NoRequiredTests
    BY <1>14, <2>2 DEF EvidenceLabels, Given
  <2>3. CASE junit \in Files \ sub.unreadable /\ ~NoRequiredTests
    BY <1>14, <2>3 DEF EvidenceLabels, Given
  <2> QED
    BY <2>1, <2>2, <2>3
<1>16. LeftBy(StepsOf(Feature)) =
         LeftBy(StepsOf(AllRequiredFiles)) \union Tests \union Passing
  <2>1. ASSUME NEW q \in StepsOf(Feature)
        PROVE  \/ Left(q) = {}
               \/ q \in StepsOf(AllRequiredFiles)
               \/ q \in StepsOf(TestsPresent)
               \/ q \in StepsOf(TestsPass)
    BY <1>1, <1>2, <1>3, <1>4, <1>5, <1>6, <1>7, <1>8, <1>9, <1>10, <1>11, <1>12, FeatureSteps
  <2>2. /\ StepsOf(AllRequiredFiles) \subseteq StepsOf(Feature)
        /\ StepsOf(TestsPresent) \subseteq StepsOf(Feature)
        /\ StepsOf(TestsPass) \subseteq StepsOf(Feature)
    BY FeatureSteps
  <2>3. ASSUME NEW l
        PROVE  l \in LeftBy(StepsOf(Feature))
                 <=> l \in LeftBy(StepsOf(AllRequiredFiles)) \/ l \in Tests \/ l \in Passing
    BY <2>1, <2>2, LeftByFacts
  <2> QED
    BY <2>3
<1> HIDE DEF Missing, Tests, Passing
<1>17. LeftBy(StepsOf(Feature)) = Missing \union EvidenceLabels
  BY <1>13, <1>15, <1>16
<1> QED
  BY <1>17 DEF Missing

=============================================================================
