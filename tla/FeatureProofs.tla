---------------------------- MODULE FeatureProofs ----------------------------
(***************************************************************************)
(* The feature that Suite runs, as the proofs about Suite need it: which   *)
(* elements it has, that elements of one scenario are next to each other,  *)
(* and that names and descriptions tell the scenarios apart alike.         *)
(***************************************************************************)
EXTENDS Suite, SequenceTheorems, TLAPS

IsSeq(s) == s \in Seq(Elems(s))

\* Elements of one description are next to each other.
Grouped(s) ==
  \A i, j, k \in DOMAIN s :
    i <= j /\ j <= k /\ s[i].about = s[k].about => s[j].about = s[i].about

\* s holds the n elements of one scenario.
IsScenario(s, n, name, about) ==
  /\ IsSeq(s)
  /\ Len(s) = n
  /\ \A e \in Elems(s) : e.name = name /\ e.about = about

\* The elements of a sequence, by their places.
LEMMA SeqFacts ==
  ASSUME NEW s, IsSeq(s)
  PROVE  /\ Len(s) \in Nat /\ DOMAIN s = 1 .. Len(s)
         /\ \A i \in 1 .. Len(s) : s[i] \in Elems(s)
         /\ \A e \in Elems(s) : \E i \in 1 .. Len(s) : e = s[i]
<1>1. Len(s) \in Nat /\ DOMAIN s = 1 .. Len(s)
  BY LenProperties DEF IsSeq
<1> QED
  BY <1>1 DEF Elems

\* a function on 1 .. n is a sequence
LEMMA TableIsSeq ==
  ASSUME NEW n \in Nat, NEW s, s = [i \in 1 .. n |-> s[i]]
  PROVE  IsSeq(s) /\ Len(s) = n
<1>1. s \in [1 .. n -> Elems(s)]
  BY DEF Elems
<1>2. s \in Seq(Elems(s))
  BY <1>1, SeqDef
<1>3. 1 .. Len(s) = 1 .. n /\ Len(s) \in Nat
  BY <1>1, <1>2, LenProperties
<1>4. Len(s) = n
  BY <1>3
<1> QED
  BY <1>2, <1>4 DEF IsSeq

\* s holds elements of these descriptions, those of each next to each other.
Chain(s, abouts) ==
  /\ IsSeq(s) /\ Grouped(s)
  /\ \A e \in Elems(s) : e.about \in abouts

\* One scenario more.
LEMMA Extended ==
  ASSUME NEW s, NEW abouts, Chain(s, abouts),
         NEW t, NEW n, NEW name, NEW about, IsScenario(t, n, name, about),
         about \notin abouts
  PROVE  /\ Chain(s \o t, abouts \union {about})
         /\ Len(s \o t) = Len(s) + n
         /\ Elems(s \o t) = Elems(s) \union Elems(t)
<1> DEFINE st == s \o t
           T  == Elems(s) \union Elems(t)
<1>0. /\ IsSeq(s) /\ Grouped(s)
      /\ \A e \in Elems(s) : e.about \in abouts /\ e.about # about
  BY DEF Chain
<1>1. /\ Len(s) \in Nat /\ n \in Nat /\ Len(t) = n
      /\ DOMAIN s = 1 .. Len(s) /\ DOMAIN t = 1 .. n
      /\ \A i \in 1 .. Len(s) : s[i] \in Elems(s)
      /\ \A i \in 1 .. n : t[i] \in Elems(t)
  BY <1>0, SeqFacts DEF IsScenario
<1>2. s \in Seq(T) /\ t \in Seq(T)
  BY <1>0, SeqMonotonic DEF IsSeq, IsScenario
<1>3. st \in Seq(T) /\ Len(st) = Len(s) + n
  BY <1>1, <1>2, ConcatProperties
<1>4. DOMAIN st = 1 .. Len(s) + n
  BY <1>3, LenProperties
<1>5. \A i \in 1 .. Len(s) + n : st[i] = IF i <= Len(s) THEN s[i] ELSE t[i - Len(s)]
  BY <1>1, <1>2, ConcatProperties
<1> HIDE DEF st, T
<1>6. \A i \in 1 .. Len(s) + n :
        /\ i <= Len(s) => st[i] = s[i] /\ i \in 1 .. Len(s)
        /\ i > Len(s) => i - Len(s) \in 1 .. n /\ st[i] = t[i - Len(s)]
  BY <1>1, <1>5
<1>7. Elems(st) = Elems(s) \union Elems(t)
  <2>1. ASSUME NEW e \in Elems(st) PROVE e \in Elems(s) \union Elems(t)
    <3>1. PICK i \in 1 .. Len(s) + n : e = st[i]
      BY <1>4 DEF Elems
    <3> QED
      BY <1>1, <1>6, <3>1
  <2>2. ASSUME NEW e \in Elems(s) PROVE e \in Elems(st)
    <3>1. PICK i \in 1 .. Len(s) : e = s[i]
      BY <1>1 DEF Elems
    <3>2. i \in 1 .. Len(s) + n /\ st[i] = e
      BY <1>1, <1>6, <3>1
    <3> QED
      BY <1>4, <3>2 DEF Elems
  <2>3. ASSUME NEW e \in Elems(t) PROVE e \in Elems(st)
    <3>1. PICK i \in 1 .. n : e = t[i]
      BY <1>1 DEF Elems
    <3>2. Len(s) + i \in 1 .. Len(s) + n /\ st[Len(s) + i] = e
      BY <1>1, <1>5, <3>1
    <3> QED
      BY <1>4, <3>2 DEF Elems
  <2> QED
    BY <2>1, <2>2, <2>3
<1>8. Grouped(st)
  <2> SUFFICES ASSUME NEW i \in 1 .. Len(s) + n, NEW j \in 1 .. Len(s) + n,
                      NEW k \in 1 .. Len(s) + n,
                      i <= j, j <= k, st[i].about = st[k].about
               PROVE  st[j].about = st[i].about
    BY <1>4 DEF Grouped
  <2>1. \A x \in 1 .. Len(s) + n : x <= Len(s) => st[x].about # about
    BY <1>0, <1>1, <1>6
  <2>2. \A x \in 1 .. Len(s) + n : x > Len(s) => st[x].about = about
    BY <1>1, <1>6 DEF IsScenario
  <2>3. CASE k <= Len(s)
    <3>1. i <= Len(s) /\ j <= Len(s)
      BY <1>1, <2>3
    <3> QED
      BY <1>0, <1>1, <1>6, <2>3, <3>1 DEF Grouped
  <2>4. CASE k > Len(s)
    <3>1. i > Len(s) /\ j > Len(s)
      BY <1>1, <2>1, <2>2, <2>4
    <3> QED
      BY <2>2, <3>1
  <2> QED
    BY <1>1, <2>3, <2>4
<1>9. IsSeq(st)
  BY <1>3, <1>7 DEF IsSeq, T
<1>10. \A e \in Elems(st) : e.about \in abouts \union {about}
  BY <1>0, <1>7 DEF IsScenario
<1> QED
  BY <1>3, <1>7, <1>8, <1>9, <1>10 DEF st, Chain

-----------------------------------------------------------------------------
(* The scenarios *)

\* A scenario is one element.
LEMMA ScenarioElems ==
  ASSUME NEW name, NEW about, NEW steps
  PROVE  /\ IsScenario(Scenario(name, about, steps), 1, name, about)
         /\ Elems(Scenario(name, about, steps)) = {[name |-> name, about |-> about, steps |-> steps]}
<1> DEFINE e == [name |-> name, about |-> about, steps |-> steps]
           s == <<e>>
<1>1. s = [i \in 1 .. 1 |-> s[i]]
  OBVIOUS
<1>2. Elems(s) = {e}
  BY DEF Elems
<1>3. IsSeq(s) /\ Len(s) = 1
  BY <1>1, TableIsSeq
<1> QED
  BY <1>2, <1>3 DEF Scenario, IsScenario

\* An outline is one element for each example: the required files ...
LEMMA AllRequiredFilesElems ==
  /\ IsScenario(AllRequiredFiles, 4, "all-required-files", "files-missing")
  /\ Elems(AllRequiredFiles) =
       {[name |-> "all-required-files", about |-> "files-missing",
         steps |-> <<DoOn("is-included", f), DoOn("is-not-empty", f), DoOn("is-valid", f)>>]
           : f \in Elems(RequiredFiles)}
<1> DEFINE s == [i \in 1 .. 4 |->
                   [name |-> "all-required-files", about |-> "files-missing",
                    steps |-> <<DoOn("is-included", RequiredFiles[i]),
                               DoOn("is-not-empty", RequiredFiles[i]),
                               DoOn("is-valid", RequiredFiles[i])>>]]
<1>1. AllRequiredFiles = s /\ DOMAIN RequiredFiles = 1 .. 4
  BY DEF AllRequiredFiles, Outline, RequiredFiles
<1>2. s = [i \in 1 .. 4 |-> s[i]]
  OBVIOUS
<1>3. IsSeq(s) /\ Len(s) = 4
  BY <1>2, TableIsSeq
<1>4. Elems(s) = {[name |-> "all-required-files", about |-> "files-missing",
                   steps |-> <<DoOn("is-included", f), DoOn("is-not-empty", f), DoOn("is-valid", f)>>]
                     : f \in Elems(RequiredFiles)}
  BY <1>1 DEF Elems
<1> HIDE DEF s
<1>5. ASSUME NEW e \in Elems(s) PROVE e.name = "all-required-files" /\ e.about = "files-missing"
  <2>1. PICK f \in Elems(RequiredFiles) :
          e = [name |-> "all-required-files", about |-> "files-missing",
               steps |-> <<DoOn("is-included", f), DoOn("is-not-empty", f), DoOn("is-valid", f)>>]
    BY <1>4
  <2> QED
    BY <2>1
<1> QED
  BY <1>1, <1>3, <1>4, <1>5 DEF IsScenario

\* ... the required fields ...
LEMMA AllRequiredFieldsElems ==
  /\ IsScenario(AllRequiredFields, 8, "all-required-fields", "fields-missing")
  /\ Elems(AllRequiredFields) =
       {[name |-> "all-required-fields", about |-> "fields-missing",
         steps |-> <<DoOn("a-file", "PRODUCT.yaml"), DoOn("contains-field", f)>>] : f \in Elems(RequiredFields)}
<1> DEFINE s == [i \in 1 .. 8 |->
                   [name |-> "all-required-fields", about |-> "fields-missing",
                    steps |-> <<DoOn("a-file", "PRODUCT.yaml"), DoOn("contains-field", RequiredFields[i])>>]]
<1>1. AllRequiredFields = s /\ DOMAIN RequiredFields = 1 .. 8
  BY DEF AllRequiredFields, Outline, RequiredFields
<1>2. s = [i \in 1 .. 8 |-> s[i]]
  OBVIOUS
<1>3. IsSeq(s) /\ Len(s) = 8
  BY <1>2, TableIsSeq
<1>4. Elems(s) = {[name |-> "all-required-fields", about |-> "fields-missing",
                   steps |-> <<DoOn("a-file", "PRODUCT.yaml"), DoOn("contains-field", f)>>]
                     : f \in Elems(RequiredFields)}
  BY <1>1 DEF Elems
<1> HIDE DEF s
<1>5. ASSUME NEW e \in Elems(s) PROVE e.name = "all-required-fields" /\ e.about = "fields-missing"
  <2>1. PICK f \in Elems(RequiredFields) :
          e = [name |-> "all-required-fields", about |-> "fields-missing",
               steps |-> <<DoOn("a-file", "PRODUCT.yaml"), DoOn("contains-field", f)>>]
    BY <1>4
  <2> QED
    BY <2>1
<1> QED
  BY <1>1, <1>3, <1>4, <1>5 DEF IsScenario

\* ... the addresses ...
LEMMA ValidAddressesElems ==
  /\ IsScenario(ValidAddresses, 5, "addresses-are-valid", "fields-not-correctly-formatted")
  /\ Elems(ValidAddresses) =
       {[name |-> "addresses-are-valid", about |-> "fields-not-correctly-formatted",
         steps |-> <<DoOn("a-file", "PRODUCT.yaml"), DoOn("valid-address", f)>>] : f \in Elems(AddressFields)}
<1> DEFINE s == [i \in 1 .. 5 |->
                   [name |-> "addresses-are-valid", about |-> "fields-not-correctly-formatted",
                    steps |-> <<DoOn("a-file", "PRODUCT.yaml"), DoOn("valid-address", AddressFields[i])>>]]
<1>1. ValidAddresses = s /\ DOMAIN AddressFields = 1 .. 5
  BY DEF ValidAddresses, Outline, AddressFields
<1>2. s = [i \in 1 .. 5 |-> s[i]]
  OBVIOUS
<1>3. IsSeq(s) /\ Len(s) = 5
  BY <1>2, TableIsSeq
<1>4. Elems(s) = {[name |-> "addresses-are-valid", about |-> "fields-not-correctly-formatted",
                   steps |-> <<DoOn("a-file", "PRODUCT.yaml"), DoOn("valid-address", f)>>]
                     : f \in Elems(AddressFields)}
  BY <1>1 DEF Elems
<1> HIDE DEF s
<1>5. ASSUME NEW e \in Elems(s)
               PROVE e.name = "addresses-are-valid" /\ e.about = "fields-not-correctly-formatted"
  <2>1. PICK f \in Elems(AddressFields) :
          e = [name |-> "addresses-are-valid", about |-> "fields-not-correctly-formatted",
               steps |-> <<DoOn("a-file", "PRODUCT.yaml"), DoOn("valid-address", f)>>]
    BY <1>4
  <2> QED
    BY <2>1
<1> QED
  BY <1>1, <1>3, <1>4, <1>5 DEF IsScenario

\* ... and the links.
LEMMA LinksResolveElems ==
  /\ IsScenario(LinksResolve, 3, "URLs-resolve", "URLs-of-a-wrong-data-type")
  /\ Elems(LinksResolve) =
       {[name |-> "URLs-resolve", about |-> "URLs-of-a-wrong-data-type",
         steps |-> <<DoOn("a-file", "PRODUCT.yaml"), DoOn("resolves-to-text/html", f)>>]
           : f \in Elems(LinkFields)}
<1> DEFINE s == [i \in 1 .. 3 |->
                   [name |-> "URLs-resolve", about |-> "URLs-of-a-wrong-data-type",
                    steps |-> <<DoOn("a-file", "PRODUCT.yaml"), DoOn("resolves-to-text/html", LinkFields[i])>>]]
<1>1. LinksResolve = s /\ DOMAIN LinkFields = 1 .. 3
  BY DEF LinksResolve, Outline, LinkFields
<1>2. s = [i \in 1 .. 3 |-> s[i]]
  OBVIOUS
<1>3. IsSeq(s) /\ Len(s) = 3
  BY <1>2, TableIsSeq
<1>4. Elems(s) = {[name |-> "URLs-resolve", about |-> "URLs-of-a-wrong-data-type",
                   steps |-> <<DoOn("a-file", "PRODUCT.yaml"), DoOn("resolves-to-text/html", f)>>]
                     : f \in Elems(LinkFields)}
  BY <1>1 DEF Elems
<1> HIDE DEF s
<1>5. ASSUME NEW e \in Elems(s) PROVE e.name = "URLs-resolve" /\ e.about = "URLs-of-a-wrong-data-type"
  <2>1. PICK f \in Elems(LinkFields) :
          e = [name |-> "URLs-resolve", about |-> "URLs-of-a-wrong-data-type",
               steps |-> <<DoOn("a-file", "PRODUCT.yaml"), DoOn("resolves-to-text/html", f)>>]
    BY <1>4
  <2> QED
    BY <2>1
<1> QED
  BY <1>1, <1>3, <1>4, <1>5 DEF IsScenario

\* name and description of every scenario
ScenarioOf(e) ==
  <<e.name, e.about>> \in
    { <<"title-is-not-empty", "no-title">>,
      <<"all-required-files", "files-missing">>,
      <<"only-required-files", "undescribed">>,
      <<"file-structure", "folder-does-not-match">>,
      <<"one-product", "several-products">>,
      <<"release-in-title", "title-does-not-match-folder">>,
      <<"all-required-fields", "fields-missing">>,
      <<"addresses-are-valid", "fields-not-correctly-formatted">>,
      <<"URLs-resolve", "URLs-of-a-wrong-data-type">>,
      <<"type-is-valid", "type-does-not-match">>,
      <<"title-has-release-and-product", "title-lacks-them">>,
      <<"supported-release", "release-does-not-qualify">>,
      <<"required-tests-present", "tests-missing">>,
      <<"all-tests-pass", "tests-failed">>,
      <<"one-commit", "not-exactly-one-commit">> }

\* How many elements each scenario has, and under which name and description.
LEMMA Scenarios ==
  /\ IsScenario(TitleNotEmpty, 1, "title-is-not-empty", "no-title")
  /\ IsScenario(AllRequiredFiles, 4, "all-required-files", "files-missing")
  /\ IsScenario(OnlyRequiredFiles, 1, "only-required-files", "undescribed")
  /\ IsScenario(FileStructure, 1, "file-structure", "folder-does-not-match")
  /\ IsScenario(OneProduct, 1, "one-product", "several-products")
  /\ IsScenario(ReleaseInTitle, 1, "release-in-title", "title-does-not-match-folder")
  /\ IsScenario(AllRequiredFields, 8, "all-required-fields", "fields-missing")
  /\ IsScenario(ValidAddresses, 5, "addresses-are-valid", "fields-not-correctly-formatted")
  /\ IsScenario(LinksResolve, 3, "URLs-resolve", "URLs-of-a-wrong-data-type")
  /\ IsScenario(ValidType, 1, "type-is-valid", "type-does-not-match")
  /\ IsScenario(TitleHasRelease, 1, "title-has-release-and-product", "title-lacks-them")
  /\ IsScenario(SupportedRelease, 1, "supported-release", "release-does-not-qualify")
  /\ IsScenario(TestsPresent, 1, "required-tests-present", "tests-missing")
  /\ IsScenario(TestsPass, 1, "all-tests-pass", "tests-failed")
  /\ IsScenario(OneCommit, 1, "one-commit", "not-exactly-one-commit")
  BY ScenarioElems, AllRequiredFilesElems, AllRequiredFieldsElems, ValidAddressesElems, LinksResolveElems
     DEF TitleNotEmpty, OnlyRequiredFiles, FileStructure, OneProduct, ReleaseInTitle, ValidType,
       TitleHasRelease, SupportedRelease, TestsPresent, TestsPass, OneCommit

\* The feature has 31 elements, those of the scenarios.
LEMMA FeatureElems ==
  /\ IsSeq(Feature) /\ Grouped(Feature) /\ Len(Feature) = 31
  /\ Elems(Feature) = UNION {Elems(TitleNotEmpty), Elems(AllRequiredFiles), Elems(OnlyRequiredFiles),
       Elems(FileStructure), Elems(OneProduct), Elems(ReleaseInTitle),
       Elems(AllRequiredFields), Elems(ValidAddresses), Elems(LinksResolve),
       Elems(ValidType), Elems(TitleHasRelease), Elems(SupportedRelease),
       Elems(TestsPresent), Elems(TestsPass), Elems(OneCommit)}
  /\ \A e \in Elems(Feature) : ScenarioOf(e)
<1> DEFINE F1 == TitleNotEmpty
           F2 == F1 \o AllRequiredFiles
           F3 == F2 \o OnlyRequiredFiles
           F4 == F3 \o FileStructure
           F5 == F4 \o OneProduct
           F6 == F5 \o ReleaseInTitle
           F7 == F6 \o AllRequiredFields
           F8 == F7 \o ValidAddresses
           F9 == F8 \o LinksResolve
           F10 == F9 \o ValidType
           F11 == F10 \o TitleHasRelease
           F12 == F11 \o SupportedRelease
           F13 == F12 \o TestsPresent
           F14 == F13 \o TestsPass
           F15 == F14 \o OneCommit
           A1 == {"no-title"}
           A2 == A1 \union {"files-missing"}
           A3 == A2 \union {"undescribed"}
           A4 == A3 \union {"folder-does-not-match"}
           A5 == A4 \union {"several-products"}
           A6 == A5 \union {"title-does-not-match-folder"}
           A7 == A6 \union {"fields-missing"}
           A8 == A7 \union {"fields-not-correctly-formatted"}
           A9 == A8 \union {"URLs-of-a-wrong-data-type"}
           A10 == A9 \union {"type-does-not-match"}
           A11 == A10 \union {"title-lacks-them"}
           A12 == A11 \union {"release-does-not-qualify"}
           A13 == A12 \union {"tests-missing"}
           A14 == A13 \union {"tests-failed"}
<1> HIDE DEF F1, F2, F3, F4, F5, F6, F7, F8, F9, F10, F11, F12, F13, F14, F15,
           A1, A2, A3, A4, A5, A6, A7, A8, A9, A10, A11, A12, A13, A14
<1>1. Chain(F1, A1) /\ Len(F1) = 1
  <2>1. IsSeq(F1) /\ Len(F1) = 1 /\ \A e \in Elems(F1) : e.about \in A1
    BY Scenarios DEF IsScenario, F1, A1
  <2> QED
    BY <2>1, SeqFacts DEF Chain, Grouped
<1>2. Chain(F2, A2) /\ Len(F2) = 5 /\ Elems(F2) = Elems(F1) \union Elems(AllRequiredFiles)
  <2>1. "files-missing" \notin A1
    BY DEF A1
  <2>2. IsScenario(AllRequiredFiles, 4, "all-required-files", "files-missing")
    BY Scenarios
  <2>3. /\ Chain(F1 \o AllRequiredFiles, A1 \union {"files-missing"})
        /\ Len(F1 \o AllRequiredFiles) = Len(F1) + 4
        /\ Elems(F1 \o AllRequiredFiles) = Elems(F1) \union Elems(AllRequiredFiles)
    BY <1>1, <2>1, <2>2, Extended
  <2>4. F2 = F1 \o AllRequiredFiles /\ A2 = A1 \union {"files-missing"}
    BY DEF F2, A2
  <2> QED
    BY <1>1, <2>3, <2>4
<1>3. Chain(F3, A3) /\ Len(F3) = 6 /\ Elems(F3) = Elems(F2) \union Elems(OnlyRequiredFiles)
  <2>1. "undescribed" \notin A2
    BY DEF A1, A2
  <2>2. IsScenario(OnlyRequiredFiles, 1, "only-required-files", "undescribed")
    BY Scenarios
  <2>3. /\ Chain(F2 \o OnlyRequiredFiles, A2 \union {"undescribed"})
        /\ Len(F2 \o OnlyRequiredFiles) = Len(F2) + 1
        /\ Elems(F2 \o OnlyRequiredFiles) = Elems(F2) \union Elems(OnlyRequiredFiles)
    BY <1>2, <2>1, <2>2, Extended
  <2>4. F3 = F2 \o OnlyRequiredFiles /\ A3 = A2 \union {"undescribed"}
    BY DEF F3, A3
  <2> QED
    BY <1>2, <2>3, <2>4
<1>4. Chain(F4, A4) /\ Len(F4) = 7 /\ Elems(F4) = Elems(F3) \union Elems(FileStructure)
  <2>1. "folder-does-not-match" \notin A3
    BY DEF A1, A2, A3
  <2>2. IsScenario(FileStructure, 1, "file-structure", "folder-does-not-match")
    BY Scenarios
  <2>3. /\ Chain(F3 \o FileStructure, A3 \union {"folder-does-not-match"})
        /\ Len(F3 \o FileStructure) = Len(F3) + 1
        /\ Elems(F3 \o FileStructure) = Elems(F3) \union Elems(FileStructure)
    BY <1>3, <2>1, <2>2, Extended
  <2>4. F4 = F3 \o FileStructure /\ A4 = A3 \union {"folder-does-not-match"}
    BY DEF F4, A4
  <2> QED
    BY <1>3, <2>3, <2>4
<1>5. Chain(F5, A5) /\ Len(F5) = 8 /\ Elems(F5) = Elems(F4) \union Elems(OneProduct)
  <2>1. "several-products" \notin A4
    BY DEF A1, A2, A3, A4
  <2>2. IsScenario(OneProduct, 1, "one-product", "several-products")
    BY Scenarios
  <2>3. /\ Chain(F4 \o OneProduct, A4 \union {"several-products"})
        /\ Len(F4 \o OneProduct) = Len(F4) + 1
        /\ Elems(F4 \o OneProduct) = Elems(F4) \union Elems(OneProduct)
    BY <1>4, <2>1, <2>2, Extended
  <2>4. F5 = F4 \o OneProduct /\ A5 = A4 \union {"several-products"}
    BY DEF F5, A5
  <2> QED
    BY <1>4, <2>3, <2>4
<1>6. Chain(F6, A6) /\ Len(F6) = 9 /\ Elems(F6) = Elems(F5) \union Elems(ReleaseInTitle)
  <2>1. "title-does-not-match-folder" \notin A5
    BY DEF A1, A2, A3, A4, A5
  <2>2. IsScenario(ReleaseInTitle, 1, "release-in-title", "title-does-not-match-folder")
    BY Scenarios
  <2>3. /\ Chain(F5 \o ReleaseInTitle, A5 \union {"title-does-not-match-folder"})
        /\ Len(F5 \o ReleaseInTitle) = Len(F5) + 1
        /\ Elems(F5 \o ReleaseInTitle) = Elems(F5) \union Elems(ReleaseInTitle)
    BY <1>5, <2>1, <2>2, Extended
  <2>4. F6 = F5 \o ReleaseInTitle /\ A6 = A5 \union {"title-does-not-match-folder"}
    BY DEF F6, A6
  <2> QED
    BY <1>5, <2>3, <2>4
<1>7. Chain(F7, A7) /\ Len(F7) = 17 /\ Elems(F7) = Elems(F6) \union Elems(AllRequiredFields)
  <2>1. "fields-missing" \notin A6
    BY DEF A1, A2, A3, A4, A5, A6
  <2>2. IsScenario(AllRequiredFields, 8, "all-required-fields", "fields-missing")
    BY Scenarios
  <2>3. /\ Chain(F6 \o AllRequiredFields, A6 \union {"fields-missing"})
        /\ Len(F6 \o AllRequiredFields) = Len(F6) + 8
        /\ Elems(F6 \o AllRequiredFields) = Elems(F6) \union Elems(AllRequiredFields)
    BY <1>6, <2>1, <2>2, Extended
  <2>4. F7 = F6 \o AllRequiredFields /\ A7 = A6 \union {"fields-missing"}
    BY DEF F7, A7
  <2> QED
    BY <1>6, <2>3, <2>4
<1>8. Chain(F8, A8) /\ Len(F8) = 22 /\ Elems(F8) = Elems(F7) \union Elems(ValidAddresses)
  <2>1. "fields-not-correctly-formatted" \notin A7
    BY DEF A1, A2, A3, A4, A5, A6, A7
  <2>2. IsScenario(ValidAddresses, 5, "addresses-are-valid", "fields-not-correctly-formatted")
    BY Scenarios
  <2>3. /\ Chain(F7 \o ValidAddresses, A7 \union {"fields-not-correctly-formatted"})
        /\ Len(F7 \o ValidAddresses) = Len(F7) + 5
        /\ Elems(F7 \o ValidAddresses) = Elems(F7) \union Elems(ValidAddresses)
    BY <1>7, <2>1, <2>2, Extended
  <2>4. F8 = F7 \o ValidAddresses /\ A8 = A7 \union {"fields-not-correctly-formatted"}
    BY DEF F8, A8
  <2> QED
    BY <1>7, <2>3, <2>4
<1>9. Chain(F9, A9) /\ Len(F9) = 25 /\ Elems(F9) = Elems(F8) \union Elems(LinksResolve)
  <2>1. "URLs-of-a-wrong-data-type" \notin A8
    BY DEF A1, A2, A3, A4, A5, A6, A7, A8
  <2>2. IsScenario(LinksResolve, 3, "URLs-resolve", "URLs-of-a-wrong-data-type")
    BY Scenarios
  <2>3. /\ Chain(F8 \o LinksResolve, A8 \union {"URLs-of-a-wrong-data-type"})
        /\ Len(F8 \o LinksResolve) = Len(F8) + 3
        /\ Elems(F8 \o LinksResolve) = Elems(F8) \union Elems(LinksResolve)
    BY <1>8, <2>1, <2>2, Extended
  <2>4. F9 = F8 \o LinksResolve /\ A9 = A8 \union {"URLs-of-a-wrong-data-type"}
    BY DEF F9, A9
  <2> QED
    BY <1>8, <2>3, <2>4
<1>10. Chain(F10, A10) /\ Len(F10) = 26 /\ Elems(F10) = Elems(F9) \union Elems(ValidType)
  <2>1. "type-does-not-match" \notin A9
    BY DEF A1, A2, A3, A4, A5, A6, A7, A8, A9
  <2>2. IsScenario(ValidType, 1, "type-is-valid", "type-does-not-match")
    BY Scenarios
  <2>3. /\ Chain(F9 \o ValidType, A9 \union {"type-does-not-match"})
        /\ Len(F9 \o ValidType) = Len(F9) + 1
        /\ Elems(F9 \o ValidType) = Elems(F9) \union Elems(ValidType)
    BY <1>9, <2>1, <2>2, Extended
  <2>4. F10 = F9 \o ValidType /\ A10 = A9 \union {"type-does-not-match"}
    BY DEF F10, A10
  <2> QED
    BY <1>9, <2>3, <2>4
<1>11. Chain(F11, A11) /\ Len(F11) = 27 /\ Elems(F11) = Elems(F10) \union Elems(TitleHasRelease)
  <2>1. "title-lacks-them" \notin A10
    BY DEF A1, A2, A3, A4, A5, A6, A7, A8, A9, A10
  <2>2. IsScenario(TitleHasRelease, 1, "title-has-release-and-product", "title-lacks-them")
    BY Scenarios
  <2>3. /\ Chain(F10 \o TitleHasRelease, A10 \union {"title-lacks-them"})
        /\ Len(F10 \o TitleHasRelease) = Len(F10) + 1
        /\ Elems(F10 \o TitleHasRelease) = Elems(F10) \union Elems(TitleHasRelease)
    BY <1>10, <2>1, <2>2, Extended
  <2>4. F11 = F10 \o TitleHasRelease /\ A11 = A10 \union {"title-lacks-them"}
    BY DEF F11, A11
  <2> QED
    BY <1>10, <2>3, <2>4
<1>12. Chain(F12, A12) /\ Len(F12) = 28 /\ Elems(F12) = Elems(F11) \union Elems(SupportedRelease)
  <2>1. "release-does-not-qualify" \notin A11
    BY DEF A1, A2, A3, A4, A5, A6, A7, A8, A9, A10, A11
  <2>2. IsScenario(SupportedRelease, 1, "supported-release", "release-does-not-qualify")
    BY Scenarios
  <2>3. /\ Chain(F11 \o SupportedRelease, A11 \union {"release-does-not-qualify"})
        /\ Len(F11 \o SupportedRelease) = Len(F11) + 1
        /\ Elems(F11 \o SupportedRelease) = Elems(F11) \union Elems(SupportedRelease)
    BY <1>11, <2>1, <2>2, Extended
  <2>4. F12 = F11 \o SupportedRelease /\ A12 = A11 \union {"release-does-not-qualify"}
    BY DEF F12, A12
  <2> QED
    BY <1>11, <2>3, <2>4
<1>13. Chain(F13, A13) /\ Len(F13) = 29 /\ Elems(F13) = Elems(F12) \union Elems(TestsPresent)
  <2>1. "tests-missing" \notin A12
    BY DEF A1, A2, A3, A4, A5, A6, A7, A8, A9, A10, A11, A12
  <2>2. IsScenario(TestsPresent, 1, "required-tests-present", "tests-missing")
    BY Scenarios
  <2>3. /\ Chain(F12 \o TestsPresent, A12 \union {"tests-missing"})
        /\ Len(F12 \o TestsPresent) = Len(F12) + 1
        /\ Elems(F12 \o TestsPresent) = Elems(F12) \union Elems(TestsPresent)
    BY <1>12, <2>1, <2>2, Extended
  <2>4. F13 = F12 \o TestsPresent /\ A13 = A12 \union {"tests-missing"}
    BY DEF F13, A13
  <2> QED
    BY <1>12, <2>3, <2>4
<1>14. Chain(F14, A14) /\ Len(F14) = 30 /\ Elems(F14) = Elems(F13) \union Elems(TestsPass)
  <2>1. "tests-failed" \notin A13
    BY DEF A1, A2, A3, A4, A5, A6, A7, A8, A9, A10, A11, A12, A13
  <2>2. IsScenario(TestsPass, 1, "all-tests-pass", "tests-failed")
    BY Scenarios
  <2>3. /\ Chain(F13 \o TestsPass, A13 \union {"tests-failed"})
        /\ Len(F13 \o TestsPass) = Len(F13) + 1
        /\ Elems(F13 \o TestsPass) = Elems(F13) \union Elems(TestsPass)
    BY <1>13, <2>1, <2>2, Extended
  <2>4. F14 = F13 \o TestsPass /\ A14 = A13 \union {"tests-failed"}
    BY DEF F14, A14
  <2> QED
    BY <1>13, <2>3, <2>4
<1>15. /\ Chain(F15, A14 \union {"not-exactly-one-commit"})
       /\ Len(F15) = 31 /\ Elems(F15) = Elems(F14) \union Elems(OneCommit)
  <2>1. "not-exactly-one-commit" \notin A14
    BY DEF A1, A2, A3, A4, A5, A6, A7, A8, A9, A10, A11, A12, A13, A14
  <2>2. IsScenario(OneCommit, 1, "one-commit", "not-exactly-one-commit")
    BY Scenarios
  <2>3. /\ Chain(F14 \o OneCommit, A14 \union {"not-exactly-one-commit"})
        /\ Len(F14 \o OneCommit) = Len(F14) + 1
        /\ Elems(F14 \o OneCommit) = Elems(F14) \union Elems(OneCommit)
    BY <1>14, <2>1, <2>2, Extended
  <2>4. F15 = F14 \o OneCommit
    BY DEF F15
  <2> QED
    BY <1>14, <2>3, <2>4
<1>16. Feature = F15
  BY DEF Feature, F1, F2, F3, F4, F5, F6, F7, F8, F9, F10, F11, F12, F13, F14, F15
<1>17. Elems(Feature) = UNION {Elems(TitleNotEmpty), Elems(AllRequiredFiles), Elems(OnlyRequiredFiles),
              Elems(FileStructure), Elems(OneProduct), Elems(ReleaseInTitle),
              Elems(AllRequiredFields), Elems(ValidAddresses), Elems(LinksResolve),
              Elems(ValidType), Elems(TitleHasRelease), Elems(SupportedRelease),
              Elems(TestsPresent), Elems(TestsPass), Elems(OneCommit)}
  BY <1>2, <1>3, <1>4, <1>5, <1>6, <1>7, <1>8, <1>9, <1>10, <1>11, <1>12, <1>13, <1>14, <1>15, <1>16 DEF F1
<1>18. ASSUME NEW e \in Elems(Feature) PROVE ScenarioOf(e)
  BY <1>17, Scenarios DEF ScenarioOf, IsScenario
<1> QED
  BY <1>15, <1>16, <1>17, <1>18 DEF Chain

-----------------------------------------------------------------------------
(* The steps of its elements *)

StepsOf(s) == {e.steps : e \in Elems(s)}

\* A scenario has one sequence of steps ...
LEMMA ScenarioSteps ==
  ASSUME NEW name, NEW about, NEW steps
  PROVE  StepsOf(Scenario(name, about, steps)) = {steps}
<1> DEFINE e == [name |-> name, about |-> about, steps |-> steps]
<1>1. Elems(Scenario(name, about, steps)) = {e} /\ e.steps = steps
  BY ScenarioElems
<1> HIDE DEF e
<1> QED
  BY <1>1 DEF StepsOf

\* ... which is, scenario by scenario, in the order of the feature:
LEMMA TitleNotEmptySteps ==
  StepsOf(TitleNotEmpty) = {<<Do("a-PR-title"), Do("the-PR-title-is-not-empty")>>}
  BY ScenarioSteps DEF TitleNotEmpty

\* three steps for each required file,
LEMMA AllRequiredFilesSteps ==
  StepsOf(AllRequiredFiles) =
    {<<DoOn("is-included", f), DoOn("is-not-empty", f), DoOn("is-valid", f)>> : f \in Elems(RequiredFiles)}
<1> DEFINE steps(f) == <<DoOn("is-included", f), DoOn("is-not-empty", f), DoOn("is-valid", f)>>
           e(f) == [name |-> "all-required-files", about |-> "files-missing", steps |-> steps(f)]
<1>1. Elems(AllRequiredFiles) = {e(f) : f \in Elems(RequiredFiles)}
  BY AllRequiredFilesElems
<1>2. \A f : e(f).steps = steps(f)
  OBVIOUS
<1> HIDE DEF e, steps
<1>3. StepsOf(AllRequiredFiles) = {steps(f) : f \in Elems(RequiredFiles)}
  BY <1>1, <1>2 DEF StepsOf
<1> QED
  BY <1>3 DEF steps

\* the files of the submission are only the required ones,
LEMMA OnlyRequiredFilesSteps ==
  StepsOf(OnlyRequiredFiles) = {<<Do("the-files-in-the-PR"), Do("the-files-are-only")>>}
  BY ScenarioSteps DEF OnlyRequiredFiles

\* the folders are well-formed,
LEMMA FileStructureSteps ==
  StepsOf(FileStructure) = {<<Do("the-files-in-the-PR"), Do("folder-structure")>>}
  BY ScenarioSteps DEF FileStructure

\* there is one folder,
LEMMA OneProductSteps ==
  StepsOf(OneProduct) = {<<Do("the-files-in-the-PR"), Do("only-one-path")>>}
  BY ScenarioSteps DEF OneProduct

\* title and folder name the same release,
LEMMA ReleaseInTitleSteps ==
  StepsOf(ReleaseInTitle) = {<<Do("the-files-in-the-PR"), Do("the-title"), Do("release-in-title")>>}
  BY ScenarioSteps DEF ReleaseInTitle

\* two steps for each required field,
LEMMA AllRequiredFieldsSteps ==
  StepsOf(AllRequiredFields) = {<<DoOn("a-file", "PRODUCT.yaml"), DoOn("contains-field", f)>> :
    f \in Elems(RequiredFields)}
<1> DEFINE steps(f) == <<DoOn("a-file", "PRODUCT.yaml"), DoOn("contains-field", f)>>
           e(f) == [name |-> "all-required-fields", about |-> "fields-missing", steps |-> steps(f)]
<1>1. Elems(AllRequiredFields) = {e(f) : f \in Elems(RequiredFields)}
  BY AllRequiredFieldsElems
<1>2. \A f : e(f).steps = steps(f)
  OBVIOUS
<1> HIDE DEF e, steps
<1>3. StepsOf(AllRequiredFields) = {steps(f) : f \in Elems(RequiredFields)}
  BY <1>1, <1>2 DEF StepsOf
<1> QED
  BY <1>3 DEF steps

\* two for each address,
LEMMA ValidAddressesSteps ==
  StepsOf(ValidAddresses) = {<<DoOn("a-file", "PRODUCT.yaml"), DoOn("valid-address", f)>> :
    f \in Elems(AddressFields)}
<1> DEFINE steps(f) == <<DoOn("a-file", "PRODUCT.yaml"), DoOn("valid-address", f)>>
           e(f) == [name |-> "addresses-are-valid", about |-> "fields-not-correctly-formatted",
             steps |-> steps(f)]
<1>1. Elems(ValidAddresses) = {e(f) : f \in Elems(AddressFields)}
  BY ValidAddressesElems
<1>2. \A f : e(f).steps = steps(f)
  OBVIOUS
<1> HIDE DEF e, steps
<1>3. StepsOf(ValidAddresses) = {steps(f) : f \in Elems(AddressFields)}
  BY <1>1, <1>2 DEF StepsOf
<1> QED
  BY <1>3 DEF steps

\* two for each link,
LEMMA LinksResolveSteps ==
  StepsOf(LinksResolve) = {<<DoOn("a-file", "PRODUCT.yaml"), DoOn("resolves-to-text/html", f)>> :
    f \in Elems(LinkFields)}
<1> DEFINE steps(f) == <<DoOn("a-file", "PRODUCT.yaml"), DoOn("resolves-to-text/html", f)>>
           e(f) == [name |-> "URLs-resolve", about |-> "URLs-of-a-wrong-data-type", steps |-> steps(f)]
<1>1. Elems(LinksResolve) = {e(f) : f \in Elems(LinkFields)}
  BY LinksResolveElems
<1>2. \A f : e(f).steps = steps(f)
  OBVIOUS
<1> HIDE DEF e, steps
<1>3. StepsOf(LinksResolve) = {steps(f) : f \in Elems(LinkFields)}
  BY <1>1, <1>2 DEF StepsOf
<1> QED
  BY <1>3 DEF steps

\* the type is a listed one,
LEMMA ValidTypeSteps ==
  StepsOf(ValidType) = {<<DoOn("a-file", "PRODUCT.yaml"), Do("type-is-one-of")>>}
  BY ScenarioSteps DEF ValidType

\* the title names a release,
LEMMA TitleHasReleaseSteps ==
  StepsOf(TitleHasRelease) = {<<Do("the-title"), Do("title-matches")>>}
  BY ScenarioSteps DEF TitleHasRelease

\* the release is supported,
LEMMA SupportedReleaseSteps ==
  StepsOf(SupportedRelease) =
    {<<Do("the-release-version"), Do("the-files-in-the-PR"), Do("supported-release")>>}
  BY ScenarioSteps DEF SupportedRelease

\* the required tests are there,
LEMMA TestsPresentSteps ==
  StepsOf(TestsPresent) = {<<DoOn("a-file", "junit_01.xml"), Do("required-tests-in-junit")>>}
  BY ScenarioSteps DEF TestsPresent

\* they pass,
LEMMA TestsPassSteps ==
  StepsOf(TestsPass) = {<<DoOn("a-file", "junit_01.xml"), Do("tests-pass"), Do("required-tests-passed")>>}
  BY ScenarioSteps DEF TestsPass

\* and there is one commit.
LEMMA OneCommitSteps ==
  StepsOf(OneCommit) = {<<Do("a-list-of-commits"), Do("only-one-commit")>>}
  BY ScenarioSteps DEF OneCommit

\* Pairs and triples have up to three places.
LEMMA TupleCount ==
  /\ \A a, b : Len(<<a, b>>) \in 1 .. 3 /\ DOMAIN <<a, b>> = 1 .. Len(<<a, b>>)
  /\ \A a, b, c : Len(<<a, b, c>>) \in 1 .. 3 /\ DOMAIN <<a, b, c>> = 1 .. Len(<<a, b, c>>)
  OBVIOUS

\* The steps of the feature are those of its scenarios.
LEMMA FeatureSteps ==
  StepsOf(Feature) = UNION {StepsOf(TitleNotEmpty), StepsOf(AllRequiredFiles), StepsOf(OnlyRequiredFiles),
       StepsOf(FileStructure), StepsOf(OneProduct), StepsOf(ReleaseInTitle),
       StepsOf(AllRequiredFields), StepsOf(ValidAddresses), StepsOf(LinksResolve),
       StepsOf(ValidType), StepsOf(TitleHasRelease), StepsOf(SupportedRelease),
       StepsOf(TestsPresent), StepsOf(TestsPass), StepsOf(OneCommit)}
  BY FeatureElems DEF StepsOf

\* An element has between one and three steps.
LEMMA StepCount ==
  ASSUME NEW q \in StepsOf(Feature)
  PROVE  Len(q) \in 1 .. 3 /\ DOMAIN q = 1 .. Len(q)
<1>1. CASE q \in StepsOf(TitleNotEmpty)
  <2>1. q = <<Do("a-PR-title"), Do("the-PR-title-is-not-empty")>>
    BY <1>1, TitleNotEmptySteps
  <2> QED
    BY <2>1, TupleCount
<1>2. CASE q \in StepsOf(AllRequiredFiles)
  <2>1. PICK f \in Elems(RequiredFiles) :
          q = <<DoOn("is-included", f), DoOn("is-not-empty", f), DoOn("is-valid", f)>>
    BY <1>2, AllRequiredFilesSteps
  <2> QED
    BY <2>1, TupleCount
<1>3. CASE q \in StepsOf(OnlyRequiredFiles)
  <2>1. q = <<Do("the-files-in-the-PR"), Do("the-files-are-only")>>
    BY <1>3, OnlyRequiredFilesSteps
  <2> QED
    BY <2>1, TupleCount
<1>4. CASE q \in StepsOf(FileStructure)
  <2>1. q = <<Do("the-files-in-the-PR"), Do("folder-structure")>>
    BY <1>4, FileStructureSteps
  <2> QED
    BY <2>1, TupleCount
<1>5. CASE q \in StepsOf(OneProduct)
  <2>1. q = <<Do("the-files-in-the-PR"), Do("only-one-path")>>
    BY <1>5, OneProductSteps
  <2> QED
    BY <2>1, TupleCount
<1>6. CASE q \in StepsOf(ReleaseInTitle)
  <2>1. q = <<Do("the-files-in-the-PR"), Do("the-title"), Do("release-in-title")>>
    BY <1>6, ReleaseInTitleSteps
  <2> QED
    BY <2>1, TupleCount
<1>7. CASE q \in StepsOf(AllRequiredFields)
  <2>1. PICK f \in Elems(RequiredFields) : q = <<DoOn("a-file", "PRODUCT.yaml"), DoOn("contains-field", f)>>
    BY <1>7, AllRequiredFieldsSteps
  <2> QED
    BY <2>1, TupleCount
<1>8. CASE q \in StepsOf(ValidAddresses)
  <2>1. PICK f \in Elems(AddressFields) : q = <<DoOn("a-file", "PRODUCT.yaml"), DoOn("valid-address", f)>>
    BY <1>8, ValidAddressesSteps
  <2> QED
    BY <2>1, TupleCount
<1>9. CASE q \in StepsOf(LinksResolve)
  <2>1. PICK f \in Elems(LinkFields) : q = <<DoOn("a-file", "PRODUCT.yaml"), DoOn("resolves-to-text/html", f)>>
    BY <1>9, LinksResolveSteps
  <2> QED
    BY <2>1, TupleCount
<1>10. CASE q \in StepsOf(ValidType)
  <2>1. q = <<DoOn("a-file", "PRODUCT.yaml"), Do("type-is-one-of")>>
    BY <1>10, ValidTypeSteps
  <2> QED
    BY <2>1, TupleCount
<1>11. CASE q \in StepsOf(TitleHasRelease)
  <2>1. q = <<Do("the-title"), Do("title-matches")>>
    BY <1>11, TitleHasReleaseSteps
  <2> QED
    BY <2>1, TupleCount
<1>12. CASE q \in StepsOf(SupportedRelease)
  <2>1. q = <<Do("the-release-version"), Do("the-files-in-the-PR"), Do("supported-release")>>
    BY <1>12, SupportedReleaseSteps
  <2> QED
    BY <2>1, TupleCount
<1>13. CASE q \in StepsOf(TestsPresent)
  <2>1. q = <<DoOn("a-file", "junit_01.xml"), Do("required-tests-in-junit")>>
    BY <1>13, TestsPresentSteps
  <2> QED
    BY <2>1, TupleCount
<1>14. CASE q \in StepsOf(TestsPass)
  <2>1. q = <<DoOn("a-file", "junit_01.xml"), Do("tests-pass"), Do("required-tests-passed")>>
    BY <1>14, TestsPassSteps
  <2> QED
    BY <2>1, TupleCount
<1>15. CASE q \in StepsOf(OneCommit)
  <2>1. q = <<Do("a-list-of-commits"), Do("only-one-commit")>>
    BY <1>15, OneCommitSteps
  <2> QED
    BY <2>1, TupleCount
<1>16. \/ q \in StepsOf(TitleNotEmpty)
      \/ q \in StepsOf(AllRequiredFiles)
      \/ q \in StepsOf(OnlyRequiredFiles)
      \/ q \in StepsOf(FileStructure)
      \/ q \in StepsOf(OneProduct)
      \/ q \in StepsOf(ReleaseInTitle)
      \/ q \in StepsOf(AllRequiredFields)
      \/ q \in StepsOf(ValidAddresses)
      \/ q \in StepsOf(LinksResolve)
      \/ q \in StepsOf(ValidType)
      \/ q \in StepsOf(TitleHasRelease)
      \/ q \in StepsOf(SupportedRelease)
      \/ q \in StepsOf(TestsPresent)
      \/ q \in StepsOf(TestsPass)
      \/ q \in StepsOf(OneCommit)
  BY FeatureSteps
<1> QED
  BY <1>1, <1>2, <1>3, <1>4, <1>5, <1>6, <1>7, <1>8, <1>9, <1>10, <1>11, <1>12, <1>13, <1>14, <1>15, <1>16

-----------------------------------------------------------------------------
(* The rows of the report *)

\* The feature is repeated Paths times.
LEMMA RowsFacts ==
  /\ Len(Rows) = Paths * 31 /\ Len(Rows) \in Nat \ {0} /\ DOMAIN Rows = 1 .. Len(Rows)
  /\ \A i \in 1 .. Len(Rows) : Rows[i] \in Elems(Feature)
  /\ \A e \in Elems(Feature) : \E i \in 1 .. Len(Rows) : Rows[i] = e
  /\ Paths = 1 => Grouped(Rows)
<1> DEFINE N == Paths * 31
<1>1. N \in Nat \ {0} /\ N >= 31
  BY PathsAssumption
<1>2. Len(Feature) = 31 /\ DOMAIN Feature = 1 .. 31
      /\ (\A i \in 1 .. 31 : Feature[i] \in Elems(Feature))
      /\ (\A e \in Elems(Feature) : \E i \in 1 .. 31 : e = Feature[i])
  <2>1. IsSeq(Feature) /\ Len(Feature) = 31
    BY FeatureElems
  <2>2. /\ DOMAIN Feature = 1 .. Len(Feature)
        /\ \A i \in 1 .. Len(Feature) : Feature[i] \in Elems(Feature)
        /\ \A e \in Elems(Feature) : \E i \in 1 .. Len(Feature) : e = Feature[i]
    BY <2>1, SeqFacts
  <2> QED
    BY <2>1, <2>2
<1>3. Rows = [i \in 1 .. N |-> Feature[((i - 1) % 31) + 1]]
  BY <1>2 DEF Rows
<1> HIDE DEF N
<1>4. DOMAIN Rows = 1 .. N /\ \A i \in 1 .. N : Rows[i] = Feature[((i - 1) % 31) + 1]
  BY <1>3
<1>5. Len(Rows) = N
  <2>1. Rows = [i \in 1 .. N |-> Rows[i]]
    BY <1>3
  <2> QED
    BY <1>1, <2>1, TableIsSeq
<1>6. ASSUME NEW i \in 1 .. N PROVE Rows[i] \in Elems(Feature)
  <2>1. ((i - 1) % 31) + 1 \in 1 .. 31
    BY <1>1
  <2> QED
    BY <1>2, <1>4, <2>1
<1>7. \A i \in 1 .. 31 : i \in 1 .. N /\ Rows[i] = Feature[i]
  <2> SUFFICES ASSUME NEW i \in 1 .. 31
               PROVE  i \in 1 .. N /\ Rows[i] = Feature[i]
    OBVIOUS
  <2>1. i \in 1 .. N /\ ((i - 1) % 31) + 1 = i
    BY <1>1
  <2> QED
    BY <1>4, <2>1
<1>8. ASSUME NEW e \in Elems(Feature) PROVE \E i \in 1 .. N : Rows[i] = e
  BY <1>2, <1>7
<1>9. ASSUME Paths = 1 PROVE Grouped(Rows)
  <2>1. N = 31
    BY <1>9 DEF N
  <2>2. DOMAIN Rows = 1 .. 31 /\ \A i \in 1 .. 31 : Rows[i] = Feature[i]
    BY <1>4, <1>7, <2>1
  <2>3. Grouped(Feature) /\ DOMAIN Feature = 1 .. 31
    BY FeatureElems, <1>2
  <2>4. ASSUME NEW i \in 1 .. 31, NEW j \in 1 .. 31, NEW k \in 1 .. 31,
               i <= j, j <= k, Rows[i].about = Rows[k].about
        PROVE  Rows[j].about = Rows[i].about
    <3>1. Rows[i] = Feature[i] /\ Rows[j] = Feature[j] /\ Rows[k] = Feature[k]
      BY <2>2
    <3> QED
      BY <2>3, <2>4, <3>1 DEF Grouped
  <2> QED
    BY <2>2, <2>4 DEF Grouped
<1> QED
  BY <1>1, <1>4, <1>5, <1>6, <1>8, <1>9 DEF N

\* Names and descriptions tell the scenarios apart alike.
LEMMA NamesAgree ==
  ASSUME NEW e \in Elems(Feature), NEW f \in Elems(Feature)
  PROVE  e.name = f.name <=> e.about = f.about
  BY FeatureElems DEF ScenarioOf

=============================================================================
