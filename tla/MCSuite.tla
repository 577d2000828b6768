------------------------------- MODULE MCSuite -------------------------------
(* Submissions for TLC: a perfect one and those that deviate from it in up to *)
(* two of its fields.                                                         *)
EXTENDS Suite, TLC

TestCase(t, o) == [test |-> t, outcome |-> o]

Perfect ==
  [ titleRelease |-> 30,
    folders      |-> [f \in Elems(RequiredFiles) |-> {"v1.30/acme"}],
    miscased     |-> {},
    blank        |-> {},
    unreadable   |-> {},
    field        |-> [f \in Elems(RequiredFields) \union Elems(AddressFields) |-> "good"],
    link         |-> [f \in Elems(LinkFields) |-> "text/html"],
    junit        |-> {TestCase("t1", "passed"), TestCase("t2", "passed")},
    commits      |-> 1 ]

\* a file moved, duplicated, dropped or added
Layouts(folders) ==
  {[folders EXCEPT ![f] = d] :
     f \in {"README.md", "junit_01.xml"} \intersect DOMAIN folders,
     d \in {{"v1.29/acme"}, {"drafts"}, {"v1.30/acme", "v1.30/other"}}}
  \union {[f \in DOMAIN folders \ {g} |-> folders[f]] : g \in DOMAIN folders}
  \union {[f \in DOMAIN folders \union {"other"} |-> {"v1.30/acme"}]}

Junits ==
  { {}, {TestCase("t1", "passed")},
    {TestCase("t1", "passed"), TestCase("t2", "failed")},
    {TestCase("t1", "passed"), TestCase("t2", "errored")},
    {TestCase("t1", "passed"), TestCase("t2", "skipped")},
    {TestCase("t1", "passed"), TestCase("t2", "failed"), TestCase("t2", "passed")},
    {TestCase("t1", "passed"), TestCase("t2", "passed"), TestCase("t3", "failed")} }

Deviations(s) ==
  {s}
  \union {[s EXCEPT !.titleRelease = r] : r \in {0, 29}}
  \union {[s EXCEPT !.folders = d] : d \in Layouts(s.folders)}
  \union {[s EXCEPT !.miscased = {f}] : f \in {"README.md", "PRODUCT.yaml"} \intersect DOMAIN s.folders}
  \union {[s EXCEPT !.blank = {f}]
    : f \in {"README.md", "PRODUCT.yaml", "junit_01.xml"} \intersect DOMAIN s.folders}
  \union {[s EXCEPT !.unreadable = {f}] :
            f \in {"PRODUCT.yaml", "junit_01.xml"} \intersect DOMAIN s.folders}
  \union {[s EXCEPT !.field[f] = v] : f \in {"vendor", "type", "website_url", "repo_url"},
                                      v \in {"absent", "empty", "malformed"}}
  \union {[s EXCEPT !.link[f] = v] : f \in {"website_url", "repo_url"}, v \in {"none", "text/plain"}}
  \union {[s EXCEPT !.junit = j] : j \in Junits}
  \union {[s EXCEPT !.commits = n] : n \in {0, 2}}

\* the same submission with nothing learnt from files that are not there, are
\* empty or cannot be read; an empty junit_01.xml cannot.  The links are read from
\* a file of the very name PRODUCT.yaml only.
Learnt(s) ==
  LET product == /\ "PRODUCT.yaml" \in DOMAIN s.folders
                 /\ "PRODUCT.yaml" \notin s.blank \union s.unreadable
      junit   == /\ "junit_01.xml" \in DOMAIN s.folders
                 /\ "junit_01.xml" \notin s.blank \union s.unreadable
      blank   == s.blank \intersect DOMAIN s.folders
      linked  == product /\ "PRODUCT.yaml" \notin s.miscased
  IN  [s EXCEPT !.miscased = @ \intersect DOMAIN s.folders,
                !.blank = blank,
                !.unreadable = IF "junit_01.xml" \in blank
                               THEN ((@ \intersect DOMAIN s.folders) \ blank) \union {"junit_01.xml"}
                               ELSE (@ \intersect DOMAIN s.folders) \ blank,
                !.field = IF product THEN @ ELSE [f \in DOMAIN @ |-> "absent"],
                !.link  = [f \in DOMAIN @ |-> IF linked /\ s.field[f] = "good" THEN @[f] ELSE "none"],
                !.junit = IF junit THEN @ ELSE {}]

\* a perfect submission for a release whose metadata has an entry that is misread
Misplaced == [Perfect EXCEPT !.titleRelease = 28,
                             !.folders = [f \in DOMAIN @ |-> {"v1.28/acme"}]]

MCSubmission == {Learnt(s) : s \in Deviations(Misplaced)
                                   \union UNION {Deviations(d) : d \in Deviations(Perfect)}}

MCReleaseIn(d) == CASE d \in {"v1.30/acme", "v1.30/other"} -> 30
                    [] d = "v1.29/acme" -> 29
                    [] d = "v1.28/acme" -> 28
                    [] OTHER -> 0

Listed(t, since) == [codename |-> t, since |-> since]

\* "t9" is not required yet in any release
MCTestsOf ==
  28 :> {Listed("t1", <<9>>), Listed("t2", <<29, 21>>)}
  @@ 29 :> {Listed("t1", <<9>>), Listed("t9", <<31>>)}
  @@ 30 :> {Listed("t1", <<9>>), Listed("t2", <<21, 30>>), Listed("t9", <<31>>)}

=============================================================================
