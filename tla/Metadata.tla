------------------------------- MODULE Metadata -------------------------------
(***************************************************************************)
(* The two jobs that keep the bot's own data current: stable.txt, which    *)
(* says what the latest release of Kubernetes is, and conformance-testdata,*)
(* which has the conformance.yaml of the latest release and the two before *)
(* (hack/*.sh and the workflows that run them, each once an hour).         *)
(*                                                                         *)
(* A job checks main out, downloads, and, if that makes a difference,      *)
(* pushes a branch, creates a pull request and lets GitHub merge it.  The  *)
(* jobs know nothing of each other, nor of the jobs an hour before.        *)
(*                                                                         *)
(* A release is its minor version.  The contents of stable.txt or of the   *)
(* folder are a set of pairs of a file and what is in it, 0 for a page that *)
(* reports an error: file 0 is stable.txt and has the latest release, file *)
(* m is v1.m/conformance.yaml and has the metadata of release m, or not.   *)
(***************************************************************************)
EXTENDS Integers, FiniteSets

CONSTANTS
  Job,          \* which of the jobs run: "stable", "testdata"
  First, Last,  \* the latest release at first, and at last
  FaultKind,    \* what may go wrong: "page", "die"
  MaxCommits,   \* bound: commits of people
  MaxFaults     \* bound: pages of an error downloaded, jobs that die

ASSUME ReleaseAssumption == First \in Nat /\ Last \in Nat /\ 2 < First /\ First <= Last
ASSUME JobAssumption     == Job \subseteq {"stable", "testdata"}
ASSUME FaultAssumption   == FaultKind \subseteq {"page", "die"}
ASSUME BoundAssumption   == MaxCommits \in Nat /\ MaxFaults \in Nat

VARIABLES
  upstream,  \* the latest release
  main,      \* main[j]: what the main branch has in the file or folder of j
  rev,       \* the head of main; it tells two commits apart
  pulls,     \* open pull requests of the jobs
  pc,        \* what each job does next
  work,      \* the checkout of each job: its rev, its base, the new contents
  commits, faults

jobVars == <<pc, work>>
vars == <<upstream, main, rev, pulls, jobVars, commits, faults>>

-----------------------------------------------------------------------------
(* What is downloaded *)

lastSupportingVersions == 2

Metadata == 1  \* what is in a conformance.yaml

\* hack/update-stable-txt.sh, hack/generate-conformanceyaml.sh
Downloaded(j) ==
  IF j = "stable" THEN {<<0, upstream>>}
  ELSE {<<m, Metadata>> : m \in upstream - lastSupportingVersions .. upstream}

\* curl does not fail on a page of an error.  In the place of a conformance.yaml
\* it is stored as such; in the place of the version it names no release, and
\* the folder, which was removed first, stays empty.
Mistaken(j) ==
  LET spoilt == {(Downloaded(j) \ {d}) \union {<<d[1], 0>>} : d \in Downloaded(j)}
  IN IF j = "stable" THEN spoilt ELSE spoilt \union {{}}

\* only stable.txt is looked at
ValidAlways(j, contents) == TRUE
Valid(j, contents) == j = "stable" => \A c \in contents : c[2] # 0

\* the mutant overlooks files that are not in the repository yet
ChangedTracked(j) == ~(work[j].base \subseteq work[j].contents)
Changed(j) == work[j].contents # work[j].base

-----------------------------------------------------------------------------
(* The jobs *)

\* The branch is named for the time of the last commit of main, that of
\* stable.txt for its contents too.
BranchByContents(j) ==
  [job |-> j, rev |-> 0, of |-> IF j = "stable" THEN work[j].contents ELSE {}]

Branch(j) == [job |-> j, rev |-> work[j].rev,
              of |-> IF j = "stable" THEN work[j].contents ELSE {}]

NoWork == [rev |-> 0, base |-> {}, contents |-> {}]

Init ==
  /\ upstream = First
  /\ main = [j \in Job |-> Downloaded(j)]
  /\ rev = 0
  /\ pulls = {}
  /\ pc = [j \in Job |-> "idle"]
  /\ work = [j \in Job |-> NoWork]
  /\ commits = 0 /\ faults = 0

Goto(j, l) == pc' = [pc EXCEPT ![j] = l]

End(j) == Goto(j, "idle") /\ work' = [work EXCEPT ![j] = NoWork]

Checkout(j) ==
  /\ pc[j] = "idle"
  /\ work' = [work EXCEPT ![j] = [rev |-> rev, base |-> main[j], contents |-> main[j]]]
  /\ Goto(j, "download")
  /\ UNCHANGED <<upstream, main, rev, pulls, commits, faults>>

Fault(kind) == kind \in FaultKind /\ faults < MaxFaults /\ faults' = faults + 1

Download(j) ==
  /\ pc[j] = "download"
  /\ \E contents \in {Downloaded(j)} \union Mistaken(j) :
       /\ \/ contents = Downloaded(j) /\ UNCHANGED faults
          \/ contents \in Mistaken(j) /\ Fault("page")
       /\ work' = [work EXCEPT ![j].contents = IF Valid(j, contents) THEN contents ELSE @]
  /\ Goto(j, "compare")
  /\ UNCHANGED <<upstream, main, rev, pulls, commits>>

\* Nothing changed, or what there is now is not a version: the job is done.
Skip(j) ==
  /\ pc[j] = "compare" /\ ~Changed(j)
  /\ End(j)
  /\ UNCHANGED <<upstream, main, rev, pulls, commits, faults>>

\* git push -f: an open pull request of a branch of this name now has these
\* contents.
PushBranch(j) ==
  /\ pc[j] = "compare" /\ Changed(j)
  /\ pulls' = {IF p.branch = Branch(j)
               THEN [p EXCEPT !.contents = work[j].contents, !.base = work[j].base]
               ELSE p : p \in pulls}
  /\ Goto(j, "create")
  /\ UNCHANGED <<upstream, main, rev, work, commits, faults>>

\* gh pr create, which fails when the branch has an open pull request; the job
\* then ends.
CreatePull(j) ==
  /\ pc[j] = "create"
  /\ \/ /\ \E p \in pulls : p.branch = Branch(j)
        /\ End(j)
        /\ UNCHANGED pulls
     \/ /\ ~ \E p \in pulls : p.branch = Branch(j)
        /\ pulls' = pulls \union {[branch |-> Branch(j), base |-> work[j].base,
                                   contents |-> work[j].contents, auto |-> FALSE]}
        /\ Goto(j, "auto")
        /\ UNCHANGED work
  /\ UNCHANGED <<upstream, main, rev, commits, faults>>

\* gh pr merge --auto
MergeAuto(j) ==
  /\ pc[j] = "auto"
  /\ pulls' = {IF p.branch = Branch(j) THEN [p EXCEPT !.auto = TRUE] ELSE p : p \in pulls}
  /\ End(j)
  /\ UNCHANGED <<upstream, main, rev, commits, faults>>

Die(j) ==
  /\ Fault("die")
  /\ pc[j] # "idle"
  /\ End(j)
  /\ UNCHANGED <<upstream, main, rev, pulls, commits>>

-----------------------------------------------------------------------------
(* GitHub, people and Kubernetes *)

\* A file that only one side changed since the base is taken from that side;
\* different changes of one file are a conflict, and the pull request waits.
In(contents, file) == {c \in contents : c[1] = file}

Kept(p, file) == In(main[p.branch.job], file) = In(p.base, file)

Conflict(p) ==
  \E file \in 0 .. Last :
    /\ ~Kept(p, file)
    /\ In(p.contents, file) \notin {In(p.base, file), In(main[p.branch.job], file)}

MergeOf(p) ==
  UNION {In(IF Kept(p, file) THEN p.contents ELSE main[p.branch.job], file) : file \in 0 .. Last}

Merge(p) ==
  /\ p.auto /\ ~Conflict(p)
  /\ main' = [main EXCEPT ![p.branch.job] = MergeOf(p)]
  /\ rev' = rev + 1
  /\ pulls' = pulls \ {p}
  /\ UNCHANGED <<upstream, jobVars, commits, faults>>

\* a commit that concerns neither file
Commit ==
  /\ commits < MaxCommits /\ commits' = commits + 1
  /\ rev' = rev + 1
  /\ UNCHANGED <<upstream, main, pulls, jobVars, faults>>

Released ==
  /\ upstream < Last /\ upstream' = upstream + 1
  /\ UNCHANGED <<main, rev, pulls, jobVars, commits, faults>>

-----------------------------------------------------------------------------
Step(j) == \/ Checkout(j) \/ Download(j) \/ Skip(j)
           \/ PushBranch(j) \/ CreatePull(j) \/ MergeAuto(j)

Merged == \E p \in pulls : Merge(p)

Next == \/ \E j \in Job : Step(j) \/ Die(j)
        \/ Merged \/ Commit \/ Released

Spec == Init /\ [][Next]_vars

\* Each job is started once an hour and goes on, and GitHub merges what it can
\* merge.  Nothing is assumed of faults, people and releases.
FairSpec == Spec /\ WF_vars(Merged) /\ \A j \in Job : WF_vars(Step(j))

-----------------------------------------------------------------------------
(* Properties *)

Content == (0 .. Last) \X (0 .. Last)

TypeOK ==
  /\ upstream \in First .. Last
  /\ main \in [Job -> SUBSET Content]
  /\ "stable" \in Job => main["stable"] \in {{<<0, m>>} : m \in First .. Last}
  /\ rev \in Nat
  /\ pulls \subseteq [branch : [job : Job, rev : Nat, of : SUBSET Content],
                      base : SUBSET Content, contents : SUBSET Content, auto : BOOLEAN]
  /\ pc \in [Job -> {"idle", "download", "compare", "create", "auto"}]
  /\ work \in [Job -> [rev : Nat, base : SUBSET Content, contents : SUBSET Content]]
  /\ commits \in 0 .. MaxCommits /\ faults \in 0 .. MaxFaults

\* update-stable-txt.yml: a pull request that waited while later jobs made and
\* merged theirs never takes stable.txt back to an earlier release, or to what is
\* none, when it is merged at last.
NoDowngrade ==
  [][\A j \in Job \ {"testdata"} : \A c \in main[j], d \in main'[j] : c[2] <= d[2]]_vars

\* maintainance.md: "recreates the sub-folders according to the last three
\* release versions of Kubernetes", "PRs are automatically generated and merged".
\* Both end up at the latest release, whichever job is first, whatever pages of
\* errors they stored, whatever waits.
Current ==
  /\ "stable" \in Job => main["stable"] = {<<0, upstream>>}
  /\ "testdata" \in Job => main["testdata"] = {<<m, Metadata>> : m \in upstream - 2 .. upstream}

UpToDate == <>[]Current

\* The workflows: when jobs also die half-way, one thing alone keeps main from
\* that: a pull request that its job left before it asked for the merge, as long
\* as main has no new commit and all later jobs want the same branch.
Abandoned == \E p \in pulls : ~p.auto /\ p.branch.rev = rev

UpToDateUnlessBlocked == UpToDate \/ <>[]Abandoned

=============================================================================
