---------------------------- MODULE MetadataProofs ----------------------------
(***************************************************************************)
(* stable.txt only ever goes forward, for any number of releases, of       *)
(* commits and of faults, whatever waits and however the jobs overlap.     *)
(***************************************************************************)
EXTENDS Metadata, TLAPS

PullRequest == [branch : [job : Job, rev : Nat, of : SUBSET Content],
                base : SUBSET Content, contents : SUBSET Content, auto : BOOLEAN]

Checkouts == [rev : Nat, base : SUBSET Content, contents : SUBSET Content]

\* w goes from one release to the same or a later one, none after u
Forward(w, u) ==
  \E b, c \in First .. u : b <= c /\ w.base = {<<0, b>>} /\ w.contents = {<<0, c>>}

\* What is on the way to stable.txt leads forward from what it was made from.
\* A checkout may be older than main; that does not matter, as a merge only takes
\* a file of which main still has what the checkout had.
ForwardInv ==
  "stable" \in Job =>
    /\ \E m \in First .. upstream : main["stable"] = {<<0, m>>}
    /\ pc["stable"] # "idle" => Forward(work["stable"], upstream)
    /\ \A p \in pulls : p.branch.job = "stable" => Forward(p, upstream)

\* TypeOK without what it says of stable.txt, which ForwardInv implies
Typed ==
  /\ upstream \in First .. Last
  /\ main \in [Job -> SUBSET Content]
  /\ rev \in Nat
  /\ pulls \subseteq PullRequest
  /\ pc \in [Job -> {"idle", "download", "compare", "create", "auto"}]
  /\ work \in [Job -> Checkouts]
  /\ commits \in 0 .. MaxCommits /\ faults \in 0 .. MaxFaults

IInv == Typed /\ ForwardInv

\* The constants are what their assumptions say.
LEMMA Releases == /\ First \in Nat /\ Last \in Nat /\ 2 < First /\ First <= Last
                  /\ MaxCommits \in Nat /\ MaxFaults \in Nat
  BY ReleaseAssumption, BoundAssumption

\* What leads forward from a release leads forward from an earlier one.
LEMMA ForwardLater ==
  ASSUME NEW w, NEW u \in Nat, NEW v \in Nat, u <= v, Forward(w, u)
  PROVE  Forward(w, v)
  BY Releases DEF Forward

-----------------------------------------------------------------------------
(* What is downloaded *)

\* A download, mistaken or not, is contents.
LEMMA DownloadedType ==
  ASSUME Typed, NEW j \in Job
  PROVE  Downloaded(j) \in SUBSET Content /\ Mistaken(j) \subseteq SUBSET Content
<1>1. Downloaded(j) \in SUBSET Content
  BY Releases DEF Typed, Downloaded, Content, Metadata, lastSupportingVersions
<1>2. \A d \in Downloaded(j) : <<d[1], 0>> \in Content
  BY <1>1, Releases DEF Content
<1> QED
  BY <1>1, <1>2 DEF Mistaken

\* A page in the place of the version is noticed.
LEMMA MistakenVersion ==
  ASSUME NEW contents \in Mistaken("stable")
  PROVE  ~Valid("stable", contents)
<1>1. PICK d \in Downloaded("stable") :
        contents = (Downloaded("stable") \ {d}) \union {<<d[1], 0>>}
  BY DEF Mistaken
<1>2. <<d[1], 0>> \in contents /\ <<d[1], 0>>[2] = 0
  BY <1>1
<1> QED
  BY <1>2 DEF Valid

-----------------------------------------------------------------------------
(* What a merge makes of stable.txt *)

\* stable.txt holds one release, and nothing under any other name.
LEMMA InOne ==
  ASSUME NEW m \in Nat, NEW file \in Nat
  PROVE  In({<<0, m>>}, file) = IF file = 0 THEN {<<0, m>>} ELSE {}
  BY DEF In

\* A merge takes the version of a pull request or leaves that of main, and takes
\* it only where main has what the pull request was made from.
LEMMA MergeVersion ==
  ASSUME NEW p, p.branch.job = "stable", Forward(p, upstream), upstream \in Nat,
         NEW m \in First .. upstream, main["stable"] = {<<0, m>>}
  PROVE  \E n \in First .. upstream : m <= n /\ MergeOf(p) = {<<0, n>>}
<1>1. PICK b, c \in First .. upstream :
        b <= c /\ p.base = {<<0, b>>} /\ p.contents = {<<0, c>>}
  BY DEF Forward
<1>2. m \in Nat /\ b \in Nat /\ c \in Nat /\ 0 \in 0 .. Last /\ 0 .. Last \subseteq Nat
  BY Releases
<1>3. Kept(p, 0) <=> m = b
  <2>1. In(main[p.branch.job], 0) = {<<0, m>>} /\ In(p.base, 0) = {<<0, b>>}
    BY <1>1, <1>2, InOne
  <2>2. {<<0, m>>} = {<<0, b>>} <=> m = b
    <3>1. ASSUME {<<0, m>>} = {<<0, b>>} PROVE m = b
      <4>1. <<0, m>> = <<0, b>>
        BY <3>1
      <4> QED
        BY <4>1
    <3> QED
      BY <3>1
  <2> QED
    BY <2>1, <2>2 DEF Kept
<1>4. \A file \in 0 .. Last \ {0} :
        In(IF Kept(p, file) THEN p.contents ELSE main[p.branch.job], file) = {}
  BY <1>1, <1>2, InOne
<1>5. CASE m = b
  <2>1. In(IF Kept(p, 0) THEN p.contents ELSE main[p.branch.job], 0) = {<<0, c>>}
    BY <1>1, <1>2, <1>3, <1>5, InOne
  <2>2. MergeOf(p) = {<<0, c>>}
    BY <2>1, <1>2, <1>4 DEF MergeOf
  <2> QED
    BY <2>2, <1>1, <1>5
<1>6. CASE m # b
  <2>1. In(IF Kept(p, 0) THEN p.contents ELSE main[p.branch.job], 0) = {<<0, m>>}
    BY <1>2, <1>3, <1>6, InOne
  <2>2. MergeOf(p) = {<<0, m>>}
    BY <2>1, <1>2, <1>4 DEF MergeOf
  <2> QED
    BY <2>2
<1> QED
  BY <1>5, <1>6

\* A merge gives contents.
LEMMA MergeType ==
  ASSUME Typed, NEW p \in pulls
  PROVE  MergeOf(p) \in SUBSET Content
<1>1. p \in PullRequest /\ p.branch.job \in Job
  BY DEF Typed, PullRequest
<1>2. main[p.branch.job] \in SUBSET Content /\ p.contents \in SUBSET Content
  BY <1>1 DEF Typed, PullRequest
<1> QED
  BY <1>2 DEF MergeOf, In

-----------------------------------------------------------------------------
(* Every step keeps the type *)

\* A branch is named by a job, a revision and contents.
LEMMA BranchType ==
  ASSUME Typed, NEW j \in Job
  PROVE  Branch(j) \in [job : Job, rev : Nat, of : SUBSET Content]
  BY DEF Branch, Typed, Checkouts

\* A job that ends leaves nothing checked out.
LEMMA EndType ==
  ASSUME Typed, NEW j \in Job, End(j)
  PROVE  /\ pc' \in [Job -> {"idle", "download", "compare", "create", "auto"}]
         /\ work' \in [Job -> Checkouts]
  BY DEF Typed, End, Goto, NoWork, Checkouts

\* A push and a request to merge leave a pull request.
LEMMA PushedType ==
  ASSUME Typed, NEW j \in Job, NEW p \in pulls
  PROVE  /\ [p EXCEPT !.contents = work[j].contents, !.base = work[j].base] \in PullRequest
         /\ [p EXCEPT !.auto = TRUE] \in PullRequest
<1>1. p \in PullRequest /\ work[j] \in Checkouts
  BY DEF Typed
<1> QED
  BY <1>1 DEF PullRequest, Checkouts

\* Typing, for the steps of a job and for its death.
LEMMA JobType ==
  ASSUME Typed, NEW j \in Job, Step(j) \/ Die(j)
  PROVE  Typed'
<1> USE DEF Typed
<1>1. CASE Checkout(j)
  BY <1>1 DEF Checkout, Goto, Checkouts
<1>2. CASE Download(j)
  <2>1. PICK contents \in {Downloaded(j)} \union Mistaken(j) :
          work' = [work EXCEPT ![j].contents = IF Valid(j, contents) THEN contents ELSE @]
    BY <1>2 DEF Download
  <2>2. contents \in SUBSET Content
    BY <2>1, DownloadedType
  <2>3. work' \in [Job -> Checkouts]
    BY <2>1, <2>2 DEF Checkouts
  <2>4. faults' \in 0 .. MaxFaults
    BY <1>2, Releases DEF Download, Fault
  <2> QED
    BY <1>2, <2>3, <2>4 DEF Download, Goto
<1>3. CASE Skip(j)
  BY <1>3, EndType DEF Skip
<1>4. CASE PushBranch(j)
  BY <1>4, PushedType DEF PushBranch, Goto
<1>5. CASE CreatePull(j)
  <2>1. [branch |-> Branch(j), base |-> work[j].base,
         contents |-> work[j].contents, auto |-> FALSE] \in PullRequest
    BY BranchType DEF PullRequest, Checkouts
  <2>2. pulls' \subseteq PullRequest
    BY <1>5, <2>1 DEF CreatePull
  <2>3. /\ pc' \in [Job -> {"idle", "download", "compare", "create", "auto"}]
        /\ work' \in [Job -> Checkouts]
    <3>1. CASE End(j)
      BY <3>1, EndType
    <3>2. CASE Goto(j, "auto") /\ UNCHANGED work
      BY <3>2 DEF Goto
    <3> QED
      BY <1>5, <3>1, <3>2 DEF CreatePull
  <2> QED
    BY <1>5, <2>2, <2>3 DEF CreatePull
<1>6. CASE MergeAuto(j)
  BY <1>6, EndType, PushedType DEF MergeAuto
<1>7. CASE Die(j)
  <2>1. faults' \in 0 .. MaxFaults
    BY <1>7, Releases DEF Die, Fault
  <2> QED
    BY <1>7, <2>1, EndType DEF Die
<1> QED
  BY <1>1, <1>2, <1>3, <1>4, <1>5, <1>6, <1>7 DEF Step

\* Typing, for every step.
LEMMA NextType ==
  ASSUME Typed, [Next]_vars
  PROVE  Typed'
<1>1. CASE \E j \in Job : Step(j) \/ Die(j)
  BY <1>1, JobType
<1>2. CASE Merged
  <2>1. PICK p \in pulls : Merge(p)
    BY <1>2 DEF Merged
  <2>2. main' \in [Job -> SUBSET Content]
    BY <2>1, MergeType DEF Merge, Typed
  <2> QED
    BY <2>1, <2>2 DEF Merge, Typed, jobVars
<1>3. CASE Commit
  BY <1>3, Releases DEF Commit, Typed, jobVars
<1>4. CASE Released
  BY <1>4, Releases DEF Released, Typed, jobVars
<1>5. CASE UNCHANGED vars
  BY <1>5 DEF vars, Typed, jobVars
<1> QED
  BY <1>1, <1>2, <1>3, <1>4, <1>5 DEF Next

-----------------------------------------------------------------------------
(* Every step keeps what is on the way to stable.txt going forward *)

\* The steps of the job of the folder touch nothing of stable.txt.
LEMMA OtherForward ==
  ASSUME Typed, ForwardInv, NEW j \in Job, j # "stable", Step(j) \/ Die(j)
  PROVE  ForwardInv'
<1> SUFFICES ASSUME "stable" \in Job
             PROVE  ForwardInv'
  BY DEF ForwardInv
<1>1. upstream' = upstream /\ main' = main
  BY DEF Step, Checkout, Download, Skip, PushBranch, CreatePull, MergeAuto, Die
<1>2. pc'["stable"] = pc["stable"] /\ work'["stable"] = work["stable"]
  BY DEF Typed, Step, Checkout, Download, Skip, PushBranch, CreatePull, MergeAuto, Die, End, Goto
<1>3. Branch(j).job = j
  BY DEF Branch
<1>4. \A p \in pulls' : p.branch.job = "stable" => p \in pulls
  <2>1. CASE PushBranch(j)
    <3>1. \A p \in pulls : p.branch = Branch(j) =>
            [p EXCEPT !.contents = work[j].contents, !.base = work[j].base].branch.job = j
      BY <1>3 DEF Typed, PullRequest
    <3> QED
      BY <2>1, <3>1 DEF PushBranch
  <2>2. CASE CreatePull(j)
    BY <2>2, <1>3 DEF CreatePull
  <2>3. CASE MergeAuto(j)
    <3>1. \A p \in pulls : p.branch = Branch(j) => [p EXCEPT !.auto = TRUE].branch.job = j
      BY <1>3 DEF Typed, PullRequest
    <3> QED
      BY <2>3, <3>1 DEF MergeAuto
  <2> QED
    BY <2>1, <2>2, <2>3 DEF Step, Checkout, Download, Skip, Die
<1> QED
  BY <1>1, <1>2, <1>4 DEF ForwardInv

\* ForwardInv, for the steps of the job of stable.txt.
LEMMA StableForward ==
  ASSUME Typed, ForwardInv, "stable" \in Job, Step("stable") \/ Die("stable")
  PROVE  ForwardInv'
<1>1. /\ \E m \in First .. upstream : main["stable"] = {<<0, m>>}
      /\ pc["stable"] # "idle" => Forward(work["stable"], upstream)
      /\ \A p \in pulls : p.branch.job = "stable" => Forward(p, upstream)
  BY DEF ForwardInv
<1>2. upstream \in First .. upstream /\ First \in Nat /\ upstream \in Nat
  BY Releases DEF Typed
<1>3. upstream' = upstream /\ main' = main
  BY DEF Step, Checkout, Download, Skip, PushBranch, CreatePull, MergeAuto, Die
<1>4. pc'["stable"] # "idle" => Forward(work'["stable"], upstream)
  <2>1. CASE Checkout("stable")
    <3>1. work'["stable"] = [rev |-> rev, base |-> main["stable"], contents |-> main["stable"]]
      BY <2>1 DEF Checkout, Typed
    <3> QED
      BY <3>1, <1>1, <1>2 DEF Forward
  <2>2. CASE Download("stable")
    <3>1. PICK contents \in {Downloaded("stable")} \union Mistaken("stable") :
            work' = [work EXCEPT !["stable"].contents =
                       IF Valid("stable", contents) THEN contents ELSE @]
      BY <2>2 DEF Download
    <3>2. /\ work'["stable"].base = work["stable"].base
          /\ work'["stable"].contents =
               IF Valid("stable", contents) THEN contents ELSE work["stable"].contents
      BY <3>1 DEF Typed, Checkouts
    <3>3. Valid("stable", contents) => contents = {<<0, upstream>>}
      BY <3>1, MistakenVersion DEF Downloaded
    <3>4. Forward(work["stable"], upstream)
      BY <2>2, <1>1 DEF Download
    <3> QED
      BY <3>2, <3>3, <3>4, <1>2 DEF Forward
  <2>3. CASE Skip("stable") \/ MergeAuto("stable") \/ Die("stable")
    BY <2>3 DEF Skip, MergeAuto, Die, End, Goto, Typed
  <2>4. CASE PushBranch("stable")
    BY <2>4, <1>1 DEF PushBranch
  <2>5. CASE CreatePull("stable")
    <3>1. CASE End("stable")
      BY <3>1 DEF End, Goto, Typed
    <3>2. CASE UNCHANGED work
      BY <2>5, <3>2, <1>1 DEF CreatePull
    <3> QED
      BY <2>5, <3>1, <3>2 DEF CreatePull
  <2> QED
    BY <2>1, <2>2, <2>3, <2>4, <2>5 DEF Step
<1>5. \A p \in pulls' : p.branch.job = "stable" => Forward(p, upstream)
  <2>1. CASE PushBranch("stable")
    <3>1. Forward(work["stable"], upstream)
      BY <2>1, <1>1 DEF PushBranch
    <3>2. \A p \in pulls :
            LET q == [p EXCEPT !.contents = work["stable"].contents, !.base = work["stable"].base]
            IN  q.contents = work["stable"].contents /\ q.base = work["stable"].base
      BY DEF Typed, PullRequest
    <3>3. \A p \in pulls :
            Forward([p EXCEPT !.contents = work["stable"].contents, !.base = work["stable"].base],
                    upstream)
      BY <3>1, <3>2 DEF Forward
    <3> QED
      BY <2>1, <3>3, <1>1 DEF PushBranch
  <2>2. CASE CreatePull("stable")
    <3>1. Forward(work["stable"], upstream)
      BY <2>2, <1>1 DEF CreatePull
    <3>2. Forward([branch |-> Branch("stable"), base |-> work["stable"].base,
                   contents |-> work["stable"].contents, auto |-> FALSE], upstream)
      BY <3>1 DEF Forward
    <3> QED
      BY <2>2, <3>2, <1>1 DEF CreatePull
  <2>3. CASE MergeAuto("stable")
    <3>1. \A p \in pulls : LET q == [p EXCEPT !.auto = TRUE]
                          IN  /\ q.branch = p.branch
                              /\ q.base = p.base /\ q.contents = p.contents
      BY DEF Typed, PullRequest
    <3>2. \A p \in pulls : p.branch.job = "stable" => Forward([p EXCEPT !.auto = TRUE], upstream)
      BY <3>1, <1>1 DEF Forward
    <3>3. Branch("stable").job = "stable"
      BY DEF Branch
    <3> QED
      BY <2>3, <3>1, <3>2, <3>3, <1>1 DEF MergeAuto
  <2> QED
    BY <2>1, <2>2, <2>3, <1>1 DEF Step, Checkout, Download, Skip, Die
<1> QED
  BY <1>1, <1>3, <1>4, <1>5 DEF ForwardInv

\* ForwardInv, for every step.
LEMMA NextForward ==
  ASSUME Typed, ForwardInv, [Next]_vars
  PROVE  ForwardInv'
<1> SUFFICES ASSUME "stable" \in Job
             PROVE  ForwardInv'
  BY DEF ForwardInv
<1>1. /\ \E m \in First .. upstream : main["stable"] = {<<0, m>>}
      /\ pc["stable"] # "idle" => Forward(work["stable"], upstream)
      /\ \A p \in pulls : p.branch.job = "stable" => Forward(p, upstream)
      /\ upstream \in Nat
  BY Releases DEF ForwardInv, Typed
<1>2. CASE \E j \in Job : Step(j) \/ Die(j)
  BY <1>2, OtherForward, StableForward
<1>3. CASE Merged
  <2>1. PICK p \in pulls : Merge(p)
    BY <1>3 DEF Merged
  <2>2. CASE p.branch.job = "stable"
    <3>1. \E n \in First .. upstream : MergeOf(p) = {<<0, n>>}
      BY <1>1, <2>2, MergeVersion
    <3>2. main'["stable"] = MergeOf(p)
      BY <2>1, <2>2 DEF Merge, Typed
    <3> QED
      BY <2>1, <3>1, <3>2, <1>1 DEF Merge, ForwardInv, jobVars
  <2>3. CASE p.branch.job # "stable"
    <3>1. main'["stable"] = main["stable"]
      BY <2>1, <2>3 DEF Merge, Typed
    <3> QED
      BY <2>1, <3>1, <1>1 DEF Merge, ForwardInv, jobVars
  <2> QED
    BY <2>2, <2>3
<1>4. CASE Commit
  BY <1>4, <1>1 DEF Commit, ForwardInv, jobVars
<1>5. CASE Released
  <2>1. upstream' \in Nat /\ upstream <= upstream' /\ First .. upstream \subseteq First .. upstream'
    BY <1>5, <1>1, Releases DEF Released
  <2>2. \A w : Forward(w, upstream) => Forward(w, upstream')
    BY <2>1, <1>1, ForwardLater
  <2> QED
    BY <1>5, <1>1, <2>1, <2>2 DEF Released, ForwardInv, jobVars
<1>6. CASE UNCHANGED vars
  BY <1>6, <1>1 DEF vars, ForwardInv, jobVars
<1> QED
  BY <1>2, <1>3, <1>4, <1>5, <1>6 DEF Next

-----------------------------------------------------------------------------
\* The invariant holds at the start.
LEMMA InitInv == Init => IInv
<1> SUFFICES ASSUME Init
             PROVE  IInv
  OBVIOUS
<1>1. upstream \in First .. Last /\ upstream \in First .. upstream
  BY Releases DEF Init
<1>2. \A j \in Job : Downloaded(j) \in SUBSET Content
  BY <1>1, Releases DEF Downloaded, Content, Metadata, lastSupportingVersions
<1>3. Typed
  BY <1>1, <1>2, Releases DEF Init, Typed, Checkouts, NoWork
<1>4. ForwardInv
  BY <1>1 DEF Init, ForwardInv, Downloaded
<1> QED
  BY <1>3, <1>4 DEF IInv

\* The invariant is inductive.
LEMMA StepInv == IInv /\ [Next]_vars => IInv'
  BY NextType, NextForward DEF IInv

\* Every reachable state is well typed; in particular stable.txt always holds a
\* release, never a page of an error.
THEOREM Typing == Spec => []TypeOK
<1>1. IInv => TypeOK
  <2> SUFFICES ASSUME IInv
               PROVE  TypeOK
    OBVIOUS
  <2>1. "stable" \in Job => main["stable"] \in {{<<0, m>>} : m \in First .. Last}
    BY Releases DEF IInv, Typed, ForwardInv
  <2> QED
    BY <2>1 DEF IInv, Typed, TypeOK, PullRequest, Checkouts
<1> QED
  BY <1>1, InitInv, StepInv, PTL DEF Spec

\* No step of the jobs, of GitHub or of people takes stable.txt to an earlier
\* release.
THEOREM Monotony == Spec => NoDowngrade
<1> DEFINE Up == \A j \in Job \ {"testdata"} : \A c \in main[j], d \in main'[j] : c[2] <= d[2]
<1>1. IInv /\ [Next]_vars => [Up]_vars
  <2> SUFFICES ASSUME IInv, Next, NEW j \in Job \ {"testdata"}
               PROVE  \A c \in main[j], d \in main'[j] : c[2] <= d[2]
    OBVIOUS
  <2>1. j = "stable" /\ upstream \in Nat /\ First \in Nat
    BY JobAssumption, Releases DEF IInv, Typed
  <2>2. PICK m \in First .. upstream : main["stable"] = {<<0, m>>}
    BY <2>1 DEF IInv, ForwardInv
  <2>3. main' # main => Merged
    BY DEF Next, Step, Checkout, Download, Skip, PushBranch, CreatePull, MergeAuto, Die,
           Commit, Released
  <2>4. CASE main' = main
    BY <2>1, <2>2, <2>4
  <2>5. CASE Merged
    <3>1. PICK p \in pulls : Merge(p)
      BY <2>5 DEF Merged
    <3>2. CASE p.branch.job = "stable"
      <4>1. PICK n \in First .. upstream : m <= n /\ MergeOf(p) = {<<0, n>>}
        BY <2>1, <2>2, <3>2, MergeVersion DEF IInv, ForwardInv
      <4>2. main'["stable"] = {<<0, n>>}
        BY <3>1, <3>2, <4>1, <2>1 DEF Merge, IInv, Typed
      <4> QED
        BY <2>1, <2>2, <4>1, <4>2
    <3>3. CASE p.branch.job # "stable"
      <4>1. main'["stable"] = main["stable"]
        BY <3>1, <3>3, <2>1 DEF Merge, IInv, Typed
      <4> QED
        BY <2>1, <2>2, <4>1
    <3> QED
      BY <3>2, <3>3
  <2> QED
    BY <2>3, <2>4, <2>5
<1> QED
  BY <1>1, InitInv, StepInv, PTL DEF Spec, NoDowngrade

=============================================================================
