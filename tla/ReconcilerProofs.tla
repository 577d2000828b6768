-------------------------- MODULE ReconcilerProofs --------------------------
(***************************************************************************)
(* Safety of Reconciler for every value of its constants.  Two inductive   *)
(* invariants: LabelInv on the labels half-way through updateLabels, and   *)
(* PruneInv on the comments that the runs still mean to delete.            *)
(***************************************************************************)
EXTENDS Reconciler, TLAPS

-----------------------------------------------------------------------------
(* Types *)

\* Labels that the bot owns are labels.
LEMMA OwnedLabels == \A S \in SUBSET Label : OwnedIn(S) \in SUBSET Label
  BY DEF OwnedIn

\* What a run holds before it has read anything is typed.
LEMMA ZeroValues ==
  /\ NoPullRequest \in [title : Title, head : Commit \union {NoHead},
                        green : BOOLEAN, left : 0 .. Listings - 1]
  /\ NoVerdict \in Verdict
  BY TitleAssumption, TextAssumption, ScanAssumption DEF NoPullRequest, NoVerdict, Verdict, Status

\* handle decides on a comment, labels and a state, whatever it read.
LEMMA DecideType ==
  ASSUME NEW t \in Title, NEW c \in Commit \union {NoHead}, NEW f \in Commit, NEW s \in Site
  PROVE  Decide(t, c, f, s) \in Verdict
<1>1. /\ Unprocessable("not-conformance-product-submission", NotASubmission) \in Verdict
      /\ Unprocessable("conformance-product-submission", NotSupported) \in Verdict
      /\ Unprocessable("conformance-product-submission", PleaseWait) \in Verdict
  BY LabelAssumption, TextAssumption DEF Unprocessable, Verdict, Status, ManagedPRLabels
<1>2. SuiteVerdict(t, c, f, s) \in Verdict
  BY SuiteAssumption
<1> QED
  BY <1>1, <1>2 DEF Decide

\* What TypeOK says of the variables of the runs.
RunsTyped ==
  /\ pc \in [Bot -> {"idle", "listed", "labelled", "labels", "comment", "status", "publish"}]
  /\ pr \in [Bot -> [title : Title, head : Commit \union {NoHead},
                     green : BOOLEAN, left : 0 .. Listings - 1]]
  /\ seen \in [Bot -> SUBSET Label]
  /\ verdict \in [Bot -> Verdict]
  /\ toAdd \in [Bot -> SUBSET Label]
  /\ toRemove \in [Bot -> SUBSET Label]
  /\ toPrune \in [Bot -> SUBSET Comment]
  /\ clean \in [Bot -> BOOLEAN]

\* A run that returns, or ends, leaves them typed.
LEMMA ReturnType ==
  ASSUME TypeOK, NEW b \in Bot, Return(b) \/ End(b)
  PROVE  RunsTyped'
<1>1. Forget(b)
  BY DEF Return, End
<1>2. /\ seen' \in [Bot -> SUBSET Label] /\ verdict' \in [Bot -> Verdict]
      /\ toAdd' \in [Bot -> SUBSET Label] /\ toRemove' \in [Bot -> SUBSET Label]
      /\ toPrune' \in [Bot -> SUBSET Comment] /\ clean' \in [Bot -> BOOLEAN]
  BY <1>1, ZeroValues DEF TypeOK, Forget
<1>3. pc' \in [Bot -> {"idle", "listed", "labelled", "labels", "comment", "status", "publish"}]
  BY DEF TypeOK, Return, End, Goto
<1>4. pr' \in [Bot -> [title : Title, head : Commit \union {NoHead},
                      green : BOOLEAN, left : 0 .. Listings - 1]]
  <2>1. CASE pr' = [pr EXCEPT ![b] = NoPullRequest]
    BY <2>1, ZeroValues DEF TypeOK
  <2>2. CASE pr[b].left > 0 /\ pr' = [pr EXCEPT ![b].left = @ - 1]
    <3>1. pr \in [Bot -> [title : Title, head : Commit \union {NoHead},
                         green : BOOLEAN, left : 0 .. Listings - 1]]
      BY DEF TypeOK
    <3>2. pr[b].left - 1 \in 0 .. Listings - 1
      BY <2>2, <3>1, ScanAssumption
    <3> QED
      BY <2>2, <3>1, <3>2
  <2> QED
    BY <2>1, <2>2 DEF Return, End
<1> QED
  BY <1>2, <1>3, <1>4 DEF RunsTyped

\* A comment that is posted is a comment.
LEMMA PostType ==
  ASSUME TypeOK, NEW who \in {"bot", "human"}, NEW text \in Text, Post(who, text)
  PROVE  thread' \subseteq Comment /\ nextId' \in Nat
  BY DEF TypeOK, Post, Comment

\* Typing of the decision, the step that reads the files.
LEMMA ExamineType ==
  ASSUME TypeOK, NEW b \in Bot, NEW files \in Commit, Examine(b, files),
         faults' \in 0 .. MaxFaults
  PROVE  TypeOK'
<1> DEFINE v == Decide(pr[b].title, pr[b].head, files, site)
<1>1. v \in Verdict
  BY DecideType DEF TypeOK
<1>2. OwnedIn(v.labels) \ seen[b] \in SUBSET Label /\ OwnedIn(seen[b]) \ v.labels \in SUBSET Label
  BY <1>1, OwnedLabels DEF TypeOK, Verdict
<1> HIDE DEF v
<1>3. /\ verdict' = [verdict EXCEPT ![b] = v]
      /\ toAdd' = [toAdd EXCEPT ![b] = OwnedIn(v.labels) \ seen[b]]
      /\ toRemove' = [toRemove EXCEPT ![b] = OwnedIn(seen[b]) \ v.labels]
  BY DEF Examine, v, Lacking, Surplus
<1> QED
  BY <1>1, <1>2, <1>3 DEF TypeOK, Examine, Goto, prVars, ciVars

\* Typing, for every call that a run makes.
LEMMA CallType ==
  ASSUME TypeOK, NEW b \in Bot, Call(b)
  PROVE  TypeOK'
<1>1. CASE Search(b)
  <2>1. Green(head) \in BOOLEAN
    BY DEF Green
  <2> QED
    BY <1>1, <2>1 DEF TypeOK, Search, At, Goto, prVars, ciVars
<1>2. CASE GetIssueLabels(b)
  BY <1>2 DEF TypeOK, GetIssueLabels, At, Goto, prVars, ciVars
<1>3. CASE GetPullRequestChanges(b)
  <2>1. head \in Commit /\ faults' \in 0 .. MaxFaults
    BY <1>3 DEF TypeOK, GetPullRequestChanges
  <2> QED
    BY <1>3, <2>1, ExamineType DEF GetPullRequestChanges
<1>4. CASE AddLabel(b)
  BY <1>4 DEF TypeOK, AddLabel, SetLabels, prVars, ciVars
<1>5. CASE RemoveLabel(b)
  BY <1>5 DEF TypeOK, RemoveLabel, SetLabels, prVars, ciVars
<1>6. CASE ListIssueComments(b)
  <2>1. {c \in ByBot(thread) : ~IsLast(c, ByBot(thread))} \in SUBSET Comment
    BY DEF TypeOK, ByBot
  <2>2. toPrune' \in [Bot -> SUBSET Comment]
    BY <1>6, <2>1 DEF TypeOK, ListIssueComments, Stale
  <2>3. pc' \in [Bot -> {"idle", "listed", "labelled", "labels", "comment", "status", "publish"}]
    BY <1>6 DEF TypeOK, ListIssueComments, Goto
  <2> QED
    BY <1>6, <2>2, <2>3 DEF TypeOK, ListIssueComments, prVars, ciVars
<1>7. CASE DeleteComment(b)
  BY <1>7 DEF TypeOK, DeleteComment, prVars, ciVars
<1>8. CASE CreateComment(b)
  <2>1. verdict[b].comment \in Text
    BY DEF TypeOK, Verdict
  <2>2. thread' \subseteq Comment /\ nextId' \in Nat
    BY <1>8, <2>1, PostType DEF CreateComment
  <2> QED
    BY <1>8, <2>2 DEF TypeOK, CreateComment, Goto, prVars, ciVars
<1>9. CASE KeepSuccess(b)
  BY <1>9, ReturnType DEF TypeOK, RunsTyped, KeepSuccess, prVars, ciVars
<1>10. CASE GetCombinedStatus(b)
  <2>1. CASE Return(b)
    BY <1>10, <2>1, ReturnType DEF TypeOK, RunsTyped, GetCombinedStatus, prVars, ciVars
  <2>2. CASE ~Return(b)
    BY <1>10, <2>2 DEF TypeOK, GetCombinedStatus, Goto, prVars, ciVars
  <2> QED
    BY <2>1, <2>2
<1>11. CASE CreateStatus(b)
  <2>1. verdict[b].state \in Status
    BY DEF TypeOK, Verdict
  <2>2. own' \in [Commit -> Status \union {NoCheck}]
    BY <1>11, <2>1 DEF TypeOK, CreateStatus
  <2> QED
    BY <1>11, <2>1, <2>2, ReturnType DEF TypeOK, RunsTyped, CreateStatus, prVars
<1>12. CASE WrongRepository(b)
  BY <1>12, ReturnType DEF TypeOK, RunsTyped, WrongRepository, prVars, ciVars
<1> QED
  BY <1>1, <1>2, <1>3, <1>4, <1>5, <1>6, <1>7, <1>8, <1>9, <1>10, <1>11, <1>12 DEF Call

\* Typing, for every fault.
LEMMA FaultType ==
  ASSUME TypeOK, NEW b \in Bot, Mishap(b)
  PROVE  TypeOK'
<1>1. faults' \in 0 .. MaxFaults
  BY BoundAssumption DEF TypeOK, Mishap, Abort, ReadErrorPage, CreateCommentUnanswered, Fault
<1>2. CASE Abort(b)
  BY <1>1, <1>2, ReturnType DEF TypeOK, RunsTyped, Abort, prVars, ciVars
<1>3. CASE CreateCommentUnanswered(b)
  <2>1. verdict[b].comment \in Text
    BY DEF TypeOK, Verdict
  <2>2. thread' \subseteq Comment /\ nextId' \in Nat
    BY <1>3, <2>1, PostType DEF CreateCommentUnanswered
  <2> QED
    BY <1>1, <1>3, <2>2 DEF TypeOK, CreateCommentUnanswered, prVars, ciVars, runVars
<1>4. CASE ReadErrorPage(b)
  <2>1. PICK files \in Garbled[head] : Examine(b, files)
    BY <1>4 DEF ReadErrorPage
  <2>2. files \in Commit
    BY FilesAssumption DEF TypeOK
  <2> QED
    BY <1>1, <2>1, <2>2, ExamineType
<1> QED
  BY <1>2, <1>3, <1>4 DEF Mishap

\* Typing, for a run for an event.
LEMMA EventType ==
  ASSUME TypeOK, NEW b \in Bot, Event(b)
  PROVE  TypeOK'
<1>1. edits' \in 0 .. MaxEdits
  BY BoundAssumption DEF TypeOK, Event, Edit
<1>2. pr' \in [Bot -> [title : Title, head : Commit \union {NoHead},
                      green : BOOLEAN, left : 0 .. Listings - 1]]
  BY ScanAssumption DEF TypeOK, Event
<1> QED
  BY <1>1, <1>2 DEF TypeOK, Event, Goto, prVars, ciVars

\* Typing, for what people, sites and checks do.
LEMMA EnvironmentType ==
  ASSUME TypeOK, Environment
  PROVE  TypeOK'
<1>1. edits' \in 0 .. MaxEdits
  BY BoundAssumption
     DEF TypeOK, Environment, EditTitle, Push, SiteChanges, HumanLabels, HumanComments,
         OtherCheck, Edit
<1>2. CASE EditTitle
  BY <1>1, <1>2 DEF TypeOK, EditTitle, ciVars, runVars
<1>3. CASE Push
  BY <1>1, <1>3 DEF TypeOK, Push, ciVars, runVars
<1>4. CASE SiteChanges
  BY <1>1, <1>4 DEF TypeOK, SiteChanges, ciVars, runVars
<1>5. CASE HumanLabels
  BY <1>1, <1>5, LabelAssumption DEF TypeOK, HumanLabels, SetLabels, prVars, ciVars, runVars
<1>6. CASE HumanComments
  <2>1. thread' \subseteq Comment /\ nextId' \in Nat
    BY <1>6, PostType, TextAssumption DEF HumanComments
  <2> QED
    BY <1>1, <1>6, <2>1 DEF TypeOK, HumanComments, prVars, ciVars, runVars
<1>7. CASE OtherCheck
  BY <1>1, <1>7, CheckAssumption DEF TypeOK, OtherCheck, prVars, runVars
<1> QED
  BY <1>2, <1>3, <1>4, <1>5, <1>6, <1>7 DEF Environment

\* Every variable keeps its type: what GitHub shows, and what each run holds.
THEOREM Typing == Spec => []TypeOK
<1>1. Init => TypeOK
  BY ZeroValues, BoundAssumption DEF Init, TypeOK
<1>2. TypeOK /\ [Next]_vars => TypeOK'
  <2> SUFFICES ASSUME TypeOK, [Next]_vars PROVE TypeOK'
    OBVIOUS
  <2>1. CASE UNCHANGED vars
    BY <2>1 DEF TypeOK, vars, prVars, ciVars, runVars
  <2> QED
    BY <2>1, CallType, FaultType, EventType, EnvironmentType DEF Next
<1> QED
  BY <1>1, <1>2, PTL DEF Spec

-----------------------------------------------------------------------------
(* Labels *)

\* What a run that is alone with the labels has still to do: it holds the
\* labels as they are; then the owned labels it found, corrected by the calls
\* made so far, differ from those it wants by the calls still to make; then
\* they are those it wants.
LabelsOf(b) ==
  /\ pc[b] = "labelled" => prLabels = seen[b]
  /\ pc[b] = "labels" =>
       /\ toAdd[b] \subseteq OwnedIn(verdict[b].labels)
       /\ toRemove[b] \intersect verdict[b].labels = {}
       /\ OwnedIn(prLabels) \union toAdd[b] = OwnedIn(verdict[b].labels) \union toRemove[b]
  /\ pc[b] \in {"comment", "status", "publish"} =>
       OwnedIn(prLabels) = OwnedIn(verdict[b].labels)
  /\ pc[b] \notin {"idle", "listed"}

LabelInv == \A b \in Bot : clean[b] => LabelsOf(b)

\* A step that leaves a run's own variables alone keeps what is said of it.
LEMMA LabelFrame ==
  ASSUME NEW b \in Bot, clean[b] => LabelsOf(b),
         pc'[b] = pc[b], seen'[b] = seen[b], verdict'[b] = verdict[b],
         toAdd'[b] = toAdd[b], toRemove'[b] = toRemove[b],
         clean'[b] => clean[b] /\ prLabels' = prLabels
  PROVE  clean'[b] => LabelsOf(b)'
  BY DEF LabelsOf, OwnedIn, Owned

\* A run that returned is not alone with the labels any more.
LEMMA LabelReturn ==
  ASSUME TypeOK, LabelInv, NEW b \in Bot, Return(b) \/ End(b), UNCHANGED prLabels
  PROVE  LabelInv'
<1> SUFFICES ASSUME NEW d \in Bot PROVE clean'[d] => LabelsOf(d)'
  BY DEF LabelInv
<1>1. CASE d = b
  BY <1>1 DEF TypeOK, Return, End, Forget
<1>2. CASE d # b
  <2>1. /\ pc'[d] = pc[d] /\ seen'[d] = seen[d] /\ verdict'[d] = verdict[d]
        /\ toAdd'[d] = toAdd[d] /\ toRemove'[d] = toRemove[d] /\ clean'[d] = clean[d]
    BY <1>2 DEF TypeOK, Return, End, Forget, Goto
  <2> QED
    BY <2>1, LabelFrame DEF LabelInv
<1> QED
  BY <1>1, <1>2

\* What is wanted and not held is still to add, what is held and not wanted is
\* still to remove.
LEMMA LabelExamine ==
  ASSUME TypeOK, LabelInv, NEW b \in Bot, NEW files, Examine(b, files)
  PROVE  LabelInv'
<1> SUFFICES ASSUME NEW d \in Bot, clean'[d] PROVE LabelsOf(d)'
  BY DEF LabelInv
<1>1. CASE d # b
  <2>1. /\ pc'[d] = pc[d] /\ seen'[d] = seen[d] /\ verdict'[d] = verdict[d]
        /\ toAdd'[d] = toAdd[d] /\ toRemove'[d] = toRemove[d]
        /\ clean' = clean /\ prLabels' = prLabels
    BY <1>1 DEF Examine, Goto, TypeOK
  <2> QED
    BY <2>1, LabelFrame DEF LabelInv
<1>2. CASE d = b
  <2> DEFINE v == Decide(pr[b].title, pr[b].head, files, site)
  <2>1. /\ verdict'[b] = v
        /\ toAdd'[b] = OwnedIn(v.labels) \ seen[b]
        /\ toRemove'[b] = OwnedIn(seen[b]) \ v.labels
        /\ pc'[b] = "labels" /\ prLabels' = prLabels
    BY DEF Examine, Goto, TypeOK, Lacking, Surplus
  <2>2. prLabels = seen[b]
    BY <1>2 DEF LabelInv, LabelsOf, Examine, At
  <2> HIDE DEF v
  <2> QED
    BY <1>2, <2>1, <2>2 DEF LabelsOf, OwnedIn, Owned
<1> QED
  BY <1>1, <1>2

\* LabelInv, for every call that a run makes.
LEMMA LabelCall ==
  ASSUME TypeOK, LabelInv, NEW b \in Bot, Call(b)
  PROVE  LabelInv'
<1>1. CASE Return(b) /\ UNCHANGED prLabels
  BY <1>1, LabelReturn
<1>2. CASE GetPullRequestChanges(b)
  BY <1>2, LabelExamine DEF GetPullRequestChanges
<1>3. CASE ~(Return(b) /\ UNCHANGED prLabels) /\ ~GetPullRequestChanges(b)
  <2> SUFFICES ASSUME NEW d \in Bot, clean'[d] PROVE LabelsOf(d)'
    BY DEF LabelInv
  <2>1. CASE d # b
    <3>1. /\ pc'[d] = pc[d] /\ seen'[d] = seen[d] /\ verdict'[d] = verdict[d]
          /\ toAdd'[d] = toAdd[d] /\ toRemove'[d] = toRemove[d]
          /\ clean'[d] => clean[d] /\ prLabels' = prLabels
      BY <1>3, <2>1
         DEF Call, Search, GetIssueLabels, WrongRepository, AddLabel, RemoveLabel,
             ListIssueComments, DeleteComment, CreateComment, KeepSuccess,
             GetCombinedStatus, CreateStatus, SetLabels, Goto, TypeOK
    <3> QED
      BY <3>1, LabelFrame DEF LabelInv
  <2>2. CASE d = b
    <3>1. CASE Search(b)
      BY <2>2, <3>1 DEF LabelInv, LabelsOf, TypeOK, Search, At, Goto
    <3>2. CASE GetIssueLabels(b)
      BY <2>2, <3>2 DEF LabelsOf, TypeOK, GetIssueLabels, At, Goto
    <3>3. CASE AddLabel(b)
      <4>1. PICK l \in toAdd[b] : /\ prLabels' = prLabels \union {l}
                                  /\ toAdd' = [toAdd EXCEPT ![b] = @ \ {l}]
        BY <3>3 DEF AddLabel, SetLabels
      <4>2. pc[b] = "labels" /\ pc' = pc /\ toRemove' = toRemove /\ verdict' = verdict
        BY <3>3 DEF AddLabel, At
      <4>3. clean[b]
        BY <2>2, <3>3 DEF AddLabel, SetLabels, TypeOK
      <4>4. LabelsOf(b)
        BY <4>3 DEF LabelInv
      <4>5. OwnedIn(prLabels') = OwnedIn(prLabels) \union {l}
        BY <4>1, <4>2, <4>4 DEF LabelsOf, OwnedIn
      <4>6. toAdd'[b] = toAdd[b] \ {l}
        BY <4>1 DEF TypeOK
      <4> QED
        BY <2>2, <4>1, <4>2, <4>4, <4>5, <4>6 DEF LabelsOf, OwnedIn, Owned
    <3>4. CASE RemoveLabel(b)
      <4>1. PICK l \in toRemove[b] : /\ prLabels' = prLabels \ {l}
                                     /\ toRemove' = [toRemove EXCEPT ![b] = @ \ {l}]
        BY <3>4 DEF RemoveLabel, SetLabels
      <4>2. /\ pc[b] = "labels" /\ pc' = pc /\ toAdd' = toAdd /\ verdict' = verdict
            /\ toAdd[b] = {}
        BY <3>4 DEF RemoveLabel, At
      <4>3. clean[b]
        BY <2>2, <3>4 DEF RemoveLabel, SetLabels, TypeOK
      <4>4. LabelsOf(b)
        BY <4>3 DEF LabelInv
      <4>5. OwnedIn(prLabels') = OwnedIn(prLabels) \ {l}
        BY <4>1 DEF OwnedIn
      <4>6. toRemove'[b] = toRemove[b] \ {l}
        BY <4>1 DEF TypeOK
      <4> QED
        BY <2>2, <4>1, <4>2, <4>4, <4>5, <4>6 DEF LabelsOf, OwnedIn, Owned
    <3>5. CASE ListIssueComments(b)
      BY <2>2, <3>5 DEF LabelInv, LabelsOf, OwnedIn, Owned, TypeOK, ListIssueComments, At, Goto
    <3>6. CASE DeleteComment(b)
      BY <2>2, <3>6 DEF LabelInv, LabelsOf, OwnedIn, Owned, TypeOK, DeleteComment, At
    <3>7. CASE CreateComment(b)
      BY <2>2, <3>7 DEF LabelInv, LabelsOf, OwnedIn, Owned, TypeOK, CreateComment, At, Goto
    <3>8. CASE GetCombinedStatus(b)
      BY <1>3, <2>2, <3>8
         DEF LabelInv, LabelsOf, OwnedIn, Owned, TypeOK, GetCombinedStatus, At, Goto
    <3> QED
      BY <1>3, <3>1, <3>2, <3>3, <3>4, <3>5, <3>6, <3>7, <3>8
         DEF Call, WrongRepository, KeepSuccess, CreateStatus
  <2> QED
    BY <2>1, <2>2
<1> QED
  BY <1>1, <1>2, <1>3

\* A run for an event starts with labels it has not read.
LEMMA LabelEvent ==
  ASSUME TypeOK, LabelInv, NEW b \in Bot, Event(b)
  PROVE  LabelInv'
<1> SUFFICES ASSUME NEW d \in Bot PROVE clean'[d] => LabelsOf(d)'
  BY DEF LabelInv
<1>1. UNCHANGED <<seen, verdict, toAdd, toRemove, clean, prLabels>>
  BY DEF Event
<1>2. CASE d = b
  BY <1>1, <1>2 DEF LabelInv, LabelsOf, Event, At
<1>3. CASE d # b
  <2>1. pc'[d] = pc[d]
    BY <1>3 DEF Event, Goto, TypeOK
  <2> QED
    BY <1>1, <2>1, LabelFrame DEF LabelInv
<1> QED
  BY <1>2, <1>3

\* LabelInv, for people and for a comment that is sent twice.
LEMMA LabelOthers ==
  ASSUME TypeOK, LabelInv, Environment \/ \E b \in Bot : CreateCommentUnanswered(b)
  PROVE  LabelInv'
<1> SUFFICES ASSUME NEW d \in Bot PROVE clean'[d] => LabelsOf(d)'
  BY DEF LabelInv
<1>1. /\ UNCHANGED <<pc, seen, verdict, toAdd, toRemove>>
      /\ clean'[d] => clean[d] /\ prLabels' = prLabels
  BY DEF Environment, EditTitle, Push, SiteChanges, HumanLabels, HumanComments, OtherCheck,
         CreateCommentUnanswered, SetLabels, runVars, TypeOK
<1> QED
  BY <1>1, LabelFrame DEF LabelInv

\* Whatever runs overlap, die or are disturbed: a run that nobody disturbed
\* between its reading of the labels and now leaves exactly the owned labels
\* it decided on.
THEOREM LabelSafety == Spec => []LabelsReconciled
<1>1. Init => LabelInv
  BY DEF Init, LabelInv
<1>2. TypeOK /\ LabelInv /\ [Next]_vars => LabelInv'
  <2> SUFFICES ASSUME TypeOK, LabelInv, [Next]_vars PROVE LabelInv'
    OBVIOUS
  <2>1. CASE \E b \in Bot : Abort(b)
    BY <2>1, LabelReturn DEF Abort
  <2>2. CASE \E b \in Bot : ReadErrorPage(b)
    BY <2>2, LabelExamine DEF ReadErrorPage
  <2>3. CASE UNCHANGED vars
    BY <2>3 DEF LabelInv, LabelsOf, OwnedIn, Owned, vars, runVars
  <2> QED
    BY <2>1, <2>2, <2>3, LabelCall, LabelEvent, LabelOthers DEF Next, Mishap
<1>3. LabelInv => LabelsReconciled
  BY DEF LabelInv, LabelsOf, LabelsReconciled
<1> QED
  BY <1>1, <1>2, <1>3, Typing, PTL DEF Spec

-----------------------------------------------------------------------------
(* Comments *)

\* Some comment of the bot that is in the thread is later than c.
Outlived(c) == \E d \in ByBot(thread) : d.id > c.id

\* Ids grow, and every comment that a run still means to delete is the bot's
\* and is outlived: the last one is never marked, nor does any run that prunes
\* at the same time delete the witness without leaving a later one.
PruneInv ==
  /\ \A c \in thread : c.id < nextId
  /\ \A b \in Bot : \A c \in toPrune[b] : c.by = "bot" /\ Outlived(c)

\* What LastWordStays says of one step.
KeepsLastWord == \A c \in thread \ thread' : c.by = "bot" /\ Outlived(c)'

\* Steps that delete no comment and mark none.
LEMMA PruneFrame ==
  ASSUME TypeOK, PruneInv,
         thread \subseteq thread',
         \A c \in thread' : c.id < nextId',
         \A b \in Bot : toPrune'[b] \subseteq toPrune[b]
  PROVE  PruneInv' /\ KeepsLastWord
  BY DEF PruneInv, KeepsLastWord, Outlived, ByBot

\* A new comment is the latest, so that it outlives whatever was outlived.
LEMMA PrunePost ==
  ASSUME TypeOK, PruneInv, NEW who, NEW text, Post(who, text),
         \A b \in Bot : toPrune'[b] \subseteq toPrune[b]
  PROVE  PruneInv' /\ KeepsLastWord
<1>1. thread \subseteq thread'
  BY DEF Post
<1>2. \A c \in thread' : c.id < nextId'
  BY DEF Post, PruneInv, TypeOK, Comment
<1> QED
  BY <1>1, <1>2, PruneFrame

\* A run that returns has nothing left to delete.
LEMMA PruneReturn ==
  ASSUME TypeOK, PruneInv, NEW b \in Bot, Return(b) \/ End(b), UNCHANGED <<thread, nextId>>
  PROVE  PruneInv' /\ KeepsLastWord
<1>1. \A d \in Bot : toPrune'[d] \subseteq toPrune[d]
  BY DEF Return, End, Forget, TypeOK
<1> QED
  BY <1>1, PruneFrame DEF PruneInv

\* A comment that outlives c and is deleted was itself outlived by a later one.
LEMMA PruneDelete ==
  ASSUME TypeOK, PruneInv, NEW b \in Bot, DeleteComment(b)
  PROVE  PruneInv' /\ KeepsLastWord
<1>1. PICK x \in toPrune[b] : /\ thread' = thread \ {x}
                              /\ toPrune' = [toPrune EXCEPT ![b] = @ \ {x}]
  BY DEF DeleteComment
<1>2. PICK y \in ByBot(thread) : y.id > x.id
  BY <1>1 DEF PruneInv, Outlived
<1>3. y \in ByBot(thread')
  BY <1>1, <1>2, y # x DEF ByBot, TypeOK, Comment
<1>4. ASSUME NEW c \in Comment, Outlived(c) PROVE Outlived(c)'
  <2>1. PICK d \in ByBot(thread) : d.id > c.id
    BY <1>4 DEF Outlived
  <2>2. CASE d = x
    <3>1. /\ x \in Comment /\ y \in Comment
      BY <1>1, <1>2 DEF TypeOK, ByBot
    <3>2. y.id > c.id
      BY <1>2, <1>4, <2>1, <2>2, <3>1 DEF Comment
    <3> QED
      BY <1>3, <3>2 DEF Outlived
  <2>3. CASE d # x
    BY <1>1, <2>1, <2>3 DEF Outlived, ByBot
  <2> QED
    BY <2>2, <2>3
<1>5. \A d \in Bot : toPrune'[d] \subseteq toPrune[d] /\ toPrune'[d] \subseteq Comment
  BY <1>1 DEF TypeOK
<1>6. nextId' = nextId
  BY DEF DeleteComment
<1>7. PruneInv'
  <2>1. \A c \in thread' : c.id < nextId'
    BY <1>1, <1>6 DEF PruneInv
  <2>2. ASSUME NEW d \in Bot, NEW c \in toPrune'[d] PROVE c.by = "bot" /\ Outlived(c)'
    BY <1>4, <1>5, <2>2 DEF PruneInv
  <2> QED
    BY <2>1, <2>2 DEF PruneInv
<1>8. KeepsLastWord
  <2>1. x.by = "bot" /\ Outlived(x)'
    BY <1>1, <1>2, <1>3 DEF PruneInv, Outlived
  <2> QED
    BY <1>1, <2>1 DEF KeepsLastWord
<1> QED
  BY <1>7, <1>8

\* PruneInv, for every call that a run makes.
LEMMA PruneCall ==
  ASSUME TypeOK, PruneInv, NEW b \in Bot, Call(b)
  PROVE  PruneInv' /\ KeepsLastWord
<1>1. CASE \/ Search(b) \/ GetIssueLabels(b) \/ GetPullRequestChanges(b)
           \/ AddLabel(b) \/ RemoveLabel(b)
  <2>1. UNCHANGED <<thread, nextId, toPrune>>
    BY <1>1 DEF Search, GetIssueLabels, GetPullRequestChanges, Examine, AddLabel, RemoveLabel
  <2> QED
    BY <2>1, PruneFrame DEF PruneInv
<1>2. CASE ListIssueComments(b)
  <2>1. UNCHANGED <<thread, nextId>>
    BY <1>2 DEF ListIssueComments
  <2>2. CASE UNCHANGED toPrune
    BY <2>1, <2>2, PruneFrame DEF PruneInv
  <2>3. CASE toPrune' = [toPrune EXCEPT ![b] = {c \in ByBot(thread) : ~IsLast(c, ByBot(thread))}]
    <3>1. ASSUME NEW c \in ByBot(thread), ~IsLast(c, ByBot(thread))
          PROVE  c.by = "bot" /\ Outlived(c)
      <4>1. PICK d \in ByBot(thread) : ~(d.id <= c.id)
        BY <3>1 DEF IsLast
      <4>2. c.id \in Nat /\ d.id \in Nat /\ c.by = "bot"
        BY DEF ByBot, TypeOK, Comment
      <4> QED
        BY <4>1, <4>2 DEF Outlived
    <3>2. ASSUME NEW d \in Bot, NEW c \in toPrune'[d] PROVE c.by = "bot" /\ Outlived(c)
      BY <2>3, <3>1, <3>2 DEF PruneInv, TypeOK
    <3>3. PruneInv'
      BY <2>1, <3>2 DEF PruneInv, Outlived, ByBot
    <3> QED
      BY <2>1, <3>3 DEF KeepsLastWord
  <2> QED
    BY <1>2, <2>2, <2>3 DEF ListIssueComments, Stale
<1>3. CASE DeleteComment(b)
  BY <1>3, PruneDelete
<1>4. CASE CreateComment(b)
  BY <1>4, PrunePost DEF CreateComment
<1>5. CASE WrongRepository(b) \/ KeepSuccess(b) \/ CreateStatus(b)
  BY <1>5, PruneReturn DEF WrongRepository, KeepSuccess, CreateStatus
<1>6. CASE GetCombinedStatus(b)
  <2>1. CASE Return(b)
    BY <1>6, <2>1, PruneReturn DEF GetCombinedStatus
  <2>2. CASE ~Return(b)
    <3>1. UNCHANGED <<thread, nextId, toPrune>>
      BY <1>6, <2>2 DEF GetCombinedStatus
    <3> QED
      BY <3>1, PruneFrame DEF PruneInv
  <2> QED
    BY <2>1, <2>2
<1> QED
  BY <1>1, <1>2, <1>3, <1>4, <1>5, <1>6 DEF Call

\* PruneInv, for people and for a comment that is sent twice.
LEMMA PruneOthers ==
  ASSUME TypeOK, PruneInv, Environment \/ \E b \in Bot : CreateCommentUnanswered(b)
  PROVE  PruneInv' /\ KeepsLastWord
<1>1. CASE HumanComments
  BY <1>1, PrunePost DEF HumanComments, runVars
<1>2. CASE \E b \in Bot : CreateCommentUnanswered(b)
  BY <1>2, PrunePost DEF CreateCommentUnanswered, runVars
<1>3. CASE EditTitle \/ Push \/ SiteChanges \/ HumanLabels \/ OtherCheck
  <2>1. UNCHANGED <<thread, nextId, toPrune>>
    BY <1>3 DEF EditTitle, Push, SiteChanges, HumanLabels, OtherCheck, runVars
  <2> QED
    BY <2>1, PruneFrame DEF PruneInv
<1> QED
  BY <1>1, <1>2, <1>3 DEF Environment

\* PruneInv is kept by every step, and with it the bot's last word.
LEMMA PruneStep ==
  ASSUME TypeOK, PruneInv, [Next]_vars
  PROVE  PruneInv' /\ KeepsLastWord
<1>1. CASE \E b \in Bot : Abort(b)
  BY <1>1, PruneReturn DEF Abort
<1>2. CASE UNCHANGED vars
  BY <1>2, PruneFrame DEF PruneInv, vars, runVars
<1>3. CASE \E b \in Bot : Event(b) \/ ReadErrorPage(b)
  <2>1. UNCHANGED <<thread, nextId, toPrune>>
    BY <1>3 DEF Event, ReadErrorPage, Examine
  <2> QED
    BY <2>1, PruneFrame DEF PruneInv
<1> QED
  BY <1>1, <1>2, <1>3, PruneCall, PruneOthers DEF Next, Mishap

\* Whatever runs prune at the same time, die or send a comment twice: no step
\* deletes a person's comment, nor the last comment of the bot.
THEOREM CommentSafety == Spec => LastWordStays
<1>1. Init => PruneInv
  BY DEF Init, PruneInv
<1>2. TypeOK /\ PruneInv /\ [Next]_vars => PruneInv' /\ KeepsLastWord
  BY PruneStep
<1>3. KeepsLastWord => [\A c \in thread \ thread' :
                          /\ c.by = "bot"
                          /\ \E d \in ByBot(thread') : d.id > c.id]_thread
  BY DEF KeepsLastWord, Outlived, ByBot
<1> QED
  BY <1>1, <1>2, <1>3, Typing, PTL DEF Spec, LastWordStays

-----------------------------------------------------------------------------
(* The promises of module Board *)

\* One run at a time knows whether the commit it reports on is green already,
\* and does not report on it if so.
StatusInv ==
  Listings = 1 /\ (\A b, d \in Bot : b = d) =>
    \A b \in Bot : pc[b] # "idle" =>
      /\ pr[b].head # NoHead /\ own[pr[b].head] = "success" => pr[b].green
      /\ pc[b] = "publish" => ~pr[b].green

\* Only a run that knows the head of the pull request publishes a status.
PublishInv == \A b \in Bot : pc[b] = "publish" => pr[b].head # NoHead

\* Every step keeps PublishInv: who publishes a status has a head for it.
LEMMA PublishStep ==
  ASSUME TypeOK, PublishInv, [Next]_vars
  PROVE  PublishInv'
<1> SUFFICES ASSUME NEW b \in Bot, pc'[b] = "publish" PROVE pr'[b].head # NoHead
  BY DEF PublishInv
<1>1. ASSUME NEW d \in Bot, Return(d) \/ End(d) PROVE pr'[b].head # NoHead
  <2>1. pc[b] = "publish" /\ pr'[b] = pr[b]
    BY <1>1 DEF TypeOK, Return, End, Goto
  <2> QED
    BY <2>1 DEF PublishInv
<1>2. ASSUME NEW d \in Bot, ~Return(d), GetCombinedStatus(d) PROVE pr'[b].head # NoHead
  <2>1. /\ pr' = pr /\ ~Settled(d)
        /\ pc[b] = "publish" \/ b = d
    BY <1>2 DEF TypeOK, GetCombinedStatus, Goto
  <2> QED
    BY <2>1 DEF PublishInv, Settled
<1>3. ASSUME NEW d \in Bot, Search(d) \/ Event(d) PROVE pr'[b].head # NoHead
  <2>1. pc[b] = "publish" /\ pr'[b] = pr[b]
    BY <1>3 DEF TypeOK, Search, Event, Goto
  <2> QED
    BY <2>1 DEF PublishInv
<1>4. ASSUME NEW d \in Bot,
             \/ GetIssueLabels(d) \/ GetPullRequestChanges(d) \/ ReadErrorPage(d)
             \/ AddLabel(d) \/ RemoveLabel(d)
             \/ ListIssueComments(d) \/ DeleteComment(d) \/ CreateComment(d)
      PROVE  pr'[b].head # NoHead
  <2>1. pr' = pr /\ pc[b] = "publish"
    BY <1>4 DEF TypeOK, GetIssueLabels, GetPullRequestChanges, ReadErrorPage, Examine, AddLabel,
                RemoveLabel, ListIssueComments, DeleteComment, CreateComment, Goto
  <2> QED
    BY <2>1 DEF PublishInv
<1>5. ASSUME Environment \/ UNCHANGED vars \/ \E d \in Bot : CreateCommentUnanswered(d)
      PROVE  pr'[b].head # NoHead
  <2>1. pr' = pr /\ pc' = pc
    BY <1>5 DEF Environment, EditTitle, Push, SiteChanges, HumanLabels, HumanComments,
                OtherCheck, CreateCommentUnanswered, vars, runVars
  <2> QED
    BY <2>1 DEF PublishInv
<1> QED
  BY <1>1, <1>2, <1>3, <1>4, <1>5
     DEF Next, Call, Mishap, Abort, WrongRepository, KeepSuccess, CreateStatus

\* Every step keeps StatusInv: a run alone knows the status it replaces.
LEMMA StatusStep ==
  ASSUME TypeOK, StatusInv, [Next]_vars
  PROVE  StatusInv'
<1> SUFFICES ASSUME Listings = 1, \A b, d \in Bot : b = d, NEW b \in Bot, pc'[b] # "idle"
             PROVE  /\ pr'[b].head # NoHead /\ own'[pr'[b].head] = "success" => pr'[b].green
                    /\ pc'[b] = "publish" => ~pr'[b].green
  BY DEF StatusInv
<1>1. CASE Search(b)
  <2>1. PICK n \in 0 .. Listings - 1 :
          pr' = [pr EXCEPT ![b] =
            [title |-> title, head |-> head, green |-> Green(head), left |-> n]]
    BY <1>1 DEF Search
  <2>2. pr'[b].head = head /\ pr'[b].green = Green(head)
    BY <2>1 DEF TypeOK
  <2>3. own' = own /\ pc'[b] = "listed"
    BY <1>1 DEF TypeOK, Search, Goto, ciVars
  <2> QED
    BY <2>2, <2>3 DEF Green
<1>2. CASE Return(b) \/ End(b)
  <2>1. pr[b].left \in 0 .. 0
    BY DEF TypeOK
  <2>2. End(b)
    BY <1>2, <2>1 DEF Return
  <2> QED
    BY <2>2 DEF TypeOK, End, Goto
<1>3. CASE GetCombinedStatus(b) /\ ~Return(b)
  BY <1>3 DEF StatusInv, TypeOK, GetCombinedStatus, At, Goto, ciVars
<1>4. CASE \/ GetIssueLabels(b) \/ GetPullRequestChanges(b) \/ ReadErrorPage(b)
           \/ AddLabel(b) \/ RemoveLabel(b)
           \/ ListIssueComments(b) \/ DeleteComment(b) \/ CreateComment(b)
  <2>1. /\ own' = own /\ pr' = pr /\ pc[b] # "idle"
        /\ pc'[b] = "publish" => pc[b] = "publish"
    BY <1>4 DEF TypeOK, GetIssueLabels, GetPullRequestChanges, ReadErrorPage, Examine, AddLabel,
                RemoveLabel, ListIssueComments, DeleteComment, CreateComment, At, Goto, ciVars
  <2> QED
    BY <2>1 DEF StatusInv
<1>5. CASE Environment \/ CreateCommentUnanswered(b) \/ UNCHANGED vars
  <2>1. own' = own /\ pr' = pr /\ pc' = pc
    BY <1>5 DEF Environment, EditTitle, Push, SiteChanges, HumanLabels, HumanComments,
                OtherCheck, CreateCommentUnanswered, vars, ciVars, runVars
  <2> QED
    BY <2>1 DEF StatusInv
<1>6. CASE Event(b)
  BY <1>6 DEF TypeOK, Event, Goto
<1> QED
  BY <1>1, <1>2, <1>3, <1>4, <1>5, <1>6
     DEF Next, Call, Mishap, Abort, WrongRepository, KeepSuccess, CreateStatus

\* Posting a comment is what Board calls posting one.
LEMMA BoardPost ==
  ASSUME TypeOK, PruneInv, NEW who \in {"bot", "human"}, NEW text \in Text, Post(who, text)
  PROVE  \E c \in thread' : /\ c \in OnBoard!Comment /\ c.by = who /\ OnBoard!Later(c)
                            /\ thread' = thread \union {c}
<1> DEFINE c == [id |-> nextId, by |-> who, body |-> text]
<1>1. c \in OnBoard!Comment /\ c.by = who /\ c \in thread' /\ thread' = thread \union {c}
  BY DEF Post, TypeOK, OnBoard!Comment
<1>2. OnBoard!Later(c)
  BY DEF PruneInv, TypeOK, Comment, OnBoard!Later
<1> QED
  BY <1>1, <1>2

\* The bot asks GitHub to add and to remove labels of its own only.
AskInv == \A b \in Bot : \A l \in toAdd[b] \union toRemove[b] : Owned(l)

\* Every step keeps AskInv: a run asks for labels that the bot owns.
LEMMA AskStep ==
  ASSUME TypeOK, AskInv, [Next]_vars
  PROVE  AskInv'
<1>1. CASE \E b \in Bot : GetPullRequestChanges(b) \/ ReadErrorPage(b)
  <2>1. PICK b \in Bot : \E files : Examine(b, files)
    BY <1>1 DEF GetPullRequestChanges, ReadErrorPage
  <2>2. \E v : /\ toAdd' = [toAdd EXCEPT ![b] = OwnedIn(v.labels) \ seen[b]]
               /\ toRemove' = [toRemove EXCEPT ![b] = OwnedIn(seen[b]) \ v.labels]
    BY <2>1 DEF Examine, Lacking, Surplus
  <2> QED
    BY <2>2 DEF AskInv, TypeOK, OwnedIn, Owned
<1>2. ASSUME \A b \in Bot : toAdd'[b] \subseteq toAdd[b] /\ toRemove'[b] \subseteq toRemove[b]
      PROVE  AskInv'
  BY <1>2 DEF AskInv, Owned
<1>3. CASE UNCHANGED <<toAdd, toRemove>>
  BY <1>2, <1>3
<1>4. CASE \E b \in Bot : AddLabel(b) \/ RemoveLabel(b)
  <2>1. toAdd \in [Bot -> SUBSET Label] /\ toRemove \in [Bot -> SUBSET Label]
    BY DEF TypeOK
  <2>2. PICK b \in Bot, l \in Label :
          \/ toAdd' = [toAdd EXCEPT ![b] = @ \ {l}] /\ toRemove' = toRemove
          \/ toRemove' = [toRemove EXCEPT ![b] = @ \ {l}] /\ toAdd' = toAdd
    BY <1>4, <2>1 DEF AddLabel, RemoveLabel
  <2>3. \A d \in Bot : toAdd'[d] \subseteq toAdd[d] /\ toRemove'[d] \subseteq toRemove[d]
    BY <2>1, <2>2
  <2> QED
    BY <1>2, <2>3
<1>5. CASE \E b \in Bot : Return(b) \/ End(b)
  <2>1. PICK b \in Bot : Forget(b)
    BY <1>5 DEF Return, End
  <2>2. \A d \in Bot : toAdd'[d] \subseteq toAdd[d] /\ toRemove'[d] \subseteq toRemove[d]
    BY <2>1 DEF TypeOK, Forget
  <2> QED
    BY <1>2, <2>2
<1>6. ASSUME \/ Environment \/ UNCHANGED vars
             \/ \E b \in Bot : CreateCommentUnanswered(b) \/ Event(b)
      PROVE  UNCHANGED <<toAdd, toRemove>>
  BY <1>6 DEF Environment, EditTitle, Push, SiteChanges, HumanLabels, HumanComments,
              OtherCheck, CreateCommentUnanswered, Event, vars, runVars
<1>7. ASSUME NEW b \in Bot, ~Return(b),
             \/ Search(b) \/ GetIssueLabels(b) \/ ListIssueComments(b)
             \/ DeleteComment(b) \/ CreateComment(b) \/ GetCombinedStatus(b)
      PROVE  UNCHANGED <<toAdd, toRemove>>
  BY <1>7 DEF Search, GetIssueLabels, ListIssueComments, DeleteComment, CreateComment,
              GetCombinedStatus
<1> QED
  BY <1>1, <1>3, <1>4, <1>5, <1>6, <1>7
     DEF Next, Call, Mishap, Abort, WrongRepository, KeepSuccess, CreateStatus

\* Refinement of Board, for every call that a run makes.
LEMMA BoardCall ==
  ASSUME TypeOK, PruneInv, StatusInv, PublishInv, AskInv, NEW b \in Bot, Call(b)
  PROVE  [OnBoard!Next]_(OnBoard!vars)
<1>1. CASE AddLabel(b) \/ RemoveLabel(b)
  <2>1. PICK l \in toAdd[b] \union toRemove[b] :
          prLabels' = prLabels \union {l} \/ prLabels' = prLabels \ {l}
    BY <1>1 DEF AddLabel, RemoveLabel, SetLabels
  <2>2. l \in OwnedIn(Label)
    BY <2>1 DEF OwnedIn, TypeOK, AskInv
  <2>3. OnBoard!Relabel
    BY <1>1, <2>1, <2>2 DEF AddLabel, RemoveLabel, ciVars, OnBoard!Relabel
  <2> QED
    BY <2>3 DEF OnBoard!Next
<1>2. CASE CreateComment(b)
  <2>1. verdict[b].comment \in Text
    BY DEF TypeOK, Verdict
  <2>2. OnBoard!Speak
    BY <1>2, <2>1, BoardPost DEF CreateComment, ciVars, OnBoard!Speak
  <2> QED
    BY <2>2 DEF OnBoard!Next
<1>3. CASE DeleteComment(b)
  <2>1. PICK c \in toPrune[b] : thread' = thread \ {c}
    BY <1>3 DEF DeleteComment
  <2>2. PICK d \in ByBot(thread) : d.id > c.id
    BY <2>1 DEF PruneInv, Outlived
  <2>3. c \in Comment /\ d \in Comment /\ c.by = "bot" /\ d.by = "bot"
    BY <2>1, <2>2 DEF TypeOK, PruneInv, ByBot
  <2>4. UNCHANGED <<prLabels, own, edits>>
    BY <1>3 DEF DeleteComment, ciVars
  <2>5. CASE c \in thread
    <3>1. c.id < d.id
      BY <2>2, <2>3 DEF Comment
    <3>2. OnBoard!TakeBack
      BY <2>1, <2>2, <2>3, <2>4, <2>5, <3>1 DEF ByBot, OnBoard!TakeBack
    <3> QED
      BY <3>2 DEF OnBoard!Next
  <2>6. CASE c \notin thread
    BY <2>1, <2>4, <2>6 DEF OnBoard!vars
  <2> QED
    BY <2>5, <2>6
<1>4. CASE CreateStatus(b)
  <2>1. /\ pr[b].head \in Commit /\ verdict[b].state \in Status
    BY <1>4 DEF CreateStatus, At, PublishInv, TypeOK, Verdict
  <2>2. own[pr[b].head] = "success" => Listings > 1 \/ \E x, y \in Bot : x # y
    BY <1>4, ScanAssumption DEF CreateStatus, At, StatusInv, PublishInv
  <2>3. OnBoard!Report
    BY <1>4, <2>1, <2>2 DEF CreateStatus, OnBoard!Report
  <2> QED
    BY <2>3 DEF OnBoard!Next
<1>5. CASE \/ Search(b) \/ GetIssueLabels(b) \/ WrongRepository(b) \/ GetPullRequestChanges(b)
           \/ ListIssueComments(b) \/ KeepSuccess(b) \/ GetCombinedStatus(b)
  BY <1>5 DEF Search, GetIssueLabels, WrongRepository, GetPullRequestChanges, Examine, ListIssueComments,
              KeepSuccess, GetCombinedStatus, ciVars, OnBoard!vars
<1> QED
  BY <1>1, <1>2, <1>3, <1>4, <1>5 DEF Call

\* Refinement of Board, for every fault.
LEMMA BoardFault ==
  ASSUME TypeOK, PruneInv, NEW b \in Bot, Mishap(b)
  PROVE  [OnBoard!Next]_(OnBoard!vars)
<1>1. CASE Abort(b) \/ ReadErrorPage(b)
  BY <1>1 DEF Abort, ReadErrorPage, Examine, ciVars, OnBoard!vars
<1>2. CASE CreateCommentUnanswered(b)
  <2>1. verdict[b].comment \in Text
    BY DEF TypeOK, Verdict
  <2>2. OnBoard!Speak
    BY <1>2, <2>1, BoardPost DEF CreateCommentUnanswered, ciVars, OnBoard!Speak
  <2> QED
    BY <2>2 DEF OnBoard!Next
<1> QED
  BY <1>1, <1>2 DEF Mishap

\* Refinement of Board, for what people, sites and checks do.
LEMMA BoardPeople ==
  ASSUME TypeOK, TypeOK', PruneInv, Environment \/ \E b \in Bot : Event(b)
  PROVE  OnBoard!Next
<1>1. edits' = edits + 1 /\ UNCHANGED own /\ prLabels' \in SUBSET Label
  BY DEF Environment, EditTitle, Push, SiteChanges, HumanLabels, HumanComments, OtherCheck,
         Event, Edit, ciVars, TypeOK
<1>2. CASE HumanComments
  <2>1. \E c \in thread' : /\ c \in OnBoard!Comment /\ c.by = "human" /\ OnBoard!Later(c)
                           /\ thread' = thread \union {c}
    BY <1>2, BoardPost, TextAssumption DEF HumanComments
  <2> QED
    BY <1>1, <2>1 DEF OnBoard!People, OnBoard!Next
<1>3. CASE ~HumanComments
  <2>1. UNCHANGED thread
    BY <1>3 DEF Environment, EditTitle, Push, SiteChanges, HumanLabels, OtherCheck, Event
  <2> QED
    BY <1>1, <2>1 DEF OnBoard!People, OnBoard!Next
<1> QED
  BY <1>2, <1>3

\* For every number of runs: labels the bot does not own, comments of people
\* and the bot's last comment stay; with one run at a time a success stays too.
THEOREM Promises == Spec => KeepsPromises
<1>1. Init => OnBoard!Init /\ PruneInv /\ StatusInv /\ PublishInv /\ AskInv
  BY DEF Init, OnBoard!Init, PruneInv, StatusInv, PublishInv, AskInv
<1>2. TypeOK /\ PruneInv /\ [Next]_vars => PruneInv'
  BY PruneStep
<1>3. TypeOK /\ StatusInv /\ [Next]_vars => StatusInv'
  BY StatusStep
<1>4. TypeOK /\ AskInv /\ [Next]_vars => AskInv'
  BY AskStep
<1>5. TypeOK /\ PublishInv /\ [Next]_vars => PublishInv'
  BY PublishStep
<1>6. TypeOK /\ TypeOK' /\ PruneInv /\ StatusInv /\ PublishInv /\ AskInv /\ [Next]_vars
        => [OnBoard!Next]_(OnBoard!vars)
  <2> SUFFICES ASSUME TypeOK, TypeOK', PruneInv, StatusInv, PublishInv, AskInv, [Next]_vars
               PROVE  [OnBoard!Next]_(OnBoard!vars)
    OBVIOUS
  <2>1. CASE UNCHANGED vars
    BY <2>1 DEF vars, ciVars, OnBoard!vars
  <2> QED
    BY <2>1, BoardCall, BoardFault, BoardPeople DEF Next
<1> QED
  BY <1>1, <1>2, <1>3, <1>4, <1>5, <1>6, Typing, PTL DEF Spec, KeepsPromises, OnBoard!Spec

=============================================================================
