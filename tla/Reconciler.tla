----------------------------- MODULE Reconciler -----------------------------
(***************************************************************************)
(* One open pull request and the runs of verify-conformance that handle    *)
(* it (internal/plugin/plugin.go, handle and what it calls).               *)
(*                                                                         *)
(* A run is a process that searches for open pull requests and handles     *)
(* each of them with a sequence of GitHub calls.  Nothing locks the pull   *)
(* request: two runs may overlap, and people edit the title, push, label   *)
(* and comment between any two calls.  One action is one GitHub call with  *)
(* the computation that follows it.  A run may also be started for an      *)
(* event, and a search may list the pull request more than once.           *)
(*                                                                         *)
(* A commit stands for the files it contains; the feature suite is the     *)
(* constant operator SuiteVerdict.                                         *)
(***************************************************************************)
EXTENDS Naturals, FiniteSets

CONSTANTS
  Bot,             \* runs of the program that may be in flight together
  Title,           \* titles the pull request may be given
  SubmissionTitle, \* those that contain "conformance results for"
  Commit,          \* commits the head of the pull request may point at
  Site,            \* what the product URLs of PRODUCT.yaml may answer
  Text,            \* bodies of comments
  Label,           \* names of labels
  TemplateLabel,   \* those whose text contains a label template without its %v
  Release,         \* Kubernetes releases, and "" for files that name none
  ReleaseOf,       \* the release that the folders of a commit name
  Supported,       \* releases that ItIsAValidAndSupportedRelease accepts
  WithMetadata,    \* releases that have a conformance.yaml
  SuiteVerdict(_, _, _, _),
                   \* verdict of the suite on a title, the commit the search
                   \* listed, the commit whose files were read, and the sites
  Garbled,         \* Garbled[c]: what the files of c look like when a page of
                   \* an error is read in the place of one of them
  Listings,        \* how often one search may list the pull request
  AuthorOwns,      \* the author of the pull request owns the repository
  HumanLabel,      \* labels that people add and remove by hand
  HumanText,       \* bodies of the comments that people write
  CheckState,      \* states that other checks report on the head
  MaxEdits,        \* bound: changes made by people, other checks and sites
  MaxFaults        \* bound: failed calls, crashes and calls sent twice

Status == {"success", "failure", "pending"}

NoCheck == "none"

\* the head of a pull request that was built from an event
NoHead == ""

Verdict == [labels : SUBSET Label, comment : Text, state : Status]

ManagedPRLabels ==
  { "conformance-product-submission", "not-conformance-product-submission",
    "not-verifiable", "release-documents-checked", "required-tests-missing",
    "evidence-missing", "unable-to-process" }

NotASubmission == "This pull request appears to not be a conformance submission"
NotSupported   == "Unable to use version"
PleaseWait     == "Please wait as this version may become available soon"

ASSUME TitleAssumption   == Title # {} /\ Commit # {} /\ SubmissionTitle \subseteq Title
ASSUME LabelAssumption   == /\ ManagedPRLabels \subseteq Label
                            /\ TemplateLabel \subseteq Label
                            /\ HumanLabel \subseteq Label
ASSUME TextAssumption    == /\ {NotASubmission, NotSupported, PleaseWait} \subseteq Text
                            /\ HumanText \subseteq Text
ASSUME CheckAssumption   == CheckState \subseteq Status
ASSUME ReleaseAssumption == /\ ReleaseOf \in [Commit -> Release]
                            /\ Supported \subseteq Release
                            /\ WithMetadata \subseteq Release
ASSUME HeadAssumption    == NoHead \notin Commit
ASSUME FilesAssumption   == Garbled \in [Commit -> SUBSET Commit]
ASSUME SuiteAssumption   == \A t \in Title, c \in Commit \union {NoHead}, f \in Commit, s \in Site :
                              SuiteVerdict(t, c, f, s) \in Verdict
ASSUME ScanAssumption    == Listings \in Nat \ {0} /\ AuthorOwns \in BOOLEAN
ASSUME BotAssumption     == IsFiniteSet(Bot)
ASSUME BoundAssumption   == MaxEdits \in Nat /\ MaxFaults \in Nat

VARIABLES
  \* the pull request on GitHub
  title, head, site,
  prLabels,      \* labels the pull request carries
  thread,        \* comments: a set of records; a greater id is a later comment
  nextId,        \* id of the next comment
  own,           \* own[c]: state of the context verify-conformance on commit c
  others,        \* others[c]: combined state of every other context on c
  edits, faults, \* what MaxEdits and MaxFaults bound
  \* each run of the program
  pc,            \* the call the run makes next
  pr,            \* what the search returned: title, head, is the head green,
                 \* and how often the pull request is still to come in the list
  seen,          \* labels that GetIssueLabels returned
  verdict,       \* comment, labels and state to publish
  toAdd,         \* labels still to add
  toRemove,      \* labels still to remove
  toPrune,       \* comments still to delete
  \* history, read by the properties only
  clean          \* clean[b]: only b changed the labels since b read them

prVars  == <<title, head, site>>
ciVars  == <<own, others>>
runVars == <<pc, pr, seen, verdict, toAdd, toRemove, toPrune>>
vars    == <<prVars, prLabels, thread, nextId, ciVars, edits, faults, runVars, clean>>

-----------------------------------------------------------------------------
(* GitHub *)

Comment == [id : Nat, by : {"bot", "human"}, body : Text]

ByBot(comments) == {c \in comments : c.by = "bot"}

\* c is the last comment of a set of comments
IsLast(c, comments) == c \in comments /\ \A d \in comments : d.id <= c.id

Post(who, text) ==
  /\ thread' = thread \union {[id |-> nextId, by |-> who, body |-> text]}
  /\ nextId' = nextId + 1

\* the combined status: failure if a context failed, pending if one is pending
\* or there is none, success if all succeeded
Combined(c) ==
  LET contexts == {own[c], others[c]} \ {NoCheck}
  IN  IF "failure" \in contexts THEN "failure"
      ELSE IF contexts = {"success"} THEN "success" ELSE "pending"

\* the labels change, and runs other than by are no longer alone with them
SetLabels(labels, by) ==
  /\ prLabels' = labels
  /\ clean' = [b \in Bot |-> clean[b] /\ (b \in by \/ labels = prLabels)]

-----------------------------------------------------------------------------
(* What handle decides *)

isConformancePR(t) == t \in SubmissionTitle

\* labelIsManaged, labelIsVersionLabel or labelIsFileLabel
OwnedByName(l) == l \in ManagedPRLabels
Owned(l)       == l \in ManagedPRLabels \/ l \in TemplateLabel

OwnedIn(labels) == {l \in labels : Owned(l)}

\* What handle publishes for a pull request it does not run the suite on.
UnprocessableAsError(kind, text) ==
  [labels |-> {kind, "unable-to-process"}, comment |-> text, state |-> "error"]

Unprocessable(kind, text) ==
  [labels |-> {kind, "unable-to-process"}, comment |-> text, state |-> "pending"]

DecideAtOnce(t, listed, files, s) ==
  IF ~isConformancePR(t)
  THEN Unprocessable("not-conformance-product-submission", NotASubmission)
  ELSE IF ReleaseOf[files] \notin Supported
  THEN Unprocessable("conformance-product-submission", NotSupported)
  ELSE SuiteVerdict(t, listed, files, s)

Decide(t, listed, files, s) ==
  IF ~isConformancePR(t)
  THEN Unprocessable("not-conformance-product-submission", NotASubmission)
  ELSE IF ReleaseOf[files] \notin Supported
  THEN Unprocessable("conformance-product-submission", NotSupported)
  ELSE IF ReleaseOf[files] \notin WithMetadata
  THEN Unprocessable("conformance-product-submission", PleaseWait)
  ELSE SuiteVerdict(t, listed, files, s)

\* the verdict on the pull request as it is now
Current == Decide(title, head, head, site)

-----------------------------------------------------------------------------
(* How a run compares what it found with what it decided *)

\* updateLabels: labels to remove from those held, given those wanted
SurplusByName(held, wanted)  == (held \intersect ManagedPRLabels) \ wanted
SurplusIfAdding(held, wanted) ==
  IF OwnedIn(wanted) \subseteq held THEN {} ELSE OwnedIn(held) \ wanted
SurplusOfOwned(held, wanted) == OwnedIn(held)
SurplusOfAll(held, wanted)   == held \ wanted
Surplus(held, wanted)        == OwnedIn(held) \ wanted

\* updateLabels: labels to add
Lacking(held, wanted) == OwnedIn(wanted) \ held

\* updateComments: the last comment of the bot says text already
SaidAtAll(mine, text)  == \E c \in mine : c.body = text
SaidAtFirst(mine, text) ==
  \E c \in mine : (\A d \in mine : c.id <= d.id) /\ c.body = text
Said(mine, text) == \E c \in mine : IsLast(c, mine) /\ c.body = text

\* updateComments: comments of the bot to delete before it writes the next one
StaleNone(mine) == {}
StaleAll(mine)  == mine
Stale(mine)     == {c \in mine : ~IsLast(c, mine)}

\* updateStatus: the context verify-conformance of the commit is a success
GreenIfAlone(c) == own[c] = "success" /\ others[c] = NoCheck
GreenIfAny(c)   == own[c] # NoCheck
Green(c)        == own[c] = "success"

-----------------------------------------------------------------------------
(* Runs *)

\* what a run holds before it searched and after it returned
NoPullRequest == [title |-> CHOOSE t \in Title : TRUE,
                  head  |-> CHOOSE c \in Commit : TRUE, green |-> FALSE, left |-> 0]
NoVerdict     == [labels |-> {}, comment |-> PleaseWait, state |-> "pending"]

At(b, l)   == pc[b] = l
Goto(b, l) == pc' = [pc EXCEPT ![b] = l]

\* what the run knew of the pull request is gone
Forget(b) ==
  /\ seen' = [seen EXCEPT ![b] = {}]
  /\ verdict' = [verdict EXCEPT ![b] = NoVerdict]
  /\ toAdd' = [toAdd EXCEPT ![b] = {}]
  /\ toRemove' = [toRemove EXCEPT ![b] = {}]
  /\ toPrune' = [toPrune EXCEPT ![b] = {}]
  /\ clean' = [clean EXCEPT ![b] = FALSE]

\* The process ends.
End(b) ==
  /\ Goto(b, "idle")
  /\ pr' = [pr EXCEPT ![b] = NoPullRequest]
  /\ Forget(b)

\* handle returns.  When the list has the pull request again, it is handled once
\* more, from what the same search said of it.
Return(b) ==
  \/ pr[b].left = 0 /\ End(b)
  \/ /\ pr[b].left > 0
     /\ Goto(b, "listed")
     /\ pr' = [pr EXCEPT ![b].left = @ - 1]
     /\ Forget(b)

Init ==
  /\ title \in Title /\ head \in Commit /\ site \in Site
  /\ prLabels = {}
  /\ thread = {} /\ nextId = 0
  /\ own = [c \in Commit |-> NoCheck]
  /\ others = [c \in Commit |-> NoCheck]
  /\ edits = 0 /\ faults = 0
  /\ pc = [b \in Bot |-> "idle"]
  /\ pr = [b \in Bot |-> NoPullRequest]
  /\ seen = [b \in Bot |-> {}]
  /\ verdict = [b \in Bot |-> NoVerdict]
  /\ toAdd = [b \in Bot |-> {}]
  /\ toRemove = [b \in Bot |-> {}]
  /\ toPrune = [b \in Bot |-> {}]
  /\ clean = [b \in Bot |-> FALSE]

\* A run lists the open pull requests: what it knows of this one from now on.
Search(b) ==
  /\ At(b, "idle")
  /\ \E n \in 0 .. Listings - 1 :
       pr' = [pr EXCEPT ![b] =
         [title |-> title, head |-> head, green |-> Green(head), left |-> n]]
  /\ Goto(b, "listed")
  /\ UNCHANGED <<prVars, prLabels, thread, nextId, ciVars, edits, faults,
                 seen, verdict, toAdd, toRemove, toPrune, clean>>

\* The calls of a run for an event go to a repository of the author.
Found(b) == pr[b].head # NoHead \/ AuthorOwns

GetIssueLabels(b) ==
  /\ At(b, "listed")
  /\ Found(b)
  /\ seen' = [seen EXCEPT ![b] = prLabels]
  /\ clean' = [clean EXCEPT ![b] = TRUE]
  /\ Goto(b, "labelled")
  /\ UNCHANGED <<prVars, prLabels, thread, nextId, ciVars, edits, faults,
                 pr, verdict, toAdd, toRemove, toPrune>>

\* ... where there is no such pull request: handle returns with an error.
WrongRepository(b) ==
  /\ At(b, "listed")
  /\ ~Found(b)
  /\ Return(b)
  /\ UNCHANGED <<prVars, prLabels, thread, nextId, ciVars, edits, faults>>

\* The run has read files, asks the product sites, and decides.  The title and
\* the commits are those of the search; an event comes without commits.
Examine(b, files) ==
  LET v == Decide(pr[b].title, pr[b].head, files, site)
  IN /\ At(b, "labelled")
     /\ verdict' = [verdict EXCEPT ![b] = v]
     /\ toAdd' = [toAdd EXCEPT ![b] = Lacking(seen[b], v.labels)]
     /\ toRemove' = [toRemove EXCEPT ![b] = Surplus(seen[b], v.labels)]
     /\ seen' = [seen EXCEPT ![b] = {}]
     /\ Goto(b, "labels")
     /\ UNCHANGED <<prVars, prLabels, thread, nextId, ciVars, edits, pr, toPrune, clean>>

\* The files are those of the head as it is now.
GetPullRequestChanges(b) == Examine(b, head) /\ UNCHANGED faults

AddLabel(b) ==
  /\ At(b, "labels")
  /\ \E l \in toAdd[b] :
       /\ SetLabels(prLabels \union {l}, {b})
       /\ toAdd' = [toAdd EXCEPT ![b] = @ \ {l}]
  /\ UNCHANGED <<prVars, thread, nextId, ciVars, edits, faults,
                 pc, pr, seen, verdict, toRemove, toPrune>>

\* Labels are removed only after every new one was added.
RemoveLabel(b) ==
  /\ At(b, "labels")
  /\ toAdd[b] = {}
  /\ \E l \in toRemove[b] :
       /\ SetLabels(prLabels \ {l}, {b})
       /\ toRemove' = [toRemove EXCEPT ![b] = @ \ {l}]
  /\ UNCHANGED <<prVars, thread, nextId, ciVars, edits, faults,
                 pc, pr, seen, verdict, toAdd, toPrune>>

\* The last comment of the bot already says it, or all but the last one are
\* to be deleted before the new one is written.
ListIssueComments(b) ==
  LET mine == ByBot(thread)
      said == Said(mine, verdict[b].comment)
  IN /\ At(b, "labels")
     /\ toAdd[b] = {} /\ toRemove[b] = {}
     /\ \/ said /\ Goto(b, "status") /\ UNCHANGED toPrune
        \/ /\ ~said
           /\ toPrune' = [toPrune EXCEPT ![b] = Stale(mine)]
           /\ Goto(b, "comment")
     /\ UNCHANGED <<prVars, prLabels, thread, nextId, ciVars, edits, faults,
                    pr, seen, verdict, toAdd, toRemove, clean>>

\* DeleteStaleComments, oldest first; a comment that is gone already is no error
DeleteComment(b) ==
  /\ At(b, "comment")
  /\ \E c \in toPrune[b] :
       /\ \A d \in toPrune[b] : c.id <= d.id
       /\ thread' = thread \ {c}
       /\ toPrune' = [toPrune EXCEPT ![b] = @ \ {c}]
  /\ UNCHANGED <<prVars, prLabels, nextId, ciVars, edits, faults,
                 pc, pr, seen, verdict, toAdd, toRemove, clean>>

CreateComment(b) ==
  /\ At(b, "comment")
  /\ toPrune[b] = {}
  /\ Post("bot", verdict[b].comment)
  /\ Goto(b, "status")
  /\ UNCHANGED <<prVars, prLabels, ciVars, edits, faults,
                 pr, seen, verdict, toAdd, toRemove, toPrune, clean>>

\* The head was green when the search listed it: the run leaves it alone.
KeepSuccess(b) ==
  /\ At(b, "status")
  /\ pr[b].green
  /\ Return(b)
  /\ UNCHANGED <<prVars, prLabels, thread, nextId, ciVars, edits, faults>>

\* The combined status of no commit is an error, and handle returns.
Settled(b) == pr[b].head # NoHead => Combined(pr[b].head) = verdict[b].state

GetCombinedStatus(b) ==
  /\ At(b, "status")
  /\ ~pr[b].green
  /\ \/ Settled(b) /\ Return(b)
     \/ /\ ~Settled(b)
        /\ Goto(b, "publish")
        /\ UNCHANGED <<pr, seen, verdict, toAdd, toRemove, toPrune, clean>>
  /\ UNCHANGED <<prVars, prLabels, thread, nextId, ciVars, edits, faults>>

CreateStatus(b) ==
  /\ At(b, "publish")
  /\ own' = [own EXCEPT ![pr[b].head] = verdict[b].state]
  /\ Return(b)
  /\ UNCHANGED <<prVars, prLabels, thread, nextId, others, edits, faults>>

-----------------------------------------------------------------------------
(* Faults *)

Fault == faults < MaxFaults /\ faults' = faults + 1

\* A call fails and handle returns, or the process dies: what was published
\* stays, nothing else is.
Abort(b) ==
  /\ Fault
  /\ ~At(b, "idle")
  /\ Return(b) \/ End(b)
  /\ UNCHANGED <<prVars, prLabels, thread, nextId, ciVars, edits>>

\* A file is answered with a page of an error, which the run takes for the file:
\* it does not look at the HTTP status.
ReadErrorPage(b) ==
  /\ Fault
  /\ \E files \in Garbled[head] : Examine(b, files)

\* The answer to CreateComment is lost, and the client sends the call again.
CreateCommentUnanswered(b) ==
  /\ Fault
  /\ At(b, "comment")
  /\ toPrune[b] = {}
  /\ Post("bot", verdict[b].comment)
  /\ UNCHANGED <<prVars, prLabels, ciVars, edits, runVars, clean>>

-----------------------------------------------------------------------------
(* People, other checks and product sites *)

Edit == edits < MaxEdits /\ edits' = edits + 1

EditTitle ==
  /\ Edit
  /\ title' \in Title \ {title}
  /\ UNCHANGED <<head, site, prLabels, thread, nextId, ciVars, faults, runVars, clean>>

\* A push, a force-push to an earlier commit included.
Push ==
  /\ Edit
  /\ head' \in Commit \ {head}
  /\ UNCHANGED <<title, site, prLabels, thread, nextId, ciVars, faults, runVars, clean>>

SiteChanges ==
  /\ Edit
  /\ site' \in Site \ {site}
  /\ UNCHANGED <<title, head, prLabels, thread, nextId, ciVars, faults, runVars, clean>>

HumanLabels ==
  /\ Edit
  /\ \E l \in HumanLabel : \/ SetLabels(prLabels \union {l}, {})
                           \/ SetLabels(prLabels \ {l}, {})
  /\ prLabels' # prLabels
  /\ UNCHANGED <<prVars, thread, nextId, ciVars, faults, runVars>>

HumanComments ==
  /\ Edit
  /\ \E text \in HumanText : Post("human", text)
  /\ UNCHANGED <<prVars, prLabels, ciVars, faults, runVars, clean>>

OtherCheck ==
  /\ Edit
  /\ \E s \in CheckState \ {others[head]} : others' = [others EXCEPT ![head] = s]
  /\ UNCHANGED <<prVars, prLabels, thread, nextId, own, faults, runVars, clean>>

\* The pull request is opened, or opened again: a run is started for the event.
\* The pull request it handles has the title of the event and no commits.
Event(b) ==
  /\ Edit
  /\ At(b, "idle")
  /\ pr' = [pr EXCEPT ![b] = [title |-> title, head |-> NoHead, green |-> FALSE, left |-> 0]]
  /\ Goto(b, "listed")
  /\ UNCHANGED <<prVars, prLabels, thread, nextId, ciVars, faults,
                 seen, verdict, toAdd, toRemove, toPrune, clean>>

Environment == \/ EditTitle \/ Push \/ SiteChanges
               \/ HumanLabels \/ HumanComments \/ OtherCheck

-----------------------------------------------------------------------------
Call(b) == \/ Search(b) \/ GetIssueLabels(b) \/ WrongRepository(b) \/ GetPullRequestChanges(b)
           \/ AddLabel(b) \/ RemoveLabel(b)
           \/ ListIssueComments(b) \/ DeleteComment(b) \/ CreateComment(b)
           \/ KeepSuccess(b) \/ GetCombinedStatus(b) \/ CreateStatus(b)

Mishap(b) == Abort(b) \/ ReadErrorPage(b) \/ CreateCommentUnanswered(b)

Next == \/ \E b \in Bot : Call(b) \/ Mishap(b) \/ Event(b)
        \/ Environment

Spec == Init /\ [][Next]_vars

\* A run that started makes its next call, and the schedule starts the next
\* run when one is over.  Nothing is assumed of people, checks, sites or faults.
FairSpec == Spec /\ \A b \in Bot : WF_vars(Call(b))

-----------------------------------------------------------------------------
(* Properties *)

TypeOK ==
  /\ title \in Title /\ head \in Commit /\ site \in Site
  /\ prLabels \subseteq Label
  /\ thread \subseteq Comment
  /\ nextId \in Nat
  /\ own \in [Commit -> Status \union {NoCheck}]
  /\ others \in [Commit -> Status \union {NoCheck}]
  /\ edits \in 0 .. MaxEdits /\ faults \in 0 .. MaxFaults
  /\ pc \in [Bot -> {"idle", "listed", "labelled", "labels", "comment", "status", "publish"}]
  /\ pr \in [Bot -> [title : Title, head : Commit \union {NoHead},
                     green : BOOLEAN, left : 0 .. Listings - 1]]
  /\ seen \in [Bot -> SUBSET Label]
  /\ verdict \in [Bot -> Verdict]
  /\ toAdd \in [Bot -> SUBSET Label]
  /\ toRemove \in [Bot -> SUBSET Label]
  /\ toPrune \in [Bot -> SUBSET Comment]
  /\ clean \in [Bot -> BOOLEAN]

\* updateLabels: a run that went through it, while nobody else touched the
\* labels since it read them, leaves exactly the labels of its verdict among
\* those the bot owns, whatever labels it found and in whatever state an
\* earlier run that failed half-way left them.
LabelsReconciled ==
  \A b \in Bot :
    clean[b] /\ pc[b] \in {"comment", "status", "publish"} =>
      OwnedIn(prLabels) = OwnedIn(verdict[b].labels)

\* updateComments: a step deletes comments only when they are the bot's and a
\* later one of the bot stays, whoever else prunes at the same time: no comment
\* of a person is lost and the submitter never loses the bot's last word.
LastWordStays ==
  [][\A c \in thread \ thread' :
       /\ c.by = "bot"
       /\ \E d \in ByBot(thread') : d.id > c.id]_thread

\* updateComments: pruning keeps the thread short although runs overlap, die
\* half-way or send a comment twice: besides the bot's last comment there is at
\* most one for each run in flight and one for each fault.
ThreadBounded ==
  Cardinality(ByBot(thread)) <= 1 + Cardinality(Bot) + faults

\* updateComments, one run at a time and until a call is sent twice: the bot never
\* repeats its own last comment ("nothing new to add").
NoEcho ==
  [][faults' = 0 =>
       \A c \in ByBot(thread') \ thread :
         ~ \E d \in ByBot(thread) : IsLast(d, ByBot(thread)) /\ d.body = c.body]_thread

\* The bot's promise about the labels, comments and statuses of the pull request
\* (module Board): labels it does not own stay, comments of people and its own
\* last comment stay and, one run at a time that handles it once, a success stays
\* on its commit.
OnBoard == INSTANCE Board WITH
  Managed <- OwnedIn(Label), Overlap <- Listings > 1 \/ \E b, d \in Bot : b # d

KeepsPromises == OnBoard!Spec

\* Where the repeated runs end up once people, checks, sites and faults leave
\* the pull request alone: the owned labels are those of the verdict on what
\* the pull request is now.
LabelsConverge == <>[](OwnedIn(prLabels) = OwnedIn(Current.labels))

\* ... and the last comment of the bot is the one of that verdict.
CommentConverges ==
  <>[](\E c \in ByBot(thread) : IsLast(c, ByBot(thread)) /\ c.body = Current.comment)

\* ... and the head carries the state of the verdict, alone or combined with
\* the other checks, unless a run made it green before: updateStatus keeps that.
StatusSettles ==
  <>[](\/ own[head] \in {"success", Current.state}
       \/ Combined(head) = Current.state)

\* ... and the runs stop writing: a run that finds nothing new adds, removes and
\* deletes nothing and does not comment.  One thing may go on for ever: while
\* other checks outvote the bot in the combined status, every run posts the state
\* that the commit has from the bot already.
RunsFallSilent ==
  <>[][\A b \in Bot :
         /\ ~AddLabel(b) /\ ~RemoveLabel(b) /\ ~DeleteComment(b) /\ ~CreateComment(b)
         /\ CreateStatus(b) => own[pr[b].head] = verdict[b].state]_vars

\* stable.txt and the metadata are fetched by jobs that know nothing of each other:
\* a submission of a release that is supported before its conformance.yaml is
\* there waits.  Whatever was published on it before, in the end it is neither
\* failed nor called not-verifiable.
MetadataAwaited ==
  <>[](isConformancePR(title) /\ ReleaseOf[head] \in Supported \ WithMetadata =>
         "not-verifiable" \notin prLabels /\ own[head] # "failure")

\* docs/about.md: "the results of comment, labels and state are used to
\* reconcile then comments, labels and status": the status of the head ends up
\* being the state of the verdict, like the labels and the comment.
StatusReconciled ==
  <>[](own[head] = Current.state \/ Combined(head) = Current.state)

\* updateStatus describes the success it creates as "All checks are passing":
\* the commit that carries it passes the checks under some title and answer of
\* the sites.
GreenMeansPassing ==
  \A c \in Commit : own[c] = "success" =>
    \E t \in Title, s \in Site : Decide(t, c, c, s).state = "success"

\* docs/about.md: "Polling and webhooks are used to ensure PRs get checked": a
\* run for an event decides what a run that lists the same pull request decides.
CheckedAlike ==
  [][\A b \in Bot :
       At(b, "labelled") /\ pc'[b] = "labels" /\ pr[b].head \in {head, NoHead} =>
         verdict'[b] = Decide(pr[b].title, head, head, site)]_vars

=============================================================================
