# verify-conformance in TLA+

verify-conformance is a bot for the pull requests of cncf/k8s-conformance. A
vendor submits the results of a Kubernetes conformance run as a pull request;
the bot reads its files, runs a feature suite on them and tells the outcome as
labels, one comment and a commit status. This directory holds TLA+ models of
it, the TLC runs that check them on small instances, and TLAPS proofs for every
size.

`PROJECT.json` lists the components, the runs, the theorems, and for each
definition the source lines it stands for. Check a run with

    tlc -workers 2 -config ReconcilerOverlap.cfg MCReconciler
    tlapm SuiteProofs.tla        (and every other module that ends in Proofs)

## 1. Inventory

| component | state | operations | model |
|---|---|---|---|
| Reconciler, `internal/plugin/plugin.go` `handle`, `NewPRSuiteForPR`, `updateLabels`, `updateComments`, `updateStatus` | on GitHub: labels, comments, commit statuses; in the process: what it read | about ten GitHub calls for each pull request | `Reconciler`, `Board`; with the suite: `Pipeline` |
| Feature suite, `internal/suite/suite.go`, `kodata/features/verify-conformance.feature` | labels, missing files, the JSON report of godog | 25 step functions, the summary of the report | `Suite`, `Requirements` |
| Scan, `search` and `HandleAll`, and the process of `main.go` that makes it | list of pull requests | pages of a search, loop over organisations and over pull requests | `Scan` |
| Event path, `HandlePullRequestEvent`, `HandleIssueCommentEvent` | none | builds a pull request from a payload, calls `handle` | `Event` of `Reconciler` |
| Metadata jobs, `hack/generate-conformanceyaml.sh`, `hack/update-stable-txt.sh` and their workflows | `kodata/conformance-testdata`, `kodata/metadata/stable.txt`, branches and pull requests | fetch, commit, have it merged; hourly, independently | `Metadata` |
| `internal/common`, `internal/types` | none | read a file, escape a hint; data types | not modelled |
| the rest of `main.go` | flags | secrets, construction of the client | not modelled |
| GitHub client, godog (vendored) | - | - | what the program relies on: a call sent again (`CreateCommentUnanswered`), an element that stops at its first step that does not pass (`RunStep`) |
| scripts for builds and linters | - | - | not modelled |

How they interact. A schedule (a cron job that runs the container) starts a
process; it searches for all open pull requests and then handles them one after
the other. Handling one means: read its labels, read its files and the answers
of the product web sites, decide (run the suite, or say why not), add labels,
remove labels, list comments, prune comments, write one, read the combined
status, write the status. Every one of these is a call over the network.
Nothing is locked, nothing is stored: GitHub is the only state that outlives a
process, and the process compares and repairs it. Calls are throttled (360 an
hour), so a scan lasts; a second process, from the schedule, by hand or for an
event, may be at work on the same pull request, and people may edit, push,
label and comment between any two calls.

What is hard, and what makes each component correct:

* *Reconciler.* Stale reads (labels, comments, head and status of the search
  are used many calls later), overlapping runs, a run that fails half-way, a
  comment sent twice, text matching that decides which labels the bot owns.
  Correct: an undisturbed run leaves exactly its labels; no run ever destroys
  what people wrote, nor the bot's last word; repeated runs converge and then
  write nothing new, from whatever state faults left.
* *Suite.* Thirty-one elements, of which each may stop half-way; labels left
  by many steps; a summary that groups by two different keys. Correct: the
  verdict is right, the labels agree with it and with each other, the count and
  the hints are right.
* *Scan.* An error ends it; results move between two pages, so that a pull
  request may be listed twice or be missed; one that hangs stops the rest.
  Correct: whoever stays open is handled again and again, and a scan errs only
  for a reason outside it.
* *Metadata.* Two jobs, two files, no order between them, no lock between a job
  and the one an hour later, downloads that do not fail on a page of an error,
  merges long after the request. Correct: never backwards, in the end up to date.

The hazards, each at its line, are in `PROJECT.json` under `hazards`.

## 2. Modules

| module | what it is |
|---|---|
| `Board` | abstract: what the bot may do to labels, comments and statuses, whatever runs do it |
| `Reconciler` | one pull request, the runs that handle it, people, other checks, sites, faults |
| `MCReconciler` | small values for its constants |
| `ReconcilerProofs` | theorems about `Reconciler`, proved by TLAPS |
| `ThreadProofs` | more of them: how many comments the bot leaves, and that it does not repeat itself |
| `Requirements` | abstract: what becomes of a submission, by what it is alone |
| `Suite` | the feature suite on one submission and the summary of its report, step by step |
| `MCSuite` | a perfect submission and those that deviate from it in up to two ways |
| `FeatureProofs` | lemmas about the feature: its elements, their steps, their names |
| `StepProofs` | lemmas about the steps: when an element fails, and which labels it leaves |
| `SuiteProofs` | theorems about `Suite` |
| `Pipeline`, `MCPipeline` | `Reconciler` with the verdicts of `Requirements`, on real submissions |
| `Scan`, `ScanProofs` | one scan after the other, while pull requests open and close |
| `Metadata`, `MetadataProofs` | the two jobs, GitHub merging for them, releases of Kubernetes |

### Reconciler

One action is one GitHub call of `handle` with the computation that follows it;
`pc` is the call a run makes next.

| variable | in the code |
|---|---|
| `title`, `head`, `site` | the pull request as it is; `site` is what the product URLs answer |
| `prLabels`, `thread`, `nextId` | labels and comments on GitHub |
| `own[c]`, `others[c]` | state of the context verify-conformance on commit c; combined state of all other contexts |
| `pr[b]` | the `PullRequestQuery` of the search: title, head (`NoHead` for an event), whether the head was green; and how often the pull request is still to come in the list |
| `seen[b]` | `prSuite.PR.Labels` after `GetIssueLabels` |
| `verdict[b]` | `finalComment`, `labels`, `state` |
| `toAdd[b]`, `toRemove[b]`, `toPrune[b]` | what the loops of `updateLabels` and `updateComments` still have to do |
| `clean[b]` | no code: history for `LabelsReconciled` |

| action | code |
|---|---|
| `Search` | `search`; labels are read by a call of their own, the rest is used as listed |
| `Event` | `HandlePullRequestEvent`: a run on a pull request without head and commits |
| `WrongRepository` | such a run asks a repository of the author, and fails unless the author owns it |
| `GetIssueLabels`, `GetPullRequestChanges` | `NewPRSuiteForPR`, then the decision of `handle` (`Examine`, `Decide`) |
| `AddLabel`, `RemoveLabel` | the two loops of `updateLabels`; additions first |
| `ListIssueComments`, `DeleteComment`, `CreateComment` | `updateComments`; deletions oldest first |
| `KeepSuccess`, `GetCombinedStatus`, `CreateStatus` | `updateStatus` |
| `Return`, `End` | `handle` returns and `HandleAll` goes on, perhaps with the same pull request again, on the same listing; or the process ends |
| `Abort` | any error return, or the end of the process |
| `ReadErrorPage` | `fetchFileFromURI` does not look at the HTTP status: the page is taken for the file |
| `CreateCommentUnanswered` | the client sends the call again although it was executed |
| `EditTitle` ... `OtherCheck` | people, sites and other checks (external) |

Abstractions, and why they lose nothing the properties tell apart:

* A commit stands for the files it contains. The feature suite is the constant
  operator `SuiteVerdict`, of the title, the commit that was listed, the commit
  whose files were read, and the sites; it is deterministic, as `Suite` is.
* The search lists five commits. A head beyond the first five has no context in
  the list and could not be found green; but more than one commit fails the
  suite, so such a head is never a success of the bot. The window is left out.
* Labels are added, and removed, in any order; the code takes that of its list.
* Calls that repeat without effect (adding a label that is there, deleting a
  comment that is gone, which is not an error for GitHub's client) are not sent
  twice in the model.
* Stable metadata: releases that are supported and releases that have a
  `conformance.yaml` are constants, unrelated to each other.
* The variables of a run are reset when it returns; the code simply leaves
  `handle`.
* The wording of a comment is a name.

### Board

The promise the bot makes: labels that it does not own stay; comments of people
stay, and so does its own last one; a comment is only ever added at the end;
and, when runs do not overlap, a commit that it called a success keeps it.
`KeepsPromises` in `Reconciler` is `Board!Spec` under the mapping `Managed <-
OwnedIn(Label)`, `Overlap <- there are two runs, or a pull request is listed
twice`. In both cases the last promise does not hold (what was listed before the
head was green may still lead to a failure), which is why it depends on
`Overlap`.

### Suite and Requirements

`Requirements` says without steps what the state and the labels of a submission
are, and holds the pure algorithms: the supported releases (`IsSupported`), the
required tests of a release with the way its list of releases is misread
(`Misread`: only the first one parses), submitted and successful tests, and the
wait for metadata that is not there yet (`Pending`). `Suite` gets there step by
step; `OutcomeIsRight` says that it always arrives at what `Requirements` says.

`sub` is the submission as the steps see it: where its files are, which of them
are spelled in another case than the feature does, which are empty or cannot be
read, the fields of PRODUCT.yaml, the content types of its
URLs, the tests in junit_01.xml with their outcomes, the number of commits.
Files go by their names up to case, as `isIncludedInItsFileList` and
`GetFileByFileName` find them (suite.go:210, 319): a `readme.md` is not missing. One
step, `theFilesIncludedInThePRAreOnly` (suite.go:295), compares exactly and fails
for it, and the links are only read from a file of the very name `PRODUCT.yaml`
(plugin.go:258); `sub.miscased` is what they see.
`metadata` is the conformance.yaml of the release: good, garbled (a page of an
error), or unreadable. `RunStep` is one step of the feature (`Result` says what
it answers, `LabelsOf` which labels it leaves); the first one that does not pass
ends its element. `Summarise` is one round of the loop over the elements of the
report, `Conclude` the end of `GetLabelsAndCommentsFromSuiteResultsBuffer`,
`Postpone` its early return. The release is that of any well-formed folder (the
code takes the first file that has one, and the order of the files is GitHub's).
The fifteen scenarios of the feature file are fifteen definitions, `TitleNotEmpty`
to `OneCommit`; `Feature` is their sequence, and `Rows` repeats it for each
directory that godog is given.

`handle` starts the suite only for a title that names a submission and for a
supported release whose `conformance.yaml` exists, and `Init` starts there. Left
out: a PRODUCT.yaml that parses as one of the two map types the steps use and
not as the other, and a second junit file in another folder with other contents.

### Pipeline

`Pipeline` gives the constants of `Reconciler` their meaning: a commit holds a
submission (`Contents`), `SubmissionOf` puts together what `NewPRSuiteForPR`
hands to the suite (title and commits of the search, files of the head, answers
of the sites), and the verdict is the outcome that `Requirements` gives. Labels
have their names again, so that it matters that `updateLabels` recognises what
the suite comes up with. Comments are told apart as far as success, missing tests
and other failures. stable.txt is ahead of the metadata there: the latest release,
a patch of v1.31, has none yet, and the suite would fail its submissions if it were
run on them. That the suite itself gives this outcome is `OutcomeIsRight`
of the run `suite_verdicts`.

### Scan

GitHub answers a search newest first, in pages, and its cursor is an offset: the
place of a pull request is one more than the number of newer open ones at the
moment its page is asked for. `Page` is one round of the loop in `search`, with
the next organisation or the start of `handle` when there are no more pages;
`Handle` one round of the loop in `HandleAll`; `Fail` the error of a page, which
discards what was listed, or the end of the process. `Failing` are pull requests
whose `handle` returns an error (it is logged), `Hanging` those it does not
return for; `Kill` is whoever ends such a process, as nothing in it does.
`kept`, `handled`, `opened`, `closed` are history. `Orgs` is 2 because every
organisation is searched for all repositories; `main.go` configures one today.

### Metadata

`main[j]` is what the main branch has in the file or folder of job `j`, a set of
pairs of a file and its contents; `pulls` are the pull requests of the jobs.
`Checkout` ... `MergeAuto` are the steps of the workflows; `git push -f` and `gh
pr create` are two of them, so that a job may die between (`Die`). `Merge` is
GitHub's, at any later time, as a three-way merge of each file; different changes
of one file are a conflict. The branch is named for the minute of the last commit
of main: `rev`, which is only wrong when two commits share a minute. The jobs
meet in `rev` alone, and a commit of anybody (`Commit`) has the same effect there,
so each is checked by itself; the proofs are for both together.

## 3. Runs

| run | what it shows | bounds |
|---|---|---|
| `reconciler_overlap` | `LabelsReconciled`, `LastWordStays`, `ThreadBounded`, refinement of `Board`; labels, comment and status converge and runs write nothing new, runs for an event included | two runs, two commits, the title of a submission, 1 edit, 1 fault; 0.9 million states |
| `reconciler_recover` | convergence over titles, releases and sites, after faults; `NoEcho`; refinement of `Board` with a success that stays | one run, four commits, two kinds of sites, 2 edits, 2 faults; 1.1 million states |
| `pipeline` | `CheckedIffAcceptable`, `NothingWithheld`, `AcceptableTurnsGreen`, `MetadataAwaited` | one run, four submissions, listed up to twice, 2 edits, 1 fault; 0.7 million states |
| `suite_verdicts` | `OutcomeIsRight`, `LabelsAgree`, `CountIsRight`, `HintsInPlace` | about 900 submissions and releases, three states of the metadata; 280 thousand states |
| `scan` | `NoneMissed`, `NoneTwice`, `EveryoneHandled` | five pull requests, pages of two, two organisations, one that fails, one that hangs, 2 openings and closings, 1 fault |
| `metadata_stable` | `NoDowngrade`, `UpToDateUnlessBlocked` | two new releases, 1 commit, 2 faults of both kinds |
| `metadata_testdata` | `UpToDate` | one new release, 1 commit, 1 page of an error |
| `sticky_success` | violated: a success outlives a later failure | one run, 1 edit |
| `stale_head` | violated: a commit is called a success for the files of another | one run, 1 edit |
| `events_differ` | violated: a run for an event sees no commits and fails a good submission | one run, 1 edit (the event) |
| `type_is_checked` | violated: any type passes | as `suite_verdicts` |
| `fields_are_filled` | violated: a required field that is there and empty passes | as `suite_verdicts` |

Why the bounds are enough. Every stale read involves a run that reads, a change
and the same run that acts: one edit and one run, or two runs, already have all
of them, and runs repeat without bound in every configuration. Two edits let a
title or a head go away and come back. A fault leaves any
prefix of what a run publishes behind; two of them let the repair fail too. The
labels include one of no concern to the bot (`lgtm`) and one that it takes for
its own by its text (`needs-release-notes`, as it does with its own `release-documents-checked`). The four commits of
`reconciler_recover` stand for the four kinds of decision: passing, failing, of
an unsupported release, of a release without metadata. Ids of comments grow
with every comment, but runs cease to write them, so that bounded edits and faults
bound them as well. The submissions of `suite_verdicts` deviate in up to two
fields, so that every pair of requirements is seen broken together. Five pull
requests in pages of two make a last page that is not full and a search whose
number of pages changes when one opens or closes; two changes let one move the
results back and another forth. Two releases let a pull request for the first
wait until that of the second is merged, which is the case `NoDowngrade` is
about; with a third nothing new happens, as conflicts are between two.

`suite_verdicts`, `type_is_checked` and `fields_are_filled` switch the deadlock check
off: a suite run ends. The runs of the other modules never do.

Fairness. `FairSpec` is weak fairness of `Call(b)` for each run: a process that
is running makes its next call, and the schedule starts the next run. Nothing
is assumed of people, sites, checks and faults, except that `MaxEdits` and
`MaxFaults` make them stop: the convergence properties say what happens when a
pull request is left alone. No order and no exclusion between runs is assumed.
`Scan` has weak fairness of the process and the schedule together (`Step`); a
process that hangs is ended some day, which `EveryoneHandled` needs to say
anything of the pull requests before it. `Metadata` has weak fairness of each job
(`Step(j)`: the schedule starts it hourly, and its steps follow each other) and of
merging some pull request that can be merged (`Merged`). Nothing is assumed of
pages of an error, deaths, people and releases, except that the bounds make them
stop.

The five violations are disagreements between the code and what the repository
says of it; `findings` in `PROJECT.json` quotes both. Other things worth a
reader's attention, which the passing properties take into account:

* `Meets` is what the code enforces, so it takes any type and an empty required
  field; that the feature asks for more is what the runs `type_is_checked` and
  `fields_are_filled` show.
* While another check outvotes the bot in the combined status (it failed, and the
  bot's verdict is pending), every run posts the status that the commit has from the
  bot already (plugin.go:515-519), for ever. `RunsFallSilent` is about the writes
  themselves, not the values, and makes this one exception.
* No HTTP call has a timeout (plugin.go:167, 300): a site that never answers keeps
  every pull request after its own in the list from being handled, in every
  scan. `EveryoneHandled` says that nothing else can.
* A job that dies between `gh pr create` and `gh pr merge` blocks all later jobs
  until somebody commits to main, as they all want the same branch:
  `UpToDateUnlessBlocked`.
* A page of an error in the place of the version empties conformance-testdata, and
  that change merges itself (generate-conformanceyaml.sh:25-29); an hour later
  `UpToDate` repairs it. With two such faults a three-way merge can also leave a
  folder of releases of different hours, which is repaired in the same way; so
  `NoDowngrade` is about stable.txt.
* Metadata with a release list that starts with a later release is unreadable for
  the whole release (`Misread`), and every submission of it fails.
* The bot never shows a pending status on a head without other checks (GitHub's
  combined status of no context is pending, so the bot finds its state there).
* A hint would be filed under later scenarios too if the feature were found in two
  directories (`HintsInPlace` fails with `Paths = 2`).

## 4. Proofs

All are for any values of the constants, from the assumptions the modules name:

* `Reconciler`: runs are finitely many; the label and text sets contain the bot's
  own; the suite returns a verdict; an event's missing head is no commit; bounds
  are natural numbers.
* `Suite`: `SubmissionAssumption`: a submission has finitely many files, each in a
  folder or more, only PRODUCT.yaml and junit_01.xml are ever parsed, a field is
  absent, empty, good or malformed, a test has one of the outcomes that junit knows
  (`IsSubmission`; `TypeOK` and the runs check it for the submissions of
  `MCSuite`). `ReleaseAssumption`: a well-formed folder names a release, which is a
  positive number. `PathsAssumption`: godog is given a directory or more.
* `Scan`: numbers of pull requests are a finite set of naturals, pages are not
  empty. `Metadata`: the first release has two before it.

Every invariant and every action property that a passing run checks is proved,
`KeepsPromises` included; so is each inductive invariant, named below, on
which it rests.

`ReconcilerProofs`, for any set of runs, commits, titles, labels and texts, any
number of listings and any effect of a page of an error:

* `Typing`: `Spec => []TypeOK`.
* `LabelSafety`: `Spec => []LabelsReconciled`. The property speaks of runs past
  `updateLabels` and is not inductive. `LabelInv` adds what holds half-way: for
  a run alone with the labels, what GitHub has is what the run read (before the
  decision), and afterwards the owned labels on GitHub are those wanted, without
  the ones still to add and with the ones still to remove.
* `CommentSafety`: `Spec => LastWordStays`. `PruneInv`: every id is below
  `nextId`, and every comment that some run still means to delete is the bot's
  and is outlived by a later comment of the bot in the thread. A deletion may
  take the witness of another run's comment; the later comment that outlives
  the witness is then the new one.
* `Promises`: `Spec => KeepsPromises`, the refinement of `Board`, action by
  action, from `PruneInv`, `AskInv` (a run asks to add and remove owned labels
  only), `StatusInv` (when there is one run and one listing, it knows whether the
  commit it reports on is green, and does not publish on it if so) and
  `PublishInv` (a run that publishes has a head: an event's run never does).

`ThreadProofs`, for the same:

* `Brevity`: `Spec => []ThreadBounded`. The bound on its own is not inductive: a run
  may be about to write while the thread is full. `CrowdInv` says who can be: if
  some run that is about to write will leave v comments of the bot in place, v plus the
  number of all those runs is still within the bound. A run that starts to write
  leaves one comment (`CrowdList`); one that writes makes every other leave one
  more, but is itself no longer among them (`CrowdCreate`); a comment that is sent twice
  is paid for by the fault (`CrowdTwice`). `UniqueInv` (no two comments have one number)
  makes the last comment one.
* `Novelty`: `Spec => NoEcho`, for one run at a time, which is what the property is
  about (with two, both may find the same thing missing, and both write it).
  `EchoInv`: from the moment the run has listed the comments until it writes, the
  last comment of the bot differs from what it will write; what it deletes in
  between is never the last one (`PruneInv`).

`SuiteProofs`, for any submissions, releases, required tests, metadata and any
number of directories. The feature is not a constant: it has 31 elements in 15
scenarios, and what is true of all of them is shown scenario by scenario
(`FeatureProofs`, by adding one scenario after the other to `Feature`). The argument
has three parts.

1. What an element comes to depends on the submission alone. For each scenario a
   lemma of `StepProofs` (`TestsPassComes` and its like) says when it fails and
   which labels it leaves, of the steps that run before the first that does not
   pass. Together: no element fails exactly if the conditions in `Flawless` hold
   (`NoneFails`), and the labels left are those of `Requirements`
   (`LeftByFeature`).
2. The run loses nothing of it. `SuiteInv`: the report has, for each element that is
   over, the step that decided on it (`ReportInv`); the labels are those of these
   elements and of the steps that ran since (`LabelsInv`); the summary has one
   entry for every description with a failed element among those read, and no
   other (`SummaryInv`). None of the properties is inductive without these, as
   they speak of the end of the run only.
3. The requirements are the conditions of the steps: `Flawless <=> Meets`
   (`FlawlessIsMeets`). This takes, for instance, that the release is that of
   *some* well-formed folder, that all files being in one folder makes it the only
   one, and that the step that counts an errored test as run and the step that
   counts it as unsuccessful agree on the verdict.

From these:

* `Outcomes`: `Spec => []OutcomeIsRight`, so `Suite` implements `Requirements`, which
  is what `Pipeline` takes for the suite;
  `Labels`: `[]LabelsAgree`; `Typing`: `[]TypeOK`.
* `Count`: `[]CountIsRight`. Entries are grouped by description and passes by name;
  that the two tell scenarios apart alike (`NamesAgree`) makes entries and failing
  names equal in number.
* `Hints`: `[]HintsInPlace`, for `Paths = 1`, which is what `GetGodogPaths` finds in the
  container and in the tests. `HintsInv` holds while elements of one description are
  neighbours in the report: the entry that takes a hint is then always the last
  one, and the flag that is not reset does no harm. With two directories the
  feature is repeated and the property is false.

`ScanProofs`, for any pull requests, page size, organisations and openings and
closings. Counting lemmas say how the place of a pull request changes when another
opens (`PlaceOpen`) or closes (`PlaceClose`):

* `Typing`: `Spec => []TypeOK`.
* `Completeness`: `Spec => []NoneMissed`. `MissInv`: a pull request that is kept,
  with no newer one closed, is listed, or the first search is still on and it lies
  ahead of the cursor; what comes after the first search cannot spoil it.
* `Uniqueness`: `Spec => []NoneTwice`. `TwiceInv`: with no newer one opened, what
  was listed by the search in progress has a place behind the cursor, so that no
  later page lists it again.

`MetadataProofs`, for any releases, jobs, commits and faults:

* `Typing`: `Spec => []TypeOK`; in particular stable.txt names a release at all
  times, whatever was downloaded.
* `Monotony`: `Spec => NoDowngrade`. `ForwardInv`: what is checked out and what
  waits leads from the release it was made from to the same or a later one. That
  main may have moved on in between does not matter, since a merge takes the file
  only if main still has what the checkout had.

Only model-checked: everything with fairness, which the prover cannot treat:
`LabelsConverge`, `CommentConverges`, `StatusSettles`, `RunsFallSilent`,
`CheckedIffAcceptable`, `NothingWithheld`, `AcceptableTurnsGreen`, `MetadataAwaited`,
`EveryoneHandled`, `UpToDate`, `UpToDateUnlessBlocked`; and the five properties that are violated. That the
operators of `Pipeline`, whose tables TLC computes, satisfy the assumptions of
`Reconciler` is evaluated by TLC for the submissions of `MCPipeline`.

## 5. Not modelled

* `HandleIssueCommentEvent`: nothing calls it.
* The steps of suite.go:367-386 (labels present): no scenario uses them.
* Releases of a version 2: the expressions for folders and titles know v1 only.
* The window of the search on commits (5) and files (10): see above for commits;
  the files of the search are not used.
* Rate limits and throttling: they only delay calls, which are not timed.
* Files and environment (`common.go`), report types (`types.go`), flags and
  secrets (`main.go`), builds: no state, or none that takes part.
* Wording of comments and hints.

## 6. What could come next

1. The safety half of convergence as theorems: a run that finds labels, comment and
   status as its verdict wants them writes nothing.
2. `Pipeline` as an instance of `Reconciler` for any submissions: that the verdicts of
   `Requirements` satisfy its assumptions, and that `updateLabels` recognises every
   label the suite can come up with.
3. `Scan` with `Reconciler` in the place of `Handle`, for two pull requests.
