--------------------------------- MODULE Scan ---------------------------------
(***************************************************************************)
(* One scan after the other of the open pull requests (main.go; search and *)
(* HandleAll of internal/plugin/plugin.go).  A scan lists them page by     *)
(* page, once for each organisation of its configuration, and then handles *)
(* what it listed in turn.  Pull requests are opened and closed meanwhile. *)
(*                                                                         *)
(* GitHub answers a search newest first, and its cursor is an offset: what *)
(* the next page begins with depends on what is open by then.              *)
(***************************************************************************)
EXTENDS Naturals, FiniteSets

CONSTANTS
  PR,        \* numbers of the pull requests; a greater number is newer
  PageSize,  \* results in a page
  Orgs,      \* organisations of the configuration, each searched by itself
  Failing,   \* pull requests that handle always returns an error for
  Hanging,   \* pull requests that handle never returns for
  MaxChurn,  \* bound: pull requests opened and closed
  MaxFaults  \* bound: failed searches and processes that die

ASSUME NumberAssumption == PR \subseteq Nat /\ IsFiniteSet(PR)
ASSUME PageAssumption   == PageSize \in Nat \ {0} /\ Orgs \in Nat \ {0}
ASSUME HandleAssumption == Failing \subseteq PR /\ Hanging \subseteq PR
ASSUME BoundAssumption  == MaxChurn \in Nat /\ MaxFaults \in Nat

VARIABLES
  open,           \* the open pull requests, on GitHub
  pc,             \* what the process does: nothing, search or handle
  org,            \* the organisation that is searched
  cursor,         \* how many results of this search were read
  prs,            \* results still to be handled
  churn, faults,  \* what MaxChurn and MaxFaults bound
  \* history, read by the properties only
  handled,        \* pull requests handled since the scan started
  kept,           \* those open since the scan started
  opened, closed  \* those opened and closed since then, while it searched

processVars == <<pc, org, cursor, prs>>
historyVars == <<handled, kept, opened, closed>>
vars == <<open, processVars, churn, faults, historyVars>>

\* a result: the pull request, the search that found it, the page by its cursor,
\* and the place of the pull request then
Result == [pr : PR, org : 1 .. Orgs, page : Nat, at : Nat]

-----------------------------------------------------------------------------
(* GitHub's search *)

\* the open pull requests that come before p
Newer(p) == {q \in open : q > p}

\* the place of an open pull request among the results, the first is 1
Place(p) == Cardinality(Newer(p)) + 1

\* the results of the page after the cursor
Nodes == {p \in open : Place(p) > cursor /\ Place(p) <= cursor + PageSize}

HasNextPageEarly == cursor + PageSize + 1 < Cardinality(open)
HasNextPage == cursor + PageSize < Cardinality(open)

MoreOrgsAtLast == org <= Orgs
MoreOrgs == org < Orgs

EndCursorShort == cursor + PageSize - 1
EndCursor == cursor + PageSize

-----------------------------------------------------------------------------
(* The process *)

Init ==
  /\ open \in SUBSET PR
  /\ pc = "off" /\ org = 1 /\ cursor = 0 /\ prs = {}
  /\ churn = 0 /\ faults = 0
  /\ handled = {} /\ kept = {} /\ opened = {} /\ closed = {}

\* The schedule starts the next scan.
Start ==
  /\ pc = "off"
  /\ pc' = "search" /\ org' = 1 /\ cursor' = 0
  /\ handled' = {} /\ kept' = open /\ opened' = {} /\ closed' = {}
  /\ UNCHANGED <<open, prs, churn, faults>>

\* One page of results.  The results of all organisations are collected before
\* the first of them is handled.
Page ==
  /\ pc = "search"
  /\ prs' = prs \union {[pr |-> p, org |-> org, page |-> cursor, at |-> Place(p)] : p \in Nodes}
  /\ \/ /\ HasNextPage
        /\ cursor' = EndCursor
        /\ UNCHANGED <<pc, org>>
     \/ /\ ~HasNextPage /\ MoreOrgs
        /\ org' = org + 1 /\ cursor' = 0
        /\ UNCHANGED pc
     \/ /\ ~HasNextPage /\ ~MoreOrgs
        /\ pc' = "handle"
        /\ UNCHANGED <<org, cursor>>
  /\ UNCHANGED <<open, churn, faults, historyVars>>

\* r comes before s
Before(r, s) ==
  \/ r.org < s.org
  \/ r.org = s.org /\ r.page < s.page
  \/ r.org = s.org /\ r.page = s.page /\ r.at < s.at

First(r) == r \in prs /\ \A s \in prs \ {r} : Before(r, s)

\* An error of handle is logged, and the loop goes on.
RestAfterIfDone(r) == IF r.pr \in Failing THEN {} ELSE prs \ {r}
RestAfter(r) == prs \ {r}

Handle ==
  /\ pc = "handle"
  /\ \E r \in prs :
       /\ First(r) /\ r.pr \notin Hanging
       /\ prs' = RestAfter(r)
       /\ handled' = handled \union {r.pr}
  /\ UNCHANGED <<open, pc, org, cursor, churn, faults, kept, opened, closed>>

Exit ==
  /\ pc = "handle" /\ prs = {}
  /\ pc' = "off"
  /\ UNCHANGED <<open, org, cursor, prs, churn, faults, historyVars>>

\* A handle that does not return: whoever runs the job ends it some day.
Kill ==
  /\ pc = "handle"
  /\ \E r \in prs : First(r) /\ r.pr \in Hanging
  /\ pc' = "off" /\ prs' = {}
  /\ UNCHANGED <<open, org, cursor, churn, faults, historyVars>>

\* A page cannot be read, which ends the scan before anything is handled, or the
\* process dies.
Fail ==
  /\ faults < MaxFaults /\ faults' = faults + 1
  /\ pc # "off"
  /\ pc' = "off" /\ prs' = {}
  /\ UNCHANGED <<open, org, cursor, churn, historyVars>>

-----------------------------------------------------------------------------
(* People *)

Churn == churn < MaxChurn /\ churn' = churn + 1

Note(seen, p) == IF pc = "search" THEN seen \union {p} ELSE seen

\* A pull request is opened, or opened again.
Open ==
  /\ Churn
  /\ \E p \in PR \ open : open' = open \union {p} /\ opened' = Note(opened, p)
  /\ UNCHANGED <<processVars, faults, handled, kept, closed>>

Close ==
  /\ Churn
  /\ \E p \in open : /\ open' = open \ {p}
                     /\ kept' = kept \ {p}
                     /\ closed' = Note(closed, p)
  /\ UNCHANGED <<processVars, faults, handled, opened>>

-----------------------------------------------------------------------------
Step == Start \/ Page \/ Handle \/ Exit \/ Kill

Next == Step \/ Fail \/ Open \/ Close

Spec == Init /\ [][Next]_vars

\* The schedule starts scans and a process goes on: nothing is assumed of faults
\* and people.
FairSpec == Spec /\ WF_vars(Step)

-----------------------------------------------------------------------------
(* Properties *)

TypeOK ==
  /\ open \subseteq PR
  /\ pc \in {"off", "search", "handle"}
  /\ org \in 1 .. Orgs /\ cursor \in Nat
  /\ prs \subseteq Result
  /\ churn \in 0 .. MaxChurn /\ faults \in 0 .. MaxFaults
  /\ handled \subseteq PR /\ kept \subseteq PR /\ opened \subseteq PR /\ closed \subseteq PR
  /\ kept \subseteq open

InTheList(p) == \E r \in prs : r.pr = p

\* search: a pull request that was open all the time is only missed by a scan
\* when a newer one was closed while it searched, which moves the results after
\* it up by one place, across the border of a page.
NoneMissed ==
  pc = "handle" =>
    \A p \in kept : \/ p \in handled \/ InTheList(p)
                    \/ \E q \in closed : q > p

\* search: an organisation's search lists a pull request twice only when a newer
\* one was opened while it searched.
NoneTwice ==
  \A r, s \in prs : r # s /\ r.pr = s.pr /\ r.org = s.org => \E q \in opened : q > r.pr

\* HandleAll, "Each PR is checked in turn": a pull request that stays open is
\* handled in one scan after the other, although others fail, searches fail,
\* processes die and the results move.  One thing alone can keep it from that: a
\* newer one that handle does not return for, as no call has a timeout.
EveryoneHandled ==
  \A p \in PR :
    \/ []<>(handled = {}) /\ []<>(p \in open => p \in handled)
    \/ <>[](\E q \in Hanging \intersect open : q >= p)

=============================================================================
