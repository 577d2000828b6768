------------------------------ MODULE ScanProofs ------------------------------
(***************************************************************************)
(* What one scan lists, for every number of pull requests, size of a page  *)
(* and number of organisations, whatever is opened and closed meanwhile.   *)
(***************************************************************************)
EXTENDS Scan, FiniteSetTheorems, TLAPS

-----------------------------------------------------------------------------
(* Places *)

\* Pull requests can be counted.
LEMMA Counting ==
  ASSUME NEW S \in SUBSET PR
  PROVE  IsFiniteSet(S) /\ Cardinality(S) \in Nat
  BY NumberAssumption, FS_Subset, FS_CardinalityType

\* Fewer pull requests count less.
LEMMA CountingSubset ==
  ASSUME NEW S \in SUBSET PR, NEW T \in SUBSET S
  PROVE  Cardinality(T) <= Cardinality(S)
  BY Counting, FS_Subset

\* A place in the results is a positive number.
LEMMA PlaceType ==
  ASSUME TypeOK, NEW p \in PR
  PROVE  Place(p) \in Nat /\ Place(p) >= 1
<1>1. Newer(p) \in SUBSET PR
  BY DEF TypeOK, Newer
<1> QED
  BY <1>1, Counting DEF Place

\* An open pull request is not behind the last result.
LEMMA PlaceBound ==
  ASSUME TypeOK, NEW p \in open
  PROVE  Place(p) <= Cardinality(open)
<1>1. /\ open \in SUBSET PR /\ p \in PR /\ p \in Nat
      /\ Newer(p) \in SUBSET (open \ {p}) /\ open \ {p} \in SUBSET PR
  BY NumberAssumption DEF TypeOK, Newer
<1>2. Cardinality(Newer(p)) <= Cardinality(open \ {p})
  BY <1>1, CountingSubset
<1>3. Cardinality(open \ {p}) = Cardinality(open) - 1
  BY <1>1, Counting, FS_RemoveElement
<1>4. Cardinality(Newer(p)) \in Nat /\ Cardinality(open) \in Nat
  BY <1>1, Counting
<1> QED
  BY <1>2, <1>3, <1>4 DEF Place

\* Opening moves the results back, and only those after what was opened.
LEMMA PlaceOpen ==
  ASSUME TypeOK, NEW x \in PR, open' = open \union {x}, NEW p \in PR
  PROVE  Place(p) <= Place(p)' /\ (x > p \/ Place(p)' = Place(p))
<1>1. Newer(p)' \in SUBSET PR /\ Newer(p) \in SUBSET Newer(p)'
  BY DEF TypeOK, Newer
<1>2. Cardinality(Newer(p)) <= Cardinality(Newer(p)')
  BY <1>1, CountingSubset
<1>3. Cardinality(Newer(p)) \in Nat /\ Cardinality(Newer(p)') \in Nat
  BY <1>1, Counting
<1>4. x > p \/ Newer(p)' = Newer(p)
  BY DEF Newer
<1>5. Place(p)' = Cardinality(Newer(p)') + 1
  BY DEF Place
<1> QED
  BY <1>2, <1>3, <1>4, <1>5 DEF Place

\* Closing moves the results forth, and only those after what was closed.
LEMMA PlaceClose ==
  ASSUME TypeOK, NEW x \in PR, open' = open \ {x}, NEW p \in PR
  PROVE  Place(p)' <= Place(p) /\ (x > p \/ Place(p)' = Place(p))
<1>1. Newer(p) \in SUBSET PR /\ Newer(p)' \in SUBSET Newer(p)
  BY DEF TypeOK, Newer
<1>2. Cardinality(Newer(p)') <= Cardinality(Newer(p))
  BY <1>1, CountingSubset
<1>3. Cardinality(Newer(p)) \in Nat /\ Cardinality(Newer(p)') \in Nat
  BY <1>1, Counting
<1>4. x > p \/ Newer(p)' = Newer(p)
  BY DEF Newer
<1>5. Place(p)' = Cardinality(Newer(p)') + 1
  BY DEF Place
<1> QED
  BY <1>2, <1>3, <1>4, <1>5 DEF Place

-----------------------------------------------------------------------------
(* Types *)

\* Every step keeps the types.
LEMMA TypeStep ==
  ASSUME TypeOK, [Next]_vars
  PROVE  TypeOK'
<1>1. CASE Start
  BY <1>1, PageAssumption DEF TypeOK, Start
<1>2. CASE Page
  <2>1. \A p \in Nodes : p \in PR /\ Place(p) \in Nat
    BY PlaceType DEF TypeOK, Nodes
  <2>2. prs' \subseteq Result
    BY <1>2, <2>1 DEF TypeOK, Page, Result
  <2>3. org' \in 1 .. Orgs /\ cursor' \in Nat /\ pc' \in {"search", "handle"}
    BY <1>2, PageAssumption DEF TypeOK, Page, EndCursor, MoreOrgs
  <2> QED
    BY <1>2, <2>2, <2>3 DEF TypeOK, Page, historyVars
<1>3. CASE Handle
  BY <1>3 DEF TypeOK, Handle, RestAfter, Result
<1>4. CASE Exit
  BY <1>4 DEF TypeOK, Exit, historyVars
<1>5. CASE Kill
  BY <1>5 DEF TypeOK, Kill, historyVars
<1>6. CASE Fail
  BY <1>6, BoundAssumption DEF TypeOK, Fail, historyVars
<1>7. CASE Open
  BY <1>7, BoundAssumption DEF TypeOK, Open, Churn, Note, processVars
<1>8. CASE Close
  BY <1>8, BoundAssumption DEF TypeOK, Close, Churn, Note, processVars
<1>9. CASE UNCHANGED vars
  BY <1>9 DEF TypeOK, vars, processVars, historyVars
<1> QED
  BY <1>1, <1>2, <1>3, <1>4, <1>5, <1>6, <1>7, <1>8, <1>9 DEF Next, Step

\* Every variable of a scan keeps its type.
THEOREM Typing == Spec => []TypeOK
<1>1. Init => TypeOK
  BY PageAssumption, BoundAssumption DEF Init, TypeOK
<1> QED
  BY <1>1, TypeStep, PTL DEF Spec

-----------------------------------------------------------------------------
(* Nothing is missed *)

Excused(p) == \E q \in closed : q > p

\* Half-way through the first search, what is not listed is still behind the
\* cursor; the searches after it do not matter.
MissInv ==
  /\ kept \subseteq open
  /\ pc = "search" =>
       \A p \in kept : \/ Excused(p) \/ InTheList(p)
                       \/ org = 1 /\ Place(p) > cursor
  /\ NoneMissed

\* What is listed by a page, if it is not behind the next one.
LEMMA MissPage ==
  ASSUME TypeOK, MissInv, Page
  PROVE  MissInv'
<1>1. UNCHANGED <<open, historyVars>> /\ pc = "search"
  BY DEF Page
<1>2. ASSUME NEW p \in kept, InTheList(p) PROVE InTheList(p)'
  BY <1>2 DEF Page, InTheList
<1>3. ASSUME NEW p \in kept, p \in Nodes PROVE InTheList(p)'
  <2> DEFINE r == [pr |-> p, org |-> org, page |-> cursor, at |-> Place(p)]
  <2>1. r \in prs' /\ r.pr = p
    BY <1>3 DEF Page
  <2> QED
    BY <2>1 DEF InTheList
<1>4. \A p \in kept : p \in open /\ p \in PR /\ Place(p) \in Nat
  BY PlaceType DEF MissInv, TypeOK
<1>5. \A p \in kept : Place(p)' = Place(p) /\ Excused(p)' = Excused(p)
  BY <1>1 DEF Place, Newer, Excused, historyVars
<1>6. CASE HasNextPage
  <2>1. cursor' = cursor + PageSize /\ org' = org /\ pc' = "search"
    BY <1>1, <1>6 DEF Page, EndCursor
  <2>2. ASSUME NEW p \in kept, ~Excused(p), ~InTheList(p), p \notin Nodes
        PROVE  org' = 1 /\ Place(p)' > cursor'
    BY <1>1, <1>4, <1>5, <2>1, <2>2, PageAssumption DEF MissInv, Nodes, TypeOK
  <2> QED
    BY <1>1, <1>2, <1>3, <1>5, <2>1, <2>2 DEF MissInv, NoneMissed, historyVars
<1>7. CASE ~HasNextPage
  <2>1. ASSUME NEW p \in kept, ~Excused(p), ~InTheList(p) PROVE p \in Nodes
    <3>1. Place(p) <= Cardinality(open)
      BY <1>4, PlaceBound
    <3>2. Cardinality(open) \in Nat /\ Cardinality(open) <= cursor + PageSize
      BY <1>7, Counting, PageAssumption DEF HasNextPage, TypeOK
    <3>3. Place(p) > cursor
      BY <1>1, <2>1 DEF MissInv
    <3> QED
      BY <1>4, <3>1, <3>2, <3>3, PageAssumption DEF Nodes, TypeOK
  <2>2. \A p \in kept : Excused(p)' \/ InTheList(p)'
    BY <1>2, <1>3, <1>5, <2>1
  <2> QED
    BY <1>1, <2>2 DEF MissInv, NoneMissed, Excused, historyVars
<1> QED
  BY <1>6, <1>7

\* MissInv, when a pull request opens: it comes before the ones that are kept.
LEMMA MissOpen ==
  ASSUME TypeOK, MissInv, Open
  PROVE  MissInv'
<1>1. PICK x \in PR \ open : open' = open \union {x}
  BY DEF Open
<1>2. UNCHANGED <<pc, org, cursor, prs, handled, kept, closed>>
  BY DEF Open, processVars
<1>3. ASSUME NEW p \in kept, Place(p) > cursor PROVE Place(p)' > cursor'
  <2>1. p \in PR /\ cursor \in Nat
    BY DEF TypeOK
  <2>2. Place(p) <= Place(p)'
    BY <1>1, <2>1, PlaceOpen
  <2>3. Place(p) \in Nat /\ Place(p)' \in Nat
    <3>1. Newer(p)' \in SUBSET PR
      BY <1>1 DEF Newer, TypeOK
    <3>2. Place(p)' = Cardinality(Newer(p)') + 1
      BY DEF Place
    <3> QED
      BY <2>1, <3>1, <3>2, PlaceType, Counting
  <2> QED
    BY <1>2, <1>3, <2>1, <2>2, <2>3
<1> QED
  BY <1>1, <1>2, <1>3 DEF MissInv, NoneMissed, Excused, InTheList

\* MissInv, when one closes: what moves forth is only behind the closed one.
LEMMA MissClose ==
  ASSUME TypeOK, MissInv, Close
  PROVE  MissInv'
<1>1. PICK x \in open : /\ open' = open \ {x} /\ kept' = kept \ {x}
                        /\ closed' = Note(closed, x)
  BY DEF Close
<1>2. UNCHANGED <<pc, org, cursor, prs, handled>>
  BY DEF Close, processVars
<1>3. \A p : Excused(p) => Excused(p)'
  BY <1>1 DEF Excused, Note
<1>4. ASSUME pc = "search", NEW p \in kept', Place(p) > cursor
      PROVE  Excused(p)' \/ Place(p)' > cursor'
  <2>1. p \in PR /\ x \in PR
    BY <1>1 DEF TypeOK
  <2>2. x > p \/ Place(p)' = Place(p)
    BY <1>1, <2>1, PlaceClose
  <2>3. x > p => Excused(p)'
    BY <1>1, <1>4 DEF Excused, Note
  <2> QED
    BY <1>2, <1>4, <2>2, <2>3
<1>5. kept' \subseteq open' /\ kept' \subseteq kept
  BY <1>1 DEF MissInv
<1> QED
  BY <1>2, <1>3, <1>4, <1>5 DEF MissInv, NoneMissed, Excused, InTheList

\* Whatever is opened and closed during a scan, and however many pages and
\* organisations it has: it misses a pull request that stays open only when a
\* newer one was closed.
THEOREM Completeness == Spec => []NoneMissed
<1>1. Init => MissInv
  BY DEF Init, MissInv, NoneMissed
<1>2. TypeOK /\ MissInv /\ [Next]_vars => MissInv'
  <2> SUFFICES ASSUME TypeOK, MissInv, [Next]_vars PROVE MissInv'
    OBVIOUS
  <2>1. CASE Start
    <3>1. ASSUME NEW p \in open PROVE Place(p) > 0
      BY <3>1, PlaceType DEF TypeOK
    <3>2. /\ kept' = open /\ open' = open /\ pc' = "search"
          /\ org' = 1 /\ cursor' = 0
      BY <2>1 DEF Start
    <3>3. \A p \in kept' : Place(p)' > cursor'
      BY <3>1, <3>2 DEF Place, Newer
    <3> QED
      BY <3>2, <3>3 DEF MissInv, NoneMissed
  <2>2. CASE Handle
    <3>1. PICK r \in prs : prs' = prs \ {r} /\ handled' = handled \union {r.pr}
      BY <2>2 DEF Handle, RestAfter
    <3>2. UNCHANGED <<open, pc, kept, closed>> /\ pc = "handle"
      BY <2>2 DEF Handle
    <3> QED
      BY <3>1, <3>2 DEF MissInv, NoneMissed, InTheList
  <2>3. CASE Exit \/ Kill \/ Fail
    BY <2>3 DEF Exit, Kill, Fail, historyVars, MissInv, NoneMissed
  <2>4. CASE UNCHANGED vars
    BY <2>4 DEF vars, processVars, historyVars, MissInv, NoneMissed, Excused, InTheList,
                Place, Newer
  <2> QED
    BY <2>1, <2>2, <2>3, <2>4, MissPage, MissOpen, MissClose DEF Next, Step
<1>3. MissInv => NoneMissed
  BY DEF MissInv
<1> QED
  BY <1>1, <1>2, <1>3, Typing, PTL DEF Spec

-----------------------------------------------------------------------------
(* Nothing is listed twice *)

Moved(p) == \E q \in opened : q > p

\* What this search has listed is not behind the cursor again, unless a newer
\* pull request moved it there.
TwiceInv ==
  /\ pc = "off" => prs = {}
  /\ pc = "search" =>
       \A r \in prs : /\ r.org <= org
                      /\ r.org = org => Moved(r.pr) \/ Place(r.pr) <= cursor
  /\ NoneTwice

\* TwiceInv, for a page: what it lists lies behind the next cursor.
LEMMA TwicePage ==
  ASSUME TypeOK, TwiceInv, Page
  PROVE  TwiceInv'
<1> DEFINE new == {[pr |-> p, org |-> org, page |-> cursor, at |-> Place(p)] : p \in Nodes}
<1>1. UNCHANGED <<open, opened>> /\ pc = "search" /\ prs' = prs \union new
  BY DEF Page, historyVars
<1>2. \A p : Place(p)' = Place(p) /\ Moved(p)' = Moved(p)
  BY <1>1 DEF Place, Newer, Moved
<1>3. \A r \in new : /\ r.pr \in PR /\ r.org = org /\ r.at = Place(r.pr)
                     /\ Place(r.pr) > cursor /\ Place(r.pr) <= cursor + PageSize
  BY DEF Nodes, TypeOK
<1>4. \A r \in prs : r.pr \in PR /\ r.org \in Nat /\ Place(r.pr) \in Nat
  BY PlaceType DEF TypeOK, Result
<1>5. cursor \in Nat /\ org \in Nat /\ PageSize \in Nat
  BY PageAssumption DEF TypeOK
<1>6. NoneTwice'
  <2> SUFFICES ASSUME NEW r \in prs', NEW s \in prs', r # s, r.pr = s.pr, r.org = s.org
               PROVE  Moved(r.pr)'
    BY DEF NoneTwice, Moved
  <2>1. CASE r \in prs /\ s \in prs
    BY <1>1, <2>1 DEF TwiceInv, NoneTwice, Moved
  <2>2. CASE r \in new /\ s \in new
    BY <2>2 DEF Nodes
  <2>3. ASSUME NEW x \in prs, NEW y \in new, x.pr = y.pr, x.org = y.org
        PROVE  Moved(x.pr)
    BY <1>1, <1>3, <1>4, <1>5, <2>3 DEF TwiceInv
  <2> QED
    BY <1>1, <1>2, <2>1, <2>2, <2>3
<1>7. ASSUME pc' = "search", NEW r \in prs'
      PROVE  /\ r.org <= org'
             /\ r.org = org' => Moved(r.pr)' \/ Place(r.pr)' <= cursor'
  <2>1. r.org <= org /\ r.org \in Nat
    BY <1>1, <1>3, <1>4, <1>5 DEF TwiceInv
  <2>2. CASE HasNextPage
    <3>1. org' = org /\ cursor' = cursor + PageSize
      BY <2>2 DEF Page, EndCursor
    <3>2. CASE r \in new
      BY <1>2, <1>3, <3>1, <3>2, <2>1
    <3>3. CASE r \in prs
      BY <1>1, <1>2, <1>4, <1>5, <2>1, <3>1, <3>3 DEF TwiceInv
    <3> QED
      BY <1>1, <3>2, <3>3
  <2>3. CASE ~HasNextPage
    <3>1. org' = org + 1
      BY <1>7, <2>3 DEF Page
    <3> QED
      BY <1>5, <2>1, <3>1
  <2> QED
    BY <2>2, <2>3
<1>8. pc' # "off"
  BY <1>1 DEF Page
<1> QED
  BY <1>6, <1>7, <1>8 DEF TwiceInv

\* Opening and closing: a place only moves back past the cursor for something
\* newer that was opened.
LEMMA TwicePeople ==
  ASSUME TypeOK, TwiceInv, Open \/ Close
  PROVE  TwiceInv'
<1>1. UNCHANGED <<pc, org, cursor, prs>> /\ opened \subseteq opened'
  BY DEF Open, Close, processVars, Note
<1>2. ASSUME pc = "search", NEW r \in prs, Place(r.pr) <= cursor
      PROVE  Moved(r.pr)' \/ Place(r.pr)' <= cursor
  <2>1. r.pr \in PR /\ cursor \in Nat /\ Place(r.pr) \in Nat
    BY PlaceType DEF TypeOK, Result
  <2>2. CASE Open
    <3>1. PICK x \in PR \ open : open' = open \union {x} /\ opened' = Note(opened, x)
      BY <2>2 DEF Open
    <3>2. x > r.pr \/ Place(r.pr)' = Place(r.pr)
      BY <2>1, <3>1, PlaceOpen
    <3> QED
      BY <1>2, <3>1, <3>2 DEF Moved, Note
  <2>3. CASE Close
    <3>1. PICK x \in open : open' = open \ {x}
      BY <2>3 DEF Close
    <3>2. Place(r.pr)' <= Place(r.pr) /\ Newer(r.pr)' \in SUBSET PR
      BY <2>1, <3>1, PlaceClose DEF TypeOK, Newer
    <3>3. Place(r.pr)' \in Nat
      BY <3>2, Counting DEF Place
    <3> QED
      BY <1>2, <2>1, <3>2, <3>3
  <2> QED
    BY <2>2, <2>3
<1>3. \A p : Moved(p) => Moved(p)'
  BY <1>1 DEF Moved
<1> QED
  BY <1>1, <1>2, <1>3 DEF TwiceInv, NoneTwice, Moved

\* Whatever is opened and closed: one search lists a pull request twice only when
\* a newer one was opened.
THEOREM Uniqueness == Spec => []NoneTwice
<1>1. Init => TwiceInv
  BY DEF Init, TwiceInv, NoneTwice
<1>2. TypeOK /\ TwiceInv /\ [Next]_vars => TwiceInv'
  <2> SUFFICES ASSUME TypeOK, TwiceInv, [Next]_vars PROVE TwiceInv'
    OBVIOUS
  <2>1. CASE Start
    BY <2>1 DEF Start, TwiceInv, NoneTwice
  <2>2. CASE Handle
    BY <2>2 DEF Handle, RestAfter, TwiceInv, NoneTwice
  <2>3. CASE Exit \/ Kill \/ Fail
    BY <2>3 DEF Exit, Kill, Fail, TwiceInv, NoneTwice
  <2>4. CASE UNCHANGED vars
    BY <2>4 DEF vars, processVars, historyVars, TwiceInv, NoneTwice, Moved, Place, Newer
  <2> QED
    BY <2>1, <2>2, <2>3, <2>4, TwicePage, TwicePeople DEF Next, Step
<1>3. TwiceInv => NoneTwice
  BY DEF TwiceInv
<1> QED
  BY <1>1, <1>2, <1>3, Typing, PTL DEF Spec

=============================================================================
