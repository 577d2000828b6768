---------------------------- MODULE ThreadProofs ----------------------------
(***************************************************************************)
(* What the bot leaves in the thread of comments, for every value of the   *)
(* constants: it stays short however many runs prune and write at once,    *)
(* and a single run never repeats the bot's last comment.                  *)
(***************************************************************************)
EXTENDS ReconcilerProofs, FiniteSetTheorems

-----------------------------------------------------------------------------
(* The thread stays short *)

\* the comments that run b leaves in the thread when it writes
Kept(b) == ByBot(thread) \ toPrune[b]

Writers == {b \in Bot : pc[b] = "comment"}

\* the runs that leave v comments or more
Crowd(v) == {b \in Writers : Cardinality(Kept(b)) >= v}

Room == 1 + Cardinality(Bot) + faults

\* A run that is about to write and leaves many comments was overtaken by others
\* that wrote: the more it leaves, the fewer runs can still be about to write
\* and leave as many.  The runs that leave v comments or more would, one after the
\* other, add one each.
CrowdInv ==
  /\ IsFiniteSet(ByBot(thread))
  /\ Cardinality(ByBot(thread)) <= Room
  /\ \A v \in Nat : Crowd(v) # {} => v + Cardinality(Crowd(v)) <= Room

\* Runs and faults can be counted.
LEMMA RoomType ==
  ASSUME TypeOK
  PROVE  /\ Room \in Nat /\ Cardinality(Bot) \in Nat /\ faults \in Nat
         /\ \A S \in SUBSET Bot : /\ IsFiniteSet(S) /\ Cardinality(S) \in Nat
                                  /\ Cardinality(S) <= Cardinality(Bot)
<1>1. Cardinality(Bot) \in Nat
  BY BotAssumption, FS_CardinalityType
<1>2. faults \in Nat
  BY BoundAssumption DEF TypeOK
<1>3. ASSUME NEW S \in SUBSET Bot
      PROVE  IsFiniteSet(S) /\ Cardinality(S) \in Nat /\ Cardinality(S) <= Cardinality(Bot)
  BY BotAssumption, FS_Subset, FS_CardinalityType
<1> QED
  BY <1>1, <1>2, <1>3 DEF Room

\* What a run leaves of the comments of the bot can be counted.
LEMMA KeptType ==
  ASSUME IsFiniteSet(ByBot(thread)), NEW b \in Bot
  PROVE  /\ IsFiniteSet(Kept(b)) /\ Cardinality(Kept(b)) \in Nat
         /\ Cardinality(ByBot(thread)) \in Nat
         /\ Cardinality(Kept(b)) <= Cardinality(ByBot(thread))
<1>1. Kept(b) \in SUBSET ByBot(thread)
  BY DEF Kept
<1> QED
  BY <1>1, FS_Subset, FS_CardinalityType

\* A step after which no run leaves more comments, and none starts to write.
LEMMA CrowdShrinks ==
  ASSUME TypeOK, TypeOK', CrowdInv,
         ByBot(thread') \subseteq ByBot(thread), faults' >= faults,
         \A b \in Writers' : b \in Writers /\ Kept(b)' \subseteq Kept(b)
  PROVE  CrowdInv'
<1>1. /\ IsFiniteSet(ByBot(thread')) /\ Cardinality(ByBot(thread')) \in Nat
      /\ Cardinality(ByBot(thread)) \in Nat
      /\ Cardinality(ByBot(thread')) <= Cardinality(ByBot(thread))
  BY FS_Subset, FS_CardinalityType DEF CrowdInv
<1>2. Room \in Nat /\ Room' \in Nat /\ Room' >= Room
  BY RoomType, BoundAssumption DEF Room, TypeOK
<1>3. ASSUME NEW v \in Nat, Crowd(v)' # {} PROVE v + Cardinality(Crowd(v)') <= Room'
  <2>1. Crowd(v)' \subseteq Crowd(v)
    <3> SUFFICES ASSUME NEW b \in Writers', Cardinality(Kept(b)') >= v PROVE b \in Crowd(v)
      BY DEF Crowd
    <3>1. b \in Bot /\ b \in Writers /\ Kept(b)' \in SUBSET Kept(b)
      BY DEF Writers
    <3>2. /\ Cardinality(Kept(b)') <= Cardinality(Kept(b))
          /\ Cardinality(Kept(b)') \in Nat /\ Cardinality(Kept(b)) \in Nat
      BY <3>1, KeptType, FS_Subset, FS_CardinalityType DEF CrowdInv
    <3> QED
      BY <3>1, <3>2 DEF Crowd
  <2>2. /\ Cardinality(Crowd(v)') <= Cardinality(Crowd(v))
        /\ Cardinality(Crowd(v)') \in Nat /\ Cardinality(Crowd(v)) \in Nat
    <3>1. Crowd(v) \in SUBSET Bot /\ Crowd(v)' \in SUBSET Crowd(v)
      BY <2>1 DEF Crowd, Writers
    <3> QED
      BY <3>1, RoomType, FS_Subset, FS_CardinalityType
  <2>3. v + Cardinality(Crowd(v)) <= Room
    BY <1>3, <2>1 DEF CrowdInv
  <2> QED
    BY <1>2, <2>2, <2>3
<1>4. Cardinality(ByBot(thread')) <= Room'
  BY <1>1, <1>2 DEF CrowdInv
<1> QED
  BY <1>1, <1>3, <1>4 DEF CrowdInv

\* No two comments have the same id.
UniqueInv == \A c, d \in thread : c.id = d.id => c = d

\* Every step keeps UniqueInv: no two comments have the same number.
LEMMA UniqueStep ==
  ASSUME TypeOK, PruneInv, UniqueInv, [Next]_vars
  PROVE  UniqueInv'
<1>1. ASSUME thread' \subseteq thread PROVE UniqueInv'
  BY <1>1 DEF UniqueInv
<1>2. ASSUME NEW who, NEW text, Post(who, text) PROVE UniqueInv'
  BY <1>2 DEF UniqueInv, PruneInv, Post, TypeOK, Comment
<1>3. ASSUME \E b \in Bot : CreateComment(b) \/ CreateCommentUnanswered(b)
      PROVE  UniqueInv'
  BY <1>2, <1>3 DEF CreateComment, CreateCommentUnanswered
<1>4. ASSUME NEW b \in Bot, DeleteComment(b) PROVE UniqueInv'
  BY <1>1, <1>4 DEF DeleteComment
<1>5. ASSUME NEW b \in Bot,
             \/ Search(b) \/ GetIssueLabels(b) \/ WrongRepository(b) \/ GetPullRequestChanges(b)
             \/ AddLabel(b) \/ RemoveLabel(b) \/ ListIssueComments(b) \/ KeepSuccess(b)
             \/ GetCombinedStatus(b) \/ CreateStatus(b) \/ Abort(b) \/ ReadErrorPage(b) \/ Event(b)
      PROVE  UniqueInv'
  BY <1>1, <1>5
     DEF Search, GetIssueLabels, WrongRepository, GetPullRequestChanges, Examine, AddLabel,
         RemoveLabel, ListIssueComments, KeepSuccess, GetCombinedStatus, CreateStatus, Abort,
         ReadErrorPage, Event
<1>6. CASE Environment
  <2>1. CASE HumanComments
    BY <1>2, <2>1 DEF HumanComments
  <2>2. CASE EditTitle \/ Push \/ SiteChanges \/ HumanLabels \/ OtherCheck
    BY <1>1, <2>2 DEF EditTitle, Push, SiteChanges, HumanLabels, OtherCheck
  <2> QED
    BY <1>6, <2>1, <2>2 DEF Environment
<1>7. CASE UNCHANGED vars
  BY <1>1, <1>7 DEF vars
<1> QED
  BY <1>3, <1>4, <1>5, <1>6, <1>7 DEF Next, Call, Mishap

\* A run starts to write: it leaves the last comment of the bot at most.
LEMMA CrowdList ==
  ASSUME TypeOK, TypeOK', UniqueInv, CrowdInv, NEW b \in Bot, ListIssueComments(b)
  PROVE  CrowdInv'
<1>1. /\ thread' = thread /\ Room' = Room
      /\ \A d \in Bot \ {b} : (d \in Writers' <=> d \in Writers) /\ Kept(d)' = Kept(d)
  BY DEF ListIssueComments, Goto, TypeOK, Room, Writers, Kept
<1>2. /\ IsFiniteSet(ByBot(thread')) /\ Cardinality(ByBot(thread')) <= Room'
  BY <1>1 DEF CrowdInv
<1>3. b \in Writers' => Cardinality(Kept(b)') <= 1
  <2> SUFFICES ASSUME b \in Writers' PROVE Cardinality(Kept(b)') <= 1
    OBVIOUS
  <2>1. toPrune'[b] = Stale(ByBot(thread))
    BY DEF Writers, ListIssueComments, Goto, TypeOK
  <2>2. ASSUME NEW c \in Kept(b)', NEW d \in Kept(b)' PROVE c = d
    <3>1. /\ c \in ByBot(thread) /\ d \in ByBot(thread)
          /\ IsLast(c, ByBot(thread)) /\ IsLast(d, ByBot(thread))
      BY <1>1, <2>1 DEF Kept, Stale
    <3>2. c.id <= d.id /\ d.id <= c.id
      BY <3>1 DEF IsLast
    <3>3. c \in thread /\ d \in thread /\ c.id \in Nat /\ d.id \in Nat
      BY <3>1 DEF ByBot, TypeOK, Comment
    <3> QED
      BY <3>2, <3>3 DEF UniqueInv
  <2>3. CASE Kept(b)' = {}
    BY <2>3, FS_EmptySet
  <2>4. CASE Kept(b)' # {}
    <3>1. PICK c : c \in Kept(b)'
      BY <2>4
    <3>2. Kept(b)' = {c}
      BY <2>2, <3>1
    <3>3. Cardinality({c}) = 1
      BY FS_Singleton
    <3> QED
      BY <3>2, <3>3
  <2> QED
    BY <2>3, <2>4
<1>4. ASSUME NEW v \in Nat, Crowd(v)' # {} PROVE v + Cardinality(Crowd(v)') <= Room'
  <2>1. Crowd(v)' \in SUBSET Bot
    BY DEF Crowd, Writers
  <2>2. CASE v <= 1
    BY <1>1, <2>1, <2>2, RoomType DEF Room
  <2>3. CASE v > 1
    <3>1. Cardinality(Kept(b)') \in Nat
      <4>1. Kept(b)' \in SUBSET ByBot(thread)
        BY <1>1 DEF Kept
      <4> QED
        BY <4>1, FS_Subset, FS_CardinalityType DEF CrowdInv
    <3>2. b \notin Writers
      BY DEF ListIssueComments, At, Writers
    <3>3. Crowd(v)' = Crowd(v)
      <4>1. b \notin Crowd(v)' /\ b \notin Crowd(v)
        BY <1>3, <2>3, <3>1, <3>2 DEF Crowd
      <4>2. \A d \in Bot \ {b} : d \in Crowd(v)' <=> d \in Crowd(v)
        BY <1>1 DEF Crowd
      <4>3. Crowd(v) \in SUBSET Bot
        BY DEF Crowd, Writers
      <4> QED
        BY <2>1, <4>1, <4>2, <4>3
    <3> QED
      BY <1>1, <1>4, <3>3 DEF CrowdInv
  <2> QED
    BY <2>2, <2>3
<1> QED
  BY <1>2, <1>4 DEF CrowdInv

\* The bot writes: what every run leaves grows by one.
LEMMA KeptGrows ==
  ASSUME TypeOK, PruneInv, CrowdInv, NEW text, Post("bot", text), UNCHANGED toPrune
  PROVE  /\ IsFiniteSet(ByBot(thread'))
         /\ Cardinality(ByBot(thread')) = Cardinality(ByBot(thread)) + 1
         /\ \A b \in Bot : Cardinality(Kept(b)') = Cardinality(Kept(b)) + 1
<1> DEFINE c == [id |-> nextId, by |-> "bot", body |-> text]
<1>1. ByBot(thread') = ByBot(thread) \union {c}
  BY DEF Post, ByBot
<1>2. c \notin ByBot(thread)
  BY DEF PruneInv, TypeOK, ByBot
<1>3. ASSUME NEW b \in Bot PROVE c \notin toPrune[b]
  <2> SUFFICES ASSUME c \in toPrune[b] PROVE FALSE
    OBVIOUS
  <2>1. PICK d \in thread : d.id > c.id
    BY DEF PruneInv, Outlived, ByBot
  <2>2. d.id < nextId /\ d.id \in Nat /\ nextId \in Nat
    BY DEF PruneInv, TypeOK, Comment
  <2> QED
    BY <2>1, <2>2
<1>4. ASSUME NEW b \in Bot PROVE Cardinality(Kept(b)') = Cardinality(Kept(b)) + 1
  <2>1. Kept(b)' = Kept(b) \union {c} /\ c \notin Kept(b)
    BY <1>1, <1>2, <1>3 DEF Kept
  <2> HIDE DEF c
  <2> QED
    BY <2>1, KeptType, FS_AddElement DEF CrowdInv
<1> HIDE DEF c
<1> QED
  BY <1>1, <1>2, <1>4, FS_AddElement DEF CrowdInv

\* The run that writes left as many comments as any other, and is done.
LEMMA CrowdCreate ==
  ASSUME TypeOK, TypeOK', PruneInv, CrowdInv, NEW b \in Bot, CreateComment(b)
  PROVE  CrowdInv'
<1>1. /\ Room' = Room /\ b \in Writers /\ Writers' = Writers \ {b} /\ toPrune[b] = {}
  BY DEF CreateComment, Goto, At, TypeOK, Room, Writers
<1>2. /\ IsFiniteSet(ByBot(thread'))
      /\ Cardinality(ByBot(thread')) = Cardinality(ByBot(thread)) + 1
      /\ \A d \in Bot : Cardinality(Kept(d)') = Cardinality(Kept(d)) + 1
  BY KeptGrows DEF CreateComment
<1>3. /\ Cardinality(Kept(b)) = Cardinality(ByBot(thread))
      /\ \A d \in Bot : Cardinality(Kept(d)) \in Nat /\ Cardinality(Kept(d)) <= Cardinality(Kept(b))
  <2>1. Kept(b) = ByBot(thread)
    BY <1>1 DEF Kept
  <2> QED
    BY <2>1, KeptType DEF CrowdInv
<1>4. ASSUME NEW v \in Nat, b \in Crowd(v)
      PROVE  /\ v + Cardinality(Crowd(v)) <= Room
             /\ IsFiniteSet(Crowd(v)) /\ Cardinality(Crowd(v)) \in Nat
             /\ Cardinality(Crowd(v) \ {b}) = Cardinality(Crowd(v)) - 1
  <2>1. Crowd(v) \in SUBSET Bot
    BY DEF Crowd, Writers
  <2> QED
    BY <1>4, <2>1, RoomType, FS_RemoveElement DEF CrowdInv
<1>5. Cardinality(ByBot(thread')) <= Room'
  <2> DEFINE v == Cardinality(Kept(b))
  <2>1. v \in Nat /\ b \in Crowd(v)
    BY <1>1, <1>3 DEF Crowd
  <2> HIDE DEF v
  <2>2. v + Cardinality(Crowd(v)) <= Room /\ IsFiniteSet(Crowd(v)) /\ Cardinality(Crowd(v)) \in Nat
    BY <1>4, <2>1
  <2>3. Cardinality(Crowd(v)) # 0
    BY <2>1, <2>2, FS_EmptySet
  <2>4. v < Room
    BY <2>1, <2>2, <2>3, RoomType
  <2> QED
    BY <1>1, <1>2, <1>3, <2>1, <2>4, RoomType DEF v
<1>6. ASSUME NEW v \in Nat, Crowd(v)' # {} PROVE v + Cardinality(Crowd(v)') <= Room'
  <2>1. Crowd(v)' \in SUBSET Bot
    BY DEF Crowd, Writers
  <2>2. CASE v = 0
    BY <1>1, <2>1, <2>2, RoomType DEF Room
  <2>3. CASE v # 0
    <3> DEFINE u == v - 1
    <3>1. u \in Nat /\ v = u + 1
      BY <2>3
    <3>2. Crowd(v)' = Crowd(u) \ {b}
      BY <1>1, <1>2, <1>3, <3>1 DEF Crowd, Writers
    <3>3. b \in Crowd(u)
      BY <1>1, <1>3, <1>6, <3>1, <3>2 DEF Crowd, Writers
    <3> QED
      BY <1>1, <1>4, <3>1, <3>2, <3>3, RoomType
  <2> QED
    BY <2>2, <2>3
<1> QED
  BY <1>2, <1>5, <1>6 DEF CrowdInv

\* A comment that is sent twice is paid for by the fault.
LEMMA CrowdTwice ==
  ASSUME TypeOK, TypeOK', PruneInv, CrowdInv, NEW b \in Bot, CreateCommentUnanswered(b)
  PROVE  CrowdInv'
<1>1. Room' = Room + 1 /\ Writers' = Writers /\ b \in Writers /\ Room \in Nat
  BY RoomType DEF CreateCommentUnanswered, Fault, At, Room, Writers, runVars
<1>2. /\ IsFiniteSet(ByBot(thread'))
      /\ Cardinality(ByBot(thread')) = Cardinality(ByBot(thread)) + 1
      /\ \A d \in Bot : Cardinality(Kept(d)') = Cardinality(Kept(d)) + 1
  BY KeptGrows DEF CreateCommentUnanswered, runVars
<1>3. Cardinality(ByBot(thread')) <= Room'
  BY <1>1, <1>2, KeptType DEF CrowdInv
<1>4. ASSUME NEW v \in Nat, Crowd(v)' # {} PROVE v + Cardinality(Crowd(v)') <= Room'
  <2>1. Crowd(v)' \in SUBSET Bot /\ Cardinality(Crowd(v)') \in Nat
    BY RoomType DEF Crowd, Writers
  <2>2. CASE v = 0
    BY <1>1, <2>1, <2>2, RoomType DEF Room
  <2>3. CASE v # 0
    <3> DEFINE u == v - 1
    <3>1. u \in Nat /\ v = u + 1
      BY <2>3
    <3>2. \A d \in Bot : Cardinality(Kept(d)) \in Nat
      BY KeptType DEF CrowdInv
    <3>3. Crowd(v)' = Crowd(u)
      BY <1>1, <1>2, <3>1, <3>2 DEF Crowd, Writers
    <3> QED
      BY <1>1, <1>4, <2>1, <3>1, <3>3 DEF CrowdInv
  <2> QED
    BY <2>2, <2>3
<1> QED
  BY <1>2, <1>3, <1>4 DEF CrowdInv

\* Steps in which no run writes, and none starts to.
LEMMA CrowdFrame ==
  ASSUME TypeOK, TypeOK', CrowdInv,
         UNCHANGED <<thread, toPrune>>, faults' >= faults, Writers' \subseteq Writers
  PROVE  CrowdInv'
<1>1. \A b \in Writers' : b \in Writers /\ Kept(b)' \subseteq Kept(b)
  BY DEF Kept
<1> QED
  BY <1>1, CrowdShrinks

\* A run that returns leaves all comments, and writes no more.
LEMMA CrowdReturn ==
  ASSUME TypeOK, TypeOK', CrowdInv, NEW b \in Bot, Return(b) \/ End(b),
         UNCHANGED thread, faults' >= faults
  PROVE  CrowdInv'
<1>1. \A d \in Writers' : d \in Writers /\ Kept(d)' \subseteq Kept(d)
  BY DEF Return, End, Forget, Goto, TypeOK, Writers, Kept
<1> QED
  BY <1>1, CrowdShrinks

\* A deleted comment is one that the run that deletes it did not keep.
LEMMA CrowdDelete ==
  ASSUME TypeOK, TypeOK', CrowdInv, NEW b \in Bot, DeleteComment(b)
  PROVE  CrowdInv'
<1>1. PICK x \in toPrune[b] : /\ thread' = thread \ {x}
                              /\ toPrune' = [toPrune EXCEPT ![b] = @ \ {x}]
  BY DEF DeleteComment
<1>2. ASSUME NEW d \in Writers' PROVE d \in Writers /\ Kept(d)' \subseteq Kept(d)
  <2>1. d \in Bot /\ d \in Writers
    BY DEF DeleteComment, Writers
  <2>2. toPrune'[d] = IF d = b THEN toPrune[d] \ {x} ELSE toPrune[d]
    BY <1>1, <2>1 DEF TypeOK
  <2> QED
    BY <1>1, <2>1, <2>2 DEF Kept, ByBot
<1>3. ByBot(thread') \subseteq ByBot(thread) /\ faults' >= faults
  BY <1>1, BoundAssumption DEF ByBot, DeleteComment, TypeOK
<1> QED
  BY <1>2, <1>3, CrowdShrinks

\* CrowdInv, for every call that a run makes.
LEMMA CrowdCall ==
  ASSUME TypeOK, TypeOK', PruneInv, UniqueInv, CrowdInv, NEW b \in Bot, Call(b)
  PROVE  CrowdInv'
<1>0. faults \in Nat
  BY BoundAssumption DEF TypeOK
<1>1. CASE \/ Search(b) \/ GetIssueLabels(b) \/ GetPullRequestChanges(b)
           \/ AddLabel(b) \/ RemoveLabel(b)
  BY <1>0, <1>1, CrowdFrame
     DEF Search, GetIssueLabels, GetPullRequestChanges, Examine, AddLabel, RemoveLabel,
         Goto, TypeOK, Writers
<1>2. CASE WrongRepository(b) \/ KeepSuccess(b) \/ CreateStatus(b)
  BY <1>0, <1>2, CrowdReturn DEF WrongRepository, KeepSuccess, CreateStatus
<1>3. CASE GetCombinedStatus(b)
  <2>1. CASE Return(b)
    BY <1>0, <1>3, <2>1, CrowdReturn DEF GetCombinedStatus
  <2>2. CASE ~Return(b)
    BY <1>0, <1>3, <2>2, CrowdFrame DEF GetCombinedStatus, Goto, TypeOK, Writers
  <2> QED
    BY <2>1, <2>2
<1> QED
  BY <1>1, <1>2, <1>3, CrowdList, CrowdDelete, CrowdCreate DEF Call

\* CrowdInv, for people and for a run for an event.
LEMMA CrowdOthers ==
  ASSUME TypeOK, TypeOK', CrowdInv, Environment \/ \E b \in Bot : Event(b)
  PROVE  CrowdInv'
<1>1. faults \in Nat /\ faults' = faults
  BY BoundAssumption
     DEF TypeOK, Environment, EditTitle, Push, SiteChanges, HumanLabels, HumanComments,
         OtherCheck, Event
<1>2. CASE HumanComments
  <2>1. ByBot(thread') = ByBot(thread)
    BY <1>2 DEF HumanComments, Post, ByBot
  <2>2. \A b \in Writers' : b \in Writers /\ Kept(b)' \subseteq Kept(b)
    BY <1>2, <2>1 DEF HumanComments, runVars, Writers, Kept
  <2> QED
    BY <1>1, <2>1, <2>2, CrowdShrinks
<1>3. CASE EditTitle \/ Push \/ SiteChanges \/ HumanLabels \/ OtherCheck
  BY <1>1, <1>3, CrowdFrame
     DEF EditTitle, Push, SiteChanges, HumanLabels, OtherCheck, runVars, Writers
<1>4. CASE \E b \in Bot : Event(b)
  BY <1>1, <1>4, CrowdFrame DEF Event, Goto, TypeOK, Writers
<1> QED
  BY <1>2, <1>3, <1>4 DEF Environment

\* Every step keeps CrowdInv.
LEMMA CrowdStep ==
  ASSUME TypeOK, TypeOK', PruneInv, UniqueInv, CrowdInv, [Next]_vars
  PROVE  CrowdInv'
<1>1. faults \in Nat
  BY BoundAssumption DEF TypeOK
<1>2. CASE \E b \in Bot : Abort(b)
  BY <1>1, <1>2, CrowdReturn DEF Abort, Fault
<1>3. CASE \E b \in Bot : ReadErrorPage(b)
  BY <1>1, <1>3, CrowdFrame DEF ReadErrorPage, Examine, Fault, Goto, TypeOK, Writers
<1>4. CASE UNCHANGED vars
  BY <1>1, <1>4, CrowdFrame DEF vars, runVars, Writers
<1> QED
  BY <1>2, <1>3, <1>4, CrowdCall, CrowdTwice, CrowdOthers DEF Next, Mishap

\* Whatever runs prune, write, die or send a comment twice at the same time: the
\* bot has at most one comment in the thread for each run and each fault, and one.
THEOREM Brevity == Spec => []ThreadBounded
<1>1. Init => PruneInv /\ UniqueInv /\ CrowdInv
  <2> SUFFICES ASSUME Init PROVE PruneInv /\ UniqueInv /\ CrowdInv
    OBVIOUS
  <2>1. PruneInv /\ UniqueInv
    BY DEF Init, PruneInv, UniqueInv
  <2>2. ByBot(thread) = {} /\ \A v \in Nat : Crowd(v) = {}
    BY DEF Init, ByBot, Crowd, Writers
  <2>3. Cardinality(Bot) \in Nat /\ faults = 0
    BY BotAssumption, FS_CardinalityType DEF Init
  <2> QED
    BY <2>1, <2>2, <2>3, FS_EmptySet DEF CrowdInv, Room
<1>2. TypeOK /\ PruneInv /\ [Next]_vars => PruneInv'
  BY PruneStep
<1>3. TypeOK /\ PruneInv /\ UniqueInv /\ [Next]_vars => UniqueInv'
  BY UniqueStep
<1>4. TypeOK /\ TypeOK' /\ PruneInv /\ UniqueInv /\ CrowdInv /\ [Next]_vars => CrowdInv'
  BY CrowdStep
<1>5. CrowdInv => ThreadBounded
  BY DEF CrowdInv, ThreadBounded, Room
<1> QED
  BY <1>1, <1>2, <1>3, <1>4, <1>5, Typing, PTL DEF Spec

-----------------------------------------------------------------------------
(* The bot does not repeat itself *)

\* A run that is about to write found that the last comment of the bot says
\* something else, and no other run wrote since.
EchoInv ==
  faults = 0 /\ (\A b, d \in Bot : b = d) =>
    \A b \in Writers, c \in ByBot(thread) :
      IsLast(c, ByBot(thread)) => c.body # verdict[b].comment

\* What NoEcho says of one step.
Says(c)     == \E d \in ByBot(thread) : IsLast(d, ByBot(thread)) /\ d.body = c.body
StaysFresh == faults' = 0 => \A c \in ByBot(thread') \ thread : ~Says(c)

\* The comments of the bot stay, and no run starts to write.
LEMMA EchoFrame ==
  ASSUME EchoInv, TypeOK, TypeOK', ByBot(thread') = ByBot(thread), faults' = 0 => faults = 0,
         \A b \in Writers' : b \in Writers /\ verdict'[b] = verdict[b]
  PROVE  EchoInv' /\ StaysFresh
<1>1. EchoInv'
  BY DEF EchoInv
<1>2. StaysFresh
  BY DEF StaysFresh, ByBot
<1> QED
  BY <1>1, <1>2

\* A run that returns has nothing to write.
LEMMA EchoReturn ==
  ASSUME TypeOK, TypeOK', EchoInv, NEW b \in Bot, Return(b) \/ End(b),
         UNCHANGED thread, faults' = 0 => faults = 0
  PROVE  EchoInv' /\ StaysFresh
<1>1. \A d \in Writers' : d \in Writers /\ verdict'[d] = verdict[d]
  BY DEF Return, End, Forget, Goto, TypeOK, Writers
<1> QED
  BY <1>1, EchoFrame

\* A run that starts to write has something to say that was not said last.
LEMMA EchoList ==
  ASSUME TypeOK, TypeOK', EchoInv, NEW b \in Bot, ListIssueComments(b)
  PROVE  EchoInv' /\ StaysFresh
<1>1. UNCHANGED <<thread, verdict, faults>>
  BY DEF ListIssueComments
<1>2. EchoInv'
  <2> SUFFICES ASSUME \A x, y \in Bot : x = y, NEW d \in Writers',
                      NEW c \in ByBot(thread), IsLast(c, ByBot(thread))
               PROVE  c.body # verdict[d].comment
    BY <1>1 DEF EchoInv
  <2>1. d = b /\ ~Said(ByBot(thread), verdict[b].comment)
    BY DEF ListIssueComments, Goto, TypeOK, Writers
  <2> QED
    BY <2>1 DEF Said
<1>3. StaysFresh
  BY <1>1 DEF StaysFresh, ByBot
<1> QED
  BY <1>2, <1>3

\* What is deleted is not the last comment: the last one stays the last.
LEMMA EchoDelete ==
  ASSUME TypeOK, TypeOK', PruneInv, EchoInv, NEW b \in Bot, DeleteComment(b)
  PROVE  EchoInv' /\ StaysFresh
<1>1. PICK x \in toPrune[b] : thread' = thread \ {x}
  BY DEF DeleteComment
<1>2. UNCHANGED <<faults, pc, verdict>>
  BY DEF DeleteComment
<1>3. ASSUME NEW c \in ByBot(thread'), IsLast(c, ByBot(thread'))
      PROVE  c \in ByBot(thread) /\ IsLast(c, ByBot(thread))
  <2>1. c \in ByBot(thread)
    BY <1>1 DEF ByBot
  <2>2. PICK y \in ByBot(thread) : y.id > x.id
    BY <1>1 DEF PruneInv, Outlived
  <2>3. x.id \in Nat /\ y.id \in Nat /\ c.id \in Nat
    BY <1>1, <2>1, <2>2 DEF TypeOK, ByBot, Comment
  <2>4. y.id <= c.id
    BY <1>1, <1>3, <2>2, <2>3 DEF IsLast, ByBot
  <2>5. ASSUME NEW d \in ByBot(thread) PROVE d.id <= c.id
    BY <1>1, <1>3, <2>2, <2>3, <2>4 DEF IsLast, ByBot
  <2> QED
    BY <2>1, <2>5 DEF IsLast
<1>4. EchoInv'
  BY <1>2, <1>3 DEF EchoInv, Writers
<1>5. StaysFresh
  BY <1>1 DEF StaysFresh, ByBot
<1> QED
  BY <1>4, <1>5

\* What is written is not what the last comment says, and then nobody is about
\* to write.
LEMMA EchoCreate ==
  ASSUME TypeOK, TypeOK', EchoInv, \A x, y \in Bot : x = y, NEW b \in Bot, CreateComment(b)
  PROVE  EchoInv' /\ StaysFresh
<1>1. /\ faults' = faults /\ b \in Writers
      /\ thread' = thread \union {[id |-> nextId, by |-> "bot", body |-> verdict[b].comment]}
  BY DEF CreateComment, Post, At, Writers
<1>2. Writers' = {}
  BY DEF CreateComment, Goto, TypeOK, Writers
<1>3. StaysFresh
  <2> SUFFICES ASSUME faults' = 0, NEW c \in thread' \ thread, Says(c) PROVE FALSE
    BY DEF StaysFresh, ByBot
  <2>1. c.body = verdict[b].comment
    BY <1>1
  <2>2. PICK d \in ByBot(thread) : IsLast(d, ByBot(thread)) /\ d.body = c.body
    BY DEF Says
  <2> QED
    BY <1>1, <2>1, <2>2 DEF EchoInv
<1> QED
  BY <1>2, <1>3 DEF EchoInv

\* With one run, every step keeps EchoInv, and none repeats the last comment.
LEMMA EchoStep ==
  ASSUME TypeOK, TypeOK', PruneInv, EchoInv, \A x, y \in Bot : x = y, [Next]_vars
  PROVE  EchoInv' /\ StaysFresh
<1>1. ASSUME NEW b \in Bot,
             \/ Search(b) \/ GetIssueLabels(b) \/ GetPullRequestChanges(b) \/ Event(b)
             \/ AddLabel(b) \/ RemoveLabel(b) \/ (GetCombinedStatus(b) /\ ~Return(b))
      PROVE  EchoInv' /\ StaysFresh
  <2>1. thread' = thread /\ faults' = faults
    BY <1>1 DEF Search, GetIssueLabels, GetPullRequestChanges, Event, Examine, AddLabel,
                RemoveLabel, GetCombinedStatus
  <2>2. \A d \in Writers' : d \in Writers /\ verdict'[d] = verdict[d]
    BY <1>1 DEF Search, GetIssueLabels, GetPullRequestChanges, Event, Examine, AddLabel,
                RemoveLabel, GetCombinedStatus, Goto, TypeOK, Writers
  <2> QED
    BY <2>1, <2>2, EchoFrame
<1>2. ASSUME NEW b \in Bot,
             \/ WrongRepository(b) \/ KeepSuccess(b) \/ CreateStatus(b)
             \/ (GetCombinedStatus(b) /\ Return(b))
      PROVE  EchoInv' /\ StaysFresh
  <2>1. UNCHANGED thread /\ faults' = faults /\ Return(b)
    BY <1>2 DEF WrongRepository, KeepSuccess, CreateStatus, GetCombinedStatus
  <2> QED
    BY <2>1, EchoReturn
<1>3. ASSUME NEW b \in Bot, Call(b) PROVE EchoInv' /\ StaysFresh
  BY <1>1, <1>2, <1>3, EchoList, EchoDelete, EchoCreate DEF Call
<1>4. ASSUME NEW b \in Bot, Mishap(b) PROVE EchoInv' /\ StaysFresh
  <2>1. faults' # 0
    BY <1>4, BoundAssumption
       DEF Mishap, Abort, ReadErrorPage, CreateCommentUnanswered, Fault, TypeOK
  <2> QED
    BY <2>1 DEF EchoInv, StaysFresh
<1>5. CASE Environment
  <2>1. ByBot(thread') = ByBot(thread)
    BY <1>5 DEF Environment, EditTitle, Push, SiteChanges, HumanLabels, HumanComments, OtherCheck,
                Post, ByBot
  <2>2. UNCHANGED <<faults, pc, verdict>>
    BY <1>5 DEF Environment, EditTitle, Push, SiteChanges, HumanLabels, HumanComments, OtherCheck,
                runVars
  <2> QED
    BY <2>1, <2>2, EchoFrame DEF Writers
<1>6. CASE UNCHANGED vars
  BY <1>6, EchoFrame DEF vars, runVars, Writers
<1> QED
  BY <1>1, <1>3, <1>4, <1>5, <1>6 DEF Next

\* One run at a time, until a call is sent twice: the bot never writes what its
\* last comment says already, whatever it deleted before and people wrote since.
THEOREM Novelty ==
  ASSUME \A b, d \in Bot : b = d
  PROVE  Spec => NoEcho
<1>1. Init => PruneInv /\ EchoInv
  BY DEF Init, PruneInv, EchoInv, Writers
<1>2. TypeOK /\ PruneInv /\ [Next]_vars => PruneInv'
  BY PruneStep
<1>3. TypeOK /\ TypeOK' /\ PruneInv /\ EchoInv /\ [Next]_vars => EchoInv' /\ StaysFresh
  BY EchoStep
<1>4. StaysFresh =>
        [faults' = 0 =>
           \A c \in ByBot(thread') \ thread :
             ~ \E d \in ByBot(thread) : IsLast(d, ByBot(thread)) /\ d.body = c.body]_thread
  BY DEF StaysFresh, Says
<1> QED
  BY <1>1, <1>2, <1>3, <1>4, Typing, PTL DEF Spec, NoEcho

=============================================================================
