-------------------------------- MODULE Board --------------------------------
(***************************************************************************)
(* What verify-conformance promises the people of a pull request about the *)
(* three things it writes there (labels, comments, commit statuses),       *)
(* whatever runs do it and in whatever order.  People write anything; the  *)
(* counter of their edits tells their steps from those of the bot.         *)
(***************************************************************************)
EXTENDS Naturals

CONSTANTS
  Commit,   \* commits that carry a status
  Label,    \* names of labels
  Managed,  \* labels that the bot may add and remove
  Text,     \* bodies of comments
  Status,   \* states of a commit status
  NoCheck,  \* the commit has no status of the bot yet
  Overlap   \* TRUE when the bot may handle the pull request on an old reading of
            \* its status: runs overlap, or a search lists it twice

VARIABLES prLabels, thread, own, edits

vars == <<prLabels, thread, own, edits>>

Comment == [id : Nat, by : {"bot", "human"}, body : Text]

Init == /\ prLabels = {} /\ thread = {} /\ edits = 0
        /\ own = [c \in Commit |-> NoCheck]

\* c comes after every comment of the thread
Later(c) == \A d \in thread : c.id > d.id

People ==
  /\ edits' = edits + 1
  /\ prLabels' \in SUBSET Label
  /\ \/ UNCHANGED thread
     \/ \E c \in thread' : /\ c \in Comment /\ c.by = "human" /\ Later(c)
                           /\ thread' = thread \union {c}
  /\ UNCHANGED own

\* The bot adds or removes one label of its own.
Relabel ==
  /\ \E l \in Managed : \/ prLabels' = prLabels \union {l}
                        \/ prLabels' = prLabels \ {l}
  /\ UNCHANGED <<thread, own, edits>>

Speak ==
  /\ \E c \in thread' : /\ c \in Comment /\ c.by = "bot" /\ Later(c)
                        /\ thread' = thread \union {c}
  /\ UNCHANGED <<prLabels, own, edits>>

\* The bot takes back a comment of its own, never its last one.
TakeBack ==
  /\ \E c, d \in thread : /\ c.by = "bot" /\ d.by = "bot" /\ c.id < d.id
                          /\ thread' = thread \ {c}
  /\ UNCHANGED <<prLabels, own, edits>>

\* The bot reports on a commit; without an old reading it never takes a success
\* back.
Report ==
  /\ \E c \in Commit, s \in Status :
       /\ own[c] = "success" => Overlap
       /\ own' = [own EXCEPT ![c] = s]
  /\ UNCHANGED <<prLabels, thread, edits>>

Next == People \/ Relabel \/ Speak \/ TakeBack \/ Report

Spec == Init /\ [][Next]_vars

=============================================================================
