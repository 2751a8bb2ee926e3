----------------------------- MODULE ShiftBoard -----------------------------
(***************************************************************************)
(* What a shift promises its editors, without runs, workers, ticks or      *)
(* crashes: every story on the board is commissioned at most once, while   *)
(* the shift is open; it ends either published, with exactly one article,  *)
(* or dropped; and a closed shift commissions nothing any more.            *)
(*                                                                         *)
(* A dropped story may still be published.  The factory stops a shift by   *)
(* marking rows, and a worker that is past its last check delivers anyway, *)
(* so the abstraction has to admit Publish from "dropped".                 *)
(***************************************************************************)

CONSTANTS
  Stories,   \* the stories on the board
  Ids        \* what identifies an article

VARIABLES
  open,      \* is the shift open?
  board,     \* the state of every story on the board
  articles   \* the articles every story has produced

boardVars == <<open, board, articles>>

StoryStates == {"waiting", "working", "published", "dropped"}
Pending     == {"waiting", "working"}

TypeOK ==
  /\ open \in BOOLEAN
  /\ board \in [Stories -> StoryStates]
  /\ articles \in [Stories -> SUBSET Ids]

Init ==
  /\ open = TRUE
  /\ board = [s \in Stories |-> "waiting"]
  /\ articles = [s \in Stories |-> {}]

Commission(S) ==
  /\ open
  /\ \A s \in S : board[s] = "waiting"
  /\ board' = [s \in Stories |-> IF s \in S THEN "working" ELSE board[s]]
  /\ UNCHANGED <<open, articles>>

\* An outcome closes the shift, or not yet, when nothing is pending any more.
MayClose ==
  \/ UNCHANGED open
  \/ open' = FALSE /\ \A s \in Stories : board'[s] \notin Pending

\* The first and only article of a story.
Publish(s, id) ==
  /\ board[s] \in {"working", "dropped"}
  /\ articles[s] = {}
  /\ board' = [board EXCEPT ![s] = "published"]
  /\ articles' = [articles EXCEPT ![s] = {id}]
  /\ MayClose

\* A story fails on its own.
Drop(s) ==
  /\ board[s] \in {"working", "dropped"}
  /\ board' = [board EXCEPT ![s] = "dropped"]
  /\ UNCHANGED articles
  /\ MayClose

\* The window ends: whatever is unsettled is dropped.
Close ==
  /\ open' = FALSE
  /\ board' = [s \in Stories |-> IF board[s] \in Pending THEN "dropped" ELSE board[s]]
  /\ UNCHANGED articles

Next ==
  \/ \E S \in SUBSET Stories : Commission(S)
  \/ \E s \in Stories, id \in Ids : Publish(s, id)
  \/ \E s \in Stories : Drop(s)
  \/ Close

Spec == Init /\ [][Next]_boardVars

\* Every published story has one article, and no other story has any.
OneArticleEach ==
  \A s \in Stories :
    IF board[s] = "published" THEN \E id \in Ids : articles[s] = {id}
                              ELSE articles[s] = {}

=============================================================================
