--------------------------- MODULE MatchContract ---------------------------
(***************************************************************************)
(* What one Battle v2 match promises its two players, whatever the clock,  *)
(* the sockets and the background scheduler do to the room:                *)
(*                                                                         *)
(*   - the players complete turns strictly in alternation, p1 first;       *)
(*   - nothing is played while the match is frozen, and thawing it gives   *)
(*     back the same turn;                                                 *)
(*   - the match ends once, with one verdict that never changes, and never *)
(*     later than the turn cap.                                            *)
(*                                                                         *)
(* MatchLifecycle is the room as manager.py implements it, and implements  *)
(* this specification.                                                     *)
(***************************************************************************)
EXTENDS Integers

CONSTANTS p1, p2,       \* the two players, in seating order
          NoPlayer,     \* "no winner"
          TurnCap       \* the match is over when this many turns are complete

VARIABLES status,       \* "running", "frozen" or "over"
          mover,        \* whose turn it is
          moves,        \* turns completed by both players
          verdict       \* the winner and the kind of ending, or NoVerdict

contractVars == <<status, mover, moves, verdict>>

Players == {p1, p2}

OtherPlayer(p) == IF p = p1 THEN p2 ELSE p1

NoVerdict == [type |-> "NONE", winner |-> NoPlayer]

(* A win or a forfeit names the winner; a draw or a no contest has none. *)
Verdicts == [type : {"WIN", "FORFEIT"}, winner : Players]
            \cup [type : {"DRAW", "NO_CONTEST"}, winner : {NoPlayer}]

Init ==
  /\ status = "running"
  /\ mover = p1
  /\ moves = 0
  /\ verdict = NoVerdict

(* The mover's turn is completed; unless that ends the match, which it must *)
(* at the cap, the other player moves next.                                 *)
CompleteMove ==
  /\ status = "running"
  /\ moves' = moves + 1
  /\ mover' = OtherPlayer(mover)
  /\ \/ /\ moves' < TurnCap
        /\ UNCHANGED <<status, verdict>>
     \/ /\ status' = "over"
        /\ verdict' \in {v \in Verdicts : v.type # "NO_CONTEST"}

(* One player gives up, and the other is the winner. *)
Resign ==
  /\ status = "running"
  /\ status' = "over"
  /\ verdict' \in {v \in Verdicts : v.type = "FORFEIT"}
  /\ UNCHANGED <<mover, moves>>

Freeze ==
  /\ status = "running"
  /\ status' = "frozen"
  /\ UNCHANGED <<mover, moves, verdict>>

Thaw ==
  /\ status = "frozen"
  /\ status' = "running"
  /\ UNCHANGED <<mover, moves, verdict>>

(* A frozen match is abandoned by one player, who forfeits, or by both. *)
Abandon ==
  /\ status = "frozen"
  /\ status' = "over"
  /\ verdict' \in {v \in Verdicts : v.type \in {"FORFEIT", "NO_CONTEST"}}
  /\ UNCHANGED <<mover, moves>>

Next == CompleteMove \/ Resign \/ Freeze \/ Thaw \/ Abandon

Spec == Init /\ [][Next]_contractVars
=============================================================================
