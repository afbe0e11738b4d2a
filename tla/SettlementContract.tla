------------------------- MODULE SettlementContract -------------------------
(***************************************************************************)
(* What the settlement of missions promises: the credit a player is owed   *)
(* for a match is entered in the profile once, in the same step in which   *)
(* it stops being owed, and a profile changes in no other way.  Credit     *)
(* that cannot be entered is parked until an operator sees to it.          *)
(***************************************************************************)
CONSTANTS Match, Player,
          Mission,
          Completes      \* [Match \X Player -> SUBSET Mission]

VARIABLES credit,        \* per match and player: none, owed, parked or credited
          completed      \* per player: the missions of the profile

vars == <<credit, completed>>

Key == Match \X Player

Init ==
  /\ credit = [k \in Key |-> "none"]
  /\ completed = [p \in Player |-> {}]

Move(k, from, to) == credit[k] = from /\ credit' = [credit EXCEPT ![k] = to]

Owe(k)    == Move(k, "none", "owed") /\ UNCHANGED completed
Park(k)   == Move(k, "owed", "parked") /\ UNCHANGED completed
Resume(k) == Move(k, "parked", "owed") /\ UNCHANGED completed

Credit(k) ==
  /\ Move(k, "owed", "credited")
  /\ completed' = [completed EXCEPT ![k[2]] = @ \cup Completes[k]]

Next == \E k \in Key : Owe(k) \/ Park(k) \/ Resume(k) \/ Credit(k)

Spec == Init /\ [][Next]_vars
=============================================================================
