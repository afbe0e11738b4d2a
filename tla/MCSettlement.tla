---------------------------- MODULE MCSettlement ----------------------------
(* Settlement of two matches of one player, both of which complete the same  *)
(* mission.  Drains are interchangeable.                                     *)
EXTENDS Settlement, TLC

CompletesSame == [k \in Key |-> Mission]

SecondMalformed == {2} \X Player
=============================================================================
