-------------------------- MODULE CommandContract --------------------------
(***************************************************************************)
(* What a player's client may rely on when it sends a versioned command    *)
(* over a network that delays, repeats and reorders: an envelope takes     *)
(* effect as a whole or not at all, at most once, only while the room is   *)
(* at the revision the envelope names, and the end of the match is         *)
(* announced exactly once, by the step that ends it.                       *)
(*                                                                         *)
(* CommandTransaction is the room as manager.py implements it, statement   *)
(* by statement with failures in between, and implements this.             *)
(***************************************************************************)
EXTENDS Naturals

CONSTANT Envelope       \* records with a field revision

VARIABLES revision,     \* the room's state revision
          done,         \* the envelopes that have taken effect
          over,         \* whether the match has ended
          announced     \* how often its end was announced

contractVars == <<revision, done, over, announced>>

Init ==
  /\ revision = 0
  /\ done = {}
  /\ over = FALSE
  /\ announced = 0

(* The step may end the match, and announces the end if it does. *)
MayEnd ==
  \/ UNCHANGED <<over, announced>>
  \/ over' = TRUE /\ announced' = announced + 1

Apply(e) ==
  /\ ~over
  /\ e \notin done
  /\ e.revision = revision
  /\ done' = done \cup {e}
  /\ revision' > revision
  /\ MayEnd

(* A turn the clock has completed. *)
Continue ==
  /\ ~over
  /\ revision' = revision + 1
  /\ MayEnd
  /\ UNCHANGED done

(* A match its players have left. *)
Abandon ==
  /\ ~over
  /\ over' = TRUE
  /\ announced' = announced + 1
  /\ UNCHANGED <<revision, done>>

Next == (\E e \in Envelope : Apply(e)) \/ Continue \/ Abandon

Spec == Init /\ [][Next]_contractVars
=============================================================================
