--------------------------- MODULE ResumeSessions ---------------------------
(***************************************************************************)
(* The resume credentials of sessions.py: per seat of a match the token    *)
(* that is current, of which the registry keeps only a digest, and the     *)
(* reservation of a resume that has been let in but not settled yet.       *)
(* Every operation is one critical section of the registry's own lock, so  *)
(* each is one step; Lobby places them in the handlers that call them.     *)
(* Tokens of a seat are numbered in the order they are issued.             *)
(***************************************************************************)
EXTENDS Naturals

CONSTANTS Match, Player

NoToken == 0

VARIABLES
  hash,          \* _token_hashes: the current token of each seat
  reservation    \* _reservations: the token a resume in flight was let in with

sessionVars == <<hash, reservation>>

NoSeats == [p \in Player |-> NoToken]

SessionInit == /\ hash = [m \in Match |-> NoSeats]
               /\ reservation = [m \in Match |-> NoSeats]

Issue(m, seats) ==
  hash' = [hash EXCEPT ![m] = [p \in Player |-> IF p \in seats THEN @[p] + 1 ELSE @[p]]]

Verify(m, p, token) == hash[m][p] # NoToken /\ hash[m][p] = token

BugReserveTwice(m, p, token) == Verify(m, p, token)

(* reserve: a second resume is kept out while the first is in flight.       *)
MayReserve(m, p, token) == Verify(m, p, token) /\ reservation[m][p] = NoToken

Reserve(m, p, token) == /\ reservation' = [reservation EXCEPT ![m][p] = token]
                        /\ UNCHANGED hash

(* commit: the reservation goes in any case, the token is replaced only for *)
(* the resume that holds both.                                              *)
MayCommit(m, p, token) == reservation[m][p] = token /\ Verify(m, p, token)

Release(m, p) == reservation' = [reservation EXCEPT ![m][p] = NoToken]

Commit(m, p, token) == /\ Release(m, p)
                       /\ IF MayCommit(m, p, token) THEN Issue(m, {p}) ELSE UNCHANGED hash

BugAbortKeeps(m, p) == UNCHANGED sessionVars

Abort(m, p) == Release(m, p) /\ UNCHANGED hash

RemoveSessions(m) == /\ hash' = [hash EXCEPT ![m] = NoSeats]
                     /\ reservation' = [reservation EXCEPT ![m] = NoSeats]
=============================================================================
