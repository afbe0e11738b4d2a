------------------------------ MODULE MCLobby -------------------------------
(* Two players, two codes, two handler threads.  Players, threads and codes  *)
(* are alike.  The second thread is there for a second resume: the other     *)
(* handlers that have a step outside the lock overlap with everything that   *)
(* is a single step, and not with each other (bound).                        *)
EXTENDS Lobby, TLC

MatchIds == 1 .. MaxMatches

Symmetry == Permutations(Player) \cup Permutations(Thread) \cup Permutations(Code)

Resuming == {"reconnect", "abort", "commit", "bind"}

SecondThreadResumes == (\A t \in Thread : ~Idle(t)) => \A t \in Thread : job[t].at \in Resuming
=============================================================================
