------------------------ MODULE MCCommandTransaction ------------------------
(* CommandTransaction on a small instance.  Nonces are interchangeable.      *)
EXTENDS CommandTransaction, TLC

NonceSymmetry == Permutations(Nonce)
=============================================================================
