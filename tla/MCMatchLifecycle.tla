-------------------------- MODULE MCMatchLifecycle --------------------------
(* MatchLifecycle on a small instance: the constants are in the cfg.         *)
EXTENDS MatchLifecycle
=============================================================================
