-------------------------- MODULE MCDevNodeSearch ---------------------------
(* Instances of DevNodeSearch for TLC. *)
EXTENDS DevNodeSearch
=============================================================================
