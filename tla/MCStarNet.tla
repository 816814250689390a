------------------------------- MODULE MCStarNet -------------------------------
(* A StarNet group with two members and two streams, for TLC. *)
EXTENDS StarNetProperties
================================================================================
