------------------------------ MODULE MCIrcSession ------------------------------
(* A session with two servers of two groups, for TLC. *)
EXTENDS IrcSession

CONSTANTS s1, s2

GroupOf(s) == IF s = s1 THEN 1 ELSE 2
=============================================================================
