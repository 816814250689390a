----------------------------- MODULE ReflectorLink -----------------------------
(***************************************************************************)
(* What a reflector handler promises a repeater about one outgoing link:   *)
(* the link moves between "free", "linking" and "linked" in the ways the   *)
(* repeater has callbacks for, and "linking" does not last for ever.       *)
(***************************************************************************)
CONSTANTS Targets, NoTarget

VARIABLES status, target

vars == <<status, target>>

Init == status = "FREE" /\ target = NoTarget

Ask(c) == /\ status = "FREE" /\ status' = "LINKING"
          /\ target' = c

\* A link to another module of the same gateway replaces the old one at once.
Move(c) == /\ status # "FREE" /\ status' = "LINKING"
           /\ c # target /\ target' = c

Up == /\ status = "LINKING" /\ status' = "LINKED"
      /\ UNCHANGED target

Lost == /\ status = "LINKED" /\ status' = "LINKING"
        /\ UNCHANGED target

Over == /\ status # "FREE" /\ status' = "FREE"
        /\ target' = NoTarget

Next == \/ \E c \in Targets : Ask(c) \/ Move(c)
        \/ Up \/ Lost \/ Over

\* An attempt to link to c comes to an end, good or bad.
Settle(c) == /\ status = "LINKING" /\ target = c
             /\ Up \/ Over

SafeSpec == Init /\ [][Next]_vars

Spec == SafeSpec /\ \A c \in Targets : WF_vars(Settle(c))

================================================================================
