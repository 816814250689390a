------------------------- MODULE DExtraPairProperties -------------------------
(***************************************************************************)
(* What a DExtra link should guarantee from end to end.                    *)
(***************************************************************************)
EXTENDS DExtraPair

\* The network works in the end, what it carries arrives, both clocks go on and
\* the caller keeps trying.  Nothing is asked of users or of the far operator.
Take == \E m \in Readable : ReceiveHere(m, net \ {m}) \/ ReceiveFar(m, net \ {m})

FairSpec == Spec /\ WF_vars(Heal) /\ WF_vars(Take) /\ SF_vars(Tick) /\ WF_vars(Retry)

\* The link is one that ReflectorLink promises the repeater: every step is one
\* it has a callback for, and an attempt comes to an end, whatever was lost, and
\* although the far end does not answer a request it has answered before.
Abstract == INSTANCE ReflectorLink WITH status <- slot.st, target <- slot.to
ImplementsLink == Abstract!Spec

\* Left alone by users and operators, a link comes up and stays up, or is given
\* up: time-outs of the two ends, retries and silent duplicates do not chase one
\* another for ever.
Settles == \/ []<><<User \/ Far>>_vars
           \/ <>[](slot.st = "LINKED")
           \/ <>[](slot.st = "FREE")

\* The far end does not hold, and feed audio to, links the caller has given up.
GhostsFade == []<>(slot.st # "FREE") \/ <>[](Entries = {})

\* A link whose far end has gone without a word is not shown as up for ever.
DeadEndNoticed ==
  (slot.st = "LINKED" /\ \A e \in Entries : e[1] # slot.port) ~>
    (slot.st # "LINKED" \/ \E e \in Entries : e[1] = slot.port)

================================================================================
