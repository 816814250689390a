--------------------------- MODULE DExtraPairProofs ---------------------------
(***************************************************************************)
(* Proofs about DExtraPair for every set of modules, every poll limit, and *)
(* a network that loses, repeats and reorders as it likes.                 *)
(***************************************************************************)
EXTENDS DExtraPairProperties, TLAPS

USE DExtraPairAssumption

SlotOK(s) == /\ s \in SlotState
             /\ s.st = "FREE" <=> s = NoSlot
             /\ s.st # "FREE" => s.to \in Targets /\ s.port \in Ports

--------------------------------------------------------------------------------
\* Types.

\* What is under way after something is sent is what was there, or was sent.
LEMMA TransmitType ==
  ASSUME TypeOK, NEW sent \in SUBSET Message, NEW rest \in SUBSET Message,
         Transmit(sent, rest)
  PROVE  net' \subseteq Message /\ lossy' \in BOOLEAN
BY DEF Transmit, TypeOK

\* What stays under way after reading a datagram was under way before.
LEMMA AfterReadingType ==
  ASSUME TypeOK, NEW m, NEW rest \in AfterReading(m) PROVE rest \in SUBSET Message
BY DEF AfterReading, TypeOK

\* Datagrams made up by the two ends are datagrams.
LEMMA MessageType ==
  ASSUME NEW kind \in {"LINK1", "UNLINK", "ACK", "NAK", "POLL"}, NEW port \in Ports,
         NEW mod \in Targets \cup {NoTarget}
  PROVE  ToFar(kind, port, mod) \in Message /\ ToHere(kind, port, mod) \in Message
BY DEF ToFar, ToHere, Message

\* A new link is well formed, whatever port it replaces.
LEMMA NewLinkOK ==
  ASSUME NEW c \in Targets PROVE SlotOK(NewLink(c)) /\ NewLink(c).port \in Ports
BY DEF NewLink, FreePort, SlotOK, SlotState, NoSlot, Ports

\* The free slot is well formed.
LEMMA NoSlotOK == SlotOK(NoSlot)
BY DEF NoSlot, SlotOK, SlotState, Ports

\* A slot that is in use stays well formed when its state or its timer changes.
LEMMA ChangedSlotOK ==
  ASSUME SlotOK(slot), slot.st # "FREE",
         NEW st \in {"LINKING", "LINKED"}, NEW idle \in 0..PollLimit - 1
  PROVE  SlotOK([slot EXCEPT !.st = st, !.idle = idle])
BY DEF SlotOK, SlotState, NoSlot

\* Removing entries, and restarting or advancing their timers, keeps the table.
LEMMA AgesType ==
  ASSUME TypeOK
  PROVE  /\ \A S : Gone(S) \in [Ports \X Mods -> 0..PollLimit]
         /\ \A m : AgeAfter(m) \in [Ports \X Mods -> 0..PollLimit]
         /\ Older \in [Ports \X Mods -> 0..PollLimit]
BY DEF TypeOK, Gone, AgeAfter, Older, Entries

\* Every handler, tick and fault keeps the types.
LEMMA NextType == TypeOK /\ [Next]_vars => TypeOK'
<1> SUFFICES ASSUME TypeOK, [Next]_vars PROVE TypeOK'
  OBVIOUS
<1> USE MessageType, NewLinkOK, NoSlotOK, AgesType
<1>0. SlotOK(slot)
  BY DEF TypeOK, SlotOK
<1>a. ASSUME SlotOK(slot'), age' \in [Ports \X Mods -> 0..PollLimit],
             net' \subseteq Message, lossy' \in BOOLEAN
      PROVE  TypeOK'
  BY <1>a DEF TypeOK, SlotOK
<1>1. ASSUME NEW c \in Targets, Link(c) PROVE TypeOK'
  <2>1. {ToFar("LINK1", slot'.port, c)} \subseteq Message
    BY <1>1, ZenonT(60) DEF Link
  <2>2. net' \subseteq Message /\ lossy' \in BOOLEAN
    BY <1>1, <2>1, TransmitType DEF Link, TypeOK
  <2> QED BY <1>1, <1>a, <2>2 DEF Link, TypeOK
<1>2. ASSUME NEW c \in Targets, Relink(c) PROVE TypeOK'
  <2>1. {ToFar("UNLINK", slot.port, NoTarget), ToFar("LINK1", slot'.port, c)}
          \subseteq Message
    BY <1>0, <1>2, ZenonT(60) DEF Relink, SlotOK
  <2>2. net' \subseteq Message /\ lossy' \in BOOLEAN
    BY <1>2, <2>1, TransmitType DEF Relink, TypeOK
  <2> QED BY <1>2, <1>a, <2>2 DEF Relink, TypeOK
<1>3. CASE Unlink
  <2>1. {ToFar("UNLINK", slot.port, NoTarget)} \subseteq Message
    BY <1>0, <1>3 DEF Unlink, SlotOK
  <2>2. net' \subseteq Message /\ lossy' \in BOOLEAN
    BY <1>3, <2>1, TransmitType DEF Unlink, TypeOK
  <2> QED BY <1>3, <1>a, <2>2 DEF Unlink, TypeOK
<1>4. CASE Forget
  BY <1>4, <1>a DEF Forget, TypeOK
<1>5. ASSUME NEW S \in SUBSET Entries, FarUnlink(S) PROVE TypeOK'
  <2>1. {ToHere("UNLINK", e[1], e[2]) : e \in S} \subseteq Message
    <3>1. ASSUME NEW e \in S PROVE e[1] \in Ports /\ e[2] \in Mods
      BY DEF Entries
    <3>2. ASSUME NEW e \in S PROVE ToHere("UNLINK", e[1], e[2]) \in Message
      BY <3>1
    <3> QED BY <3>2
  <2>2. net' \subseteq Message /\ lossy' \in BOOLEAN
    BY <1>5, <2>1, TransmitType DEF FarUnlink, TypeOK
  <2> QED BY <1>0, <1>5, <1>a, <2>2 DEF FarUnlink, TypeOK
<1>6. CASE FarForget
  BY <1>0, <1>6, <1>a DEF FarForget, TypeOK
<1>7. ASSUME NEW m \in Readable, NEW rest \in AfterReading(m), ReceiveHere(m, rest)
      PROVE  TypeOK'
  <2>1. rest \in SUBSET Message
    BY AfterReadingType
  <2>2. slot.st # "FREE"
    BY <1>7 DEF ReceiveHere, Readable
  <2>3. SlotOK(SlotAfter(m))
    <3>1. slot.idle \in 0..PollLimit - 1 /\ 0 \in 0..PollLimit - 1
      BY <1>0 DEF SlotOK, SlotState
    <3>2. [slot EXCEPT !.st = "LINKED"] = [slot EXCEPT !.st = "LINKED", !.idle = slot.idle]
      BY <1>0 DEF SlotOK, SlotState
    <3>3. slot.st = "LINKED" =>
            [slot EXCEPT !.idle = 0] = [slot EXCEPT !.st = "LINKED", !.idle = 0]
      BY <1>0 DEF SlotOK, SlotState
    <3> QED BY <1>0, <2>2, <3>1, <3>2, <3>3, ChangedSlotOK DEF SlotAfter
  <2> QED BY <1>7, <1>a, <2>1, <2>3 DEF ReceiveHere, TypeOK
<1>8. ASSUME NEW m \in Readable, NEW rest \in AfterReading(m), ReceiveFar(m, rest)
      PROVE  TypeOK'
  <2>1. rest \in SUBSET Message /\ m \in Message
    BY AfterReadingType DEF Readable, TypeOK
  <2>2. {ToHere("ACK", m.port, NoTarget)} \subseteq Message
        /\ {ToHere("NAK", m.port, NoTarget)} \subseteq Message
    <3>1. m.port \in Ports
      BY <2>1 DEF Message
    <3> QED BY <3>1
  <2>3. CASE ReceiveLink(m, rest)
    <3> DEFINE e == <<m.port, m.mod>>
    <3>1. CASE e \in Entries /\ Ignore(m, rest)
      BY <1>0, <1>8, <1>a, <2>1, <3>1 DEF ReceiveFar, Ignore, TypeOK
    <3>2. CASE /\ m.mod \in Mods /\ e \notin Entries /\ age' = [age EXCEPT ![e] = 0]
               /\ Transmit({ToHere("ACK", m.port, NoTarget)}, rest)
      <4>1. age' \in [Ports \X Mods -> 0..PollLimit]
        <5>1. age \in [Ports \X Mods -> 0..PollLimit] /\ 0 \in 0..PollLimit
          BY DEF TypeOK
        <5> QED BY <3>2, <5>1
      <4>2. net' \subseteq Message /\ lossy' \in BOOLEAN
        BY <2>1, <2>2, <3>2, TransmitType
      <4> QED BY <1>0, <1>8, <1>a, <4>1, <4>2 DEF ReceiveFar
    <3>3. CASE /\ e \notin Entries /\ UNCHANGED age
               /\ Transmit({ToHere("NAK", m.port, NoTarget)}, rest)
      <4>1. net' \subseteq Message /\ lossy' \in BOOLEAN
        BY <2>1, <2>2, <3>3, TransmitType
      <4> QED BY <1>0, <1>8, <1>a, <3>3, <4>1 DEF ReceiveFar, TypeOK
    <3> QED BY <2>3, <3>1, <3>2, <3>3 DEF ReceiveLink
  <2>4. CASE age' = AgeAfter(m) /\ net' = rest /\ UNCHANGED lossy
    BY <1>0, <1>8, <1>a, <2>1, <2>4 DEF ReceiveFar, TypeOK
  <2> QED BY <1>8, <2>3, <2>4 DEF ReceiveFar
<1>9. CASE Retry
  <2>1. {ToFar("LINK1", slot.port, slot.to)} \subseteq Message
    BY <1>0, <1>9, ZenonT(60) DEF Retry, CanRetry, SlotOK
  <2>2. net' \subseteq Message /\ lossy' \in BOOLEAN
    BY <1>9, <2>1, TransmitType DEF Retry, TypeOK
  <2> QED BY <1>0, <1>9, <1>a, <2>2 DEF Retry, TypeOK
<1>10. CASE Tick
  <2>1. Polls \subseteq Message
    <3>1. \A e \in Entries : ToHere("POLL", e[1], NoTarget) \in Message
      BY DEF Entries
    <3>2. slot.st = "LINKED" => ToFar("POLL", slot.port, NoTarget) \in Message
      BY <1>0 DEF SlotOK
    <3> QED BY <3>1, <3>2 DEF Polls
  <2>2. age' \in [Ports \X Mods -> 0..PollLimit]
    BY <1>10 DEF Tick
  <2>3. CASE ~TimedOut /\ slot' = Waiting /\ Transmit(Polls, net)
    <3>1. net' \subseteq Message /\ lossy' \in BOOLEAN
      BY <2>1, <2>3, TransmitType DEF TypeOK
    <3>2. CASE slot.st = "FREE"
      BY <1>0, <1>a, <2>2, <2>3, <3>1, <3>2 DEF Waiting
    <3>3. CASE slot.st # "FREE"
      <4>1. slot.idle + 1 \in 0..PollLimit - 1 /\ slot.st \in {"LINKING", "LINKED"}
        BY <1>0, <2>3, <3>3 DEF TimedOut, SlotOK, SlotState
      <4>2. Waiting = [slot EXCEPT !.st = slot.st, !.idle = slot.idle + 1]
        BY <1>0, <3>3 DEF Waiting, SlotOK, SlotState
      <4> QED BY <1>0, <1>a, <2>2, <2>3, <3>1, <3>3, <4>1, <4>2, ChangedSlotOK
    <3> QED BY <3>2, <3>3
  <2>4. CASE /\ TimedOut /\ slot' = [slot EXCEPT !.st = "LINKING", !.idle = 0]
             /\ Transmit(Polls \cup {ToFar("LINK1", slot.port, slot.to)}, net)
    <3>1. ToFar("LINK1", slot.port, slot.to) \in Message
      BY <1>0, <2>4 DEF TimedOut, SlotOK
    <3>2. net' \subseteq Message /\ lossy' \in BOOLEAN
      BY <2>1, <2>4, <3>1, TransmitType DEF TypeOK
    <3>3. slot.st # "FREE" /\ 0 \in 0..PollLimit - 1
      BY <2>4 DEF TimedOut
    <3> QED BY <1>0, <1>a, <2>2, <2>4, <3>2, <3>3, ChangedSlotOK
  <2>5. CASE TimedOut /\ slot' = NoSlot /\ Transmit(Polls, net)
    <3>1. net' \subseteq Message /\ lossy' \in BOOLEAN
      BY <2>1, <2>5, TransmitType DEF TypeOK
    <3> QED BY <1>a, <2>2, <2>5, <3>1
  <2> QED BY <1>10, <2>3, <2>4, <2>5 DEF Tick
<1>11. CASE Lose
  BY <1>0, <1>11, <1>a DEF Lose, TypeOK
<1>12. CASE Heal
  BY <1>0, <1>12, <1>a DEF Heal, TypeOK
<1>13. CASE UNCHANGED vars
  BY <1>0, <1>13, <1>a DEF vars, TypeOK
<1>14. CASE Far
  <2>1. \A S \in SUBSET Entries : FarUnlink(S) => TypeOK'
    BY <1>5
  <2> QED BY <1>6, <1>14, <2>1 DEF Far
<1>15. CASE User
  BY <1>1, <1>2, <1>3, <1>4, <1>15 DEF User
<1>16. CASE Receive
  BY <1>7, <1>8, <1>16 DEF Receive
<1> QED BY <1>9, <1>10, <1>11, <1>12, <1>13, <1>14, <1>15, <1>16 DEF Next

\* The slot, the far table and the network keep their types.
THEOREM PairType == Spec => []TypeOK
<1>1. Init => TypeOK
  BY DEF Init, TypeOK, SlotState, NoSlot
<1> QED BY <1>1, NextType, PTL DEF Spec

--------------------------------------------------------------------------------
\* The link is one that ReflectorLink promises.

\* What the caller reads moves the link as a callback of the repeater does.
LEMMA ReceiveHereIsAbstract ==
  ASSUME TypeOK, NEW m, NEW rest, ReceiveHere(m, rest)
  PROVE  [Abstract!Next]_(Abstract!vars)
<1>1. slot.st \in {"LINKING", "LINKED"} /\ slot \in SlotState
  BY DEF ReceiveHere, Readable, TypeOK, SlotState
<1>2. slot' = SlotAfter(m)
  BY DEF ReceiveHere
<1>3. CASE slot' = [slot EXCEPT !.st = "LINKED"] /\ slot.st = "LINKING"
  <2>1. Abstract!Up
    BY <1>1, <1>3 DEF Abstract!Up, SlotState
  <2> QED BY <2>1 DEF Abstract!Next
<1>4. CASE slot' = NoSlot
  <2>1. Abstract!Over
    BY <1>1, <1>4 DEF Abstract!Over, NoSlot
  <2> QED BY <2>1 DEF Abstract!Next
<1>5. CASE slot' = slot \/ slot' = [slot EXCEPT !.idle = 0]
  BY <1>1, <1>5 DEF Abstract!vars, SlotState
<1> QED BY <1>2, <1>3, <1>4, <1>5 DEF SlotAfter

\* A tick leaves the link as it is, loses it, or gives it up.
LEMMA TickIsAbstract ==
  ASSUME TypeOK, Tick PROVE [Abstract!Next]_(Abstract!vars)
<1>1. slot \in SlotState
  BY DEF TypeOK
<1>2. CASE slot' = Waiting
  BY <1>1, <1>2 DEF Waiting, Abstract!vars, SlotState
<1>3. CASE TimedOut /\ slot' = [slot EXCEPT !.st = "LINKING", !.idle = 0]
  <2>1. CASE slot.st = "LINKED"
    <3>1. Abstract!Lost
      BY <1>1, <1>3, <2>1 DEF Abstract!Lost, SlotState
    <3> QED BY <3>1 DEF Abstract!Next
  <2>2. CASE slot.st = "LINKING"
    BY <1>1, <1>3, <2>2 DEF Abstract!vars, SlotState
  <2> QED BY <1>1, <1>3, <2>1, <2>2 DEF TimedOut, SlotState
<1>4. CASE TimedOut /\ slot' = NoSlot
  <2>1. Abstract!Over
    BY <1>1, <1>4 DEF Abstract!Over, NoSlot, TimedOut
  <2> QED BY <2>1 DEF Abstract!Next
<1> QED BY <1>2, <1>3, <1>4 DEF Tick

\* Whatever is lost, repeated or answered too late, and whoever crashes, every
\* step of the link is one ReflectorLink allows (ImplementsLink, safety part).
THEOREM PairIsLink == Spec => Abstract!SafeSpec
<1>1. Init => Abstract!Init
  BY DEF Init, NoSlot, Abstract!Init
<1>2. TypeOK /\ [Next]_vars => [Abstract!Next]_(Abstract!vars)
  <2> SUFFICES ASSUME TypeOK, [Next]_vars PROVE [Abstract!Next]_(Abstract!vars)
    OBVIOUS
  <2>1. ASSUME NEW c \in Targets, Link(c) PROVE Abstract!Next
    <3>1. Abstract!Ask(c)
      BY <2>1 DEF Link, NewLink, Abstract!Ask
    <3> QED BY <3>1 DEF Abstract!Next
  <2>2. ASSUME NEW c \in Targets, Relink(c) PROVE Abstract!Next
    <3>1. Abstract!Move(c)
      BY <2>2 DEF Relink, NewLink, Abstract!Move
    <3> QED BY <3>1 DEF Abstract!Next
  <2>3. CASE Unlink \/ Forget
    <3>1. Abstract!Over
      BY <2>3 DEF Unlink, Forget, NoSlot, Abstract!Over
    <3> QED BY <3>1 DEF Abstract!Next
  <2>4. CASE User
    BY <2>1, <2>2, <2>3, <2>4 DEF User
  <2>5. CASE Receive
    <3>1. \A m, rest : ReceiveHere(m, rest) => [Abstract!Next]_(Abstract!vars)
      BY ReceiveHereIsAbstract
    <3>2. \A m, rest : ReceiveFar(m, rest) => UNCHANGED slot
      BY DEF ReceiveFar
    <3> QED BY <2>5, <3>1, <3>2 DEF Receive, Abstract!vars
  <2>6. CASE Far \/ Retry \/ Lose \/ Heal \/ UNCHANGED vars
    <3>1. UNCHANGED slot
      BY <2>6 DEF Far, FarUnlink, FarForget, Retry, Lose, Heal, vars
    <3> QED BY <3>1 DEF Abstract!vars
  <2> QED BY <2>4, <2>5, <2>6, TickIsAbstract DEF Next
<1> QED BY <1>1, <1>2, PairType, PTL DEF Spec, Abstract!SafeSpec

================================================================================
