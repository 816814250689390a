------------------------------ MODULE DExtraPair ------------------------------
(***************************************************************************)
(* A DExtra link from end to end: the outgoing CDExtraHandler of a         *)
(* repeater here, the incoming ones it leaves at one far gateway, and the  *)
(* datagrams between them, which may be lost, repeated, reordered and      *)
(* delayed for any time.  RepeaterHandler leaves the far end open; here it *)
(* runs the same code.                                                     *)
(*                                                                         *)
(* Time passes in ticks of ten seconds, the poll interval: a link is given *)
(* up after PollLimit ticks without a poll.  A far end knows a link by the *)
(* caller's port and the module.  Every new link takes the lowest port of  *)
(* the pool that is free, so a port may be used again while the far end    *)
(* still holds a link to it.  A port out of use is not read, and what has  *)
(* come in is read when it is used again.                                  *)
(*                                                                         *)
(* Not modelled: audio (which counts as a poll), dongles, and the links    *)
(* the far gateway makes itself.                                           *)
(***************************************************************************)
EXTENDS Integers, FiniteSets

CONSTANTS Targets,    \* modules of the far gateway a user may ask for
          Mods,       \* those it has
          NoTarget,
          PollLimit,  \* m_pollInactivityTimer over m_pollTimer
          MaxNet      \* bound on the datagrams under way while some are lost

ASSUME DExtraPairAssumption ==
  /\ Mods \subseteq Targets /\ NoTarget \notin Targets
  /\ PollLimit \in Nat /\ PollLimit > 2
  /\ MaxNet \in Nat

VARIABLES slot,   \* the outgoing CDExtraHandler, if there is one
          age,    \* ticks since the last poll of each incoming one
          net,    \* datagrams sent and not yet read
          lossy   \* does the network still lose and repeat datagrams?

vars == <<slot, age, net, lossy>>

\* The ports one link and its successor can get from the pool.
Ports == {1, 2}

SlotState == [st : {"FREE", "LINKING", "LINKED"}, to : Targets \cup {NoTarget},
              port : Ports \cup {0}, idle : 0..PollLimit - 1]
NoSlot    == [st |-> "FREE", to |-> NoTarget, port |-> 0, idle |-> 0]

\* The age of an entry that is no longer in the table is PollLimit.
Entries == {e \in Ports \X Mods : age[e] < PollLimit}

Message == [to : {"FAR", "HERE"}, kind : {"LINK1", "UNLINK", "ACK", "NAK", "POLL"},
            port : Ports, mod : Targets \cup {NoTarget}]

ToFar(kind, port, mod)  == [to |-> "FAR", kind |-> kind, port |-> port, mod |-> mod]
ToHere(kind, port, mod) == [to |-> "HERE", kind |-> kind, port |-> port, mod |-> mod]

\* The link, the far table and the datagrams are well formed; a free slot has
\* neither target nor port.
TypeOK ==
  /\ slot \in SlotState /\ net \subseteq Message /\ lossy \in BOOLEAN
  /\ slot.st = "FREE" <=> slot = NoSlot
  /\ slot.st # "FREE" => slot.to \in Targets /\ slot.port \in Ports
  /\ age \in [Ports \X Mods -> 0..PollLimit]

Init == /\ slot = NoSlot /\ age = [e \in Ports \X Mods |-> PollLimit]
        /\ net = {} /\ lossy \in BOOLEAN

--------------------------------------------------------------------------------
\* The network.

\* writeConnect and writePoll: "rest" stays under way, and what is sent is added
\* to it, if it is not lost.
Transmit(sent, rest) ==
  /\ IF lossy THEN /\ \E kept \in SUBSET sent : net' = rest \cup kept
                   /\ Cardinality(net') <= MaxNet
              ELSE net' = rest \cup sent
  /\ UNCHANGED lossy

\* CDExtraProtocolHandlerPool::read: ports in use only.
Readable == {m \in net : m.to = "FAR" \/ (slot.st # "FREE" /\ m.port = slot.port)}

\* A connect message is sent twice, so it may be there still after it is read.
AfterReading(m) ==
  {net \ {m}} \cup (IF lossy /\ m.kind # "POLL" THEN {net} ELSE {})

\* Once the network works a datagram takes less than any timer, and less than
\* the users and operators do from one command to the next.
Timely == lossy \/ Readable = {}

Lose == /\ lossy
        /\ \E m \in net : net' = net \ {m}
        /\ UNCHANGED <<slot, age, lossy>>

Heal == /\ lossy /\ lossy' = FALSE
        /\ UNCHANGED <<slot, age, net>>

--------------------------------------------------------------------------------
\* The caller.

\* CDExtraProtocolHandlerPool::getHandler: the lowest port not in use.
FreePort == IF slot.port = 1 THEN 2 ELSE 1

NewLink(c) == [st |-> "LINKING", to |-> c, port |-> FreePort, idle |-> 0]

Link(c) ==
  /\ slot.st = "FREE" /\ Timely
  /\ slot' = NewLink(c)
  /\ Transmit({ToFar("LINK1", slot'.port, c)}, net)
  /\ UNCHANGED age

\* The change of module: unlink() disconnects, and linkFailed makes the new link
\* before the old one gives its port back.
Relink(c) ==
  /\ slot.st # "FREE" /\ c # slot.to /\ Timely
  /\ slot' = NewLink(c)
  /\ Transmit({ToFar("UNLINK", slot.port, NoTarget), ToFar("LINK1", slot'.port, c)}, net)
  /\ UNCHANGED age

Unlink ==
  /\ slot.st # "FREE" /\ Timely
  /\ slot' = NoSlot
  /\ Transmit({ToFar("UNLINK", slot.port, NoTarget)}, net)
  /\ UNCHANGED age

\* gatewayUpdate without an address, or a crash: not a word to the far end.
Forget ==
  /\ slot.st # "FREE" /\ Timely
  /\ slot' = NoSlot
  /\ UNCHANGED <<age, net, lossy>>

\* processInt(connect) and process(poll).  An answer does not say which module
\* it is about, so an old one may be taken for a new one.
SlotAfter(m) ==
  CASE m.kind = "ACK" /\ slot.st = "LINKING" -> [slot EXCEPT !.st = "LINKED"]
    [] m.kind = "NAK" /\ slot.st = "LINKING" -> NoSlot
    [] m.kind = "UNLINK" /\ slot.to = m.mod  -> NoSlot
    [] m.kind = "POLL" /\ slot.st = "LINKED" -> [slot EXCEPT !.idle = 0]
    [] OTHER -> slot

ReceiveHere(m, rest) ==
  /\ m \in Readable /\ m.to = "HERE"
  /\ slot' = SlotAfter(m) /\ net' = rest
  /\ UNCHANGED <<age, lossy>>

\* Mutant: a try in the last seconds before the time-out.
CanRetryLate == slot.st = "LINKING"

\* calcBackoff: tries after 1, 2, 4, 8, 16 and 32 seconds, none in the second
\* half of the time a link is waited for.
CanRetry == slot.st = "LINKING" /\ slot.idle <= PollLimit \div 2

Retry ==
  /\ CanRetry /\ Timely
  /\ Transmit({ToFar("LINK1", slot.port, slot.to)}, net)
  /\ UNCHANGED <<slot, age>>

--------------------------------------------------------------------------------
\* The far gateway.

\* Mutant: a request keeps the link alive it is too late for.
IgnoreRefreshes(m, rest) ==
  /\ age' = [age EXCEPT ![<<m.port, m.mod>>] = 0]
  /\ net' = rest /\ UNCHANGED lossy

\* A request for a link that is there already gets no answer.
Ignore(m, rest) == net' = rest /\ UNCHANGED <<age, lossy>>

\* The poll that goes with the ACK bears the caller's own callsign, which it
\* does not look for: it has no effect.
ReceiveLink(m, rest) ==
  LET e == <<m.port, m.mod>>
  IN  /\ m.kind = "LINK1"
      /\ \/ e \in Entries /\ Ignore(m, rest)
         \/ /\ m.mod \in Mods /\ e \notin Entries
            /\ age' = [age EXCEPT ![e] = 0]
            /\ Transmit({ToHere("ACK", m.port, NoTarget)}, rest)
         \/ /\ e \notin Entries            \* no such module, or the table is full
            /\ Transmit({ToHere("NAK", m.port, NoTarget)}, rest)
            /\ UNCHANGED age

Gone(S) == [e \in Ports \X Mods |-> IF e \in S THEN PollLimit ELSE age[e]]

\* Neither an UNLINK nor a poll names the module.
AgeAfter(m) ==
  LET S == {e \in Entries : e[1] = m.port}
  IN  IF m.kind = "UNLINK" THEN Gone(S)
      ELSE [e \in Ports \X Mods |-> IF e \in S THEN 0 ELSE age[e]]

ReceiveFar(m, rest) ==
  /\ m \in Readable /\ m.to = "FAR"
  /\ \/ ReceiveLink(m, rest)
     \/ /\ m.kind \in {"UNLINK", "POLL"}
        /\ age' = AgeAfter(m) /\ net' = rest /\ UNCHANGED lossy
  /\ UNCHANGED slot

\* unlink(handler, callsign, false) by its operator, or unlink() when it stops.
FarUnlink(S) ==
  /\ S # {} /\ Timely
  /\ age' = Gone(S)
  /\ Transmit({ToHere("UNLINK", e[1], e[2]) : e \in S}, net)
  /\ UNCHANGED slot

FarForget == /\ Entries # {} /\ Timely /\ age' = Gone(Entries)
             /\ UNCHANGED <<slot, net, lossy>>

--------------------------------------------------------------------------------
\* clock(), at both ends: time-outs, and a poll for every link that is up.

TimedOut == slot.st # "FREE" /\ slot.idle + 1 = PollLimit

\* Mutant: a time-out does not ask which way the link goes.
OlderAgain ==
  [e \in Ports \X Mods |-> IF e \notin Entries THEN age[e]
                           ELSE IF age[e] + 1 = PollLimit THEN 0 ELSE age[e] + 1]

Older == [e \in Ports \X Mods |-> IF e \in Entries THEN age[e] + 1 ELSE age[e]]

\* Mutant: a poll sent counts as one received.
WaitingPolls == IF slot.st # "LINKING" THEN slot ELSE [slot EXCEPT !.idle = @ + 1]

Waiting == IF slot.st = "FREE" THEN slot ELSE [slot EXCEPT !.idle = @ + 1]

Polls ==
  {ToHere("POLL", e[1], NoTarget) : e \in {f \in Entries : age[f] + 1 < PollLimit}}
    \cup (IF slot.st = "LINKED" /\ ~TimedOut
          THEN {ToFar("POLL", slot.port, NoTarget)} ELSE {})

\* The repeater says whether a link that has timed out is to be tried again.
Tick ==
  /\ Timely
  /\ age' = Older
  /\ \/ /\ ~TimedOut
        /\ slot' = Waiting
        /\ Transmit(Polls, net)
     \/ /\ TimedOut
        /\ slot' = [slot EXCEPT !.st = "LINKING", !.idle = 0]
        /\ Transmit(Polls \cup {ToFar("LINK1", slot.port, slot.to)}, net)
     \/ /\ TimedOut
        /\ slot' = NoSlot
        /\ Transmit(Polls, net)

--------------------------------------------------------------------------------
Receive == \E m \in Readable : \E rest \in AfterReading(m) :
             ReceiveHere(m, rest) \/ ReceiveFar(m, rest)

User == \/ \E c \in Targets : Link(c) \/ Relink(c)
        \/ Unlink \/ Forget

Far == \/ FarUnlink(Entries) \/ FarForget
       \/ \E c \in Mods : FarUnlink({e \in Entries : e[2] = c})

Next == User \/ Far \/ Receive \/ Retry \/ Tick \/ Lose \/ Heal

Spec == Init /\ [][Next]_vars

================================================================================
