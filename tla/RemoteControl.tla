------------------------------- MODULE RemoteControl -----------------------------
(***************************************************************************)
(* Control of a gateway from elsewhere: CRemoteHandler in the gateway, and *)
(* three programs that talk to it, remotecontrol (FRAME), remotecontrold   *)
(* (DAEMON) and timercontrol (TIMER).  A session is a login with a random  *)
(* number and the hash of it, commands that are acknowledged, and a logout;*)
(* the gateway has one session at a time.  The network loses packets and   *)
(* delays them, in order.  Everybody knows the password.                   *)
(***************************************************************************)
EXTENDS Naturals, Sequences

CONSTANTS Controls,    \* programs that run, but for one more that is a stranger to the model
          Turns,       \* how often a daemon reads before it gives up: 10
          MaxRetries,  \* MAX_RETRIES: 3
          Randoms,     \* bound: logins the gateway has seen
          Items,       \* bound: commands a program sends
          Wires        \* bound: packets under way, per program and direction

Nobody == "NOBODY"
Stranger == "STRANGER"   \* a program of which only what it sends is modelled

ASSUME RemoteControlAssumption ==
  /\ Turns \in Nat \ {0} /\ MaxRetries \in Nat \ {0}
  /\ Randoms \in Nat /\ Items \in Nat \ {0} /\ Wires \in Nat \ {0}
  /\ Nobody \notin Controls /\ Stranger \notin Controls

VARIABLES kindOf,      \* what each program is
          loggedIn,    \* the gateway's m_loggedIn ...
          address,     \* ... m_address ...
          random,      \* ... and m_random
          control,     \* the programs
          toServer, toControl,   \* the network
          executed     \* commands of the programs that the gateway has carried out

remoteVars == <<kindOf, loggedIn, address, random, control, toServer, toControl, executed>>
serverVars == <<loggedIn, address, random>>

Packet1(what, arg) == [what |-> what, arg |-> arg]

RemoteInit ==
  /\ kindOf \in [Controls -> {"DAEMON", "TIMER", "FRAME"}]
  /\ loggedIn = FALSE /\ address = Nobody /\ random = 0
  /\ control = [c \in Controls |->
       [phase |-> "START", in |-> FALSE, retry |-> 0, last |-> Packet1("NONE", 0), turns |-> 0,
        item |-> 1, done |-> {}, outcome |-> "NONE"]]
  /\ toServer = [c \in Controls |-> <<>>] /\ toControl = [c \in Controls |-> <<>>]
  /\ executed = {}

\* What is sent arrives, or not.
Sent(wires, c, ps) ==
  {wires} \cup (IF Len(wires[c]) + Len(ps) <= Wires THEN {[wires EXCEPT ![c] = @ \o ps]} ELSE {})

-----------------------------------------------------------------------------
(* CRemoteProtocolHandler and CRemoteHandler in the gateway.               *)

To(c, p) == IF c \in Controls THEN toControl' \in Sent(toControl, c, <<p>>) ELSE UNCHANGED toControl

Reply(what, arg) == To(address, Packet1(what, arg))

NAK == Reply("NAK", 0) /\ UNCHANGED <<serverVars, executed>>

\* LIN: ends the session there is.
Login(c) ==
  /\ random < Randoms /\ random' = random + 1 /\ address' = c /\ loggedIn' = FALSE
  /\ To(c, Packet1("RND", random + 1))
  /\ UNCHANGED executed

\* SHA: readHash
Hash(arg) ==
  /\ loggedIn' = (arg = random)
  /\ Reply(IF arg = random THEN "ACK" ELSE "NAK", 0)
  /\ UNCHANGED <<address, random, executed>>

\* Mutant: a hash that is sent again is acknowledged again.
HashAgain == Reply("ACK", 0) /\ UNCHANGED <<serverVars, executed>>

\* "Someone is already logged in"
HashWhileIn == NAK

\* LNK, UNL or LGO: the callsign may not be one of the gateway's.
Command(c, arg) ==
  \/ executed' = executed \cup ({c} \cap Controls) \X {arg} /\ Reply("ACK", 0) /\ UNCHANGED serverVars
  \/ NAK

\* GCS; GRP and GSN, for a callsign that may not be one of the gateway's.
Answer(what) ==
  /\ \/ Reply(CASE what = "GCS" -> "CAL" [] what = "GRP" -> "RPT" [] what = "GSN" -> "SNT", 0)
     \/ what # "GCS" /\ Reply("NAK", 0)
  /\ UNCHANGED <<serverVars, executed>>

Logout == loggedIn' = FALSE /\ UNCHANGED <<address, random, executed, toControl>>

\* readType and process.  Answers go to m_address, whoever has sent the packet.
Handle(c, p) ==
  CASE p.what = "LIN" -> Login(c)
    [] p.what # "LIN" /\ loggedIn /\ c # address -> NAK
    [] p.what = "SHA" /\ ~loggedIn -> Hash(p.arg)
    [] p.what = "LOG" /\ ~loggedIn -> UNCHANGED <<serverVars, executed, toControl>>
    [] p.what = "SHA" /\ loggedIn /\ c = address -> HashWhileIn
    [] p.what \notin {"LIN", "SHA", "LOG"} /\ ~loggedIn -> NAK
    [] p.what \in {"GCS", "GRP", "GSN"} /\ loggedIn /\ c = address -> Answer(p.what)
    [] p.what = "LNK" /\ loggedIn /\ c = address -> Command(c, p.arg)
    [] p.what = "LOG" /\ loggedIn /\ c = address -> Logout

ServerProcess(c) ==
  /\ toServer[c] # <<>> /\ toServer' = [toServer EXCEPT ![c] = Tail(@)]
  /\ Handle(c, Head(toServer[c]))
  /\ UNCHANGED <<kindOf, control>>

\* It knows the random number only if it was sent to it.
StrangerSends ==
  /\ \E what \in {"LIN", "SHA", "LNK", "LOG"} :
       Handle(Stranger, Packet1(what, IF what = "SHA" /\ address = Stranger THEN random ELSE Randoms + 1))
  /\ UNCHANGED <<kindOf, control, toServer>>

\* LKS, from a script on the same machine, needs no login and has no answer.
\* But there is one, to the program that has logged in last, when the callsign
\* is not one of the gateway's.
LinkScr ==
  /\ NAK
  /\ UNCHANGED <<kindOf, control, toServer>>

-----------------------------------------------------------------------------
(* The programs' handlers: a request is kept and sent again by retry(), and*)
(* no other is sent while it waits, but for a login.                       *)

Becomes(c, r) == control' = [control EXCEPT ![c] = r]

\* r with its next request.
Asking(r, phase, p) == [r EXCEPT !.phase = phase, !.retry = 1, !.last = p, !.turns = 0]

Ask(c, r, phase, p) ==
  Becomes(c, Asking(r, phase, p)) /\ toServer' \in Sent(toServer, c, <<p>>)

\* readType
Read(c) == toControl[c] # <<>> /\ toControl' = [toControl EXCEPT ![c] = Tail(@)]
Got(c) == Head(toControl[c])
After1(c) == [control[c] EXCEPT !.retry = 0]

Idle(c, r) == Becomes(c, r) /\ UNCHANGED toServer

\* retry: gives up in silence.
Retry(c, r) ==
  CASE r.retry = 0 -> Idle(c, r)
    [] r.retry > 0 /\ r.retry + 1 >= MaxRetries -> Idle(c, [r EXCEPT !.retry = 0])
    [] OTHER -> /\ Becomes(c, [r EXCEPT !.retry = @ + 1])
                /\ toServer' \in Sent(toServer, c, <<r.last>>)

Over1(r, outcome) == [r EXCEPT !.phase = "OVER", !.outcome = outcome]

\* logout: five packets.
LogOff(c, r) ==
  Becomes(c, r) /\ \E k \in 1 .. 2 : toServer' \in Sent(toServer, c, [i \in 1 .. k |-> Packet1("LOG", 0)])

StartControl(c) ==
  /\ control[c].phase = "START"
  /\ Ask(c, control[c], "LOGIN", Packet1("LIN", 0))
  /\ UNCHANGED <<kindOf, serverVars, toControl, executed>>

Link(r) == Packet1("LNK", r.item)
Done(r) == [r EXCEPT !.done = @ \cup {r.item}]

-----------------------------------------------------------------------------
(* remotecontrold: main                                                    *)

DaemonGot(c, r, what, arg) ==
  CASE r.phase = "LOGIN" /\ what = "RND" -> Ask(c, r, "HASH", Packet1("SHA", arg))
    [] r.phase = "HASH" /\ what = "ACK" -> Ask(c, [r EXCEPT !.in = TRUE], "LINK", Link(r))
    [] r.phase = "HASH" /\ what = "NAK" -> Idle(c, Over1(r, "INVALID PASSWORD"))
    [] r.phase = "LINK" /\ what = "ACK" -> LogOff(c, Over1(Done(r), "ACCEPTED"))
    [] r.phase = "LINK" /\ what = "NAK" -> Idle(c, Over1(r, "REJECTED"))
    [] OTHER -> Idle(c, IF r.turns + 1 >= Turns THEN Over1(r, "NO RESPONSE")
                        ELSE [r EXCEPT !.turns = @ + 1])

DaemonNone(c, r) ==
  IF r.turns + 1 >= Turns THEN Retry(c, Over1(r, "NO RESPONSE"))
  ELSE Retry(c, [r EXCEPT !.turns = @ + 1])

-----------------------------------------------------------------------------
(* timercontrol: CTimerControlThread::login, link and logoff.  It waits 100*)
(* ms for an answer and asks again; but hash and link are not sent again by*)
(* a handler that still waits for the answer.                              *)

TimerEnds(c, r, outcome) ==
  IF r.in /\ r.retry = 0 THEN LogOff(c, Over1([r EXCEPT !.in = FALSE], outcome))
  ELSE Idle(c, Over1([r EXCEPT !.in = FALSE], outcome))

\* The next item of the schedule that is due, which a waiting handler refuses.
NextItem(c, r) ==
  IF r.item < Items /\ r.retry = 0
  THEN LET s == [r EXCEPT !.item = @ + 1] IN Ask(c, s, "LINK", Link(s))
  ELSE TimerEnds(c, r, "NONE")

TimerGot(c, r, what, arg) ==
  CASE r.phase = "LOGIN" /\ what = "RND" -> Ask(c, r, "HASH", Packet1("SHA", arg))
    [] r.phase = "LOGIN" /\ what \notin {"RND", "NAK"} -> Ask(c, r, "LOGIN", r.last)
    [] r.phase \in {"LOGIN", "HASH"} /\ what = "NAK" -> Idle(c, Over1(r, "NAK"))
    [] r.phase = "HASH" /\ what = "ACK" -> Ask(c, [r EXCEPT !.in = TRUE], "LINK", Link(r))
    [] r.phase = "LINK" /\ what = "ACK" -> NextItem(c, Done(r))
    [] r.phase = "LINK" /\ what = "NAK" -> NextItem(c, r)
    [] OTHER -> Ask(c, r, r.phase, r.last)

TimerNone(c, r) ==
  CASE r.phase = "LOGIN" -> Ask(c, r, "LOGIN", r.last)
    [] r.phase = "HASH" -> Idle(c, Over1(r, "NOT SENT"))
    [] r.phase = "LINK" -> NextItem(c, r)

-----------------------------------------------------------------------------
(* remotecontrol: CRemoteControlFrame::onTimer, of a gateway with one      *)
(* repeater and one STARnet group.                                         *)

\* sendHash is refused by a handler that is logged in.
FrameRandom(c, r, arg) ==
  IF r.in THEN Idle(c, [r EXCEPT !.phase = "HASH"]) ELSE Ask(c, r, "HASH", Packet1("SHA", arg))

FrameRequest(c, r, phase, what) ==
  IF r.in THEN Ask(c, r, phase, Packet1(what, 0)) ELSE Idle(c, [r EXCEPT !.phase = phase])

FrameGot(c, r, what, arg) ==
  CASE what = "RND" -> FrameRandom(c, r, arg)
    [] what = "ACK" /\ r.phase = "HASH" -> FrameRequest(c, [r EXCEPT !.in = TRUE], "NORMAL", "GCS")
    [] what = "ACK" /\ r.phase # "HASH" -> Idle(c, r)
    [] what = "NAK" -> Idle(c, [r EXCEPT !.phase = "NORMAL", !.in = @ /\ r.phase # "HASH"])
    [] what = "CAL" -> FrameRequest(c, r, "GET REPEATERS", "GRP")
    [] what = "RPT" /\ r.phase = "GET REPEATERS" -> FrameRequest(c, r, "GET STARNETS", "GSN")
    [] what \in {"RPT", "SNT"} /\ r.phase = "GET STARNETS" -> Idle(c, [r EXCEPT !.phase = "NORMAL"])
    [] OTHER -> Idle(c, r)

\* repeaterRefresh, link, unlink and starNetLogoff: the user's buttons.
FrameCommand(c) ==
  LET r == control[c]
  IN /\ kindOf[c] = "FRAME" /\ r.in /\ r.retry = 0 /\ r.item <= Items
     /\ Ask(c, [r EXCEPT !.item = @ + 1], r.phase, Link(r))
     /\ UNCHANGED <<kindOf, serverVars, toControl, executed>>

\* onClose
FrameClose(c) ==
  LET r == control[c]
  IN /\ kindOf[c] = "FRAME" /\ r.phase \notin {"START", "OVER"}
     /\ (IF r.in /\ r.retry = 0 THEN LogOff(c, Over1(r, "CLOSED")) ELSE Idle(c, Over1(r, "CLOSED")))
     /\ UNCHANGED <<kindOf, serverVars, toControl, executed>>

-----------------------------------------------------------------------------

Running1(c) == control[c].phase \notin {"START", "OVER"}

ControlReads(c) ==
  /\ Running1(c) /\ Read(c)
  /\ LET r == After1(c) g == Got(c)
     IN CASE kindOf[c] = "DAEMON" -> DaemonGot(c, r, g.what, g.arg)
          [] kindOf[c] = "TIMER" -> TimerGot(c, r, g.what, g.arg)
          [] kindOf[c] = "FRAME" -> FrameGot(c, r, g.what, g.arg)
  /\ UNCHANGED <<kindOf, serverVars, executed>>

\* Nothing has come in the 100 ms it waits.
ControlWaits(c) ==
  /\ Running1(c)
  /\ CASE kindOf[c] = "DAEMON" -> DaemonNone(c, control[c])
       [] kindOf[c] = "TIMER" -> TimerNone(c, control[c])
       [] kindOf[c] = "FRAME" -> Retry(c, control[c])
  /\ UNCHANGED <<kindOf, serverVars, toControl, executed>>

RemoteNext ==
  \/ \E c \in Controls : \/ StartControl(c) \/ ControlReads(c) \/ ControlWaits(c)
                         \/ FrameCommand(c) \/ FrameClose(c) \/ ServerProcess(c)
  \/ StrangerSends \/ LinkScr

\* A command that a program takes for acknowledged was carried out, though any
\* acknowledgement answers any command, packets are lost or sent again, and
\* other programs end the session.
AcceptedIsDone == \A c \in Controls : \A i \in control[c].done : <<c, i>> \in executed

RemoteSpec == RemoteInit /\ [][RemoteNext]_remoteVars
=============================================================================
