------------------------------- MODULE IrcSession -------------------------------
(***************************************************************************)
(* One ircDDB connection: IRCClient's thread (the socket), IRCProtocol     *)
(* (the log-in), IRCDDBApp's thread (the choice of a server and the        *)
(* download of the repeater table) and the far IRC network, which is not   *)
(* part of the program.                                                    *)
(*                                                                         *)
(* The two threads share d->state, d->timer, d->initReady and d->sendQ     *)
(* without a lock.  The application's thread reads d->state in its switch  *)
(* and writes it later (AppRead, AppCase), the IRC thread tests it and     *)
(* writes it later (ListAnswer, IrcWrite), so a write of one can be lost   *)
(* under a write of the other.                                             *)
(*                                                                         *)
(* Time-outs of seconds and minutes end at any time until "calm": the      *)
(* network has been up and quick for as long as the longest of them.       *)
(***************************************************************************)
EXTENDS Naturals, FiniteSets

CONSTANTS Servers,     \* the nicks that start with "s-"
          Me,          \* the own nick
          None,
          Group(_),    \* the first seven letters of a server's nick
          Addresses,   \* how many addresses the host name has
          Polls        \* how often the application polls while the client waits

ASSUME IrcSessionAssumption ==
  /\ Me \notin Servers /\ None \notin Servers \cup {Me} /\ None \notin Nat
  /\ Addresses \in Nat \ {0} /\ Polls \in Nat /\ Polls >= 2

VARIABLES conn,        \* state of IRCClient::Entry
          addr,        \* currentAddr
          pause,       \* polls left before the client may be back
          proto,       \* IRCProtocol::state
          owed,        \* what the far end has still to answer
          who,         \* nicks that are still to come in the WHO list
          sendQ,       \* is d->sendQ set?
          known,       \* d->user
          ops,         \* those of them that are operators
          best,        \* d->bestServer
          server,      \* d->currentServer
          app,         \* d->state
          seen,        \* the state the application's thread has read, or None
          irc,         \* the state the IRC thread is about to write, or None
          table,       \* sendlistTableID
          ready,       \* d->initReady
          present,     \* far end: the servers in the channel
          chief,       \* far end: is the own nick an operator?
          info,        \* d->moduleQTH, moduleURL, moduleQRG, moduleWD
          listed,      \* has the table been received in this session?
          calm

netVars == <<conn, addr, pause>>
protoVars == <<proto, owed, who, sendQ>>
userVars == <<known, ops, best>>
appVars == <<server, app, seen, irc, table, ready, info, listed>>
farVars == <<present, chief, calm>>
vars == <<netVars, protoVars, userVars, appVars, farVars>>

Nicks == Servers \cup {Me}
numberOfTables == 2
AppStates == 0 .. 7 \cup {10}
ProtoStates == 0 .. 6 \cup 10 .. 12

Init ==
  /\ conn = "RESOLVE" /\ addr = 0 /\ pause = 0
  /\ proto = 0 /\ owed = {} /\ who = {} /\ sendQ = FALSE
  /\ known = {} /\ ops = {} /\ best = None
  /\ server = None /\ app = 0 /\ seen = None /\ irc = None
  /\ table = 0 /\ ready = FALSE /\ info = "HELD" /\ listed = FALSE
  /\ present \in SUBSET Servers /\ chief = FALSE /\ calm = FALSE

-----------------------------------------------------------------------------
(* IRCClient::Entry.                                                       *)

Resolve ==
  /\ conn = "RESOLVE" /\ pause = 0
  /\ conn' = "CONNECT" /\ addr' = 0
  /\ UNCHANGED <<pause, protoVars, userVars, appVars, farVars>>

\* The connection is refused or takes more than 5 s.
NextAddress ==
  /\ ~calm /\ addr' = addr + 1
  /\ conn' = IF addr + 1 >= Addresses THEN "RESOLVE" ELSE "CONNECT"

Connect ==
  /\ conn = "CONNECT"
  /\ (conn' = "SETUP" /\ UNCHANGED addr) \/ NextAddress
  /\ UNCHANGED <<pause, protoVars, userVars, appVars, farVars>>

\* New queues and a receiver; IRCProtocol::setNetworkReady(true).
Setup ==
  /\ conn = "SETUP"
  /\ conn' = "ONLINE" /\ proto' = 1
  /\ UNCHANGED <<addr, pause, owed, who, sendQ, userVars, appVars, farVars>>

\* Mutant: the next connection is tried at once.
CloseBriefly ==
  /\ conn' = "RESOLVE" /\ pause' = 0
  /\ sendQ' = FALSE /\ known' = {} /\ ops' = {}
  /\ proto' = 0 /\ owed' = {} /\ who' = {} /\ listed' = FALSE

\* State 6: setSendQ(NULL), userListReset.  The queues are deleted 2 s later and the next connection is tried
\* after 15 s more; the application polls every second.
Close ==
  /\ conn' = "RESOLVE" /\ pause' = Polls
  /\ sendQ' = FALSE /\ known' = {} /\ ops' = {}
  /\ proto' = 0 /\ owed' = {} /\ who' = {} /\ listed' = FALSE

\* The receiver signals the end of the file, or a write is short.
Disconnect ==
  /\ conn = "ONLINE" /\ ~calm /\ irc = None
  /\ Close
  /\ UNCHANGED <<addr, best, server, app, seen, irc, table, ready, info, farVars>>

-----------------------------------------------------------------------------
(* IRCProtocol::processQueues, run by the client's thread.                 *)

IrcThread == conn = "ONLINE" /\ irc = None

\* IRCReceiver has put the far end's answer into recvQ.
Received(reply) == IrcThread /\ reply \in owed

Sends == \* what states 1, 2, 3, 5, 10 and 11 write, and the state they lead to
  {<<1, {"433"}, 2>>, <<2, {"004"}, 4>>, <<3, {"433"}, 2>>,
   <<5, {"JOIN"}, 6>>, <<10, {"WHO"}, 11>>, <<11, {"PONG"}, 12>>}

\* A state that sends, its timer having run out if it has one.
ProtoSend ==
  /\ IrcThread
  /\ \E s \in Sends :
       /\ proto = s[1] /\ proto' = s[3]
       /\ owed' = (owed \ (IF proto = 2 THEN {"433"} ELSE {})) \cup s[2]
       /\ sendQ' = (sendQ \/ proto = 10)   \* this switches the application on
  /\ UNCHANGED <<netVars, who, userVars, appVars, farVars>>

\* States 4, 6 and 12 disconnect when their timer runs out.
ProtoTimeout ==
  /\ IrcThread /\ ~calm /\ proto \in {4, 6, 12}
  /\ Close
  /\ UNCHANGED <<addr, best, server, app, seen, irc, table, ready, info, farVars>>

\* 433: the nick is in use, another one is tried after a pause.
NickCollision ==
  /\ Received("433") /\ ~calm /\ proto = 2
  /\ proto' = 3 /\ owed' = owed \ {"433"}
  /\ UNCHANGED <<netVars, who, sendQ, userVars, appVars, farVars>>

\* 004: logged in; the server's name says which "s-" user is the nearest.
LoggedIn ==
  /\ Received("004") /\ proto = 4
  /\ proto' = 5 /\ owed' = owed \ {"004"}
  /\ best' \in IF calm THEN {best} ELSE Servers \cup {best}
  /\ UNCHANGED <<netVars, who, sendQ, known, ops, appVars, farVars>>

\* JOIN of the own nick.
Joined ==
  /\ Received("JOIN") /\ proto = 6
  /\ proto' = 10 /\ owed' = owed \ {"JOIN"}
  /\ UNCHANGED <<netVars, who, sendQ, userVars, appVars, farVars>>

\* The far end begins its list of the channel.
WhoBegins ==
  /\ Received("WHO")
  /\ owed' = owed \ {"WHO"} /\ who' = present \cup {Me}
  /\ UNCHANGED <<netVars, proto, sendQ, userVars, appVars, farVars>>

\* 352: userJoin, userChanOp.
WhoEntry(n) ==
  /\ IrcThread /\ n \in who
  /\ who' = who \ {n} /\ known' = known \cup {n}
  /\ ops' = IF n = Me /\ ~chief THEN ops \ {n} ELSE ops \cup {n}
  /\ UNCHANGED <<netVars, proto, owed, sendQ, best, appVars, farVars>>

Pong ==
  /\ Received("PONG") /\ proto = 12
  /\ proto' = 11 /\ owed' = owed \ {"PONG"}
  /\ UNCHANGED <<netVars, who, sendQ, userVars, appVars, farVars>>

\* JOIN and MODE +o of a server.
ServerJoins(s) ==
  /\ IrcThread /\ ~calm /\ proto >= 10 /\ s \notin present
  /\ present' = present \cup {s} /\ known' = known \cup {s} /\ ops' = ops \cup {s}
  /\ UNCHANGED <<netVars, protoVars, best, appVars, chief, calm>>

\* MODE +o or -o of the own nick: userChanOp.
OwnMode ==
  /\ IrcThread /\ ~calm /\ proto >= 10 /\ Me \in known
  /\ chief' = ~chief
  /\ ops' = IF chief THEN ops \ {Me} ELSE ops \cup {Me}
  /\ UNCHANGED <<netVars, protoVars, known, best, appVars, present, calm>>

\* IRCDDBApp::userLeave, for the nick that is the current server.
UserLeave(s) ==
  IF server = s /\ Me \in known \ ops
  THEN app' = 2 /\ ready' = FALSE
  ELSE UNCHANGED <<app, ready>>

\* PART, KICK or QUIT of a server.
ServerLeaves(s) ==
  /\ IrcThread /\ ~calm /\ s \in present \ who
  /\ present' = present \ {s} /\ known' = known \ {s} /\ ops' = ops \ {s}
  /\ owed' = IF s = server THEN owed \ {"LIST"} ELSE owed
  /\ UserLeave(s)
  /\ UNCHANGED <<netVars, proto, who, sendQ, best, server, seen, irc, table, info, listed, chief, calm>>

\* The own nick is kicked: processQueues returns false.
Kicked ==
  /\ IrcThread /\ ~calm /\ proto >= 10
  /\ Close
  /\ UNCHANGED <<addr, best, server, app, seen, irc, table, ready, info, farVars>>

\* LIST_END or LIST_MORE from the server, while d->state is 5 ...
ListAnswer ==
  /\ Received("LIST") /\ server \in present
  /\ owed' = owed \ {"LIST"}
  /\ IF app # 5 THEN UNCHANGED <<irc, listed>>
     ELSE \/ irc' = 3 /\ listed' = TRUE
          \/ irc' = 4 /\ ~calm /\ UNCHANGED listed
  /\ UNCHANGED <<netVars, proto, who, sendQ, userVars, server, app, seen, table, ready, info, farVars>>

\* ... leads to state 3 or 4.
IrcWrite ==
  /\ irc # None /\ app' = irc /\ irc' = None
  /\ UNCHANGED <<netVars, protoVars, userVars, server, seen, table, ready, info, listed, farVars>>

-----------------------------------------------------------------------------
(* IRCDDBApp::Entry.                                                       *)

\* IRCDDBApp::findServerUser
Candidates == known \cap ops \cap Servers

Preferred ==
  LET near == {s \in Candidates : best \in Servers /\ Group(s) = Group(best)}
  IN IF best \in Candidates THEN {best} ELSE IF near # {} THEN near ELSE Candidates

\* After a second's sleep: the IRC thread is not between its test and its write.
AppRead ==
  /\ seen = None /\ irc = None /\ seen' = app
  /\ UNCHANGED <<netVars, protoVars, userVars, server, app, irc, table, ready, info, listed, farVars>>

\* QUIT goes to the far end, which closes the connection.
AppQuit == app' = 10 /\ owed' = owed \cup {"QUIT"} /\ UNCHANGED <<server, table, ready, info>>

\* Mutant: the answer to SENDLIST is waited for without end.
ListUnlimited == FALSE /\ AppQuit

\* 15 minutes, which a well network does not need: then the answer was lost.
ListTimeout ==
  /\ calm /\ server \in present => "LIST" \notin owed /\ irc = None /\ app = 5
  /\ AppQuit

\* State 3 counts the tables down; only table 1 is asked for.
NextTable ==
  IF table = 0 THEN app' = 6 /\ UNCHANGED table
  ELSE table' = table - 1 /\ app' = 4

ChooseServer ==
  IF Candidates # {}
  THEN /\ server' \in Preferred /\ table' = numberOfTables /\ app' = 3
       /\ UNCHANGED <<ready, info, owed>>
  ELSE \/ ~calm /\ AppQuit
       \/ UNCHANGED <<app, server, table, ready, info, owed>>

SendList ==
  /\ IF table = 1
     THEN app' = 5 /\ owed' = owed \cup {"LIST"}
     ELSE app' = 3 /\ UNCHANGED owed
  /\ UNCHANGED <<server, table, ready, info>>

\* State 7.  When infoTimer runs out the data of the repeaters is sent and
\* forgotten, even if there is no connection any more to send it to.
Standby ==
  /\ app' = IF sendQ THEN app ELSE 10
  /\ \/ UNCHANGED info
     \/ info = "HELD" /\ info' = IF sendQ THEN "SENT" ELSE "LOST"
  /\ UNCHANGED <<server, table, ready, owed>>

Case(state) ==
  CASE state = 0 -> app' = (IF sendQ THEN 1 ELSE app) /\ UNCHANGED <<server, table, ready, info, owed>>
    [] state = 1 -> app' = 2 /\ UNCHANGED <<server, table, ready, info, owed>>
    [] state = 7 -> Standby
    [] state = 10 -> app' = 0 /\ ready' = FALSE /\ UNCHANGED <<server, table, info, owed>>
    [] state \in 2 .. 6 /\ ~sendQ -> app' = 10 /\ UNCHANGED <<server, table, ready, info, owed>>
    [] state = 2 /\ sendQ -> ChooseServer
    [] state = 3 /\ sendQ -> NextTable /\ UNCHANGED <<server, ready, info, owed>>
    [] state = 4 /\ sendQ -> SendList
    [] state = 5 /\ sendQ ->
         \/ ListTimeout
         \/ UNCHANGED <<app, server, table, ready, info, owed>>
    [] state = 6 /\ sendQ -> app' = 7 /\ ready' = TRUE /\ UNCHANGED <<server, table, info, owed>>

AppCase ==
  /\ seen # None /\ seen' = None
  /\ pause' = IF pause = 0 THEN 0 ELSE pause - 1
  /\ Case(seen)
  /\ listed' = (listed /\ seen # 2)
  /\ UNCHANGED <<conn, addr, proto, who, sendQ, userVars, irc, farVars>>

\* The far end closes the connection after a QUIT.
FarQuit ==
  /\ Received("QUIT")
  /\ Close
  /\ UNCHANGED <<addr, best, server, app, seen, irc, table, ready, info, farVars>>

\* From now on the network is up, a server is there, and nothing changes.
BeCalm ==
  /\ ~calm /\ present # {} /\ calm' = TRUE
  /\ UNCHANGED <<netVars, protoVars, userVars, appVars, present, chief>>
-----------------------------------------------------------------------------
Next ==
  \/ Resolve \/ Connect \/ Setup \/ Disconnect
  \/ ProtoSend \/ ProtoTimeout \/ NickCollision \/ LoggedIn \/ Joined
  \/ WhoBegins \/ Pong \/ OwnMode \/ Kicked \/ ListAnswer \/ IrcWrite
  \/ \E n \in Nicks : WhoEntry(n)
  \/ \E s \in Servers : ServerJoins(s) \/ ServerLeaves(s)
  \/ AppRead \/ AppCase \/ FarQuit \/ BeCalm

\* Both threads loop, a timer that may run out does, and the far end answers.
Fairness ==
  /\ WF_vars(Resolve \/ Connect \/ Setup)
  /\ WF_vars(ProtoSend \/ LoggedIn \/ Joined \/ IrcWrite)
  /\ WF_vars(WhoBegins \/ ListAnswer) /\ WF_vars(\E n \in Nicks : WhoEntry(n))
  /\ WF_vars(Pong) /\ WF_vars(FarQuit)
  /\ WF_vars(AppRead \/ AppCase) /\ SF_vars(AppCase /\ seen = 5 /\ ListTimeout)

Spec == Init /\ [][Next]_vars /\ Fairness
\* While the queue is there, what the application tells the gateway rests on a
\* table that this session's server has sent: a disconnection never goes
\* unnoticed by the application's thread, however short.
ListedFirst == ready /\ sendQ => listed

\* When the network is well for long enough, the application reaches its
\* standby state, whatever has happened before, and stays there.
GoesOnline == <>calm => <>[](app = 7)

\* "if I am not op, then look for new server": when the server leaves and
\* userLeave asks for another, the application's thread looks for it.
LooksForServer == app = 2 ~> (seen = 2 \/ ~sendQ)
=============================================================================
