------------------------------ MODULE SessionProofs -----------------------------
(***************************************************************************)
(* The gateway's sessions with far machines: the ircDDB servers, and the   *)
(* programs that control it.                                               *)
(*                                                                         *)
(* ListedFirst (IrcSession), for any number of servers and addresses: what *)
(* the application tells the gateway rests on a table this session's       *)
(* server has sent.  The threads share no lock, so the proof is about      *)
(* which states the application's thread can have read when the other one  *)
(* writes (ReadsLate), how far the download of the table is known to be    *)
(* (TablePast), and that the pause before the next connection is long      *)
(* enough for the application to notice that the last one has gone         *)
(* (Noticed): two polls are needed, and without them it fails.             *)
(*                                                                         *)
(* NewestWins (IrcDatabase), for any number of gateways, nicks and joins:  *)
(* numbers are given up with the nicks that had them and given again, and  *)
(* still the order of the numbers is that of the arrivals.                 *)
(*                                                                         *)
(* AcceptedIsDone (RemoteControl), for any number of programs, packets     *)
(* under way, retries and logins.  Acknowledgements do not say of what, so *)
(* the proof is about which of them can still be under way: a random       *)
(* number is known to one program (OwnNumbers) and its hash acknowledged   *)
(* once (Spent), so that a program that waits for the hash has at most one *)
(* on its wire, and one that waits for its command has none but that of    *)
(* the command.                                                            *)
(***************************************************************************)
EXTENDS IrcSession, IrcDatabase, RemoteControl, WellFoundedInduction, TLAPS

-----------------------------------------------------------------------------
(* ListedFirst                                                             *)

SessionTypeOK ==
  /\ conn \in {"RESOLVE", "CONNECT", "SETUP", "ONLINE"}
  /\ pause \in 0 .. Polls
  /\ app \in AppStates /\ seen \in AppStates \cup {None} /\ irc \in {3, 4, None}
  /\ table \in 0 .. numberOfTables
  /\ sendQ \in BOOLEAN /\ ready \in BOOLEAN /\ listed \in BOOLEAN

\* The queue is that of a connection, and so is what the far end is asked for.
Connected ==
  /\ conn # "RESOLVE" => pause = 0
  /\ sendQ => conn = "ONLINE"
  /\ "WHO" \in owed \/ "LIST" \in owed \/ who # {} \/ Me \in known => sendQ
  /\ app = 5 => table = 1

\* The state the application's thread has read is the present one, unless the
\* other thread has called userLeave or written the end of a list since.
ReadsLate ==
  /\ app \in {0, 1, 5, 6, 7, 10} => seen \in {None, app}
  /\ app \in {3, 4} => seen \in {None, app, 5}

\* The IRC thread is about to write the end of a list.
ListEnds ==
  irc # None =>
    /\ sendQ /\ table = 1 /\ app \in {5, 10} /\ seen \in {None, 5}
    /\ irc = 3 => listed

\* Where the download is known to be over.
TablePast ==
  sendQ =>
    /\ 6 \in {app, seen} => listed
    /\ 3 \in {app, seen} /\ table \in {0, 1} => listed
    /\ 4 \in {app, seen} /\ table = 0 => listed

\* The gateway is told only in standby, and no longer by a session that is new.
Noticed ==
  /\ ready => app \in {7, 10} /\ irc = None
  /\ ~sendQ /\ pause < Polls =>
       /\ app \in {0, 2, 10} /\ seen \in {None, app}
       /\ pause = 0 => app # 2 /\ ~ready

SessionInv ==
  SessionTypeOK /\ Connected /\ ReadsLate /\ ListEnds /\ TablePast /\ Noticed /\ ListedFirst

-----------------------------------------------------------------------------
\* It holds when the program starts.
LEMMA InitSession == Init => SessionInv
<1> SUFFICES ASSUME Init PROVE SessionInv
  OBVIOUS
<1>1. /\ conn = "RESOLVE" /\ pause = 0 /\ owed = {} /\ who = {} /\ sendQ = FALSE /\ known = {}
      /\ app = 0 /\ seen = None /\ irc = None /\ table = 0 /\ ready = FALSE /\ listed = FALSE
  BY DEF Init
<1>2. SessionTypeOK
  <2>1. pause \in 0 .. Polls
    BY <1>1, IrcSessionAssumption
  <2>2. app \in AppStates /\ table \in 0 .. numberOfTables
    BY <1>1 DEF AppStates, numberOfTables
  <2>3. conn \in {"RESOLVE", "CONNECT", "SETUP", "ONLINE"} /\ irc \in {3, 4, None}
    BY <1>1
  <2>4. seen \in AppStates \cup {None}
    BY <1>1
  <2> QED BY <1>1, <2>1, <2>2, <2>3, <2>4 DEF SessionTypeOK
<1>3. Connected /\ ReadsLate /\ ListEnds
  BY <1>1 DEF Connected, ReadsLate, ListEnds
<1>4. TablePast /\ Noticed /\ ListedFirst
  BY <1>1 DEF TablePast, Noticed, ListedFirst
<1> QED BY <1>2, <1>3, <1>4 DEF SessionInv

\* What the invariant does not look at may change, and more may be owed.
LEMMA KeepsSession ==
  ASSUME SessionInv, UNCHANGED <<pause, sendQ, app, seen, irc, table, ready, listed>>,
         conn' \in {"RESOLVE", "CONNECT", "SETUP", "ONLINE"},
         conn' # "RESOLVE" => pause = 0, sendQ => conn' = "ONLINE",
         "WHO" \in owed' \/ "LIST" \in owed' \/ who' # {} \/ Me \in known' => sendQ
  PROVE  SessionInv'
BY DEF SessionInv, SessionTypeOK, Connected, ReadsLate, ListEnds, TablePast, Noticed,
       ListedFirst, AppStates, numberOfTables

\* The connection is closed while the IRC thread is not within ListAnswer: the
\* application has Polls polls to notice it.
LEMMA CloseSession ==
  ASSUME SessionInv, Close, irc = None, UNCHANGED <<app, seen, irc, table, ready>>
  PROVE  SessionInv'
<1>1. /\ conn' = "RESOLVE" /\ pause' = Polls /\ owed' = {} /\ who' = {} /\ sendQ' = FALSE
      /\ known' = {} /\ listed' = FALSE
  BY DEF Close
<1>2. SessionTypeOK'
  <2>1. pause' \in 0 .. Polls /\ conn' \in {"RESOLVE", "CONNECT", "SETUP", "ONLINE"}
    BY <1>1, IrcSessionAssumption
  <2>2. sendQ' \in BOOLEAN /\ listed' \in BOOLEAN
    BY <1>1
  <2> QED BY <2>1, <2>2 DEF SessionInv, SessionTypeOK
<1>3. Connected' /\ ReadsLate' /\ ListEnds'
  BY <1>1 DEF SessionInv, Connected, ReadsLate, ListEnds
<1>4. TablePast' /\ ListedFirst'
  BY <1>1 DEF TablePast, ListedFirst
<1>5. Noticed'
  BY <1>1, IrcSessionAssumption DEF SessionInv, Noticed
<1> QED BY <1>2, <1>3, <1>4, <1>5 DEF SessionInv

\* The client's thread: connecting and closing.
LEMMA ClientSession ==
  ASSUME SessionInv, Resolve \/ Connect \/ Setup \/ Disconnect \/ ProtoTimeout \/ Kicked \/ FarQuit
  PROVE  SessionInv'
<1>1. /\ sendQ => conn = "ONLINE"
      /\ conn # "RESOLVE" => pause = 0
      /\ "WHO" \in owed \/ "LIST" \in owed \/ who # {} \/ Me \in known => sendQ
  BY DEF SessionInv, Connected
<1>2. CASE Resolve
  BY <1>1, <1>2, KeepsSession DEF Resolve, protoVars, userVars, appVars
<1>3. CASE Connect
  BY <1>1, <1>3, KeepsSession DEF Connect, NextAddress, protoVars, userVars, appVars
<1>4. CASE Setup
  BY <1>1, <1>4, KeepsSession DEF Setup, userVars, appVars
<1>5. CASE Disconnect
  BY <1>5, CloseSession DEF Disconnect
<1>6. CASE ProtoTimeout
  BY <1>6, CloseSession DEF ProtoTimeout, IrcThread
<1>7. CASE Kicked
  BY <1>7, CloseSession DEF Kicked, IrcThread
<1>8. CASE FarQuit
  BY <1>8, CloseSession DEF FarQuit, Received, IrcThread
<1> QED BY <1>2, <1>3, <1>4, <1>5, <1>6, <1>7, <1>8

\* The log-in sends, and at its end switches the application on.
LEMMA SendSession == ASSUME SessionInv, ProtoSend PROVE SessionInv'
<1>1. PICK s \in Sends :
        /\ proto = s[1] /\ proto' = s[3]
        /\ owed' = (owed \ (IF proto = 2 THEN {"433"} ELSE {})) \cup s[2]
        /\ sendQ' = (sendQ \/ proto = 10)
  BY DEF ProtoSend
<1>2. /\ "LIST" \in owed' => "LIST" \in owed
      /\ "WHO" \in owed' => "WHO" \in owed \/ sendQ'
  <2>1. "LIST" \notin s[2]
    BY DEF Sends
  <2>2. "WHO" \in s[2] => s[1] = 10
    BY DEF Sends
  <2> QED BY <1>1, <2>1, <2>2
<1>3. /\ conn = "ONLINE" /\ irc = None
      /\ UNCHANGED <<conn, pause, app, seen, irc, table, ready, listed, who, known>>
  BY DEF ProtoSend, IrcThread, netVars, userVars, appVars
<1>4. CASE sendQ' = sendQ
  BY <1>2, <1>3, <1>4, KeepsSession DEF SessionInv, SessionTypeOK, Connected
<1>5. CASE ~sendQ /\ sendQ' = TRUE
  <2>1. pause = 0 /\ app \in {0, 10} /\ ~ready /\ seen \in {None, app}
    BY <1>3, <1>5, IrcSessionAssumption DEF SessionInv, SessionTypeOK, Connected, Noticed
  <2>2. SessionTypeOK'
    BY <1>3, <1>5 DEF SessionInv, SessionTypeOK
  <2>3. Connected' /\ ReadsLate' /\ ListEnds'
    BY <1>3, <1>5 DEF SessionInv, Connected, ReadsLate, ListEnds
  <2>4. TablePast' /\ ListedFirst' /\ Noticed'
    BY <1>3, <1>5, <2>1, IrcSessionAssumption DEF TablePast, ListedFirst, Noticed
  <2> QED BY <2>2, <2>3, <2>4 DEF SessionInv
<1> QED BY <1>1, <1>4, <1>5 DEF SessionInv, SessionTypeOK

\* The other messages of the far end.
LEMMA FarSession ==
  ASSUME SessionInv,
         \/ NickCollision \/ LoggedIn \/ Joined \/ WhoBegins \/ Pong \/ OwnMode \/ BeCalm
         \/ \E n \in Nicks : WhoEntry(n)
         \/ \E s \in Servers : ServerJoins(s)
  PROVE  SessionInv'
<1>1. UNCHANGED <<conn, pause, sendQ, app, seen, irc, table, ready, listed>>
  BY DEF NickCollision, LoggedIn, Joined, WhoBegins, Pong, OwnMode, BeCalm, WhoEntry,
         ServerJoins, netVars, protoVars, appVars
<1>2. "WHO" \in owed' \/ "LIST" \in owed' => "WHO" \in owed \/ "LIST" \in owed
  BY DEF NickCollision, LoggedIn, Joined, WhoBegins, Pong, OwnMode, BeCalm, WhoEntry,
         ServerJoins, protoVars
<1>3. who' # {} \/ Me \in known' => "WHO" \in owed \/ who # {} \/ Me \in known
  BY IrcSessionAssumption
     DEF NickCollision, LoggedIn, Joined, WhoBegins, Pong, OwnMode, BeCalm, WhoEntry,
         ServerJoins, Received, protoVars, userVars
<1> QED BY <1>1, <1>2, <1>3, KeepsSession DEF SessionInv, SessionTypeOK, Connected

\* A server leaves: userLeave may ask for another one.
LEMMA LeaveSession == ASSUME SessionInv, NEW s \in Servers, ServerLeaves(s) PROVE SessionInv'
<1>1. /\ irc = None /\ UNCHANGED <<conn, pause, sendQ, seen, irc, table, listed, who>>
      /\ ("WHO" \in owed' => "WHO" \in owed) /\ ("LIST" \in owed' => "LIST" \in owed)
      /\ (Me \in known' => Me \in known) /\ conn = "ONLINE"
  BY DEF ServerLeaves, IrcThread, netVars
<1>2. CASE UNCHANGED <<app, ready>>
  BY <1>1, <1>2, KeepsSession DEF SessionInv, SessionTypeOK, Connected
<1>3. CASE Me \in known /\ app' = 2 /\ ready' = FALSE
  <2>1. sendQ
    BY <1>3 DEF SessionInv, Connected
  <2>2. SessionTypeOK'
    <3>1. 2 \in AppStates
      BY DEF AppStates
    <3> QED BY <1>1, <1>3, <3>1 DEF SessionInv, SessionTypeOK
  <2>3. Connected' /\ ReadsLate' /\ ListEnds'
    BY <1>1, <1>3 DEF SessionInv, Connected, ReadsLate, ListEnds
  <2>4. TablePast' /\ ListedFirst' /\ Noticed'
    BY <1>1, <1>3, <2>1 DEF SessionInv, TablePast, ListedFirst, Noticed
  <2> QED BY <2>2, <2>3, <2>4 DEF SessionInv
<1> QED BY <1>2, <1>3 DEF ServerLeaves, UserLeave

\* LIST_END or LIST_MORE, seen while the application waits for it.
LEMMA AnswerSession == ASSUME SessionInv, ListAnswer PROVE SessionInv'
<1>1. /\ irc = None /\ conn = "ONLINE" /\ "LIST" \in owed
      /\ UNCHANGED <<conn, pause, sendQ, app, seen, table, ready, who, known>>
      /\ "WHO" \in owed' \/ "LIST" \in owed' => "WHO" \in owed \/ "LIST" \in owed
  BY DEF ListAnswer, Received, IrcThread, netVars, userVars
<1>2. CASE UNCHANGED <<irc, listed>>
  BY <1>1, <1>2, KeepsSession DEF SessionInv, SessionTypeOK, Connected
<1>3. CASE app = 5 /\ ((irc' = 3 /\ listed' = TRUE) \/ (irc' = 4 /\ listed' = listed))
  <2>1. sendQ /\ table = 1 /\ seen \in {None, 5}
    BY <1>1, <1>3 DEF SessionInv, Connected, ReadsLate
  <2>2. SessionTypeOK'
    BY <1>1, <1>3 DEF SessionInv, SessionTypeOK
  <2>3. Connected' /\ ReadsLate' /\ ListEnds'
    BY <1>1, <1>3, <2>1, IrcSessionAssumption DEF SessionInv, Connected, ReadsLate, ListEnds
  <2>4. TablePast' /\ ListedFirst' /\ Noticed'
    BY <1>1, <1>3, <2>1 DEF SessionInv, TablePast, ListedFirst, Noticed
  <2> QED BY <2>2, <2>3, <2>4 DEF SessionInv
<1> QED BY <1>2, <1>3 DEF ListAnswer

\* ... and what it leads to, written over whatever the application has done since.
LEMMA WriteSession == ASSUME SessionInv, IrcWrite PROVE SessionInv'
<1>1. /\ irc \in {3, 4} /\ app' = irc /\ irc' = None
      /\ UNCHANGED <<conn, pause, sendQ, seen, table, ready, listed, owed, who, known>>
  BY DEF IrcWrite, SessionInv, SessionTypeOK, netVars, protoVars, userVars
<1>2. /\ sendQ /\ table = 1 /\ seen \in {None, 5} /\ ~ready
      /\ irc = 3 => listed
  BY <1>1, IrcSessionAssumption DEF SessionInv, ListEnds, Noticed
<1>3. SessionTypeOK'
  BY <1>1 DEF SessionInv, SessionTypeOK, AppStates
<1>4. Connected' /\ ReadsLate' /\ ListEnds'
  BY <1>1, <1>2 DEF SessionInv, Connected, ReadsLate, ListEnds
<1>5. TablePast' /\ ListedFirst' /\ Noticed'
  BY <1>1, <1>2, IrcSessionAssumption DEF TablePast, ListedFirst, Noticed
<1> QED BY <1>3, <1>4, <1>5 DEF SessionInv

\* The application's thread reads its state.
LEMMA ReadSession == ASSUME SessionInv, AppRead PROVE SessionInv'
<1>1. /\ seen = None /\ irc = None /\ seen' = app
      /\ UNCHANGED <<conn, pause, sendQ, app, irc, table, ready, listed, owed, who, known>>
  BY DEF AppRead, netVars, protoVars, userVars
<1>2. SessionTypeOK'
  BY <1>1 DEF SessionInv, SessionTypeOK
<1>3. Connected' /\ ReadsLate' /\ ListEnds'
  BY <1>1 DEF SessionInv, Connected, ReadsLate, ListEnds
<1>4. TablePast' /\ ListedFirst' /\ Noticed'
  BY <1>1 DEF SessionInv, TablePast, ListedFirst, Noticed
<1> QED BY <1>2, <1>3, <1>4 DEF SessionInv

\* The application's thread does what its state says.  Only this thread counts
\* the pause down, and the state it has read is the present one, or the other
\* thread has written 2 over it, or 3 or 4 over 5.
LEMMA CaseSession == ASSUME SessionInv, AppCase PROVE SessionInv'
<1>1. /\ seen # None /\ seen' = None /\ Case(seen)
      /\ UNCHANGED <<conn, sendQ, irc, who, known>>
      /\ pause' = (IF pause = 0 THEN 0 ELSE pause - 1)
      /\ listed' = (listed /\ seen # 2)
  BY DEF AppCase, userVars
<1>2. /\ seen \in 0 .. 7 \cup {10} /\ app \in {seen, 2, 3, 4}
      /\ app \in {3, 4} => seen \in {app, 5}
      /\ irc # None => seen = 5 /\ app \in {5, 10} /\ sendQ /\ table = 1
      /\ ready => app \in {7, 10} /\ irc = None
      /\ table \in 0 .. 2 /\ pause \in 0 .. Polls /\ (app = 5 => table = 1)
      /\ sendQ \in BOOLEAN /\ listed \in BOOLEAN /\ ready \in BOOLEAN
  <2>1. seen \in 0 .. 7 \cup {10} /\ app \in 0 .. 7 \cup {10}
    BY <1>1 DEF SessionInv, SessionTypeOK, AppStates
  <2>2. app \in {seen, 2, 3, 4} /\ (app \in {3, 4} => seen \in {app, 5})
    BY <1>1, <2>1 DEF SessionInv, ReadsLate
  <2>3. irc # None => seen = 5 /\ app \in {5, 10} /\ sendQ /\ table = 1
    BY <1>1 DEF SessionInv, ListEnds
  <2> QED BY <2>1, <2>2, <2>3 DEF SessionInv, SessionTypeOK, Connected, Noticed, numberOfTables
<1>3. /\ "LIST" \in owed' => "LIST" \in owed \/ sendQ
      /\ "WHO" \in owed' => "WHO" \in owed
      /\ app' = 5 => table' = 1
      /\ app' \in {app, 0, 1, 2, 3, 4, 5, 6, 7, 10} /\ table' \in 0 .. 2 /\ ready' \in BOOLEAN
      /\ ready' => (ready /\ app' \in {app, 10}) \/ (app' = 7 /\ seen = 6 /\ sendQ)
      /\ irc # None => table' = table /\ app' \in {app, 10}
      /\ sendQ => \/ app' = app /\ table' = table /\ app # 6
                  \/ app' \in {0, 1, 2, 7, 10} /\ table' = table
                  \/ seen = 2 /\ app' = 3 /\ table' = 2
                  \/ seen = 3 /\ ((app' = 6 /\ table' = table /\ table = 0) \/ (app' = 4 /\ table' = table - 1))
                  \/ seen = 4 /\ table' = table /\ (app' = 5 \/ (app' = 3 /\ table # 1))
      /\ ~sendQ => /\ table' = table /\ app' \in {0, 2, 10}
                   /\ seen = 0 => app' = app
                   /\ seen = 10 => app' = 0 /\ ~ready'
                   /\ seen = 2 => app' = 10
  <2>0. CASE seen = 0 /\ sendQ = TRUE
    <3>1. app' = 1 /\ UNCHANGED <<table, ready, owed>>
      BY <1>1, <2>0 DEF Case
    <3> QED BY <1>2, <2>0, <3>1
  <2>1. CASE seen = 0 /\ sendQ = FALSE
    <3>1. app' = app /\ UNCHANGED <<table, ready, owed>>
      BY <1>1, <2>1 DEF Case
    <3> QED BY <1>2, <2>1, <3>1
  <2>2. CASE seen = 1
    <3>1. app' = 2 /\ UNCHANGED <<table, ready, owed>>
      BY <1>1, <2>2 DEF Case
    <3> QED BY <1>2, <2>2, <3>1
  <2>3. CASE seen = 10
    <3>1. app' = 0 /\ ready' = FALSE /\ UNCHANGED <<table, owed>>
      BY <1>1, <2>3 DEF Case
    <3>2. irc = None /\ ("LIST" \in owed' => "LIST" \in owed) /\ ("WHO" \in owed' => "WHO" \in owed)
      BY <1>2, <2>3, <3>1
    <3>3. app' = 0 /\ table' = table /\ ~ready' /\ ready' \in BOOLEAN
      BY <3>1
    <3>4. sendQ \in BOOLEAN /\ table \in 0 .. 2
      BY <1>2
    <3> QED BY <2>3, <3>2, <3>3, <3>4
  <2>4. CASE seen = 7 /\ sendQ = TRUE
    <3>1. app' = app /\ UNCHANGED <<table, ready, owed>>
      BY <1>1, <2>4 DEF Case, Standby
    <3> QED BY <1>2, <2>4, <3>1
  <2>5. CASE seen = 7 /\ sendQ = FALSE
    <3>1. app' = 10 /\ UNCHANGED <<table, ready, owed>>
      BY <1>1, <2>5 DEF Case, Standby
    <3> QED BY <1>2, <2>5, <3>1
  <2>6. CASE seen \in 2 .. 6 /\ sendQ = FALSE
    <3>1. seen # 0 /\ seen # 1 /\ seen # 7 /\ seen # 10
      BY <2>6
    <3>2. app' = 10 /\ UNCHANGED <<table, ready, owed>>
      BY <1>1, <2>6, <3>1 DEF Case
    <3> QED BY <1>2, <2>6, <3>2
  <2>7. CASE seen = 2 /\ sendQ = TRUE
    <3>1. \/ app' = 10 /\ UNCHANGED <<table, ready>> /\ owed' = owed \cup {"QUIT"}
          \/ app' = 3 /\ table' = 2 /\ UNCHANGED <<ready, owed>>
          \/ UNCHANGED <<app, table, ready, owed>>
      BY <1>1, <2>7 DEF Case, ChooseServer, AppQuit, numberOfTables
    <3> QED BY <1>2, <2>7, <3>1
  <2>8. CASE seen = 3 /\ sendQ = TRUE
    <3>1. \/ table = 0 /\ app' = 6 /\ UNCHANGED <<table, ready, owed>>
          \/ table # 0 /\ app' = 4 /\ table' = table - 1 /\ UNCHANGED <<ready, owed>>
      BY <1>1, <2>8 DEF Case, NextTable
    <3> QED BY <1>2, <2>8, <3>1
  <2>9. CASE seen = 4 /\ sendQ = TRUE
    <3>1. \/ table = 1 /\ app' = 5 /\ owed' = owed \cup {"LIST"} /\ UNCHANGED <<table, ready>>
          \/ table # 1 /\ app' = 3 /\ UNCHANGED <<table, ready, owed>>
      BY <1>1, <2>9 DEF Case, SendList
    <3> QED BY <1>2, <2>9, <3>1
  <2>10. CASE seen = 5 /\ sendQ = TRUE
    <3>1. \/ app' = 10 /\ UNCHANGED <<table, ready>> /\ owed' = owed \cup {"QUIT"}
          \/ UNCHANGED <<app, table, ready, owed>>
      BY <1>1, <2>10 DEF Case, ListTimeout, AppQuit
    <3> QED BY <1>2, <2>10, <3>1
  <2>11. CASE seen = 6 /\ sendQ = TRUE
    <3>1. app' = 7 /\ ready' = TRUE /\ UNCHANGED <<table, owed>>
      BY <1>1, <2>11 DEF Case
    <3> QED BY <1>2, <2>11, <3>1
  <2>12. /\ seen = 0 \/ seen = 1 \/ seen \in 2 .. 6 \/ seen = 7 \/ seen = 10
         /\ seen \in 2 .. 6 => seen = 2 \/ seen = 3 \/ seen = 4 \/ seen = 5 \/ seen = 6
         /\ sendQ = TRUE \/ sendQ = FALSE
    BY <1>2
  <2> QED BY <2>0, <2>1, <2>2, <2>3, <2>4, <2>5, <2>6, <2>7, <2>8, <2>9, <2>10, <2>11, <2>12
<1>4. SessionTypeOK'
  <2>1. pause' \in 0 .. Polls
    BY <1>1, <1>2, IrcSessionAssumption
  <2>2. app' \in AppStates /\ table' \in 0 .. numberOfTables
    BY <1>2, <1>3 DEF AppStates, numberOfTables
  <2> QED BY <1>1, <1>2, <1>3, <2>1, <2>2 DEF SessionInv, SessionTypeOK
<1>5. Connected'
  BY <1>1, <1>3 DEF SessionInv, Connected
<1>6. ReadsLate' /\ ListEnds'
  BY <1>1, <1>2, <1>3 DEF SessionInv, ReadsLate, ListEnds
<1>7. TablePast'
  BY <1>1, <1>2, <1>3, IrcSessionAssumption DEF SessionInv, TablePast
<1>8. Noticed'
  BY <1>1, <1>2, <1>3, IrcSessionAssumption DEF SessionInv, Connected, Noticed
<1>9. ListedFirst'
  BY <1>1, <1>2, <1>3, IrcSessionAssumption DEF SessionInv, TablePast, ListedFirst
<1> QED BY <1>4, <1>5, <1>6, <1>7, <1>8, <1>9 DEF SessionInv

-----------------------------------------------------------------------------
\* Every step of the two threads and of the far end keeps the invariant.
LEMMA NextSession == SessionInv /\ [Next]_vars => SessionInv'
<1> SUFFICES ASSUME SessionInv, [Next]_vars PROVE SessionInv'
  OBVIOUS
<1>1. CASE UNCHANGED vars
  <2>1. /\ UNCHANGED <<pause, sendQ, app, seen, irc, table, ready, listed>>
        /\ UNCHANGED <<conn, owed, who, known>>
    BY <1>1 DEF vars, netVars, protoVars, userVars, appVars
  <2> QED BY <2>1, KeepsSession DEF SessionInv, SessionTypeOK, Connected
<1>2. CASE Resolve \/ Connect \/ Setup \/ Disconnect \/ ProtoTimeout \/ Kicked \/ FarQuit
  BY <1>2, ClientSession
<1>3. CASE \/ NickCollision \/ LoggedIn \/ Joined \/ WhoBegins \/ Pong \/ OwnMode \/ BeCalm
           \/ \E n \in Nicks : WhoEntry(n)
           \/ \E s \in Servers : ServerJoins(s)
  BY <1>3, FarSession
<1>4. CASE ProtoSend
  BY <1>4, SendSession
<1>5. CASE \E s \in Servers : ServerLeaves(s)
  BY <1>5, LeaveSession
<1>6. CASE ListAnswer
  BY <1>6, AnswerSession
<1>7. CASE IrcWrite
  BY <1>7, WriteSession
<1>8. CASE AppRead
  BY <1>8, ReadSession
<1>9. CASE AppCase
  BY <1>9, CaseSession
<1> QED BY <1>1, <1>2, <1>3, <1>4, <1>5, <1>6, <1>7, <1>8, <1>9 DEF Next

\* What IRCDDBApp tells the gateway of a session, it tells after the table of the
\* repeaters has been received in that session, whenever the connection is lost
\* and whichever of the two threads writes d->state last.
THEOREM ListedBeforeTold == Spec => []ListedFirst
<1>1. SessionInv => ListedFirst
  BY DEF SessionInv
<1> QED BY <1>1, InitSession, NextSession, PTL DEF Spec

-----------------------------------------------------------------------------
(* NewestWins                                                              *)

DbTypeOK ==
  /\ Present \subseteq GatewayNicks
  /\ \A n \in Present : user[n].usn \in 0 .. Joins

\* Who came later has the higher number, whatever has been joined and left.
LaterIsHigher ==
  \A m, n \in Present : <<m, n>> \in came /\ m[1] = n[1] => user[m].usn < user[n].usn

DbInv == DbTypeOK /\ LaterIsHigher

\* A set of numbers with a bound has a greatest one.
LEMMA Greatest ==
  ASSUME NEW bound \in Nat, NEW S \in SUBSET (0 .. bound), S # {}
  PROVE  \E k \in S : \A l \in S : l <= k
<1> DEFINE T == {x \in 0 .. bound : bound - x \in S}
<1>1. T \subseteq Nat /\ T # {}
  <2>1. PICK s \in S : TRUE
    OBVIOUS
  <2>2. bound - s \in 0 .. bound /\ bound - (bound - s) = s
    OBVIOUS
  <2>3. bound - s \in T
    BY <2>1, <2>2
  <2>4. \A x \in T : x \in Nat
    OBVIOUS
  <2> HIDE DEF T
  <2> QED BY <2>3, <2>4
<1>2. PICK x \in T : \A y \in T : ~(<<y, x>> \in OpToRel(<, Nat))
  BY <1>1, NatLessThanWellFounded, WFMin
<1>3. \A y \in T : ~(y < x)
  BY <1>1, <1>2, Zenon DEF OpToRel
<1>4. \A l \in S : l <= bound - x
  <2> TAKE l \in S
  <2>1. bound - l \in T
    <3>1. bound - l \in 0 .. bound /\ bound - (bound - l) = l
      OBVIOUS
    <3> QED BY <3>1
  <2> QED BY <1>3, <2>1
<1> QED BY <1>4

\* calculateUsn: higher than that of every nick of the gateway in the channel.
LEMMA UsnIsHigher ==
  ASSUME DbTypeOK, NEW nick \in GatewayNicks
  PROVE  /\ calculateUsn(nick) \in Nat
         /\ \A m \in Present : m[1] = nick[1] => user[m].usn < calculateUsn(nick)
<1> DEFINE usns == {user[n].usn : n \in {m \in Present : m[1] = nick[1]}}
           highest == CHOOSE k \in usns \cup {0} : \A l \in usns : l <= k
<1>1. usns \cup {0} \in SUBSET (0 .. Joins) /\ Joins \in Nat
  BY IrcDatabaseAssumption DEF DbTypeOK
<1>2. \E k \in usns \cup {0} : \A l \in usns \cup {0} : l <= k
  BY <1>1, Greatest
<1>3. highest \in usns \cup {0} /\ \A l \in usns : l <= highest
  BY <1>2
<1>4. calculateUsn(nick) = 1 + highest
  BY DEF calculateUsn
<1>5. \A m \in Present : m[1] = nick[1] => user[m].usn \in usns
  OBVIOUS
<1> HIDE DEF usns, highest
<1> QED BY <1>1, <1>3, <1>4, <1>5

\* Nothing of the users changes.
LEMMA KeepsDb == ASSUME DbInv, UNCHANGED <<user, came>> PROVE DbInv'
BY DEF DbInv, DbTypeOK, LaterIsHigher, Present

\* Who comes gets a number above those of the nicks he comes after.
LEMMA JoinDb ==
  ASSUME DbInv, NEW nick \in GatewayNicks, NEW h \in Hosts, userJoin(nick, h)
  PROVE  DbInv'
<1> DEFINE usn == calculateUsn(nick)
<1>1. usn \in 0 .. Joins /\ \A m \in Present : m[1] = nick[1] => user[m].usn < usn
  BY UsnIsHigher, IrcDatabaseAssumption DEF userJoin, DbInv
<1>2. /\ Present' = Present \cup {nick}
      /\ user'[nick].usn = usn
      /\ \A n \in Present : n # nick => user'[n] = user[n]
  BY DEF userJoin, Entered, Present
<1>3. \A m, n \in Present' : <<m, n>> \in came' =>
        m # nick /\ (n # nick => <<m, n>> \in came)
  BY <1>2 DEF userJoin, OrderWithout
<1> HIDE DEF usn
<1>4. DbTypeOK'
  BY <1>1, <1>2 DEF DbInv, DbTypeOK
<1>5. LaterIsHigher'
  <2> SUFFICES ASSUME NEW m \in Present', NEW n \in Present', <<m, n>> \in came', m[1] = n[1]
               PROVE  user'[m].usn < user'[n].usn
    BY DEF LaterIsHigher
  <2>1. m # nick /\ m \in Present
    BY <1>2, <1>3
  <2>2. CASE n = nick
    BY <1>1, <1>2, <2>1, <2>2
  <2>3. CASE n # nick
    BY <1>2, <1>3, <2>1, <2>3 DEF DbInv, LaterIsHigher
  <2> QED BY <2>2, <2>3
<1> QED BY <1>4, <1>5 DEF DbInv

\* Who leaves takes his number along, and is no longer before or after anybody.
LEMMA LeaveDb ==
  ASSUME DbInv, NEW nick \in GatewayNicks, userLeave(nick)
  PROVE  DbInv'
<1>1. Present' = Present \ {nick} /\ \A n \in Present' : user'[n] = user[n]
  BY DEF userLeave, Restrict, Present
<1>2. came' \subseteq came
  BY DEF userLeave, OrderWithout
<1> QED BY <1>1, <1>2 DEF DbInv, DbTypeOK, LaterIsHigher

\* Every step of the client keeps the invariant.
LEMMA DbInvKept == DbInv /\ [DbNext]_dbVars => DbInv'
<1> SUFFICES ASSUME DbInv, [DbNext]_dbVars PROVE DbInv'
  OBVIOUS
<1>1. CASE UNCHANGED <<user, came>>
  BY <1>1, KeepsDb
<1>2. ASSUME NEW nick \in GatewayNicks, NEW h \in Hosts, userJoin(nick, h) PROVE DbInv'
  BY <1>2, JoinDb
<1>3. ASSUME NEW nick \in GatewayNicks, userLeave(nick) PROVE DbInv'
  BY <1>3, LeaveDb
<1>4. CASE ChannelReset
  <2>1. Present' = {}
    BY <1>4 DEF ChannelReset, Present
  <2> QED BY <2>1 DEF DbInv, DbTypeOK, LaterIsHigher
<1> QED
  BY <1>1, <1>2, <1>3, <1>4
     DEF DbNext, dbVars, NowReady, TakeReply, UpdateRepeater, UpdateUser, NotFound,
         findGateway, findRepeater

\* Of the nicks of a gateway, getIPAddress takes the one with the highest number.
LEMMA HighestIsGiven ==
  ASSUME DbTypeOK, NEW n \in Present,
         \A m \in Present : m[1] = n[1] /\ m # n => user[m].usn < user[n].usn
  PROVE  getIPAddress(n[1]) = user[n].host
<1> DEFINE mine == {m \in Present : m[1] = n[1]}
           Leads(l) == \A m \in mine :
                         \/ user[m].usn < user[l].usn
                         \/ user[m].usn = user[l].usn /\ m[2] <= l[2]
           last == CHOOSE l \in mine : Leads(l)
<1>1. n \in mine /\ \A m \in mine : user[m].usn \in Nat /\ (m # n => user[m].usn < user[n].usn)
  BY DEF DbTypeOK
<1>2. n[2] <= n[2]
  <2>1. n[2] \in Sessions
    BY DEF DbTypeOK, GatewayNicks
  <2>2. n[2] \in Nat
    BY <2>1, IrcDatabaseAssumption
  <2> QED BY <2>2
<1>3. Leads(n)
  BY <1>1, <1>2
<1>4. \A l \in mine : Leads(l) => l = n
  BY <1>1
<1>5. getIPAddress(n[1]) = user[last].host
  BY <1>1 DEF getIPAddress
<1> HIDE DEF mine, Leads
<1>6. last = n
  BY <1>1, <1>3, <1>4
<1> QED BY <1>5, <1>6

\* A gateway's address is that of the nick that came last of those that are
\* there, whatever nicks have come, gone and come again.
THEOREM LastNickWins == DbSpec => []NewestWins
<1>1. DbInit => DbInv
  BY DEF DbInit, DbInv, DbTypeOK, LaterIsHigher, Present
<1>2. DbInv => NewestWins
  <2> SUFFICES ASSUME DbInv, NEW n \in Present,
                      \A m \in Present : m[1] = n[1] /\ m # n => <<m, n>> \in came
               PROVE  getIPAddress(n[1]) = user[n].host
    BY DEF NewestWins
  <2> QED BY HighestIsGiven DEF DbInv, LaterIsHigher
<1> QED BY <1>1, <1>2, DbInvKept, PTL DEF DbSpec

-----------------------------------------------------------------------------
(* AcceptedIsDone                                                          *)

ServerPackets == [what : {"LIN", "SHA", "LNK", "LOG", "GCS", "GRP", "GSN"}, arg : Nat]
ControlPackets == [what : {"RND", "ACK", "NAK", "CAL", "RPT", "SNT"}, arg : Nat]
Phases == {"START", "LOGIN", "HASH", "LINK", "OVER", "NORMAL", "GET REPEATERS", "GET STARNETS"}
Outcomes == {"NONE", "INVALID PASSWORD", "ACCEPTED", "REJECTED", "NO RESPONSE", "NAK", "NOT SENT", "CLOSED"}
Programs ==
  [phase : Phases, in : BOOLEAN, retry : Nat, last : ServerPackets \cup {Packet1("NONE", 0)},
   turns : Nat, item : Nat, done : SUBSET Nat,
   outcome : Outcomes]

RemoteTypeOK ==
  /\ kindOf \in [Controls -> {"DAEMON", "TIMER", "FRAME"}]
  /\ loggedIn \in BOOLEAN /\ random \in 0 .. Randoms
  /\ control \in [Controls -> Programs]
  /\ \A c \in Controls : control[c].phase # "START" => control[c].last \in ServerPackets
  /\ toServer \in [Controls -> Seq(ServerPackets)] /\ toControl \in [Controls -> Seq(ControlPackets)]

Within(q) == {q[i] : i \in 1 .. Len(q)}
NoAck(q) == \A i \in 1 .. Len(q) : q[i].what # "ACK"
OneAck(q) == \A i, j \in 1 .. Len(q) : q[i].what = "ACK" /\ q[j].what = "ACK" => i = j

\* A random number is known to the program it was sent to, and to no other.
Owned(c, x) == x.what \in {"RND", "SHA"} => x.arg <= random /\ (x.arg = random => address = c)
OwnNumbers ==
  \A c \in Controls : /\ Owned(c, control[c].last)
                      /\ \A x \in Within(toServer[c]) \cup Within(toControl[c]) : Owned(c, x)

\* A hash for this number is not acknowledged any more.
Spent(n) == n < random \/ (n = random /\ loggedIn)

\* A program that sends one command in a session.
OneCommand(c) == kindOf[c] = "DAEMON" \/ (kindOf[c] = "TIMER" /\ Items = 1)

BeforeHash(c) ==
  control[c].phase \in {"START", "LOGIN"} =>
    /\ control[c].last.what \in {"NONE", "LIN"}
    /\ \A x \in Within(toServer[c]) : x.what = "LIN"
    /\ NoAck(toControl[c])

HashSent(c) ==
  control[c].phase = "HASH" =>
    /\ control[c].last.what = "SHA"
    /\ \A x \in Within(toServer[c]) : x.what = "LIN" \/ x = control[c].last
    /\ OneAck(toControl[c])
    /\ NoAck(toControl[c]) \/ Spent(control[c].last.arg)

LinkSent(c) ==
  control[c].phase = "LINK" =>
    /\ control[c].last = Packet1("LNK", 1)
    /\ \A x \in Within(toServer[c]) :
         x.what = "LIN" \/ (x.what = "SHA" /\ Spent(x.arg)) \/ x = Packet1("LNK", 1)
    /\ NoAck(toControl[c]) \/ <<c, 1>> \in executed

Staged(c) ==
  /\ control[c].item = 1
  /\ BeforeHash(c) /\ HashSent(c) /\ LinkSent(c)
  /\ \A i \in control[c].done : <<c, i>> \in executed

RemoteInv ==
  /\ RemoteTypeOK /\ OwnNumbers
  /\ \A c \in Controls : OneCommand(c) => Staged(c)
  /\ \A c \in Controls :
       IF kindOf[c] = "FRAME" THEN control[c].done = {}
       ELSE control[c].phase \in {"START", "LOGIN", "HASH", "LINK", "OVER"}

-----------------------------------------------------------------------------
\* Nobody has started yet.
LEMMA InitRemote == RemoteInit => RemoteInv
<1> SUFFICES ASSUME RemoteInit PROVE RemoteInv
  OBVIOUS
<1>1. /\ kindOf \in [Controls -> {"DAEMON", "TIMER", "FRAME"}] /\ loggedIn = FALSE /\ random = 0
      /\ toServer = [c \in Controls |-> <<>>] /\ toControl = [c \in Controls |-> <<>>]
  BY DEF RemoteInit
<1>2. ASSUME NEW c \in Controls
      PROVE  /\ control[c] \in Programs /\ control[c].phase = "START" /\ control[c].item = 1
             /\ control[c].last = Packet1("NONE", 0) /\ control[c].done = {}
             /\ Within(toServer[c]) = {} /\ Within(toControl[c]) = {} /\ NoAck(toControl[c])
  <2>1. control[c] = [phase |-> "START", in |-> FALSE, retry |-> 0, last |-> Packet1("NONE", 0), turns |-> 0,
                      item |-> 1, done |-> {}, outcome |-> "NONE"]
    BY DEF RemoteInit
  <2>2. toServer[c] = <<>> /\ toControl[c] = <<>>
    BY <1>1
  <2>3. control[c] \in Programs
    BY <2>1 DEF Programs, Phases, Outcomes
  <2> QED BY <2>1, <2>2, <2>3 DEF Within, NoAck
<1>3. RemoteTypeOK
  <2>1. control \in [Controls -> Programs]
    <3>1. control = [c \in Controls |-> control[c]]
      BY DEF RemoteInit
    <3> QED BY <1>2, <3>1
  <2>2. random \in 0 .. Randoms
    BY <1>1, RemoteControlAssumption
  <2>3. /\ toServer \in [Controls -> Seq(ServerPackets)] /\ toControl \in [Controls -> Seq(ControlPackets)]
        /\ loggedIn \in BOOLEAN
    <3>1. <<>> \in Seq(ServerPackets) /\ <<>> \in Seq(ControlPackets)
      OBVIOUS
    <3> QED BY <1>1, <3>1
  <2> QED BY <1>1, <1>2, <2>1, <2>2, <2>3 DEF RemoteTypeOK
<1>4. OwnNumbers
  <2> USE DEF OwnNumbers
  <2> TAKE c \in Controls
  <2>1. control[c].last.what = "NONE" /\ Within(toServer[c]) = {} /\ Within(toControl[c]) = {}
    BY <1>2 DEF Packet1
  <2> QED BY <2>1 DEF Owned
<1>5. ASSUME NEW c \in Controls PROVE Staged(c)
  BY <1>2 DEF Staged, BeforeHash, HashSent, LinkSent, Packet1
<1> QED BY <1>2, <1>3, <1>4, <1>5 DEF RemoteInv

\* What a sequence holds after a packet was added to it, or taken from it.
LEMMA Added ==
  ASSUME NEW P, NEW q \in Seq(P), NEW x \in P
  PROVE  /\ Append(q, x) \in Seq(P) /\ Within(Append(q, x)) = Within(q) \cup {x}
         /\ (NoAck(q) /\ x.what # "ACK" => NoAck(Append(q, x)))
         /\ (OneAck(q) /\ x.what # "ACK" => OneAck(Append(q, x)))
         /\ (NoAck(q) => OneAck(Append(q, x)))
<1>1. /\ Append(q, x) \in Seq(P) /\ Len(Append(q, x)) = Len(q) + 1 /\ Len(q) \in Nat
      /\ Append(q, x)[Len(q) + 1] = x
      /\ \A i \in 1 .. Len(q) : Append(q, x)[i] = q[i]
  OBVIOUS
<1>2. \A i \in 1 .. Len(q) + 1 : i \in 1 .. Len(q) \/ i = Len(q) + 1
  BY <1>1
<1>3. Within(Append(q, x)) = Within(q) \cup {x}
  <2>1. \A i \in 1 .. Len(q) : i \in 1 .. Len(q) + 1
    BY <1>1
  <2>2. Len(q) + 1 \in 1 .. Len(q) + 1
    BY <1>1
  <2> QED BY <1>1, <1>2, <2>1, <2>2 DEF Within
<1> QED BY <1>1, <1>2, <1>3 DEF NoAck, OneAck

\* The first packet of a wire is taken; if it was the only acknowledgement, none is left.
LEMMA Taken ==
  ASSUME NEW P, NEW q \in Seq(P), q # <<>>
  PROVE  /\ Tail(q) \in Seq(P) /\ Head(q) \in P /\ Head(q) \in Within(q) /\ Within(Tail(q)) \subseteq Within(q)
         /\ (NoAck(q) => NoAck(Tail(q))) /\ (OneAck(q) => OneAck(Tail(q)))
         /\ (Head(q).what = "ACK" => ~NoAck(q) /\ (OneAck(q) => NoAck(Tail(q))))
<1>1. /\ Tail(q) \in Seq(P) /\ Head(q) \in P /\ Len(q) \in Nat /\ Len(q) > 0 /\ Len(Tail(q)) = Len(q) - 1
      /\ Head(q) = q[1] /\ \A i \in 1 .. Len(Tail(q)) : Tail(q)[i] = q[i + 1]
  OBVIOUS
<1>2. \A i \in 1 .. Len(Tail(q)) : i + 1 \in 1 .. Len(q) /\ i + 1 # 1
  BY <1>1
<1>3. 1 \in 1 .. Len(q)
  BY <1>1
<1>4. Head(q) \in Within(q) /\ Within(Tail(q)) \subseteq Within(q)
  BY <1>1, <1>2, <1>3 DEF Within
<1>5. (NoAck(q) => NoAck(Tail(q))) /\ (Head(q).what = "ACK" => ~NoAck(q))
  BY <1>1, <1>2, <1>3 DEF NoAck
<1>6. OneAck(q) => OneAck(Tail(q))
  <2> SUFFICES ASSUME OneAck(q), NEW i \in 1 .. Len(Tail(q)), NEW j \in 1 .. Len(Tail(q)),
                      Tail(q)[i].what = "ACK", Tail(q)[j].what = "ACK"
               PROVE  i = j
    BY DEF OneAck
  <2>1. i + 1 = j + 1
    BY <1>1, <1>2 DEF OneAck
  <2> QED BY <1>1, <2>1
<1>7. Head(q).what = "ACK" /\ OneAck(q) => NoAck(Tail(q))
  BY <1>1, <1>2, <1>3 DEF OneAck, NoAck
<1> QED BY <1>1, <1>4, <1>5, <1>6, <1>7

-----------------------------------------------------------------------------
\* The gateway.  What it does with a packet p of c, and what it answers to whom.
Answered(c, p, d, a) ==
  /\ d \in Controls /\ a \in ControlPackets /\ toControl' = [toControl EXCEPT ![d] = Append(@, a)]
  /\ a.what = "RND" => a.arg = random' /\ d = address'
  /\ a.what = "ACK" =>
       /\ random' = random /\ d = address
       /\ \/ p.what = "SHA" /\ p.arg = random /\ ~loggedIn /\ loggedIn'
          \/ p.what = "LNK" /\ c = d /\ <<c, p.arg>> \in executed'

Handled(c, p) ==
  /\ loggedIn' \in BOOLEAN /\ random' \in 0 .. Randoms /\ executed \subseteq executed'
  /\ \/ random' = random /\ address' = address
     \/ random' = random + 1 /\ address' = c /\ ~loggedIn'
  /\ loggedIn /\ ~loggedIn' => random' = random + 1 \/ (p.what = "LOG" /\ c = address)
  /\ toControl' = toControl \/ \E d, a : Answered(c, p, d, a)

\* An answer arrives or is lost.
LEMMA ToFacts ==
  ASSUME RemoteTypeOK, NEW d, NEW a \in ControlPackets, To(d, a)
  PROVE  toControl' = toControl \/ (d \in Controls /\ toControl' = [toControl EXCEPT ![d] = Append(@, a)])
<1>1. toControl' = toControl \/ (d \in Controls /\ toControl' = [toControl EXCEPT ![d] = @ \o <<a>>])
  BY DEF To, Sent
<1>2. d \in Controls => toControl[d] \o <<a>> = Append(toControl[d], a)
  BY DEF RemoteTypeOK
<1> QED BY <1>1, <1>2

\* A refusal, or what a program asks for.
LEMMA PlainAnswer ==
  ASSUME RemoteTypeOK, NEW c, NEW p, NEW what \in {"NAK", "CAL", "RPT", "SNT"},
         Reply(what, 0), UNCHANGED <<serverVars, executed>>
  PROVE  Handled(c, p)
<1> DEFINE a == Packet1(what, 0)
<1>1. a \in ControlPackets /\ a.what = what
  BY DEF Packet1, ControlPackets
<1>2. toControl' = toControl \/ (address \in Controls /\ toControl' = [toControl EXCEPT ![address] = Append(@, a)])
  BY <1>1, ToFacts DEF Reply
<1>3. toControl' = toControl \/ Answered(c, p, address, a)
  BY <1>1, <1>2 DEF Answered
<1> QED BY <1>3 DEF Handled, RemoteTypeOK, serverVars

\* Every packet that comes to the gateway.
LEMMA HandleFacts ==
  ASSUME RemoteTypeOK, NEW c \in Controls \cup {Stranger}, NEW p \in ServerPackets, Handle(c, p)
  PROVE  Handled(c, p)
<1>1. CASE NAK
  BY <1>1, PlainAnswer DEF NAK
<1>2. CASE p.what \in {"GCS", "GRP", "GSN"} /\ Answer(p.what)
  <2>1. PICK what \in {"NAK", "CAL", "RPT", "SNT"} : Reply(what, 0)
    BY <1>2 DEF Answer
  <2> QED BY <1>2, <2>1, PlainAnswer DEF Answer
<1>3. CASE Login(c)
  <2> DEFINE a == Packet1("RND", random + 1)
  <2>1. random + 1 \in 0 .. Randoms /\ random + 1 # random
    BY <1>3, RemoteControlAssumption DEF Login, RemoteTypeOK
  <2>2. a \in ControlPackets /\ a.what = "RND" /\ a.arg = random + 1
    BY <2>1 DEF Packet1, ControlPackets
  <2>3. toControl' = toControl \/ Answered(c, p, c, a)
    BY <1>3, <2>2, ToFacts DEF Login, Answered
  <2> QED BY <1>3, <2>1, <2>3 DEF Handled, Login
<1>4. CASE p.what = "SHA" /\ ~loggedIn /\ Hash(p.arg)
  <2> DEFINE a == Packet1(IF p.arg = random THEN "ACK" ELSE "NAK", 0)
  <2>1. loggedIn' = (p.arg = random) /\ UNCHANGED <<address, random, executed>>
    BY <1>4 DEF Hash
  <2>2. a \in ControlPackets /\ a.what = (IF p.arg = random THEN "ACK" ELSE "NAK")
    BY DEF Packet1, ControlPackets
  <2>3. toControl' = toControl \/ Answered(c, p, address, a)
    BY <1>4, <2>1, <2>2, ToFacts, ZenonT(60) DEF Hash, Reply, Answered
  <2> QED BY <1>4, <2>1, <2>3 DEF Handled, RemoteTypeOK
<1>5. CASE UNCHANGED <<serverVars, executed, toControl>>
  BY <1>5 DEF Handled, RemoteTypeOK, serverVars
<1>6. CASE p.what = "LNK" /\ loggedIn /\ c = address /\ Command(c, p.arg)
  <2>1. CASE NAK
    BY <2>1, <1>1
  <2>2. CASE /\ executed' = executed \cup ({c} \cap Controls) \X {p.arg}
             /\ Reply("ACK", 0) /\ UNCHANGED serverVars
    <3> DEFINE a == Packet1("ACK", 0)
    <3>1. a \in ControlPackets /\ a.what = "ACK"
      BY DEF Packet1, ControlPackets
    <3>2. c \in Controls => <<c, p.arg>> \in executed'
      BY <2>2
    <3>3. toControl' = toControl \/ Answered(c, p, address, a)
      BY <1>6, <2>2, <3>1, <3>2, ToFacts DEF Reply, Answered, serverVars
    <3> QED BY <2>2, <3>3 DEF Handled, RemoteTypeOK, serverVars
  <2> QED BY <1>6, <2>1, <2>2 DEF Command
<1>7. CASE p.what = "LOG" /\ loggedIn /\ c = address /\ Logout
  BY <1>7 DEF Handled, RemoteTypeOK, Logout
<1> QED
  BY <1>1, <1>2, <1>3, <1>4, <1>5, <1>6, <1>7 DEF Handle, HashWhileIn, ServerPackets

\* A number that is spent stays so, unless its own program logs off.
LEMMA SpentStays ==
  ASSUME RemoteInv, NEW c, NEW p, Handled(c, p), NEW d \in Controls, NEW n \in Nat,
         n = random => address = d, Spent(n), ~(c = d /\ p.what = "LOG")
  PROVE  Spent(n)'
<1>1. random \in Nat
  BY RemoteControlAssumption DEF RemoteInv, RemoteTypeOK
<1>2. CASE random' = random + 1
  BY <1>1, <1>2 DEF Spent
<1>3. CASE random' # random + 1
  BY <1>1, <1>3 DEF Handled, Spent
<1> QED BY <1>2, <1>3

\* The gateway takes a packet from its wire, or hears the stranger or a script.
LEMMA HandledKeeps ==
  ASSUME RemoteInv, NEW c \in Controls \cup {Stranger}, NEW p \in ServerPackets, Handled(c, p),
         UNCHANGED <<kindOf, control>>,
         toServer' \in [Controls -> Seq(ServerPackets)],
         \A d \in Controls : Within(toServer'[d]) \subseteq Within(toServer[d]),
         c \in Controls => p \in Within(toServer[c]),
         p.what = "SHA" /\ p.arg = random => address = c
  PROVE  RemoteInv'
<1>1. /\ RemoteTypeOK /\ OwnNumbers /\ random \in Nat /\ random' \in Nat
      /\ random' = random \/ random' = random + 1
  BY RemoteControlAssumption DEF RemoteInv, RemoteTypeOK, Handled
<1>2. ASSUME NEW d \in Controls
      PROVE  \/ toControl'[d] = toControl[d]
             \/ \E a : Answered(c, p, d, a) /\ toControl'[d] = Append(toControl[d], a)
  <2>1. ASSUME NEW e, NEW a, Answered(c, p, e, a)
        PROVE  \/ toControl'[d] = toControl[d]
               \/ e = d /\ toControl'[d] = Append(toControl[d], a)
    BY <1>1, <2>1 DEF Answered, RemoteTypeOK
  <2>2. CASE toControl' = toControl
    BY <2>2
  <2>3. CASE \E e, a : Answered(c, p, e, a)
    BY <2>1, <2>3
  <2> QED BY <2>2, <2>3 DEF Handled
<1>3. RemoteTypeOK'
  <2>1. toControl' \in [Controls -> Seq(ControlPackets)]
    <3>1. ASSUME NEW d, NEW a, Answered(c, p, d, a) PROVE toControl' \in [Controls -> Seq(ControlPackets)]
      <4>1. Append(toControl[d], a) \in Seq(ControlPackets)
        BY <1>1, <3>1 DEF Answered, RemoteTypeOK
      <4> QED BY <1>1, <3>1, <4>1 DEF Answered, RemoteTypeOK
    <3> QED BY <1>1, <3>1 DEF Handled, RemoteTypeOK
  <2> QED BY <1>1, <2>1 DEF RemoteTypeOK, Handled
<1>4. ASSUME NEW d \in Controls, NEW x \in ServerPackets \cup ControlPackets \cup {Packet1("NONE", 0)}, Owned(d, x)
      PROVE  Owned(d, x)'
  <2>1. x.what \in {"RND", "SHA"} => x.arg \in Nat
    BY DEF ServerPackets, ControlPackets, Packet1
  <2> QED BY <1>1, <1>4, <2>1 DEF Owned, Handled
<1>5. OwnNumbers'
  <2> SUFFICES ASSUME NEW d \in Controls
               PROVE  /\ Owned(d, control[d].last)'
                      /\ \A x \in Within(toServer'[d]) \cup Within(toControl'[d]) : Owned(d, x)'
    BY DEF OwnNumbers, Owned
  <2>1. /\ Owned(d, control[d].last) /\ control[d].last \in ServerPackets \cup {Packet1("NONE", 0)}
        /\ \A x \in Within(toServer[d]) : Owned(d, x) /\ x \in ServerPackets
        /\ \A x \in Within(toControl[d]) : Owned(d, x) /\ x \in ControlPackets
    <3>1. control[d] \in Programs /\ toServer[d] \in Seq(ServerPackets) /\ toControl[d] \in Seq(ControlPackets)
      BY <1>1 DEF RemoteTypeOK
    <3>2. Within(toServer[d]) \subseteq ServerPackets /\ Within(toControl[d]) \subseteq ControlPackets
      BY <3>1 DEF Within
    <3>3. control[d].last \in ServerPackets \cup {Packet1("NONE", 0)}
      BY <3>1 DEF Programs
    <3> QED BY <1>1, <3>2, <3>3 DEF OwnNumbers
  <2>2. ASSUME NEW x \in Within(toControl'[d]) PROVE Owned(d, x)'
    <3>1. CASE x \in Within(toControl[d])
      BY <1>4, <2>1, <3>1
    <3>2. ASSUME NEW a, Answered(c, p, d, a), toControl'[d] = Append(toControl[d], a)
          PROVE  Owned(d, x)'
      <4>1. a \in ControlPackets /\ toControl[d] \in Seq(ControlPackets)
        BY <1>1, <3>2 DEF Answered, RemoteTypeOK
      <4>2. x = a \/ x \in Within(toControl[d])
        BY <2>2, <3>2, <4>1, Added
      <4>3. a.what # "SHA"
        BY <4>1 DEF ControlPackets
      <4>4. x = a => Owned(d, x)'
        BY <1>1, <3>2, <4>3 DEF Answered, Owned
      <4> QED BY <3>1, <4>2, <4>4
    <3> QED BY <1>2, <2>2, <3>1, <3>2
  <2> QED BY <1>4, <2>1, <2>2
<1>6. ASSUME NEW d \in Controls, OneCommand(d)' PROVE Staged(d)'
  <2>1. OneCommand(d) /\ Staged(d)
    BY <1>6 DEF OneCommand, RemoteInv
  <2>2. /\ control'[d] = control[d] /\ executed \subseteq executed'
        /\ \A x \in Within(toServer'[d]) : x \in Within(toServer[d])
    BY DEF Handled
  <2>3. \A x \in Within(toServer[d]) : x \in ServerPackets /\ Owned(d, x)
    BY <1>1 DEF RemoteTypeOK, OwnNumbers, Within
  <2>4. toControl[d] \in Seq(ControlPackets)
    BY <1>1 DEF RemoteTypeOK
  <2>5. ASSUME NEW a, Answered(c, p, d, a), a.what = "ACK"
        PROVE  /\ c = d /\ p \in Within(toServer[d])
               /\ \/ p.what = "SHA" /\ ~Spent(p.arg) /\ Spent(p.arg)'
                  \/ p.what = "LNK" /\ <<d, p.arg>> \in executed'
    <3>1. /\ random' = random /\ d = address
          /\ \/ p.what = "SHA" /\ p.arg = random /\ ~loggedIn /\ loggedIn'
             \/ p.what = "LNK" /\ c = d /\ <<c, p.arg>> \in executed'
      BY <2>5 DEF Answered
    <3>2. c = d /\ p \in Within(toServer[d])
      BY <3>1
    <3>3. p.what = "SHA" => ~Spent(p.arg) /\ Spent(p.arg)'
      BY <1>1, <3>1 DEF Spent
    <3> QED BY <3>1, <3>2, <3>3
  <2>6. \/ NoAck(toControl[d]) => NoAck(toControl'[d])
        \/ \E a : Answered(c, p, d, a) /\ a.what = "ACK"
    <3>1. ASSUME NEW a, Answered(c, p, d, a), toControl'[d] = Append(toControl[d], a), a.what # "ACK"
          PROVE  NoAck(toControl[d]) => NoAck(toControl'[d])
      <4>1. a \in ControlPackets
        BY <3>1 DEF Answered
      <4> QED BY <2>4, <3>1, <4>1, Added
    <3> QED BY <1>2, <3>1
  <2>7. BeforeHash(d)'
    BY <2>1, <2>2, <2>5, <2>6 DEF Staged, BeforeHash
  <2>8. HashSent(d)'
    <3> SUFFICES ASSUME control[d].phase = "HASH" PROVE HashSent(d)'
      BY <2>2 DEF HashSent
    <3> DEFINE last == control[d].last
    <3>1. /\ last.what = "SHA" /\ OneAck(toControl[d]) /\ (NoAck(toControl[d]) \/ Spent(last.arg))
          /\ \A x \in Within(toServer[d]) : x.what = "LIN" \/ x = last
      BY <2>1 DEF Staged, HashSent
    <3>2. last \in ServerPackets /\ Owned(d, last) /\ last.arg \in Nat
      BY <1>1 DEF RemoteTypeOK, OwnNumbers, ServerPackets
    <3>3. Spent(last.arg) => Spent(last.arg)'
      BY <3>1, <3>2, SpentStays DEF Owned
    <3>4. OneAck(toControl'[d]) /\ (NoAck(toControl'[d]) \/ Spent(last.arg)')
      <4>1. CASE toControl'[d] = toControl[d]
        BY <3>1, <3>3, <4>1
      <4>2. ASSUME NEW a, Answered(c, p, d, a), toControl'[d] = Append(toControl[d], a)
            PROVE  OneAck(toControl'[d]) /\ (NoAck(toControl'[d]) \/ Spent(last.arg)')
        <5>1. a \in ControlPackets
          BY <4>2 DEF Answered
        <5>2. CASE a.what # "ACK"
          BY <2>4, <3>1, <3>3, <4>2, <5>1, <5>2, Added
        <5>3. CASE a.what = "ACK"
          <6>1. ~Spent(last.arg) /\ Spent(last.arg)'
            BY <2>5, <3>1, <4>2, <5>3
          <6> QED BY <2>4, <3>1, <4>2, <5>1, <6>1, Added
        <5> QED BY <5>2, <5>3
      <4> QED BY <1>2, <4>1, <4>2
    <3> QED BY <2>2, <3>1, <3>4 DEF HashSent
  <2>9. LinkSent(d)'
    <3> SUFFICES ASSUME control[d].phase = "LINK" PROVE LinkSent(d)'
      BY <2>2 DEF LinkSent
    <3>1. /\ control[d].last = Packet1("LNK", 1) /\ (NoAck(toControl[d]) \/ <<d, 1>> \in executed)
          /\ \A x \in Within(toServer[d]) :
               x.what = "LIN" \/ (x.what = "SHA" /\ Spent(x.arg)) \/ x = Packet1("LNK", 1)
      BY <2>1 DEF Staged, LinkSent
    <3>2. \A x \in Within(toServer[d]) : x.what = "SHA" /\ Spent(x.arg) => Spent(x.arg)'
      <4> TAKE x \in Within(toServer[d])
      <4> HAVE x.what = "SHA" /\ Spent(x.arg)
      <4>1. x.arg \in Nat /\ (x.arg = random => address = d)
        BY <2>3 DEF ServerPackets, Owned
      <4>2. ~(c = d /\ p.what = "LOG")
        BY <3>1 DEF Packet1
      <4> QED BY <4>1, <4>2, SpentStays
    <3>3. ASSUME NEW a, Answered(c, p, d, a), a.what = "ACK" PROVE <<d, 1>> \in executed'
      BY <2>5, <3>1, <3>3, SMTT(60) DEF Packet1
    <3> QED BY <2>2, <2>6, <3>1, <3>2, <3>3 DEF LinkSent
  <2> QED BY <2>1, <2>2, <2>7, <2>8, <2>9 DEF Staged
<1>7. \A d \in Controls : IF kindOf'[d] = "FRAME" THEN control'[d].done = {}
                           ELSE control'[d].phase \in {"START", "LOGIN", "HASH", "LINK", "OVER"}
  BY DEF RemoteInv
<1> QED BY <1>3, <1>5, <1>6, <1>7 DEF RemoteInv

-----------------------------------------------------------------------------
\* The programs.  A step of c, which may have read a packet.
MayRead(c) == toControl' = toControl \/ Read(c)

Acts(c) ==
  /\ control' = [control EXCEPT ![c] = control'[c]] /\ control'[c] \in Programs
  /\ control'[c].phase # "START" => control'[c].last \in ServerPackets
  /\ toServer' \in [Controls -> Seq(ServerPackets)]
  /\ \A d \in Controls \ {c} : toServer'[d] = toServer[d]
  /\ \A x \in Within(toServer'[c]) :
       x \in Within(toServer[c]) \/ x = control'[c].last \/ (x.what = "LOG" /\ control'[c].phase = "OVER")

\* It is then the program r, as far as the invariant goes.
Is(c, r) ==
  /\ control'[c].phase = r.phase /\ control'[c].last = r.last
  /\ control'[c].item = r.item /\ control'[c].done = r.done

\* How a program with one command gets on.
Moved(c) ==
  LET r == control[c] s == control'[c]
  IN /\ s.item = r.item
     /\ \/ s.done = r.done /\ s.phase = r.phase /\ s.last = r.last
        \/ s.done = r.done /\ s.phase = "OVER"
        \/ s.done = r.done /\ r.phase = "START" /\ s.phase = "LOGIN" /\ s.last = Packet1("LIN", 0)
        \/ s.done = r.done /\ r.phase = "LOGIN" /\ s.phase = "HASH" /\ s.last.what = "SHA"
        \/ /\ s.done = r.done /\ r.phase = "HASH" /\ s.phase = "LINK" /\ s.last = Packet1("LNK", r.item)
           /\ Read(c) /\ Got(c).what = "ACK"
        \/ /\ s.done = r.done \cup {r.item} /\ r.phase = "LINK" /\ s.phase = "OVER"
           /\ Read(c) /\ Got(c).what = "ACK"

\* A step that keeps to the rules of the protocol.
Plays(c) ==
  /\ Acts(c) /\ Owned(c, control'[c].last)
  /\ IF kindOf[c] = "FRAME" THEN control'[c].done = {}
     ELSE control'[c].phase \in {"START", "LOGIN", "HASH", "LINK", "OVER"}
  /\ OneCommand(c) => Moved(c)

\* Such a step keeps the invariant.
LEMMA PlaysKeeps ==
  ASSUME RemoteInv, NEW c \in Controls, Plays(c), MayRead(c), UNCHANGED <<kindOf, serverVars, executed>>
  PROVE  RemoteInv'
<1>1. /\ RemoteTypeOK /\ OwnNumbers /\ Acts(c)
      /\ kindOf' = kindOf /\ loggedIn' = loggedIn /\ address' = address /\ random' = random /\ executed' = executed
  BY DEF RemoteInv, Plays, serverVars
<1>2. \A d \in Controls \ {c} : control'[d] = control[d] /\ toServer'[d] = toServer[d]
  BY <1>1 DEF Acts, RemoteTypeOK
<1>3. /\ toControl' \in [Controls -> Seq(ControlPackets)]
      /\ \A d \in Controls \ {c} : toControl'[d] = toControl[d]
      /\ Within(toControl'[c]) \subseteq Within(toControl[c])
      /\ NoAck(toControl[c]) => NoAck(toControl'[c])
      /\ OneAck(toControl[c]) => OneAck(toControl'[c])
  <2>1. toControl[c] \in Seq(ControlPackets)
    BY <1>1 DEF RemoteTypeOK
  <2>2. CASE toControl' = toControl
    BY <1>1, <2>2 DEF RemoteTypeOK
  <2>3. CASE Read(c)
    <3>1. toControl[c] # <<>> /\ toControl' = [toControl EXCEPT ![c] = Tail(@)]
      BY <2>3 DEF Read
    <3>2. /\ Tail(toControl[c]) \in Seq(ControlPackets)
          /\ Within(Tail(toControl[c])) \subseteq Within(toControl[c])
          /\ (NoAck(toControl[c]) => NoAck(Tail(toControl[c])))
          /\ (OneAck(toControl[c]) => OneAck(Tail(toControl[c])))
      BY <2>1, <3>1, Taken
    <3>3. toControl'[c] = Tail(toControl[c]) /\ \A d \in Controls \ {c} : toControl'[d] = toControl[d]
      BY <1>1, <3>1 DEF RemoteTypeOK
    <3> QED BY <1>1, <3>1, <3>2, <3>3 DEF RemoteTypeOK
  <2> QED BY <2>2, <2>3 DEF MayRead
<1>4. RemoteTypeOK'
  <2>1. control' \in [Controls -> Programs]
    BY <1>1 DEF Acts, RemoteTypeOK
  <2>2. \A d \in Controls : control'[d].phase # "START" => control'[d].last \in ServerPackets
    BY <1>1, <1>2 DEF Acts, RemoteTypeOK
  <2> QED BY <1>1, <1>3, <2>1, <2>2 DEF RemoteTypeOK, Acts
<1>5. OwnNumbers'
  <2>1. \A d, x : Owned(d, x) => Owned(d, x)'
    BY <1>1 DEF Owned
  <2> SUFFICES ASSUME NEW d \in Controls
               PROVE  /\ Owned(d, control[d].last)'
                      /\ \A x \in Within(toServer'[d]) \cup Within(toControl'[d]) : Owned(d, x)'
    BY DEF OwnNumbers, Owned
  <2>2. CASE d # c
    BY <1>1, <1>2, <1>3, <2>1, <2>2 DEF OwnNumbers, Owned
  <2>3. CASE d = c
    <3>1. Owned(c, control'[c].last)
      BY DEF Plays
    <3>2. Owned(d, control[d].last)'
      BY <1>1, <2>3, <3>1 DEF Owned
    <3>3. \A x \in Within(toServer'[c]) \cup Within(toControl'[c]) : Owned(c, x)
      <4>1. \A x \in Within(toServer[c]) \cup Within(toControl[c]) : Owned(c, x)
        BY <1>1 DEF OwnNumbers
      <4>2. \A x : x.what = "LOG" => Owned(c, x)
        BY DEF Owned
      <4> QED BY <1>1, <1>3, <3>1, <4>1, <4>2 DEF Acts
    <3> QED BY <2>1, <2>3, <3>2, <3>3
  <2> QED BY <2>2, <2>3
<1>6. ASSUME NEW d \in Controls, OneCommand(d)' PROVE Staged(d)'
  <2>1. OneCommand(d) /\ Staged(d)
    BY <1>1, <1>6 DEF OneCommand, RemoteInv
  <2>2. CASE d # c
    BY <1>1, <1>2, <1>3, <2>1, <2>2 DEF Staged, BeforeHash, HashSent, LinkSent, Spent
  <2>3. CASE d = c
    <3>1. Moved(c) /\ Staged(c)
      BY <2>1, <2>3 DEF Plays
    <3>2. ASSUME Read(c), Got(c).what = "ACK"
          PROVE  ~NoAck(toControl[c]) /\ (OneAck(toControl[c]) => NoAck(toControl'[c]))
      <4>1. /\ toControl[c] \in Seq(ControlPackets) /\ toControl[c] # <<>>
            /\ toControl'[c] = Tail(toControl[c]) /\ Head(toControl[c]).what = "ACK"
        BY <1>1, <3>2 DEF Read, Got, RemoteTypeOK
      <4> QED BY <4>1, Taken
    <3>3. BeforeHash(c)'
      <4> SUFFICES ASSUME control'[c].phase \in {"START", "LOGIN"} PROVE BeforeHash(c)'
        BY DEF BeforeHash
      <4>1. /\ control[c].phase \in {"START", "LOGIN"}
            /\ control'[c].last = control[c].last \/ control'[c].last = Packet1("LIN", 0)
        BY <3>1 DEF Moved
      <4>2. /\ control[c].last.what \in {"NONE", "LIN"} /\ NoAck(toControl[c])
            /\ \A x \in Within(toServer[c]) : x.what = "LIN"
        BY <3>1, <4>1 DEF Staged, BeforeHash
      <4>3. control'[c].last.what \in {"NONE", "LIN"}
        BY <4>1, <4>2 DEF Packet1
      <4>4. \A x \in Within(toServer'[c]) : x.what = "LIN"
        <5>1. \A x \in Within(toServer'[c]) : x.what # "NONE"
          <6>1. toServer'[c] \in Seq(ServerPackets)
            BY <1>4 DEF RemoteTypeOK
          <6>2. \A x \in Within(toServer'[c]) : x \in ServerPackets
            BY <6>1 DEF Within
          <6> QED BY <6>2 DEF ServerPackets
        <5>2. control'[c].phase # "OVER"
          OBVIOUS
        <5> QED BY <1>1, <4>2, <4>3, <5>1, <5>2 DEF Acts
      <4> QED BY <1>3, <4>2, <4>3, <4>4 DEF BeforeHash
    <3>4. HashSent(c)'
      BY <1>1, <1>3, <3>1 DEF Acts, Moved, Staged, BeforeHash, HashSent, NoAck, OneAck, Spent
    <3>5. LinkSent(c)'
      BY <1>1, <1>3, <3>1, <3>2 DEF Acts, Moved, Staged, HashSent, LinkSent, Spent
    <3>6. control'[c].item = 1 /\ \A i \in control'[c].done : <<c, i>> \in executed
      BY <3>1, <3>2 DEF Moved, Staged, LinkSent
    <3> QED BY <1>1, <2>3, <3>3, <3>4, <3>5, <3>6 DEF Staged
  <2> QED BY <2>2, <2>3
<1>7. \A d \in Controls : IF kindOf'[d] = "FRAME" THEN control'[d].done = {}
                           ELSE control'[d].phase \in {"START", "LOGIN", "HASH", "LINK", "OVER"}
  BY <1>1, <1>2 DEF RemoteInv, Plays
<1> QED BY <1>4, <1>5, <1>6, <1>7 DEF RemoteInv

-----------------------------------------------------------------------------
\* A request is sent, for the first time or again, or nothing is.
LEMMA SendActs ==
  ASSUME RemoteTypeOK, NEW c \in Controls, NEW r \in Programs, r.phase # "START" => r.last \in ServerPackets,
         NEW p \in ServerPackets, p = r.last, Becomes(c, r),
         toServer' \in Sent(toServer, c, <<p>>) \/ UNCHANGED toServer
  PROVE  Acts(c) /\ Is(c, r)
<1>1. control'[c] = r /\ control' = [control EXCEPT ![c] = r]
  BY DEF Becomes, RemoteTypeOK
<1>2. toServer[c] \in Seq(ServerPackets)
  BY DEF RemoteTypeOK
<1>3. toServer' = toServer \/ toServer' = [toServer EXCEPT ![c] = Append(toServer[c], p)]
  <2>1. toServer[c] \o <<p>> = Append(toServer[c], p)
    BY <1>2
  <2> QED BY <2>1 DEF Sent
<1>4. Append(toServer[c], p) \in Seq(ServerPackets) /\ Within(Append(toServer[c], p)) = Within(toServer[c]) \cup {p}
  BY <1>2, Added
<1>5. CASE toServer' = toServer
  BY <1>1, <1>5 DEF Acts, Is, RemoteTypeOK
<1>6. CASE toServer' = [toServer EXCEPT ![c] = Append(toServer[c], p)]
  <2>1. /\ toServer' \in [Controls -> Seq(ServerPackets)] /\ toServer'[c] = Append(toServer[c], p)
        /\ \A d \in Controls \ {c} : toServer'[d] = toServer[d]
    BY <1>4, <1>6 DEF RemoteTypeOK
  <2> QED BY <1>1, <1>4, <2>1 DEF Acts, Is
<1> QED BY <1>3, <1>5, <1>6

\* Nothing is sent.
LEMMA IdleActs ==
  ASSUME RemoteTypeOK, NEW c \in Controls, NEW r \in Programs, r.last \in ServerPackets, Idle(c, r)
  PROVE  Acts(c) /\ Is(c, r)
BY SendActs DEF Idle

\* The next request.
LEMMA AskActs ==
  ASSUME RemoteTypeOK, NEW c \in Controls, NEW r \in Programs, NEW phase \in Phases, NEW p \in ServerPackets,
         Ask(c, r, phase, p)
  PROVE  /\ Acts(c) /\ control'[c].phase = phase /\ control'[c].last = p
         /\ control'[c].item = r.item /\ control'[c].done = r.done
<1> DEFINE s == Asking(r, phase, p)
<1>1. s \in Programs /\ s.phase = phase /\ s.last = p /\ s.item = r.item /\ s.done = r.done
  BY DEF Asking, Programs
<1>2. Acts(c) /\ Is(c, s)
  <2> HIDE DEF s
  <2>1. Becomes(c, s) /\ toServer' \in Sent(toServer, c, <<p>>)
    BY DEF Ask, s
  <2> QED BY <1>1, <2>1, SendActs
<1> QED BY <1>1, <1>2 DEF Is

\* The last request once more, or no more.
LEMMA RetryActs ==
  ASSUME RemoteTypeOK, NEW c \in Controls, NEW r \in Programs, r.last \in ServerPackets, Retry(c, r)
  PROVE  Acts(c) /\ Is(c, r)
<1>1. CASE Idle(c, r)
  BY <1>1, IdleActs
<1>2. CASE Idle(c, [r EXCEPT !.retry = 0])
  <2>1. [r EXCEPT !.retry = 0] \in Programs
    BY DEF Programs
  <2> QED BY <1>2, <2>1, IdleActs DEF Is, Programs
<1>3. CASE Becomes(c, [r EXCEPT !.retry = @ + 1]) /\ toServer' \in Sent(toServer, c, <<r.last>>)
  <2>1. r.retry + 1 \in Nat
    <3>1. r.retry \in Nat
      BY DEF Programs
    <3> QED BY <3>1
  <2>2. [r EXCEPT !.retry = @ + 1] \in Programs
    BY <2>1 DEF Programs
  <2> QED BY <1>3, <2>2, SendActs DEF Is, Programs
<1> QED BY <1>1, <1>2, <1>3 DEF Retry

\* The packets of a logout.
LEMMA LogOffActs ==
  ASSUME RemoteTypeOK, NEW c \in Controls, NEW r \in Programs, r.last \in ServerPackets, r.phase = "OVER", LogOff(c, r)
  PROVE  Acts(c) /\ Is(c, r)
<1> DEFINE log == Packet1("LOG", 0)
<1>1. control'[c] = r /\ control' = [control EXCEPT ![c] = r]
  BY DEF LogOff, Becomes, RemoteTypeOK
<1>2. log \in ServerPackets /\ log.what = "LOG" /\ toServer[c] \in Seq(ServerPackets)
  BY DEF Packet1, ServerPackets, RemoteTypeOK
<1>3. PICK k \in 1 .. 2 : toServer' \in Sent(toServer, c, [i \in 1 .. k |-> log])
  BY DEF LogOff
<1> HIDE DEF log
<1> DEFINE ps == [i \in 1 .. k |-> log]
<1>4. /\ ps \in Seq(ServerPackets) /\ toServer[c] \o ps \in Seq(ServerPackets) /\ Len(ps) = k
      /\ \A i \in 1 .. Len(toServer[c] \o ps) :
           (toServer[c] \o ps)[i] = log \/ (i \in 1 .. Len(toServer[c]) /\ (toServer[c] \o ps)[i] = toServer[c][i])
  BY <1>2
<1>5. \A x \in Within(toServer[c] \o ps) : x = log \/ x \in Within(toServer[c])
  BY <1>4 DEF Within
<1>6. toServer' = toServer \/ toServer' = [toServer EXCEPT ![c] = toServer[c] \o ps]
  BY <1>3 DEF Sent
<1> HIDE DEF ps
<1>7. CASE toServer' = toServer
  BY <1>1, <1>7 DEF Acts, Is, RemoteTypeOK
<1>8. CASE toServer' = [toServer EXCEPT ![c] = toServer[c] \o ps]
  <2>1. /\ toServer' \in [Controls -> Seq(ServerPackets)] /\ toServer'[c] = toServer[c] \o ps
        /\ \A d \in Controls \ {c} : toServer'[d] = toServer[d]
    BY <1>4, <1>8 DEF RemoteTypeOK
  <2> QED BY <1>1, <1>2, <1>5, <2>1 DEF Acts, Is
<1> QED BY <1>6, <1>7, <1>8
-----------------------------------------------------------------------------
\* The programs' steps.  What a step starts from: a running program, with or
\* without a packet just read.
Base(c, r) ==
  /\ r \in Programs /\ r.phase \notin {"START", "OVER"} /\ r.last \in ServerPackets
  /\ r.phase = control[c].phase /\ r.last = control[c].last /\ r.item = control[c].item /\ r.done = control[c].done

\* A running program is one, and so it is with a packet read.
LEMMA BaseFacts ==
  ASSUME RemoteInv, NEW c \in Controls, Running1(c)
  PROVE  Base(c, control[c]) /\ Base(c, After1(c))
<1>1. control[c] \in Programs /\ control[c].last \in ServerPackets /\ control[c].phase \notin {"START", "OVER"}
  BY DEF RemoteInv, RemoteTypeOK, Running1
<1>2. After1(c) \in Programs
  BY <1>1 DEF After1, Programs
<1> QED BY <1>1, <1>2 DEF Base, After1, Programs

\* The program stays as it is, or ends.
LEMMA RestPlays ==
  ASSUME RemoteInv, NEW c \in Controls, NEW r \in Programs, Acts(c), Is(c, r),
         r.last = control[c].last, r.item = control[c].item, r.done = control[c].done,
         \/ r.phase = control[c].phase \/ r.phase = "OVER" \/ kindOf[c] = "FRAME"
  PROVE  Plays(c)
<1>1. Owned(c, control'[c].last)
  BY DEF RemoteInv, OwnNumbers, Is
<1>2. kindOf[c] = "FRAME" => ~OneCommand(c) /\ control[c].done = {}
  BY DEF OneCommand, RemoteInv
<1>3. kindOf[c] # "FRAME" => Moved(c) /\ control'[c].phase \in {"START", "LOGIN", "HASH", "LINK", "OVER"}
  BY DEF Moved, Is, RemoteInv
<1> QED BY <1>1, <1>2, <1>3 DEF Plays, Is

\* The program answers the random number, and asks the gateway for something.
LEMMA HashPlays ==
  ASSUME RemoteInv, NEW c \in Controls, NEW r, Base(c, r), Read(c), Got(c).what = "RND",
         r.phase = "LOGIN" \/ kindOf[c] = "FRAME",
         Ask(c, r, "HASH", Packet1("SHA", Got(c).arg))
  PROVE  Plays(c)
<1> DEFINE p == Packet1("SHA", Got(c).arg)
<1>1. toControl[c] \in Seq(ControlPackets) /\ toControl[c] # <<>> /\ Got(c) = Head(toControl[c])
  BY DEF RemoteInv, RemoteTypeOK, Read, Got
<1>2. Got(c) \in ControlPackets /\ Got(c) \in Within(toControl[c])
  BY <1>1, Taken
<1>3. p \in ServerPackets /\ p.what = "SHA" /\ p.arg = Got(c).arg
  BY <1>2 DEF Packet1, ControlPackets, ServerPackets
<1>4. Owned(c, p)
  BY <1>2, <1>3 DEF RemoteInv, OwnNumbers, Owned
<1>5. r \in Programs /\ "HASH" \in Phases /\ RemoteTypeOK
  BY DEF Base, Phases, RemoteInv
<1>6. /\ Acts(c) /\ control'[c].phase = "HASH" /\ control'[c].last = p
      /\ control'[c].item = r.item /\ control'[c].done = r.done
  BY <1>3, <1>5, AskActs
<1>7. kindOf[c] = "FRAME" => ~OneCommand(c) /\ control[c].done = {}
  BY DEF OneCommand, RemoteInv
<1>8. kindOf[c] # "FRAME" => Moved(c)
  BY <1>3, <1>6 DEF Moved, Base
<1> QED BY <1>4, <1>6, <1>7, <1>8 DEF Plays, Base

\* A request without a number, of a program of several commands or of one.
LEMMA AskPlays ==
  ASSUME RemoteInv, NEW c \in Controls, NEW r \in Programs, NEW phase \in Phases, NEW p \in ServerPackets,
         Ask(c, r, phase, p), p = control[c].last \/ p.what # "SHA",
         IF kindOf[c] = "FRAME" THEN r.done = control[c].done
         ELSE phase \in {"START", "LOGIN", "HASH", "LINK", "OVER"},
         OneCommand(c) =>
           /\ r.item = control[c].item /\ r.done = control[c].done
           /\ \/ phase = control[c].phase /\ p = control[c].last
              \/ control[c].phase = "START" /\ phase = "LOGIN" /\ p = Packet1("LIN", 0)
              \/ /\ control[c].phase = "HASH" /\ phase = "LINK" /\ p = Packet1("LNK", control[c].item)
                 /\ Read(c) /\ Got(c).what = "ACK"
  PROVE  Plays(c)
<1>1. /\ Acts(c) /\ control'[c].phase = phase /\ control'[c].last = p
      /\ control'[c].item = r.item /\ control'[c].done = r.done
  BY AskActs DEF RemoteInv
<1>2. Owned(c, p)
  <2>1. p.what # "RND"
    BY DEF ServerPackets
  <2> QED BY <2>1 DEF RemoteInv, OwnNumbers, Owned
<1>3. OneCommand(c) => Moved(c)
  BY <1>1 DEF Moved
<1>4. kindOf[c] = "FRAME" => control[c].done = {}
  BY DEF RemoteInv
<1> QED BY <1>1, <1>2, <1>3, <1>4 DEF Plays
\* A daemon or a timer ends, its command acknowledged or not.
LEMMA EndPlays ==
  ASSUME RemoteInv, NEW c \in Controls, NEW r \in Programs, Acts(c), Is(c, r), kindOf[c] # "FRAME",
         r.phase = "OVER", r.last = control[c].last,
         OneCommand(c) =>
           /\ r.item = control[c].item
           /\ \/ r.done = control[c].done
              \/ /\ r.done = control[c].done \cup {control[c].item} /\ control[c].phase = "LINK"
                 /\ Read(c) /\ Got(c).what = "ACK"
  PROVE  Plays(c)
<1>1. Owned(c, control'[c].last)
  BY DEF RemoteInv, OwnNumbers, Is
<1>2. OneCommand(c) => Moved(c)
  BY DEF Moved, Is
<1> QED BY <1>1, <1>2 DEF Plays, Is

\* What can be made of a program's fields.
LEMMA FieldFacts ==
  ASSUME NEW r \in Programs
  PROVE  /\ \A o \in Outcomes :
              LET s == Over1(r, o)
              IN s \in Programs /\ s.phase = "OVER" /\ s.last = r.last /\ s.item = r.item /\ s.done = r.done
         /\ \A b \in BOOLEAN :
              LET s == [r EXCEPT !.in = b]
              IN /\ s \in Programs /\ s.phase = r.phase /\ s.last = r.last /\ s.item = r.item /\ s.done = r.done
         /\ LET s == [r EXCEPT !.turns = @ + 1]
            IN s \in Programs /\ s.phase = r.phase /\ s.last = r.last /\ s.item = r.item /\ s.done = r.done
         /\ LET s == Done(r)
            IN s \in Programs /\ s.phase = r.phase /\ s.last = r.last /\ s.item = r.item /\ s.done = r.done \cup {r.item}
         /\ LET s == [r EXCEPT !.item = @ + 1]
            IN s \in Programs /\ s.phase = r.phase /\ s.last = r.last /\ s.item = r.item + 1 /\ s.done = r.done
         /\ \A phase \in Phases :
              LET s == [r EXCEPT !.phase = phase]
              IN s \in Programs /\ s.phase = phase /\ s.last = r.last /\ s.item = r.item /\ s.done = r.done
<1>1. r.turns \in Nat /\ r.item \in Nat /\ r.done \in SUBSET Nat
  BY DEF Programs
<1>2. r.turns + 1 \in Nat /\ r.item + 1 \in Nat /\ r.done \cup {r.item} \in SUBSET Nat
  BY <1>1
<1>3. \A o \in Outcomes :
        LET s == Over1(r, o)
        IN s \in Programs /\ s.phase = "OVER" /\ s.last = r.last /\ s.item = r.item /\ s.done = r.done
  BY DEF Over1, Programs, Phases, Outcomes
<1>4. \A b \in BOOLEAN :
        LET s == [r EXCEPT !.in = b]
        IN s \in Programs /\ s.phase = r.phase /\ s.last = r.last /\ s.item = r.item /\ s.done = r.done
  BY DEF Programs
<1>5. LET s == [r EXCEPT !.turns = @ + 1]
      IN s \in Programs /\ s.phase = r.phase /\ s.last = r.last /\ s.item = r.item /\ s.done = r.done
  BY <1>2 DEF Programs
<1>6. LET s == Done(r)
      IN s \in Programs /\ s.phase = r.phase /\ s.last = r.last /\ s.item = r.item /\ s.done = r.done \cup {r.item}
  BY <1>2 DEF Done, Programs
<1>7. LET s == [r EXCEPT !.item = @ + 1]
      IN s \in Programs /\ s.phase = r.phase /\ s.last = r.last /\ s.item = r.item + 1 /\ s.done = r.done
  BY <1>2 DEF Programs
<1>8. \A phase \in Phases :
        LET s == [r EXCEPT !.phase = phase]
        IN s \in Programs /\ s.phase = phase /\ s.last = r.last /\ s.item = r.item /\ s.done = r.done
  BY DEF Programs
<1> QED BY <1>3, <1>4, <1>5, <1>6, <1>7, <1>8

\* The daemon with an answer.
LEMMA DaemonReads ==
  ASSUME RemoteInv, NEW c \in Controls, kindOf[c] = "DAEMON", Running1(c), Read(c),
         DaemonGot(c, After1(c), Got(c).what, Got(c).arg)
  PROVE  Plays(c)
<1> DEFINE r == After1(c)
<1>1. Base(c, r) /\ RemoteTypeOK
  BY BaseFacts DEF RemoteInv
<1>2. r \in Programs /\ r.last \in ServerPackets /\ r.last = control[c].last /\ r.phase = control[c].phase
      /\ r.item = control[c].item /\ r.done = control[c].done
  BY <1>1 DEF Base
<1> HIDE DEF r
<1>3. CASE r.phase = "LOGIN" /\ Got(c).what = "RND" /\ Ask(c, r, "HASH", Packet1("SHA", Got(c).arg))
  BY <1>1, <1>3, HashPlays
<1>4. CASE r.phase = "HASH" /\ Got(c).what = "ACK" /\ Ask(c, [r EXCEPT !.in = TRUE], "LINK", Link(r))
  <2> DEFINE s == [r EXCEPT !.in = TRUE]
  <2>1. s \in Programs /\ s.item = r.item /\ s.done = r.done
    BY <1>2, FieldFacts
  <2>2. Link(r) \in ServerPackets /\ Link(r).what = "LNK" /\ Link(r) = Packet1("LNK", r.item) /\ "LINK" \in Phases
    BY <1>2 DEF Link, Packet1, ServerPackets, Programs, Phases
  <2> HIDE DEF s
  <2>3. Ask(c, s, "LINK", Link(r))
    BY <1>4 DEF s
  <2> QED BY <1>2, <1>4, <2>1, <2>2, <2>3, AskPlays
<1>5. ASSUME NEW o \in {"INVALID PASSWORD", "REJECTED", "NO RESPONSE"}, Idle(c, Over1(r, o)) PROVE Plays(c)
  <2> DEFINE s == Over1(r, o)
  <2>1. s \in Programs /\ s.phase = "OVER" /\ s.last = r.last /\ s.item = r.item /\ s.done = r.done
    <3>1. o \in Outcomes
      BY <1>5 DEF Outcomes
    <3> QED BY <1>2, <3>1, FieldFacts
  <2> HIDE DEF s
  <2>2. Idle(c, s)
    BY <1>5 DEF s
  <2> QED BY <1>1, <1>2, <2>1, <2>2, IdleActs, RestPlays
<1>6. CASE r.phase = "LINK" /\ Got(c).what = "ACK" /\ LogOff(c, Over1(Done(r), "ACCEPTED"))
  <2> DEFINE d == Done(r) s == Over1(d, "ACCEPTED")
  <2>1. d \in Programs /\ d.phase = r.phase /\ d.last = r.last /\ d.item = r.item /\ d.done = r.done \cup {r.item}
    BY <1>2, FieldFacts
  <2> HIDE DEF d
  <2>2. s \in Programs /\ s.phase = "OVER" /\ s.last = d.last /\ s.item = d.item /\ s.done = d.done
    BY <2>1, FieldFacts DEF Outcomes
  <2>3. LogOff(c, s)
    BY <1>6 DEF d
  <2> HIDE DEF s
  <2>4. Acts(c) /\ Is(c, s)
    BY <1>1, <1>2, <2>1, <2>2, <2>3, LogOffActs
  <2> QED BY <1>2, <1>6, <2>1, <2>2, <2>4, EndPlays
<1>7. CASE Idle(c, [r EXCEPT !.turns = @ + 1])
  <2> DEFINE s == [r EXCEPT !.turns = @ + 1]
  <2>1. s \in Programs /\ s.phase = r.phase /\ s.last = r.last /\ s.item = r.item /\ s.done = r.done
    BY <1>2, FieldFacts
  <2> HIDE DEF s
  <2>2. Idle(c, s)
    BY <1>7 DEF s
  <2> QED BY <1>1, <1>2, <2>1, <2>2, IdleActs, RestPlays
<1> QED BY <1>3, <1>4, <1>5, <1>6, <1>7 DEF DaemonGot, r

\* The daemon without one.
LEMMA DaemonWaits ==
  ASSUME RemoteInv, NEW c \in Controls, kindOf[c] = "DAEMON", Running1(c), DaemonNone(c, control[c])
  PROVE  Plays(c)
<1> DEFINE r == control[c]
<1>1. Base(c, r) /\ RemoteTypeOK
  BY BaseFacts DEF RemoteInv
<1>2. r \in Programs /\ r.last \in ServerPackets
  BY <1>1 DEF Base
<1>3. CASE Retry(c, Over1(r, "NO RESPONSE"))
  <2> DEFINE s == Over1(r, "NO RESPONSE")
  <2>1. s \in Programs /\ s.phase = "OVER" /\ s.last = r.last /\ s.item = r.item /\ s.done = r.done
    BY <1>2, FieldFacts DEF Outcomes
  <2> HIDE DEF s
  <2>2. Retry(c, s)
    BY <1>3 DEF s
  <2> QED BY <1>1, <1>2, <2>1, <2>2, RetryActs, RestPlays
<1>4. CASE Retry(c, [r EXCEPT !.turns = @ + 1])
  <2> DEFINE s == [r EXCEPT !.turns = @ + 1]
  <2>1. s \in Programs /\ s.phase = r.phase /\ s.last = r.last /\ s.item = r.item /\ s.done = r.done
    BY <1>2, FieldFacts
  <2> HIDE DEF s
  <2>2. Retry(c, s)
    BY <1>4 DEF s
  <2> QED BY <1>1, <1>2, <2>1, <2>2, RetryActs, RestPlays
<1> QED BY <1>3, <1>4 DEF DaemonNone
\* The timer logs off, or just ends.
LEMMA TimerEndPlays ==
  ASSUME RemoteInv, NEW c \in Controls, kindOf[c] = "TIMER", NEW r \in Programs, r.last \in ServerPackets,
         r.last = control[c].last, NEW outcome \in Outcomes, TimerEnds(c, r, outcome),
         OneCommand(c) =>
           /\ r.item = control[c].item
           /\ \/ r.done = control[c].done
              \/ /\ r.done = control[c].done \cup {control[c].item} /\ control[c].phase = "LINK"
                 /\ Read(c) /\ Got(c).what = "ACK"
  PROVE  Plays(c)
<1> DEFINE t == [r EXCEPT !.in = FALSE] s == Over1(t, outcome)
<1>1. t \in Programs /\ t.last = r.last /\ t.item = r.item /\ t.done = r.done
  BY FieldFacts
<1> HIDE DEF t
<1>2. s \in Programs /\ s.phase = "OVER" /\ s.last = t.last /\ s.item = t.item /\ s.done = t.done
  BY <1>1, FieldFacts
<1>3. LogOff(c, s) \/ Idle(c, s)
  BY DEF TimerEnds, t
<1> HIDE DEF s
<1>4. Acts(c) /\ Is(c, s)
  BY <1>1, <1>2, <1>3, LogOffActs, IdleActs DEF RemoteInv
<1> QED BY <1>1, <1>2, <1>4, EndPlays

\* It goes on to the next item, which a timer with one item has not.
LEMMA NextItemPlays ==
  ASSUME RemoteInv, NEW c \in Controls, kindOf[c] = "TIMER", NEW r \in Programs, r.last \in ServerPackets,
         r.last = control[c].last, r.item = control[c].item, NextItem(c, r),
         \/ r.done = control[c].done
         \/ /\ r.done = control[c].done \cup {control[c].item} /\ control[c].phase = "LINK"
            /\ Read(c) /\ Got(c).what = "ACK"
  PROVE  Plays(c)
<1> DEFINE s == [r EXCEPT !.item = @ + 1]
<1>1. s \in Programs /\ s.item = r.item + 1
  BY FieldFacts
<1>2. Link(s) \in ServerPackets /\ Link(s).what = "LNK" /\ "LINK" \in Phases /\ "NONE" \in Outcomes
  BY <1>1 DEF Link, Packet1, ServerPackets, Programs, Phases, Outcomes
<1>3. CASE r.item < Items /\ Ask(c, s, "LINK", Link(s))
  <2>1. ~OneCommand(c)
    BY <1>3 DEF OneCommand, RemoteInv, Staged
  <2> HIDE DEF s
  <2> QED BY <1>1, <1>2, <1>3, <2>1, AskPlays
<1>4. CASE TimerEnds(c, r, "NONE")
  BY <1>2, <1>4, TimerEndPlays
<1> QED BY <1>3, <1>4 DEF NextItem

\* The timer with an answer.
LEMMA TimerReads ==
  ASSUME RemoteInv, NEW c \in Controls, kindOf[c] = "TIMER", Running1(c), Read(c),
         TimerGot(c, After1(c), Got(c).what, Got(c).arg)
  PROVE  Plays(c)
<1> DEFINE r == After1(c)
<1>1. Base(c, r) /\ RemoteTypeOK
  BY BaseFacts DEF RemoteInv
<1>2. r \in Programs /\ r.last \in ServerPackets /\ r.last = control[c].last /\ r.phase = control[c].phase
      /\ r.item = control[c].item /\ r.done = control[c].done /\ r.phase \in Phases
      /\ r.phase \in {"LOGIN", "HASH", "LINK"}
  BY <1>1 DEF Base, Programs, RemoteInv
<1> HIDE DEF r
<1>3. CASE r.phase = "LOGIN" /\ Got(c).what = "RND" /\ Ask(c, r, "HASH", Packet1("SHA", Got(c).arg))
  BY <1>1, <1>3, HashPlays
<1>4. CASE Ask(c, r, r.phase, r.last)
  BY <1>2, <1>4, AskPlays
<1>5. CASE Idle(c, Over1(r, "NAK"))
  <2> DEFINE s == Over1(r, "NAK")
  <2>1. s \in Programs /\ s.phase = "OVER" /\ s.last = r.last /\ s.item = r.item /\ s.done = r.done
    BY <1>2, FieldFacts DEF Outcomes
  <2> HIDE DEF s
  <2>2. Idle(c, s)
    BY <1>5 DEF s
  <2> QED BY <1>1, <1>2, <2>1, <2>2, IdleActs, RestPlays
<1>6. CASE r.phase = "HASH" /\ Got(c).what = "ACK" /\ Ask(c, [r EXCEPT !.in = TRUE], "LINK", Link(r))
  <2> DEFINE s == [r EXCEPT !.in = TRUE]
  <2>1. s \in Programs /\ s.item = r.item /\ s.done = r.done
    BY <1>2, FieldFacts
  <2>2. Link(r) \in ServerPackets /\ Link(r).what = "LNK" /\ Link(r) = Packet1("LNK", r.item) /\ "LINK" \in Phases
    BY <1>2 DEF Link, Packet1, ServerPackets, Programs, Phases
  <2> HIDE DEF s
  <2>3. Ask(c, s, "LINK", Link(r))
    BY <1>6 DEF s
  <2> QED BY <1>2, <1>6, <2>1, <2>2, <2>3, AskPlays
<1>7. CASE r.phase = "LINK" /\ Got(c).what = "ACK" /\ NextItem(c, Done(r))
  <2> DEFINE s == Done(r)
  <2>1. s \in Programs /\ s.phase = r.phase /\ s.last = r.last /\ s.item = r.item /\ s.done = r.done \cup {r.item}
    BY <1>2, FieldFacts
  <2> HIDE DEF s
  <2>2. NextItem(c, s)
    BY <1>7 DEF s
  <2> QED BY <1>2, <1>7, <2>1, <2>2, NextItemPlays
<1>8. CASE NextItem(c, r)
  BY <1>2, <1>8, NextItemPlays
<1> QED BY <1>2, <1>3, <1>4, <1>5, <1>6, <1>7, <1>8 DEF TimerGot, r

\* The timer without one.
LEMMA TimerWaits ==
  ASSUME RemoteInv, NEW c \in Controls, kindOf[c] = "TIMER", Running1(c), TimerNone(c, control[c])
  PROVE  Plays(c)
<1> DEFINE r == control[c]
<1>1. Base(c, r) /\ RemoteTypeOK
  BY BaseFacts DEF RemoteInv
<1>2. r \in Programs /\ r.last \in ServerPackets /\ r.phase \in Phases /\ r.phase \in {"LOGIN", "HASH", "LINK"}
  BY <1>1 DEF Base, Programs, RemoteInv
<1>3. CASE r.phase = "LOGIN" /\ Ask(c, r, "LOGIN", r.last)
  BY <1>2, <1>3, AskPlays DEF Phases
<1>4. CASE Idle(c, Over1(r, "NOT SENT"))
  <2> DEFINE s == Over1(r, "NOT SENT")
  <2>1. s \in Programs /\ s.phase = "OVER" /\ s.last = r.last /\ s.item = r.item /\ s.done = r.done
    BY <1>2, FieldFacts DEF Outcomes
  <2> HIDE DEF s
  <2>2. Idle(c, s)
    BY <1>4 DEF s
  <2> QED BY <1>1, <1>2, <2>1, <2>2, IdleActs, RestPlays
<1>5. CASE NextItem(c, r)
  BY <1>2, <1>5, NextItemPlays
<1> QED BY <1>2, <1>3, <1>4, <1>5 DEF TimerNone

\* The frame, which takes nothing for acknowledged.
LEMMA FrameIdles ==
  ASSUME RemoteInv, NEW c \in Controls, kindOf[c] = "FRAME", NEW r \in Programs,
         Idle(c, r) \/ (r.phase = "OVER" /\ LogOff(c, r)),
         r.last \in ServerPackets, r.last = control[c].last, r.item = control[c].item, r.done = control[c].done
  PROVE  Plays(c)
<1>1. Acts(c) /\ Is(c, r)
  BY IdleActs, LogOffActs DEF RemoteInv
<1> QED BY <1>1, RestPlays

\* It asks for what it shows.
LEMMA FrameAsks ==
  ASSUME RemoteInv, NEW c \in Controls, kindOf[c] = "FRAME", NEW r \in Programs, NEW phase \in Phases,
         NEW what \in {"GCS", "GRP", "GSN"}, FrameRequest(c, r, phase, what),
         r.last \in ServerPackets, r.last = control[c].last, r.item = control[c].item, r.done = control[c].done
  PROVE  Plays(c)
<1>1. CASE Ask(c, r, phase, Packet1(what, 0))
  <2>1. Packet1(what, 0) \in ServerPackets /\ Packet1(what, 0).what # "SHA" /\ ~OneCommand(c)
    BY DEF Packet1, ServerPackets, OneCommand
  <2> QED BY <1>1, <2>1, AskPlays
<1>2. CASE Idle(c, [r EXCEPT !.phase = phase])
  <2> DEFINE s == [r EXCEPT !.phase = phase]
  <2>1. s \in Programs /\ s.last = r.last /\ s.item = r.item /\ s.done = r.done
    BY FieldFacts
  <2> HIDE DEF s
  <2>2. Idle(c, s)
    BY <1>2 DEF s
  <2> QED BY <2>1, <2>2, FrameIdles
<1> QED BY <1>1, <1>2 DEF FrameRequest
\* The frame with an answer.
LEMMA FrameReads ==
  ASSUME RemoteInv, NEW c \in Controls, kindOf[c] = "FRAME", Running1(c), Read(c),
         FrameGot(c, After1(c), Got(c).what, Got(c).arg)
  PROVE  Plays(c)
<1> DEFINE r == After1(c)
<1>1. Base(c, r) /\ RemoteTypeOK
  BY BaseFacts DEF RemoteInv
<1>2. /\ r \in Programs /\ r.last \in ServerPackets /\ r.last = control[c].last
      /\ r.item = control[c].item /\ r.done = control[c].done
  BY <1>1 DEF Base
<1>3. {"HASH", "NORMAL", "GET REPEATERS", "GET STARNETS"} \subseteq Phases
  BY DEF Phases
<1> HIDE DEF r
<1>4. CASE Idle(c, r)
  BY <1>2, <1>4, FrameIdles
<1>5. ASSUME NEW phase \in Phases, Idle(c, [r EXCEPT !.phase = phase]) PROVE Plays(c)
  <2> DEFINE s == [r EXCEPT !.phase = phase]
  <2>1. s \in Programs /\ s.last = r.last /\ s.item = r.item /\ s.done = r.done
    BY <1>2, FieldFacts
  <2> HIDE DEF s
  <2>2. Idle(c, s)
    BY <1>5 DEF s
  <2> QED BY <1>2, <2>1, <2>2, FrameIdles
<1>6. CASE Got(c).what = "RND" /\ FrameRandom(c, r, Got(c).arg)
  <2>1. CASE Ask(c, r, "HASH", Packet1("SHA", Got(c).arg))
    BY <1>1, <1>6, <2>1, HashPlays
  <2> QED BY <1>3, <1>5, <1>6, <2>1 DEF FrameRandom
<1>7. CASE FrameRequest(c, [r EXCEPT !.in = TRUE], "NORMAL", "GCS")
  <2> DEFINE s == [r EXCEPT !.in = TRUE]
  <2>1. s \in Programs /\ s.last = r.last /\ s.item = r.item /\ s.done = r.done
    BY <1>2, FieldFacts
  <2> HIDE DEF s
  <2>2. FrameRequest(c, s, "NORMAL", "GCS")
    BY <1>7 DEF s
  <2> QED BY <1>2, <1>3, <2>1, <2>2, FrameAsks
<1>8. CASE Idle(c, [r EXCEPT !.phase = "NORMAL", !.in = @ /\ r.phase # "HASH"])
  <2> DEFINE s == [r EXCEPT !.phase = "NORMAL", !.in = @ /\ r.phase # "HASH"]
  <2>1. s \in Programs /\ s.last = r.last /\ s.item = r.item /\ s.done = r.done
    <3>1. (r.in /\ r.phase # "HASH") \in BOOLEAN
      OBVIOUS
    <3> QED BY <1>2, <1>3, <3>1 DEF Programs
  <2> HIDE DEF s
  <2>2. Idle(c, s)
    BY <1>8 DEF s
  <2> QED BY <1>2, <2>1, <2>2, FrameIdles
<1>9. CASE FrameRequest(c, r, "GET REPEATERS", "GRP") \/ FrameRequest(c, r, "GET STARNETS", "GSN")
  BY <1>2, <1>3, <1>9, FrameAsks
<1> QED
  BY <1>3, <1>4, <1>5, <1>6, <1>7, <1>8, <1>9 DEF FrameGot, r

\* The user's buttons, and the end.
LEMMA FrameActs ==
  ASSUME RemoteInv, NEW c \in Controls, FrameCommand(c) \/ FrameClose(c)
  PROVE  Plays(c) /\ UNCHANGED <<kindOf, serverVars, toControl, executed>>
<1> DEFINE r == control[c]
<1>1. r \in Programs /\ kindOf[c] = "FRAME" /\ ~OneCommand(c) /\ r.phase \in Phases
  BY DEF RemoteInv, RemoteTypeOK, FrameCommand, FrameClose, OneCommand, Programs
<1>2. CASE FrameCommand(c)
  <2> DEFINE s == [r EXCEPT !.item = @ + 1]
  <2>1. s \in Programs /\ s.done = r.done
    BY <1>1, FieldFacts
  <2>2. Link(r) \in ServerPackets /\ Link(r).what = "LNK"
    BY <1>1 DEF Link, Packet1, ServerPackets, Programs
  <2>3. Ask(c, s, r.phase, Link(r)) /\ UNCHANGED <<kindOf, serverVars, toControl, executed>>
    BY <1>2 DEF FrameCommand
  <2> HIDE DEF s
  <2>4. Plays(c)
    BY <1>1, <2>1, <2>2, <2>3, AskPlays
  <2> QED BY <2>3, <2>4
<1>3. CASE FrameClose(c)
  <2> DEFINE s == Over1(r, "CLOSED")
  <2>1. s \in Programs /\ s.phase = "OVER" /\ s.last = r.last /\ s.item = r.item /\ s.done = r.done
    BY <1>1, FieldFacts DEF Outcomes
  <2>2. LogOff(c, s) \/ Idle(c, s)
    BY <1>3 DEF FrameClose
  <2>3. r.last \in ServerPackets
    BY <1>3 DEF FrameClose, RemoteInv, RemoteTypeOK
  <2> HIDE DEF s
  <2>4. Plays(c)
    BY <1>1, <2>1, <2>2, <2>3, FrameIdles
  <2> QED BY <1>3, <2>4 DEF FrameClose
<1> QED BY <1>2, <1>3

-----------------------------------------------------------------------------
\* Every step.
LEMMA RemoteInvKept ==
  ASSUME RemoteInv, [RemoteNext]_remoteVars
  PROVE  RemoteInv'
<1>1. CASE UNCHANGED remoteVars
  BY <1>1
  DEF remoteVars, serverVars, RemoteInv, RemoteTypeOK, OwnNumbers, Owned, OneCommand, Staged, BeforeHash, HashSent,
      LinkSent, Spent
<1>2. ASSUME NEW c \in Controls, StartControl(c) PROVE RemoteInv'
  <2>1. /\ control[c].phase = "START" /\ control[c] \in Programs
        /\ Ask(c, control[c], "LOGIN", Packet1("LIN", 0)) /\ UNCHANGED <<kindOf, serverVars, toControl, executed>>
    BY <1>2 DEF StartControl, RemoteInv, RemoteTypeOK
  <2>2. Packet1("LIN", 0) \in ServerPackets /\ Packet1("LIN", 0).what # "SHA" /\ "LOGIN" \in Phases
    BY DEF Packet1, ServerPackets, Phases
  <2>3. Plays(c)
    BY <2>1, <2>2, AskPlays
  <2> QED BY <2>1, <2>3, PlaysKeeps DEF MayRead
<1>3. ASSUME NEW c \in Controls, ControlReads(c) PROVE RemoteInv'
  <2>1. Running1(c) /\ Read(c) /\ UNCHANGED <<kindOf, serverVars, executed>>
    BY <1>3 DEF ControlReads
  <2>2. kindOf[c] \in {"DAEMON", "TIMER", "FRAME"}
    BY DEF RemoteInv, RemoteTypeOK
  <2>3. Plays(c)
    BY <1>3, <2>1, <2>2, DaemonReads, TimerReads, FrameReads DEF ControlReads
  <2> QED BY <2>1, <2>3, PlaysKeeps DEF MayRead
<1>4. ASSUME NEW c \in Controls, ControlWaits(c) PROVE RemoteInv'
  <2>1. Running1(c) /\ UNCHANGED <<kindOf, serverVars, toControl, executed>>
    BY <1>4 DEF ControlWaits
  <2>2. kindOf[c] \in {"DAEMON", "TIMER", "FRAME"}
    BY DEF RemoteInv, RemoteTypeOK
  <2>3. CASE kindOf[c] = "FRAME"
    <3>1. Retry(c, control[c]) /\ Base(c, control[c]) /\ RemoteTypeOK
      BY <1>4, <2>1, <2>3, BaseFacts DEF ControlWaits, RemoteInv
    <3>2. Acts(c) /\ Is(c, control[c])
      BY <3>1, RetryActs DEF Base
    <3> QED BY <3>1, <3>2, RestPlays, <2>1, PlaysKeeps DEF MayRead, Base
  <2>4. CASE kindOf[c] # "FRAME"
    <3>1. Plays(c)
      BY <1>4, <2>1, <2>2, <2>4, DaemonWaits, TimerWaits DEF ControlWaits
    <3> QED BY <2>1, <3>1, PlaysKeeps DEF MayRead
  <2> QED BY <2>3, <2>4
<1>5. ASSUME NEW c \in Controls, FrameCommand(c) \/ FrameClose(c) PROVE RemoteInv'
  BY <1>5, FrameActs, PlaysKeeps DEF MayRead
<1>6. ASSUME NEW c \in Controls, ServerProcess(c) PROVE RemoteInv'
  <2> DEFINE p == Head(toServer[c])
  <2>1. /\ toServer[c] # <<>> /\ toServer[c] \in Seq(ServerPackets)
        /\ toServer' = [toServer EXCEPT ![c] = Tail(@)]
        /\ Handle(c, p) /\ UNCHANGED <<kindOf, control>> /\ RemoteTypeOK
    BY <1>6 DEF ServerProcess, RemoteInv, RemoteTypeOK
  <2>2. /\ Tail(toServer[c]) \in Seq(ServerPackets) /\ p \in ServerPackets /\ p \in Within(toServer[c])
        /\ Within(Tail(toServer[c])) \subseteq Within(toServer[c])
    BY <2>1, Taken
  <2>3. /\ toServer' \in [Controls -> Seq(ServerPackets)]
        /\ \A d \in Controls : toServer'[d] = IF d = c THEN Tail(toServer[c]) ELSE toServer[d]
    BY <2>1, <2>2 DEF RemoteTypeOK
  <2>4. \A d \in Controls : Within(toServer'[d]) \subseteq Within(toServer[d])
    BY <2>2, <2>3
  <2>5. p.what = "SHA" /\ p.arg = random => address = c
    BY <2>2 DEF RemoteInv, OwnNumbers, Owned
  <2> HIDE DEF p
  <2>6. Handled(c, p)
    BY <2>1, <2>2, HandleFacts
  <2> QED BY <2>1, <2>2, <2>3, <2>4, <2>5, <2>6, HandledKeeps
<1>7. CASE StrangerSends
  <2>1. PICK what \in {"LIN", "SHA", "LNK", "LOG"} :
          Handle(Stranger, Packet1(what, IF what = "SHA" /\ address = Stranger THEN random ELSE Randoms + 1))
    BY <1>7 DEF StrangerSends
  <2> DEFINE p == Packet1(what, IF what = "SHA" /\ address = Stranger THEN random ELSE Randoms + 1)
  <2>2. random \in 0 .. Randoms /\ Randoms \in Nat /\ RemoteTypeOK
    BY RemoteControlAssumption DEF RemoteInv, RemoteTypeOK
  <2>3. p \in ServerPackets /\ p.what = what /\ (what = "SHA" /\ p.arg = random => address = Stranger)
    BY <2>2 DEF Packet1, ServerPackets
  <2> HIDE DEF p
  <2>4. Handled(Stranger, p)
    BY <2>1, <2>2, <2>3, HandleFacts DEF p
  <2>5. UNCHANGED <<kindOf, control>> /\ toServer' = toServer
    BY <1>7 DEF StrangerSends
  <2> QED BY <2>2, <2>3, <2>4, <2>5, HandledKeeps, RemoteControlAssumption DEF RemoteTypeOK
<1>8. CASE LinkScr
  <2> DEFINE p == Packet1("GCS", 0)
  <2>1. p \in ServerPackets /\ p.what = "GCS" /\ RemoteTypeOK
    BY DEF Packet1, ServerPackets, RemoteInv
  <2> HIDE DEF p
  <2>2. Handled(Stranger, p)
    BY <1>8, <2>1, PlainAnswer DEF LinkScr, NAK
  <2>3. UNCHANGED <<kindOf, control>> /\ toServer' = toServer
    BY <1>8 DEF LinkScr
  <2> QED BY <2>1, <2>2, <2>3, HandledKeeps, RemoteControlAssumption DEF RemoteTypeOK
<1> QED BY <1>1, <1>2, <1>3, <1>4, <1>5, <1>6, <1>7, <1>8 DEF RemoteNext

\* A program that sends one command in a session, which the daemon always does
\* and the timer when one item is due, takes it for done only when the gateway
\* has carried it out.
THEOREM OneCommandIsDone ==
  RemoteSpec => [](\A c \in Controls : OneCommand(c) => \A i \in control[c].done : <<c, i>> \in executed)
<1>1. RemoteInv => \A c \in Controls : OneCommand(c) => \A i \in control[c].done : <<c, i>> \in executed
  BY DEF RemoteInv, Staged
<1> QED BY <1>1, InitRemote, RemoteInvKept, PTL DEF RemoteSpec

\* All programs do when no timer has a second item due.
THEOREM AcceptedWasDone ==
  ASSUME Items = 1
  PROVE  RemoteSpec => []AcceptedIsDone
<1>1. RemoteInv => AcceptedIsDone
  BY DEF RemoteInv, RemoteTypeOK, Staged, OneCommand, AcceptedIsDone
<1> QED BY <1>1, InitRemote, RemoteInvKept, PTL DEF RemoteSpec
=============================================================================
