-------------------------------- MODULE StarNet --------------------------------
(***************************************************************************)
(* CStarNetHandler, one StarNet digital group: users log in by speaking to *)
(* the group's callsign, one stream at a time is relayed to the repeaters  *)
(* where the others were last heard, and users leave by a log-off header,  *)
(* by a text in their slow data, by a time-out or by the remote control.   *)
(*                                                                         *)
(* Users and streams are objects on the heap that point at each other.  A  *)
(* stream's "owner" says what has become of the user object it points at:  *)
(* still in m_users, taken out of it but not deleted, or deleted.  What    *)
(* the program does once it follows a pointer to a deleted object, or a    *)
(* null pointer, is not defined: the model stops there ("defined").        *)
(*                                                                         *)
(* The unit of time is MESSAGE_DELAY (4 s).  The clock runs every few      *)
(* milliseconds, so what is due is done before the next unit passes; the   *)
(* shorter NETWORK_TIMEOUT (2 s) may end at any time.                      *)
(***************************************************************************)
EXTENDS Naturals, Functions

CONSTANTS Users,       \* callsigns
          Permanent,   \* those the configuration never times out
          Repeaters, Nowhere,
          Streams,     \* stream identifiers (never 0)
          UserLife,    \* user time-out, in units; 0 for none
          GroupLife,   \* group time-out, in units; 0 for none
          Linked       \* built with DEXTRA_LINK or DCS_LINK, and a reflector set?

ASSUME StarNetAssumption ==
  /\ Permanent \subseteq Users /\ 0 \notin Streams
  /\ Nowhere \notin Repeaters /\ Linked \in BOOLEAN
  /\ UserLife \in Nat /\ UserLife # 1 /\ UserLife # 2  \* configured in minutes
  /\ GroupLife \in Nat /\ GroupLife # 1 /\ GroupLife # 2

VARIABLES member,      \* m_users: how long each user has been silent
          nulls,       \* callsigns whose entry in m_users is a null pointer
          tx,          \* m_ids: the streams
          speaker,     \* m_id: the stream that is relayed, or 0
          relay,       \* m_repeaters: "STALE" is a pointer to a deleted entry
          groupAge,    \* m_groupTimer, 0 when stopped
          linkTimer,   \* m_linkTimer
          quiet,       \* no more input comes
          defined

group == <<member, nulls, tx, speaker, relay, groupAge, linkTimer>>
vars == <<member, nulls, tx, speaker, relay, groupAge, linkTimer, quiet, defined>>

Tx == [user : Users, owner : {"MEMBER", "LOST", "FREED"},
       kind : {"TALK", "LOGIN", "INFO", "LOGOFF"}, end : BOOLEAN, late : BOOLEAN]

Members == DOMAIN member
NoRelay == [r \in Repeaters |-> "NO"]
Stale == \E r \in Repeaters : relay[r] = "STALE"

Init == /\ member = <<>> /\ nulls = {}
        /\ tx = <<>> /\ speaker = 0 /\ relay = NoRelay
        /\ groupAge = 0 /\ linkTimer = "OFF"
        /\ quiet = FALSE /\ defined = TRUE

Input == defined /\ ~quiet

Undefined == defined' = FALSE /\ UNCHANGED group

Defined == UNCHANGED defined

\* The streams of users that are taken out of m_users.
Orphan(streams, us, how) ==
  [i \in DOMAIN streams |->
     IF streams[i].user \in us /\ streams[i].owner = "MEMBER"
     THEN [streams[i] EXCEPT !.owner = how] ELSE streams[i]]

\* m_users[callsign] = user, and m_ids[id] = tx.
Store(table, key, entry) == [k \in DOMAIN table \cup {key} |-> IF k = key THEN entry ELSE table[k]]

Without(streams, i) == Restrict(streams, DOMAIN streams \ {i})

\* Mutant: the timer is not started again while it runs.
StartedOnce == IF GroupLife = 0 \/ groupAge # 0 THEN groupAge ELSE 1

Started == IF GroupLife = 0 THEN 0 ELSE 1

\* The list is added to, never rebuilt: what is in it stays.
RelayTo(home, but) ==
  [r \in Repeaters |-> IF relay[r] = "NO" /\ r # but /\ \E u \in DOMAIN home : home[u] = r
                       THEN "YES" ELSE relay[r]]

\* What the cache may say of where the users were last heard.
Homes(us) == [us -> Repeaters \cup {Nowhere}]

-----------------------------------------------------------------------------
\* A header to the group's callsign: a log-in, or a member who speaks.
GroupHeader(u, i) ==
  /\ Input
  /\ member' = Store(member, u, 0) /\ nulls' = nulls \ {u}
  /\ IF u \in Members /\ i \in DOMAIN tx
     THEN UNCHANGED <<tx, speaker, relay, groupAge, linkTimer, defined>>
     ELSE /\ tx' = Store(tx, i, [user |-> u, owner |-> "MEMBER", end |-> FALSE, late |-> FALSE,
                                kind |-> IF u \in Members THEN "TALK" ELSE "LOGIN"])
          /\ groupAge' = Started /\ UNCHANGED linkTimer
          /\ IF speaker # 0
             THEN UNCHANGED <<speaker, relay, defined>>
             ELSE /\ speaker' = i
                  /\ \E home \in Homes(Members \cup {u}) : relay' = RelayTo(home, home[u])
                  /\ defined' = ~Stale
  /\ UNCHANGED quiet

\* A header to the log-off callsign.  It is looked up with m_users[my], which
\* leaves a null entry for a stranger.  The object is not deleted.
LogoffHeader(u, i) ==
  /\ Input
  /\ IF u \notin Members
     THEN nulls' = nulls \cup {u} /\ UNCHANGED <<member, tx>>
     ELSE /\ member' = Without(member, u) /\ UNCHANGED nulls
          /\ tx' = Store(Orphan(tx, {u}, "LOST"), i,
                      [user |-> u, owner |-> "LOST", kind |-> "LOGOFF", end |-> FALSE, late |-> FALSE])
  /\ UNCHANGED <<speaker, relay, groupAge, linkTimer, quiet, defined>>

\* Mutant: the stream that was relayed stays the one that is.
OverStays(i, kind, streams, users) ==
  /\ tx' = IF kind = "TALK" THEN Without(streams, i)
           ELSE [streams EXCEPT ![i].kind = kind, ![i].end = TRUE, ![i].late = FALSE]
  /\ member' = IF kind = "LOGOFF" THEN Without(users, tx[i].user) ELSE users
  /\ UNCHANGED <<nulls, speaker, relay>>

\* A stream is over, or has been silent too long: a log-in, a log-off and a
\* request for information wait for their answer, the rest is forgotten.
Over(i, kind, streams, users) ==
  LET u == tx[i].user
      waits == [streams EXCEPT ![i].kind = kind, ![i].end = TRUE, ![i].late = FALSE]
  IN /\ tx' = CASE kind = "TALK" -> Without(streams, i)
                [] kind = "LOGOFF" -> Orphan(waits, {u}, "LOST")
                [] OTHER -> waits
     /\ member' = IF kind = "LOGOFF" THEN Without(users, u) ELSE users
     /\ nulls' = IF kind = "LOGOFF" THEN nulls \ {u} ELSE nulls
     /\ speaker' = IF speaker = i THEN 0 ELSE speaker
     /\ relay' = IF speaker = i THEN NoRelay ELSE relay

\* A frame of a stream the group knows.  "text" is what its slow data asks
\* for; after a log-in nothing is asked for, and the first request counts.
Frame(i, text, end) ==
  /\ Input /\ i \in DOMAIN tx
  /\ IF tx[i].owner = "FREED" \/ (i = speaker /\ Stale)
     THEN Undefined
     ELSE LET kind == IF tx[i].kind = "TALK" THEN text ELSE tx[i].kind
              heard == [tx EXCEPT ![i].kind = kind, ![i].late = FALSE]
              users == IF tx[i].owner = "MEMBER"
                       THEN [member EXCEPT ![tx[i].user] = 0] ELSE member
          IN /\ groupAge' = Started
             /\ IF end THEN Over(i, kind, heard, users)
                       ELSE /\ tx' = heard /\ member' = users
                            /\ UNCHANGED <<nulls, speaker, relay>>
             /\ UNCHANGED linkTimer /\ Defined
  /\ UNCHANGED quiet

-----------------------------------------------------------------------------
\* The remote control.  m_repeaters.end() leaves the list of deleted entries.
ForgetAll ==
  /\ member' = <<>> /\ nulls' = {}
  /\ tx' = <<>> /\ speaker' = 0 /\ groupAge' = 0
  /\ relay' = [r \in Repeaters |-> IF relay[r] = "NO" THEN "NO" ELSE "STALE"]
  /\ UNCHANGED linkTimer

LogoffAll ==
  /\ Input
  /\ IF Stale THEN Undefined ELSE ForgetAll /\ Defined
  /\ UNCHANGED quiet

\* Of the streams of the user only the first one found is removed.
LogoffOne(u) ==
  /\ Input /\ u \in Members
  /\ IF Members = {u}
     THEN IF Stale THEN Undefined ELSE ForgetAll /\ Defined
     ELSE LET own == {i \in DOMAIN tx : tx[i].user = u /\ tx[i].owner = "MEMBER"}
          IN \E i \in IF own = {} THEN {0} ELSE own :
               /\ tx' = Orphan(Without(tx, i), {u}, "FREED")
               /\ speaker' = IF i = speaker THEN 0 ELSE speaker
               /\ member' = Without(member, u)
               /\ UNCHANGED <<nulls, relay, groupAge, linkTimer>> /\ Defined
  /\ UNCHANGED quiet

LogoffStranger(u) ==
  /\ Input /\ u \notin Members
  /\ nulls' = nulls \cup {u}
  /\ UNCHANGED <<member, tx, speaker, relay, groupAge, linkTimer, quiet, defined>>

\* Listing the group follows every entry of m_users, the null ones too.
GetInfo == /\ Input /\ nulls # {}
           /\ Undefined
           /\ UNCHANGED quiet

-----------------------------------------------------------------------------
\* The reflector the group is linked to, in a build with links.
ReflectorHeader(i) ==
  /\ Input /\ Linked /\ speaker = 0
  /\ speaker' = i /\ linkTimer' = "RUNNING"
  /\ (\E home \in Homes(Members) : relay' = RelayTo(home, Nowhere))
  /\ defined' = ~Stale
  /\ UNCHANGED <<member, nulls, tx, groupAge, quiet>>

ReflectorFrame(i, end) ==
  /\ Input /\ Linked /\ speaker = i
  /\ IF Stale THEN Undefined
     ELSE /\ linkTimer' = IF end THEN "OFF" ELSE "RUNNING"
          /\ speaker' = IF end THEN 0 ELSE speaker
          /\ relay' = IF end THEN NoRelay ELSE relay
          /\ UNCHANGED <<member, nulls, tx, groupAge>> /\ Defined
  /\ UNCHANGED quiet

Quiet == Input /\ quiet' = TRUE /\ UNCHANGED <<group, defined>>

-----------------------------------------------------------------------------
\* Mutant: only what is not over is looked at.
StreamDueOpen(i) == i \in DOMAIN tx /\ tx[i].late /\ ~tx[i].end

StreamDue(i) == i \in DOMAIN tx /\ tx[i].late
\* clockInt: first the link, then the streams, the group and the users.
GroupDue == speaker = 0 /\ GroupLife # 0 /\ groupAge > GroupLife
UserDue(u) == speaker = 0 /\ u \in Members /\ UserLife # 0 /\ member[u] >= UserLife

ExpireLink ==
  /\ defined /\ linkTimer = "RUNNING"
  /\ IF Stale THEN Undefined
     ELSE /\ linkTimer' = "OFF" /\ speaker' = 0 /\ relay' = NoRelay
          /\ UNCHANGED <<member, nulls, tx, groupAge>> /\ Defined
  /\ UNCHANGED quiet

ExpireStream(i) ==
  /\ defined /\ StreamDue(i)
  /\ IF tx[i].owner = "FREED" \/ (~tx[i].end /\ i = speaker /\ Stale)
     THEN Undefined
     ELSE /\ IF tx[i].end
             THEN tx' = Without(tx, i) /\ UNCHANGED <<member, nulls, speaker, relay>>
             ELSE Over(i, tx[i].kind, tx, member)
          /\ UNCHANGED <<groupAge, linkTimer>> /\ Defined
  /\ UNCHANGED quiet

ExpireGroup ==
  /\ defined /\ GroupDue
  /\ member' = Restrict(member, Members \cap Permanent) /\ nulls' = {}
  /\ tx' = Orphan(tx, Members \ Permanent, "FREED")
  /\ groupAge' = 0
  /\ UNCHANGED <<speaker, relay, linkTimer, quiet, defined>>

ExpireUser(u) ==
  /\ defined /\ UserDue(u)
  /\ member' = Without(member, u)
  /\ tx' = Orphan(tx, {u}, "FREED")
  /\ UNCHANGED <<nulls, speaker, relay, groupAge, linkTimer, quiet, defined>>

Expire == \/ ExpireLink \/ ExpireGroup
          \/ \E i \in Streams : ExpireStream(i)
          \/ \E u \in Users : ExpireUser(u)

Tick ==
  /\ defined /\ ~GroupDue
  /\ \A i \in Streams : ~StreamDue(i)
  /\ \A u \in Users : ~UserDue(u)
  /\ tx' = [i \in DOMAIN tx |-> [tx[i] EXCEPT !.late = TRUE]]
  /\ member' = [u \in Members |-> IF u \in Permanent \/ member[u] >= UserLife
                                  THEN member[u] ELSE member[u] + 1]
  /\ groupAge' = IF groupAge \in 1..GroupLife THEN groupAge + 1 ELSE groupAge
  /\ UNCHANGED <<nulls, speaker, relay, linkTimer, quiet, defined>>

Texts == {"TALK", "INFO", "LOGOFF"}

RemoteLogoff == LogoffAll \/ \E u \in Users : LogoffOne(u)

Next ==
  \/ \E u \in Users, i \in Streams : GroupHeader(u, i) \/ LogoffHeader(u, i)
  \/ \E i \in Streams, text \in Texts, end \in BOOLEAN : Frame(i, text, end)
  \/ RemoteLogoff
  \/ \E u \in Users : LogoffStranger(u)
  \/ GetInfo
  \/ \E i \in Streams : ReflectorHeader(i)
  \/ \E i \in Streams, end \in BOOLEAN : ReflectorFrame(i, end)
  \/ Quiet \/ Expire \/ Tick

\* The clock thread never stops.
Fairness == WF_vars(Expire) /\ WF_vars(Tick)

Spec == Init /\ [][Next]_vars /\ Fairness

================================================================================
