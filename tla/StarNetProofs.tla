----------------------------- MODULE StarNetProofs -----------------------------
(***************************************************************************)
(* SpeakerWatched and UsersOutliveStreams for groups of any size, with any *)
(* time-outs the configuration can give.                                   *)
(*                                                                         *)
(* That a time-out never deletes a user a stream points at cannot be seen  *)
(* from one step: nothing in clockInt looks at the streams before it       *)
(* deletes the user.  It holds because both are touched by the same frames *)
(* and are then counted by the same clock, which the invariant YoungOwners *)
(* says: a member with a stream has been silent for no more units than the *)
(* stream has waited, two at most, and the time-outs are longer.           *)
(***************************************************************************)
EXTENDS StarNetProperties, TLAPS

\* How many units a stream may have waited: it is late, and it was late once
\* before it was found to be over.
Waited(t) == (IF t.end THEN 1 ELSE 0) + (IF t.late THEN 1 ELSE 0)

\* The user of each stream of a member is there, and has not been silent for
\* longer than the stream; nor has the group.
Young(streams, users, age) ==
  \A i \in DOMAIN streams :
    streams[i].owner = "MEMBER" =>
      /\ streams[i].user \in DOMAIN users
      /\ users[streams[i].user] <= Waited(streams[i])
      /\ age <= 1 + Waited(streams[i])

YoungOwners == Young(tx, member, groupAge)

StarNetInv == StarNetTypeOK /\ YoungOwners

TxOK(streams) == DOMAIN streams \subseteq Streams /\ \A i \in DOMAIN streams : streams[i] \in Tx
MembersOK(users) == DOMAIN users \subseteq Users /\ \A u \in DOMAIN users : users[u] \in 0..UserLife

TxKinds == {"TALK", "LOGIN", "INFO", "LOGOFF"}

USE StarNetAssumption

-----------------------------------------------------------------------------
\* m_users and m_ids: what the operators on them leave.

\* An entry is erased and the others stay.
LEMMA WithoutFacts ==
  ASSUME NEW table, NEW key
  PROVE  /\ DOMAIN Without(table, key) = DOMAIN table \ {key}
         /\ \A k \in DOMAIN table \ {key} : Without(table, key)[k] = table[k]
BY DEF Without, Restrict

\* Orphaning changes the owner of the streams of those users, and no more.
LEMMA OrphanFacts ==
  ASSUME NEW streams, TxOK(streams), NEW us, NEW how \in {"LOST", "FREED"}
  PROVE  /\ TxOK(Orphan(streams, us, how))
         /\ DOMAIN Orphan(streams, us, how) = DOMAIN streams
         /\ \A i \in DOMAIN streams :
              LET s == streams[i]
                  t == Orphan(streams, us, how)[i]
              IN  /\ t.user = s.user /\ t.end = s.end /\ t.late = s.late
                  /\ t.owner = IF s.user \in us /\ s.owner = "MEMBER" THEN how ELSE s.owner
<1>1. \A s \in Tx : /\ [s EXCEPT !.owner = how] \in Tx
                    /\ [s EXCEPT !.owner = how].user = s.user
                    /\ [s EXCEPT !.owner = how].end = s.end
                    /\ [s EXCEPT !.owner = how].late = s.late
                    /\ [s EXCEPT !.owner = how].owner = how
  BY DEF Tx
<1>2. DOMAIN Orphan(streams, us, how) = DOMAIN streams
  BY DEF Orphan
<1>3. \A i \in DOMAIN streams :
        Orphan(streams, us, how)[i] =
          IF streams[i].user \in us /\ streams[i].owner = "MEMBER"
          THEN [streams[i] EXCEPT !.owner = how] ELSE streams[i]
  BY DEF Orphan
<1>4. ASSUME NEW i \in DOMAIN streams
      PROVE  LET s == streams[i]
                 t == Orphan(streams, us, how)[i]
             IN  /\ t \in Tx /\ t.user = s.user /\ t.end = s.end /\ t.late = s.late
                 /\ t.owner = IF s.user \in us /\ s.owner = "MEMBER" THEN how ELSE s.owner
  <2>1. streams[i] \in Tx
    BY DEF TxOK
  <2>2. CASE streams[i].user \in us /\ streams[i].owner = "MEMBER"
    BY <1>1, <1>3, <2>1, <2>2
  <2>3. CASE ~(streams[i].user \in us /\ streams[i].owner = "MEMBER")
    BY <1>3, <2>1, <2>3
  <2> QED BY <2>2, <2>3
<1> QED BY <1>2, <1>4 DEF TxOK

\* Streams whose users go are orphaned, and the rest are as young as they were.
LEMMA YoungOrphan ==
  ASSUME NEW streams, TxOK(streams), NEW users, NEW age \in Nat, Young(streams, users, age),
         NEW us, NEW how \in {"LOST", "FREED"},
         NEW users2, \A u \in DOMAIN users \ us : u \in DOMAIN users2 /\ users2[u] = users[u],
         NEW age2 \in Nat, age2 = age \/ age2 <= 1
  PROVE  Young(Orphan(streams, us, how), users2, age2)
<1> DEFINE orphaned == Orphan(streams, us, how)
<1> HIDE DEF orphaned
<1>1. /\ DOMAIN orphaned = DOMAIN streams
      /\ \A i \in DOMAIN streams :
           /\ orphaned[i].user = streams[i].user
           /\ orphaned[i].end = streams[i].end /\ orphaned[i].late = streams[i].late
           /\ orphaned[i].owner = "MEMBER" =>
                streams[i].owner = "MEMBER" /\ streams[i].user \notin us
  BY OrphanFacts DEF orphaned
<1>2. ASSUME NEW i \in DOMAIN streams, orphaned[i].owner = "MEMBER"
      PROVE  /\ orphaned[i].user \in DOMAIN users2
             /\ users2[orphaned[i].user] <= Waited(orphaned[i])
             /\ age2 <= 1 + Waited(orphaned[i])
  <2>1. Waited(orphaned[i]) = Waited(streams[i]) /\ Waited(streams[i]) \in Nat
    BY <1>1 DEF Waited
  <2>2. streams[i].owner = "MEMBER" /\ streams[i].user \notin us
    BY <1>1, <1>2
  <2>3. /\ streams[i].user \in DOMAIN users
        /\ users[streams[i].user] <= Waited(streams[i])
        /\ age <= 1 + Waited(streams[i])
    BY <2>2 DEF Young
  <2>4. orphaned[i].user = streams[i].user
    BY <1>1
  <2> QED BY <2>1, <2>2, <2>3, <2>4
<1> QED BY <1>1, <1>2 DEF Young, orphaned

\* The end of a stream that has waited a unit at most, by a frame or by a
\* time-out: the tables stay tables, and the owners of the others young.
LEMMA OverOK ==
  ASSUME StarNetTypeOK, NEW i \in DOMAIN tx, NEW kind \in TxKinds,
         NEW streams, TxOK(streams), DOMAIN streams = DOMAIN tx, streams[i].user = tx[i].user,
         NEW users, MembersOK(users), DOMAIN users = Members,
         NEW age \in Nat, Young(streams, users, age), Waited(streams[i]) <= 1,
         Over(i, kind, streams, users)
  PROVE  /\ TxOK(tx') /\ MembersOK(member') /\ nulls' \subseteq Users \ DOMAIN member'
         /\ speaker' \in {0, speaker} /\ relay' \in {relay, NoRelay}
         /\ Young(tx', member', age)
<1> DEFINE u == tx[i].user
           waits == [streams EXCEPT ![i].kind = kind, ![i].end = TRUE, ![i].late = FALSE]
<1>1. /\ DOMAIN waits = DOMAIN streams
      /\ \A j \in DOMAIN streams \ {i} : waits[j] = streams[j]
      /\ waits[i].user = u /\ waits[i].owner = streams[i].owner
      /\ waits[i].end = TRUE /\ waits[i].late = FALSE
      /\ waits[i] \in Tx
  <2>1. streams[i] \in Tx
    BY DEF TxOK
  <2>2. /\ waits[i] = [streams[i] EXCEPT !.kind = kind, !.end = TRUE, !.late = FALSE]
        /\ DOMAIN waits = DOMAIN streams
        /\ \A j \in DOMAIN streams \ {i} : waits[j] = streams[j]
    OBVIOUS
  <2>3. /\ [streams[i] EXCEPT !.kind = kind, !.end = TRUE, !.late = FALSE] \in Tx
        /\ [streams[i] EXCEPT !.kind = kind, !.end = TRUE, !.late = FALSE].user = streams[i].user
        /\ [streams[i] EXCEPT !.kind = kind, !.end = TRUE, !.late = FALSE].owner = streams[i].owner
        /\ [streams[i] EXCEPT !.kind = kind, !.end = TRUE, !.late = FALSE].end = TRUE
        /\ [streams[i] EXCEPT !.kind = kind, !.end = TRUE, !.late = FALSE].late = FALSE
    BY <2>1 DEF Tx, TxKinds
  <2> QED BY <2>2, <2>3
<1>2. /\ tx' = CASE kind = "TALK" -> Without(streams, i)
                 [] kind = "LOGOFF" -> Orphan(waits, {u}, "LOST")
                 [] OTHER -> waits
      /\ member' = IF kind = "LOGOFF" THEN Without(users, u) ELSE users
      /\ nulls' = IF kind = "LOGOFF" THEN nulls \ {u} ELSE nulls
      /\ speaker' = IF speaker = i THEN 0 ELSE speaker
      /\ relay' = IF speaker = i THEN NoRelay ELSE relay
  BY DEF Over
<1>3. TxOK(waits)
  BY <1>1 DEF TxOK
<1>4. Young(waits, users, age)
  <2>1. Waited(waits[i]) = 1
    BY <1>1 DEF Waited
  <2>2. ASSUME waits[i].owner = "MEMBER"
        PROVE  u \in DOMAIN users /\ users[u] <= 1 /\ age <= 1 + 1
    <3>1. users[u] \in Nat \/ u \notin DOMAIN users
      BY DEF MembersOK
    <3>2. /\ u \in DOMAIN users /\ users[u] <= Waited(streams[i]) /\ age <= 1 + Waited(streams[i])
      BY <1>1, <2>2 DEF Young
    <3>3. Waited(streams[i]) \in Nat
      BY DEF Waited
    <3> QED BY <3>1, <3>2, <3>3
  <2> QED BY <1>1, <2>1, <2>2 DEF Young, Waited
<1>5. TxOK(Without(streams, i)) /\ Young(Without(streams, i), users, age)
  <2> DEFINE rest == Without(streams, i)
  <2>1. DOMAIN rest = DOMAIN streams \ {i} /\ \A j \in DOMAIN rest : rest[j] = streams[j]
    BY WithoutFacts, ZenonT(60)
  <2> HIDE DEF rest
  <2>2. TxOK(rest) /\ Young(rest, users, age)
    BY <2>1 DEF TxOK, Young
  <2> QED BY <2>2 DEF rest
<1>6. MembersOK(Without(users, u)) /\ nulls \ {u} \subseteq Users \ DOMAIN Without(users, u)
  <2> DEFINE rest == Without(users, u)
  <2>1. DOMAIN rest = DOMAIN users \ {u} /\ \A v \in DOMAIN rest : rest[v] = users[v]
    BY WithoutFacts, ZenonT(60)
  <2> HIDE DEF rest, u, waits
  <2>2. MembersOK(rest) /\ nulls \ {u} \subseteq Users \ DOMAIN rest
    BY <2>1 DEF MembersOK, StarNetTypeOK
  <2> QED BY <2>2 DEF rest
<1>7. /\ TxOK(Orphan(waits, {u}, "LOST"))
      /\ Young(Orphan(waits, {u}, "LOST"), Without(users, u), age)
  <2> HIDE DEF waits
  <2>1. \A v \in DOMAIN users \ {u} : v \in DOMAIN Without(users, u) /\ Without(users, u)[v] = users[v]
    BY WithoutFacts, ZenonT(60)
  <2> QED BY <1>3, <1>4, <2>1, OrphanFacts, YoungOrphan
<1>8. nulls \subseteq Users \ DOMAIN users
  BY DEF StarNetTypeOK
<1> HIDE DEF waits, u
<1> QED BY <1>2, <1>3, <1>4, <1>5, <1>6, <1>7, <1>8

-----------------------------------------------------------------------------
\* The steps.

\* What every step shows of the tables it leaves.
TablesOK(streams, users, age) ==
  TxOK(streams) /\ MembersOK(users) /\ Young(streams, users, age) /\ age \in 0..(GroupLife + 1)

\* The speaker, the list of repeaters and the timer of the link.
RelayOK == /\ speaker \in Streams \cup {0} /\ relay \in [Repeaters -> {"NO", "YES", "STALE"}]
           /\ linkTimer \in {"OFF", "RUNNING"} /\ quiet \in BOOLEAN /\ defined \in BOOLEAN

\* The invariant, by the tables and the rest.
LEMMA InvParts ==
  StarNetInv <=> TablesOK(tx, member, groupAge) /\ nulls \subseteq Users \ Members /\ RelayOK
BY DEF StarNetInv, StarNetTypeOK, TablesOK, RelayOK, TxOK, MembersOK, YoungOwners, Members

\* A new stream of a member who has just been heard.
LEMMA NewTxOK ==
  ASSUME NEW streams, NEW users, NEW age, TablesOK(streams, users, age),
         NEW i \in Streams, NEW t \in Tx, NEW age2 \in 0..1,
         t.owner = "MEMBER" => t.user \in DOMAIN users /\ users[t.user] = 0
  PROVE  TablesOK(Store(streams, i, t), users, age2)
<1> DEFINE new == Store(streams, i, t)
<1>1. /\ DOMAIN new = DOMAIN streams \cup {i} /\ new[i] = t
      /\ \A j \in DOMAIN streams \ {i} : new[j] = streams[j]
  BY DEF Store
<1> HIDE DEF new
<1>2. TxOK(new)
  BY <1>1 DEF TablesOK, TxOK
<1>3. \A j \in DOMAIN new : Waited(new[j]) \in Nat
  BY DEF Waited
<1>4. Young(new, users, age2)
  BY <1>1, <1>3 DEF TablesOK, Young
<1>5. age2 \in 0..(GroupLife + 1)
  OBVIOUS
<1> QED BY <1>2, <1>4, <1>5 DEF TablesOK, new

\* A member is heard, or somebody becomes one.
LEMMA HeardOK ==
  ASSUME NEW streams, NEW users, NEW age, TablesOK(streams, users, age), NEW u \in Users
  PROVE  TablesOK(streams, Store(users, u, 0), age)
<1> DEFINE new == Store(users, u, 0)
<1>1. /\ DOMAIN new = DOMAIN users \cup {u} /\ new[u] = 0
      /\ \A v \in DOMAIN users \ {u} : new[v] = users[v]
  BY DEF Store
<1> HIDE DEF new
<1>2. MembersOK(new)
  BY <1>1 DEF TablesOK, MembersOK
<1>3. \A j \in DOMAIN streams : Waited(streams[j]) \in Nat
  BY DEF Waited
<1>4. Young(streams, new, age)
  BY <1>1, <1>3 DEF TablesOK, Young
<1> QED BY <1>2, <1>4 DEF TablesOK, new

\* A group timer that starts, starts young.
LEMMA StartedType == Started \in 0..1
BY DEF Started

\* The list of repeaters is added to.
LEMMA RelayType ==
  ASSUME relay \in [Repeaters -> {"NO", "YES", "STALE"}], NEW home, NEW but
  PROVE  RelayTo(home, but) \in [Repeaters -> {"NO", "YES", "STALE"}]
BY DEF RelayTo

\* A header to the group.
LEMMA GroupHeaderOK ==
  ASSUME StarNetInv, NEW u \in Users, NEW i \in Streams, GroupHeader(u, i) PROVE StarNetInv'
<1> DEFINE t == [user |-> u, owner |-> "MEMBER", end |-> FALSE, late |-> FALSE,
                 kind |-> IF u \in Members THEN "TALK" ELSE "LOGIN"]
           users == Store(member, u, 0)
<1>1. TablesOK(tx, member, groupAge) /\ nulls \subseteq Users \ Members /\ RelayOK
  BY InvParts
<1>2. t \in Tx /\ t.owner = "MEMBER" /\ t.user = u
  BY DEF Tx
<1>3. member' = users /\ nulls' = nulls \ {u} /\ quiet' = quiet
  BY DEF GroupHeader
<1>4. DOMAIN users = Members \cup {u} /\ users[u] = 0
  BY DEF Store, Members
<1>5. TablesOK(tx, users, groupAge)
  BY <1>1, HeardOK
<1>6. TablesOK(Store(tx, i, t), users, Started)
  <2> HIDE DEF t, users
  <2> QED BY <1>2, <1>4, <1>5, NewTxOK, StartedType
<1>7. /\ \/ tx' = tx /\ groupAge' = groupAge
         \/ tx' = Store(tx, i, t) /\ groupAge' = Started
      /\ linkTimer' = linkTimer
  BY DEF GroupHeader
<1>8. RelayOK'
  <2>1. \/ UNCHANGED <<speaker, relay, defined>>
        \/ /\ speaker' = i /\ defined' = ~Stale
           /\ \E home \in Homes(Members \cup {u}) : relay' = RelayTo(home, home[u])
    BY DEF GroupHeader
  <2>2. relay' \in [Repeaters -> {"NO", "YES", "STALE"}]
    BY <1>1, <2>1, RelayType DEF RelayOK
  <2>3. speaker' \in Streams \cup {0} /\ defined' \in BOOLEAN
    BY <1>1, <2>1 DEF RelayOK
  <2> QED BY <1>1, <1>3, <1>7, <2>2, <2>3 DEF RelayOK
<1> HIDE DEF t, users
<1>9. TablesOK(tx, member, groupAge)' /\ (nulls \subseteq Users \ Members)'
  BY <1>1, <1>3, <1>4, <1>5, <1>6, <1>7 DEF Members
<1> QED BY <1>8, <1>9, InvParts, PTL

\* A member is taken out of m_users, and the streams that point at him are not his any more.
LEMMA LeaveOK ==
  ASSUME NEW streams, NEW users, NEW age, TablesOK(streams, users, age),
         NEW us, NEW how \in {"LOST", "FREED"}, NEW users2, NEW age2 \in 0..(GroupLife + 1),
         age2 = age \/ age2 = 0, DOMAIN users2 = DOMAIN users \ us,
         \A v \in DOMAIN users2 : users2[v] = users[v]
  PROVE  TablesOK(Orphan(streams, us, how), users2, age2)
<1>1. TxOK(Orphan(streams, us, how))
  BY OrphanFacts DEF TablesOK
<1>2. MembersOK(users2)
  BY DEF TablesOK, MembersOK
<1>3. Young(Orphan(streams, us, how), users2, age2)
  BY YoungOrphan DEF TablesOK
<1> QED BY <1>1, <1>2, <1>3 DEF TablesOK

\* A header to the log-off callsign.
LEMMA LogoffHeaderOK ==
  ASSUME StarNetInv, NEW u \in Users, NEW i \in Streams, LogoffHeader(u, i) PROVE StarNetInv'
<1> DEFINE t == [user |-> u, owner |-> "LOST", kind |-> "LOGOFF", end |-> FALSE, late |-> FALSE]
           users == Without(member, u)
           streams == Orphan(tx, {u}, "LOST")
<1>1. TablesOK(tx, member, groupAge) /\ nulls \subseteq Users \ Members /\ RelayOK
  BY InvParts
<1>2. UNCHANGED <<speaker, relay, groupAge, linkTimer, quiet, defined>>
  BY DEF LogoffHeader
<1>3. CASE u \notin Members
  <2>1. nulls' = nulls \cup {u} /\ UNCHANGED <<member, tx>>
    BY <1>3 DEF LogoffHeader
  <2>2. TablesOK(tx, member, groupAge)' /\ (nulls \subseteq Users \ Members)' /\ RelayOK'
    BY <1>1, <1>2, <1>3, <2>1 DEF Members, RelayOK
  <2> QED BY <2>2, InvParts, PTL
<1>4. CASE u \in Members
  <2>1. member' = users /\ nulls' = nulls /\ tx' = Store(streams, i, t)
    BY <1>4 DEF LogoffHeader
  <2>2. DOMAIN users = Members \ {u} /\ \A v \in DOMAIN users : users[v] = member[v]
    BY WithoutFacts DEF Members
  <2>3. groupAge \in 0..(GroupLife + 1)
    BY <1>1 DEF TablesOK
  <2>4. TablesOK(streams, users, groupAge)
    <3> HIDE DEF users
    <3> QED BY <1>1, <2>2, <2>3, LeaveOK DEF Members
  <2>5. TxOK(Store(streams, i, t))
    <3>1. t \in Tx
      BY DEF Tx
    <3> HIDE DEF t, streams
    <3> QED BY <2>4, <3>1 DEF TablesOK, TxOK, Store
  <2>6. Young(Store(streams, i, t), users, groupAge)
    <3>1. t.owner # "MEMBER"
      OBVIOUS
    <3> HIDE DEF t, streams, users
    <3> QED BY <2>4, <3>1 DEF TablesOK, Young, Store
  <2>7. nulls \subseteq Users \ DOMAIN users
    BY <1>1, <2>2
  <2>8. TablesOK(tx, member, groupAge)' /\ (nulls \subseteq Users \ Members)'
    <3> HIDE DEF t, streams, users
    <3> QED BY <1>1, <1>2, <2>1, <2>4, <2>5, <2>6, <2>7 DEF TablesOK, Members
  <2>9. RelayOK'
    BY <1>1, <1>2 DEF RelayOK
  <2> QED BY <2>8, <2>9, InvParts, PTL
<1> QED BY <1>3, <1>4

\* A step that is not defined changes nothing else.
LEMMA UndefinedOK == ASSUME StarNetInv, Undefined, UNCHANGED quiet PROVE StarNetInv'
<1>1. TablesOK(tx, member, groupAge) /\ nulls \subseteq Users \ Members /\ RelayOK
  BY InvParts
<1>2. TablesOK(tx, member, groupAge)' /\ (nulls \subseteq Users \ Members)' /\ RelayOK'
  BY <1>1 DEF Undefined, group, Members, RelayOK
<1> QED BY <1>2, InvParts, PTL

\* A frame.
LEMMA FrameOK ==
  ASSUME StarNetInv, NEW i \in Streams, NEW text \in Texts, NEW end \in BOOLEAN, Frame(i, text, end)
  PROVE  StarNetInv'
<1> DEFINE kind == IF tx[i].kind = "TALK" THEN text ELSE tx[i].kind
           heard == [tx EXCEPT ![i].kind = kind, ![i].late = FALSE]
           users == IF tx[i].owner = "MEMBER" THEN [member EXCEPT ![tx[i].user] = 0] ELSE member
<1>1. TablesOK(tx, member, groupAge) /\ nulls \subseteq Users \ Members /\ RelayOK
  BY InvParts
<1>2. i \in DOMAIN tx
  BY DEF Frame
<1>3. CASE tx[i].owner = "FREED" \/ (i = speaker /\ Stale)
  BY <1>3, UndefinedOK DEF Frame
<1>4. CASE ~(tx[i].owner = "FREED" \/ (i = speaker /\ Stale))
  <2>1. /\ groupAge' = Started
        /\ IF end THEN Over(i, kind, heard, users)
                  ELSE /\ tx' = heard /\ member' = users
                       /\ UNCHANGED <<nulls, speaker, relay>>
        /\ UNCHANGED <<linkTimer, quiet, defined>>
    BY <1>4 DEF Frame, Defined
  <2>2. tx[i] \in Tx /\ kind \in TxKinds
    BY <1>1, <1>2 DEF TablesOK, TxOK, Tx, Texts, TxKinds
  <2>3. /\ DOMAIN heard = DOMAIN tx /\ heard[i] \in Tx
        /\ heard[i].user = tx[i].user /\ heard[i].owner = tx[i].owner
        /\ heard[i].end = tx[i].end /\ heard[i].late = FALSE
        /\ \A j \in DOMAIN tx \ {i} : heard[j] = tx[j]
    <3>1. /\ [tx[i] EXCEPT !.kind = kind, !.late = FALSE] \in Tx
          /\ [tx[i] EXCEPT !.kind = kind, !.late = FALSE].user = tx[i].user
          /\ [tx[i] EXCEPT !.kind = kind, !.late = FALSE].owner = tx[i].owner
          /\ [tx[i] EXCEPT !.kind = kind, !.late = FALSE].end = tx[i].end
          /\ [tx[i] EXCEPT !.kind = kind, !.late = FALSE].late = FALSE
      <4> HIDE DEF kind
      <4> QED BY <2>2 DEF Tx, TxKinds
    <3>2. /\ DOMAIN heard = DOMAIN tx
          /\ heard[i] = [tx[i] EXCEPT !.kind = kind, !.late = FALSE]
          /\ \A j \in DOMAIN tx \ {i} : heard[j] = tx[j]
      <4> HIDE DEF kind
      <4> QED BY <1>2
    <3> QED BY <3>1, <3>2
  <2>4. /\ DOMAIN users = Members
        /\ \A v \in Members : users[v] = IF tx[i].owner = "MEMBER" /\ v = tx[i].user THEN 0 ELSE member[v]
    BY DEF Members
  <2> HIDE DEF kind, heard, users
  <2>5. TxOK(heard)
    BY <1>1, <1>2, <2>3 DEF TablesOK, TxOK
  <2>6. MembersOK(users)
    BY <1>1, <2>4 DEF TablesOK, MembersOK, Members
  <2>7. \A j \in DOMAIN tx : Waited(heard[j]) \in Nat
    BY DEF Waited
  <2>8. Young(heard, users, Started)
    <3> SUFFICES ASSUME NEW j \in DOMAIN tx, heard[j].owner = "MEMBER"
                 PROVE  /\ heard[j].user \in DOMAIN users
                        /\ users[heard[j].user] <= Waited(heard[j])
                        /\ Started <= 1 + Waited(heard[j])
      BY <2>3 DEF Young
    <3>1. tx[j].owner = "MEMBER" /\ heard[j].user = tx[j].user
      BY <2>3
    <3>2. tx[j].user \in Members /\ member[tx[j].user] <= Waited(tx[j])
      BY <1>1, <3>1 DEF TablesOK, Young, Members
    <3>3. users[tx[j].user] <= Waited(heard[j])
      <4>1. CASE j = i
        BY <2>4, <2>7, <3>1, <3>2, <4>1
      <4>2. CASE j # i
        BY <2>3, <2>4, <2>7, <3>2, <4>2
      <4> QED BY <4>1, <4>2
    <3> QED BY <2>4, <2>7, <3>1, <3>2, <3>3, StartedType
  <2>9. Waited(heard[i]) <= 1
    BY <2>3 DEF Waited
  <2>10. CASE end
    <3>1. /\ TxOK(tx') /\ MembersOK(member') /\ nulls' \subseteq Users \ DOMAIN member'
          /\ speaker' \in {0, speaker} /\ relay' \in {relay, NoRelay}
          /\ Young(tx', member', Started)
      BY <1>2, <2>1, <2>2, <2>3, <2>4, <2>5, <2>6, <2>8, <2>9, <2>10, OverOK, StartedType DEF StarNetInv
    <3>2. TablesOK(tx, member, groupAge)' /\ (nulls \subseteq Users \ Members)'
      BY <2>1, <3>1, StartedType DEF TablesOK, Members
    <3>3. RelayOK'
      BY <1>1, <2>1, <3>1 DEF RelayOK, NoRelay
    <3> QED BY <3>2, <3>3, InvParts, PTL
  <2>11. CASE ~end
    <3>1. TablesOK(tx, member, groupAge)' /\ (nulls \subseteq Users \ Members)'
      BY <1>1, <2>1, <2>4, <2>5, <2>6, <2>8, <2>11, StartedType DEF TablesOK, Members
    <3>2. RelayOK'
      BY <1>1, <2>1, <2>11 DEF RelayOK
    <3> QED BY <3>1, <3>2, InvParts, PTL
  <2> QED BY <2>10, <2>11
<1> QED BY <1>3, <1>4

\* The remote control logs off everybody.
LEMMA ForgetAllOK == ASSUME StarNetInv, ForgetAll, Defined, UNCHANGED quiet PROVE StarNetInv'
<1>1. RelayOK
  BY InvParts
<1>2. tx' = <<>> /\ member' = <<>> /\ nulls' = {} /\ groupAge' = 0
  BY DEF ForgetAll
<1>3. TablesOK(tx, member, groupAge)' /\ (nulls \subseteq Users \ Members)'
  BY <1>2 DEF TablesOK, TxOK, MembersOK, Young, Members
<1>4. RelayOK'
  BY <1>1 DEF ForgetAll, Defined, RelayOK
<1> QED BY <1>3, <1>4, InvParts, PTL

\* The remote control logs off one.
LEMMA LogoffOneOK == ASSUME StarNetInv, NEW u \in Users, LogoffOne(u) PROVE StarNetInv'
<1>1. TablesOK(tx, member, groupAge) /\ nulls \subseteq Users \ Members /\ RelayOK
  BY InvParts
<1>2. CASE Members = {u}
  BY <1>2, UndefinedOK, ForgetAllOK DEF LogoffOne
<1>3. CASE Members # {u}
  <2>1. PICK i : /\ tx' = Orphan(Without(tx, i), {u}, "FREED")
                 /\ speaker' = IF i = speaker THEN 0 ELSE speaker
                 /\ member' = Without(member, u)
                 /\ UNCHANGED <<nulls, relay, groupAge, linkTimer, quiet, defined>>
    BY <1>3 DEF LogoffOne, Defined
  <2> DEFINE rest == Without(tx, i)
             users == Without(member, u)
  <2>2. DOMAIN rest = DOMAIN tx \ {i} /\ \A j \in DOMAIN rest : rest[j] = tx[j]
    BY WithoutFacts
  <2>3. DOMAIN users = Members \ {u} /\ \A v \in DOMAIN users : users[v] = member[v]
    BY WithoutFacts DEF Members
  <2>4. tx' = Orphan(rest, {u}, "FREED") /\ member' = users
    BY <2>1
  <2> HIDE DEF rest, users
  <2>5. TablesOK(rest, member, groupAge) /\ groupAge \in 0..(GroupLife + 1)
    BY <1>1, <2>2 DEF TablesOK, TxOK, Young
  <2>6. TablesOK(Orphan(rest, {u}, "FREED"), users, groupAge)
    BY <2>3, <2>5, LeaveOK DEF Members
  <2>7. TablesOK(tx, member, groupAge)' /\ (nulls \subseteq Users \ Members)'
    BY <1>1, <2>1, <2>3, <2>4, <2>6 DEF Members
  <2>8. RelayOK'
    BY <1>1, <2>1 DEF RelayOK
  <2> QED BY <2>7, <2>8, InvParts, PTL
<1> QED BY <1>2, <1>3

\* Every log-off by the remote control.
LEMMA RemoteLogoffOK == ASSUME StarNetInv, RemoteLogoff PROVE StarNetInv'
<1>1. ASSUME LogoffAll PROVE StarNetInv'
  BY <1>1, UndefinedOK, ForgetAllOK DEF LogoffAll
<1> QED BY <1>1, LogoffOneOK DEF RemoteLogoff

\* The steps that touch neither users nor streams: of the reflector, and the rest.
LEMMA RelayStepOK ==
  ASSUME StarNetInv, UNCHANGED <<tx, member, groupAge>>, (nulls \subseteq Users \ Members)', RelayOK'
  PROVE  StarNetInv'
<1>1. TablesOK(tx, member, groupAge)'
  BY InvParts DEF TablesOK
<1> QED BY <1>1, InvParts, PTL

\* The reflector, listing, strangers and silence.
LEMMA OthersOK ==
  ASSUME StarNetInv,
         \/ \E u \in Users : LogoffStranger(u)
         \/ GetInfo \/ Quiet \/ ExpireLink
         \/ \E i \in Streams : ReflectorHeader(i)
         \/ \E i \in Streams, end \in BOOLEAN : ReflectorFrame(i, end)
  PROVE  StarNetInv'
<1>1. nulls \subseteq Users \ Members /\ RelayOK
  BY InvParts
<1>2. ASSUME NEW u \in Users, LogoffStranger(u) PROVE StarNetInv'
  BY <1>1, <1>2, RelayStepOK DEF LogoffStranger, Members, RelayOK
<1>3. CASE GetInfo
  BY <1>3, UndefinedOK DEF GetInfo
<1>4. CASE Quiet
  BY <1>1, <1>4, RelayStepOK DEF Quiet, group, Members, RelayOK
<1>5. CASE ExpireLink
  <2>1. CASE Stale
    BY <1>5, <2>1, UndefinedOK DEF ExpireLink
  <2>2. CASE ~Stale
    BY <1>1, <1>5, <2>2, RelayStepOK DEF ExpireLink, Defined, Members, RelayOK, NoRelay
  <2> QED BY <2>1, <2>2
<1>6. ASSUME NEW i \in Streams, ReflectorHeader(i) PROVE StarNetInv'
  <2>1. PICK home : relay' = RelayTo(home, Nowhere)
    BY <1>6 DEF ReflectorHeader
  <2>2. RelayOK'
    BY <1>1, <1>6, <2>1, RelayType DEF ReflectorHeader, RelayOK
  <2> QED BY <1>1, <1>6, <2>2, RelayStepOK DEF ReflectorHeader, Members
<1>7. ASSUME NEW i \in Streams, NEW end \in BOOLEAN, ReflectorFrame(i, end) PROVE StarNetInv'
  <2>1. CASE Stale
    BY <1>7, <2>1, UndefinedOK DEF ReflectorFrame
  <2>2. CASE ~Stale
    BY <1>1, <1>7, <2>2, RelayStepOK DEF ReflectorFrame, Defined, Members, RelayOK, NoRelay
  <2> QED BY <2>1, <2>2
<1> QED BY <1>2, <1>3, <1>4, <1>5, <1>6, <1>7

\* A stream has been silent for too long: it is over, or its answer is given.
LEMMA ExpireStreamOK == ASSUME StarNetInv, NEW i \in Streams, ExpireStream(i) PROVE StarNetInv'
<1>1. TablesOK(tx, member, groupAge) /\ nulls \subseteq Users \ Members /\ RelayOK
  BY InvParts
<1>2. i \in DOMAIN tx /\ tx[i].late /\ tx[i] \in Tx
  BY <1>1 DEF ExpireStream, StreamDue, TablesOK, TxOK
<1>3. CASE tx[i].owner = "FREED" \/ (~tx[i].end /\ i = speaker /\ Stale)
  BY <1>3, UndefinedOK DEF ExpireStream
<1>4. CASE ~(tx[i].owner = "FREED" \/ (~tx[i].end /\ i = speaker /\ Stale))
  <2>1. /\ IF tx[i].end
           THEN tx' = Without(tx, i) /\ UNCHANGED <<member, nulls, speaker, relay>>
           ELSE Over(i, tx[i].kind, tx, member)
        /\ UNCHANGED <<groupAge, linkTimer, quiet, defined>>
    BY <1>4 DEF ExpireStream, Defined
  <2>2. CASE tx[i].end
    <3> DEFINE rest == Without(tx, i)
    <3>1. DOMAIN rest = DOMAIN tx \ {i} /\ \A j \in DOMAIN rest : rest[j] = tx[j]
      BY WithoutFacts
    <3>2. tx' = rest /\ UNCHANGED <<member, nulls, speaker, relay>>
      BY <2>1, <2>2
    <3> HIDE DEF rest
    <3>3. TablesOK(rest, member, groupAge)
      BY <1>1, <3>1 DEF TablesOK, TxOK, Young
    <3>4. TablesOK(tx, member, groupAge)' /\ (nulls \subseteq Users \ Members)' /\ RelayOK'
      BY <1>1, <2>1, <3>2, <3>3 DEF Members, RelayOK
    <3> QED BY <3>4, InvParts, PTL
  <2>3. CASE ~tx[i].end
    <3>1. Waited(tx[i]) <= 1 /\ tx[i].kind \in TxKinds
      BY <1>2, <2>3 DEF Waited, Tx, TxKinds
    <3>2. groupAge \in Nat
      BY <1>1 DEF TablesOK
    <3>3. /\ TxOK(tx') /\ MembersOK(member') /\ nulls' \subseteq Users \ DOMAIN member'
          /\ speaker' \in {0, speaker} /\ relay' \in {relay, NoRelay}
          /\ Young(tx', member', groupAge)
      BY <1>1, <1>2, <2>1, <2>3, <3>1, <3>2, OverOK DEF StarNetInv, TablesOK, Members
    <3>4. TablesOK(tx, member, groupAge)' /\ (nulls \subseteq Users \ Members)'
      BY <1>1, <2>1, <3>3 DEF TablesOK, Members
    <3>5. RelayOK'
      BY <1>1, <2>1, <3>3 DEF RelayOK, NoRelay
    <3> QED BY <3>4, <3>5, InvParts, PTL
  <2> QED BY <2>2, <2>3
<1> QED BY <1>3, <1>4

\* The time-outs of users and of the group: those that leave.
LEMMA ExpireUsersOK ==
  ASSUME StarNetInv, ExpireGroup \/ \E u \in Users : ExpireUser(u) PROVE StarNetInv'
<1>1. TablesOK(tx, member, groupAge) /\ nulls \subseteq Users \ Members /\ RelayOK
  BY InvParts
<1>2. groupAge \in 0..(GroupLife + 1)
  BY <1>1 DEF TablesOK
<1>3. CASE ExpireGroup
  <2> DEFINE users == Restrict(member, Members \cap Permanent)
  <2>1. DOMAIN users = Members \ (Members \ Permanent) /\ \A v \in DOMAIN users : users[v] = member[v]
    BY DEF Restrict, Members
  <2>2. /\ member' = users /\ nulls' = {} /\ tx' = Orphan(tx, Members \ Permanent, "FREED")
        /\ groupAge' = 0 /\ UNCHANGED <<speaker, relay, linkTimer, quiet, defined>>
    BY <1>3 DEF ExpireGroup
  <2> HIDE DEF users
  <2>3. TablesOK(Orphan(tx, Members \ Permanent, "FREED"), users, 0)
    BY <1>1, <2>1, LeaveOK DEF Members
  <2>4. TablesOK(tx, member, groupAge)' /\ (nulls \subseteq Users \ Members)' /\ RelayOK'
    BY <1>1, <2>2, <2>3 DEF RelayOK
  <2> QED BY <2>4, InvParts, PTL
<1>4. ASSUME NEW u \in Users, ExpireUser(u) PROVE StarNetInv'
  <2> DEFINE users == Without(member, u)
  <2>1. DOMAIN users = Members \ {u} /\ \A v \in DOMAIN users : users[v] = member[v]
    BY WithoutFacts DEF Members
  <2>2. /\ member' = users /\ tx' = Orphan(tx, {u}, "FREED")
        /\ UNCHANGED <<nulls, speaker, relay, groupAge, linkTimer, quiet, defined>>
    BY <1>4 DEF ExpireUser
  <2> HIDE DEF users
  <2>3. TablesOK(Orphan(tx, {u}, "FREED"), users, groupAge)
    BY <1>1, <1>2, <2>1, LeaveOK DEF Members
  <2>4. TablesOK(tx, member, groupAge)' /\ (nulls \subseteq Users \ Members)' /\ RelayOK'
    BY <1>1, <2>1, <2>2, <2>3 DEF RelayOK, Members
  <2> QED BY <2>4, InvParts, PTL
<1> QED BY <1>3, <1>4

\* A unit of time: no stream was late, and all are now.
LEMMA TickOK == ASSUME StarNetInv, Tick PROVE StarNetInv'
<1>1. TablesOK(tx, member, groupAge) /\ nulls \subseteq Users \ Members /\ RelayOK
  BY InvParts
<1>2. \A i \in DOMAIN tx : tx[i] \in Tx /\ ~tx[i].late
  BY <1>1 DEF Tick, StreamDue, TablesOK, TxOK
<1>3. /\ DOMAIN tx' = DOMAIN tx
      /\ \A i \in DOMAIN tx : tx'[i] = [tx[i] EXCEPT !.late = TRUE]
  BY DEF Tick
<1>4. \A t \in Tx : LET s == [t EXCEPT !.late = TRUE]
                    IN s \in Tx /\ s.user = t.user /\ s.owner = t.owner /\ s.end = t.end /\ s.late
  BY DEF Tx
<1>5. \A i \in DOMAIN tx : /\ tx'[i] \in Tx /\ tx'[i].user = tx[i].user /\ tx'[i].owner = tx[i].owner
                           /\ Waited(tx'[i]) = Waited(tx[i]) + 1 /\ Waited(tx[i]) \in Nat
  <2> TAKE i \in DOMAIN tx
  <2>1. tx[i] \in Tx /\ ~tx[i].late /\ tx'[i] = [tx[i] EXCEPT !.late = TRUE]
    BY <1>2, <1>3
  <2>2. /\ tx'[i] \in Tx /\ tx'[i].user = tx[i].user /\ tx'[i].owner = tx[i].owner
        /\ tx'[i].end = tx[i].end /\ tx'[i].late
    BY <1>4, <2>1, Zenon
  <2>3. Waited(tx'[i]) = Waited(tx[i]) + 1 /\ Waited(tx[i]) \in Nat
    BY <2>1, <2>2 DEF Waited
  <2> QED BY <2>2, <2>3
<1>6. /\ DOMAIN member' = Members
      /\ \A u \in Members : /\ member'[u] \in {member[u], member[u] + 1} /\ member'[u] \in 0..UserLife
                            /\ member[u] \in Nat
  BY <1>1 DEF Tick, TablesOK, MembersOK, Members
<1>7. groupAge' \in {groupAge, groupAge + 1} /\ groupAge' \in 0..(GroupLife + 1) /\ groupAge \in Nat
  BY <1>1 DEF Tick, TablesOK
<1>8. Young(tx', member', groupAge')
  <2> SUFFICES ASSUME NEW i \in DOMAIN tx, tx'[i].owner = "MEMBER"
               PROVE  /\ tx'[i].user \in DOMAIN member'
                      /\ member'[tx'[i].user] <= Waited(tx'[i])
                      /\ groupAge' <= 1 + Waited(tx'[i])
    BY <1>3 DEF Young
  <2>1. /\ tx[i].user \in Members /\ member[tx[i].user] <= Waited(tx[i])
        /\ groupAge <= 1 + Waited(tx[i])
    BY <1>1, <1>5 DEF TablesOK, Young, Members
  <2> QED BY <1>5, <1>6, <1>7, <2>1
<1>9. TablesOK(tx, member, groupAge)'
  BY <1>1, <1>3, <1>5, <1>6, <1>7, <1>8 DEF TablesOK, TxOK, MembersOK, Members
<1>10. (nulls \subseteq Users \ Members)' /\ RelayOK'
  BY <1>1, <1>6 DEF Tick, RelayOK, Members
<1> QED BY <1>9, <1>10, InvParts, PTL

-----------------------------------------------------------------------------
\* The type invariant, and with it that the owners of streams are young.

\* It holds of a group that has just been set up.
LEMMA InitInv == Init => StarNetInv
<1> SUFFICES ASSUME Init PROVE StarNetInv
  OBVIOUS
<1>1. /\ DOMAIN member = {} /\ DOMAIN tx = {} /\ nulls = {} /\ groupAge = 0
      /\ speaker = 0 /\ relay \in [Repeaters -> {"NO", "YES", "STALE"}]
      /\ linkTimer = "OFF" /\ quiet = FALSE /\ defined = TRUE
  BY DEF Init, NoRelay
<1>2. TxOK(tx) /\ MembersOK(member) /\ Young(tx, member, groupAge) /\ groupAge \in 0..(GroupLife + 1)
  BY <1>1 DEF TxOK, MembersOK, Young
<1> QED BY <1>1, <1>2, InvParts DEF TablesOK, RelayOK, Members

\* Every step keeps it.
LEMMA StepInv == StarNetInv /\ [Next]_vars => StarNetInv'
<1> SUFFICES ASSUME StarNetInv, [Next]_vars PROVE StarNetInv'
  OBVIOUS
<1>1. CASE UNCHANGED vars
  <2>1. TablesOK(tx, member, groupAge)' /\ (nulls \subseteq Users \ Members)' /\ RelayOK'
    BY <1>1, InvParts DEF vars, RelayOK, Members
  <2> QED BY <2>1, InvParts, PTL
<1>2. ASSUME NEW u \in Users, NEW i \in Streams, GroupHeader(u, i) PROVE StarNetInv'
  BY <1>2, GroupHeaderOK
<1>3. ASSUME NEW u \in Users, NEW i \in Streams, LogoffHeader(u, i) PROVE StarNetInv'
  BY <1>3, LogoffHeaderOK
<1>4. ASSUME NEW i \in Streams, NEW text \in Texts, NEW end \in BOOLEAN, Frame(i, text, end)
      PROVE  StarNetInv'
  BY <1>4, FrameOK
<1>5. CASE RemoteLogoff
  BY <1>5, RemoteLogoffOK
<1>6. CASE \/ \E u \in Users : LogoffStranger(u)
           \/ GetInfo \/ Quiet \/ ExpireLink
           \/ \E i \in Streams : ReflectorHeader(i)
           \/ \E i \in Streams, end \in BOOLEAN : ReflectorFrame(i, end)
  BY <1>6, OthersOK
<1>7. ASSUME NEW i \in Streams, ExpireStream(i) PROVE StarNetInv'
  BY <1>7, ExpireStreamOK
<1>8. CASE ExpireGroup \/ \E u \in Users : ExpireUser(u)
  BY <1>8, ExpireUsersOK
<1>9. CASE Tick
  BY <1>9, TickOK
<1> QED BY <1>1, <1>2, <1>3, <1>4, <1>5, <1>6, <1>7, <1>8, <1>9 DEF Next, Expire

\* Always.
LEMMA AlwaysInv == Spec => []StarNetInv
BY InitInv, StepInv, PTL DEF Spec

\* The types: users are configured callsigns, no one is both a member and a
\* null entry, the timers stay within the time-outs.
THEOREM StarNetTypes == Spec => []StarNetTypeOK
BY AlwaysInv, PTL DEF StarNetInv

-----------------------------------------------------------------------------
\* The stream that is relayed is one some timer is watching.

\* A stream m_ids has that is not over.
Open(streams) == {i \in DOMAIN streams : ~streams[i].end}

\* Orphaning opens no stream and closes none.
LEMMA OrphanOpen ==
  ASSUME NEW streams, TxOK(streams), NEW us, NEW how \in {"LOST", "FREED"}
  PROVE  Open(Orphan(streams, us, how)) = Open(streams)
<1> DEFINE orphaned == Orphan(streams, us, how)
<1>1. DOMAIN orphaned = DOMAIN streams /\ \A i \in DOMAIN streams : orphaned[i].end = streams[i].end
  BY OrphanFacts
<1> QED BY <1>1 DEF Open

\* A stream that is over is no longer relayed.
LEMMA OverWatched ==
  ASSUME NEW i, NEW kind \in TxKinds, NEW streams, TxOK(streams), i \in DOMAIN streams,
         Open(streams) \ {i} = Open(tx) \ {i}, NEW users, Over(i, kind, streams, users),
         SpeakerWatched, UNCHANGED linkTimer
  PROVE  SpeakerWatched'
<1> DEFINE waits == [streams EXCEPT ![i].kind = kind, ![i].end = TRUE, ![i].late = FALSE]
<1>1. Open(streams) \ {i} \subseteq Open(tx')
  <2>1. CASE kind = "TALK"
    <3>1. tx' = Without(streams, i)
      BY <2>1 DEF Over
    <3>2. /\ DOMAIN tx' = DOMAIN streams \ {i}
          /\ \A j \in DOMAIN streams \ {i} : tx'[j] = streams[j]
      BY <3>1, WithoutFacts
    <3> QED BY <3>2 DEF Open
  <2>2. CASE kind # "TALK"
    <3>1. TxOK(waits) /\ Open(streams) \ {i} \subseteq Open(waits)
      <4>1. \A s \in Tx : [[[s EXCEPT !.kind = kind] EXCEPT !.end = TRUE] EXCEPT !.late = FALSE] \in Tx
        BY DEF Tx, TxKinds
      <4>2. streams[i] \in Tx
        BY DEF TxOK
      <4>3. /\ DOMAIN waits = DOMAIN streams /\ waits[i] \in Tx
            /\ \A j \in DOMAIN streams \ {i} : waits[j] = streams[j]
        BY <4>1, <4>2
      <4> HIDE DEF waits
      <4> QED BY <4>3 DEF TxOK, Open
    <3>2. tx' = waits \/ tx' = Orphan(waits, {tx[i].user}, "LOST")
      BY <2>2 DEF Over
    <3> HIDE DEF waits
    <3> QED BY <3>1, <3>2, OrphanOpen
  <2> QED BY <2>1, <2>2
<1>2. speaker' = IF speaker = i THEN 0 ELSE speaker
  BY DEF Over
<1> QED BY <1>1, <1>2 DEF SpeakerWatched, Open

\* Steps that close no stream but the one that stops being relayed.
LEMMA OpenWatched ==
  ASSUME SpeakerWatched, linkTimer' = linkTimer,
         speaker' # 0 => speaker' = speaker /\ (speaker \in Open(tx) => speaker \in Open(tx'))
  PROVE  SpeakerWatched'
BY DEF SpeakerWatched, Open

\* Header, log-off header and frame.
LEMMA HeadersWatched ==
  ASSUME StarNetInv, SpeakerWatched, NEW i \in Streams,
         \E u \in Users : GroupHeader(u, i) \/ LogoffHeader(u, i)
  PROVE  SpeakerWatched'
<1>1. TxOK(tx)
  BY InvParts DEF TablesOK
<1>2. ASSUME NEW u \in Users, GroupHeader(u, i) PROVE SpeakerWatched'
  <2>1. CASE u \in Members /\ i \in DOMAIN tx
    BY <1>2, <2>1, OpenWatched DEF GroupHeader
  <2>2. CASE ~(u \in Members /\ i \in DOMAIN tx)
    <3>1. PICK t \in [end : {FALSE}, user : Users, owner : {"MEMBER"}, late : {FALSE},
                      kind : {"TALK", "LOGIN"}] : tx' = Store(tx, i, t)
      BY <1>2, <2>2 DEF GroupHeader
    <3>2. i \in Open(tx') /\ Open(tx) \subseteq Open(tx')
      BY <3>1 DEF Open, Store
    <3>3. linkTimer' = linkTimer /\ speaker' \in {speaker, i}
      BY <1>2, <2>2 DEF GroupHeader
    <3> QED BY <3>2, <3>3 DEF SpeakerWatched, Open
  <2> QED BY <2>1, <2>2
<1>3. ASSUME NEW u \in Users, LogoffHeader(u, i) PROVE SpeakerWatched'
  <2>1. CASE u \notin Members
    BY <1>3, <2>1, OpenWatched DEF LogoffHeader
  <2>2. CASE u \in Members
    <3> DEFINE orphaned == Orphan(tx, {u}, "LOST")
    <3>1. PICK t \in [end : {FALSE}, user : Users, owner : {"LOST"}, late : {FALSE},
                      kind : {"LOGOFF"}] : tx' = Store(orphaned, i, t)
      BY <1>3, <2>2 DEF LogoffHeader
    <3>2. Open(orphaned) = Open(tx)
      BY <1>1, OrphanOpen
    <3> HIDE DEF orphaned
    <3>3. Open(tx) \subseteq Open(tx')
      BY <3>1, <3>2 DEF Open, Store
    <3>4. linkTimer' = linkTimer /\ speaker' = speaker
      BY <1>3 DEF LogoffHeader
    <3> QED BY <3>3, <3>4, OpenWatched
  <2> QED BY <2>1, <2>2
<1> QED BY <1>2, <1>3

\* A frame: only one with the end flag closes a stream.
LEMMA FrameWatched ==
  ASSUME StarNetInv, SpeakerWatched,
         NEW i \in Streams, NEW text \in Texts, NEW end \in BOOLEAN, Frame(i, text, end)
  PROVE  SpeakerWatched'
<1> DEFINE kind == IF tx[i].kind = "TALK" THEN text ELSE tx[i].kind
           heard == [tx EXCEPT ![i].kind = kind, ![i].late = FALSE]
           users == IF tx[i].owner = "MEMBER" THEN [member EXCEPT ![tx[i].user] = 0] ELSE member
<1>1. TxOK(tx) /\ i \in DOMAIN tx
  BY InvParts DEF TablesOK, Frame
<1>2. tx[i] \in Tx
  BY <1>1 DEF TxOK
<1>3. kind \in TxKinds
  BY <1>2 DEF Tx, TxKinds, Texts
<1>4. CASE tx[i].owner = "FREED" \/ (i = speaker /\ Stale)
  BY <1>4, OpenWatched DEF Frame, Undefined, group
<1>5. CASE ~(tx[i].owner = "FREED" \/ (i = speaker /\ Stale))
  <2>1. /\ IF end THEN Over(i, kind, heard, users)
                  ELSE tx' = heard /\ UNCHANGED speaker
        /\ UNCHANGED linkTimer
    BY <1>5 DEF Frame
  <2> HIDE DEF kind, users
  <2>2. /\ DOMAIN heard = DOMAIN tx /\ heard[i] \in Tx /\ heard[i].end = tx[i].end
        /\ \A j \in DOMAIN tx \ {i} : heard[j] = tx[j]
    <3>1. LET h == [[tx[i] EXCEPT !.kind = kind] EXCEPT !.late = FALSE]
          IN  h \in Tx /\ h.end = tx[i].end
      BY <1>2, <1>3 DEF Tx, TxKinds
    <3> QED BY <1>1, <3>1
  <2> HIDE DEF heard
  <2>3. TxOK(heard) /\ Open(heard) = Open(tx)
    BY <1>1, <2>2 DEF TxOK, Open
  <2>4. CASE end
    BY <1>1, <1>3, <2>1, <2>2, <2>3, <2>4, OverWatched
  <2>5. CASE ~end
    BY <2>1, <2>3, <2>5, OpenWatched
  <2> QED BY <2>4, <2>5
<1> QED BY <1>4, <1>5

\* The remote control: who was relayed goes with his stream, or stays.
LEMMA RemoteWatched == ASSUME StarNetInv, SpeakerWatched, RemoteLogoff PROVE SpeakerWatched'
<1>1. TxOK(tx)
  BY InvParts DEF TablesOK
<1>2. ASSUME UNCHANGED group PROVE SpeakerWatched'
  BY <1>2, OpenWatched DEF group
<1>3. CASE LogoffAll
  BY <1>2, <1>3 DEF LogoffAll, Undefined, ForgetAll, SpeakerWatched
<1>4. ASSUME NEW u \in Users, LogoffOne(u) PROVE SpeakerWatched'
  <2>1. CASE Members = {u}
    BY <1>2, <1>4, <2>1 DEF LogoffOne, Undefined, ForgetAll, SpeakerWatched
  <2>2. CASE Members # {u}
    <3>1. PICK i : /\ tx' = Orphan(Without(tx, i), {u}, "FREED")
                   /\ speaker' = IF i = speaker THEN 0 ELSE speaker
                   /\ UNCHANGED linkTimer
      BY <1>4, <2>2 DEF LogoffOne
    <3> DEFINE rest == Without(tx, i)
    <3>2. DOMAIN rest = DOMAIN tx \ {i} /\ \A j \in DOMAIN tx \ {i} : rest[j] = tx[j]
      BY WithoutFacts
    <3>3. tx' = Orphan(rest, {u}, "FREED")
      BY <3>1
    <3> HIDE DEF rest
    <3>4. TxOK(rest) /\ Open(rest) = Open(tx) \ {i}
      BY <1>1, <3>2 DEF TxOK, Open
    <3>5. Open(tx') = Open(tx) \ {i}
      BY <3>3, <3>4, OrphanOpen
    <3> QED BY <3>1, <3>5, OpenWatched
  <2> QED BY <2>1, <2>2
<1> QED BY <1>3, <1>4 DEF RemoteLogoff

\* The reflector: its timer runs while it is relayed.
LEMMA ReflectorWatched ==
  ASSUME SpeakerWatched, NEW i \in Streams,
         ReflectorHeader(i) \/ \E end \in BOOLEAN : ReflectorFrame(i, end)
  PROVE  SpeakerWatched'
<1>1. ASSUME UNCHANGED group PROVE SpeakerWatched'
  BY <1>1, OpenWatched DEF group
<1>2. CASE ReflectorHeader(i)
  BY <1>2 DEF ReflectorHeader, SpeakerWatched
<1>3. ASSUME NEW end \in BOOLEAN, ReflectorFrame(i, end) PROVE SpeakerWatched'
  BY <1>1, <1>3 DEF ReflectorFrame, Undefined, SpeakerWatched
<1> QED BY <1>2, <1>3

\* The clock: what it closes or forgets is what stops being relayed.
LEMMA ClockWatched ==
  ASSUME StarNetInv, SpeakerWatched,
         \/ \E i \in Streams : ExpireStream(i)
         \/ ExpireGroup \/ (\E u \in Users : ExpireUser(u)) \/ Tick
  PROVE  SpeakerWatched'
<1>1. TxOK(tx)
  BY InvParts DEF TablesOK
<1>2. ASSUME NEW i \in Streams, ExpireStream(i) PROVE SpeakerWatched'
  <2>1. i \in DOMAIN tx /\ tx[i] \in Tx
    BY <1>1, <1>2 DEF ExpireStream, StreamDue, TxOK
  <2>2. CASE tx[i].owner = "FREED" \/ (~tx[i].end /\ i = speaker /\ Stale)
    BY <1>2, <2>2, OpenWatched DEF ExpireStream, Undefined, group
  <2>3. CASE ~(tx[i].owner = "FREED" \/ (~tx[i].end /\ i = speaker /\ Stale))
    <3>1. /\ IF tx[i].end THEN tx' = Without(tx, i) /\ UNCHANGED <<member, nulls, speaker, relay>>
                          ELSE Over(i, tx[i].kind, tx, member)
          /\ UNCHANGED linkTimer
      BY <1>2, <2>3 DEF ExpireStream
    <3>2. CASE tx[i].end
      <4>1. tx' = Without(tx, i) /\ speaker' = speaker
        BY <3>1, <3>2
      <4>2. DOMAIN tx' = DOMAIN tx \ {i} /\ \A j \in DOMAIN tx \ {i} : tx'[j] = tx[j]
        BY <4>1, WithoutFacts
      <4>3. Open(tx) \subseteq Open(tx')
        BY <3>2, <4>2 DEF Open
      <4> QED BY <3>1, <4>1, <4>3, OpenWatched
    <3>3. CASE ~tx[i].end
      <4>1. tx[i].kind \in TxKinds
        BY <2>1 DEF Tx, TxKinds
      <4> QED BY <1>1, <2>1, <3>1, <3>3, <4>1, OverWatched
    <3> QED BY <3>2, <3>3
  <2> QED BY <2>2, <2>3
<1>3. CASE ExpireGroup
  <2>1. Open(tx') = Open(tx) /\ UNCHANGED <<speaker, linkTimer>>
    BY <1>1, <1>3, OrphanOpen DEF ExpireGroup
  <2> QED BY <2>1, OpenWatched
<1>4. ASSUME NEW u \in Users, ExpireUser(u) PROVE SpeakerWatched'
  <2>1. Open(tx') = Open(tx) /\ UNCHANGED <<speaker, linkTimer>>
    BY <1>1, <1>4, OrphanOpen DEF ExpireUser
  <2> QED BY <2>1, OpenWatched
<1>5. CASE Tick
  <2>1. DOMAIN tx' = DOMAIN tx /\ \A i \in DOMAIN tx : tx'[i] = [tx[i] EXCEPT !.late = TRUE]
    BY <1>5 DEF Tick
  <2>2. \A s \in Tx : [s EXCEPT !.late = TRUE].end = s.end
    BY DEF Tx
  <2>3. \A i \in DOMAIN tx : tx'[i].end = tx[i].end
    BY <1>1, <2>1, <2>2 DEF TxOK
  <2>4. Open(tx') = Open(tx)
    BY <2>1, <2>3 DEF Open
  <2> QED BY <1>5, <2>4, OpenWatched DEF Tick
<1> QED BY <1>2, <1>3, <1>4, <1>5

\* The stream that keeps all others from being relayed is in m_ids and not
\* over, or is the reflector's, whose timer runs: some time-out will end it,
\* whatever headers, log-offs and remote commands come in between.
THEOREM SpeakerIsWatched == Spec => []SpeakerWatched
<1>1. Init => SpeakerWatched
  BY DEF Init, SpeakerWatched
<1>2. StarNetInv /\ SpeakerWatched /\ [Next]_vars => SpeakerWatched'
  <2> SUFFICES ASSUME StarNetInv, SpeakerWatched, [Next]_vars PROVE SpeakerWatched'
    OBVIOUS
  <2>1. ASSUME UNCHANGED group PROVE SpeakerWatched'
    BY <2>1, OpenWatched DEF group
  <2>2. CASE UNCHANGED vars
    BY <2>1, <2>2 DEF vars, group
  <2>3. ASSUME NEW i \in Streams, \E u \in Users : GroupHeader(u, i) \/ LogoffHeader(u, i)
        PROVE  SpeakerWatched'
    BY <2>3, HeadersWatched
  <2>4. ASSUME NEW i \in Streams, NEW text \in Texts, NEW end \in BOOLEAN, Frame(i, text, end)
        PROVE  SpeakerWatched'
    BY <2>4, FrameWatched
  <2>5. CASE RemoteLogoff
    BY <2>5, RemoteWatched
  <2>6. CASE (\E u \in Users : LogoffStranger(u)) \/ GetInfo \/ Quiet
    BY <2>6, OpenWatched DEF LogoffStranger, GetInfo, Undefined, Quiet, group
  <2>7. ASSUME NEW i \in Streams,
               ReflectorHeader(i) \/ \E end \in BOOLEAN : ReflectorFrame(i, end)
        PROVE  SpeakerWatched'
    BY <2>7, ReflectorWatched
  <2>8. CASE ExpireLink
    <3>1. UNCHANGED group \/ speaker' = 0
      BY <2>8 DEF ExpireLink, Undefined
    <3> QED BY <2>1, <3>1 DEF SpeakerWatched
  <2>9. CASE \/ \E i \in Streams : ExpireStream(i)
             \/ ExpireGroup \/ (\E u \in Users : ExpireUser(u)) \/ Tick
    BY <2>9, ClockWatched
  <2> QED BY <2>2, <2>3, <2>4, <2>5, <2>6, <2>7, <2>8, <2>9 DEF Next, Expire
<1> QED BY <1>1, <1>2, AlwaysInv, PTL DEF Spec

-----------------------------------------------------------------------------
\* Only the remote control deletes a user a stream points at.

Freed(streams) == \E i \in DOMAIN streams : streams[i].owner = "FREED"

\* Orphaning frees an owner only if it is told to and there is a stream of his.
LEMMA OrphanFreed ==
  ASSUME NEW streams, TxOK(streams), NEW us, NEW how \in {"LOST", "FREED"},
         how = "LOST" \/ \A i \in DOMAIN streams : streams[i].owner = "MEMBER" => streams[i].user \notin us,
         Freed(Orphan(streams, us, how))
  PROVE  Freed(streams)
<1> DEFINE orphaned == Orphan(streams, us, how)
<1>1. /\ DOMAIN orphaned = DOMAIN streams
      /\ \A i \in DOMAIN streams :
           orphaned[i].owner = IF streams[i].user \in us /\ streams[i].owner = "MEMBER"
                               THEN how ELSE streams[i].owner
  BY OrphanFacts
<1>2. PICK i \in DOMAIN orphaned : orphaned[i].owner = "FREED"
  BY DEF Freed
<1> HIDE DEF orphaned
<1>3. i \in DOMAIN streams /\ streams[i].owner = "FREED"
  BY <1>1, <1>2
<1> QED BY <1>3 DEF Freed

\* A stream that is over frees nobody.
LEMMA OverFreed ==
  ASSUME NEW i, NEW kind \in TxKinds, NEW streams, TxOK(streams), i \in DOMAIN streams,
         NEW users, Over(i, kind, streams, users), Freed(tx')
  PROVE  Freed(streams)
<1> DEFINE waits == [streams EXCEPT ![i].kind = kind, ![i].end = TRUE, ![i].late = FALSE]
<1>1. CASE kind = "TALK"
  <2>1. tx' = Without(streams, i)
    BY <1>1 DEF Over
  <2>2. DOMAIN tx' = DOMAIN streams \ {i} /\ \A j \in DOMAIN streams \ {i} : tx'[j] = streams[j]
    BY <2>1, WithoutFacts
  <2> QED BY <2>2 DEF Freed
<1>2. CASE kind # "TALK"
  <2>1. \A s \in Tx : LET w == [[[s EXCEPT !.kind = kind] EXCEPT !.end = TRUE] EXCEPT !.late = FALSE]
                      IN  w \in Tx /\ w.owner = s.owner
    BY DEF Tx, TxKinds
  <2>2. streams[i] \in Tx
    BY DEF TxOK
  <2>3. /\ DOMAIN waits = DOMAIN streams /\ waits[i] \in Tx /\ waits[i].owner = streams[i].owner
        /\ \A j \in DOMAIN streams \ {i} : waits[j] = streams[j]
    BY <2>1, <2>2
  <2>4. tx' = waits \/ tx' = Orphan(waits, {tx[i].user}, "LOST")
    BY <1>2 DEF Over
  <2> HIDE DEF waits
  <2>5. TxOK(waits) /\ (Freed(waits) => Freed(streams))
    BY <2>3 DEF TxOK, Freed
  <2> QED BY <2>4, <2>5, OrphanFreed
<1> QED BY <1>1, <1>2

\* Headers and frames free nobody.
LEMMA InputFreed ==
  ASSUME StarNetInv, Freed(tx'), NEW i \in Streams,
         \/ \E u \in Users : GroupHeader(u, i) \/ LogoffHeader(u, i)
         \/ \E text \in Texts, end \in BOOLEAN : Frame(i, text, end)
  PROVE  Freed(tx)
<1>1. TxOK(tx)
  BY InvParts DEF TablesOK
<1>2. ASSUME NEW u \in Users, GroupHeader(u, i) PROVE Freed(tx)
  <2>1. CASE tx' = tx
    BY <2>1
  <2>2. CASE tx' # tx
    <3>1. PICK t \in [end : {FALSE}, user : Users, owner : {"MEMBER"}, late : {FALSE},
                      kind : {"TALK", "LOGIN"}] : tx' = Store(tx, i, t)
      BY <1>2, <2>2 DEF GroupHeader
    <3> QED BY <3>1 DEF Freed, Store
  <2> QED BY <2>1, <2>2
<1>3. ASSUME NEW u \in Users, LogoffHeader(u, i) PROVE Freed(tx)
  <2>1. CASE u \notin Members
    BY <1>3, <2>1 DEF LogoffHeader
  <2>2. CASE u \in Members
    <3> DEFINE orphaned == Orphan(tx, {u}, "LOST")
    <3>1. PICK t \in [end : {FALSE}, user : Users, owner : {"LOST"}, late : {FALSE},
                      kind : {"LOGOFF"}] : tx' = Store(orphaned, i, t)
      BY <1>3, <2>2 DEF LogoffHeader
    <3>2. Freed(orphaned) => Freed(tx)
      BY <1>1, OrphanFreed
    <3> HIDE DEF orphaned
    <3>3. Freed(orphaned)
      BY <3>1 DEF Freed, Store
    <3> QED BY <3>2, <3>3
  <2> QED BY <2>1, <2>2
<1>4. ASSUME NEW text \in Texts, NEW end \in BOOLEAN, Frame(i, text, end) PROVE Freed(tx)
  <2> DEFINE kind == IF tx[i].kind = "TALK" THEN text ELSE tx[i].kind
             heard == [tx EXCEPT ![i].kind = kind, ![i].late = FALSE]
             users == IF tx[i].owner = "MEMBER" THEN [member EXCEPT ![tx[i].user] = 0] ELSE member
  <2>1. i \in DOMAIN tx /\ tx[i] \in Tx
    BY <1>1, <1>4 DEF Frame, TxOK
  <2>2. kind \in TxKinds
    BY <2>1 DEF Tx, TxKinds, Texts
  <2>3. \/ tx' = tx
        \/ IF end THEN Over(i, kind, heard, users) ELSE tx' = heard
    BY <1>4 DEF Frame, Undefined, group
  <2> HIDE DEF kind, users
  <2>4. /\ DOMAIN heard = DOMAIN tx /\ heard[i] \in Tx /\ heard[i].owner = tx[i].owner
        /\ \A j \in DOMAIN tx \ {i} : heard[j] = tx[j]
    <3>1. LET h == [[tx[i] EXCEPT !.kind = kind] EXCEPT !.late = FALSE]
          IN  h \in Tx /\ h.owner = tx[i].owner
      BY <2>1, <2>2 DEF Tx, TxKinds
    <3> QED BY <2>1, <3>1
  <2> HIDE DEF heard
  <2>5. TxOK(heard) /\ (Freed(heard) => Freed(tx))
    BY <1>1, <2>4 DEF TxOK, Freed
  <2> QED BY <2>1, <2>2, <2>3, <2>4, <2>5, OverFreed
<1> QED BY <1>2, <1>3, <1>4

\* The clock frees nobody: who has a stream is too young for a time-out.
LEMMA ClockFreed ==
  ASSUME StarNetInv, Freed(tx'),
         \/ \E i \in Streams : ExpireStream(i)
         \/ ExpireGroup \/ (\E u \in Users : ExpireUser(u)) \/ Tick
  PROVE  Freed(tx)
<1>1. TxOK(tx) /\ MembersOK(member) /\ Young(tx, member, groupAge) /\ groupAge \in Nat
  BY InvParts DEF TablesOK
<1>2. \A i \in DOMAIN tx : Waited(tx[i]) \in 0..2
  BY DEF Waited
<1>3. ASSUME NEW i \in Streams, ExpireStream(i) PROVE Freed(tx)
  <2>1. i \in DOMAIN tx /\ tx[i] \in Tx
    BY <1>1, <1>3 DEF ExpireStream, StreamDue, TxOK
  <2>2. \/ tx' = tx \/ tx' = Without(tx, i) \/ Over(i, tx[i].kind, tx, member)
    BY <1>3 DEF ExpireStream, Undefined, group
  <2>3. CASE tx' = Without(tx, i)
    <3>1. DOMAIN tx' = DOMAIN tx \ {i} /\ \A j \in DOMAIN tx \ {i} : tx'[j] = tx[j]
      BY <2>3, WithoutFacts
    <3> QED BY <3>1 DEF Freed
  <2>4. tx[i].kind \in TxKinds
    BY <2>1 DEF Tx, TxKinds
  <2> QED BY <1>1, <2>1, <2>2, <2>3, <2>4, OverFreed
<1>4. CASE ExpireGroup
  <2>1. groupAge > GroupLife /\ GroupLife \in Nat /\ GroupLife >= 3
    BY <1>4 DEF ExpireGroup, GroupDue
  <2>2. \A i \in DOMAIN tx : tx[i].owner # "MEMBER"
    BY <1>1, <1>2, <2>1 DEF Young
  <2>3. tx' = Orphan(tx, Members \ Permanent, "FREED")
    BY <1>4 DEF ExpireGroup
  <2> QED BY <1>1, <2>2, <2>3, OrphanFreed
<1>5. ASSUME NEW u \in Users, ExpireUser(u) PROVE Freed(tx)
  <2>1. u \in DOMAIN member /\ member[u] \in Nat /\ member[u] >= 3
    BY <1>1, <1>5 DEF ExpireUser, UserDue, Members, MembersOK
  <2>2. \A i \in DOMAIN tx : tx[i].owner = "MEMBER" => tx[i].user # u
    BY <1>1, <1>2, <2>1 DEF Young
  <2>3. tx' = Orphan(tx, {u}, "FREED")
    BY <1>5 DEF ExpireUser
  <2> QED BY <1>1, <2>2, <2>3, OrphanFreed
<1>6. CASE Tick
  <2>1. DOMAIN tx' = DOMAIN tx /\ \A i \in DOMAIN tx : tx'[i] = [tx[i] EXCEPT !.late = TRUE]
    BY <1>6 DEF Tick
  <2>2. \A s \in Tx : [s EXCEPT !.late = TRUE].owner = s.owner
    BY DEF Tx
  <2>3. \A i \in DOMAIN tx : tx'[i].owner = tx[i].owner
    BY <1>1, <2>1, <2>2 DEF TxOK
  <2> QED BY <2>1, <2>3 DEF Freed
<1> QED BY <1>3, <1>4, <1>5, <1>6

\* No time-out, header or frame deletes a user a stream still points at, for
\* any time-outs that are multiples of a minute: only the remote control does.
THEOREM OwnersOutlive == Spec => UsersOutliveStreams
<1>1. StarNetInv /\ [Next]_vars
        => [(\E i \in DOMAIN tx : tx[i].owner = "FREED")' =>
              (\E i \in DOMAIN tx : tx[i].owner = "FREED") \/ RemoteLogoff]_vars
  <2> SUFFICES ASSUME StarNetInv, Next, Freed(tx'), ~RemoteLogoff PROVE Freed(tx)
    BY DEF Freed
  <2>1. ASSUME NEW i \in Streams,
               \/ \E u \in Users : GroupHeader(u, i) \/ LogoffHeader(u, i)
               \/ \E text \in Texts, end \in BOOLEAN : Frame(i, text, end)
        PROVE  Freed(tx)
    BY <2>1, InputFreed
  <2>2. CASE \/ \E i \in Streams : ExpireStream(i)
             \/ ExpireGroup \/ (\E u \in Users : ExpireUser(u)) \/ Tick
    BY <2>2, ClockFreed
  <2>3. CASE \/ (\E u \in Users : LogoffStranger(u)) \/ GetInfo \/ Quiet \/ ExpireLink
             \/ \E i \in Streams : ReflectorHeader(i)
             \/ \E i \in Streams, end \in BOOLEAN : ReflectorFrame(i, end)
    <3>1. tx' = tx
      BY <2>3 DEF LogoffStranger, GetInfo, Undefined, Quiet, ExpireLink, ReflectorHeader,
                  ReflectorFrame, group
    <3> QED BY <3>1
  <2> QED BY <2>1, <2>2, <2>3 DEF Next, Expire
<1> QED BY <1>1, AlwaysInv, PTL DEF Spec, UsersOutliveStreams

================================================================================
