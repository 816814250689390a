-------------------------- MODULE OutgoingLinksProofs --------------------------
(***************************************************************************)
(* Proofs about the reflector links of RepeaterHandler, for any protocols, *)
(* hosts files, table sizes, links of other repeaters, commands and order  *)
(* of messages, when no two callsigns in play differ in the module letter  *)
(* alone (OneModule).  A change of module is the only thing that makes     *)
(* linkFailed() link again from inside the loops that unlink, and it does  *)
(* break the properties proved here: the README names how.                 *)
(*                                                                         *)
(* Two predicates on a link state and the cache carry the proofs.  Base    *)
(* holds at every point inside a handler.  Whole adds what only holds when *)
(* the handler has returned: it is the inductive invariant, and contains   *)
(* each property.  Sheds is what nearly every handler does to the links:   *)
(* slots are given up, and the repeater may be told that it is not linked. *)
(***************************************************************************)
EXTENDS RepeaterProofs

OneModule == \A m, n \in Modules : m = n

\* The hosts files name every reflector.
KnownReflectors == \A f \in ReflectorFamilies : InitialCache[f] # "UNKNOWN"

CacheType == [Families -> Vias \cup {"UNKNOWN"}]

Acts(l, table) == {i \in Slots : l.slots[table][i].st \in Active}
Silent(l) == \A table \in Tables : Acts(l, table) = {}

\* An outgoing link is in the table of the protocol its gateway is known by,
\* and a DExtra link is never left to wait for the answer to its disconnect.
Placed(s, table, k) ==
  s.st \in Active \cup {"UNLINKING"} =>
    /\ s.call \in Calls /\ k[s.call.fam] \in Vias /\ TableOf(k[s.call.fam]) = table
    /\ table = "DEXTRA" => s.st # "UNLINKING"

\* ircDDB, that answers a search, knows DExtra gateways only.
Searched(l, k) ==
  l.status = "PENDING_IRCDDB" =>
    /\ l.via = "NONE"
    /\ l.repeater \in Calls => k[l.repeater.fam] \in {"UNKNOWN", "DEXTRA"}

NoCcs(l) == CcsOn \/ (l.ccs = "DISABLED" /\ l.last = NoCall /\ l.via # "CCS")

Base(l, k) ==
  /\ l \in LinkState /\ k \in CacheType
  /\ ~l.relink
  /\ NoCcs(l)
  /\ \A table \in Tables : \A i \in Slots : Placed(l.slots[table][i], table, k)
  /\ Searched(l, k)
  /\ KnownReflectors => \A f \in ReflectorFamilies : k[f] # "UNKNOWN"

Homed(l) ==
  KnownReflectors /\ l.mode = "FIXED" /\ l.status # "NONE" /\ ~ByCcs(l) =>
    l.repeater = l.startup

Alone(l) == ByCcs(l) /\ l.status = "LINKED" => Silent(l)

Aimed(l) ==
  l.status # "NONE" =>
    \A table \in Tables : \A i \in Acts(l, table) :
      /\ l.slots[table][i].call = l.repeater
      /\ l.via \in Vias /\ TableOf(l.via) = table

Followed(l) ==
  \A i \in Acts(l, "DEXTRA") :
    /\ Acts(l, "DEXTRA") = {i}
    /\ l.via = "DEXTRA" /\ l.repeater = l.slots["DEXTRA"][i].call
    /\ l.status = l.slots["DEXTRA"][i].st

Whole(l, k) ==
  /\ Base(l, k) /\ Homed(l) /\ Alone(l)
  /\ CcsOn \/ (Aimed(l) /\ Followed(l))

--------------------------------------------------------------------------------
\* Giving links up.

GivenUp(s, r, table) ==
  \/ r = s
  \/ r.st \notin Active \cup {"UNLINKING"}
  \/ table # "DEXTRA" /\ s.st \in Active /\ r.st = "UNLINKING" /\ r.call = s.call

Sheds(l, m) ==
  /\ m.relink = l.relink /\ m.mode = l.mode /\ m.startup = l.startup
  /\ CcsOn \/ (m.ccs = l.ccs /\ m.last = l.last)
  /\ \A table \in Tables : \A i \in Slots :
       GivenUp(l.slots[table][i], m.slots[table][i], table)
  /\ \/ m.status = l.status /\ m.via = l.via /\ m.repeater = l.repeater
     \/ m.status = "NONE" /\ m.via = "NONE" /\ (CcsOn \/ Acts(m, "DEXTRA") = {})

\* A slot given up in one step and then in another is given up.
LEMMA GivenUpTwice ==
  ASSUME NEW s, NEW r, NEW q, NEW table, GivenUp(s, r, table), GivenUp(r, q, table)
  PROVE  GivenUp(s, q, table)
BY DEF GivenUp, Active

\* The links that are left carried audio before, and are as they were.
LEMMA ActsLeft ==
  ASSUME NEW l, NEW m, Sheds(l, m), NEW table \in Tables, NEW i \in Acts(m, table)
  PROVE  i \in Acts(l, table) /\ m.slots[table][i] = l.slots[table][i]
BY DEF Sheds, GivenUp, Acts, Active

\* Two steps that give links up are one.
LEMMA ShedsTwice ==
  ASSUME NEW l, NEW m, NEW n, Sheds(l, m), Sheds(m, n) PROVE Sheds(l, n)
<1>1. \A table \in Tables : \A i \in Slots :
        GivenUp(l.slots[table][i], n.slots[table][i], table)
  BY GivenUpTwice DEF Sheds
<1>2. Acts(m, "DEXTRA") = {} => Acts(n, "DEXTRA") = {}
  BY ActsLeft DEF Tables
<1> QED BY <1>1, <1>2 DEF Sheds

\* Giving links up keeps what holds inside a handler.
LEMMA ShedsBase ==
  ASSUME NEW l, NEW k, Base(l, k), NEW m \in LinkState, Sheds(l, m) PROVE Base(m, k)
<1>1. NoCcs(m)
  BY DEF Base, NoCcs, Sheds
<1>2. Searched(m, k)
  BY DEF Base, Searched, Sheds
<1>3. \A table \in Tables : \A i \in Slots : Placed(m.slots[table][i], table, k)
  <2> SUFFICES ASSUME NEW table \in Tables, NEW i \in Slots
               PROVE  Placed(m.slots[table][i], table, k)
    OBVIOUS
  <2>1. Placed(l.slots[table][i], table, k)
    BY DEF Base
  <2>2. GivenUp(l.slots[table][i], m.slots[table][i], table)
    BY DEF Sheds
  <2> QED BY <2>1, <2>2 DEF Placed, GivenUp
<1> QED BY <1>1, <1>2, <1>3 DEF Base, Sheds

\* Nothing is heard where nothing was.
LEMMA ShedsSilent ==
  ASSUME NEW l, NEW m, Sheds(l, m), Silent(l) PROVE Silent(m)
BY ActsLeft DEF Silent

Tame(l) == CcsOn \/ (Aimed(l) /\ Followed(l))

\* Giving links up keeps the links that are left aimed at the repeater's target.
LEMMA ShedsTame ==
  ASSUME NEW l, NEW m, Sheds(l, m), Tame(l) PROVE Tame(m)
<1> SUFFICES ASSUME ~CcsOn PROVE Aimed(m) /\ Followed(m)
  BY DEF Tame
<1>1. Aimed(l) /\ Followed(l)
  BY DEF Tame
<1>2. CASE m.status = l.status /\ m.via = l.via /\ m.repeater = l.repeater
  <2>1. Aimed(m)
    BY <1>1, <1>2, ActsLeft DEF Aimed
  <2>2. Followed(m)
    BY <1>1, <1>2, ActsLeft DEF Followed, Tables
  <2> QED BY <2>1, <2>2
<1>3. CASE m.status = "NONE" /\ Acts(m, "DEXTRA") = {}
  BY <1>3 DEF Aimed, Followed
<1> QED BY <1>2, <1>3 DEF Sheds

\* Giving links up keeps the whole invariant.
LEMMA ShedsWhole ==
  ASSUME NEW l, NEW k, Whole(l, k), NEW m \in LinkState, Sheds(l, m) PROVE Whole(m, k)
<1>1. Base(m, k)
  BY ShedsBase DEF Whole
<1>2. Homed(m)
  BY DEF Whole, Homed, Sheds, ByCcs
<1>3. Alone(m)
  BY ShedsSilent DEF Whole, Alone, Sheds, ByCcs
<1>4. Tame(m)
  BY ShedsTame DEF Whole, Tame
<1> QED BY <1>1, <1>2, <1>3, <1>4 DEF Whole, Tame

--------------------------------------------------------------------------------
\* What gives links up.

\* A change of the timers, of an announcement or of a question to the CCS
\* server gives up nothing.
LEMMA EditSheds ==
  ASSUME NEW l, NEW m,
         m.relink = l.relink, m.mode = l.mode, m.startup = l.startup, m.ccs = l.ccs,
         m.last = l.last, m.slots = l.slots,
         m.status = l.status, m.via = l.via, m.repeater = l.repeater
  PROVE  Sheds(l, m)
BY DEF Sheds, GivenUp

\* Telling the repeater that it is not linked, when no DExtra link is left.
LEMMA NotLinkedSheds ==
  ASSUME NEW l \in LinkState, CcsOn \/ Acts(l, "DEXTRA") = {} PROVE Sheds(l, NotLinked(l))
BY DEF Sheds, NotLinked, LinkState, GivenUp, Acts

\* The announcement of a state.
LEMMA AnnounceSheds == ASSUME NEW l \in LinkState PROVE Sheds(l, Announce(l))
<1>1. Announce(l) = [l EXCEPT !.announce = TRUE]
  BY DEF Announce
<1> QED BY <1>1, EditSheds DEF LinkState

\* A table in which some slots are given up.
LEMMA PutSheds ==
  ASSUME NEW l \in LinkState, NEW table \in Tables, NEW t \in Table,
         \A i \in Slots : GivenUp(l.slots[table][i], t[i], table)
  PROVE  /\ Sheds(l, Put(l, table, t)) /\ Put(l, table, t) \in LinkState
         /\ Put(l, table, t).slots = [l.slots EXCEPT ![table] = t]
<1>1. Put(l, table, t) \in LinkState
  BY PutType
<1>2. Put(l, table, t) = [l EXCEPT !.slots = [l.slots EXCEPT ![table] = t]]
  BY DEF Put, LinkState
<1>3. l.slots \in [Tables -> Table]
  BY DEF LinkState
<1> DEFINE m == Put(l, table, t)
<1>4. /\ m.relink = l.relink /\ m.mode = l.mode /\ m.startup = l.startup
      /\ m.ccs = l.ccs /\ m.last = l.last
      /\ m.status = l.status /\ m.via = l.via /\ m.repeater = l.repeater
      /\ m.slots = [l.slots EXCEPT ![table] = t]
  BY <1>2 DEF LinkState
<1> HIDE DEF m
<1>5. \A u \in Tables : \A i \in Slots : GivenUp(l.slots[u][i], m.slots[u][i], u)
  BY <1>3, <1>4 DEF GivenUp
<1>6. Sheds(l, m)
  BY <1>4, <1>5 DEF Sheds
<1> QED BY <1>1, <1>4, <1>6 DEF m

\* Freed slots are given up.
LEMMA ReleaseSheds ==
  ASSUME NEW l \in LinkState, NEW table \in Tables, NEW S
  PROVE  LET m == Put(l, table, Release(l.slots[table], S))
         IN  /\ Sheds(l, m) /\ m \in LinkState
             /\ Acts(m, table) = Acts(l, table) \ S
<1> DEFINE t == Release(l.slots[table], S)
<1>1. l.slots[table] \in Table /\ t \in Table
  BY SlotsType, ReleaseType
<1>2. \A i \in Slots : t[i] = IF i \in S THEN FreeSlot ELSE l.slots[table][i]
  BY DEF Release
<1> HIDE DEF t
<1>3. \A i \in Slots : GivenUp(l.slots[table][i], t[i], table)
  BY <1>2 DEF GivenUp, FreeSlot, Active
<1>4. /\ Sheds(l, Put(l, table, t)) /\ Put(l, table, t) \in LinkState
      /\ Put(l, table, t).slots = [l.slots EXCEPT ![table] = t]
  BY <1>1, <1>3, PutSheds
<1>5. Put(l, table, t).slots[table] = t
  BY <1>4 DEF LinkState
<1>6. Acts(Put(l, table, t), table) = Acts(l, table) \ S
  BY <1>2, <1>5 DEF Acts, FreeSlot, Active
<1> QED BY <1>4, <1>6 DEF t

\* So are links of D-Plus and DCS that are told to disconnect.
LEMMA TableUnlinkSheds ==
  ASSUME NEW l \in LinkState, NEW table \in {"DPLUS", "DCS"}, NEW calls
  PROVE  LET m == Put(l, table, TableUnlink(l.slots[table], calls))
         IN  /\ Sheds(l, m) /\ m \in LinkState
             /\ Acts(m, table) = {i \in Acts(l, table) : l.slots[table][i].call \notin calls}
<1> DEFINE t == TableUnlink(l.slots[table], calls)
<1>1. table \in Tables /\ l.slots[table] \in Table /\ t \in Table
  BY SlotsType, TableUnlinkType DEF Tables
<1>2. \A s \in Slot : /\ [s EXCEPT !.st = "UNLINKING"].st = "UNLINKING"
                      /\ [s EXCEPT !.st = "UNLINKING"].call = s.call
  BY DEF Slot
<1>3. \A i \in Slots : IF i \in ActiveTo(l.slots[table], calls)
                       THEN t[i].st = "UNLINKING" /\ t[i].call = l.slots[table][i].call
                       ELSE t[i] = l.slots[table][i]
  BY <1>1, <1>2 DEF TableUnlink, Table
<1> HIDE DEF t
<1>4. \A i \in Slots : GivenUp(l.slots[table][i], t[i], table)
  BY <1>3 DEF GivenUp, ActiveTo
<1>5. /\ Sheds(l, Put(l, table, t)) /\ Put(l, table, t) \in LinkState
      /\ Put(l, table, t).slots = [l.slots EXCEPT ![table] = t]
  BY <1>1, <1>4, PutSheds
<1>6. Put(l, table, t).slots[table] = t
  BY <1>1, <1>5 DEF LinkState
<1>7. Acts(Put(l, table, t), table)
        = {i \in Acts(l, table) : l.slots[table][i].call \notin calls}
  BY <1>3, <1>6 DEF Acts, ActiveTo, Active
<1> QED BY <1>5, <1>7 DEF t

\* When the repeater loses the link it is after, no other DExtra link is left.
LEMMA LoseOne ==
  ASSUME NEW l, NEW k, Base(l, k), Followed(l), NEW table \in Tables,
         NEW i \in Outgoing(l.slots[table]), l.slots[table][i].call = l.repeater
  PROVE  Acts(l, "DEXTRA") \subseteq (IF table = "DEXTRA" THEN {i} ELSE {})
<1> SUFFICES ASSUME NEW j \in Acts(l, "DEXTRA")
             PROVE  table = "DEXTRA" /\ j = i
  OBVIOUS
<1>1. Acts(l, "DEXTRA") = {j} /\ l.repeater = l.slots["DEXTRA"][j].call
  BY DEF Followed
<1>2. i \in Slots /\ j \in Slots /\ "DEXTRA" \in Tables
  BY DEF Outgoing, Acts, Tables
<1>3. Placed(l.slots[table][i], table, k) /\ Placed(l.slots["DEXTRA"][j], "DEXTRA", k)
  BY <1>2, SMTT(60) DEF Base
<1>4. table = "DEXTRA"
  BY <1>1, <1>3 DEF Placed, Outgoing, Acts
<1>5. i \in Acts(l, "DEXTRA")
  BY <1>2, <1>3, <1>4 DEF Placed, Outgoing, Acts
<1> QED BY <1>1, <1>4, <1>5

\* The loops that remove links, when no change of module is under way.
LEMMA RemoveSheds ==
  ASSUME NEW l, NEW k, Base(l, k), Tame(l), NEW table \in Tables, NEW calls, NEW told
  PROVE  LET m == Remove(l, table, calls, told)
         IN  /\ Sheds(l, m) /\ m \in LinkState
             /\ Acts(m, table) = {i \in Acts(l, table) : l.slots[table][i].call \notin calls}
<1> DEFINE hit      == {i \in Outgoing(l.slots[table]) : l.slots[table][i].call \in calls}
           reported == {i \in hit : l.slots[table][i].st \in told}
           r        == Put(l, table, Release(l.slots[table], hit))
           m        == Remove(l, table, calls, told)
<1>1. l \in LinkState
  BY SMTT(60) DEF Base
<1>2. m = Put(Report(l, table, reported), table, Release(l.slots[table], hit))
  BY DEF Remove, Base
<1>3. Sheds(l, r) /\ r \in LinkState /\ Acts(r, table) = Acts(l, table) \ hit
  BY <1>1, ReleaseSheds
<1>4. Acts(l, table) \ hit = {i \in Acts(l, table) : l.slots[table][i].call \notin calls}
  BY DEF Acts, Outgoing
<1>5. CASE l.status # "NONE" /\ \E i \in reported : l.slots[table][i].call = l.repeater
  <2>1. PICK i \in hit : l.slots[table][i].call = l.repeater
    BY <1>5
  <2>2. i \in Outgoing(l.slots[table])
    BY SMTT(60)
  <2>3. m = Announce(NotLinked(r))
    BY <1>1, <1>2, <1>5 DEF Report, Put, Announce, NotLinked, LinkState
  <2> HIDE DEF m
  <2>4. CcsOn \/ Acts(r, "DEXTRA") = {}
    <3> SUFFICES ASSUME ~CcsOn PROVE Acts(r, "DEXTRA") = {}
      OBVIOUS
    <3>1. Acts(l, "DEXTRA") \subseteq (IF table = "DEXTRA" THEN {i} ELSE {})
      BY <2>1, <2>2, LoseOne DEF Tame
    <3> HIDE DEF r, hit
    <3>2. Acts(r, "DEXTRA") \subseteq Acts(l, "DEXTRA")
      BY <1>3, ActsLeft DEF Tables
    <3> QED BY <1>3, <3>1, <3>2
  <2> HIDE DEF r
  <2>5. Sheds(r, NotLinked(r)) /\ NotLinked(r) \in LinkState
    BY <1>3, <2>4, NotLinkedSheds, NotLinkedType
  <2>6. Sheds(NotLinked(r), m) /\ m \in LinkState
    BY <2>3, <2>5, AnnounceSheds, AnnounceType
  <2>7. Sheds(l, m)
    BY <1>3, <2>5, <2>6, ShedsTwice
  <2>8. Acts(m, table) = Acts(r, table)
    BY <1>3, <2>3, SMTT(60) DEF Acts, Announce, NotLinked, LinkState
  <2> QED BY <1>3, <1>4, <2>6, <2>7, <2>8 DEF m
<1>6. CASE ~(l.status # "NONE" /\ \E i \in reported : l.slots[table][i].call = l.repeater)
  <2>1. m = r
    BY <1>2, <1>6 DEF Report
  <2> QED BY <1>3, <1>4, <2>1, SMTT(60)
<1> QED BY <1>5, <1>6

\* The three unlinks leave no link that carries audio.
LEMMA UnlinkAllSheds ==
  ASSUME NEW l, NEW k, Base(l, k), Tame(l)
  PROVE  /\ Sheds(l, UnlinkAll(l)) /\ UnlinkAll(l) \in LinkState /\ Silent(UnlinkAll(l))
<1> DEFINE a == DExtraUnlink(l, Calls)
           b == DPlusUnlink(a, Calls)
           c == DCSUnlink(b, Calls)
<1>1. \A table \in Tables : \A i \in Acts(l, table) : l.slots[table][i].call \in Calls
  BY DEF Base, Placed, Acts
<1>2. Sheds(l, a) /\ a \in LinkState /\ Acts(a, "DEXTRA") = {}
  BY <1>1, RemoveSheds DEF DExtraUnlink, Tables
<1> HIDE DEF a
<1>3. /\ Sheds(a, b) /\ b \in LinkState
      /\ Acts(b, "DPLUS") = {i \in Acts(a, "DPLUS") : a.slots["DPLUS"][i].call \notin Calls}
  BY <1>2, TableUnlinkSheds DEF DPlusUnlink
<1> HIDE DEF b
<1>4. /\ Sheds(b, c) /\ c \in LinkState
      /\ Acts(c, "DCS") = {i \in Acts(b, "DCS") : b.slots["DCS"][i].call \notin Calls}
  BY <1>3, TableUnlinkSheds DEF DCSUnlink
<1> HIDE DEF c
<1>5. Sheds(l, b) /\ Sheds(l, c)
  BY <1>2, <1>3, <1>4, ShedsTwice
<1>6. Acts(b, "DPLUS") = {} /\ Acts(c, "DCS") = {}
  BY <1>1, <1>2, <1>3, <1>4, <1>5, ActsLeft DEF Tables
<1>7. Acts(c, "DPLUS") = {} /\ Acts(c, "DEXTRA") = {}
  BY <1>2, <1>3, <1>4, <1>6, ActsLeft, ShedsTwice DEF Tables
<1> QED BY <1>4, <1>5, <1>6, <1>7 DEF UnlinkAll, a, b, c, Silent, Tables

--------------------------------------------------------------------------------
\* Making a link.

\* A new link takes one slot, or none when the table is full.
LEMMA TableLinkOne ==
  ASSUME NEW via, NEW t \in Table, NEW c \in Calls, NEW i \in Slots
  PROVE  \/ TableLink(via, t, c)[i] = t[i]
         \/ i = FirstFree(t) /\ TableLink(via, t, c)[i] = [st |-> "LINKING", call |-> c]
BY DEF TableLink, Place, Table

\* The link of another callsign may be in the way of no link but a CCS call.
Ready(l) == CcsOn \/ Silent(l)

\* A handler's link(), for a repeater that has no link that carries audio.
LEMMA StartWhole ==
  ASSUME NEW l, NEW k, Base(l, k), Ready(l), NEW via \in Vias, NEW c \in Calls,
         k[c.fam] = via, KnownReflectors /\ l.mode = "FIXED" => c = l.startup
  PROVE  Whole(StartLinking(l, via, c), k)
<1> DEFINE table == TableOf(via)
           t == TableLink(via, l.slots[table], c)
           new == [st |-> "LINKING", call |-> c]
           m == StartLinking(l, via, c)
<1>1. l \in LinkState /\ table \in Tables /\ l.slots[table] \in Table /\ m \in LinkState
  BY TableOfVia, SlotsType, StartLinkingType DEF Base
<1>2. /\ m.status = "LINKING" /\ m.via = via /\ m.repeater = c
      /\ m.relink = l.relink /\ m.mode = l.mode /\ m.startup = l.startup
      /\ m.ccs = l.ccs /\ m.last = l.last
      /\ m.slots = [l.slots EXCEPT ![table] = t]
  BY <1>1 DEF StartLinking, LinkState
<1>3. PICK new_i : new_i = FirstFree(l.slots[table])
  OBVIOUS
<1>4. \A i \in Slots : t[i] = l.slots[table][i] \/ (i = new_i /\ t[i] = new)
  BY <1>1, <1>3, TableLinkOne
<1> HIDE DEF m, t
<1>5. l.slots \in [Tables -> Table]
  BY <1>1 DEF LinkState
<1>6. \A u \in Tables : \A i \in Slots :
        \/ m.slots[u][i] = l.slots[u][i]
        \/ u = table /\ i = new_i /\ m.slots[u][i] = new
  BY <1>1, <1>2, <1>4, <1>5
<1>7. via # "NONE" /\ via # "CCS" /\ via \in Vias
  BY DEF Vias, Tables
<1>8. Base(m, k)
  <2>1. NoCcs(m) /\ Searched(m, k)
    BY <1>2, <1>7, SMTT(60) DEF Base, NoCcs, Searched
  <2>2. ASSUME NEW u \in Tables, NEW i \in Slots PROVE Placed(m.slots[u][i], u, k)
    BY <1>6, <1>7 DEF Base, Placed, Active
  <2> QED BY <1>1, <1>2, <2>1, <2>2 DEF Base
<1>9. Homed(m) /\ Alone(m)
  BY <1>2, <1>7 DEF Homed, Alone, ByCcs
<1>10. ASSUME ~CcsOn PROVE Aimed(m) /\ Followed(m)
  <2>1. Silent(l)
    BY <1>10 DEF Ready
  <2>2. \A u \in Tables : \A i \in Acts(m, u) :
          u = table /\ i = new_i /\ m.slots[u][i] = new
    BY <1>6, <2>1 DEF Silent, Acts
  <2>3. Aimed(m)
    BY <1>2, <1>7, <2>2 DEF Aimed
  <2>4. Followed(m)
    <3> SUFFICES ASSUME NEW i \in Acts(m, "DEXTRA")
                 PROVE  /\ Acts(m, "DEXTRA") = {i}
                        /\ m.via = "DEXTRA" /\ m.repeater = m.slots["DEXTRA"][i].call
                        /\ m.status = m.slots["DEXTRA"][i].st
      BY DEF Followed
    <3>1. "DEXTRA" = table /\ i = new_i /\ m.slots["DEXTRA"][i] = new
      BY <2>2 DEF Tables
    <3>2. via = "DEXTRA"
      BY <3>1, <1>7 DEF TableOf
    <3>3. Acts(m, "DEXTRA") = {i}
      BY <2>2, <3>1 DEF Tables
    <3> QED BY <1>2, <3>1, <3>2, <3>3
  <2> QED BY <2>3, <2>4
<1> QED BY <1>8, <1>9, <1>10 DEF Whole, m

\* linkInt(), for a repeater that has no link that carries audio.
LEMMA LinkIntWhole ==
  ASSUME NEW l, Base(l, cache), NEW c \in AnyCall,
         Silent(l) \/ (CcsOn /\ l.status = "NONE"),
         KnownReflectors /\ l.mode = "FIXED" => c = l.startup
  PROVE  Whole(LinkInt(l, c), cache)
<1> DEFINE via == FindRepeater(c)
           refused == [l EXCEPT !.status = "NONE", !.via = "NONE", !.repeater = c]
           pending == [l EXCEPT !.status = "PENDING_IRCDDB", !.via = "NONE",
                                !.repeater = c, !.query = "RUN"]
           body == CASE via = "UNKNOWN" /\ IsReflector(c) -> l
                     [] via = "UNKNOWN" /\ ~IsReflector(c) ->
                          IF IrcDDB THEN pending ELSE refused
                     [] OTHER -> IF via \in Enabled \cup {"LOOPBACK"}
                                 THEN StartLinking(l, via, c) ELSE refused
<1>1. l \in LinkState /\ CacheOK /\ LinkInt(l, c) = Announce(body)
  BY DEF Base, CacheOK, CacheType, LinkInt
<1>2. Tame(l) /\ Ready(l)
  BY DEF Tame, Ready, Silent, Aimed, Followed, Tables
<1>3. Whole(refused, cache)
  <2>1. Acts(l, "DEXTRA") = {} \/ CcsOn
    BY DEF Silent, Tables
  <2>2. Sheds(l, refused)
    BY <1>1, <2>1 DEF Sheds, GivenUp, LinkState, Acts
  <2>3. refused \in LinkState
    BY <1>1 DEF LinkState
  <2>4. refused.status = "NONE"
    BY <1>1 DEF LinkState
  <2> HIDE DEF refused
  <2>5. Base(refused, cache) /\ Tame(refused)
    BY <1>2, <2>2, <2>3, ShedsBase, ShedsTame
  <2> QED BY <2>4, <2>5 DEF Whole, Tame, Homed, Alone, ByCcs, Active
<1>4. via = "UNKNOWN" /\ ~IsReflector(c) => Whole(pending, cache)
  <2> SUFFICES ASSUME via = "UNKNOWN", ~IsReflector(c) PROVE Whole(pending, cache)
    OBVIOUS
  <2>1. pending \in LinkState
    BY <1>1, ZenonT(60) DEF LinkState, Timer
  <2>2. /\ pending.status = "PENDING_IRCDDB" /\ pending.via = "NONE"
        /\ pending.repeater = c /\ pending.mode = l.mode /\ pending.startup = l.startup
        /\ pending.relink = l.relink /\ pending.ccs = l.ccs /\ pending.last = l.last
        /\ pending.slots = l.slots
    BY <1>1 DEF LinkState
  <2> HIDE DEF pending
  <2>3. c \in Calls => cache[c.fam] = "UNKNOWN"
    BY DEF FindRepeater
  <2>4. Base(pending, cache)
    BY <2>1, <2>2, <2>3 DEF Base, NoCcs, Searched
  <2>5. CcsOn \/ (Aimed(pending) /\ Followed(pending))
    BY <2>2 DEF Silent, Aimed, Followed, Acts, Tables
  <2> QED BY <2>2, <2>4, <2>5 DEF Whole, Homed, Alone, ByCcs, Active
<1>5. via # "UNKNOWN" => Whole(StartLinking(l, via, c), cache)
  <2> SUFFICES ASSUME via # "UNKNOWN" PROVE Whole(StartLinking(l, via, c), cache)
    OBVIOUS
  <2>1. via \in Vias /\ c \in Calls /\ cache[c.fam] = via
    BY <1>1, FindRepeaterType DEF FindRepeater
  <2> QED BY <1>2, <2>1, StartWhole
<1>6. via = "UNKNOWN" /\ IsReflector(c) => Whole(l, cache)
  <2> SUFFICES ASSUME via = "UNKNOWN", IsReflector(c) PROVE Whole(l, cache)
    OBVIOUS
  <2>1. ~KnownReflectors
    BY DEF Base, IsReflector, FindRepeater
  <2>2. Homed(l) /\ Alone(l)
    BY <2>1 DEF Homed, Alone
  <2> QED BY <1>2, <2>2 DEF Whole, Tame
<1> HIDE DEF refused, pending, via
<1>7. Whole(body, cache)
  <2>1. CASE via = "UNKNOWN" /\ IsReflector(c)
    BY <1>6, <2>1
  <2>2. CASE via = "UNKNOWN" /\ ~IsReflector(c)
    BY <1>3, <1>4, <2>2
  <2>3. CASE via # "UNKNOWN"
    BY <1>3, <1>5, <2>3
  <2> QED BY <2>1, <2>2, <2>3
<1> HIDE DEF body
<1>8. body \in LinkState
  BY <1>7 DEF Whole, Base
<1> QED BY <1>1, <1>7, <1>8, AnnounceSheds, AnnounceType, ShedsWhole

\* Unlinking everything and then linking, as every command does.
LEMMA UnlinkThenLink ==
  ASSUME NEW l, Base(l, cache), Tame(l), NEW c \in AnyCall,
         KnownReflectors /\ l.mode = "FIXED" => c = l.startup
  PROVE  Whole(LinkInt(UnlinkAll(l), c), cache)
<1> DEFINE u == UnlinkAll(l)
<1>1. Sheds(l, u) /\ u \in LinkState /\ Silent(u)
  BY UnlinkAllSheds
<1> HIDE DEF u
<1>2. Base(u, cache) /\ u.mode = l.mode /\ u.startup = l.startup
  BY <1>1, ShedsBase DEF Sheds
<1>3. Whole(LinkInt(u, c), cache)
  BY <1>1, <1>2, LinkIntWhole
<1> QED BY <1>3 DEF u

\* Unlinking everything for good.
LEMMA UnlinkForGood ==
  ASSUME NEW l, NEW k, Base(l, k), Tame(l)
  PROVE  Whole(Announce(NotLinked(UnlinkAll(l))), k)
<1> DEFINE u == UnlinkAll(l)
           n == NotLinked(u)
<1>1. Sheds(l, u) /\ u \in LinkState /\ Silent(u)
  BY UnlinkAllSheds
<1> HIDE DEF u
<1>2. Sheds(u, n) /\ n \in LinkState /\ n.status = "NONE" /\ n.slots = u.slots
  BY <1>1, NotLinkedSheds, NotLinkedType, ZenonT(60) DEF Silent, Tables, NotLinked, LinkState
<1> HIDE DEF n
<1>3. Base(n, k) /\ Tame(n)
  BY <1>1, <1>2, ShedsBase, ShedsTame
<1>4. Whole(n, k)
  BY <1>2, <1>3 DEF Whole, Tame, Homed, Alone, ByCcs, Active
<1>5. Whole(Announce(n), k)
  BY <1>2, <1>4, AnnounceSheds, AnnounceType, ShedsWhole
<1> QED BY <1>5 DEF u, n

\* The answer of ircDDB on a repeater to link to.
LEMMA ResolveWhole ==
  ASSUME NEW l, NEW k, Whole(l, k), NEW c \in Calls, NEW found \in BOOLEAN,
         found => k[c.fam] # "UNKNOWN"
  PROVE  Whole(ResolveLink(l, c, found), k)
<1> DEFINE m == [l EXCEPT !.query = "OFF"]
<1>1. l \in LinkState
  BY DEF Whole, Base
<1>2. m \in LinkState /\ Sheds(l, m)
  BY <1>1, EditSheds DEF LinkState, Timer
<1>3. m.status = l.status /\ m.via = l.via /\ m.repeater = l.repeater
  BY <1>1 DEF LinkState
<1> HIDE DEF m
<1>4. Whole(m, k)
  BY <1>2, ShedsWhole
<1>5. CASE ~(l.status = "PENDING_IRCDDB" /\ l.repeater = c)
  BY <1>5 DEF ResolveLink
<1>6. CASE l.status = "PENDING_IRCDDB" /\ l.repeater = c
  <2>1. m.via = "NONE" /\ k[c.fam] \in {"UNKNOWN", "DEXTRA"}
    BY <1>3, <1>4, <1>6 DEF Whole, Base, Searched
  <2>2. Ready(m)
    <3> SUFFICES ASSUME ~CcsOn, NEW table \in Tables PROVE Acts(m, table) = {}
      BY DEF Ready, Silent
    <3>1. Aimed(m) /\ "NONE" \notin Vias
      BY <1>4 DEF Whole, Vias, Tables
    <3> QED BY <1>3, <1>6, <2>1, <3>1 DEF Aimed
  <2>3. CASE found /\ "DEXTRA" \in Enabled
    <3>1. KnownReflectors /\ m.mode = "FIXED" => c = m.startup
      BY <1>3, <1>4, <1>6, <2>1 DEF Whole, Homed, ByCcs
    <3>2. Whole(StartLinking(m, "DEXTRA", c), k)
      BY <1>4, <2>1, <2>2, <2>3, <3>1, StartWhole DEF Whole, Vias, Tables
    <3> QED BY <1>6, <2>3, <3>2 DEF ResolveLink, m
  <2>4. CASE ~(found /\ "DEXTRA" \in Enabled)
    <3>1. NotLinked(m) \in LinkState /\ Sheds(m, NotLinked(m))
      BY <1>2, <2>2, NotLinkedSheds, NotLinkedType DEF Ready, Silent, Tables
    <3>2. Whole(Announce(NotLinked(m)), k)
      BY <1>4, <3>1, AnnounceSheds, AnnounceType, ShedsWhole
    <3> QED BY <1>6, <2>4, <3>2 DEF ResolveLink, m
  <2> QED BY <2>3, <2>4
<1> QED BY <1>5, <1>6

--------------------------------------------------------------------------------
\* CCS calls.

\* A repeater that is not linked is in order when CCS is enabled.
LEMMA UnlinkedWhole ==
  ASSUME CcsOn, NEW l, NEW k, Base(l, k), l.status = "NONE" PROVE Whole(l, k)
BY DEF Whole, Homed, Alone, ByCcs, Active

\* restoreLinks() after a call.
LEMMA RestoreWhole ==
  ASSUME CcsOn, NEW l, Base(l, cache), l.status = "NONE"
  PROVE  Whole(RestoreLinks(l), cache)
<1> DEFINE m == IF l.mode = "TIMED" THEN StartReconnect(l) ELSE l
           c == IF l.mode = "FIXED" THEN l.startup ELSE l.last
           n == LinkInt(m, c)
<1>1. l \in LinkState
  BY DEF Base
<1>2. m \in LinkState /\ Sheds(l, m)
  <2>1. StartReconnect(l) \in LinkState
    BY <1>1, StartReconnectType
  <2>2. Sheds(l, l) /\ Sheds(l, StartReconnect(l))
    BY <1>1, EditSheds DEF StartReconnect, LinkState
  <2> QED BY <1>1, <2>1, <2>2
<1>3. m.mode = l.mode /\ m.startup = l.startup /\ m.status = "NONE"
  BY <1>1 DEF StartReconnect, LinkState
<1>4. c \in AnyCall /\ (l.mode = "FIXED" => c = l.startup)
  BY <1>1 DEF LinkState, AnyCall
<1> HIDE DEF m, c
<1>5. Base(m, cache)
  BY <1>2, ShedsBase
<1>6. Whole(m, cache)
  BY <1>3, <1>5, UnlinkedWhole
<1>7. Whole(n, cache)
  BY <1>3, <1>4, <1>5, LinkIntWhole
<1> HIDE DEF n
<1>8. n \in LinkState
  BY <1>7 DEF Whole, Base
<1>9. [n EXCEPT !.last = NoCall] \in LinkState
  BY <1>8 DEF LinkState, AnyCall
<1>10. Sheds(n, [n EXCEPT !.last = NoCall])
  BY <1>8 DEF Sheds, GivenUp, LinkState
<1>11. Whole([n EXCEPT !.last = NoCall], cache)
  BY <1>7, <1>9, <1>10, ShedsWhole
<1> QED BY <1>6, <1>11 DEF RestoreLinks, m, n, c

\* ccsLinkEnded() and ccsLinkFailed().
LEMMA CcsEndedWhole ==
  ASSUME CcsOn, NEW l, Whole(l, cache), NEW dir PROVE Whole(CcsLinkEnded(l, dir), cache)
<1> DEFINE m == [NotLinked(l) EXCEPT !.query = "OFF"]
           n == IF dir = "OUTGOING" THEN RestoreLinks(m) ELSE l
<1>1. l \in LinkState /\ Base(l, cache)
  BY DEF Whole, Base
<1>2. m \in LinkState
  BY <1>1, NotLinkedType DEF LinkState, Timer
<1>3. Sheds(l, m) /\ m.status = "NONE"
  BY <1>1 DEF Sheds, GivenUp, NotLinked, LinkState
<1> HIDE DEF m
<1>4. Base(m, cache)
  BY <1>1, <1>2, <1>3, ShedsBase
<1>5. Whole(n, cache)
  BY <1>3, <1>4, RestoreWhole
<1> HIDE DEF n
<1>6. n \in LinkState
  BY <1>5 DEF Whole, Base
<1>7. Whole(Announce(n), cache)
  BY <1>5, <1>6, AnnounceSheds, AnnounceType, ShedsWhole
<1> QED BY <1>7 DEF CcsLinkEnded, m, n

\* What the CCS client changes of its own state.
LEMMA ClientWhole ==
  ASSUME CcsOn, NEW l, NEW k, Whole(l, k), NEW m \in LinkState,
         m.relink = l.relink, m.mode = l.mode, m.startup = l.startup, m.slots = l.slots,
         m.status = l.status, m.via = l.via, m.repeater = l.repeater
  PROVE  Whole(m, k)
<1>1. Sheds(l, m)
  BY DEF Sheds, GivenUp
<1> QED BY <1>1, ShedsWhole

\* CCCSHandler::stopLink().
LEMMA CcsStopWhole ==
  ASSUME NEW l, Whole(l, cache) PROVE Whole(CcsStopLink(l), cache)
<1> DEFINE m == [l EXCEPT !.ccs = "CONNECTED"]
<1>1. CASE l.ccs = "ACTIVE"
  <2>1. CcsOn
    BY <1>1 DEF Whole, Base, NoCcs
  <2>2. l \in LinkState /\ m \in LinkState
    BY DEF Whole, Base, LinkState
  <2>3. Whole(m, cache)
    BY <2>1, <2>2, ClientWhole DEF LinkState
  <2> HIDE DEF m
  <2>4. Whole(CcsLinkEnded(m, l.ccsDir), cache)
    BY <2>1, <2>3, CcsEndedWhole
  <2> QED BY <1>1, <2>4 DEF CcsStopLink, m
<1>2. CASE l.ccs # "ACTIVE"
  BY <1>2 DEF CcsStopLink
<1> QED BY <1>1, <1>2

\* A link that carries audio is a link to a gateway.
LEMMA ActiveCalled ==
  ASSUME NEW l, NEW k, Base(l, k), NEW table \in Tables, NEW i \in Acts(l, table)
  PROVE  l.slots[table][i].call \in Calls
BY DEF Base, Placed, Acts

\* suspendLinks() leaves nothing that carries audio.
LEMMA SuspendSilent ==
  ASSUME CcsOn, NEW l, NEW k, Base(l, k)
  PROVE  Base(SuspendLinks(l), k) /\ Silent(SuspendLinks(l))
<1> DEFINE m == IF l.status \in Active /\ l.via \in Vias
                THEN [l EXCEPT !.last = l.repeater] ELSE l
           a == DPlusUnlink(m, Calls)
           b == DExtraUnlink(a, Calls)
           c == DCSUnlink(b, Calls)
           n == [NotLinked(c) EXCEPT !.reconnect = "OFF"]
<1>1. l \in LinkState /\ m \in LinkState
  BY DEF Base, LinkState
<1>2. Sheds(l, m)
  BY <1>1 DEF Sheds, GivenUp, LinkState
<1> HIDE DEF m
<1>3. Base(m, k)
  BY <1>1, <1>2, ShedsBase
<1>4. /\ Sheds(m, a) /\ a \in LinkState
      /\ Acts(a, "DPLUS") = {i \in Acts(m, "DPLUS") : m.slots["DPLUS"][i].call \notin Calls}
  BY <1>1, TableUnlinkSheds DEF DPlusUnlink
<1> HIDE DEF a
<1>5. Base(a, k) /\ Tame(a)
  BY <1>3, <1>4, ShedsBase DEF Tame
<1>6. /\ Sheds(a, b) /\ b \in LinkState
      /\ Acts(b, "DEXTRA") = {i \in Acts(a, "DEXTRA") : a.slots["DEXTRA"][i].call \notin Calls}
  BY <1>5, RemoveSheds DEF DExtraUnlink, Tables
<1> HIDE DEF b
<1>7. Base(b, k)
  BY <1>5, <1>6, ShedsBase
<1>8. /\ Sheds(b, c) /\ c \in LinkState
      /\ Acts(c, "DCS") = {i \in Acts(b, "DCS") : b.slots["DCS"][i].call \notin Calls}
  BY <1>6, TableUnlinkSheds DEF DCSUnlink
<1> HIDE DEF c
<1>9. Acts(a, "DPLUS") = {} /\ Acts(b, "DEXTRA") = {} /\ Acts(c, "DCS") = {}
  <2>1. Acts(a, "DPLUS") = {}
    BY <1>3, <1>4, ActiveCalled DEF Acts, Tables
  <2>2. Acts(b, "DEXTRA") = {}
    BY <1>5, <1>6, ActiveCalled DEF Acts, Tables
  <2>3. Acts(c, "DCS") = {}
    BY <1>7, <1>8, ActiveCalled DEF Acts, Tables
  <2> QED BY <2>1, <2>2, <2>3
<1>10. Acts(c, "DPLUS") = {} /\ Acts(c, "DEXTRA") = {}
  BY <1>6, <1>8, <1>9, ActsLeft DEF Tables
<1>11. Base(c, k) /\ Silent(c)
  BY <1>7, <1>8, <1>9, <1>10, ShedsBase DEF Silent, Tables
<1>12. n \in LinkState /\ Sheds(c, n)
  <2>1. NotLinked(c) \in LinkState
    BY <1>8, NotLinkedType
  <2>2. n \in LinkState
    BY <2>1 DEF LinkState, ReconnectTimer, Timer
  <2>3. Sheds(c, n)
    BY <1>8 DEF Sheds, GivenUp, NotLinked, LinkState
  <2> QED BY <2>2, <2>3
<1> HIDE DEF n
<1>13. Base(n, k) /\ Silent(n)
  BY <1>11, <1>12, ShedsBase, ShedsSilent
<1> QED BY <1>13 DEF SuspendLinks, m, a, b, c, n

\* A call in place of the links that are suspended.
LEMMA CallWhole ==
  ASSUME CcsOn, NEW l, NEW k, Base(l, k), Silent(l), NEW m \in LinkState,
         m.relink = l.relink, m.slots = l.slots,
         m.status \in Active, m.via = "CCS"
  PROVE  Whole(m, k)
<1>1. Base(m, k)
  BY DEF Base, NoCcs, Searched, Active
<1>2. Homed(m) /\ Alone(m)
  BY DEF Homed, Alone, ByCcs, Silent, Acts
<1> QED BY <1>1, <1>2 DEF Whole

\* ccsLinkMade().
LEMMA CcsMadeWhole ==
  ASSUME CcsOn, NEW l, NEW k, Whole(l, k), NEW dir PROVE Whole(CcsLinkMade(l, dir), k)
<1> DEFINE s == SuspendLinks(l)
           m == [s EXCEPT !.status = "LINKED", !.via = "CCS",
                          !.repeater = CcsCall, !.query = "OFF"]
           n == IF dir = "OUTGOING" THEN m ELSE l
<1>1. Base(s, k) /\ Silent(s)
  BY SuspendSilent DEF Whole
<1> HIDE DEF s
<1>2. s \in LinkState
  BY <1>1 DEF Base
<1>3. m \in LinkState
  BY <1>2, CcsLinkedType, CcsMadeType
<1>4. /\ m.relink = s.relink /\ m.slots = s.slots /\ m.status = "LINKED" /\ m.via = "CCS"
  BY <1>2 DEF LinkState
<1> HIDE DEF m
<1>5. Whole(m, k)
  BY <1>1, <1>3, <1>4, CallWhole DEF Active
<1>6. Whole(n, k)
  BY <1>5
<1> HIDE DEF n
<1>7. n \in LinkState
  BY <1>6 DEF Whole, Base
<1>8. Whole(Announce(n), k)
  BY <1>6, <1>7, AnnounceSheds, AnnounceType, ShedsWhole
<1> QED BY <1>8 DEF CcsLinkMade, m, n, s

\* CCCSHandler::startLink().
LEMMA CcsStartWhole ==
  ASSUME CcsOn, NEW l, NEW k, Whole(l, k) PROVE Whole(CcsStartLink(l), k)
<1> DEFINE a == [l EXCEPT !.ccsAsked = TRUE]
           m == IF l.ccsKnown THEN CcsLinkMade(l, l.ccsDir) ELSE a
           n == [m EXCEPT !.ccs = "ACTIVE", !.ccsDir = "OUTGOING"]
<1>1. l \in LinkState /\ a \in LinkState
  BY DEF Whole, Base, LinkState
<1>2. Whole(a, k)
  BY <1>1, ClientWhole DEF LinkState
<1>3. Whole(CcsLinkMade(l, l.ccsDir), k)
  BY CcsMadeWhole
<1> HIDE DEF a
<1>4. Whole(m, k)
  BY <1>2, <1>3
<1> HIDE DEF m
<1>5. m \in LinkState /\ n \in LinkState
  BY <1>4, CcsActiveType DEF Whole, Base
<1>6. /\ n.relink = m.relink /\ n.mode = m.mode /\ n.startup = m.startup
      /\ n.slots = m.slots
      /\ n.status = m.status /\ n.via = m.via /\ n.repeater = m.repeater
  BY <1>5 DEF LinkState
<1> HIDE DEF n
<1>7. Whole(n, k)
  BY <1>4, <1>5, <1>6, ClientWhole
<1> QED BY <1>7 DEF CcsStartLink, n, m, a

\* ccsCommandHandler().
LEMMA CcsCommandWhole ==
  ASSUME NEW l, Whole(l, cache), NEW cmd PROVE Whole(CcsCommand(l, cmd), cache)
<1> DEFINE s == SuspendLinks(l)
           m == [s EXCEPT !.query = "RUN", !.status = "LINKING",
                          !.via = "CCS", !.repeater = CcsCall]
<1>1. Whole(CcsStopLink(l), cache)
  BY CcsStopWhole
<1>2. l.ccs = "CONNECTED" => Whole(CcsStartLink(m), cache)
  <2> SUFFICES ASSUME l.ccs = "CONNECTED" PROVE Whole(CcsStartLink(m), cache)
    OBVIOUS
  <2>1. CcsOn
    BY DEF Whole, Base, NoCcs
  <2>2. Base(s, cache) /\ Silent(s)
    BY <2>1, SuspendSilent DEF Whole
  <2> HIDE DEF s
  <2>3. s \in LinkState
    BY <2>2 DEF Base
  <2>4. m \in LinkState
    BY <2>3, CcsWaitingType, CcsAskedType
  <2>5. m.relink = s.relink /\ m.slots = s.slots /\ m.status = "LINKING" /\ m.via = "CCS"
    BY <2>3 DEF LinkState
  <2> HIDE DEF m
  <2>6. Whole(m, cache)
    BY <2>1, <2>2, <2>4, <2>5, CallWhole DEF Active
  <2> QED BY <2>1, <2>6, CcsStartWhole
<1> HIDE DEF m, s
<1> DEFINE n == CASE cmd.kind = "CCS_STOP" -> CcsStopLink(l)
                  [] cmd.kind = "CCS_CALL" /\ l.ccs = "CONNECTED" -> CcsStartLink(m)
                  [] OTHER -> l
<1>3. Whole(n, cache)
  <2>1. CASE cmd.kind = "CCS_STOP"
    BY <1>1, <2>1
  <2>2. CASE cmd.kind = "CCS_CALL" /\ l.ccs = "CONNECTED"
    BY <1>2, <2>2
  <2>3. CASE cmd.kind # "CCS_STOP" /\ ~(cmd.kind = "CCS_CALL" /\ l.ccs = "CONNECTED")
    BY <2>3
  <2> QED BY <2>1, <2>2, <2>3
<1> QED BY <1>3 DEF CcsCommand, m, s

--------------------------------------------------------------------------------
\* Commands.

\* With one module letter, no command is a mere change of module.
LEMMA FamilyIsCall ==
  ASSUME OneModule, NEW c, NEW d, SameFamily(c, d) PROVE c = d
BY DEF OneModule, SameFamily, Calls

\* A command to link, unlink or go back.
LEMMA LinkCommandWhole ==
  ASSUME OneModule, NEW l, Whole(l, cache), l.mode # "FIXED", NEW c \in Calls \cup {Self}
  PROVE  Whole(LinkCommand(l, c), cache)
<1>1. l \in LinkState
  BY DEF Whole, Base
<1>2. c # Self => Whole(LinkInt(UnlinkAll(l), c), cache)
  BY UnlinkThenLink DEF Whole, Tame, AnyCall
<1>3. Whole(Announce(l), cache)
  BY <1>1, AnnounceSheds, AnnounceType, ShedsWhole
<1> QED BY <1>2, <1>3, FamilyIsCall DEF LinkCommand

\* reflectorCommandHandler().
LEMMA ReflectorCommandWhole ==
  ASSUME OneModule, NEW l, Whole(l, cache), NEW cmd \in Inputs
  PROVE  Whole(ReflectorCommand(l, cmd), cache)
<1> DEFINE m == [l EXCEPT !.query = "OFF"]
<1>1. l \in LinkState /\ m \in LinkState
  BY DEF Whole, Base, LinkState, Timer
<1>2. m.mode = l.mode /\ m.startup \in Calls \cup {NoCall} /\ Sheds(l, m)
  BY <1>1, EditSheds DEF LinkState
<1> HIDE DEF m
<1>3. Whole(m, cache)
  BY <1>1, <1>2, ShedsWhole
<1>4. CASE IgnoresCommands(l)
  BY <1>4 DEF ReflectorCommand
<1>5. CASE ~IgnoresCommands(l)
  <2> DEFINE n == CASE cmd.kind = "UNLINK" /\ m.status # "NONE" ->
                         Announce(NotLinked(UnlinkAll(m)))
                    [] cmd.kind = "LINK" -> LinkCommand(m, cmd.arg)
                    [] cmd.kind = "LINK_STARTUP" /\ m.startup # NoCall ->
                         LinkCommand(m, m.startup)
                    [] OTHER -> m
  <2>1. m.mode # "FIXED"
    BY <1>2, <1>5 DEF IgnoresCommands
  <2>2. Whole(Announce(NotLinked(UnlinkAll(m))), cache)
    BY <1>3, UnlinkForGood DEF Whole, Tame
  <2>3. \A c \in Calls \cup {Self} : Whole(LinkCommand(m, c), cache)
    BY <1>3, <2>1, LinkCommandWhole
  <2>4. CASE cmd.kind = "UNLINK" /\ m.status # "NONE"
    <3>1. n = Announce(NotLinked(UnlinkAll(m)))
      BY <2>4
    <3> QED BY <3>1, <2>2, <1>5 DEF ReflectorCommand, m
  <2>5. CASE cmd.kind = "LINK"
    <3>1. n = LinkCommand(m, cmd.arg)
      BY <2>5
    <3>2. cmd.arg \in Calls \cup {Self}
      BY <2>5, InputType
    <3> QED BY <3>1, <3>2, <2>3, <1>5 DEF ReflectorCommand, m
  <2>6. CASE cmd.kind = "LINK_STARTUP" /\ m.startup # NoCall
    <3>1. n = LinkCommand(m, m.startup)
      BY <2>6
    <3>2. m.startup \in Calls \cup {Self}
      BY <2>6, <1>2
    <3> QED BY <3>1, <3>2, <2>3, <1>5 DEF ReflectorCommand, m
  <2>7. CASE /\ ~(cmd.kind = "UNLINK" /\ m.status # "NONE") /\ cmd.kind # "LINK"
             /\ ~(cmd.kind = "LINK_STARTUP" /\ m.startup # NoCall)
    <3>1. n = m
      BY <2>7
    <3> QED BY <3>1, <1>3, <1>5 DEF ReflectorCommand, m
  <2> QED BY <2>4, <2>5, <2>6, <2>7
<1> QED BY <1>4, <1>5

\* Whatever a header or a DTMF sequence asks for.
LEMMA ObeyWhole ==
  ASSUME OneModule, NEW l, Whole(l, cache), NEW cmd \in Inputs
  PROVE  Whole(Obey(l, cmd), cache)
BY CcsCommandWhole, ReflectorCommandWhole DEF Obey

\* The query timer is stopped, or set off, by other handlers too.
LEMMA QueryWhole ==
  ASSUME NEW l, NEW k, Whole(l, k), NEW q \in Timer PROVE Whole([l EXCEPT !.query = q], k)
<1>1. l \in LinkState /\ [l EXCEPT !.query = q] \in LinkState
  BY DEF Whole, Base, LinkState
<1>2. Sheds(l, [l EXCEPT !.query = q])
  BY <1>1, EditSheds DEF LinkState
<1> QED BY <1>1, <1>2, ShedsWhole

\* Handlers end by taking note that the announcement has been asked for.
LEMMA QuietWhole ==
  ASSUME NEW l, NEW k, Whole(l, k) PROVE Whole([l EXCEPT !.announce = FALSE], k)
<1>1. l \in LinkState /\ [l EXCEPT !.announce = FALSE] \in LinkState
  BY DEF Whole, Base, LinkState
<1>2. Sheds(l, [l EXCEPT !.announce = FALSE])
  BY <1>1, EditSheds DEF LinkState
<1> QED BY <1>1, <1>2, ShedsWhole

\* Starting the reconnect timer.
LEMMA StartReconnectWhole ==
  ASSUME NEW l, NEW k, Whole(l, k) PROVE Whole(StartReconnect(l), k)
<1>1. l \in LinkState /\ StartReconnect(l) \in LinkState
  BY StartReconnectType DEF Whole, Base
<1>2. Sheds(l, StartReconnect(l))
  BY <1>1, EditSheds DEF StartReconnect, LinkState
<1> QED BY <1>1, <1>2, ShedsWhole

--------------------------------------------------------------------------------
\* The radio.

Kept == Whole(link, cache)

\* Every handler ends in Settle, or does what Settle does.
LEMMA SettleWhole ==
  ASSUME NEW r, NEW l, Whole(l, cache), Settle(r, l), UNCHANGED cache PROVE Kept'
<1>1. Whole([l EXCEPT !.announce = FALSE], cache)
  BY QuietWhole
<1>2. Whole(link', cache)
  BY <1>1 DEF Settle
<1>3. Whole(link', cache')
  BY <1>2
<1> QED BY <1>3 DEF Kept

\* What a header does to the timers.
LEMMA NewStreamLinkWhole == ASSUME Kept PROVE Whole(NewStreamLink, cache)
<1>1. Whole(IF Asking(rf) THEN [link EXCEPT !.query = "OFF"] ELSE link, cache)
  BY QueryWhole DEF Kept, Timer
<1> QED BY <1>1, StartReconnectWhole DEF NewStreamLink

\* A header from the radio.
LEMMA RfHeaderWhole ==
  ASSUME OneModule, Kept, NEW id \in Ids, NEW cmd \in Inputs, NEW restricted, NEW cq,
         \/ RfOtherBand(id, cmd, restricted, cq) \/ RfStarNet(id, restricted)
         \/ RfLocal(id, cmd, restricted) \/ RfRestricted(id, cmd)
         \/ RfRoute(id, cmd) \/ RfCommand(id, cmd)
  PROVE  Kept'
<1>1. Whole(NewStreamLink, cache)
  BY NewStreamLinkWhole
<1>2. Whole([NewStreamLink EXCEPT !.query = "RUN"], cache)
  BY <1>1, QueryWhole DEF Timer
<1>3. Whole(Obey(NewStreamLink, cmd), cache)
  BY <1>1, ObeyWhole
<1>4. CASE RfOtherBand(id, cmd, restricted, cq)
  BY <1>1, <1>4, SettleWhole DEF RfOtherBand
<1>5. CASE RfStarNet(id, restricted)
  BY <1>1, <1>5, SettleWhole DEF RfStarNet
<1>6. CASE RfLocal(id, cmd, restricted)
  BY <1>1, <1>6, SettleWhole DEF RfLocal
<1>7. CASE RfRestricted(id, cmd)
  BY <1>1, <1>7, SettleWhole DEF RfRestricted
<1>8. CASE RfRoute(id, cmd)
  BY <1>1, <1>2, <1>8, SettleWhole DEF RfRoute
<1>9. CASE RfCommand(id, cmd)
  BY <1>3, <1>9, SettleWhole DEF RfCommand
<1> QED BY <1>4, <1>5, <1>6, <1>7, <1>8, <1>9

\* A frame from the radio, or heard by a busy repeater, and a header so heard.
LEMMA HeardWhole ==
  ASSUME OneModule, Kept, NEW cmd \in Inputs, NEW end, NEW id, NEW restricted,
         RfAMBE(cmd, end) \/ BusyAMBE(cmd, end) \/ BusyHeader(id, cmd, restricted)
  PROVE  Kept'
<1>1. Whole(link, cache) /\ Whole(StartReconnect(link), cache)
  BY StartReconnectWhole DEF Kept
<1>2. Whole(Obey(link, cmd), cache) /\ Whole(Obey(StartReconnect(link), cmd), cache)
  BY <1>1, ObeyWhole
<1>3. CASE RfAMBE(cmd, end)
  <2> DEFINE l == IF cmd = NoCommand \/ cmd.kind = "INFO" THEN StartReconnect(link)
                  ELSE Obey(StartReconnect(link), cmd)
             q == IF Asking(rf) THEN "OFF" ELSE l.query
  <2>1. Whole(l, cache)
    BY <1>1, <1>2
  <2>2. \/ \E r : Settle(r, l)
        \/ link' = [l EXCEPT !.announce = FALSE, !.query = q]
    BY <1>3 DEF RfAMBE
  <2>3. cache' = cache
    BY <1>3 DEF RfAMBE
  <2> HIDE DEF l
  <2>4. l \in LinkState
    BY <2>1 DEF Whole, Base
  <2>5. q \in Timer
    BY <2>4 DEF LinkState, Timer
  <2> HIDE DEF q
  <2>6. CASE link' = [l EXCEPT !.announce = FALSE, !.query = q]
    <3>1. Whole([[l EXCEPT !.announce = FALSE] EXCEPT !.query = q], cache)
      BY <2>1, <2>5, QuietWhole, QueryWhole
    <3>2. link' = [[l EXCEPT !.announce = FALSE] EXCEPT !.query = q]
      BY <2>6
    <3>3. Whole(link', cache')
      BY <2>3, <3>1, <3>2
    <3> QED BY <3>3 DEF Kept
  <2> QED BY <2>1, <2>2, <2>3, <2>6, SettleWhole
<1>4. CASE BusyAMBE(cmd, end)
  <2> DEFINE l == IF cmd = NoCommand THEN link ELSE Obey(link, cmd)
  <2>1. Whole(l, cache)
    BY <1>1, <1>2
  <2>2. \/ \E r : Settle(r, l)
        \/ link' = [l EXCEPT !.announce = FALSE]
    BY <1>4 DEF BusyAMBE
  <2>3. cache' = cache
    BY <1>4 DEF BusyAMBE
  <2> HIDE DEF l
  <2>4. CASE link' = [l EXCEPT !.announce = FALSE]
    <3>1. Whole(link', cache')
      BY <2>1, <2>3, <2>4, QuietWhole
    <3> QED BY <3>1 DEF Kept
  <2> QED BY <2>1, <2>2, <2>3, <2>4, SettleWhole
<1>5. CASE BusyHeader(id, cmd, restricted)
  BY <1>1, <1>2, <1>5, SettleWhole DEF BusyHeader
<1> QED BY <1>3, <1>4, <1>5

\* Whatever the radio sends.
LEMMA RadioWhole == ASSUME OneModule, Kept, Radio PROVE Kept'
<1>1. CASE RfHeader
  <2>1. PICK id \in Ids, cmd \in Commands, restricted \in Restrictions :
          \/ \E cq \in BOOLEAN : RfOtherBand(id, cmd, restricted, cq)
          \/ cmd.kind = "STARNET" /\ RfStarNet(id, restricted)
          \/ RfLocal(id, cmd, restricted)
          \/ restricted /\ RfRestricted(id, cmd)
          \/ ~restricted /\ (RfRoute(id, cmd) \/ RfCommand(id, cmd))
    BY <1>1 DEF RfHeader
  <2>2. cmd \in Inputs
    BY DEF Inputs
  <2> QED BY <2>1, <2>2, RfHeaderWhole
<1>2. CASE \E cq \in BOOLEAN : RfBusyFlag(cq)
  <2>1. UNCHANGED <<link, cache>>
    BY <1>2 DEF RfBusyFlag
  <2> QED BY <2>1 DEF Kept
<1>3. CASE \E cmd \in DtmfCommands \cup {NoCommand}, end \in BOOLEAN :
             RfAMBE(cmd, end) \/ BusyAMBE(cmd, end)
  BY <1>3, HeardWhole DEF Inputs
<1>4. CASE \E id \in Ids, cmd \in Commands, restricted \in Restrictions :
             BusyHeader(id, cmd, restricted)
  BY <1>4, HeardWhole DEF Inputs
<1> QED BY <1>1, <1>2, <1>3, <1>4 DEF Radio

--------------------------------------------------------------------------------
\* The clock.

\* The reconnect time-out.
LEMMA ReconnectDueWhole ==
  ASSUME NEW l, Whole(l, cache) PROVE Whole(ReconnectDue(l), cache)
<1> DEFINE A == l.status # "NONE" /\ l.startup = NoCall
           B == l.startup # NoCall /\ (l.status = "NONE" \/ l.repeater # l.startup)
<1>1. Whole(Announce(NotLinked(UnlinkAll(l))), cache)
  BY UnlinkForGood DEF Whole, Tame
<1>2. Whole(LinkInt(UnlinkAll(l), l.startup), cache)
  <2>1. l.startup \in AnyCall
    BY DEF Whole, Base, LinkState, AnyCall
  <2> QED BY <2>1, UnlinkThenLink DEF Whole, Tame
<1>3. CASE A
  BY <1>1, <1>3 DEF ReconnectDue
<1>4. CASE B
  BY <1>2, <1>4 DEF ReconnectDue
<1>5. CASE ~A /\ ~B
  BY <1>5 DEF ReconnectDue
<1> QED BY <1>3, <1>4, <1>5

\* A search for a repeater that is given up leaves nothing behind.
LEMMA PendingSilent ==
  ASSUME NEW l, NEW k, Whole(l, k), l.status = "PENDING_IRCDDB"
  PROVE  CcsOn \/ Silent(l)
<1>1. l.via = "NONE" /\ "NONE" \notin Vias
  BY DEF Whole, Base, Searched, Vias, Tables
<1> QED BY <1>1 DEF Whole, Aimed, Silent, Acts

\* The query time-out.
LEMMA QueryDueWhole ==
  ASSUME NEW l, Whole(l, cache), NEW r PROVE Whole(QueryDue(r, l), cache)
<1> DEFINE m == [l EXCEPT !.query = "OFF"]
<1>1. Whole(m, cache)
  BY QueryWhole DEF Timer
<1> HIDE DEF m
<1>2. m \in LinkState
  BY <1>1 DEF Whole, Base
<1>3. m.status = "PENDING_IRCDDB" => Whole(Announce(NotLinked(m)), cache)
  <2> SUFFICES ASSUME m.status = "PENDING_IRCDDB"
               PROVE  Whole(Announce(NotLinked(m)), cache)
    OBVIOUS
  <2>1. CcsOn \/ Acts(m, "DEXTRA") = {}
    BY <1>1, PendingSilent DEF Silent, Tables
  <2>2. Sheds(m, NotLinked(m)) /\ NotLinked(m) \in LinkState
    BY <1>2, <2>1, NotLinkedSheds, NotLinkedType
  <2> QED BY <1>1, <2>2, AnnounceSheds, AnnounceType, ShedsWhole
<1>4. IsUp(m, "CCS") => Whole(RestoreLinks(NotLinked(CcsStopLink(m))), cache)
  <2> SUFFICES ASSUME IsUp(m, "CCS")
               PROVE  Whole(RestoreLinks(NotLinked(CcsStopLink(m))), cache)
    OBVIOUS
  <2> DEFINE s == CcsStopLink(m)
  <2>1. CcsOn
    BY <1>1 DEF Whole, Base, NoCcs, IsUp
  <2>2. Whole(s, cache)
    BY <1>1, CcsStopWhole
  <2> HIDE DEF s
  <2>3. s \in LinkState
    BY <2>2 DEF Whole, Base
  <2>4. Sheds(s, NotLinked(s)) /\ NotLinked(s) \in LinkState
    BY <2>1, <2>3, NotLinkedSheds, NotLinkedType
  <2>5. NotLinked(s).status = "NONE" /\ Base(NotLinked(s), cache)
    BY <2>2, <2>3, <2>4, ShedsBase, ZenonT(60) DEF Whole, NotLinked, LinkState
  <2>6. Whole(RestoreLinks(NotLinked(s)), cache)
    BY <2>1, <2>5, RestoreWhole
  <2> QED BY <2>6 DEF s
<1> DEFINE n == CASE Asking(r) -> m
                  [] ~Asking(r) /\ m.status = "PENDING_IRCDDB" -> Announce(NotLinked(m))
                  [] ~Asking(r) /\ IsUp(m, "CCS") /\ m.status = "LINKING" ->
                       RestoreLinks(NotLinked(CcsStopLink(m)))
                  [] OTHER -> m
<1>5. Whole(n, cache)
  <2>1. CASE Asking(r)
    BY <1>1, <2>1
  <2>2. CASE ~Asking(r) /\ m.status = "PENDING_IRCDDB"
    BY <1>3, <2>2
  <2>3. CASE /\ ~Asking(r) /\ m.status # "PENDING_IRCDDB"
             /\ IsUp(m, "CCS") /\ m.status = "LINKING"
    BY <1>4, <2>3
  <2>4. CASE /\ ~Asking(r) /\ m.status # "PENDING_IRCDDB"
             /\ ~(IsUp(m, "CCS") /\ m.status = "LINKING")
    BY <1>1, <2>4
  <2> QED BY <2>1, <2>2, <2>3, <2>4
<1> QED BY <1>5 DEF QueryDue, m

\* A tick with any set of timers expired.
LEMMA TickWhole ==
  ASSUME OneModule, Kept, NEW due \in SUBSET Timers, Tick(due) PROVE Kept'
<1> DEFINE w  == IF "watchdog" \in due THEN "DUE" ELSE rf.watchdog
           r0 == [rf EXCEPT !.watchdog = w]
           l0 == [link EXCEPT !.reconnect = IF "reconnect" \in due THEN "DUE" ELSE @,
                              !.query = IF "query" \in due THEN "DUE" ELSE @]
           l1 == IF l0.reconnect = "DUE" THEN StartReconnect(ReconnectDue(l0)) ELSE l0
           r2 == IF l1.query = "DUE" THEN QueryDueRf(r0) ELSE r0
           l2 == IF l1.query = "DUE" THEN QueryDue(r0, l1) ELSE l1
           l3 == IF w = "DUE" /\ r2.id # 0 /\ Asking(r2)
                 THEN [l2 EXCEPT !.query = "OFF"] ELSE l2
<1>1. /\ ~PortChangeDue(l0) => link' = [l3 EXCEPT !.announce = FALSE]
      /\ UNCHANGED cache
  BY DEF Tick
<1>2. ~PortChangeDue(l0)
  BY FamilyIsCall DEF PortChangeDue
<1>3. link \in LinkState
  BY DEF Kept, Whole, Base
<1>4. l0 \in LinkState /\ Sheds(link, l0)
  <2> DEFINE a == IF "reconnect" \in due THEN "DUE" ELSE link.reconnect
             b == IF "query" \in due THEN "DUE" ELSE link.query
  <2>1. a \in ReconnectTimer /\ b \in Timer
    BY <1>3 DEF LinkState, ReconnectTimer, Timer
  <2>2. l0 = [link EXCEPT !.reconnect = a, !.query = b]
    BY <1>3 DEF LinkState
  <2> HIDE DEF a, b
  <2>3. [link EXCEPT !.reconnect = a, !.query = b] \in LinkState
    BY <1>3, <2>1 DEF LinkState
  <2> DEFINE m == [link EXCEPT !.reconnect = a, !.query = b]
  <2>4. /\ m.relink = link.relink /\ m.mode = link.mode /\ m.startup = link.startup
        /\ m.ccs = link.ccs /\ m.last = link.last /\ m.slots = link.slots
        /\ m.status = link.status /\ m.via = link.via /\ m.repeater = link.repeater
    BY <1>3 DEF LinkState
  <2>5. m \in LinkState /\ l0 = m
    BY <2>2, <2>3
  <2> HIDE DEF m
  <2>6. Sheds(link, m)
    BY <2>4, EditSheds
  <2> QED BY <2>5, <2>6
<1>6. Whole(l0, cache)
  BY <1>4, ShedsWhole DEF Kept
<1> HIDE DEF l0, w, r0
<1>7. Whole(l1, cache)
  BY <1>6, ReconnectDueWhole, StartReconnectWhole
<1> HIDE DEF l1, r2
<1>8. Whole(l2, cache)
  BY <1>7, QueryDueWhole
<1> HIDE DEF l2
<1>9. Whole(l3, cache)
  BY <1>8, QueryWhole DEF Timer
<1> HIDE DEF l3
<1>10. Whole(link', cache')
  BY <1>1, <1>2, <1>9, QuietWhole
<1> QED BY <1>10 DEF Kept

\* The clock.
LEMMA ClockWhole == ASSUME OneModule, Kept, Clock PROVE Kept'
<1>1. CASE MinutesPass
  <2>1. link \in LinkState
    BY DEF Kept, Whole, Base
  <2>2. [link EXCEPT !.reconnect = "LATE"] \in LinkState
    BY <2>1 DEF LinkState, ReconnectTimer
  <2>3. Sheds(link, [link EXCEPT !.reconnect = "LATE"])
    BY <2>1, EditSheds DEF LinkState
  <2>4. Whole(link', cache')
    BY <1>1, <2>2, <2>3, ShedsWhole DEF MinutesPass, Kept
  <2> QED BY <2>4 DEF Kept
<1> QED BY <1>1, TickWhole DEF Clock

--------------------------------------------------------------------------------
\* ircDDB.

\* A gateway that becomes known is a DExtra one: no other cache entry changes.
LEMMA LearnWhole ==
  ASSUME NEW l, Whole(l, cache), NEW f \in Families, Learn(f) PROVE Whole(l, cache')
<1>1. cache \in CacheType
  BY DEF Whole, Base
<1>2. /\ cache' \in CacheType
      /\ \A g \in Families : cache[g] # "UNKNOWN" => cache'[g] = cache[g]
      /\ \A g \in Families : cache[g] = "UNKNOWN" => cache'[g] \in {"UNKNOWN", "DEXTRA"}
  BY <1>1 DEF CacheType, Learn, Vias, Tables
<1>3. \A c \in Calls : c.fam \in Families
  BY DEF Calls
<1>4. \A table \in Tables : \A i \in Slots : Placed(l.slots[table][i], table, cache')
  <2> SUFFICES ASSUME NEW table \in Tables, NEW i \in Slots
               PROVE  Placed(l.slots[table][i], table, cache')
    OBVIOUS
  <2>1. Placed(l.slots[table][i], table, cache)
    BY DEF Whole, Base
  <2>2. "UNKNOWN" \notin Vias
    BY DEF Vias, Tables
  <2> QED BY <1>2, <1>3, <2>1, <2>2 DEF Placed
<1>5. Searched(l, cache')
  BY <1>2, <1>3 DEF Whole, Base, Searched
<1>6. KnownReflectors => \A g \in ReflectorFamilies : cache'[g] # "UNKNOWN"
  BY <1>2, LinksAssumption DEF Whole, Base
<1> QED BY <1>2, <1>4, <1>5, <1>6 DEF Whole, Base

\* An answer on a repeater.
LEMMA IrcRepeaterWhole ==
  ASSUME Kept, NEW c \in Calls, NEW found \in BOOLEAN, IrcRepeater(c, found) PROVE Kept'
<1> DEFINE mine == rf.g2 = "REPEATER" /\ rf.g2Call = c
           l == IF mine THEN [link EXCEPT !.query = "OFF"] ELSE link
           m == ResolveLink(l, c, found)
<1>1. Whole(l, cache)
  BY QueryWhole DEF Kept, Timer
<1>2. /\ link' = [m EXCEPT !.announce = FALSE]
      /\ IF found THEN Learn(c.fam) ELSE UNCHANGED cache
  BY DEF IrcRepeater, Settle
<1>3. c.fam \in Families
  BY DEF Calls
<1> HIDE DEF l
<1>4. Whole(l, cache')
  BY <1>1, <1>2, <1>3, LearnWhole
<1>5. found => cache'[c.fam] # "UNKNOWN"
  BY <1>1, <1>2, <1>3 DEF Learn, Whole, Base, CacheType
<1>6. Whole(m, cache')
  BY <1>4, <1>5, ResolveWhole
<1> HIDE DEF m
<1>7. Whole(link', cache')
  BY <1>2, <1>6, QuietWhole
<1> QED BY <1>7 DEF Kept

\* An answer on a gateway.
LEMMA IrcGatewayWhole ==
  ASSUME Kept, NEW f \in Families, NEW address \in BOOLEAN, IrcGateway(f, address)
  PROVE  Kept'
<1>1. CASE address
  <2>1. Whole(link, cache')
    BY <1>1, LearnWhole DEF IrcGateway, Kept
  <2>2. link' = link
    BY <1>1 DEF IrcGateway
  <2>3. Whole(link', cache')
    BY <2>1, <2>2
  <2> QED BY <2>3 DEF Kept
<1>2. CASE ~address
  <2> DEFINE a == Dropped(link, "DEXTRA", f)
             b == Dropped(a, "DPLUS", f)
  <2>1. Sheds(link, a) /\ a \in LinkState
    BY RemoveSheds DEF Dropped, Kept, Whole, Tame, Tables
  <2>2. LinkStep(b)
    BY <1>2 DEF IrcGateway
  <2> HIDE DEF a
  <2>3. Whole(a, cache)
    BY <2>1, ShedsWhole DEF Kept
  <2>4. Sheds(a, b) /\ b \in LinkState
    BY <2>3, RemoveSheds DEF Dropped, Whole, Tame, Tables
  <2> HIDE DEF b
  <2>5. Whole(b, cache)
    BY <2>3, <2>4, ShedsWhole
  <2> QED BY <2>2, <2>5, SettleWhole DEF LinkStep
<1> QED BY <1>1, <1>2

\* The answers of ircDDB.
LEMMA IrcDDBAnswerWhole == ASSUME Kept, IrcDDBAnswer PROVE Kept'
<1>1. CASE \E c \in Calls, found \in BOOLEAN : IrcRepeater(c, found)
  BY <1>1, IrcRepeaterWhole
<1>2. CASE \E u \in Users, where \in {"SELF", "FAR"} : IrcUser(u, where)
  <2>1. UNCHANGED <<link, cache>>
    BY <1>2 DEF IrcUser
  <2> QED BY <2>1 DEF Kept
<1>3. CASE \E f \in Families, address \in BOOLEAN : IrcGateway(f, address)
  BY <1>3, IrcGatewayWhole
<1> QED BY <1>1, <1>2, <1>3 DEF IrcDDBAnswer

--------------------------------------------------------------------------------
\* The far ends.

\* A slot of the repeater that is freed.
LEMMA FreeSheds ==
  ASSUME NEW l \in LinkState, NEW table \in Tables, NEW i
  PROVE  Sheds(l, Free(l, table, i)) /\ Free(l, table, i) \in LinkState
BY ReleaseSheds DEF Free

\* Slots that are freed when the repeater is told that it has lost its link.
LEMMA FreeTold ==
  ASSUME NEW l, NEW k, Whole(l, k), NEW table \in Tables, NEW S,
         NEW i \in Outgoing(l.slots[table]), i \in S, l.slots[table][i].call = l.repeater
  PROVE  Whole(Put(Announce(NotLinked(l)), table, Release(l.slots[table], S)), k)
<1> DEFINE t == Release(l.slots[table], S)
           r == Put(l, table, t)
           m == Put(Announce(NotLinked(l)), table, t)
<1>1. l \in LinkState
  BY DEF Whole, Base
<1>2. Sheds(l, r) /\ r \in LinkState /\ Acts(r, table) = Acts(l, table) \ S
  BY <1>1, ReleaseSheds
<1>3. m = Announce(NotLinked(r))
  BY <1>1 DEF Put, Announce, NotLinked, LinkState
<1> HIDE DEF m
<1>4. CcsOn \/ Acts(r, "DEXTRA") = {}
  <2> SUFFICES ASSUME ~CcsOn PROVE Acts(r, "DEXTRA") = {}
    OBVIOUS
  <2>1. Acts(l, "DEXTRA") \subseteq (IF table = "DEXTRA" THEN {i} ELSE {})
    BY LoseOne DEF Whole
  <2> HIDE DEF r
  <2>2. Acts(r, "DEXTRA") \subseteq Acts(l, "DEXTRA")
    BY <1>2, ActsLeft DEF Tables
  <2> QED BY <1>2, <2>1, <2>2
<1> HIDE DEF r
<1>5. Sheds(r, NotLinked(r)) /\ NotLinked(r) \in LinkState
  BY <1>2, <1>4, NotLinkedSheds, NotLinkedType
<1>6. Sheds(NotLinked(r), m) /\ m \in LinkState
  BY <1>3, <1>5, AnnounceSheds, AnnounceType
<1>7. Whole(r, k)
  BY <1>2, ShedsWhole
<1>8. Whole(NotLinked(r), k)
  BY <1>5, <1>7, ShedsWhole
<1>9. Whole(m, k)
  BY <1>6, <1>8, ShedsWhole
<1> QED BY <1>9 DEF m

\* A refusal or a failure of the link in a slot, which is then freed.
LEMMA FreeAfter ==
  ASSUME NEW l, NEW k, Whole(l, k), NEW table \in Tables,
         NEW i \in Outgoing(l.slots[table]), NEW c, c = l.slots[table][i].call
  PROVE  /\ Whole(Free(l, table, i), k)
         /\ Whole(Free(LinkRefused(l, c), table, i), k)
         /\ Whole(Free(LinkFailed(l, c), table, i), k)
<1>1. l \in LinkState /\ ~l.relink
  BY DEF Whole, Base
<1>2. Whole(Free(l, table, i), k)
  BY <1>1, FreeSheds, ShedsWhole
<1>3. c = l.repeater => Whole(Free(Announce(NotLinked(l)), table, i), k)
  <2> SUFFICES ASSUME c = l.repeater
               PROVE  Whole(Free(Announce(NotLinked(l)), table, i), k)
    OBVIOUS
  <2>1. Whole(Put(Announce(NotLinked(l)), table, Release(l.slots[table], {i})), k)
    BY FreeTold
  <2>2. Announce(NotLinked(l)).slots = l.slots
    BY <1>1 DEF Announce, NotLinked, LinkState
  <2> QED BY <2>1, <2>2 DEF Free
<1>4. Whole(Free(LinkRefused(l, c), table, i), k)
  BY <1>2, <1>3 DEF LinkRefused
<1>5. Whole(Free(LinkFailed(l, c), table, i), k)
  BY <1>1, <1>2, <1>3 DEF LinkFailed
<1> QED BY <1>2, <1>4, <1>5

\* An answer to a D-Plus or DCS link.
LEMMA SocketWhole ==
  ASSUME Kept, NEW i \in Slots,
         DPlusNak(i) \/ DPlusDisconnect(i) \/ DCSNak(i) \/ DCSDisconnect(i)
  PROVE  Kept'
<1>1. "DPLUS" \in Tables /\ "DCS" \in Tables /\ Whole(link, cache)
  BY DEF Tables, Kept
<1>2. ASSUME NEW table \in Tables, Mine(table, i)
      PROVE  LET c == link.slots[table][i].call
             IN  /\ Whole(Free(link, table, i), cache)
                 /\ Whole(Free(LinkRefused(link, c), table, i), cache)
                 /\ Whole(Free(LinkFailed(link, c), table, i), cache)
  BY <1>1, <1>2, FreeAfter DEF Mine
<1>3. CASE DPlusNak(i)
  BY <1>1, <1>2, <1>3, SettleWhole DEF DPlusNak, LinkStep
<1>4. CASE DPlusDisconnect(i)
  BY <1>1, <1>2, <1>4, SettleWhole DEF DPlusDisconnect, LinkStep
<1>5. CASE DCSNak(i)
  BY <1>1, <1>2, <1>5, SettleWhole DEF DCSNak, LinkStep
<1>6. CASE DCSDisconnect(i)
  BY <1>1, <1>2, <1>6, SettleWhole, SMTT(60) DEF DCSDisconnect, LinkStep
<1> QED BY <1>3, <1>4, <1>5, <1>6

\* What SetSlots changes: the state of some slots of a table.
LEMMA SetSlotsFields ==
  ASSUME NEW l \in LinkState, NEW table \in Tables, NEW S, NEW st \in SlotState
  PROVE  LET m == SetSlots(l, table, S, st)
         IN  /\ m \in LinkState
             /\ m.relink = l.relink /\ m.mode = l.mode /\ m.startup = l.startup
             /\ m.ccs = l.ccs /\ m.last = l.last
             /\ m.status = l.status /\ m.via = l.via /\ m.repeater = l.repeater
             /\ \A u \in Tables : \A i \in Slots :
                  IF u = table /\ i \in S
                  THEN /\ m.slots[u][i].st = st
                       /\ m.slots[u][i].call = l.slots[u][i].call
                  ELSE m.slots[u][i] = l.slots[u][i]
<1> DEFINE t == [i \in Slots |-> IF i \in S THEN [l.slots[table][i] EXCEPT !.st = st]
                                            ELSE l.slots[table][i]]
           m == Put(l, table, t)
<1>1. m \in LinkState
  BY SetSlotsType DEF SetSlots
<1>2. l.slots \in [Tables -> Table]
  BY DEF LinkState
<1>3. \A i \in Slots : IF i \in S THEN /\ t[i].st = st
                                       /\ t[i].call = l.slots[table][i].call
                       ELSE t[i] = l.slots[table][i]
  BY <1>2 DEF Table, Slot
<1> HIDE DEF t
<1>4. /\ m.relink = l.relink /\ m.mode = l.mode /\ m.startup = l.startup
      /\ m.ccs = l.ccs /\ m.last = l.last
      /\ m.status = l.status /\ m.via = l.via /\ m.repeater = l.repeater
      /\ m.slots = [l.slots EXCEPT ![table] = t]
  BY DEF Put, LinkState
<1> HIDE DEF m
<1>5. \A u \in Tables : \A i \in Slots :
        IF u = table /\ i \in S
        THEN m.slots[u][i].st = st /\ m.slots[u][i].call = l.slots[u][i].call
        ELSE m.slots[u][i] = l.slots[u][i]
  BY <1>2, <1>3, <1>4
<1> QED BY <1>1, <1>4, <1>5 DEF SetSlots, m, t

\* Links of a table that come up or start again, with the status that goes with it.
LEMMA LinksChange ==
  ASSUME NEW l, NEW k, Whole(l, k), NEW table \in Tables,
         NEW S \in SUBSET Outgoing(l.slots[table]), NEW st \in Active, NEW n \in LinkState,
         n.relink = l.relink, n.mode = l.mode, n.startup = l.startup, n.ccs = l.ccs,
         n.last = l.last, n.slots = l.slots, n.via = l.via, n.repeater = l.repeater,
         \/ n.status = l.status
         \/ l.status \in Active /\ n.status \in Active /\ l.via \in Vias,
         S \subseteq Acts(l, table) \/ l.via \in Vias,
         Tame(SetSlots(n, table, S, st))
  PROVE  Whole(SetSlots(n, table, S, st), k)
<1> DEFINE m == SetSlots(n, table, S, st)
<1>1. st \in SlotState
  BY DEF Active, SlotState
<1>2. /\ m \in LinkState
      /\ m.relink = l.relink /\ m.mode = l.mode /\ m.startup = l.startup
      /\ m.ccs = l.ccs /\ m.last = l.last
      /\ m.status = n.status /\ m.via = l.via /\ m.repeater = l.repeater
      /\ \A u \in Tables : \A i \in Slots :
           IF u = table /\ i \in S
           THEN m.slots[u][i].st = st /\ m.slots[u][i].call = l.slots[u][i].call
           ELSE m.slots[u][i] = l.slots[u][i]
  BY <1>1, SetSlotsFields
<1> HIDE DEF m
<1>3. "CCS" \notin Vias /\ "NONE" \notin Vias
  BY DEF Vias, Tables
<1>4. Base(m, k)
  <2>1. NoCcs(m)
    BY <1>2 DEF Whole, Base, NoCcs
  <2>2. Searched(m, k)
    BY <1>2, <1>3 DEF Whole, Base, Searched, Active
  <2>3. ASSUME NEW u \in Tables, NEW i \in Slots PROVE Placed(m.slots[u][i], u, k)
    <3>1. Placed(l.slots[u][i], u, k)
      BY SMTT(60) DEF Whole, Base
    <3>2. CASE u = table /\ i \in S
      <4>1. l.slots[u][i].st \in Active \cup {"UNLINKING"}
        BY <3>2 DEF Outgoing
      <4> QED BY <1>2, <3>1, <3>2, <4>1, SMTT(60) DEF Placed, Active
    <3>3. CASE ~(u = table /\ i \in S)
      BY <1>2, <3>1, <3>3
    <3> QED BY <3>2, <3>3
  <2> QED BY <1>2, <2>1, <2>2, <2>3 DEF Whole, Base
<1>5. Homed(m)
  BY <1>2, <1>3 DEF Whole, Homed, ByCcs, Active
<1>6. Alone(m)
  <2> SUFFICES ASSUME ByCcs(m), m.status = "LINKED" PROVE Silent(m)
    BY DEF Alone
  <2>1. n.status = l.status /\ S \subseteq Acts(l, table) /\ Silent(l)
    BY <1>2, <1>3 DEF Whole, Alone, ByCcs
  <2>2. S = {}
    BY <2>1 DEF Silent
  <2> QED BY <1>2, <2>1, <2>2 DEF Silent, Acts
<1> QED BY <1>4, <1>5, <1>6 DEF Whole, Tame, m

\* An acknowledgement: linkUp().
LEMMA LinkUpFields ==
  ASSUME NEW l \in LinkState, NEW table
  PROVE  LET n == LinkUp(l, table)
             up == l.status = "LINKING" /\ l.via \in Vias /\ TableOf(l.via) = table
         IN  /\ n \in LinkState
             /\ n.relink = l.relink /\ n.mode = l.mode /\ n.startup = l.startup
             /\ n.ccs = l.ccs /\ n.last = l.last /\ n.slots = l.slots
             /\ n.via = l.via /\ n.repeater = l.repeater
             /\ n.status = IF up THEN "LINKED" ELSE l.status
<1>1. LinkUp(l, table) \in LinkState
  BY LinkUpType
<1> QED BY <1>1 DEF LinkUp, Announce, LinkState

\* D-Plus and DCS acknowledge one link.
LEMMA LinkAckWhole ==
  ASSUME Kept, NEW table \in {"DPLUS", "DCS"}, NEW i \in Slots, LinkAck(table, i)
  PROVE  Kept'
<1> DEFINE n == LinkUp(link, table)
           m == SetSlots(n, table, {i}, "LINKED")
<1>1. Whole(link, cache) /\ link \in LinkState /\ table \in Tables
  BY DEF Kept, Whole, Base, Tables
<1>2. link.slots[table][i].st = "LINKING" /\ LinkStep(m)
  BY DEF LinkAck, InState
<1>3. {i} \subseteq Acts(link, table) /\ {i} \in SUBSET Outgoing(link.slots[table])
  BY <1>2 DEF Acts, Outgoing, Active
<1>4. /\ n \in LinkState
      /\ n.relink = link.relink /\ n.mode = link.mode /\ n.startup = link.startup
      /\ n.ccs = link.ccs /\ n.last = link.last /\ n.slots = link.slots
      /\ n.via = link.via /\ n.repeater = link.repeater
      /\ n.status = IF /\ link.status = "LINKING" /\ link.via \in Vias
                       /\ TableOf(link.via) = table
                    THEN "LINKED" ELSE link.status
  BY <1>1, LinkUpFields
<1> HIDE DEF n
<1>5. "LINKED" \in SlotState /\ "LINKED" \in Active /\ "LINKING" \in Active
  BY DEF SlotState, Active
<1>6. /\ m.status = n.status /\ m.via = link.via /\ m.repeater = link.repeater
      /\ \A u \in Tables : \A j \in Slots :
           IF u = table /\ j \in {i}
           THEN m.slots[u][j].st = "LINKED" /\ m.slots[u][j].call = link.slots[u][j].call
           ELSE m.slots[u][j] = link.slots[u][j]
  BY <1>1, <1>4, <1>5, SetSlotsFields, SMTT(60)
<1> HIDE DEF m
<1>7. \A u \in Tables : /\ Acts(m, u) = Acts(link, u)
                        /\ \A j \in Slots : m.slots[u][j].call = link.slots[u][j].call
  BY <1>2, <1>5, <1>6 DEF Acts
<1>8. ASSUME ~CcsOn PROVE Aimed(m) /\ Followed(m)
  <2>1. Aimed(link) /\ Followed(link)
    BY <1>1, <1>8 DEF Whole
  <2>2. Aimed(m)
    BY <1>4, <1>6, <1>7, <2>1 DEF Aimed, Acts
  <2>3. Followed(m)
    <3> SUFFICES ASSUME NEW j \in Acts(m, "DEXTRA")
                 PROVE  /\ Acts(m, "DEXTRA") = {j}
                        /\ m.via = "DEXTRA" /\ m.repeater = m.slots["DEXTRA"][j].call
                        /\ m.status = m.slots["DEXTRA"][j].st
      BY DEF Followed
    <3>1. j \in Slots /\ "DEXTRA" \in Tables /\ table # "DEXTRA"
      BY DEF Acts, Tables
    <3>2. j \in Acts(link, "DEXTRA") /\ m.slots["DEXTRA"][j] = link.slots["DEXTRA"][j]
      BY <1>6, <1>7, <3>1
    <3>3. link.via = "DEXTRA" /\ TableOf(link.via) # table
      BY <2>1, <3>1, <3>2 DEF Followed, TableOf
    <3> QED BY <1>4, <1>6, <1>7, <2>1, <3>1, <3>2, <3>3 DEF Followed
  <2> QED BY <2>2, <2>3
<1>9. Whole(m, cache)
  <2>1. Tame(m)
    BY <1>8 DEF Tame
  <2>2. \/ n.status = link.status
        \/ link.status \in Active /\ n.status \in Active /\ link.via \in Vias
    BY <1>4, <1>5
  <2> QED BY <1>1, <1>3, <1>4, <1>5, <2>1, <2>2, LinksChange DEF m
<1> QED BY <1>2, <1>9, SettleWhole DEF LinkStep

\* An acknowledgement or a refusal by a DExtra gateway, to all links to it.
LEMMA DExtraStepWhole ==
  ASSUME Kept, NEW f, DExtraAck(f) \/ DExtraNak(f) PROVE Kept'
<1> DEFINE t == link.slots["DEXTRA"]
           S == {i \in InState("DEXTRA", "LINKING") : t[i].call.fam = f}
<1>1. Whole(link, cache) /\ link \in LinkState /\ "DEXTRA" \in Tables
  BY DEF Kept, Whole, Base, Tables
<1>2. S \subseteq Acts(link, "DEXTRA") /\ S \in SUBSET Outgoing(t)
  BY DEF InState, Acts, Outgoing, Active
<1>3. CASE DExtraAck(f)
  <2> DEFINE n == LinkUp(link, "DEXTRA")
             m == SetSlots(n, "DEXTRA", S, "LINKED")
  <2>1. S # {} /\ LinkStep(m)
    BY <1>3 DEF DExtraAck
  <2>2. /\ n \in LinkState
        /\ n.relink = link.relink /\ n.mode = link.mode /\ n.startup = link.startup
        /\ n.ccs = link.ccs /\ n.last = link.last /\ n.slots = link.slots
        /\ n.via = link.via /\ n.repeater = link.repeater
        /\ n.status = IF /\ link.status = "LINKING" /\ link.via \in Vias
                         /\ TableOf(link.via) = "DEXTRA"
                      THEN "LINKED" ELSE link.status
    BY <1>1, LinkUpFields
  <2> HIDE DEF n
  <2>3. "LINKED" \in SlotState /\ "LINKED" \in Active /\ "LINKING" \in Active
    BY DEF SlotState, Active
  <2>4. \A i \in S : t[i].st = "LINKING"
    BY DEF InState
  <2> HIDE DEF S
  <2>5. /\ m.status = n.status /\ m.via = link.via /\ m.repeater = link.repeater
        /\ \A u \in Tables : \A j \in Slots :
             IF u = "DEXTRA" /\ j \in S
             THEN m.slots[u][j].st = "LINKED" /\ m.slots[u][j].call = link.slots[u][j].call
             ELSE m.slots[u][j] = link.slots[u][j]
    BY <1>1, <2>2, <2>3, SetSlotsFields
  <2> HIDE DEF m
  <2>6. \A u \in Tables : /\ Acts(m, u) = Acts(link, u)
                          /\ \A j \in Slots : m.slots[u][j].call = link.slots[u][j].call
    BY <1>2, <2>3, <2>5 DEF Acts
  <2>7. ASSUME ~CcsOn PROVE Aimed(m) /\ Followed(m)
    <3>1. Aimed(link) /\ Followed(link)
      BY <1>1, <2>7 DEF Whole
    <3>2. PICK i \in S : TRUE
      BY <2>1
    <3>3. /\ Acts(link, "DEXTRA") = {i} /\ link.via = "DEXTRA" /\ link.status = "LINKING"
          /\ link.repeater = t[i].call
      BY <1>2, <2>4, <3>1, <3>2 DEF Followed
    <3>4. n.status = "LINKED"
      BY <1>1, <2>2, <3>3 DEF Vias, TableOf
    <3>5. Aimed(m)
      BY <2>2, <2>5, <2>6, <3>1, <3>3 DEF Aimed, Acts
    <3>6. i \in Slots
      BY <3>3 DEF Acts
    <3>7. Followed(m)
      BY <1>1, <2>5, <2>6, <3>2, <3>3, <3>4, <3>6 DEF Followed
    <3> QED BY <3>5, <3>7
  <2>8. Whole(m, cache)
    <3>1. Tame(m)
      BY <2>7 DEF Tame
    <3>2. \/ n.status = link.status
          \/ link.status \in Active /\ n.status \in Active /\ link.via \in Vias
      BY <2>2, <2>3
    <3> QED BY <1>1, <1>2, <2>2, <2>3, <3>1, <3>2, LinksChange DEF m
  <2> QED BY <2>1, <2>8, SettleWhole, SMTT(60) DEF LinkStep
<1>4. CASE DExtraNak(f)
  <2> DEFINE m == Put(link, "DEXTRA", Release(t, S))
             n == Put(Announce(NotLinked(link)), "DEXTRA", Release(t, S))
  <2>1. LinkStep(IF \E i \in S : t[i].call = link.repeater THEN n ELSE m)
    BY <1>4 DEF DExtraNak, LinkRefused
  <2>2. Sheds(link, m) /\ m \in LinkState
    BY <1>1, ReleaseSheds
  <2>3. Whole(m, cache)
    BY <1>1, <2>2, ShedsWhole
  <2>4. ASSUME NEW i \in S, t[i].call = link.repeater PROVE Whole(n, cache)
    BY <1>1, <1>2, <2>4, FreeTold
  <2> HIDE DEF n, m
  <2> QED BY <2>1, <2>3, <2>4, SettleWhole, SMTT(60) DEF LinkStep
<1> QED BY <1>3, <1>4

\* The poll inactivity time-out of a link that the repeater wants to keep.
LEMMA KeepTryingWhole ==
  ASSUME NEW l, NEW k, Whole(l, k), NEW table \in Tables,
         NEW i \in Outgoing(l.slots[table]),
         KeepTrying(l, table, l.slots[table][i].call)
  PROVE  Whole(SetSlots(LinkLost(l, table, l.slots[table][i].call), table, {i}, "LINKING"), k)
<1> DEFINE n == LinkLost(l, table, l.slots[table][i].call)
           m == SetSlots(n, table, {i}, "LINKING")
<1>1. l \in LinkState /\ i \in Slots /\ "DEXTRA" \in Tables
  BY DEF Whole, Base, Outgoing, Tables
<1>2. /\ l.status \in Active /\ l.repeater = l.slots[table][i].call
      /\ l.via \in Vias /\ TableOf(l.via) = table
  BY DEF KeepTrying
<1>3. /\ n \in LinkState
      /\ n.relink = l.relink /\ n.mode = l.mode /\ n.startup = l.startup
      /\ n.ccs = l.ccs /\ n.last = l.last /\ n.slots = l.slots
      /\ n.via = l.via /\ n.repeater = l.repeater /\ n.status = "LINKING"
  <2>1. n \in LinkState
    BY <1>1, LinkLostType
  <2> QED BY <1>1, <1>2, <2>1 DEF LinkLost, Announce, LinkState, Active
<1> HIDE DEF n
<1>4. "LINKING" \in SlotState /\ "LINKING" \in Active
  BY DEF SlotState, Active
<1>5. /\ m.status = "LINKING" /\ m.via = l.via /\ m.repeater = l.repeater
      /\ \A u \in Tables : \A j \in Slots :
           IF u = table /\ j \in {i}
           THEN m.slots[u][j].st = "LINKING" /\ m.slots[u][j].call = l.slots[u][j].call
           ELSE m.slots[u][j] = l.slots[u][j]
  BY <1>1, <1>3, <1>4, SetSlotsFields, SMTT(60)
<1> HIDE DEF m
<1>6. ASSUME ~CcsOn PROVE Aimed(m) /\ Followed(m)
  <2>1. Aimed(l) /\ Followed(l) /\ l.status # "NONE"
    BY <1>2, <1>6 DEF Whole, Active
  <2>2. Aimed(m)
    BY <1>2, <1>5, <2>1 DEF Aimed, Acts
  <2>3. CASE table # "DEXTRA"
    <3>1. TableOf("DEXTRA") # table
      BY <2>3 DEF TableOf
    <3>2. Acts(l, "DEXTRA") = {}
      BY <1>2, <2>1, <3>1 DEF Followed
    <3>3. Acts(m, "DEXTRA") = {}
      BY <1>1, <1>5, <2>3, <3>2 DEF Acts
    <3> QED BY <2>2, <3>3 DEF Followed
  <2>4. CASE table = "DEXTRA"
    <3>1. Placed(l.slots["DEXTRA"][i], "DEXTRA", k)
      BY <1>1, SMTT(60) DEF Whole, Base
    <3>2. i \in Acts(l, "DEXTRA")
      BY <1>1, <2>4, <3>1 DEF Placed, Outgoing, Acts
    <3>3. Acts(l, "DEXTRA") = {i} /\ l.via = "DEXTRA"
      BY <2>1, <3>2 DEF Followed
    <3>4. Acts(m, "DEXTRA") = {i}
      BY <1>1, <1>4, <1>5, <2>4, <3>3 DEF Acts
    <3>5. Followed(m)
      BY <1>1, <1>2, <1>5, <2>4, <3>3, <3>4 DEF Followed
    <3> QED BY <2>2, <3>5
  <2> QED BY <2>3, <2>4
<1>7. Tame(m)
  BY <1>6 DEF Tame
<1>8. {i} \in SUBSET Outgoing(l.slots[table])
  OBVIOUS
<1> QED BY <1>2, <1>3, <1>4, <1>7, <1>8, LinksChange DEF m, n

\* The poll inactivity time-out of a link.
LEMMA SlotTimeoutWhole ==
  ASSUME Kept, NEW table \in Tables, NEW i \in Slots, SlotTimeout(table, i) PROVE Kept'
<1> DEFINE c == link.slots[table][i].call
           a == SetSlots(LinkLost(link, table, c), table, {i}, "LINKING")
           b == Free(link, table, i)
<1>1. Whole(link, cache) /\ link \in LinkState /\ i \in Outgoing(link.slots[table])
  BY DEF Kept, Whole, Base, SlotTimeout, Mine
<1>2. KeepTrying(link, table, c) => Whole(a, cache)
  BY <1>1, KeepTryingWhole
<1>3. Whole(b, cache)
  BY <1>1, FreeAfter
<1>4. LinkStep(IF KeepTrying(link, table, c) THEN a ELSE b)
  BY DEF SlotTimeout
<1> HIDE DEF a, b
<1> QED BY <1>2, <1>3, <1>4, SettleWhole DEF LinkStep

\* Links of other repeaters come into free slots, and leave them.
LEMMA OtherWhole ==
  ASSUME Kept, NEW table \in Tables,
         OtherTakes(table) \/ \E i \in Slots : OtherLeaves(table, i)
  PROVE  Kept'
<1>1. Whole(link, cache) /\ link \in LinkState
  BY DEF Kept, Whole, Base
<1>2. CASE OtherTakes(table)
  <2> DEFINE m == SetSlots(link, table, {FirstFree(link.slots[table])}, "OTHER")
  <2>1. LinkStep(m)
    BY <1>2 DEF OtherTakes
  <2>2. "OTHER" \in SlotState /\ "OTHER" \notin Active \cup {"UNLINKING"}
    BY DEF SlotState, Active
  <2>3. m \in LinkState /\ Sheds(link, m)
    BY <1>1, <2>2, SetSlotsFields DEF Sheds, GivenUp
  <2> HIDE DEF m
  <2>4. Whole(m, cache)
    BY <1>1, <2>3, ShedsWhole
  <2> QED BY <2>1, <2>4, SettleWhole DEF LinkStep
<1>3. ASSUME NEW i \in Slots, OtherLeaves(table, i) PROVE Kept'
  <2>1. Whole(Free(link, table, i), cache)
    BY <1>1, FreeSheds, ShedsWhole
  <2> QED BY <1>3, <2>1, SettleWhole DEF OtherLeaves, LinkStep
<1> QED BY <1>2, <1>3

\* Messages of the far ends, and time-outs of links.
LEMMA NetworkWhole == ASSUME Kept, Network PROVE Kept'
<1>1. CASE \E f \in Families : DExtraAck(f) \/ DExtraNak(f)
  BY <1>1, DExtraStepWhole
<1>2. ASSUME NEW c \in Calls, DExtraDisconnect(c) PROVE Kept'
  <2> DEFINE m == Remove(link, "DEXTRA", {c}, {"LINKED"})
  <2>1. Sheds(link, m) /\ m \in LinkState
    BY RemoveSheds DEF Kept, Whole, Tame, Tables
  <2>2. LinkStep(m)
    BY <1>2 DEF DExtraDisconnect
  <2> HIDE DEF m
  <2>3. Whole(m, cache)
    BY <2>1, ShedsWhole DEF Kept
  <2> QED BY <2>2, <2>3, SettleWhole DEF LinkStep
<1>3. CASE \E i \in Slots : \/ DPlusNak(i) \/ DPlusDisconnect(i)
                            \/ DCSNak(i) \/ DCSDisconnect(i)
                            \/ \E table \in {"DPLUS", "DCS"} : LinkAck(table, i)
                            \/ \E table \in Tables : SlotTimeout(table, i)
  BY <1>3, SocketWhole, LinkAckWhole, SlotTimeoutWhole
<1>4. CASE \E table \in Others : OtherTakes(table) \/ \E i \in Slots : OtherLeaves(table, i)
  BY <1>4, OtherWhole, RepeaterHandlerAssumption
<1> QED BY <1>1, <1>2, <1>3, <1>4 DEF Network

--------------------------------------------------------------------------------
\* CCS and the remote control.

\* The CCS client.
LEMMA CcsWhole == ASSUME Kept, Ccs PROVE Kept'
<1>1. Whole(link, cache) /\ link \in LinkState
  BY DEF Kept, Whole, Base
<1>2. CcsOn
  <2>1. link.ccs # "DISABLED"
    BY DEF Ccs, CcsAck, CcsNak, CcsIncomingCall, CcsTerminate, CcsFound, CcsNotFound,
           CcsPollLost
  <2> QED BY <1>1, <2>1 DEF Whole, Base, NoCcs
<1>3. ASSUME NEW st \in {"DISABLED", "CONNECTING", "CONNECTED", "ACTIVE"},
             NEW dir \in {"OUTGOING", "INCOMING"}, NEW known \in BOOLEAN, NEW asked \in BOOLEAN,
             NEW l, Whole(l, cache)
      PROVE  Whole([l EXCEPT !.ccs = st, !.ccsDir = dir, !.ccsKnown = known,
                             !.ccsAsked = asked], cache)
  <2> DEFINE m == [l EXCEPT !.ccs = st, !.ccsDir = dir, !.ccsKnown = known,
                            !.ccsAsked = asked]
  <2>1. l \in LinkState /\ m \in LinkState
    BY <1>3, ZenonT(60) DEF Whole, Base, LinkState
  <2>2. /\ m.relink = l.relink /\ m.mode = l.mode /\ m.startup = l.startup
        /\ m.slots = l.slots
        /\ m.status = l.status /\ m.via = l.via /\ m.repeater = l.repeater
    BY <2>1 DEF LinkState
  <2> HIDE DEF m
  <2>3. Whole(m, cache)
    BY <1>2, <1>3, <2>1, <2>2, ClientWhole
  <2> QED BY <2>3 DEF m
<1> DEFINE At(l, st, dir, known, asked) ==
             [l EXCEPT !.ccs = st, !.ccsDir = dir, !.ccsKnown = known, !.ccsAsked = asked]
<1>4. /\ link.ccsDir \in {"OUTGOING", "INCOMING"} /\ link.ccsKnown \in BOOLEAN
      /\ link.ccsAsked \in BOOLEAN
  BY <1>1 DEF LinkState
<1>5. \A st \in {"DISABLED", "CONNECTING", "CONNECTED", "ACTIVE"},
         dir \in {"OUTGOING", "INCOMING"}, known \in BOOLEAN, asked \in BOOLEAN :
        Whole(At(link, st, dir, known, asked), cache)
  BY <1>1, <1>3, ZenonT(60)
<1>6. \A st \in {"DISABLED", "CONNECTING", "CONNECTED", "ACTIVE"} :
        [link EXCEPT !.ccs = st] = At(link, st, link.ccsDir, link.ccsKnown, link.ccsAsked)
  BY <1>1 DEF LinkState
<1>7. \A st \in {"DISABLED", "CONNECTING", "CONNECTED", "ACTIVE"} :
        Whole([link EXCEPT !.ccs = st], cache)
  BY <1>4, <1>5, <1>6, ZenonT(60)
<1>8. CASE CcsAck \/ CcsNak
  BY <1>7, <1>8, SettleWhole DEF CcsAck, CcsNak, LinkStep
<1>9. CASE CcsIncomingCall
  <2> DEFINE m == [link EXCEPT !.ccs = "ACTIVE", !.ccsDir = "INCOMING"]
  <2>1. m = At(link, "ACTIVE", "INCOMING", link.ccsKnown, link.ccsAsked)
    BY <1>1 DEF LinkState
  <2>2. LinkStep(CcsLinkMade(m, "INCOMING"))
    BY <1>9 DEF CcsIncomingCall
  <2> HIDE DEF m
  <2>3. Whole(CcsLinkMade(m, "INCOMING"), cache)
    BY <1>2, <1>4, <1>5, <2>1, CcsMadeWhole
  <2> QED BY <2>2, <2>3, SettleWhole DEF LinkStep
<1>10. CASE CcsTerminate
  <2>1. Whole(CcsLinkEnded([link EXCEPT !.ccs = "CONNECTED"], link.ccsDir), cache)
    BY <1>2, <1>7, CcsEndedWhole
  <2> QED BY <1>10, <2>1, SettleWhole DEF CcsTerminate, LinkStep
<1>11. CASE CcsFound
  <2> DEFINE m == [link EXCEPT !.ccsKnown = TRUE, !.ccsAsked = FALSE]
  <2>1. m = At(link, link.ccs, link.ccsDir, TRUE, FALSE)
    BY <1>1 DEF LinkState
  <2>2. LinkStep(CcsLinkMade(m, link.ccsDir))
    BY <1>11 DEF CcsFound
  <2>3. link.ccs \in {"DISABLED", "CONNECTING", "CONNECTED", "ACTIVE"}
    BY <1>1 DEF LinkState
  <2> HIDE DEF m
  <2>4. Whole(CcsLinkMade(m, link.ccsDir), cache)
    BY <1>2, <1>4, <1>5, <2>1, <2>3, CcsMadeWhole
  <2> QED BY <2>2, <2>4, SettleWhole DEF LinkStep
<1>12. CASE CcsNotFound
  <2> DEFINE m == [link EXCEPT !.ccs = "CONNECTED", !.ccsAsked = FALSE]
  <2>1. m = At(link, "CONNECTED", link.ccsDir, link.ccsKnown, FALSE)
    BY <1>1 DEF LinkState
  <2>2. LinkStep(CcsLinkEnded(m, link.ccsDir))
    BY <1>12 DEF CcsNotFound
  <2> HIDE DEF m
  <2>3. Whole(CcsLinkEnded(m, link.ccsDir), cache)
    BY <1>2, <1>4, <1>5, <2>1, CcsEndedWhole
  <2> QED BY <2>2, <2>3, SettleWhole DEF LinkStep
<1>13. CASE CcsPollLost
  <2> DEFINE m == IF link.ccs = "ACTIVE" THEN CcsLinkEnded(link, link.ccsDir) ELSE link
  <2>1. Whole(m, cache)
    BY <1>1, <1>2, CcsEndedWhole
  <2>2. LinkStep([m EXCEPT !.ccs = "CONNECTING"])
    BY <1>13 DEF CcsPollLost
  <2> HIDE DEF m
  <2>3. m \in LinkState
    BY <2>1 DEF Whole, Base
  <2>4. [m EXCEPT !.ccs = "CONNECTING"] =
          At(m, "CONNECTING", m.ccsDir, m.ccsKnown, m.ccsAsked)
    BY <2>3 DEF LinkState
  <2>5. m.ccsDir \in {"OUTGOING", "INCOMING"} /\ m.ccsKnown \in BOOLEAN /\ m.ccsAsked \in BOOLEAN
    BY <2>3 DEF LinkState
  <2>6. Whole([m EXCEPT !.ccs = "CONNECTING"], cache)
    BY <1>3, <2>1, <2>4, <2>5, ZenonT(60)
  <2> QED BY <2>2, <2>6, SettleWhole DEF LinkStep
<1> QED BY <1>8, <1>9, <1>10, <1>11, <1>12, <1>13 DEF Ccs

\* A call that is up is ended before the remote control links.
LEMMA DropCcsWhole ==
  ASSUME NEW l, Whole(l, cache) PROVE Whole(DropCcs(l), cache)
<1> DEFINE s == CcsStopLink(l)
           m == [NotLinked(s) EXCEPT !.query = "OFF"]
<1>1. CASE ByCcs(l)
  <2>1. CcsOn
    BY <1>1 DEF Whole, Base, NoCcs, ByCcs
  <2>2. Whole(s, cache)
    BY CcsStopWhole
  <2> HIDE DEF s
  <2>3. s \in LinkState
    BY <2>2 DEF Whole, Base
  <2>4. NotLinked(s) \in LinkState /\ Sheds(s, NotLinked(s))
    BY <2>1, <2>3, NotLinkedType, NotLinkedSheds
  <2>5. Whole(NotLinked(s), cache)
    BY <2>2, <2>4, ShedsWhole
  <2>6. Whole(m, cache)
    BY <2>5, QueryWhole DEF Timer
  <2> QED BY <1>1, <2>6 DEF DropCcs, m, s
<1>2. CASE ~ByCcs(l)
  BY <1>2 DEF DropCcs
<1> QED BY <1>1, <1>2

\* The remote control sets the mode and the reflector of a repeater.
LEMMA RemoteLinkWhole ==
  ASSUME OneModule, Kept, NEW mode \in RemoteModes, NEW c \in RemoteTargets,
         RemoteLink(mode, c)
  PROVE  Kept'
<1> DEFINE k == DropCcs(link)
           t == k.timeout \/ mode = "TIMED"
           w == IF mode = "TIMED" THEN "RUN" ELSE "OFF"
           l == [k EXCEPT
                   !.startup = c, !.mode = mode, !.timeout = @ \/ mode = "TIMED",
                   !.reconnect = IF mode = "TIMED" THEN "RUN" ELSE "OFF"]
           A == (l.status # "NONE" /\ l.repeater = c) \/ (l.status = "NONE" /\ c = NoCall)
           B == l.status # "NONE" /\ l.repeater # c /\ c = NoCall
           C == l.status # "NONE" /\ l.repeater # c /\ c # NoCall /\ SameFamily(l.repeater, c)
           n == CASE A -> l
                  [] B -> Announce(NotLinked(UnlinkAll(l)))
                  [] C -> ChangeModule(l, c)
                  [] OTHER -> LinkInt(UnlinkAll(l), c)
<1>1. LinkStep(n)
  BY DEF RemoteLink
<1>2. c \in Calls \cup {NoCall} /\ c \in AnyCall /\ mode \in {"NEVER", "FIXED", "TIMED"}
  BY RepeaterHandlerAssumption DEF AnyCall
<1>3. Whole(k, cache)
  BY DropCcsWhole DEF Kept
<1> HIDE DEF k
<1>4. k \in LinkState
  BY <1>3 DEF Whole, Base
<1>5. t \in BOOLEAN /\ w \in ReconnectTimer
  BY <1>4 DEF ReconnectTimer, Timer
<1>6. l = [k EXCEPT !.startup = c, !.mode = mode, !.timeout = t, !.reconnect = w]
  BY <1>4 DEF LinkState
<1> HIDE DEF t, w
<1>7. l \in LinkState
  <2>1. [k EXCEPT !.startup = c, !.mode = mode] \in LinkState
    BY <1>2, <1>4 DEF LinkState
  <2>2. \A p \in LinkState : [p EXCEPT !.timeout = t, !.reconnect = w] \in LinkState
    BY <1>5, ZenonT(60) DEF LinkState
  <2> QED BY <1>6, <2>1, <2>2
<1>8. /\ l.status = k.status /\ l.via = k.via /\ l.repeater = k.repeater
      /\ l.slots = k.slots /\ l.relink = k.relink /\ l.ccs = k.ccs /\ l.last = k.last
      /\ l.startup = c /\ l.mode = mode
  BY <1>4, <1>6 DEF LinkState
<1> HIDE DEF l
<1>9. Base(l, cache)
  BY <1>3, <1>7, <1>8, SMTT(60) DEF Whole, Base, NoCcs, Searched
<1>10. Alone(l) /\ Tame(l)
  BY <1>3, <1>8 DEF Whole, Alone, Tame, ByCcs, Silent, Acts, Aimed, Followed
<1>11. Whole(n, cache)
  <2>1. CASE A
    <3>1. Homed(l)
      BY <1>8, <2>1 DEF Homed
    <3> QED BY <1>9, <1>10, <2>1, <3>1 DEF Whole, Tame
  <2>2. CASE ~A /\ B
    BY <1>9, <1>10, <2>2, UnlinkForGood
  <2>3. ~C
    BY FamilyIsCall
  <2>4. CASE ~A /\ ~B
    <3>1. Whole(LinkInt(UnlinkAll(l), c), cache)
      BY <1>2, <1>8, <1>9, <1>10, UnlinkThenLink
    <3> QED BY <2>3, <2>4, <3>1
  <2> QED BY <2>1, <2>2, <2>4
<1> HIDE DEF n
<1> QED BY <1>1, <1>11, SettleWhole DEF LinkStep

\* The remote control.
LEMMA RemoteWhole == ASSUME OneModule, Kept, Remote PROVE Kept'
<1>1. Whole(link, cache) /\ link \in LinkState
  BY DEF Kept, Whole, Base
<1>2. ASSUME NEW table \in Tables, NEW c, RemoteUnlink(table, c) PROVE Kept'
  <2> DEFINE m == TableUnlinkBy(link, table, c)
  <2>1. Sheds(link, m) /\ m \in LinkState
    <3>1. CASE table = "DEXTRA"
      BY <1>1, <3>1, RemoveSheds DEF TableUnlinkBy, DExtraUnlink, Whole, Tame, Tables
    <3>2. CASE table = "DPLUS"
      BY <1>1, <3>2, TableUnlinkSheds DEF TableUnlinkBy, DPlusUnlink
    <3>3. CASE table = "DCS"
      BY <1>1, <3>3, TableUnlinkSheds DEF TableUnlinkBy, DCSUnlink
    <3> QED BY <3>1, <3>2, <3>3 DEF Tables
  <2> HIDE DEF m
  <2>2. Whole(m, cache)
    BY <1>1, <2>1, ShedsWhole
  <2>3. LinkStep(m)
    BY <1>2 DEF RemoteUnlink, m
  <2> QED BY <2>2, <2>3, SettleWhole DEF LinkStep
<1>3. CASE RemoteUnlinkCcs
  BY <1>1, <1>3, CcsStopWhole, SettleWhole DEF RemoteUnlinkCcs, LinkStep
<1> QED BY <1>2, <1>3, RemoteLinkWhole DEF Remote

--------------------------------------------------------------------------------
\* The theorems.

\* The constructor's repeater has no link.
LEMMA FreshWhole ==
  ASSUME cache = InitialCache, NEW mode \in Modes, NEW startup \in Startups
  PROVE  /\ Whole(Fresh(mode, startup), cache) /\ Silent(Fresh(mode, startup))
         /\ Fresh(mode, startup).startup = startup
<1> DEFINE l == Fresh(mode, startup)
<1>1. l \in LinkState
  BY FreshType
<1>2. /\ l.status = "NONE" /\ l.via = "NONE" /\ l.relink = FALSE /\ l.last = NoCall
      /\ l.startup = startup /\ (CcsOn \/ l.ccs = "DISABLED")
      /\ \A table \in Tables : \A i \in Slots : l.slots[table][i] = FreeSlot
  BY DEF Fresh
<1> HIDE DEF l
<1>3. cache \in CacheType
  BY RepeaterHandlerAssumption DEF CacheType
<1>4. FreeSlot.st \notin Active \cup {"UNLINKING"}
  BY DEF FreeSlot, Active
<1>5. Base(l, cache)
  BY <1>1, <1>2, <1>3, <1>4 DEF Base, NoCcs, Placed, Searched, KnownReflectors
<1>6. Silent(l)
  BY <1>2, <1>4 DEF Silent, Acts
<1>7. Whole(l, cache)
  BY <1>2, <1>5, <1>6
     DEF Whole, Homed, Alone, ByCcs, Active, Aimed, Followed, Silent, Tables
<1> QED BY <1>2, <1>6, <1>7 DEF l

\* startupInt().
LEMMA StartupWhole ==
  ASSUME NEW l, Whole(l, cache), Silent(l), l.status = "NONE", l.via = "NONE",
         NEW c \in {NoCall, l.startup}
  PROVE  Whole(LinkAtStartup(l, c), cache)
<1> DEFINE pending == [l EXCEPT !.status = "PENDING_IRCDDB", !.repeater = c, !.query = "RUN"]
           unknown == [l EXCEPT !.repeater = c]
<1>1. l \in LinkState /\ c \in AnyCall /\ Base(l, cache)
  BY DEF Whole, Base, LinkState, AnyCall
<1>2. c # NoCall /\ FindRepeater(c) = "UNKNOWN" => Whole(pending, cache)
  <2> SUFFICES ASSUME c = l.startup, FindRepeater(c) = "UNKNOWN"
               PROVE  Whole(pending, cache)
    OBVIOUS
  <2>1. pending \in LinkState
    BY <1>1 DEF LinkState, Timer
  <2>2. /\ pending.status = "PENDING_IRCDDB" /\ pending.via = "NONE"
        /\ pending.repeater = l.startup /\ pending.startup = l.startup
        /\ pending.relink = l.relink /\ pending.ccs = l.ccs /\ pending.last = l.last
        /\ pending.slots = l.slots
    BY <1>1 DEF LinkState
  <2> HIDE DEF pending
  <2>3. l.startup \in Calls => cache[l.startup.fam] = "UNKNOWN"
    BY DEF FindRepeater
  <2>4. Base(pending, cache)
    BY <1>1, <2>1, <2>2, <2>3 DEF Base, NoCcs, Searched
  <2>5. CcsOn \/ (Aimed(pending) /\ Followed(pending))
    BY <2>2 DEF Silent, Aimed, Followed, Acts, Tables
  <2> QED BY <2>2, <2>4, <2>5 DEF Whole, Homed, Alone, ByCcs, Active
<1>3. Whole(unknown, cache)
  <2>1. unknown \in LinkState
    BY <1>1 DEF LinkState
  <2>2. unknown.status = "NONE" /\ unknown.via = "NONE" /\ unknown.slots = l.slots
        /\ unknown.relink = l.relink /\ unknown.ccs = l.ccs /\ unknown.last = l.last
    BY <1>1 DEF LinkState
  <2> HIDE DEF unknown
  <2>3. Base(unknown, cache)
    BY <1>1, <2>1, <2>2 DEF Base, NoCcs, Searched
  <2>4. CcsOn \/ (Aimed(unknown) /\ Followed(unknown))
    BY <2>2 DEF Silent, Aimed, Followed, Acts, Tables
  <2> QED BY <2>2, <2>3, <2>4 DEF Whole, Homed, Alone, ByCcs, Active
<1>4. c # NoCall => Whole(LinkInt(l, c), cache)
  BY <1>1, LinkIntWhole
<1> HIDE DEF pending, unknown
<1> DEFINE n == CASE c = NoCall -> l
                  [] c # NoCall /\ FindRepeater(c) = "UNKNOWN" /\ IrcDDB -> pending
                  [] c # NoCall /\ FindRepeater(c) = "UNKNOWN" /\ ~IrcDDB -> unknown
                  [] OTHER -> LinkInt(l, c)
<1>5. Whole(n, cache)
  <2>1. CASE c = NoCall
    BY <2>1
  <2>2. CASE c # NoCall /\ FindRepeater(c) = "UNKNOWN"
    BY <2>2, <1>2, <1>3
  <2>3. CASE c # NoCall /\ FindRepeater(c) # "UNKNOWN"
    BY <2>3, <1>4
  <2> QED BY <2>1, <2>2, <2>3
<1> QED BY <1>5 DEF LinkAtStartup, pending, unknown

\* A repeater starts in order.
LEMMA InitWhole == Init => Kept
<1> SUFFICES ASSUME Init PROVE Kept
  OBVIOUS
<1>1. PICK mode \in Modes, startup \in Startups, atStartup \in BOOLEAN :
        link = [LinkAtStartup(Fresh(mode, startup),
                              IF atStartup THEN startup ELSE NoCall)
                  EXCEPT !.announce = FALSE]
  BY DEF Init
<1> DEFINE l == Fresh(mode, startup)
           c == IF atStartup THEN startup ELSE NoCall
<1>2. cache = InitialCache
  BY DEF Init
<1>3. Whole(l, cache) /\ Silent(l) /\ l.startup = startup
  BY <1>2, FreshWhole
<1>4. l.status = "NONE" /\ l.via = "NONE"
  BY DEF Fresh
<1>5. c \in {NoCall, l.startup}
  BY <1>3
<1> HIDE DEF l, c
<1>6. Whole(LinkAtStartup(l, c), cache)
  BY <1>3, <1>4, <1>5, StartupWhole
<1> QED BY <1>1, <1>6, QuietWhole DEF Kept, l, c

\* No step leaves the invariant.
LEMMA NextWhole == ASSUME OneModule PROVE Kept /\ [Next]_vars => Kept'
<1> SUFFICES ASSUME Kept, [Next]_vars PROVE Kept'
  OBVIOUS
<1>1. CASE Next
  BY <1>1, RadioWhole, ClockWhole, IrcDDBAnswerWhole, NetworkWhole, CcsWhole, RemoteWhole
     DEF Next
<1>2. CASE UNCHANGED vars
  BY <1>2 DEF vars, Kept
<1> QED BY <1>1, <1>2

\* The links, the status and the cache agree in every state of the repeater.
THEOREM LinksWhole == ASSUME OneModule PROVE Spec => []Kept
BY InitWhole, NextWhole, PTL DEF Spec

\* Without CCS, whatever was unlinked, lost or refused before, no link carries
\* audio but one to the repeater's present target, in that protocol's table.
THEOREM ActiveIsTarget == ASSUME OneModule, ~CcsOn PROVE Spec => []ActiveToRepeater
<1>1. Kept => ActiveToRepeater
  BY DEF Kept, Whole, Aimed, ActiveToRepeater, Act, Acts, SlotCall
<1> QED BY <1>1, LinksWhole, PTL

\* Without CCS, a DExtra link is the only one, and the repeater shows its state:
\* CDExtraHandler reports every change of a link through linkUp and linkFailed.
THEOREM DExtraIsFollowed == ASSUME OneModule, ~CcsOn PROVE Spec => []DExtraFollows
<1>1. Kept => DExtraFollows
  BY DEF Kept, Whole, Followed, DExtraFollows, Act, Acts, SlotCall
<1> QED BY <1>1, LinksWhole, PTL

\* During a call that the repeater shows, suspendLinks() has left no reflector
\* link, and no late acknowledgement or time-out brings one back.
THEOREM CallIsAlone == ASSUME OneModule PROVE Spec => []CcsAlone
<1>1. Kept => CcsAlone
  BY DEF Kept, Whole, Alone, Silent, CcsAlone, Act, Acts
<1> QED BY <1>1, LinksWhole, PTL

\* A fixed repeater goes nowhere but to its reflector, if the hosts files know
\* every reflector: linkInt() leaves the links as they are for one they do not.
THEOREM FixedIsHome == ASSUME OneModule, KnownReflectors PROVE Spec => []FixedHome
<1>1. Kept => FixedHome
  BY DEF Kept, Whole, Homed, FixedHome
<1> QED BY <1>1, LinksWhole, PTL

\* What the repeater is told of a link keeps it not linked.
LEMMA ToldNone ==
  ASSUME NEW l \in LinkState, ~l.relink, l.status = "NONE", NEW c, NEW table
  PROVE  /\ LinkUp(l, table) = l /\ ~KeepTrying(l, table, c) /\ LinkFailed(l, c) = l
         /\ LinkRefused(l, c) \in LinkState /\ LinkRefused(l, c).status = "NONE"
<1>1. Announce(NotLinked(l)) \in LinkState
  BY NotLinkedType, AnnounceType
<1>2. Announce(NotLinked(l)).status = "NONE"
  BY DEF Announce, NotLinked, LinkState
<1> QED BY <1>1, <1>2 DEF LinkUp, KeepTrying, LinkFailed, LinkRefused, Active

\* Nor does a slot that is freed link it.
LEMMA FreeNone ==
  ASSUME NEW l \in LinkState, l.status = "NONE", NEW table \in Tables, NEW S
  PROVE  LET m == Put(l, table, Release(l.slots[table], S))
         IN  m \in LinkState /\ m.status = "NONE"
<1> DEFINE m == Put(l, table, Release(l.slots[table], S))
<1>1. Sheds(l, m) /\ m \in LinkState
  BY ReleaseSheds
<1> HIDE DEF m
<1>2. m.status = "NONE"
  BY <1>1 DEF Sheds
<1> QED BY <1>1, <1>2 DEF m

\* What is committed is what the repeater shows.
LEMMA StepNone ==
  ASSUME NEW m \in LinkState, m.status = "NONE", LinkStep(m) PROVE link'.status = "NONE"
BY DEF LinkStep, Settle, LinkState

\* No message or time-out of a far end links a repeater that is not linked.
THEOREM NeverLinked == ASSUME OneModule PROVE Spec => NetworkNeverLinks
<1> DEFINE Stays == Network /\ link.status = "NONE" => link'.status = "NONE"
<1>1. ASSUME Kept, Network, link.status = "NONE" PROVE link'.status = "NONE"
  <2>1. /\ link \in LinkState /\ ~link.relink /\ "DEXTRA" \in Tables
        /\ "DPLUS" \in Tables /\ "DCS" \in Tables
    BY <1>1 DEF Kept, Whole, Base, Tables
  <2>2. ASSUME NEW table \in Tables, NEW S, NEW st \in SlotState,
               LinkStep(SetSlots(link, table, S, st))
        PROVE  link'.status = "NONE"
    <3> DEFINE m == SetSlots(link, table, S, st)
    <3>1. m \in LinkState /\ m.status = "NONE"
      BY <1>1, <2>1, <2>2, SetSlotsFields
    <3> QED BY <2>2, <3>1, StepNone
  <2>3. ASSUME NEW l \in LinkState, l.status = "NONE", NEW table \in Tables, NEW i,
               LinkStep(Free(l, table, i))
        PROVE  link'.status = "NONE"
    <3> DEFINE m == Free(l, table, i)
    <3>1. m \in LinkState /\ m.status = "NONE"
      BY <2>3, FreeNone DEF Free
    <3> QED BY <2>3, <3>1, StepNone
  <2>4. \A table, c : /\ LinkUp(link, table) = link /\ ~KeepTrying(link, table, c)
                      /\ LinkFailed(link, c) = link
                      /\ LinkRefused(link, c) \in LinkState
                      /\ LinkRefused(link, c).status = "NONE"
    BY <1>1, <2>1, ToldNone
  <2>5. "LINKED" \in SlotState /\ "OTHER" \in SlotState
    BY DEF SlotState
  <2>6. ASSUME NEW f, DExtraAck(f) PROVE link'.status = "NONE"
    BY <2>1, <2>2, <2>4, <2>5, <2>6 DEF DExtraAck
  <2>7. ASSUME NEW f, DExtraNak(f) PROVE link'.status = "NONE"
    <3> DEFINE t == link.slots["DEXTRA"]
               S == {i \in InState("DEXTRA", "LINKING") : t[i].call.fam = f}
    <3>1. PICK l \in {link, LinkRefused(link, link.repeater)} :
            LinkStep(Put(l, "DEXTRA", Release(t, S)))
      BY <2>7 DEF DExtraNak
    <3>2. l \in LinkState /\ l.status = "NONE"
      BY <1>1, <2>1, <2>4, <3>1
    <3>3. Announce(NotLinked(link)).slots = link.slots
      BY <2>1 DEF Announce, NotLinked, LinkState
    <3>4. l.slots = link.slots
      BY <3>1, <3>3 DEF LinkRefused
    <3>5. /\ Put(l, "DEXTRA", Release(t, S)) \in LinkState
          /\ Put(l, "DEXTRA", Release(t, S)).status = "NONE"
      BY <2>1, <3>2, <3>4, FreeNone
    <3> QED BY <3>1, <3>5, StepNone, SMTT(60)
  <2>8. ASSUME NEW c, DExtraDisconnect(c) PROVE link'.status = "NONE"
    <3> DEFINE m == Remove(link, "DEXTRA", {c}, {"LINKED"})
    <3>1. Sheds(link, m) /\ m \in LinkState
      BY <1>1, <2>1, RemoveSheds DEF Kept, Whole, Tame
    <3>2. m.status = "NONE"
      BY <1>1, <3>1 DEF Sheds
    <3> QED BY <2>8, <3>1, <3>2, StepNone DEF DExtraDisconnect
  <2>9. ASSUME NEW i, DPlusNak(i) \/ DPlusDisconnect(i) \/ DCSNak(i) \/ DCSDisconnect(i)
        PROVE  link'.status = "NONE"
    <3> DEFINE Frees(table, c) ==
                 \E l \in {link, LinkRefused(link, c)} : LinkStep(Free(l, table, i))
    <3>1. \E c : Frees("DPLUS", c) \/ Frees("DCS", c)
      BY <2>4, <2>9 DEF DPlusNak, DPlusDisconnect, DCSNak, DCSDisconnect
    <3>2. ASSUME NEW table \in Tables, NEW c, Frees(table, c) PROVE link'.status = "NONE"
      BY <1>1, <2>1, <2>3, <2>4, <3>2
    <3> HIDE DEF Frees
    <3> QED BY <2>1, <3>1, <3>2
  <2>10. ASSUME NEW table \in Tables, NEW i, LinkAck(table, i) PROVE link'.status = "NONE"
    BY <2>2, <2>4, <2>5, <2>10 DEF LinkAck
  <2>11. ASSUME NEW table \in Tables, NEW i, SlotTimeout(table, i) PROVE link'.status = "NONE"
    BY <1>1, <2>1, <2>3, <2>4, <2>11 DEF SlotTimeout
  <2>12. ASSUME NEW table \in Tables, OtherTakes(table) \/ \E i \in Slots : OtherLeaves(table, i)
         PROVE  link'.status = "NONE"
    BY <1>1, <2>1, <2>2, <2>3, <2>5, <2>12 DEF OtherTakes, OtherLeaves
  <2> QED BY <1>1, <2>1, <2>6, <2>7, <2>8, <2>9, <2>10, <2>11, <2>12, RepeaterHandlerAssumption
          DEF Network
<1>2. Kept /\ [Next]_vars => [Stays]_vars
  BY <1>1
<1>3. Spec => [][Stays]_vars
  BY <1>2, LinksWhole, PTL DEF Spec
<1> QED BY <1>3 DEF NetworkNeverLinks

================================================================================
