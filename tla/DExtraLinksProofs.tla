--------------------------- MODULE DExtraLinksProofs ---------------------------
(***************************************************************************)
(* Proofs about the reflector links of RepeaterHandler when DExtra is the  *)
(* only protocol enabled, for any number of modules, and so with changes   *)
(* of module: linkFailed() then makes a link from inside the loop that     *)
(* ends the old one, in the first free slot, and the loop may meet it.     *)
(*                                                                         *)
(* No other repeater and no dongle uses the table (OnlyDExtra).  With      *)
(* their links the properties do not hold, and TLC finds how: the README   *)
(* has the steps.  The table may be of any size, none and one included.    *)
(*                                                                         *)
(* The inductive invariant is Solo: the table is clear, or one slot is in  *)
(* use and the repeater shows that link and its state.  A change of module *)
(* while a link is shown that the table has lost leaves m_linkRelink set.  *)
(* That is harmless only because such a link can get no slot but the       *)
(* first: what linkFailed() places while the first slot is taken lies      *)
(* further on, and the loop ends it too.                                   *)
(***************************************************************************)
EXTENDS OutgoingLinksProofs

OnlyDExtra ==
  /\ Enabled \subseteq {"DEXTRA"} /\ ~CcsOn /\ "DEXTRA" \notin Others
  /\ \A f \in Families : InitialCache[f] # "LOOPBACK"

Dx(l) == l.slots["DEXTRA"]

OnlyIn(t, i) == \A j \in Slots : j # i => t[j].st = "FREE"

Gone(l) == l.status # "LINKED" /\ \A i \in Slots : Dx(l)[i].st = "FREE"

Carried(l, k, i) ==
  /\ OnlyIn(Dx(l), i)
  /\ Dx(l)[i].st \in Active /\ Dx(l)[i].st = l.status
  /\ Dx(l)[i].call = l.repeater
  /\ l.repeater \in Calls /\ k[l.repeater.fam] = "DEXTRA" /\ "DEXTRA" \in Enabled
  /\ l.relink => i = 1

\* D-Plus, DCS and CCS have no part in it.
Quiet(l) ==
  /\ l.ccs = "DISABLED" /\ l.last = NoCall
  /\ \A table \in {"DPLUS", "DCS"} : Outgoing(l.slots[table]) = {}

Solo(l, k) ==
  /\ Quiet(l)
  /\ l.via = IF l.status \in Active THEN "DEXTRA" ELSE "NONE"
  /\ Searched(l, k)
  /\ Gone(l) \/ \E i \in Slots : Carried(l, k, i)

\* The hosts files, ircDDB and the protocols that are enabled know DExtra only.
Plain(k) == k \in CacheType /\ \A f \in Families : k[f] # "LOOPBACK"

--------------------------------------------------------------------------------
\* The operations on the table.

\* What a handler leaves alone.
LEMMA EditSolo ==
  ASSUME NEW l, NEW k, Solo(l, k), NEW m,
         m.relink = l.relink, m.ccs = l.ccs, m.last = l.last, m.slots = l.slots,
         m.status = l.status, m.via = l.via, m.repeater = l.repeater
  PROVE  Solo(m, k) /\ (Gone(l) => Gone(m))
BY DEF Solo, Quiet, Searched, Gone, Carried, Dx

\* The first free slot is one, when one slot at most is in use.
LEMMA FirstFreeIsFree ==
  ASSUME NEW t, NEW i, OnlyIn(t, i), FreeSlots(t) # {}
  PROVE  FirstFree(t) \in FreeSlots(t)
<1>1. \A j \in Slots : j \in Nat /\ 1 <= j
  BY LinksAssumption DEF Slots
<1>2. \E j \in FreeSlots(t) : \A n \in FreeSlots(t) : j <= n
  <2>1. CASE 1 \in FreeSlots(t)
    BY <1>1, <2>1 DEF FreeSlots
  <2>2. CASE 1 \notin FreeSlots(t)
    <3>1. PICK n \in Slots : n \in FreeSlots(t) /\ n # 1
      BY <2>2 DEF FreeSlots
    <3>2. 1 \in Slots /\ 2 \in Slots
      BY <1>1, <3>1, LinksAssumption DEF Slots
    <3>3. i = 1
      BY <2>2, <3>2 DEF OnlyIn, FreeSlots
    <3>4. 2 \in FreeSlots(t)
      BY <3>2, <3>3 DEF OnlyIn, FreeSlots
    <3>5. \A j \in FreeSlots(t) : 2 <= j
      BY <1>1, <2>2 DEF FreeSlots
    <3> QED BY <3>4, <3>5
  <2> QED BY <2>1, <2>2
<1> QED BY <1>2 DEF FirstFree

\* A new link takes a slot that was free, or none.
LEMMA PlaceBeside ==
  ASSUME NEW t \in Table, NEW c, NEW i, OnlyIn(t, i)
  PROVE  \/ FreeSlots(t) = {} /\ Place(t, c) = t
         \/ \E j \in Slots :
              /\ t[j].st = "FREE" /\ Place(t, c)[j] = [st |-> "LINKING", call |-> c]
              /\ \A n \in Slots : n # j => Place(t, c)[n] = t[n]
<1>1. CASE FreeSlots(t) = {}
  BY <1>1 DEF Place
<1>2. CASE FreeSlots(t) # {}
  <2>1. FirstFree(t) \in FreeSlots(t)
    BY <1>2, FirstFreeIsFree
  <2>2. Place(t, c) = [t EXCEPT ![FirstFree(t)] = [st |-> "LINKING", call |-> c]]
    BY <1>2 DEF Place
  <2>3. FirstFree(t) \in Slots /\ t[FirstFree(t)].st = "FREE"
    BY <2>1 DEF FreeSlots
  <2> QED BY <2>2, <2>3 DEF Table
<1> QED BY <1>1, <1>2

\* What StartLinking changes.
LEMMA StartFields ==
  ASSUME NEW l \in LinkState, NEW c \in Calls
  PROVE  LET m == StartLinking(l, "DEXTRA", c)
         IN  /\ m \in LinkState
             /\ m.relink = l.relink /\ m.ccs = l.ccs /\ m.last = l.last
             /\ m.status = "LINKING" /\ m.via = "DEXTRA" /\ m.repeater = c
             /\ m.slots = [l.slots EXCEPT !["DEXTRA"] = Place(Dx(l), c)]
             /\ Dx(m) = Place(Dx(l), c)
<1>1. "DEXTRA" \in Vias /\ "DEXTRA" \in Tables /\ TableOf("DEXTRA") = "DEXTRA"
  BY DEF Vias, Tables, TableOf
<1>2. StartLinking(l, "DEXTRA", c) \in LinkState
  BY <1>1, StartLinkingType
<1>3. TableLink("DEXTRA", Dx(l), c) = Place(Dx(l), c)
  BY <1>1 DEF TableLink
<1> QED BY <1>1, <1>2, <1>3 DEF StartLinking, LinkState, Dx

\* A link to a DExtra gateway, from a clear table.
LEMMA StartSolo ==
  ASSUME NEW l \in LinkState, NEW k, Solo(l, k), Gone(l),
         NEW c \in Calls, k[c.fam] = "DEXTRA", "DEXTRA" \in Enabled
  PROVE  Solo(StartLinking(l, "DEXTRA", c), k)
<1> DEFINE t == Dx(l)
           m == StartLinking(l, "DEXTRA", c)
<1>1. /\ m.relink = l.relink /\ m.ccs = l.ccs /\ m.last = l.last
      /\ m.status = "LINKING" /\ m.via = "DEXTRA" /\ m.repeater = c
      /\ m.slots = [l.slots EXCEPT !["DEXTRA"] = Place(t, c)] /\ Dx(m) = Place(t, c)
  BY StartFields
<1> HIDE DEF m
<1>2. t \in Table /\ \A i : OnlyIn(t, i)
  BY SlotsType DEF Gone, OnlyIn, Dx, Tables
<1>3. Quiet(m) /\ Searched(m, k) /\ "LINKING" \in Active
  BY <1>1 DEF Solo, Quiet, Searched, Active, LinkState, Tables
<1>4. Slots = {} => Solo(m, k)
  BY <1>1, <1>3 DEF Solo, Gone
<1>5. ASSUME Slots # {} PROVE Solo(m, k)
  <2>1. 1 \in Slots /\ \A i \in Slots : i \in Nat /\ 1 <= i
    BY <1>5, LinksAssumption DEF Slots
  <2>2. \A i \in Slots : t[i].st = "FREE"
    BY DEF Gone
  <2> HIDE DEF t
  <2>3. FreeSlots(t) = Slots
    BY <2>2 DEF FreeSlots
  <2>4. FirstFree(t) \in Slots /\ \A i \in Slots : FirstFree(t) <= i
    BY <2>1, <2>3 DEF FirstFree
  <2>5. FirstFree(t) = 1
    BY <2>1, <2>4
  <2>6. Place(t, c) = [t EXCEPT ![1] = [st |-> "LINKING", call |-> c]]
    BY <2>1, <2>3, <2>5 DEF Place
  <2>7. Carried(m, k, 1)
    BY <1>1, <1>2, <1>3, <2>1, <2>2, <2>6 DEF Carried, OnlyIn, Table
  <2> QED BY <1>1, <1>3, <2>1, <2>7 DEF Solo
<1> QED BY <1>4, <1>5 DEF m

\* What Put changes.
LEMMA PutFields ==
  ASSUME NEW l \in LinkState, NEW t \in Table
  PROVE  LET m == Put(l, "DEXTRA", t)
         IN  /\ m \in LinkState
             /\ m.relink = l.relink /\ m.ccs = l.ccs /\ m.last = l.last
             /\ m.status = l.status /\ m.via = l.via /\ m.repeater = l.repeater
             /\ m.slots = [l.slots EXCEPT !["DEXTRA"] = t] /\ Dx(m) = t
<1>1. Put(l, "DEXTRA", t) \in LinkState /\ "DEXTRA" \in Tables
  BY PutType DEF Tables
<1> QED BY <1>1 DEF Put, LinkState, Dx

\* linkFailed() when a change of module is under way.
LEMMA Relinks ==
  ASSUME NEW l \in LinkState, l.relink, l.repeater \in Calls, "DEXTRA" \in Enabled,
         cache[l.repeater.fam] = "DEXTRA", NEW x
  PROVE  LET m == LinkFailed(l, x)
         IN  /\ m \in LinkState
             /\ ~m.relink /\ m.ccs = l.ccs /\ m.last = l.last
             /\ m.status = "LINKING" /\ m.via = "DEXTRA" /\ m.repeater = l.repeater
             /\ m.slots = [l.slots EXCEPT !["DEXTRA"] = Place(Dx(l), l.repeater)]
             /\ Dx(m) = Place(Dx(l), l.repeater)
<1> DEFINE r == [l EXCEPT !.relink = FALSE]
           c == l.repeater
           n == StartLinking(r, "DEXTRA", c)
<1>1. r \in LinkState /\ ~r.relink /\ r.ccs = l.ccs /\ r.last = l.last /\ r.slots = l.slots
  BY DEF LinkState
<1>2. LinkFailed(l, x) = LinkInt(r, c)
  BY DEF LinkFailed
<1> HIDE DEF r
<1>3. FindRepeater(c) = "DEXTRA"
  BY DEF FindRepeater
<1>4. LinkInt(r, c) = Announce(n)
  BY <1>3 DEF LinkInt
<1>5. /\ n \in LinkState
      /\ ~n.relink /\ n.ccs = l.ccs /\ n.last = l.last
      /\ n.status = "LINKING" /\ n.via = "DEXTRA" /\ n.repeater = c
      /\ n.slots = [l.slots EXCEPT !["DEXTRA"] = Place(Dx(l), c)]
      /\ Dx(n) = Place(Dx(l), c)
  BY <1>1, StartFields DEF Dx
<1> HIDE DEF n, c
<1>6. Announce(n) \in LinkState
  BY <1>5, AnnounceType
<1> DEFINE a == Announce(n)
<1>7. /\ a.relink = n.relink /\ a.ccs = n.ccs /\ a.last = n.last /\ a.slots = n.slots
      /\ a.status = n.status /\ a.via = n.via /\ a.repeater = n.repeater
  BY <1>5 DEF Announce, LinkState
<1>8. LinkFailed(l, x) = a
  BY <1>2, <1>4
<1> HIDE DEF a
<1> QED BY <1>5, <1>6, <1>7, <1>8 DEF Dx, a, c

\* A loop that meets the only link while a change of module is under way.
LEMMA RemoveRelinks ==
  ASSUME NEW l \in LinkState, l.relink, l.repeater \in Calls, "DEXTRA" \in Enabled,
         cache[l.repeater.fam] = "DEXTRA",
         NEW i \in Slots, OnlyIn(Dx(l), i), Dx(l)[i].st \in Active,
         NEW calls, Dx(l)[i].call \in calls, NEW told, Dx(l)[i].st \in told,
         l.repeater \in calls => i = 1
  PROVE  LET r == Remove(l, "DEXTRA", calls, told)
         IN  /\ r \in LinkState /\ ~r.relink /\ r.ccs = l.ccs /\ r.last = l.last
             /\ \A u \in {"DPLUS", "DCS"} : r.slots[u] = l.slots[u]
             /\ \/ /\ \A j \in Slots : Dx(r)[j].st = "FREE"
                   /\ \/ r.status = "LINKING" /\ r.via = "DEXTRA"
                      \/ r.status = "NONE" /\ r.via = "NONE"
                \/ /\ l.repeater \notin calls /\ r.repeater = l.repeater
                   /\ r.status = "LINKING" /\ r.via = "DEXTRA"
                   /\ \E j \in Slots : /\ OnlyIn(Dx(r), j) /\ Dx(r)[j].st = "LINKING"
                                       /\ Dx(r)[j].call = l.repeater
<1> DEFINE c        == l.repeater
           t        == Dx(l)
           hit      == {x \in Outgoing(t) : t[x].call \in calls}
           reported == {x \in hit : t[x].st \in told}
           first    == CHOOSE x \in reported : \A y \in reported : x <= y
           before   == Release(t, {x \in hit : x < first})
           b        == Put(l, "DEXTRA", before)
           m        == LinkFailed(b, t[first].call)
           u        == Dx(m)
           later    == {x \in Outgoing(u) : x > first /\ u[x].call \in calls}
           n        == Report(m, "DEXTRA", {x \in later : u[x].st \in told})
           v        == Release(u, later \cup {first})
           r        == Put(n, "DEXTRA", v)
<1>1. t \in Table /\ i \in Nat /\ \A x \in Slots : x \in Nat /\ 1 <= x
  BY SlotsType, LinksAssumption DEF Dx, Tables, Slots
<1>2. Outgoing(t) = {i}
  BY DEF Outgoing, OnlyIn, Active
<1> HIDE DEF t
<1>3. hit = {i} /\ reported = {i}
  BY <1>2 DEF t
<1> HIDE DEF hit, reported
<1>4. first = i
  BY <1>1, <1>3
<1>5. Remove(l, "DEXTRA", calls, told) = r
  BY <1>3 DEF Remove, Dx, t, hit, reported
<1> HIDE DEF first
<1>6. before = t
  BY <1>1, <1>3, <1>4 DEF Release, Table
<1> HIDE DEF before
<1>7. /\ b \in LinkState
      /\ b.relink = l.relink /\ b.ccs = l.ccs /\ b.last = l.last
      /\ b.repeater = c /\ b.slots = [l.slots EXCEPT !["DEXTRA"] = t] /\ Dx(b) = t
  BY <1>1, <1>6, PutFields
<1> HIDE DEF b
<1>8. /\ m \in LinkState
      /\ ~m.relink /\ m.ccs = l.ccs /\ m.last = l.last
      /\ m.status = "LINKING" /\ m.via = "DEXTRA" /\ m.repeater = c
      /\ m.slots = [b.slots EXCEPT !["DEXTRA"] = Place(t, c)]
      /\ u = Place(t, c)
  <2>1. b.relink /\ b.repeater \in Calls /\ cache[b.repeater.fam] = "DEXTRA"
    BY <1>7
  <2>2. /\ m \in LinkState
        /\ ~m.relink /\ m.ccs = b.ccs /\ m.last = b.last
        /\ m.status = "LINKING" /\ m.via = "DEXTRA" /\ m.repeater = b.repeater
        /\ m.slots = [b.slots EXCEPT !["DEXTRA"] = Place(Dx(b), b.repeater)]
        /\ Dx(m) = Place(Dx(b), b.repeater)
    BY <1>7, <2>1, Relinks
  <2> HIDE DEF m
  <2> QED BY <1>7, <2>2
<1> HIDE DEF m
<1>9. u \in Table
  BY <1>8, SlotsType DEF Dx, Tables
<1>10. \/ u = t
       \/ \E j \in Slots : /\ t[j].st = "FREE" /\ u[j] = [st |-> "LINKING", call |-> c]
                           /\ \A x \in Slots : x # j => u[x] = t[x]
  BY <1>1, <1>8, PlaceBeside DEF t
<1> HIDE DEF u, c
<1>11. \A x \in Slots : v[x] = IF x \in later \cup {i} THEN FreeSlot ELSE u[x]
  BY <1>4 DEF Release
<1>12. OnlyIn(t, i) /\ t[i].st \in Active /\ t[i].call \in calls /\ (c \in calls => i = 1)
  BY DEF t, c
<1>13. \/ \A j \in Slots : v[j].st = "FREE"
       \/ /\ later = {} /\ c \notin calls
          /\ \E j \in Slots : OnlyIn(v, j) /\ v[j].st = "LINKING" /\ v[j].call = c
  <2>1. CASE u = t
    BY <1>4, <1>11, <1>12, <2>1 DEF OnlyIn, FreeSlot
  <2>2. ASSUME NEW j \in Slots, t[j].st = "FREE", u[j] = [st |-> "LINKING", call |-> c],
               \A x \in Slots : x # j => u[x] = t[x]
        PROVE  <1>13!:
    <3>1. j # i /\ "FREE" \notin Active
      BY <1>12, <2>2 DEF Active
    <3>2. Outgoing(u) = {i, j}
      BY <1>12, <2>2, <3>1 DEF OnlyIn, Outgoing, Active
    <3>3. CASE c \in calls
      <4>1. j \in later
        BY <1>1, <1>4, <1>12, <2>2, <3>1, <3>2, <3>3
      <4> QED BY <1>11, <1>12, <2>2, <4>1 DEF OnlyIn, FreeSlot
    <3>4. CASE c \notin calls
      <4>1. later = {}
        BY <1>1, <1>4, <2>2, <3>2, <3>4
      <4>2. OnlyIn(v, j) /\ v[j] = u[j]
        BY <1>11, <1>12, <2>2, <3>1, <4>1 DEF OnlyIn, FreeSlot
      <4>3. v[j].st = "LINKING" /\ v[j].call = c
        BY <2>2, <4>2
      <4> QED BY <3>4, <4>1, <4>2, <4>3
    <3> QED BY <3>3, <3>4
  <2> QED BY <1>10, <2>1, <2>2
<1>14. v \in Table
  BY <1>9, ReleaseType
<1>15. /\ n \in LinkState
       /\ ~n.relink /\ n.ccs = l.ccs /\ n.last = l.last /\ n.slots = m.slots
       /\ \/ n.status = "LINKING" /\ n.via = "DEXTRA" /\ n.repeater = c
          \/ later # {} /\ n.status = "NONE" /\ n.via = "NONE"
  <2>1. Announce(NotLinked(m)) \in LinkState
    BY <1>8, NotLinkedType, AnnounceType
  <2>2. n = m \/ (later # {} /\ n = Announce(NotLinked(m)))
    BY DEF Report
  <2> HIDE DEF n, later
  <2> DEFINE a == Announce(NotLinked(m))
  <2>3. /\ a.relink = m.relink /\ a.ccs = m.ccs /\ a.last = m.last
        /\ a.slots = m.slots /\ a.status = "NONE" /\ a.via = "NONE"
    BY <1>8 DEF Announce, NotLinked, LinkState
  <2>4. n = m \/ (later # {} /\ n = a)
    BY <2>2
  <2> HIDE DEF a
  <2>5. \/ n = m
        \/ /\ later # {} /\ n = Announce(NotLinked(m))
           /\ n.relink = m.relink /\ n.ccs = m.ccs /\ n.last = m.last
           /\ n.slots = m.slots /\ n.status = "NONE" /\ n.via = "NONE"
    BY <2>3, <2>4 DEF a
  <2> QED BY <1>8, <2>1, <2>5
<1> HIDE DEF n, v, later
<1>16. /\ r \in LinkState
       /\ r.relink = n.relink /\ r.ccs = n.ccs /\ r.last = n.last
       /\ r.status = n.status /\ r.via = n.via /\ r.repeater = n.repeater
       /\ r.slots = [n.slots EXCEPT !["DEXTRA"] = v] /\ Dx(r) = v
  BY <1>14, <1>15, PutFields
<1> HIDE DEF r
<1>17. \A w \in {"DPLUS", "DCS"} : r.slots[w] = l.slots[w]
  BY <1>7, <1>8, <1>15, <1>16 DEF LinkState, Tables
<1> QED BY <1>5, <1>13, <1>15, <1>16, <1>17, ZenonT(60) DEF c

\* A link state whose table is clear.
LEMMA ClearSolo ==
  ASSUME NEW l, NEW k, Quiet(l), Searched(l, k), NEW r,
         r.ccs = l.ccs, r.last = l.last,
         \A u \in {"DPLUS", "DCS"} : r.slots[u] = l.slots[u],
         \A i \in Slots : Dx(r)[i].st = "FREE",
         \/ r.status = "LINKING" /\ r.via = "DEXTRA"
         \/ r.status = "NONE" /\ r.via = "NONE"
         \/ r.status = l.status /\ r.via = l.via /\ r.repeater = l.repeater
            /\ l.status \notin Active /\ l.via = "NONE"
  PROVE  Solo(r, k) /\ Gone(r)
BY DEF Solo, Quiet, Searched, Gone, Active

\* The loops that remove links, whether a change of module is under way or not.
LEMMA RemoveSolo ==
  ASSUME CacheOK, NEW l \in LinkState, Solo(l, cache),
         NEW calls, NEW told, "LINKED" \in told
  PROVE  LET r == Remove(l, "DEXTRA", calls, told)
         IN  /\ r \in LinkState /\ Solo(r, cache)
             /\ Gone(l) \/ l.repeater \in calls => Gone(r)
<1> DEFINE t        == Dx(l)
           hit      == {x \in Outgoing(t) : t[x].call \in calls}
           reported == {x \in hit : t[x].st \in told}
           v        == Release(t, hit)
           n        == Report(l, "DEXTRA", reported)
           r        == Remove(l, "DEXTRA", calls, told)
<1>1. r \in LinkState /\ "DEXTRA" \in Tables /\ t \in Table
  BY RemoveType, SlotsType DEF Dx, Tables
<1>2. v \in Table /\ \A x \in Slots : v[x] = IF x \in hit THEN FreeSlot ELSE t[x]
  BY <1>1, ReleaseType DEF Release
<1>3. ~l.relink \/ reported = {} => r = Put(n, "DEXTRA", v)
  BY DEF Remove, Dx
<1> HIDE DEF v
<1>4. ASSUME NEW m \in LinkState
      PROVE  LET p == Put(m, "DEXTRA", v)
             IN  /\ p.relink = m.relink /\ p.ccs = m.ccs /\ p.last = m.last
                 /\ p.status = m.status /\ p.via = m.via /\ p.repeater = m.repeater
                 /\ p.slots = [m.slots EXCEPT !["DEXTRA"] = v] /\ Dx(p) = v
  BY <1>2, PutFields
<1> DEFINE q == Put(l, "DEXTRA", v)
<1>5. /\ q.relink = l.relink /\ q.ccs = l.ccs /\ q.last = l.last
      /\ q.status = l.status /\ q.via = l.via /\ q.repeater = l.repeater
      /\ q.slots = [l.slots EXCEPT !["DEXTRA"] = v] /\ Dx(q) = v
      /\ \A u \in {"DPLUS", "DCS"} : q.slots[u] = l.slots[u]
  BY <1>4 DEF LinkState, Tables
<1>6. reported = {} => n = l
  BY DEF Report
<1>7. Quiet(l) /\ Searched(l, cache)
  BY DEF Solo
<1> HIDE DEF r, q
<1>8. ASSUME Gone(l) PROVE Solo(r, cache) /\ Gone(r)
  <2>1. hit = {}
    BY <1>8 DEF Gone, Outgoing, Active
  <2>2. r = q
    BY <1>3, <1>6, <2>1 DEF q
  <2>3. \A i \in Slots : Dx(q)[i].st = "FREE"
    BY <1>2, <1>5, <1>8, <2>1 DEF Gone
  <2>4. \/ l.status = "LINKING" /\ l.via = "DEXTRA"
        \/ l.status = "NONE" /\ l.via = "NONE"
        \/ l.status \notin Active /\ l.via = "NONE"
    BY <1>8 DEF Solo, Gone, Active
  <2> QED BY <1>5, <1>7, <2>2, <2>3, <2>4, ClearSolo
<1>9. ASSUME NEW i \in Slots, Carried(l, cache, i)
      PROVE  Solo(r, cache) /\ (l.repeater \in calls => Gone(r))
  <2>1. /\ OnlyIn(t, i) /\ t[i].st \in Active /\ t[i].call = l.repeater
        /\ l.status = t[i].st /\ l.status \in Active /\ l.via = "DEXTRA"
    BY <1>9 DEF Carried, Solo
  <2>2. Outgoing(t) = {i}
    BY <2>1 DEF OnlyIn, Outgoing, Active
  <2>3. CASE l.repeater \notin calls
    <3>1. hit = {} /\ reported = {}
      BY <2>1, <2>2, <2>3
    <3>2. r = q
      BY <1>3, <1>6, <3>1 DEF q
    <3>3. v = t
      BY <1>1, <1>2, <3>1 DEF Table
    <3>4. l.slots \in [Tables -> Table] /\ q.slots = l.slots
      BY <1>5, <3>3 DEF LinkState, Dx
    <3> QED BY <1>5, <2>3, <3>2, <3>4, EditSolo
  <2>4. CASE l.repeater \in calls
    <3>1. hit = {i}
      BY <2>1, <2>2, <2>4
    <3>2. \A j \in Slots : v[j].st = "FREE"
      BY <1>2, <2>1, <3>1 DEF OnlyIn, FreeSlot
    <3>3. CASE l.status \notin told
      <4>1. reported = {} /\ l.status = "LINKING"
        BY <2>1, <3>1, <3>3 DEF Active
      <4>2. r = q
        BY <1>3, <1>6, <4>1 DEF q
      <4> QED BY <1>5, <1>7, <2>1, <3>2, <4>1, <4>2, ClearSolo
    <3>4. CASE l.status \in told /\ ~l.relink
      <4> DEFINE a == Announce(NotLinked(l))
                 p == Put(a, "DEXTRA", v)
      <4>1. n = a
        BY <2>1, <3>1, <3>4 DEF Report, Active, Dx
      <4>2. a \in LinkState
        BY NotLinkedType, AnnounceType
      <4>3. /\ a.ccs = l.ccs /\ a.last = l.last /\ a.slots = l.slots
            /\ a.status = "NONE" /\ a.via = "NONE"
        BY DEF Announce, NotLinked, LinkState
      <4>4. r = p
        BY <1>3, <3>4, <4>1
      <4> HIDE DEF a
      <4>5. /\ p.ccs = a.ccs /\ p.last = a.last
            /\ p.status = a.status /\ p.via = a.via
            /\ p.slots = [a.slots EXCEPT !["DEXTRA"] = v] /\ Dx(p) = v
        BY <1>4, <4>2
      <4> HIDE DEF p
      <4>6. \A u \in {"DPLUS", "DCS"} : p.slots[u] = l.slots[u]
        BY <4>3, <4>5 DEF LinkState, Tables
      <4>7. Solo(p, cache) /\ Gone(p)
        <5>1. p.ccs = l.ccs /\ p.last = l.last /\ p.status = "NONE" /\ p.via = "NONE"
          BY <4>3, <4>5
        <5>2. \A j \in Slots : Dx(p)[j].st = "FREE"
          BY <3>2, <4>5
        <5> QED BY <1>7, <4>6, <5>1, <5>2, ClearSolo
      <4> QED BY <4>4, <4>7
    <3>5. CASE l.status \in told /\ l.relink
      <4>1. /\ l.repeater \in Calls /\ cache[l.repeater.fam] = "DEXTRA"
            /\ "DEXTRA" \in Enabled /\ i = 1
        BY <1>9, <3>5 DEF Carried
      <4>2. /\ r.ccs = l.ccs /\ r.last = l.last
            /\ \A u \in {"DPLUS", "DCS"} : r.slots[u] = l.slots[u]
            /\ \A j \in Slots : Dx(r)[j].st = "FREE"
            /\ \/ r.status = "LINKING" /\ r.via = "DEXTRA"
               \/ r.status = "NONE" /\ r.via = "NONE"
        BY <2>1, <2>4, <3>5, <4>1, RemoveRelinks DEF r
      <4> QED BY <1>7, <4>2, ClearSolo
    <3> QED BY <3>3, <3>4, <3>5
  <2> QED BY <2>3, <2>4
<1>10. ~Gone(l) => \E i \in Slots : Carried(l, cache, i)
  BY DEF Solo
<1> QED BY <1>1, <1>8, <1>9, <1>10 DEF r

\* linkInt(), when no link is left.
LEMMA LinkIntSolo ==
  ASSUME Plain(cache), Enabled \subseteq {"DEXTRA"},
         NEW l \in LinkState, Solo(l, cache), Gone(l), NEW c \in AnyCall
  PROVE  LinkInt(l, c) \in LinkState /\ Solo(LinkInt(l, c), cache)
<1> DEFINE via     == FindRepeater(c)
           refused == [l EXCEPT !.status = "NONE", !.via = "NONE", !.repeater = c]
           pending == [l EXCEPT !.status = "PENDING_IRCDDB", !.via = "NONE",
                                !.repeater = c, !.query = "RUN"]
           start   == StartLinking(l, "DEXTRA", c)
<1>1. CacheOK
  BY DEF Plain, CacheType, CacheOK
<1>2. LinkInt(l, c) \in LinkState
  BY <1>1, LinkIntType
<1>3. Solo(refused, cache)
  <2>1. /\ refused.ccs = l.ccs /\ refused.last = l.last /\ refused.slots = l.slots
        /\ refused.status = "NONE" /\ refused.via = "NONE"
    BY DEF LinkState
  <2> HIDE DEF refused
  <2> QED BY <2>1 DEF Solo, Quiet, Searched, Gone, Dx, Active
<1>4. via = "UNKNOWN" => Solo(pending, cache)
  <2>1. /\ pending.ccs = l.ccs /\ pending.last = l.last /\ pending.slots = l.slots
        /\ pending.status = "PENDING_IRCDDB" /\ pending.via = "NONE"
        /\ pending.repeater = c
    BY DEF LinkState
  <2> HIDE DEF pending
  <2> QED BY <2>1 DEF Solo, Quiet, Searched, Gone, Dx, Active, FindRepeater
<1>5. via = "DEXTRA" /\ "DEXTRA" \in Enabled => start \in LinkState /\ Solo(start, cache)
  <2>1. via = "DEXTRA" => c \in Calls /\ cache[c.fam] = "DEXTRA"
    BY DEF FindRepeater
  <2>2. c \in Calls => start \in LinkState
    BY StartFields
  <2> QED BY <2>1, <2>2, StartSolo
<1>6. via \in Enabled \cup {"LOOPBACK"} => via = "DEXTRA" /\ "DEXTRA" \in Enabled
  BY DEF Plain, FindRepeater, Calls
<1>7. refused \in LinkState /\ pending \in LinkState
  BY ZenonT(60) DEF LinkState, Timer
<1>8. PICK m \in LinkState : LinkInt(l, c) = Announce(m) /\ Solo(m, cache)
  BY <1>3, <1>4, <1>5, <1>6, <1>7 DEF LinkInt
<1>9. Solo(Announce(m), cache)
  BY <1>8, EditSolo DEF Announce, LinkState
<1> QED BY <1>2, <1>8, <1>9

\* The unlink() of D-Plus and DCS finds nothing to do.
LEMMA NothingToUnlink ==
  ASSUME NEW l \in LinkState, NEW k, Solo(l, k), NEW calls
  PROVE  /\ DPlusUnlink(l, calls) \in LinkState /\ DCSUnlink(l, calls) \in LinkState
         /\ Solo(DPlusUnlink(l, calls), k) /\ Solo(DCSUnlink(l, calls), k)
         /\ Gone(l) => Gone(DPlusUnlink(l, calls)) /\ Gone(DCSUnlink(l, calls))
<1> SUFFICES ASSUME NEW table \in {"DPLUS", "DCS"}
             PROVE  LET m == Put(l, table, TableUnlink(l.slots[table], calls))
                    IN  m \in LinkState /\ Solo(m, k) /\ (Gone(l) => Gone(m))
  BY DEF DPlusUnlink, DCSUnlink
<1> DEFINE t == TableUnlink(l.slots[table], calls)
           m == Put(l, table, t)
<1>1. table \in Tables /\ l.slots[table] \in Table
  BY SlotsType DEF Tables
<1>2. ActiveTo(l.slots[table], calls) = {}
  BY DEF Solo, Quiet, ActiveTo, Outgoing
<1>3. t = l.slots[table]
  BY <1>1, <1>2 DEF TableUnlink, Table
<1>4. l.slots \in [Tables -> Table]
  BY DEF LinkState
<1>5. [l.slots EXCEPT ![table] = l.slots[table]] = l.slots
  BY <1>4
<1>6. m \in LinkState
  BY <1>1, <1>3, PutType
<1> HIDE DEF t
<1>7. /\ m.relink = l.relink /\ m.ccs = l.ccs /\ m.last = l.last
      /\ m.status = l.status /\ m.via = l.via /\ m.repeater = l.repeater
      /\ m.slots = [l.slots EXCEPT ![table] = t]
  BY DEF Put, LinkState
<1> HIDE DEF m
<1>8. Solo(m, k) /\ (Gone(l) => Gone(m))
  BY <1>3, <1>5, <1>7, EditSolo
<1> QED BY <1>6, <1>8 DEF m, t

\* The three calls of unlink() leave no link.
LEMMA UnlinkAllSolo ==
  ASSUME CacheOK, NEW l \in LinkState, Solo(l, cache)
  PROVE  /\ UnlinkAll(l) \in LinkState /\ Solo(UnlinkAll(l), cache)
         /\ Gone(UnlinkAll(l))
<1> DEFINE r == DExtraUnlink(l, Calls)
<1>1. /\ r \in LinkState /\ Solo(r, cache)
      /\ Gone(l) \/ l.repeater \in Calls => Gone(r)
  BY RemoveSolo DEF DExtraUnlink, Active
<1>2. Gone(l) \/ l.repeater \in Calls
  BY DEF Solo, Carried
<1> HIDE DEF r
<1>3. /\ DPlusUnlink(r, Calls) \in LinkState /\ Solo(DPlusUnlink(r, Calls), cache)
      /\ Gone(DPlusUnlink(r, Calls))
  BY <1>1, <1>2, NothingToUnlink
<1> QED BY <1>3, NothingToUnlink DEF UnlinkAll, r

\* A change of module.
LEMMA ChangeSolo ==
  ASSUME CacheOK, NEW l \in LinkState, Solo(l, cache),
         NEW c \in Calls, c # l.repeater, SameFamily(l.repeater, c)
  PROVE  ChangeModule(l, c) \in LinkState /\ Solo(ChangeModule(l, c), cache)
<1> DEFINE m == [l EXCEPT !.relink = TRUE, !.repeater = c]
           n == DExtraUnlink(m, Calls \ {c})
           p == [n EXCEPT !.status = "LINKING", !.via = l.via]
<1>1. ChangeModule(l, c) \in LinkState
  BY ChangeModuleType
<1>2. CASE l.via # "DEXTRA"
  <2>1. ChangeModule(l, c) = l
    BY <1>2 DEF ChangeModule, Solo
  <2> QED BY <1>1, <2>1
<1>3. CASE l.via = "DEXTRA"
  <2>1. m \in LinkState
    BY DEF LinkState, AnyCall
  <2>2. /\ m.relink /\ m.ccs = l.ccs /\ m.last = l.last /\ m.slots = l.slots
        /\ m.status = l.status /\ m.via = "DEXTRA" /\ m.repeater = c
    BY <1>3 DEF LinkState
  <2>3. ChangeModule(l, c) = Announce(p)
    BY <1>3 DEF ChangeModule
  <2> HIDE DEF m
  <2>4. n \in LinkState
    BY <2>1, DExtraUnlinkType
  <2>5. n = Remove(m, "DEXTRA", Calls \ {c}, Active)
    BY DEF DExtraUnlink
  <2> HIDE DEF n
  <2>6. Announce(p) \in LinkState
    BY <1>1, <2>3
  <2>7. /\ Announce(p).relink = n.relink /\ Announce(p).ccs = n.ccs
        /\ Announce(p).last = n.last /\ Announce(p).slots = n.slots
        /\ Announce(p).repeater = n.repeater
        /\ Announce(p).status = "LINKING" /\ Announce(p).via = "DEXTRA"
    BY <1>3, <2>4 DEF Announce, LinkState
  <2>8. Quiet(l) /\ Searched(l, cache)
    BY DEF Solo
  <2>9. CASE Gone(l)
    <3>1. Solo(m, cache) /\ Gone(m)
      BY <1>3, <2>2, <2>8, <2>9 DEF Solo, Gone, Quiet, Searched, Active, Dx
    <3>2. Gone(n) /\ Solo(n, cache)
      BY <2>1, <2>5, <3>1, RemoveSolo DEF Active
    <3>3. Gone(Announce(p))
      BY <2>7, <3>2 DEF Gone, Dx
    <3> QED BY <2>3, <2>6, <2>7, <3>2, <3>3 DEF Solo, Quiet, Searched, Active
  <2>10. ASSUME NEW i \in Slots, Carried(l, cache, i)
         PROVE  Solo(Announce(p), cache)
    <3>1. /\ OnlyIn(Dx(m), i) /\ Dx(m)[i].st \in Active /\ Dx(m)[i].call \in Calls \ {c}
          /\ "DEXTRA" \in Enabled /\ cache[c.fam] = "DEXTRA"
      BY <2>2, <2>10 DEF Carried, SameFamily, Dx
    <3>2. /\ ~n.relink /\ n.ccs = m.ccs /\ n.last = m.last
          /\ \A u \in {"DPLUS", "DCS"} : n.slots[u] = m.slots[u]
          /\ \/ \A j \in Slots : Dx(n)[j].st = "FREE"
             \/ /\ n.repeater = c
                /\ \E j \in Slots : /\ OnlyIn(Dx(n), j) /\ Dx(n)[j].st = "LINKING"
                                    /\ Dx(n)[j].call = c
      <4>1. /\ m.relink /\ m.repeater \in Calls /\ cache[m.repeater.fam] = "DEXTRA"
            /\ m.repeater \notin Calls \ {c}
        BY <2>2, <3>1
      <4> DEFINE others == Calls \ {c}
                 q     == Remove(m, "DEXTRA", others, Active)
                 Ends  == \A j \in Slots : Dx(q)[j].st = "FREE"
                 Moved == \E j \in Slots : /\ OnlyIn(Dx(q), j) /\ Dx(q)[j].st = "LINKING"
                                           /\ Dx(q)[j].call = m.repeater
      <4>2. m.repeater \notin others /\ Dx(m)[i].call \in others /\ n = q
        BY <2>5, <3>1, <4>1
      <4> HIDE DEF others
      <4>3. /\ ~q.relink /\ q.ccs = m.ccs /\ q.last = m.last
            /\ \A u \in {"DPLUS", "DCS"} : q.slots[u] = m.slots[u]
            /\ Ends \/ (q.repeater = m.repeater /\ Moved)
        BY <2>1, <3>1, <4>1, <4>2, RemoveRelinks
      <4> HIDE DEF q
      <4> QED BY <2>2, <4>2, <4>3
    <3>3. Quiet(Announce(p)) /\ Searched(Announce(p), cache)
      BY <2>2, <2>7, <2>8, <3>2 DEF Quiet, Searched
    <3>4. CASE \A j \in Slots : Dx(n)[j].st = "FREE"
      <4>1. Gone(Announce(p))
        BY <2>7, <3>4 DEF Gone, Dx
      <4> QED BY <2>7, <3>3, <4>1 DEF Solo, Active
    <3>5. ASSUME NEW j \in Slots, n.repeater = c, OnlyIn(Dx(n), j),
                 Dx(n)[j].st = "LINKING", Dx(n)[j].call = c
          PROVE  Solo(Announce(p), cache)
      <4>1. Carried(Announce(p), cache, j)
        BY <2>7, <3>1, <3>2, <3>5 DEF Carried, Dx, Active
      <4> QED BY <2>7, <3>3, <4>1, SMTT(60) DEF Solo, Active
    <3> QED BY <3>2, <3>4, <3>5
  <2>11. Solo(Announce(p), cache)
    BY <2>3, <2>9, <2>10, <1>1 DEF Solo
  <2> QED BY <2>3, <2>6, <2>11
<1> QED BY <1>2, <1>3

--------------------------------------------------------------------------------
\* Commands and the radio.

Fit(l, k) == l \in LinkState /\ Plain(k) /\ Solo(l, k)

Steady == Fit(link, cache)

\* What a handler leaves alone, with its type.
LEMMA EditFit ==
  ASSUME NEW l, NEW k, Fit(l, k), NEW m \in LinkState,
         m.relink = l.relink, m.ccs = l.ccs, m.last = l.last, m.slots = l.slots,
         m.status = l.status, m.via = l.via, m.repeater = l.repeater
  PROVE  Fit(m, k)
BY EditSolo DEF Fit

\* The announcement and the timers.
LEMMA TimersFit ==
  ASSUME NEW l, NEW k, Fit(l, k)
  PROVE  /\ Fit(Announce(l), k) /\ Fit(StartReconnect(l), k)
         /\ Fit([l EXCEPT !.announce = FALSE], k)
         /\ \A q \in Timer : Fit([l EXCEPT !.query = q], k)
         /\ \A w \in ReconnectTimer : Fit([l EXCEPT !.reconnect = w], k)
<1>1. l \in LinkState
  BY DEF Fit
<1>2. Fit(Announce(l), k)
  BY <1>1, AnnounceType, EditFit DEF Announce, LinkState
<1>3. Fit(StartReconnect(l), k)
  BY <1>1, StartReconnectType, EditFit DEF StartReconnect, LinkState
<1>4. Fit([l EXCEPT !.announce = FALSE], k)
  <2>1. [l EXCEPT !.announce = FALSE] \in LinkState
    BY <1>1 DEF LinkState
  <2> QED BY <1>1, <2>1, EditFit DEF LinkState
<1>5. ASSUME NEW q \in Timer PROVE Fit([l EXCEPT !.query = q], k)
  <2>1. [l EXCEPT !.query = q] \in LinkState
    BY <1>1 DEF LinkState
  <2> QED BY <1>1, <2>1, EditFit DEF LinkState
<1>6. ASSUME NEW w \in ReconnectTimer PROVE Fit([l EXCEPT !.reconnect = w], k)
  <2>1. [l EXCEPT !.reconnect = w] \in LinkState
    BY <1>1 DEF LinkState
  <2> QED BY <1>1, <2>1, EditFit DEF LinkState
<1> QED BY <1>2, <1>3, <1>4, <1>5, <1>6

\* Every link the repeater has ends, and it shows none.
LEMMA UnlinkFit ==
  ASSUME NEW l, Fit(l, cache) PROVE Fit(Announce(NotLinked(UnlinkAll(l))), cache)
<1> DEFINE u == UnlinkAll(l)
<1>1. u \in LinkState /\ Solo(u, cache) /\ Gone(u)
  BY UnlinkAllSolo DEF Fit, Plain, CacheType, CacheOK
<1> HIDE DEF u
<1>2. NotLinked(u) \in LinkState
  BY <1>1, NotLinkedType
<1>3. Solo(NotLinked(u), cache)
  <2>1. /\ NotLinked(u).ccs = u.ccs /\ NotLinked(u).last = u.last
        /\ NotLinked(u).slots = u.slots
        /\ NotLinked(u).status = "NONE" /\ NotLinked(u).via = "NONE"
    BY <1>1 DEF NotLinked, LinkState
  <2> QED BY <1>1, <2>1, ClearSolo DEF Solo, Gone, Dx
<1> QED BY <1>2, <1>3, TimersFit DEF Fit, u

\* Every link the repeater has ends, and a new one is made.
LEMMA UnlinkLinkFit ==
  ASSUME OnlyDExtra, NEW l, Fit(l, cache), NEW c \in AnyCall
  PROVE  Fit(LinkInt(UnlinkAll(l), c), cache)
<1>1. UnlinkAll(l) \in LinkState /\ Solo(UnlinkAll(l), cache) /\ Gone(UnlinkAll(l))
  BY UnlinkAllSolo DEF Fit, Plain, CacheType, CacheOK
<1> QED BY <1>1, LinkIntSolo DEF Fit, OnlyDExtra

\* A change of module, unless it is to the module that is shown.
LEMMA ChangeFit ==
  ASSUME NEW l, Fit(l, cache), NEW c \in Calls, c # l.repeater, SameFamily(l.repeater, c)
  PROVE  Fit(ChangeModule(l, c), cache)
BY ChangeSolo DEF Fit, Plain, CacheType, CacheOK

\* A command to link, unlink or go back, and those to the CCS client.
LEMMA ObeyFit ==
  ASSUME OnlyDExtra, NEW l, Fit(l, cache), NEW cmd \in Inputs
  PROVE  Fit(Obey(l, cmd), cache)
<1> DEFINE m == [l EXCEPT !.query = "OFF"]
<1>1. l.ccs = "DISABLED"
  BY DEF Fit, Solo, Quiet
<1>2. Fit(m, cache) /\ m.startup \in Calls \cup {NoCall}
  <2>1. Fit(m, cache)
    BY TimersFit DEF Timer
  <2> QED BY <2>1 DEF Fit, LinkState
<1>3. ASSUME NEW c \in Calls \cup {Self} PROVE Fit(LinkCommand(m, c), cache)
  <2> HIDE DEF m
  <2>1. Self \notin Calls /\ Fit(Announce(m), cache)
    BY <1>2, TimersFit, RepeaterHandlerAssumption
  <2>2. c # Self => Fit(LinkInt(UnlinkAll(m), c), cache)
    BY <1>2, UnlinkLinkFit DEF AnyCall
  <2>3. c # Self /\ c # m.repeater /\ SameFamily(m.repeater, c) =>
          Fit(ChangeModule(m, c), cache)
    BY <1>2, ChangeFit
  <2>4. ~(m.status # "NONE" /\ c = m.repeater) /\ c # Self /\ m.status # "NONE"
          => c # m.repeater
    OBVIOUS
  <2> QED BY <1>2, <2>1, <2>2, <2>3, <2>4 DEF LinkCommand
<1>4. Fit(Announce(NotLinked(UnlinkAll(m))), cache)
  BY <1>2, UnlinkFit
<1> DEFINE n == CASE cmd.kind = "UNLINK" /\ m.status # "NONE" ->
                       Announce(NotLinked(UnlinkAll(m)))
                  [] cmd.kind = "LINK" -> LinkCommand(m, cmd.arg)
                  [] cmd.kind = "LINK_STARTUP" /\ m.startup # NoCall ->
                       LinkCommand(m, m.startup)
                  [] OTHER -> m
<1>5. ReflectorCommand(l, cmd) = IF IgnoresCommands(l) THEN l ELSE n
  BY DEF ReflectorCommand
<1>6. cmd.kind = "LINK" => cmd.arg \in Calls \cup {Self}
  BY InputType
<1>7. Fit(n, cache)
  <2> HIDE DEF m
  <2>1. CASE cmd.kind = "UNLINK" /\ m.status # "NONE"
    <3>1. n = Announce(NotLinked(UnlinkAll(m)))
      BY <2>1
    <3> QED BY <1>4, <3>1
  <2>2. CASE cmd.kind = "LINK"
    <3>1. n = LinkCommand(m, cmd.arg)
      BY <2>2
    <3> QED BY <1>3, <1>6, <2>2, <3>1
  <2>3. CASE cmd.kind = "LINK_STARTUP" /\ m.startup # NoCall
    <3>1. n = LinkCommand(m, m.startup)
      BY <2>3
    <3> QED BY <1>2, <1>3, <2>3, <3>1
  <2>4. CASE /\ ~(cmd.kind = "UNLINK" /\ m.status # "NONE") /\ cmd.kind # "LINK"
             /\ ~(cmd.kind = "LINK_STARTUP" /\ m.startup # NoCall)
    <3>1. n = m
      BY <2>4
    <3> QED BY <1>2, <3>1
  <2> QED BY <2>1, <2>2, <2>3, <2>4
<1> HIDE DEF n
<1>8. Fit(ReflectorCommand(l, cmd), cache)
  BY <1>5, <1>7
<1>9. CcsCommand(l, cmd) = l
  BY <1>1 DEF CcsCommand, CcsStopLink
<1> QED BY <1>8, <1>9 DEF Obey

\* Every handler ends in Settle, or does what Settle does.
LEMMA SettleFit ==
  ASSUME NEW l, Fit(l, cache), UNCHANGED cache,
         (\E r : Settle(r, l)) \/ link' = [l EXCEPT !.announce = FALSE]
  PROVE  Steady'
<1>1. Fit([l EXCEPT !.announce = FALSE], cache)
  BY TimersFit
<1>2. Fit(link', cache)
  BY <1>1 DEF Settle
<1>3. Fit(link', cache')
  BY <1>2
<1> QED BY <1>3 DEF Steady

\* A header from the radio.
LEMMA RfHeaderFit ==
  ASSUME OnlyDExtra, Steady, NEW id \in Ids, NEW cmd \in Inputs, NEW restricted, NEW cq,
         \/ RfOtherBand(id, cmd, restricted, cq) \/ RfStarNet(id, restricted)
         \/ RfLocal(id, cmd, restricted) \/ RfRestricted(id, cmd)
         \/ RfRoute(id, cmd) \/ RfCommand(id, cmd)
  PROVE  Steady'
<1>1. Fit(NewStreamLink, cache)
  BY TimersFit DEF Steady, NewStreamLink, Timer
<1>2. Fit([NewStreamLink EXCEPT !.query = "RUN"], cache)
  BY <1>1, TimersFit DEF Timer
<1>3. Fit(Obey(NewStreamLink, cmd), cache)
  BY <1>1, ObeyFit
<1>4. CASE RfOtherBand(id, cmd, restricted, cq)
  BY <1>1, <1>4, SettleFit DEF RfOtherBand
<1>5. CASE RfStarNet(id, restricted)
  BY <1>1, <1>5, SettleFit DEF RfStarNet
<1>6. CASE RfLocal(id, cmd, restricted)
  BY <1>1, <1>6, SettleFit DEF RfLocal
<1>7. CASE RfRestricted(id, cmd)
  BY <1>1, <1>7, SettleFit DEF RfRestricted
<1>8. CASE RfRoute(id, cmd)
  BY <1>1, <1>2, <1>8, SettleFit DEF RfRoute
<1>9. CASE RfCommand(id, cmd)
  BY <1>3, <1>9, SettleFit DEF RfCommand
<1> QED BY <1>4, <1>5, <1>6, <1>7, <1>8, <1>9

\* A frame from the radio, or heard by a busy repeater, and a header so heard.
LEMMA HeardFit ==
  ASSUME OnlyDExtra, Steady, NEW cmd \in Inputs, NEW end, NEW id, NEW restricted,
         RfAMBE(cmd, end) \/ BusyAMBE(cmd, end) \/ BusyHeader(id, cmd, restricted)
  PROVE  Steady'
<1>1. Fit(link, cache) /\ Fit(StartReconnect(link), cache)
  BY TimersFit DEF Steady
<1>2. Fit(Obey(link, cmd), cache) /\ Fit(Obey(StartReconnect(link), cmd), cache)
  BY <1>1, ObeyFit
<1>3. CASE RfAMBE(cmd, end)
  <2> DEFINE l == IF cmd = NoCommand \/ cmd.kind = "INFO" THEN StartReconnect(link)
                  ELSE Obey(StartReconnect(link), cmd)
             q == IF Asking(rf) THEN "OFF" ELSE l.query
  <2>1. Fit(l, cache)
    BY <1>1, <1>2
  <2>2. \/ \E r : Settle(r, l)
        \/ link' = [l EXCEPT !.announce = FALSE, !.query = q]
    BY <1>3 DEF RfAMBE
  <2>3. cache' = cache
    BY <1>3 DEF RfAMBE
  <2> HIDE DEF l
  <2>4. q \in Timer
    BY <2>1 DEF Fit, LinkState, Timer
  <2> HIDE DEF q
  <2>5. Fit([l EXCEPT !.query = q], cache)
    BY <2>1, <2>4, TimersFit
  <2>6. [l EXCEPT !.announce = FALSE, !.query = q] = [[l EXCEPT !.query = q] EXCEPT !.announce = FALSE]
    BY <2>1 DEF Fit, LinkState
  <2> QED BY <2>1, <2>2, <2>3, <2>5, <2>6, SettleFit
<1>4. CASE BusyAMBE(cmd, end)
  <2> DEFINE l == IF cmd = NoCommand THEN link ELSE Obey(link, cmd)
  <2>1. Fit(l, cache)
    BY <1>1, <1>2
  <2>2. \/ \E r : Settle(r, l)
        \/ link' = [l EXCEPT !.announce = FALSE]
    BY <1>4 DEF BusyAMBE
  <2>3. cache' = cache
    BY <1>4 DEF BusyAMBE
  <2> HIDE DEF l
  <2> QED BY <2>1, <2>2, <2>3, SettleFit
<1>5. CASE BusyHeader(id, cmd, restricted)
  BY <1>1, <1>2, <1>5, SettleFit DEF BusyHeader
<1> QED BY <1>3, <1>4, <1>5

\* Whatever the radio sends.
LEMMA RadioFit == ASSUME OnlyDExtra, Steady, Radio PROVE Steady'
<1>1. CASE RfHeader
  <2>1. PICK id \in Ids, cmd \in Commands, restricted \in Restrictions :
          \/ \E cq \in BOOLEAN : RfOtherBand(id, cmd, restricted, cq)
          \/ cmd.kind = "STARNET" /\ RfStarNet(id, restricted)
          \/ RfLocal(id, cmd, restricted)
          \/ restricted /\ RfRestricted(id, cmd)
          \/ ~restricted /\ (RfRoute(id, cmd) \/ RfCommand(id, cmd))
    BY <1>1 DEF RfHeader
  <2>2. cmd \in Inputs
    BY DEF Inputs
  <2> QED BY <2>1, <2>2, RfHeaderFit
<1>2. CASE \E cq \in BOOLEAN : RfBusyFlag(cq)
  <2>1. UNCHANGED <<link, cache>>
    BY <1>2 DEF RfBusyFlag
  <2> QED BY <2>1 DEF Steady
<1>3. CASE \E cmd \in DtmfCommands \cup {NoCommand}, end \in BOOLEAN :
             RfAMBE(cmd, end) \/ BusyAMBE(cmd, end)
  BY <1>3, HeardFit DEF Inputs
<1>4. CASE \E id \in Ids, cmd \in Commands, restricted \in Restrictions :
             BusyHeader(id, cmd, restricted)
  BY <1>4, HeardFit DEF Inputs
<1> QED BY <1>1, <1>2, <1>3, <1>4 DEF Radio

--------------------------------------------------------------------------------
\* The clock.

\* The reconnect time-out, when it is not for a mere change of module.
LEMMA ReconnectDueFit ==
  ASSUME OnlyDExtra, NEW l, Fit(l, cache) PROVE Fit(ReconnectDue(l), cache)
<1> DEFINE A == l.status # "NONE" /\ l.startup = NoCall
           B == l.startup # NoCall /\ (l.status = "NONE" \/ l.repeater # l.startup)
<1>1. l.startup \in AnyCall
  BY DEF Fit, LinkState, AnyCall
<1>2. CASE A
  BY <1>2, UnlinkFit DEF ReconnectDue
<1>3. CASE B
  BY <1>1, <1>3, UnlinkLinkFit DEF ReconnectDue
<1>4. CASE ~A /\ ~B
  BY <1>4 DEF ReconnectDue
<1> QED BY <1>2, <1>3, <1>4

\* The query time-out.
LEMMA QueryDueFit ==
  ASSUME NEW l, Fit(l, cache), NEW r PROVE Fit(QueryDue(r, l), cache)
<1> DEFINE m == [l EXCEPT !.query = "OFF"]
<1>1. Fit(m, cache)
  BY TimersFit DEF Timer
<1> HIDE DEF m
<1>2. m \in LinkState /\ ~IsUp(m, "CCS")
  BY <1>1 DEF Fit, Solo, IsUp
<1>3. m.status = "PENDING_IRCDDB" => Fit(Announce(NotLinked(m)), cache)
  <2> SUFFICES ASSUME m.status = "PENDING_IRCDDB"
               PROVE  Fit(Announce(NotLinked(m)), cache)
    OBVIOUS
  <2>1. Gone(m)
    BY <1>1 DEF Fit, Solo, Carried, Active
  <2>2. /\ NotLinked(m).ccs = m.ccs /\ NotLinked(m).last = m.last
        /\ NotLinked(m).slots = m.slots
        /\ NotLinked(m).status = "NONE" /\ NotLinked(m).via = "NONE"
        /\ NotLinked(m) \in LinkState
    BY <1>2, NotLinkedType, ZenonT(60) DEF NotLinked, LinkState
  <2>3. Solo(NotLinked(m), cache)
    BY <1>1, <2>1, <2>2, ClearSolo DEF Fit, Solo, Gone, Dx
  <2> QED BY <1>1, <2>2, <2>3, TimersFit DEF Fit
<1> DEFINE n == CASE Asking(r) -> m
                  [] ~Asking(r) /\ m.status = "PENDING_IRCDDB" -> Announce(NotLinked(m))
                  [] ~Asking(r) /\ IsUp(m, "CCS") /\ m.status = "LINKING" ->
                       RestoreLinks(NotLinked(CcsStopLink(m)))
                  [] OTHER -> m
<1>4. Fit(n, cache)
  <2>1. CASE Asking(r)
    BY <1>1, <2>1
  <2>2. CASE ~Asking(r) /\ m.status = "PENDING_IRCDDB"
    BY <1>2, <1>3, <2>2
  <2>3. CASE ~Asking(r) /\ m.status # "PENDING_IRCDDB"
    BY <1>1, <1>2, <2>3
  <2> QED BY <2>1, <2>2, <2>3
<1> QED BY <1>4 DEF QueryDue, m

\* A tick with any set of timers expired.
LEMMA TickFit ==
  ASSUME OnlyDExtra, Steady, NEW due \in SUBSET Timers, Tick(due) PROVE Steady'
<1> DEFINE w  == IF "watchdog" \in due THEN "DUE" ELSE rf.watchdog
           r0 == [rf EXCEPT !.watchdog = w]
           a  == IF "reconnect" \in due THEN "DUE" ELSE link.reconnect
           b  == IF "query" \in due THEN "DUE" ELSE link.query
           l0 == [link EXCEPT !.reconnect = IF "reconnect" \in due THEN "DUE" ELSE @,
                              !.query = IF "query" \in due THEN "DUE" ELSE @]
           l1 == IF l0.reconnect = "DUE" THEN StartReconnect(ReconnectDue(l0)) ELSE l0
           r2 == IF l1.query = "DUE" THEN QueryDueRf(r0) ELSE r0
           l2 == IF l1.query = "DUE" THEN QueryDue(r0, l1) ELSE l1
           l3 == IF w = "DUE" /\ r2.id # 0 /\ Asking(r2)
                 THEN [l2 EXCEPT !.query = "OFF"] ELSE l2
<1>1. /\ ~PortChangeDue(l0) => link' = [l3 EXCEPT !.announce = FALSE]
      /\ PortChangeDue(l0) => \E r : Settle(r, ChangeModule(l0, l0.startup))
      /\ UNCHANGED cache
  BY DEF Tick
<1>2. link \in LinkState /\ a \in ReconnectTimer /\ b \in Timer
  BY DEF Steady, Fit, LinkState, ReconnectTimer, Timer
<1>3. l0 = [[link EXCEPT !.reconnect = a] EXCEPT !.query = b]
  BY <1>2 DEF LinkState
<1> HIDE DEF l0, a, b
<1>4. Fit(l0, cache)
  BY <1>2, <1>3, TimersFit DEF Steady
<1>5. CASE PortChangeDue(l0)
  <2>1. l0.startup \in Calls /\ l0.startup # l0.repeater /\ SameFamily(l0.repeater, l0.startup)
    BY <1>4, <1>5 DEF PortChangeDue, Fit, LinkState
  <2>2. Fit(ChangeModule(l0, l0.startup), cache)
    BY <1>4, <2>1, ChangeFit
  <2> QED BY <1>1, <1>5, <2>2, SettleFit
<1>6. CASE ~PortChangeDue(l0)
  <2>1. Fit(l1, cache)
    BY <1>4, ReconnectDueFit, TimersFit
  <2> HIDE DEF l1, r2, w, r0
  <2>2. Fit(l2, cache)
    BY <2>1, QueryDueFit
  <2> HIDE DEF l2
  <2>3. Fit(l3, cache)
    BY <2>2, TimersFit DEF Timer
  <2> HIDE DEF l3
  <2> QED BY <1>1, <1>6, <2>3, SettleFit
<1> QED BY <1>5, <1>6

\* The clock.
LEMMA ClockFit == ASSUME OnlyDExtra, Steady, Clock PROVE Steady'
<1>1. CASE MinutesPass
  <2>1. Fit([link EXCEPT !.reconnect = "LATE"], cache)
    BY TimersFit DEF Steady, ReconnectTimer
  <2>2. Fit(link', cache')
    BY <1>1, <2>1 DEF MinutesPass
  <2> QED BY <2>2 DEF Steady
<1> QED BY <1>1, TickFit DEF Clock

--------------------------------------------------------------------------------
\* ircDDB.

\* A gateway that becomes known is a DExtra one: no other cache entry changes.
LEMMA LearnFit ==
  ASSUME NEW l, Fit(l, cache), NEW f \in Families, Learn(f)
  PROVE  Fit(l, cache') /\ cache'[f] # "UNKNOWN"
<1>1. /\ cache' \in CacheType
      /\ \A g \in Families : cache[g] # "UNKNOWN" => cache'[g] = cache[g]
      /\ \A g \in Families : cache[g] = "UNKNOWN" => cache'[g] \in {"UNKNOWN", "DEXTRA"}
      /\ cache'[f] # "UNKNOWN"
  BY DEF Fit, Plain, CacheType, Learn, Vias, Tables
<1>2. \A c \in Calls : c.fam \in Families
  BY DEF Calls
<1>3. Plain(cache')
  BY <1>1 DEF Fit, Plain
<1>4. Searched(l, cache')
  BY <1>1, <1>2 DEF Fit, Solo, Searched
<1>5. \A i \in Slots : Carried(l, cache, i) => Carried(l, cache', i)
  BY <1>1, <1>2 DEF Carried
<1> QED BY <1>1, <1>3, <1>4, <1>5 DEF Fit, Solo

\* The answer to a search for a repeater.
LEMMA ResolveFit ==
  ASSUME OnlyDExtra, NEW l, NEW k, Fit(l, k), NEW c \in Calls, NEW found \in BOOLEAN,
         found => k[c.fam] # "UNKNOWN"
  PROVE  Fit(ResolveLink(l, c, found), k)
<1> DEFINE m == [l EXCEPT !.query = "OFF"]
<1>1. CASE ~(l.status = "PENDING_IRCDDB" /\ l.repeater = c)
  BY <1>1 DEF ResolveLink
<1>2. CASE l.status = "PENDING_IRCDDB" /\ l.repeater = c
  <2>1. Fit(m, k) /\ m.status = "PENDING_IRCDDB" /\ m.repeater = c
    <3>1. Fit(m, k)
      BY TimersFit DEF Timer
    <3> QED BY <1>2, <3>1 DEF Fit, LinkState
  <2>2. ResolveLink(l, c, found) = IF found /\ "DEXTRA" \in Enabled
                                   THEN StartLinking(m, "DEXTRA", c)
                                   ELSE Announce(NotLinked(m))
    BY <1>2 DEF ResolveLink
  <2> HIDE DEF m
  <2>3. Gone(m) /\ m \in LinkState
    BY <2>1 DEF Fit, Solo, Carried, Active
  <2>4. found => k[c.fam] = "DEXTRA"
    BY <2>1 DEF Fit, Solo, Searched
  <2>5. found /\ "DEXTRA" \in Enabled => Fit(StartLinking(m, "DEXTRA", c), k)
    <3>1. StartLinking(m, "DEXTRA", c) \in LinkState
      BY <2>3, StartFields
    <3> QED BY <2>1, <2>3, <2>4, <3>1, StartSolo DEF Fit
  <2>6. Fit(Announce(NotLinked(m)), k)
    <3>1. /\ NotLinked(m).ccs = m.ccs /\ NotLinked(m).last = m.last
          /\ NotLinked(m).slots = m.slots
          /\ NotLinked(m).status = "NONE" /\ NotLinked(m).via = "NONE"
          /\ NotLinked(m) \in LinkState
      BY <2>3, NotLinkedType, ZenonT(60) DEF NotLinked, LinkState
    <3>2. Solo(NotLinked(m), k)
      BY <2>1, <2>3, <3>1, ClearSolo DEF Fit, Solo, Gone, Dx
    <3> QED BY <2>1, <3>1, <3>2, TimersFit DEF Fit
  <2> QED BY <2>2, <2>5, <2>6
<1> QED BY <1>1, <1>2

\* The loop over D-Plus links to a gateway finds none.
LEMMA DPlusRemoveFit ==
  ASSUME NEW l, NEW k, Fit(l, k), NEW calls, NEW told
  PROVE  Fit(Remove(l, "DPLUS", calls, told), k)
<1> DEFINE t == l.slots["DPLUS"]
           v == Release(t, {})
           r == Put(l, "DPLUS", v)
<1>1. t \in Table /\ v \in Table
  BY SlotsType, ReleaseType DEF Fit, Tables
<1>2. v = t
  BY <1>1 DEF Release, Table
<1>3. {i \in Outgoing(t) : t[i].call \in calls} = {}
  BY DEF Fit, Solo, Quiet
<1>4. Remove(l, "DPLUS", calls, told) = r
  BY <1>3 DEF Remove, Report
<1>5. r \in LinkState
  BY <1>1, PutType DEF Fit
<1>6. [l.slots EXCEPT !["DPLUS"] = t] = l.slots
  BY DEF Fit, LinkState
<1> HIDE DEF v
<1>7. /\ r.relink = l.relink /\ r.ccs = l.ccs /\ r.last = l.last
      /\ r.status = l.status /\ r.via = l.via /\ r.repeater = l.repeater
      /\ r.slots = [l.slots EXCEPT !["DPLUS"] = v]
  BY DEF Put, Fit, LinkState
<1> HIDE DEF r
<1>8. r.slots = l.slots
  BY <1>2, <1>6, <1>7
<1> QED BY <1>4, <1>5, <1>7, <1>8, EditFit

\* The loop over DExtra links.
LEMMA RemoveFit ==
  ASSUME NEW l, Fit(l, cache), NEW calls, NEW told, "LINKED" \in told
  PROVE  Fit(Remove(l, "DEXTRA", calls, told), cache)
BY RemoveSolo DEF Fit, Plain, CacheType, CacheOK

\* The answers of ircDDB.
LEMMA IrcDDBAnswerFit == ASSUME OnlyDExtra, Steady, IrcDDBAnswer PROVE Steady'
<1>1. ASSUME NEW c \in Calls, NEW found \in BOOLEAN, IrcRepeater(c, found) PROVE Steady'
  <2> DEFINE mine == rf.g2 = "REPEATER" /\ rf.g2Call = c
             l == IF mine THEN [link EXCEPT !.query = "OFF"] ELSE link
             m == ResolveLink(l, c, found)
  <2>1. Fit(l, cache)
    BY TimersFit DEF Steady, Timer
  <2>2. /\ link' = [m EXCEPT !.announce = FALSE]
        /\ IF found THEN Learn(c.fam) ELSE UNCHANGED cache
    BY <1>1 DEF IrcRepeater, Settle
  <2>3. c.fam \in Families
    BY DEF Calls
  <2> HIDE DEF l
  <2>4. Fit(l, cache') /\ (found => cache'[c.fam] # "UNKNOWN")
    BY <2>1, <2>2, <2>3, LearnFit
  <2>5. Fit(m, cache')
    BY <2>4, ResolveFit
  <2> HIDE DEF m
  <2>6. Fit(link', cache')
    BY <2>2, <2>5, TimersFit
  <2> QED BY <2>6 DEF Steady
<1>2. CASE \E u \in Users, where \in {"SELF", "FAR"} : IrcUser(u, where)
  <2>1. UNCHANGED <<link, cache>>
    BY <1>2 DEF IrcUser
  <2> QED BY <2>1 DEF Steady
<1>3. ASSUME NEW f \in Families, IrcGateway(f, TRUE) PROVE Steady'
  <2>1. Fit(link, cache') /\ link' = link
    BY <1>3, LearnFit DEF IrcGateway, Steady
  <2>2. Fit(link', cache')
    BY <2>1
  <2> QED BY <2>2 DEF Steady
<1>4. ASSUME NEW f \in Families, IrcGateway(f, FALSE) PROVE Steady'
  <2> DEFINE a == Dropped(link, "DEXTRA", f)
             b == Dropped(a, "DPLUS", f)
  <2>1. LinkStep(b)
    BY <1>4 DEF IrcGateway
  <2>2. Fit(a, cache)
    BY RemoveFit DEF Dropped, Steady, Active
  <2> HIDE DEF a
  <2>3. Fit(b, cache)
    BY <2>2, DPlusRemoveFit DEF Dropped
  <2> HIDE DEF b
  <2> QED BY <2>1, <2>3, SettleFit DEF LinkStep
<1> QED BY <1>1, <1>2, <1>3, <1>4 DEF IrcDDBAnswer

--------------------------------------------------------------------------------
\* The far ends and the remote control.

\* Where a link is in use there is only the one that is shown.
LEMMA InUse ==
  ASSUME NEW l, NEW k, Fit(l, k), NEW i \in Outgoing(Dx(l))
  PROVE  Carried(l, k, i) /\ l.status # "NONE" /\ Outgoing(Dx(l)) = {i} /\ i \in Slots
<1>1. i \in Slots /\ Dx(l)[i].st # "FREE" /\ "FREE" \notin Active \cup {"UNLINKING"}
  BY DEF Outgoing, Active
<1>2. PICK j \in Slots : Carried(l, k, j)
  BY <1>1 DEF Fit, Solo, Gone
<1>3. i = j
  BY <1>1, <1>2 DEF Carried, OnlyIn
<1> QED BY <1>1, <1>2, <1>3 DEF Carried, OnlyIn, Outgoing, Active

\* The link comes up, or starts again, and the repeater shows it.
LEMMA ShownFit ==
  ASSUME NEW l, NEW k, Fit(l, k), NEW i \in Outgoing(Dx(l)), NEW st \in Active,
         NEW n \in LinkState, n.relink = l.relink, n.ccs = l.ccs, n.last = l.last,
         n.slots = l.slots, n.via = l.via, n.repeater = l.repeater, n.status = st
  PROVE  Fit(SetSlots(n, "DEXTRA", {i}, st), k)
<1> DEFINE m == SetSlots(n, "DEXTRA", {i}, st)
<1>1. Carried(l, k, i) /\ i \in Slots
  BY InUse
<1>2. st \in SlotState /\ "DEXTRA" \in Tables /\ "DPLUS" \in Tables /\ "DCS" \in Tables
  BY DEF Active, SlotState, Tables
<1>3. /\ m \in LinkState
      /\ m.relink = l.relink /\ m.ccs = l.ccs /\ m.last = l.last
      /\ m.status = st /\ m.via = l.via /\ m.repeater = l.repeater
      /\ \A u \in Tables : \A j \in Slots :
           IF u = "DEXTRA" /\ j \in {i}
           THEN m.slots[u][j].st = st /\ m.slots[u][j].call = l.slots[u][j].call
           ELSE m.slots[u][j] = l.slots[u][j]
  BY <1>2, SetSlotsFields, SMTT(60)
<1> HIDE DEF m
<1>4. Carried(m, k, i)
  BY <1>1, <1>2, <1>3 DEF Carried, OnlyIn, Dx
<1>5. Quiet(m)
  BY <1>2, <1>3 DEF Fit, Solo, Quiet, Outgoing
<1>6. m.via = "DEXTRA"
  BY <1>1, <1>3 DEF Fit, Solo, Carried
<1>7. Searched(m, k)
  BY <1>3 DEF Searched, Active
<1> QED BY <1>1, <1>3, <1>4, <1>5, <1>6, <1>7 DEF Fit, Solo, m

\* An answer of a DExtra gateway to a request to link.
LEMMA DExtraStepFit ==
  ASSUME Steady, NEW f, DExtraAck(f) \/ DExtraNak(f)
  PROVE  Steady' /\ link.status # "NONE"
<1> DEFINE t == Dx(link)
           S == {i \in InState("DEXTRA", "LINKING") : t[i].call.fam = f}
<1>1. Fit(link, cache) /\ link \in LinkState
  BY SMTT(60) DEF Steady, Fit
<1>2. PICK i \in S : TRUE
  BY DEF DExtraAck, DExtraNak, Dx
<1>3. S \subseteq Outgoing(t) /\ t[i].st = "LINKING"
  BY DEF InState, Outgoing, Active, Dx
<1>4. Carried(link, cache, i) /\ link.status # "NONE" /\ S = {i} /\ i \in Outgoing(t)
  BY <1>1, <1>2, <1>3, InUse
<1>5. link.status = "LINKING" /\ link.via = "DEXTRA" /\ t[i].call = link.repeater
  BY <1>1, <1>3, <1>4 DEF Carried, Fit, Solo, Active
<1>6. CASE DExtraAck(f)
  <2> DEFINE n == LinkUp(link, "DEXTRA")
             m == SetSlots(n, "DEXTRA", {i}, "LINKED")
  <2>1. LinkStep(m)
    BY <1>4, <1>6 DEF DExtraAck, Dx
  <2>2. "LINKED" \in Active /\ "DEXTRA" \in Vias /\ TableOf("DEXTRA") = "DEXTRA"
    BY DEF Active, Vias, Tables, TableOf
  <2>3. /\ n \in LinkState
        /\ n.relink = link.relink /\ n.ccs = link.ccs /\ n.last = link.last
        /\ n.slots = link.slots /\ n.via = link.via /\ n.repeater = link.repeater
        /\ n.status = "LINKED"
    BY <1>1, <1>5, <2>2, LinkUpFields
  <2> HIDE DEF n
  <2>4. Fit(m, cache)
    BY <1>1, <1>4, <2>2, <2>3, ShownFit, SMTT(60)
  <2> HIDE DEF m
  <2> QED BY <1>4, <2>1, <2>4, SettleFit, SMTT(60) DEF LinkStep
<1>7. CASE DExtraNak(f)
  <2> DEFINE a == Announce(NotLinked(link))
             v == Release(t, S)
             m == Put(a, "DEXTRA", v)
  <2>1. LinkStep(m)
    BY <1>4, <1>5, <1>7 DEF DExtraNak, LinkRefused, Dx
  <2>2. /\ a \in LinkState
        /\ a.ccs = link.ccs /\ a.last = link.last /\ a.slots = link.slots
        /\ a.status = "NONE" /\ a.via = "NONE"
    <3> DEFINE n == NotLinked(link)
    <3>1. n \in LinkState
      BY <1>1, NotLinkedType
    <3>2. n.ccs = link.ccs /\ n.last = link.last /\ n.slots = link.slots /\ n.status = "NONE" /\ n.via = "NONE"
      BY <1>1, ZenonT(60) DEF NotLinked, LinkState
    <3>3. a = Announce(n)
      OBVIOUS
    <3> HIDE DEF a, n
    <3>4. a \in LinkState
      BY <3>1, <3>3, AnnounceType
    <3>5. a.ccs = n.ccs /\ a.last = n.last /\ a.slots = n.slots /\ a.status = n.status /\ a.via = n.via
      BY <3>1, <3>3, ZenonT(60) DEF Announce, LinkState
    <3> QED BY <3>2, <3>4, <3>5
  <2>3. v \in Table
    BY <1>1, SlotsType, ReleaseType DEF Dx, Tables
  <2>4. \A j \in Slots : v[j].st = "FREE"
    BY <1>4 DEF Release, FreeSlot, Carried, OnlyIn
  <2> HIDE DEF a, v
  <2>5. /\ m \in LinkState /\ m.ccs = a.ccs /\ m.last = a.last
        /\ m.status = a.status /\ m.via = a.via
        /\ m.slots = [a.slots EXCEPT !["DEXTRA"] = v] /\ Dx(m) = v
    BY <2>2, <2>3, PutFields
  <2> HIDE DEF m
  <2>6. \A u \in {"DPLUS", "DCS"} : m.slots[u] = link.slots[u]
    BY <1>1, <2>2, <2>5 DEF LinkState, Tables
  <2>7. Solo(m, cache)
    <3>1. m.ccs = link.ccs /\ m.last = link.last /\ m.status = "NONE" /\ m.via = "NONE"
      BY <2>2, <2>5
    <3>2. \A j \in Slots : Dx(m)[j].st = "FREE"
      BY <2>4, <2>5
    <3>3. Quiet(link) /\ Searched(link, cache)
      BY <1>1 DEF Fit, Solo
    <3> QED BY <2>6, <3>1, <3>2, <3>3, ClearSolo
  <2>8. Fit(m, cache)
    BY <1>1, <2>5, <2>7 DEF Fit
  <2> QED BY <1>4, <2>1, <2>8, SettleFit DEF LinkStep
<1> QED BY <1>6, <1>7

\* A DExtra gateway ends the link: linkFailed() from the loop of process().
LEMMA DisconnectFit ==
  ASSUME Steady, NEW c, DExtraDisconnect(c) PROVE Steady' /\ link.status # "NONE"
<1> DEFINE m == Remove(link, "DEXTRA", {c}, {"LINKED"})
<1>1. Fit(link, cache)
  BY DEF Steady
<1>2. LinkStep(m) /\ \E i \in Outgoing(Dx(link)) : TRUE
  BY DEF DExtraDisconnect, ActiveTo, Outgoing, Dx
<1>3. Fit(m, cache)
  BY <1>1, RemoveFit
<1> HIDE DEF m
<1> QED BY <1>1, <1>2, <1>3, InUse, SettleFit DEF LinkStep

\* The time-out of a link: the handler keeps trying, and the repeater shows it.
LEMMA SlotTimeoutFit ==
  ASSUME Steady, NEW table \in Tables, NEW i, SlotTimeout(table, i)
  PROVE  Steady' /\ link.status # "NONE"
<1>1. Fit(link, cache) /\ link \in LinkState /\ i \in Outgoing(link.slots[table])
  BY DEF Steady, Fit, SlotTimeout, Mine
<1>2. table = "DEXTRA"
  BY <1>1 DEF Fit, Solo, Quiet, Tables
<1>3. i \in Outgoing(Dx(link))
  BY <1>1, <1>2 DEF Dx
<1>4. Carried(link, cache, i) /\ link.status # "NONE"
  BY <1>1, <1>3, InUse
<1> DEFINE c == link.slots["DEXTRA"][i].call
           n == LinkLost(link, "DEXTRA", c)
           m == SetSlots(n, "DEXTRA", {i}, "LINKING")
<1>5. c = link.repeater /\ link.status \in Active /\ link.via = "DEXTRA"
  BY <1>1, <1>4 DEF Carried, Fit, Solo, Dx
<1>6. "LINKING" \in Active /\ "DEXTRA" \in Vias /\ TableOf("DEXTRA") = "DEXTRA"
  BY DEF Active, Vias, Tables, TableOf
<1>7. KeepTrying(link, "DEXTRA", c)
  BY <1>5, <1>6 DEF KeepTrying
<1>8. LinkStep(m)
  BY <1>2, <1>7 DEF SlotTimeout
<1> HIDE DEF c
<1>9. n \in LinkState
  BY <1>1, LinkLostType
<1>10. /\ n.relink = link.relink /\ n.ccs = link.ccs /\ n.last = link.last
       /\ n.slots = link.slots /\ n.via = link.via /\ n.repeater = link.repeater
       /\ n.status = "LINKING"
  BY <1>1, <1>5, <1>7 DEF LinkLost, Announce, LinkState, Active
<1> HIDE DEF n
<1>11. Fit(m, cache)
  BY <1>1, <1>3, <1>6, <1>9, <1>10, ShownFit
<1> HIDE DEF m
<1> QED BY <1>4, <1>8, <1>11, SettleFit DEF LinkStep

\* D-Plus and DCS have no link to answer for.
LEMMA SocketsIdle ==
  ASSUME Steady, NEW i
  PROVE  /\ ~DPlusNak(i) /\ ~DPlusDisconnect(i) /\ ~DCSNak(i) /\ ~DCSDisconnect(i)
         /\ \A table \in {"DPLUS", "DCS"} : i \in Slots => ~LinkAck(table, i)
<1>1. \A table \in {"DPLUS", "DCS"} : Outgoing(link.slots[table]) = {}
  BY DEF Steady, Fit, Solo, Quiet
<1>2. \A table \in {"DPLUS", "DCS"} : ~Mine(table, i)
  BY <1>1 DEF Mine
<1>3. \A table \in {"DPLUS", "DCS"} : i \in Slots => ~LinkAck(table, i)
  BY <1>1 DEF LinkAck, InState, Outgoing, Active
<1> QED BY <1>2, <1>3 DEF DPlusNak, DPlusDisconnect, DCSNak, DCSDisconnect

\* Links of other repeaters in the two other tables.
LEMMA OtherFit ==
  ASSUME OnlyDExtra, Steady, NEW table \in Others,
         OtherTakes(table) \/ \E i \in Slots : OtherLeaves(table, i)
  PROVE  Steady' /\ (link.status = "NONE" => link'.status = "NONE")
<1>1. Fit(link, cache) /\ link \in LinkState /\ table \in Tables /\ table # "DEXTRA"
  BY RepeaterHandlerAssumption DEF OnlyDExtra, Steady, Fit
<1>2. ASSUME NEW m \in LinkState, LinkStep(m),
             m.relink = link.relink, m.ccs = link.ccs, m.last = link.last,
             m.status = link.status, m.via = link.via, m.repeater = link.repeater,
             \A j \in Slots : m.slots["DEXTRA"][j] = link.slots["DEXTRA"][j],
             \A u \in {"DPLUS", "DCS"} : Outgoing(m.slots[u]) = {}
      PROVE  Steady' /\ (link.status = "NONE" => link'.status = "NONE")
  <2>1. Fit(m, cache)
    BY <1>1, <1>2 DEF Fit, Solo, Quiet, Searched, Gone, Carried, OnlyIn, Dx
  <2>2. link'.status = m.status
    BY <1>2 DEF LinkStep, Settle, LinkState
  <2> QED BY <1>2, <2>1, <2>2, SettleFit DEF LinkStep
<1>3. \A u \in {"DPLUS", "DCS"} : \A j \in Slots :
        link.slots[u][j].st \notin Active \cup {"UNLINKING"}
  BY <1>1 DEF Fit, Solo, Quiet, Outgoing
<1>4. CASE OtherTakes(table)
  <2> DEFINE S == {FirstFree(link.slots[table])}
             m == SetSlots(link, table, S, "OTHER")
  <2>1. LinkStep(m)
    BY <1>4 DEF OtherTakes
  <2>2. "OTHER" \in SlotState /\ "OTHER" \notin Active \cup {"UNLINKING"}
    BY DEF SlotState, Active
  <2> HIDE DEF S
  <2>3. /\ m \in LinkState
        /\ m.relink = link.relink /\ m.ccs = link.ccs /\ m.last = link.last
        /\ m.status = link.status /\ m.via = link.via /\ m.repeater = link.repeater
        /\ \A u \in Tables : \A j \in Slots :
             IF u = table /\ j \in S THEN m.slots[u][j].st = "OTHER"
             ELSE m.slots[u][j] = link.slots[u][j]
    BY <1>1, <2>2, SetSlotsFields
  <2> HIDE DEF m
  <2>4. \A j \in Slots : m.slots["DEXTRA"][j] = link.slots["DEXTRA"][j]
    BY <1>1, <2>3 DEF Tables
  <2>5. \A u \in {"DPLUS", "DCS"} : Outgoing(m.slots[u]) = {}
    BY <1>3, <2>2, <2>3 DEF Tables, Outgoing
  <2> QED BY <1>2, <2>1, <2>3, <2>4, <2>5
<1>5. ASSUME NEW i \in Slots, OtherLeaves(table, i)
      PROVE  Steady' /\ (link.status = "NONE" => link'.status = "NONE")
  <2> DEFINE v == Release(link.slots[table], {i})
             m == Put(link, table, v)
  <2>1. LinkStep(m)
    BY <1>5 DEF OtherLeaves, Free
  <2>2. v \in Table
    BY <1>1, SlotsType, ReleaseType
  <2>3. m \in LinkState
    BY <1>1, <2>2, PutType
  <2>4. \A j \in Slots : v[j].st \in {link.slots[table][j].st, "FREE"}
    BY DEF Release, FreeSlot
  <2> HIDE DEF v
  <2>5. /\ m.relink = link.relink /\ m.ccs = link.ccs /\ m.last = link.last
        /\ m.status = link.status /\ m.via = link.via /\ m.repeater = link.repeater
        /\ m.slots = [link.slots EXCEPT ![table] = v]
    BY <1>1 DEF Put, LinkState
  <2> HIDE DEF m
  <2>6. \A u \in Tables : m.slots[u] = IF u = table THEN v ELSE link.slots[u]
    BY <1>1, <2>5 DEF LinkState
  <2>7. \A j \in Slots : m.slots["DEXTRA"][j] = link.slots["DEXTRA"][j]
    BY <1>1, <2>6 DEF Tables
  <2>8. \A u \in {"DPLUS", "DCS"} : Outgoing(m.slots[u]) = {}
    BY <1>1, <1>3, <2>4, <2>6 DEF Tables, Outgoing, Active
  <2> QED BY <1>2, <2>1, <2>3, <2>5, <2>7, <2>8
<1> QED BY <1>4, <1>5

\* Whatever a far end does or fails to do, and no link comes of it.
LEMMA NetworkFit ==
  ASSUME OnlyDExtra, Steady, Network
  PROVE  Steady' /\ (link.status = "NONE" => link'.status = "NONE")
<1>1. CASE \E f \in Families : DExtraAck(f) \/ DExtraNak(f)
  BY <1>1, DExtraStepFit
<1>2. CASE \E c \in Calls : DExtraDisconnect(c)
  BY <1>2, DisconnectFit
<1>3. CASE \E i \in Slots : \/ DPlusNak(i) \/ DPlusDisconnect(i)
                            \/ DCSNak(i) \/ DCSDisconnect(i)
                            \/ \E table \in {"DPLUS", "DCS"} : LinkAck(table, i)
                            \/ \E table \in Tables : SlotTimeout(table, i)
  BY <1>3, SocketsIdle, SlotTimeoutFit
<1>4. CASE \E table \in Others : OtherTakes(table) \/ \E i \in Slots : OtherLeaves(table, i)
  BY <1>4, OtherFit
<1> QED BY <1>1, <1>2, <1>3, <1>4 DEF Network

\* The CCS client is disabled and stays so.
LEMMA CcsNever == ASSUME Steady PROVE ~Ccs /\ ~RemoteUnlinkCcs
<1>1. link.ccs = "DISABLED"
  BY DEF Steady, Fit, Solo, Quiet
<1> QED BY <1>1 DEF Ccs, CcsAck, CcsNak, CcsIncomingCall, CcsTerminate, CcsFound, CcsNotFound,
           CcsPollLost, RemoteUnlinkCcs

\* The remote control sets the mode and the reflector of a repeater.
LEMMA RemoteLinkFit ==
  ASSUME OnlyDExtra, Steady, NEW mode \in RemoteModes, NEW c \in RemoteTargets,
         RemoteLink(mode, c)
  PROVE  Steady'
<1> DEFINE k == DropCcs(link)
           t == k.timeout \/ mode = "TIMED"
           w == IF mode = "TIMED" THEN "RUN" ELSE "OFF"
           l == [k EXCEPT
                   !.startup = c, !.mode = mode, !.timeout = @ \/ mode = "TIMED",
                   !.reconnect = IF mode = "TIMED" THEN "RUN" ELSE "OFF"]
           A == (l.status # "NONE" /\ l.repeater = c) \/ (l.status = "NONE" /\ c = NoCall)
           B == l.status # "NONE" /\ l.repeater # c /\ c = NoCall
           C == l.status # "NONE" /\ l.repeater # c /\ c # NoCall /\ SameFamily(l.repeater, c)
           n == CASE A -> l
                  [] B -> Announce(NotLinked(UnlinkAll(l)))
                  [] C -> ChangeModule(l, c)
                  [] OTHER -> LinkInt(UnlinkAll(l), c)
<1>1. LinkStep(n)
  BY DEF RemoteLink
<1>2. c \in Calls \cup {NoCall} /\ c \in AnyCall /\ mode \in {"NEVER", "FIXED", "TIMED"}
  BY RepeaterHandlerAssumption DEF AnyCall
<1>3. Fit(link, cache) /\ link.via # "CCS"
  BY DEF Steady, Fit, Solo
<1>4. k = link
  BY <1>3 DEF DropCcs, ByCcs
<1> HIDE DEF k
<1>5. k \in LinkState /\ Fit(k, cache)
  BY <1>3, <1>4 DEF Fit
<1>6. t \in BOOLEAN /\ w \in ReconnectTimer
  BY <1>5 DEF ReconnectTimer, Timer
<1>7. l = [k EXCEPT !.startup = c, !.mode = mode, !.timeout = t, !.reconnect = w]
  BY <1>5 DEF LinkState
<1> HIDE DEF t, w
<1>8. l \in LinkState
  <2>1. [k EXCEPT !.startup = c, !.mode = mode] \in LinkState
    BY <1>2, <1>5 DEF LinkState
  <2>2. \A p \in LinkState : [p EXCEPT !.timeout = t, !.reconnect = w] \in LinkState
    BY <1>6, ZenonT(60) DEF LinkState
  <2> QED BY <1>7, <2>1, <2>2
<1>9. /\ l.status = k.status /\ l.via = k.via /\ l.repeater = k.repeater
      /\ l.slots = k.slots /\ l.relink = k.relink /\ l.ccs = k.ccs /\ l.last = k.last
  BY <1>5, <1>7 DEF LinkState
<1> HIDE DEF l
<1>10. Fit(l, cache)
  BY <1>5, <1>8, <1>9, EditFit
<1>11. Fit(n, cache)
  <2>1. CASE A
    BY <1>10, <2>1
  <2>2. CASE ~A /\ B
    <3>1. n = Announce(NotLinked(UnlinkAll(l)))
      BY <2>2
    <3> QED BY <1>10, <3>1, UnlinkFit
  <2>3. CASE ~A /\ ~B /\ C
    <3>1. n = ChangeModule(l, c) /\ c \in Calls /\ c # l.repeater /\ SameFamily(l.repeater, c)
      BY <1>2, <2>3
    <3> QED BY <1>10, <3>1, ChangeFit
  <2>4. CASE ~A /\ ~B /\ ~C
    <3>1. n = LinkInt(UnlinkAll(l), c)
      BY <2>4
    <3> QED BY <1>2, <1>10, <3>1, UnlinkLinkFit
  <2> QED BY <2>1, <2>2, <2>3, <2>4
<1> HIDE DEF n
<1> QED BY <1>1, <1>11, SettleFit DEF LinkStep

\* The remote control.
LEMMA RemoteFit == ASSUME OnlyDExtra, Steady, Remote PROVE Steady'
<1>1. Fit(link, cache) /\ link \in LinkState /\ Solo(link, cache)
  BY DEF Steady, Fit
<1>2. ASSUME NEW table \in Tables, NEW c, RemoteUnlink(table, c) PROVE Steady'
  <2> DEFINE m == TableUnlinkBy(link, table, c)
  <2>1. Fit(m, cache)
    <3>1. CASE table = "DEXTRA"
      BY <1>1, <3>1, RemoveFit DEF TableUnlinkBy, DExtraUnlink, Active
    <3>2. CASE table = "DPLUS"
      BY <1>1, <3>2, NothingToUnlink DEF TableUnlinkBy, Fit
    <3>3. CASE table = "DCS"
      BY <1>1, <3>3, NothingToUnlink DEF TableUnlinkBy, Fit
    <3> QED BY <3>1, <3>2, <3>3 DEF Tables
  <2> HIDE DEF m
  <2>2. LinkStep(m)
    BY <1>2 DEF RemoteUnlink, m
  <2> QED BY <2>1, <2>2, SettleFit DEF LinkStep
<1> QED BY <1>2, RemoteLinkFit, CcsNever DEF Remote

--------------------------------------------------------------------------------
\* The theorems.

\* startupInt(), by a repeater that has no link.
LEMMA StartupFit ==
  ASSUME OnlyDExtra, NEW l, Fit(l, cache), Gone(l), l.status = "NONE", NEW c \in AnyCall
  PROVE  Fit(LinkAtStartup(l, c), cache)
<1> DEFINE pending == [l EXCEPT !.status = "PENDING_IRCDDB", !.repeater = c, !.query = "RUN"]
           unknown == [l EXCEPT !.repeater = c]
<1>1. l \in LinkState /\ Solo(l, cache) /\ Plain(cache) /\ l.via = "NONE"
  BY DEF Fit, Solo, Active
<1>2. FindRepeater(c) = "UNKNOWN" => Fit(pending, cache)
  <2> SUFFICES ASSUME FindRepeater(c) = "UNKNOWN" PROVE Fit(pending, cache)
    OBVIOUS
  <2>1. pending \in LinkState
    BY <1>1 DEF LinkState, Timer
  <2>2. /\ pending.status = "PENDING_IRCDDB" /\ pending.via = "NONE"
        /\ pending.repeater = c /\ pending.ccs = l.ccs /\ pending.last = l.last
        /\ pending.slots = l.slots
    BY <1>1 DEF LinkState
  <2> HIDE DEF pending
  <2>3. Quiet(pending) /\ Gone(pending)
    BY <1>1, <2>2 DEF Solo, Quiet, Gone, Dx
  <2>4. Searched(pending, cache)
    BY <2>2 DEF FindRepeater, Searched
  <2> QED BY <1>1, <2>1, <2>2, <2>3, <2>4 DEF Fit, Solo, Active
<1>3. Fit(unknown, cache)
  <2>1. unknown \in LinkState
    BY <1>1 DEF LinkState
  <2>2. /\ unknown.status = "NONE" /\ unknown.via = "NONE" /\ unknown.slots = l.slots
        /\ unknown.ccs = l.ccs /\ unknown.last = l.last
    BY <1>1 DEF LinkState
  <2> HIDE DEF unknown
  <2> QED BY <1>1, <2>1, <2>2 DEF Fit, Solo, Quiet, Searched, Gone, Dx, Active
<1>4. Fit(LinkInt(l, c), cache)
  BY <1>1, LinkIntSolo DEF Fit, OnlyDExtra
<1> HIDE DEF pending, unknown
<1> DEFINE n == CASE c = NoCall -> l
                  [] c # NoCall /\ FindRepeater(c) = "UNKNOWN" /\ IrcDDB -> pending
                  [] c # NoCall /\ FindRepeater(c) = "UNKNOWN" /\ ~IrcDDB -> unknown
                  [] OTHER -> LinkInt(l, c)
<1>5. Fit(n, cache)
  <2>1. CASE c = NoCall
    BY <2>1
  <2>2. CASE c # NoCall /\ FindRepeater(c) = "UNKNOWN"
    BY <2>2, <1>2, <1>3
  <2>3. CASE c # NoCall /\ FindRepeater(c) # "UNKNOWN"
    BY <2>3, <1>4
  <2> QED BY <2>1, <2>2, <2>3
<1> QED BY <1>5 DEF LinkAtStartup, pending, unknown

\* A repeater starts in order.
LEMMA InitFit == ASSUME OnlyDExtra PROVE Init => Steady
<1> SUFFICES ASSUME Init PROVE Steady
  OBVIOUS
<1>1. PICK mode \in Modes, startup \in Startups, atStartup \in BOOLEAN :
        link = [LinkAtStartup(Fresh(mode, startup),
                              IF atStartup THEN startup ELSE NoCall)
                  EXCEPT !.announce = FALSE]
  BY DEF Init
<1> DEFINE l == Fresh(mode, startup)
           c == IF atStartup THEN startup ELSE NoCall
<1>2. l \in LinkState
  BY FreshType
<1>3. /\ l.status = "NONE" /\ l.via = "NONE" /\ l.last = NoCall /\ l.ccs = "DISABLED"
      /\ \A table \in Tables : \A i \in Slots : l.slots[table][i] = FreeSlot
  BY DEF Fresh, OnlyDExtra
<1>4. c \in AnyCall
  BY RepeaterHandlerAssumption DEF AnyCall
<1> HIDE DEF l, c
<1>5. FreeSlot.st = "FREE" /\ "FREE" \notin Active \cup {"UNLINKING"}
  BY DEF FreeSlot, Active
<1>6. Quiet(l) /\ Gone(l)
  BY <1>3, <1>5 DEF Quiet, Gone, Outgoing, Dx, Tables
<1>7. Plain(cache)
  BY RepeaterHandlerAssumption DEF Init, Plain, CacheType, OnlyDExtra
<1>8. Fit(l, cache)
  BY <1>2, <1>3, <1>6, <1>7 DEF Fit, Solo, Searched, Active
<1>9. Fit(LinkAtStartup(l, c), cache)
  BY <1>3, <1>4, <1>6, <1>8, StartupFit
<1> QED BY <1>1, <1>9, TimersFit DEF Steady, l, c

\* No step leaves the invariant.
LEMMA NextFit == ASSUME OnlyDExtra PROVE Steady /\ [Next]_vars => Steady'
<1> SUFFICES ASSUME Steady, [Next]_vars PROVE Steady'
  OBVIOUS
<1>1. CASE Next
  BY <1>1, RadioFit, ClockFit, IrcDDBAnswerFit, NetworkFit, CcsNever, RemoteFit DEF Next
<1>2. CASE UNCHANGED vars
  BY <1>2 DEF vars, Steady
<1> QED BY <1>1, <1>2

\* The table holds the link the repeater shows, in the state that is shown, or
\* nothing, after every change of module, loss, refusal and command.
THEOREM LinkStaysSolo == ASSUME OnlyDExtra PROVE Spec => []Steady
BY InitFit, NextFit, PTL DEF Spec

\* A link shown as made is a linked slot to the repeater that is shown, however
\* the change of module that led to it went (RepeaterHandler.cpp 2110-2131).
THEOREM LinkedStands == ASSUME OnlyDExtra PROVE Spec => []LinkedIsReal
<1>1. Steady => LinkedIsReal
  <2> SUFFICES ASSUME Steady, link.status = "LINKED", link.via \in Vias
               PROVE  \E i \in InState(TableOf(link.via), "LINKED") :
                        SlotCall(TableOf(link.via), i) = link.repeater
    BY DEF LinkedIsReal
  <2>1. link.via = "DEXTRA" /\ TableOf(link.via) = "DEXTRA"
    BY DEF Steady, Fit, Solo, Active, TableOf
  <2>2. PICK i \in Slots : Carried(link, cache, i)
    BY DEF Steady, Fit, Solo, Gone
  <2> QED BY <2>1, <2>2 DEF Carried, InState, SlotCall, Dx
<1> QED BY <1>1, LinkStaysSolo, PTL

\* A repeater shown as not linked has no link left that carries its audio: what
\* linkFailed() links again from inside the loop is shown, or ended by it.
THEOREM NoneIsOrphaned == ASSUME OnlyDExtra PROVE Spec => []NoOrphan
<1>1. Steady => NoOrphan
  <2> SUFFICES ASSUME Steady, link.status = "NONE", NEW table \in Tables PROVE Act(table) = {}
    BY DEF NoOrphan
  <2>1. CASE table = "DEXTRA"
    BY <2>1 DEF Steady, Fit, Solo, Gone, Carried, Act, Active, Dx
  <2>2. CASE table # "DEXTRA"
    BY <2>2 DEF Steady, Fit, Solo, Quiet, Outgoing, Act, Active, Tables
  <2> QED BY <2>1, <2>2
<1> QED BY <1>1, LinkStaysSolo, PTL

\* A repeater has one outgoing link at most, changes of module included.
THEOREM OneAtATime == ASSUME OnlyDExtra PROVE Spec => []OneOutgoing
<1>1. Steady => OneOutgoing
  <2> SUFFICES ASSUME Steady, NEW t \in Tables, NEW u \in Tables,
                      NEW i \in Act(t), NEW j \in Act(u)
               PROVE  t = u /\ i = j
    BY DEF OneOutgoing
  <2>1. \A table \in {"DPLUS", "DCS"} : Act(table) = {}
    BY DEF Steady, Fit, Solo, Quiet, Outgoing, Act, Active
  <2>2. t = "DEXTRA" /\ u = "DEXTRA"
    BY <2>1 DEF Tables
  <2>3. i \in Outgoing(Dx(link)) /\ j \in Outgoing(Dx(link))
    BY <2>2 DEF Act, Outgoing, Dx
  <2>4. Outgoing(Dx(link)) = {i}
    BY <2>3, InUse DEF Steady
  <2> QED BY <2>2, <2>3, <2>4
<1> QED BY <1>1, LinkStaysSolo, PTL

\* The only DExtra link is to the repeater's target and in the state that is
\* shown, changes of module included.
THEOREM ShownAsItIs == ASSUME OnlyDExtra PROVE Spec => []DExtraFollows
<1>1. Steady => DExtraFollows
  <2> SUFFICES ASSUME Steady, NEW i \in Act("DEXTRA")
               PROVE  /\ Act("DEXTRA") = {i}
                      /\ link.via = "DEXTRA" /\ link.repeater = SlotCall("DEXTRA", i)
                      /\ link.status = link.slots["DEXTRA"][i].st
    BY DEF DExtraFollows
  <2>1. i \in Outgoing(Dx(link))
    BY DEF Act, Outgoing, Dx
  <2>2. Carried(link, cache, i) /\ Outgoing(Dx(link)) = {i}
    BY <2>1, InUse DEF Steady
  <2>3. Act("DEXTRA") \subseteq Outgoing(Dx(link))
    BY DEF Act, Outgoing, Dx
  <2> QED BY <2>2, <2>3 DEF Carried, Steady, Fit, Solo, SlotCall, Dx
<1> QED BY <1>1, LinkStaysSolo, PTL

\* Without CCS, no link carries audio but the one to the repeater's present
\* target, changes of module included.
THEOREM TargetOnly == ASSUME OnlyDExtra PROVE Spec => []ActiveToRepeater
<1>1. Steady => ActiveToRepeater
  <2> SUFFICES ASSUME Steady, NEW table \in Tables, NEW i \in Act(table)
               PROVE  /\ SlotCall(table, i) = link.repeater
                      /\ link.via \in Vias /\ TableOf(link.via) = table
    BY DEF ActiveToRepeater
  <2>1. table = "DEXTRA"
    BY DEF Steady, Fit, Solo, Quiet, Outgoing, Act, Active, Tables
  <2>2. i \in Outgoing(Dx(link))
    BY <2>1 DEF Act, Outgoing, Dx
  <2>3. Carried(link, cache, i)
    BY <2>2, InUse DEF Steady
  <2>4. link.via = "DEXTRA"
    BY <2>3 DEF Carried, Steady, Fit, Solo
  <2> QED BY <2>1, <2>3, <2>4 DEF Carried, SlotCall, TableOf, Vias, Tables, Dx
<1> QED BY <1>1, LinkStaysSolo, PTL

\* No message or time-out of a far end links a repeater that is not linked,
\* although m_linkRelink may still be set: no link is left to fail.
THEOREM NeverRelinked == ASSUME OnlyDExtra PROVE Spec => NetworkNeverLinks
<1> DEFINE Stays == Network /\ link.status = "NONE" => link'.status = "NONE"
<1>1. Steady /\ [Next]_vars => [Stays]_vars
  BY NetworkFit
<1>2. Spec => [][Stays]_vars
  BY <1>1, LinkStaysSolo, PTL DEF Spec
<1> QED BY <1>2 DEF NetworkNeverLinks

================================================================================
